------------------------------ MODULE BotLifecycle ------------------------------
(***************************************************************************)
(* One container of the bot in time: the tasks main.py starts (reminder    *)
(* scheduler, auto-kick sweep, sidecar), the signals they leave for the    *)
(* probes of health/, and the container platform that probes /healthz and  *)
(* restarts what does not answer.  Everything in the process shares one    *)
(* event loop: a statement of the synchronous database driver stops every  *)
(* task, and the health server with them.                                  *)
(*                                                                         *)
(* Time is discrete and kept as ages and timers, so that behaviours have   *)
(* no end; what is due happens before time goes on.                        *)
(***************************************************************************)
EXTENDS Naturals

CONSTANTS
    TickSeconds,                  \* tick_seconds of both schedulers
    HEARTBEAT_THRESHOLD_SECONDS,
    PROGRESS_THRESHOLD_SECONDS,
    ProbePeriod, FailureThreshold, InitialDelay,   \* of the liveness probe
    MaxStart,      \* bound: from the start of a container to its first tick
    MaxWork,       \* bound: the awaits of one tick
    MaxBlock,      \* bound: one statement of the database driver
    MaxFaults,     \* bound: disconnects, errors, long statements, hangs, shutdowns
    Never, Forever

ASSUME TimeAssumption ==
    /\ {TickSeconds, HEARTBEAT_THRESHOLD_SECONDS, PROGRESS_THRESHOLD_SECONDS,
        ProbePeriod, FailureThreshold, MaxStart, MaxBlock} \subseteq Nat \ {0}
    /\ {InitialDelay, MaxWork, MaxFaults} \subseteq Nat
    /\ Never \notin Nat /\ Forever \notin Nat /\ Never # Forever

Scheduler == {"reminders", "auto_kick"}

Age(limit) == 0 .. limit \cup {Never}

\* "none": not created; "waiting": wait_until_ready and the seed; "hung": an
\* await that does not return; "dead": an exception has ended the task.
Task == [pc : {"none", "waiting", "working", "asleep", "hung", "dead"},
         t : 0 .. TickSeconds + MaxStart + MaxWork]

Progress == [running : BOOLEAN, failed : BOOLEAN, last_success : Age(PROGRESS_THRESHOLD_SECONDS)]

VARIABLES
    up,         \* the phase of the process: setup_hook, running, close()
    gateway,    \* is_ready()
    task,       \* _reminder_task and _auto_kick_task
    blocked,    \* how long the event loop has been in a statement; Never: free
    heartbeat,  \* the age of last_heartbeat
    progress,   \* _states of health/progress.py
    sidecar,    \* what _sidecar_task refers to
    servers,    \* history: uvicorn servers that are serving
    probe,      \* the platform: time to the next probe, failures in a row
    row,        \* history: the present row of failed probes
    ended,      \* history: how and when the last cycle of a scheduler ended
    faults

vars == <<up, gateway, task, blocked, heartbeat, progress, sidecar, servers,
          probe, row, ended, faults>>

TypeOK ==
    /\ up \in {"setup", "running", "draining", "cleaned", "down"}
    /\ gateway \in BOOLEAN
    /\ task \in [Scheduler -> Task]
    /\ blocked \in Age(MaxBlock) \cup {Forever}
    /\ heartbeat \in Age(HEARTBEAT_THRESHOLD_SECONDS)
    /\ progress \in [Scheduler -> Progress]
    /\ sidecar \in {"none", "serving", "done"}
    /\ servers \in Nat
    /\ probe \in [next : 0 .. InitialDelay + ProbePeriod, failures : 0 .. FailureThreshold]
    /\ row \in {"first", "calm", "stalled"}
    /\ ended \in [Scheduler -> [ok : BOOLEAN, age : Age(PROGRESS_THRESHOLD_SECONDS)]]
    /\ faults \in 0 .. MaxFaults

NoProgress == [s \in Scheduler |-> [running |-> FALSE, failed |-> FALSE, last_success |-> Never]]

NotEnded == [ok |-> FALSE, age |-> Never]

\* The modules as a new process imports them.
Init ==
    /\ up = "setup"
    /\ gateway = FALSE
    /\ task = [s \in Scheduler |-> [pc |-> "none", t |-> 0]]
    /\ blocked = Never
    /\ heartbeat = Never
    /\ progress = NoProgress
    /\ sidecar = "none"
    /\ servers = 0
    /\ probe = [next |-> InitialDelay, failures |-> 0]
    /\ row = "first"
    /\ ended = [s \in Scheduler |-> NotEnded]
    /\ faults = 0

SpendFault == faults < MaxFaults /\ faults' = faults + 1

Free == blocked = Never

Alive == up \in {"running", "draining", "cleaned"}

Go(s, pc) == [pc |-> pc, t |-> 0]

--------------------------------------------------------------------------------
(* Start: setup_hook, READY, _start_reminders_after_ready.                 *)

\* The health server answers before setup_hook has read its secrets and
\* registered the commands; then the reminder task is created.
SetUp ==
    /\ up = "setup" /\ Free
    /\ up' = "running"
    /\ task' = [task EXCEPT !["reminders"].pc = "waiting"]
    /\ UNCHANGED <<gateway, blocked, heartbeat, progress, sidecar, servers,
                   probe, row, ended, faults>>

\* Mutant of GatewayReady: on_ready does not look at the task of an earlier one.
GatewayReadyUnguarded ==
    /\ Alive /\ Free /\ ~gateway
    /\ gateway' = TRUE
    /\ sidecar' = "serving" /\ servers' = servers + 1
    /\ UNCHANGED <<up, task, blocked, heartbeat, progress, probe, row, ended, faults>>

\* READY, the first or one after a reconnect, also while close() is under way.
\* on_ready runs to its end without a suspension (the day-role seed awaits
\* nothing) and starts the sidecar unless the task of an earlier READY is there.
GatewayReady ==
    /\ Alive /\ Free /\ ~gateway
    /\ gateway' = TRUE
    /\ \/ /\ sidecar # "serving"
          /\ sidecar' = "serving" /\ servers' = servers + 1
          /\ UNCHANGED faults
       \* The guild or a secret is missing: no sidecar.
       \/ sidecar # "serving" /\ SpendFault /\ UNCHANGED <<sidecar, servers>>
       \/ sidecar = "serving" /\ UNCHANGED <<sidecar, servers, faults>>
    /\ UNCHANGED <<up, task, blocked, heartbeat, progress, probe, row, ended>>

Disconnect ==
    /\ gateway /\ SpendFault
    /\ gateway' = FALSE
    /\ UNCHANGED <<up, task, blocked, heartbeat, progress, sidecar, servers,
                   probe, row, ended>>

\* run: progress.started, and the loop begins with a tick.  The reminder task
\* creates the sweep's and goes on as the scheduler.
Started(s) == [running |-> TRUE, failed |-> FALSE, last_success |-> Never]

StartSchedulers ==
    /\ Alive /\ Free
    /\ task["reminders"].pc = "waiting" /\ gateway
    /\ task' = [s \in Scheduler |-> [pc |-> "asleep", t |-> TickSeconds]]
    /\ progress' = [s \in Scheduler |-> Started(s)]
    /\ UNCHANGED <<up, gateway, blocked, heartbeat, sidecar, servers,
                   probe, row, ended, faults>>

\* A secret, the channel or the guild is missing.
StartFails ==
    /\ Alive /\ Free
    /\ task["reminders"].pc = "waiting" /\ gateway /\ SpendFault
    /\ task' = [task EXCEPT !["reminders"] = Go("reminders", "dead")]
    /\ UNCHANGED <<up, gateway, blocked, heartbeat, progress, sidecar, servers,
                   probe, row, ended>>

SidecarEnds ==
    /\ Alive /\ Free
    /\ sidecar = "serving" /\ SpendFault
    /\ sidecar' = "done" /\ servers' = servers - 1
    /\ UNCHANGED <<up, gateway, task, blocked, heartbeat, progress,
                   probe, row, ended>>

--------------------------------------------------------------------------------
(* The two loops.                                                          *)

Failed(s) == progress' = [progress EXCEPT ![s].failed = TRUE]

Succeeded(s) ==
    progress' = [progress EXCEPT ![s].failed = FALSE, ![s].last_success = 0]

Ended(s, ok) == ended' = [ended EXCEPT ![s] = [ok |-> ok, age |-> 0]]

Wakes(s) ==
    /\ Alive /\ Free
    /\ task[s].pc = "asleep" /\ task[s].t >= TickSeconds

\* Mutant of Tick: the heartbeat is recorded behind the readiness guard.
TickBeatsLate(s) ==
    /\ Wakes(s)
    /\ heartbeat' = IF s = "reminders" /\ gateway THEN 0 ELSE heartbeat
    /\ \/ /\ gateway
          /\ task' = [task EXCEPT ![s] = Go(s, "working")]
          /\ UNCHANGED <<progress, ended>>
       \/ /\ ~gateway
          /\ Failed(s) /\ Ended(s, FALSE)
          /\ task' = [task EXCEPT ![s] = Go(s, "asleep")]
    /\ UNCHANGED <<up, gateway, blocked, sidecar, servers, probe, row, faults>>

\* Mutant of Tick: a skipped tick is no failure.
TickSkipsQuietly(s) ==
    /\ Wakes(s)
    /\ heartbeat' = IF s = "reminders" THEN 0 ELSE heartbeat
    /\ \/ /\ gateway
          /\ task' = [task EXCEPT ![s] = Go(s, "working")]
          /\ UNCHANGED ended
       \/ /\ ~gateway
          /\ Ended(s, FALSE)
          /\ task' = [task EXCEPT ![s] = Go(s, "asleep")]
    /\ UNCHANGED <<up, gateway, blocked, progress, sidecar, servers, probe, row, faults>>

\* The top of the loop: the heartbeat first, in the reminder loop only.
Tick(s) ==
    /\ Wakes(s)
    /\ heartbeat' = IF s = "reminders" THEN 0 ELSE heartbeat
    /\ \/ /\ gateway
          /\ task' = [task EXCEPT ![s] = Go(s, "working")]
          /\ UNCHANGED <<progress, ended>>
       \/ /\ ~gateway
          /\ Failed(s) /\ Ended(s, FALSE)
          /\ task' = [task EXCEPT ![s] = Go(s, "asleep")]
    /\ UNCHANGED <<up, gateway, blocked, sidecar, servers, probe, row, faults>>

Works(s) == Alive /\ Free /\ task[s].pc = "working"

\* Mutant of Complete: a failure is remembered for ever.
CompleteStaysFailed(s) ==
    /\ Works(s)
    /\ progress' = [progress EXCEPT ![s].last_success = 0]
    /\ Ended(s, TRUE)
    /\ task' = [task EXCEPT ![s] = Go(s, "asleep")]
    /\ UNCHANGED <<up, gateway, blocked, heartbeat, sidecar, servers, probe, row, faults>>

Complete(s) ==
    /\ Works(s)
    /\ Succeeded(s) /\ Ended(s, TRUE)
    /\ task' = [task EXCEPT ![s] = Go(s, "asleep")]
    /\ UNCHANGED <<up, gateway, blocked, heartbeat, sidecar, servers, probe, row, faults>>

\* A transient error of a reminder, or the query of the sweep fails.
Abort(s) ==
    /\ Works(s) /\ SpendFault
    /\ Failed(s) /\ Ended(s, FALSE)
    /\ task' = [task EXCEPT ![s] = Go(s, "asleep")]
    /\ UNCHANGED <<up, gateway, blocked, heartbeat, sidecar, servers, probe, row>>

\* An exception leaves the sweep: progress.stopped, and nothing starts it again.
SweepDies ==
    /\ Works("auto_kick") /\ SpendFault
    /\ task' = [task EXCEPT !["auto_kick"] = Go("auto_kick", "dead")]
    /\ progress' = [progress EXCEPT !["auto_kick"].running = FALSE]
    /\ UNCHANGED <<up, gateway, blocked, heartbeat, sidecar, servers, probe, row, ended>>

\* An await that never returns.
Hang(s) ==
    /\ Alive /\ Free
    /\ task[s].pc \in {"waiting", "working"} /\ SpendFault
    /\ task' = [task EXCEPT ![s] = Go(s, "hung")]
    /\ UNCHANGED <<up, gateway, blocked, heartbeat, progress, sidecar, servers,
                   probe, row, ended>>

--------------------------------------------------------------------------------
(* The event loop in a statement of the synchronous driver.  Bound: a      *)
(* statement too short for a unit of time is not told apart.               *)

Block ==
    /\ Alive /\ Free
    /\ \E s \in Scheduler : task[s].pc = "working" /\ task[s].t < MaxWork
    /\ blocked' \in {0, Forever} /\ SpendFault
    /\ UNCHANGED <<up, gateway, task, heartbeat, progress, sidecar, servers,
                   probe, row, ended>>

Unblock ==
    /\ blocked \in 1 .. MaxBlock
    /\ blocked' = Never
    /\ UNCHANGED <<up, gateway, task, heartbeat, progress, sidecar, servers,
                   probe, row, ended, faults>>

--------------------------------------------------------------------------------
(* close(), after a signal or a fatal error of the gateway: the sidecar is *)
(* drained, then the health server goes, then the process; the loops tick  *)
(* on until the end.                                                       *)

Close ==
    /\ up = "running" /\ Free /\ SpendFault
    /\ up' = "draining"
    /\ UNCHANGED <<gateway, task, blocked, heartbeat, progress, sidecar, servers,
                   probe, row, ended>>

Drained ==
    /\ up = "draining" /\ Free
    /\ up' = "cleaned"
    /\ sidecar' = IF sidecar = "serving" THEN "done" ELSE sidecar
    /\ servers' = IF sidecar = "serving" THEN servers - 1 ELSE servers
    /\ UNCHANGED <<gateway, task, blocked, heartbeat, progress, probe, row, ended, faults>>

\* The process and all that its modules remember are gone.
Gone ==
    /\ up' = "down"
    /\ gateway' = FALSE
    /\ task' = [s \in Scheduler |-> Go(s, "none")]
    /\ blocked' = Never
    /\ heartbeat' = Never
    /\ progress' = NoProgress
    /\ sidecar' = "none"
    /\ servers' = 0
    /\ row' = "first"
    /\ ended' = [s \in Scheduler |-> NotEnded]
    /\ UNCHANGED probe

Exit ==
    /\ up = "cleaned" /\ Free
    /\ Gone /\ UNCHANGED faults

\* setup_hook raises.
SetUpFails ==
    /\ up = "setup" /\ SpendFault
    /\ Gone

--------------------------------------------------------------------------------
(* The probes.                                                             *)

\* Mutant of Healthz: the sentinel of a process that never ticked is taken for
\* a recent time.
HealthzOfFreshHost ==
    /\ up \in {"setup", "running", "draining"} /\ Free
    /\ heartbeat \in Nat => heartbeat < HEARTBEAT_THRESHOLD_SECONDS

\* healthz_handler, and whether anything answers.
Healthz ==
    /\ up \in {"setup", "running", "draining"} /\ Free
    /\ heartbeat # Never /\ heartbeat < HEARTBEAT_THRESHOLD_SECONDS

\* snapshot, for one scheduler and for both.
Healthy(s) ==
    /\ progress[s].running /\ ~progress[s].failed
    /\ progress[s].last_success # Never
    /\ progress[s].last_success < PROGRESS_THRESHOLD_SECONDS

ProgressHealthy == \A s \in Scheduler : Healthy(s)

\* check.py: the gateway through the sidecar, and the progress.
CheckPasses ==
    /\ up \in {"running", "draining"} /\ Free
    /\ sidecar = "serving" /\ gateway /\ ProgressHealthy

\* The row of failures before the first answer; one in which a probe found
\* the event loop in a statement; any other.
NextRow ==
    IF Healthz THEN "calm"
    ELSE IF row = "calm" /\ ~Free THEN "stalled" ELSE row

ProbeDue == up # "down" /\ probe.next = 0 /\ probe.failures < FailureThreshold

\* Mutant of Probe: a failure counts twice.
ProbeCountsTwice ==
    /\ ProbeDue
    /\ probe' = [next |-> ProbePeriod, failures |-> IF Healthz THEN 0 ELSE probe.failures + 2]
    /\ row' = NextRow
    /\ UNCHANGED <<up, gateway, task, blocked, heartbeat, progress, sidecar, servers,
                   ended, faults>>

\* The liveness probe of the container app.
Probe ==
    /\ ProbeDue
    /\ probe' = [next |-> ProbePeriod, failures |-> IF Healthz THEN 0 ELSE probe.failures + 1]
    /\ row' = NextRow
    /\ UNCHANGED <<up, gateway, task, blocked, heartbeat, progress, sidecar, servers,
                   ended, faults>>

Kill == up # "down" /\ probe.failures = FailureThreshold /\ Gone /\ UNCHANGED faults

Boot ==
    /\ up = "down"
    /\ up' = "setup"
    /\ probe' = [next |-> InitialDelay, failures |-> 0]
    /\ UNCHANGED <<gateway, task, blocked, heartbeat, progress, sidecar, servers,
                   row, ended, faults>>

--------------------------------------------------------------------------------
(* Time.                                                                   *)

Older(age, limit) == IF age \in Nat /\ age < limit THEN age + 1 ELSE age

\* What a task that may run must do before time goes on.
Due(s) ==
    \/ task[s].pc = "asleep" /\ task[s].t >= TickSeconds
    \/ task[s].pc = "working" /\ task[s].t >= MaxWork
    \/ s = "reminders" /\ task[s].pc \in {"none", "waiting"} /\ task[s].t >= MaxStart

Limit(s) == TickSeconds + MaxStart + MaxWork

Elapse ==
    /\ up # "down"
    /\ probe.next > 0 /\ probe.failures < FailureThreshold
    /\ IF Free THEN \A s \in Scheduler : ~Due(s) ELSE blocked # MaxBlock
    /\ task' = [s \in Scheduler |->
                  IF task[s].pc \in {"hung", "dead"} \/ (s = "auto_kick" /\ task[s].pc = "none")
                  THEN task[s] ELSE [task[s] EXCEPT !.t = Older(@, Limit(s))]]
    /\ blocked' = Older(blocked, MaxBlock)
    /\ heartbeat' = Older(heartbeat, HEARTBEAT_THRESHOLD_SECONDS)
    /\ progress' = [s \in Scheduler |->
                      [progress[s] EXCEPT !.last_success = Older(@, PROGRESS_THRESHOLD_SECONDS)]]
    /\ ended' = [s \in Scheduler |->
                   [ended[s] EXCEPT !.age = Older(@, PROGRESS_THRESHOLD_SECONDS)]]
    /\ probe' = [probe EXCEPT !.next = @ - 1]
    /\ UNCHANGED <<up, gateway, sidecar, servers, row, faults>>

Loop(s) == Tick(s) \/ Complete(s) \/ Abort(s)

Next ==
    \/ SetUp \/ SetUpFails \/ GatewayReady \/ Disconnect \/ StartSchedulers \/ StartFails
    \/ SidecarEnds
    \/ \E s \in Scheduler : Loop(s) \/ Hang(s)
    \/ SweepDies \/ Block \/ Unblock
    \/ Close \/ Drained \/ Exit
    \/ Probe \/ Kill \/ Boot
    \/ Elapse

Spec == Init /\ [][Next]_vars

\* The event loop runs what is ready, Discord answers a connection, a
\* shutdown goes on, and the platform probes and restarts.
FairSpec ==
    /\ Spec
    /\ WF_vars(SetUp) /\ WF_vars(GatewayReady) /\ WF_vars(StartSchedulers)
    /\ \A s \in Scheduler : WF_vars(Loop(s))
    /\ WF_vars(Unblock)
    /\ WF_vars(Drained) /\ WF_vars(Exit)
    /\ WF_vars(Probe) /\ WF_vars(Kill) /\ WF_vars(Boot)
    /\ WF_vars(Elapse)

--------------------------------------------------------------------------------
(* Properties.                                                             *)

\* The longest a tick can work: its awaits, and a statement of the driver that
\* begins at their end.
Work == MaxWork + MaxBlock - 1

\* The longest from one heartbeat to the next: the tick, kept from its end by a
\* statement of its own and by a cycle of the sweep, the pause, and the next
\* tick kept from its beginning by another cycle of the sweep.
LongestGap == TickSeconds + 3 * Work

\* What the numbers of containerapp.bicep have to do with the threshold: one
\* probe after a heartbeat finds it fresh, and FailureThreshold probes in a row
\* take longer than a heartbeat can be stale.
ProbesFit ==
    /\ ProbePeriod < HEARTBEAT_THRESHOLD_SECONDS
    /\ LongestGap < HEARTBEAT_THRESHOLD_SECONDS + (FailureThreshold - 1) * ProbePeriod

\* The liveness probe, once it has been answered, kills no container whose
\* reminder loop ticks, unless a probe of the row found the event loop in a
\* statement: the gap between a tick and the next heartbeat is longer than the
\* threshold, yet no FailureThreshold probes in a row fall into such gaps, and
\* a lost gateway makes none longer.  So it is while ticks and statements are
\* as short as ProbesFit asks, to which no timeout in the code holds them.
LiveSchedulerKept ==
    [][up = "running" /\ up' = "down" /\ row = "calm" =>
          task["reminders"].pc \in {"hung", "dead"} \/ blocked = Forever]_vars

\* GET /healthz/progress is healthy only while both tasks exist and the last
\* cycle each has ended, a skipped one included, was a success of this process
\* less than PROGRESS_THRESHOLD_SECONDS ago.
HealthyMeansProgress ==
    ProgressHealthy =>
        \A s \in Scheduler :
            /\ task[s].pc \in {"working", "asleep", "hung"}
            /\ ended[s].ok /\ ended[s].age < PROGRESS_THRESHOLD_SECONDS

\* However often READY comes again, while the sidecar serves, after it has ended
\* and during close(), there are never two servers for the port.
OneSidecar == servers <= 1

\* A reminder loop that no longer ticks (an await that hangs, a start that
\* failed, a statement that never returns) gets its container restarted.
StuckIsRestarted ==
    (up # "down" /\ (task["reminders"].pc \in {"hung", "dead"} \/ blocked = Forever))
        ~> up = "down"

\* When nothing fails any more, the progress endpoint turns healthy and stays
\* so over every later tick, and check.py passes where the sidecar serves.  A
\* sweep that has died or hangs, or a sidecar that has ended, is the exception:
\* no probe restarts it.
Recovers ==
    <>[](\/ task["auto_kick"].pc \in {"dead", "hung"}
         \/ ProgressHealthy /\ (sidecar = "serving" => CheckPasses))
================================================================================
