--------------------------- MODULE BotLifecycle_proof ---------------------------
(***************************************************************************)
(* What the progress endpoint tells, the one sidecar, and the loop that    *)
(* the liveness probe spares, for every tick, threshold and number of      *)
(* faults.                                                                 *)
(***************************************************************************)
EXTENDS BotLifecycle, TLAPS

\* servers counts what _sidecar_task refers to, and nothing else serves.
SidecarCounted == servers = IF sidecar = "serving" THEN 1 ELSE 0

\* A scheduler that is registered as running has a task; without a failure its
\* last success is the end of its last cycle.
SuccessIsTheLastEnd ==
    \A s \in Scheduler :
        progress[s].running =>
            /\ task[s].pc \in {"working", "asleep", "hung"}
            /\ ~progress[s].failed /\ progress[s].last_success # Never =>
                  ended[s].ok /\ ended[s].age = progress[s].last_success

\* Nothing runs before setup_hook has returned.
NothingBeforeSetUp ==
    up \in {"setup", "down"} => \A s \in Scheduler : ~progress[s].running

IInv == TypeOK /\ SidecarCounted /\ SuccessIsTheLastEnd /\ NothingBeforeSetUp

--------------------------------------------------------------------------------
LEMMA ConstantTypes ==
    /\ TickSeconds \in Nat \ {0} /\ HEARTBEAT_THRESHOLD_SECONDS \in Nat \ {0}
    /\ PROGRESS_THRESHOLD_SECONDS \in Nat \ {0} /\ ProbePeriod \in Nat \ {0}
    /\ FailureThreshold \in Nat \ {0} /\ MaxStart \in Nat \ {0} /\ MaxBlock \in Nat \ {0}
    /\ InitialDelay \in Nat /\ MaxWork \in Nat /\ MaxFaults \in Nat
    /\ Never \notin Nat /\ Forever \notin Nat /\ Never # Forever
  BY TimeAssumption

LEMMA AgeTypes ==
    ASSUME NEW n \in Nat
    PROVE  0 \in Age(n) /\ Never \in Age(n)
  BY DEF Age

LEMMA GoTypes ==
    ASSUME NEW s \in Scheduler,
           NEW pc \in {"none", "waiting", "working", "asleep", "hung", "dead"}
    PROVE  Go(s, pc) \in Task
  BY ConstantTypes DEF Go, Task

\* What a new process starts from.
LEMMA FreshTypes ==
    /\ [s \in Scheduler |-> Go(s, "none")] \in [Scheduler -> Task]
    /\ NoProgress \in [Scheduler -> Progress]
    /\ [s \in Scheduler |-> NotEnded]
         \in [Scheduler -> [ok : BOOLEAN, age : Age(PROGRESS_THRESHOLD_SECONDS)]]
  <1>1. [s \in Scheduler |-> Go(s, "none")] \in [Scheduler -> Task]
    BY GoTypes
  <1>2. Never \in Age(PROGRESS_THRESHOLD_SECONDS)
    BY ConstantTypes, AgeTypes
  <1>3. NoProgress \in [Scheduler -> Progress]
    BY <1>2 DEF NoProgress, Progress
  <1>4. QED
    BY <1>1, <1>2, <1>3 DEF NotEnded

LEMMA CyclesTyped ==
    ASSUME TypeOK, NEW s \in Scheduler
    PROVE  /\ Failed(s) => progress' \in [Scheduler -> Progress]
           /\ Succeeded(s) => progress' \in [Scheduler -> Progress]
           /\ \A ok \in BOOLEAN :
                Ended(s, ok) =>
                  ended' \in [Scheduler -> [ok : BOOLEAN, age : Age(PROGRESS_THRESHOLD_SECONDS)]]
  <1>1. 0 \in Age(PROGRESS_THRESHOLD_SECONDS)
    BY ConstantTypes, AgeTypes
  <1>2. progress[s] \in Progress
    BY DEF TypeOK
  <1>3. /\ [progress[s] EXCEPT !.failed = TRUE] \in Progress
        /\ [progress[s] EXCEPT !.failed = FALSE, !.last_success = 0] \in Progress
    BY <1>1, <1>2 DEF Progress
  <1>4. Failed(s) => progress' \in [Scheduler -> Progress]
    BY <1>3 DEF Failed, TypeOK
  <1>5. Succeeded(s) =>
          progress' = [progress EXCEPT ![s] = [progress[s] EXCEPT !.failed = FALSE, !.last_success = 0]]
    BY DEF Succeeded, TypeOK, Progress
  <1>6. Succeeded(s) => progress' \in [Scheduler -> Progress]
    BY <1>3, <1>5 DEF TypeOK
  <1>7. ASSUME NEW ok \in BOOLEAN, Ended(s, ok)
        PROVE  ended' \in [Scheduler -> [ok : BOOLEAN, age : Age(PROGRESS_THRESHOLD_SECONDS)]]
    BY <1>1, <1>7 DEF Ended, TypeOK
  <1>8. QED
    BY <1>4, <1>6, <1>7

LEMMA InitEstablishes == ASSUME Init PROVE IInv
  <1>1. TypeOK
    <2>1. \A n \in Nat : 0 \in Age(n) /\ Never \in Age(n)
      BY AgeTypes
    <2>2. task \in [Scheduler -> Task]
      BY FreshTypes DEF Init, Go
    <2>3. QED
      <3>1. Never \in Age(MaxBlock) /\ Never \in Age(HEARTBEAT_THRESHOLD_SECONDS)
        BY <2>1, ConstantTypes
      <3>2. ended \in [Scheduler -> [ok : BOOLEAN, age : Age(PROGRESS_THRESHOLD_SECONDS)]]
        BY FreshTypes DEF Init
      <3>3. progress \in [Scheduler -> Progress]
        BY FreshTypes DEF Init
      <3>4. gateway \in BOOLEAN
        BY DEF Init
      <3>5. QED
        BY <2>2, <3>1, <3>2, <3>3, <3>4, ConstantTypes DEF Init, TypeOK
  <1>2. SidecarCounted /\ SuccessIsTheLastEnd /\ NothingBeforeSetUp
    BY DEF Init, SidecarCounted, SuccessIsTheLastEnd, NothingBeforeSetUp, NoProgress
  <1>3. QED
    BY <1>1, <1>2 DEF IInv

\* The steps that touch neither loop.
LEMMA LoopsUntouched ==
    ASSUME IInv, UNCHANGED <<task, progress, ended>>,
           up' = up \/ up' \notin {"setup", "down"}
    PROVE  SuccessIsTheLastEnd' /\ NothingBeforeSetUp'
  BY DEF IInv, SuccessIsTheLastEnd, NothingBeforeSetUp

LEMMA GoneTypes ==
    ASSUME TypeOK, Gone, faults' \in 0 .. MaxFaults
    PROVE  TypeOK'
  <1>1. Never \in Age(MaxBlock) /\ Never \in Age(HEARTBEAT_THRESHOLD_SECONDS)
    BY AgeTypes, ConstantTypes
  <1>2. /\ task' \in [Scheduler -> Task]
        /\ progress' \in [Scheduler -> Progress]
        /\ ended' \in [Scheduler -> [ok : BOOLEAN, age : Age(PROGRESS_THRESHOLD_SECONDS)]]
    BY FreshTypes DEF Gone
  <1>3. gateway' \in BOOLEAN
    BY DEF Gone
  <1>4. probe' \in [next : 0 .. InitialDelay + ProbePeriod, failures : 0 .. FailureThreshold]
    BY DEF Gone, TypeOK
  <1>5. /\ blocked' = Never /\ heartbeat' = Never
        /\ servers' = 0
    BY DEF Gone
  <1>6. up' = "down" /\ sidecar' = "none" /\ row' = "first"
    BY DEF Gone
  <1>7. QED
    BY <1>1, <1>2, <1>3, <1>4, <1>5, <1>6, ConstantTypes DEF TypeOK

LEMMA NothingSurvives ==
    ASSUME Gone
    PROVE  SidecarCounted' /\ SuccessIsTheLastEnd' /\ NothingBeforeSetUp'
  BY DEF Gone, NoProgress, SidecarCounted, SuccessIsTheLastEnd, NothingBeforeSetUp

LEMMA StepPreserves == ASSUME IInv, [Next]_vars PROVE IInv'
  <1> USE ConstantTypes DEF IInv
  <1>1. ASSUME SetUp
        PROVE  IInv'
    <2>1. TypeOK'
      BY <1>1 DEF SetUp, TypeOK, Task, Progress, Age, Scheduler
    <2>2. SidecarCounted'
      BY <1>1 DEF SetUp, SidecarCounted
    <2>3. SuccessIsTheLastEnd'
      BY <1>1 DEF SetUp, SuccessIsTheLastEnd, NothingBeforeSetUp, TypeOK, Task, Progress
    <2>4. NothingBeforeSetUp'
      BY <1>1 DEF SetUp, NothingBeforeSetUp, TypeOK, Progress
    <2>5. QED
      BY <2>1, <2>2, <2>3, <2>4
  <1>2. ASSUME SetUpFails
        PROVE  IInv'
    <2>1. TypeOK'
      <3>1. Gone
        BY <1>2 DEF SetUpFails
      <3>2. faults' \in 0 .. MaxFaults
        BY <1>2 DEF SetUpFails, SpendFault, TypeOK
      <3>3. QED
        BY <3>1, <3>2, GoneTypes
    <2>2. SidecarCounted' /\ SuccessIsTheLastEnd' /\ NothingBeforeSetUp'
      BY <1>2, NothingSurvives DEF SetUpFails
    <2>3. QED
      BY <2>1, <2>2
  <1>3. ASSUME GatewayReady
        PROVE  IInv'
    <2>1. TypeOK'
      BY <1>3 DEF GatewayReady, Alive, Free, SpendFault, TypeOK, Task, Progress, Age, Scheduler
    <2>2. SidecarCounted'
      BY <1>3 DEF GatewayReady, SidecarCounted
    <2>3. SuccessIsTheLastEnd' /\ NothingBeforeSetUp'
      BY <1>3, LoopsUntouched DEF GatewayReady
    <2>4. QED
      BY <2>1, <2>2, <2>3
  <1>4. ASSUME Disconnect
        PROVE  IInv'
    <2>1. TypeOK'
      <3>1. gateway' \in BOOLEAN
        BY <1>4 DEF Disconnect
      <3>2. faults' \in 0 .. MaxFaults
        BY <1>4 DEF Disconnect, SpendFault, TypeOK
      <3>3. UNCHANGED <<up, task, blocked, heartbeat, progress, sidecar, servers,
                        probe, row, ended>>
        BY <1>4 DEF Disconnect
      <3>4. QED
        BY <3>1, <3>2, <3>3 DEF TypeOK
    <2>2. SidecarCounted'
      BY <1>4 DEF Disconnect, SidecarCounted
    <2>3. SuccessIsTheLastEnd' /\ NothingBeforeSetUp'
      BY <1>4, LoopsUntouched DEF Disconnect
    <2>4. QED
      BY <2>1, <2>2, <2>3
  <1>5. ASSUME StartSchedulers
        PROVE  IInv'
    <2>1. TypeOK'
      BY <1>5
         DEF StartSchedulers, Alive, Free, Started, TypeOK, Task, Progress, Age,
             Scheduler
    <2>2. SidecarCounted'
      BY <1>5 DEF StartSchedulers, SidecarCounted
    <2>3. SuccessIsTheLastEnd'
      BY <1>5
         DEF StartSchedulers, Started, Alive, SuccessIsTheLastEnd, NothingBeforeSetUp,
             TypeOK, Task, Progress
    <2>4. NothingBeforeSetUp'
      BY <1>5 DEF StartSchedulers, Started, Alive, NothingBeforeSetUp, TypeOK, Progress
    <2>5. QED
      BY <2>1, <2>2, <2>3, <2>4
  <1>6. ASSUME StartFails
        PROVE  IInv'
    <2>1. TypeOK'
      BY <1>6
         DEF StartFails, Alive, Free, SpendFault, Go, TypeOK, Task, Progress, Age,
             Scheduler
    <2>2. SidecarCounted'
      BY <1>6 DEF StartFails, SidecarCounted
    <2>3. SuccessIsTheLastEnd'
      BY <1>6
         DEF StartFails, Alive, Go, SuccessIsTheLastEnd, NothingBeforeSetUp, TypeOK,
             Task, Progress
    <2>4. NothingBeforeSetUp'
      BY <1>6 DEF StartFails, Alive, Go, NothingBeforeSetUp, TypeOK, Progress
    <2>5. QED
      BY <2>1, <2>2, <2>3, <2>4
  <1>7. ASSUME SidecarEnds
        PROVE  IInv'
    <2>1. TypeOK'
      BY <1>7
         DEF SidecarEnds, Alive, Free, SpendFault, TypeOK, Task, Progress, Age,
             Scheduler, SidecarCounted
    <2>2. SidecarCounted'
      BY <1>7 DEF SidecarEnds, SidecarCounted
    <2>3. SuccessIsTheLastEnd' /\ NothingBeforeSetUp'
      BY <1>7, LoopsUntouched DEF SidecarEnds
    <2>4. QED
      BY <2>1, <2>2, <2>3
  <1>8. ASSUME NEW s \in Scheduler, Tick(s)
        PROVE  IInv'
    <2>1. TypeOK'
      <3>1. task' \in [Scheduler -> Task]
        BY <1>8, GoTypes DEF Tick, TypeOK
      <3>2. 0 \in Age(HEARTBEAT_THRESHOLD_SECONDS)
        BY AgeTypes
      <3>3. /\ progress' \in [Scheduler -> Progress]
            /\ ended' \in [Scheduler -> [ok : BOOLEAN, age : Age(PROGRESS_THRESHOLD_SECONDS)]]
        BY <1>8, CyclesTyped DEF Tick, TypeOK
      <3>4. QED
        BY <1>8, <3>1, <3>2, <3>3 DEF Tick, TypeOK
    <2>2. SidecarCounted'
      BY <1>8 DEF Tick, SidecarCounted
    <2>3. SuccessIsTheLastEnd'
      BY <1>8
         DEF Tick, Wakes, Alive, Failed, Ended, Go, SuccessIsTheLastEnd,
             NothingBeforeSetUp, TypeOK, Task, Progress
    <2>4. NothingBeforeSetUp'
      BY <1>8
         DEF Tick, Wakes, Alive, Failed, Ended, Go, NothingBeforeSetUp, TypeOK, Progress
    <2>5. QED
      BY <2>1, <2>2, <2>3, <2>4
  <1>9. ASSUME NEW s \in Scheduler, Complete(s)
        PROVE  IInv'
    <2>1. TypeOK'
      <3>1. task' \in [Scheduler -> Task]
        BY <1>9, GoTypes DEF Complete, TypeOK
      <3>2. 0 \in Age(HEARTBEAT_THRESHOLD_SECONDS)
        BY AgeTypes
      <3>3. /\ progress' \in [Scheduler -> Progress]
            /\ ended' \in [Scheduler -> [ok : BOOLEAN, age : Age(PROGRESS_THRESHOLD_SECONDS)]]
        BY <1>9, CyclesTyped DEF Complete, TypeOK
      <3>4. QED
        BY <1>9, <3>1, <3>2, <3>3 DEF Complete, TypeOK
    <2>2. SidecarCounted'
      BY <1>9 DEF Complete, SidecarCounted
    <2>3. SuccessIsTheLastEnd'
      BY <1>9
         DEF Complete, Works, Alive, Succeeded, Ended, Go, SuccessIsTheLastEnd,
             NothingBeforeSetUp, TypeOK, Task, Progress
    <2>4. NothingBeforeSetUp'
      BY <1>9
         DEF Complete, Works, Alive, Succeeded, Ended, Go, NothingBeforeSetUp, TypeOK,
             Progress
    <2>5. QED
      BY <2>1, <2>2, <2>3, <2>4
  <1>10. ASSUME NEW s \in Scheduler, Abort(s)
        PROVE  IInv'
    <2>1. TypeOK'
      <3>1. task' \in [Scheduler -> Task]
        BY <1>10, GoTypes DEF Abort, TypeOK
      <3>2. 0 \in Age(HEARTBEAT_THRESHOLD_SECONDS)
        BY AgeTypes
      <3>3. /\ progress' \in [Scheduler -> Progress]
            /\ ended' \in [Scheduler -> [ok : BOOLEAN, age : Age(PROGRESS_THRESHOLD_SECONDS)]]
        BY <1>10, CyclesTyped DEF Abort, TypeOK
      <3>4. QED
        BY <1>10, <3>1, <3>2, <3>3 DEF Abort, SpendFault, TypeOK
    <2>2. SidecarCounted'
      BY <1>10 DEF Abort, SidecarCounted
    <2>3. SuccessIsTheLastEnd'
      BY <1>10
         DEF Abort, Works, Alive, Failed, Ended, Go, SuccessIsTheLastEnd,
             NothingBeforeSetUp, TypeOK, Task, Progress
    <2>4. NothingBeforeSetUp'
      BY <1>10
         DEF Abort, Works, Alive, Failed, Ended, Go, NothingBeforeSetUp, TypeOK,
             Progress
    <2>5. QED
      BY <2>1, <2>2, <2>3, <2>4
  <1>11. ASSUME NEW s \in Scheduler, Hang(s)
        PROVE  IInv'
    <2>1. TypeOK'
      BY <1>11
         DEF Hang, Alive, Free, SpendFault, Go, TypeOK, Task, Progress, Age, Scheduler
    <2>2. SidecarCounted'
      BY <1>11 DEF Hang, SidecarCounted
    <2>3. SuccessIsTheLastEnd'
      BY <1>11
         DEF Hang, Alive, Go, SuccessIsTheLastEnd, NothingBeforeSetUp, TypeOK, Task,
             Progress
    <2>4. NothingBeforeSetUp'
      BY <1>11 DEF Hang, Alive, Go, NothingBeforeSetUp, TypeOK, Progress
    <2>5. QED
      BY <2>1, <2>2, <2>3, <2>4
  <1>12. ASSUME SweepDies
        PROVE  IInv'
    <2>1. TypeOK'
      <3>1. task' \in [Scheduler -> Task]
        BY <1>12, GoTypes DEF SweepDies, TypeOK, Scheduler
      <3>2. progress' \in [Scheduler -> Progress]
        BY <1>12 DEF SweepDies, TypeOK, Progress
      <3>3. QED
        BY <1>12, <3>1, <3>2 DEF SweepDies, SpendFault, TypeOK
    <2>2. SidecarCounted'
      BY <1>12 DEF SweepDies, SidecarCounted
    <2>3. SuccessIsTheLastEnd'
      BY <1>12
         DEF SweepDies, Works, Alive, Go, SuccessIsTheLastEnd, NothingBeforeSetUp,
             TypeOK, Task, Progress
    <2>4. NothingBeforeSetUp'
      BY <1>12 DEF SweepDies, Works, Alive, Go, NothingBeforeSetUp, TypeOK, Progress
    <2>5. QED
      BY <2>1, <2>2, <2>3, <2>4
  <1>13. ASSUME Block
        PROVE  IInv'
    <2>1. TypeOK'
      BY <1>13 DEF Block, Alive, Free, SpendFault, TypeOK, Task, Progress, Age, Scheduler
    <2>2. SidecarCounted'
      BY <1>13 DEF Block, SidecarCounted
    <2>3. SuccessIsTheLastEnd' /\ NothingBeforeSetUp'
      BY <1>13, LoopsUntouched DEF Block
    <2>4. QED
      BY <2>1, <2>2, <2>3
  <1>14. ASSUME Unblock
        PROVE  IInv'
    <2>1. TypeOK'
      BY <1>14 DEF Unblock, TypeOK, Task, Progress, Age, Scheduler
    <2>2. SidecarCounted'
      BY <1>14 DEF Unblock, SidecarCounted
    <2>3. SuccessIsTheLastEnd' /\ NothingBeforeSetUp'
      BY <1>14, LoopsUntouched DEF Unblock
    <2>4. QED
      BY <2>1, <2>2, <2>3
  <1>15. ASSUME Close
        PROVE  IInv'
    <2>1. TypeOK'
      BY <1>15 DEF Close, Free, SpendFault, TypeOK, Task, Progress, Age, Scheduler
    <2>2. SidecarCounted'
      BY <1>15 DEF Close, SidecarCounted
    <2>3. SuccessIsTheLastEnd' /\ NothingBeforeSetUp'
      BY <1>15, LoopsUntouched DEF Close
    <2>4. QED
      BY <2>1, <2>2, <2>3
  <1>16. ASSUME Drained
        PROVE  IInv'
    <2>1. TypeOK'
      BY <1>16 DEF Drained, Free, TypeOK, Task, Progress, Age, Scheduler, SidecarCounted
    <2>2. SidecarCounted'
      BY <1>16 DEF Drained, SidecarCounted
    <2>3. SuccessIsTheLastEnd' /\ NothingBeforeSetUp'
      BY <1>16, LoopsUntouched DEF Drained
    <2>4. QED
      BY <2>1, <2>2, <2>3
  <1>17. ASSUME Exit
        PROVE  IInv'
    <2>1. TypeOK'
      <3>1. Gone
        BY <1>17 DEF Exit
      <3>2. faults' \in 0 .. MaxFaults
        BY <1>17 DEF Exit, TypeOK
      <3>3. QED
        BY <3>1, <3>2, GoneTypes
    <2>2. SidecarCounted' /\ SuccessIsTheLastEnd' /\ NothingBeforeSetUp'
      BY <1>17, NothingSurvives DEF Exit
    <2>3. QED
      BY <2>1, <2>2
  <1>18. ASSUME Probe
        PROVE  IInv'
    <2>1. TypeOK'
      BY <1>18 DEF Probe, ProbeDue, NextRow, TypeOK, Task, Progress, Age, Scheduler
    <2>2. SidecarCounted'
      BY <1>18 DEF Probe, SidecarCounted
    <2>3. SuccessIsTheLastEnd' /\ NothingBeforeSetUp'
      BY <1>18, LoopsUntouched DEF Probe
    <2>4. QED
      BY <2>1, <2>2, <2>3
  <1>19. ASSUME Kill
        PROVE  IInv'
    <2>1. TypeOK'
      <3>1. Gone
        BY <1>19 DEF Kill
      <3>2. faults' \in 0 .. MaxFaults
        BY <1>19 DEF Kill, TypeOK
      <3>3. QED
        BY <3>1, <3>2, GoneTypes
    <2>2. SidecarCounted' /\ SuccessIsTheLastEnd' /\ NothingBeforeSetUp'
      BY <1>19, NothingSurvives DEF Kill
    <2>3. QED
      BY <2>1, <2>2
  <1>20. ASSUME Boot
        PROVE  IInv'
    <2>1. TypeOK'
      BY <1>20 DEF Boot, TypeOK, Task, Progress, Age, Scheduler
    <2>2. SidecarCounted'
      BY <1>20 DEF Boot, SidecarCounted
    <2>3. SuccessIsTheLastEnd'
      BY <1>20 DEF Boot, SuccessIsTheLastEnd, NothingBeforeSetUp, TypeOK, Task, Progress
    <2>4. NothingBeforeSetUp'
      BY <1>20 DEF Boot, NothingBeforeSetUp, TypeOK, Progress
    <2>5. QED
      BY <2>1, <2>2, <2>3, <2>4
  <1>21. ASSUME Elapse
        PROVE  IInv'
    <2>1. TypeOK'
      BY <1>21 DEF Elapse, Older, Free, Limit, TypeOK, Task, Progress, Age, Scheduler
    <2>2. SidecarCounted'
      BY <1>21 DEF Elapse, SidecarCounted
    <2>3. SuccessIsTheLastEnd'
      BY <1>21
         DEF Elapse, Older, Limit, Free, Age, Scheduler, SuccessIsTheLastEnd,
             NothingBeforeSetUp, TypeOK, Task, Progress
    <2>4. NothingBeforeSetUp'
      BY <1>21
         DEF Elapse, Older, Limit, Free, Age, Scheduler, NothingBeforeSetUp, TypeOK,
             Progress
    <2>5. QED
      BY <2>1, <2>2, <2>3, <2>4
  <1>22. CASE UNCHANGED vars
    BY <1>22 DEF vars, TypeOK, Task, Progress, Age, SidecarCounted, SuccessIsTheLastEnd,
                  NothingBeforeSetUp
  <1>23. QED
    BY <1>1, <1>2, <1>3, <1>4, <1>5, <1>6, <1>7, <1>8, <1>9, <1>10, <1>11, <1>12, <1>13, <1>14, <1>15, <1>16, <1>17, <1>18, <1>19, <1>20, <1>21, <1>22
       DEF Next, Loop

THEOREM Invariant == Spec => []IInv
  <1>1. Init => IInv
    BY InitEstablishes
  <1>2. IInv /\ [Next]_vars => IInv'
    BY StepPreserves
  <1>3. QED
    BY <1>1, <1>2, PTL DEF Spec

\* The states of the process and its probes have the types TypeOK says.
THEOREM TypeCorrect == Spec => []TypeOK
  <1>1. IInv => TypeOK
    BY DEF IInv
  <1>2. QED
    BY <1>1, Invariant, PTL

\* /healthz/progress is healthy only when the last cycle of both loops was a
\* recent success of a task that exists.
THEOREM HealthyTellsProgress == Spec => []HealthyMeansProgress
  <1>1. IInv => HealthyMeansProgress
    BY DEF IInv, HealthyMeansProgress, ProgressHealthy, Healthy, SuccessIsTheLastEnd
  <1>2. QED
    BY <1>1, Invariant, PTL

\* However often READY comes again, one uvicorn server serves at most.
THEOREM OneServer == Spec => []OneSidecar
  <1>1. IInv => OneSidecar
    BY DEF IInv, OneSidecar, SidecarCounted
  <1>2. QED
    BY <1>1, Invariant, PTL

--------------------------------------------------------------------------------
(* The liveness probe spares a loop that ticks.                            *)

\* How long statements can keep a due reminder task waiting, the sweep being at
\* "a" and the event loop "b" in a statement.
Kept(a, b) ==
    IF a.pc = "working" /\ a.t < MaxWork THEN Work - a.t
    ELSE IF b = Never THEN IF a.pc = "asleep" /\ a.t >= TickSeconds THEN Work ELSE 0
    ELSE (MaxBlock - b) + IF a.pc = "working" THEN 0 ELSE Work

\* The longest to the next heartbeat, with the reminder task at "r".
ToHeartbeat(r, a, b) ==
    CASE r.pc = "working" /\ r.t < MaxWork ->
           (MaxWork - r.t) + (MaxBlock - 1) + Work + TickSeconds + Work
      [] r.pc = "working" /\ r.t >= MaxWork -> Kept(a, b) + TickSeconds + Work
      [] r.pc = "asleep" /\ r.t < TickSeconds -> TickSeconds - r.t + Work
      [] OTHER -> Kept(a, b)

Left == ToHeartbeat(task["reminders"], task["auto_kick"], blocked)

Ticks == task["reminders"].pc \in {"working", "asleep"} /\ blocked # Forever

BlockedByWork == blocked \in Nat => \E s \in Scheduler : task[s].pc = "working"

\* Before the first tick no probe is answered.
AnsweredMeansTicked ==
    /\ up \in {"setup", "down"} => heartbeat = Never /\ row = "first"
    /\ row = "calm" => heartbeat # Never
    /\ heartbeat # Never => task["reminders"].pc \notin {"none", "waiting"}

GapBounded == heartbeat # Never /\ Ticks => heartbeat + Left <= LongestGap

\* A calm row of failures: the next probe finds a fresh heartbeat, or they all
\* fall into one gap, stale since the first of them.
RowBounded == up = "running" /\ row = "calm" /\ Ticks =>
    /\ probe.next <= ProbePeriod /\ probe.failures < FailureThreshold
    /\ probe.failures > 0 =>
          \/ heartbeat + probe.next < HEARTBEAT_THRESHOLD_SECONDS
          \/ HEARTBEAT_THRESHOLD_SECONDS + (probe.failures * ProbePeriod - probe.next) + Left
                <= LongestGap

LiveInv == BlockedByWork /\ AnsweredMeansTicked /\ GapBounded /\ RowBounded

Moment == 0 .. MaxBlock \cup {Never}

LEMMA WorkTypes ==
    /\ MaxWork \in Nat /\ MaxBlock \in Nat /\ MaxBlock >= 1 /\ TickSeconds \in Nat /\ TickSeconds >= 1
    /\ MaxStart \in Nat /\ Never \notin Nat
    /\ Work \in Nat /\ Work >= MaxWork /\ Work >= MaxBlock - 1 /\ LongestGap \in Nat
  BY ConstantTypes DEF Work, LongestGap

LEMMA TaskTypes ==
    ASSUME NEW r \in Task
    PROVE  r.t \in Nat /\ r.pc \in {"none", "waiting", "working", "asleep", "hung", "dead"}
  BY ConstantTypes DEF Task

LEMMA KeptBounds ==
    ASSUME NEW a \in Task, NEW b \in Moment
    PROVE  /\ Kept(a, b) \in Nat
           /\ b = Never => Kept(a, b) <= Work
           /\ b # Never /\ b >= 1 => Kept(a, b) <= (MaxBlock - 1) + Work
           /\ b # Never /\ b >= 1 /\ a.pc = "working" => Kept(a, b) <= Work
<1>1. CASE a.pc = "working" /\ a.t < MaxWork
    BY <1>1, WorkTypes, TaskTypes DEF Kept, Moment, Work
<1>2. CASE ~(a.pc = "working" /\ a.t < MaxWork) /\ b = Never
    BY <1>2, WorkTypes, TaskTypes DEF Kept, Moment
<1>3. CASE ~(a.pc = "working" /\ a.t < MaxWork) /\ b # Never
    BY <1>3, WorkTypes, TaskTypes DEF Kept, Moment
<1> QED
    BY <1>1, <1>2, <1>3

LEMMA ToHeartbeatIsNat ==
    ASSUME NEW r \in Task, NEW a \in Task, NEW b \in Moment
    PROVE  ToHeartbeat(r, a, b) \in Nat
<1>1. Kept(a, b) \in Nat
    BY KeptBounds
<1> QED
    BY <1>1, WorkTypes, TaskTypes DEF ToHeartbeat

\* A unit of time in a statement.
LEMMA KeptElapses ==
    ASSUME NEW a \in Task, NEW n \in Task, NEW b \in 0 .. (MaxBlock - 1),
           n.pc = a.pc, a.pc = "working" => n.t = Older(a.t, Limit("auto_kick"))
    PROVE  Kept(n, b + 1) + 1 <= Kept(a, b)
<1>1. b \in Nat /\ b # Never /\ b + 1 # Never /\ b + 1 <= MaxBlock
    BY WorkTypes
<1>2. CASE a.pc = "working"
    <2>1. n.t \in Nat /\ a.t \in Nat
        BY TaskTypes
    <2>2. a.t < MaxWork => n.t = a.t + 1
        BY <1>2, <2>1, WorkTypes DEF Older, Limit
    <2>3. a.t >= MaxWork => n.t >= MaxWork
        BY <1>2, <2>1, WorkTypes DEF Older, Limit
    <2> QED
        BY <1>1, <1>2, <2>1, <2>2, <2>3, WorkTypes DEF Kept, Work
<1>3. CASE a.pc # "working"
    BY <1>1, <1>3, WorkTypes DEF Kept
<1> QED
    BY <1>2, <1>3

\* A unit of time.
LEMMA LeftElapses ==
    ASSUME NEW r \in Task, NEW a \in Task, NEW b \in Moment,
           NEW m \in Task, NEW n \in Task, NEW c \in Moment,
           r.pc \in {"working", "asleep"}, m.pc = r.pc, m.t = Older(r.t, Limit("reminders")),
           n.pc = a.pc, a.pc = "working" => n.t = Older(a.t, Limit("auto_kick")),
           b = Never => /\ c = Never
                        /\ r.pc = "working" => r.t < MaxWork
                        /\ r.pc = "asleep" => r.t < TickSeconds,
           b # Never => c = b + 1 /\ (r.pc = "asleep" => a.pc = "working")
    PROVE  ToHeartbeat(m, n, c) + 1 <= ToHeartbeat(r, a, b)
<1> DEFINE old == Kept(a, b)
           new == Kept(n, c)
<1>1. /\ old \in Nat /\ new \in Nat /\ r.t \in Nat /\ m.t \in Nat
      /\ c = Never => new <= Work
      /\ c # Never => new <= (MaxBlock - 1) + Work /\ (n.pc = "working" => new <= Work)
    <2>1. c # Never => c >= 1
        BY WorkTypes DEF Moment
    <2> QED
        BY <2>1, KeptBounds, TaskTypes
<1>2. b # Never => new + 1 <= old
    <2>1. b # Never => b \in 0 .. (MaxBlock - 1) /\ c = b + 1
        BY WorkTypes DEF Moment
    <2> QED
        BY <2>1, KeptElapses
<1>3. new <= (MaxBlock - 1) + Work
    BY <1>1, WorkTypes
<1>4. /\ r.t < MaxWork => m.t = r.t + 1
      /\ r.t < TickSeconds => m.t = r.t + 1
      /\ m.t >= r.t
    BY <1>1, WorkTypes DEF Older, Limit
<1>5. CASE r.pc = "working" /\ r.t < MaxWork
    BY <1>1, <1>3, <1>4, <1>5, WorkTypes DEF ToHeartbeat
<1>6. CASE r.pc = "working" /\ r.t >= MaxWork
    <2>1. b # Never /\ m.t >= MaxWork
        BY <1>1, <1>4, <1>6, WorkTypes
    <2> QED
        BY <1>1, <1>2, <1>6, <2>1, WorkTypes DEF ToHeartbeat
<1>7. CASE r.pc = "asleep" /\ r.t < TickSeconds
    <2>1. new <= Work
        BY <1>1, <1>7
    <2> QED
        BY <1>1, <1>4, <1>7, <2>1, WorkTypes DEF ToHeartbeat
<1>8. CASE r.pc = "asleep" /\ r.t >= TickSeconds
    <2>1. b # Never /\ m.t >= TickSeconds
        BY <1>1, <1>4, <1>8, WorkTypes
    <2> QED
        BY <1>1, <1>2, <1>8, <2>1, WorkTypes DEF ToHeartbeat
<1> QED
    BY <1>1, <1>5, <1>6, <1>7, <1>8, WorkTypes

\* A statement begins, or ends.
LEMMA LeftBlocks ==
    ASSUME NEW r \in Task, NEW a \in Task, r.pc \in {"working", "asleep"},
           (r.pc = "working" /\ r.t < MaxWork) \/ (a.pc = "working" /\ a.t < MaxWork)
    PROVE  ToHeartbeat(r, a, 0) <= ToHeartbeat(r, a, Never)
<1>1. a.pc = "working" /\ a.t < MaxWork => Kept(a, 0) = Kept(a, Never)
    BY DEF Kept
<1>2. 0 \in Moment /\ Never \in Moment
    BY WorkTypes DEF Moment
<1>3. CASE a.pc = "working" /\ a.t < MaxWork
    BY <1>1, <1>2, <1>3, ToHeartbeatIsNat DEF ToHeartbeat
<1>4. CASE r.pc = "working" /\ r.t < MaxWork
    BY <1>4, WorkTypes, TaskTypes DEF ToHeartbeat
<1> QED
    BY <1>3, <1>4

LEMMA LeftUnblocks ==
    ASSUME NEW r \in Task, NEW a \in Task, NEW b \in Moment, b # Never
    PROVE  ToHeartbeat(r, a, Never) <= ToHeartbeat(r, a, b)
<1>1. Never \in Moment
    BY DEF Moment
<1>2. Kept(a, Never) <= Kept(a, b)
    BY WorkTypes, TaskTypes DEF Kept, Moment, Work
<1>3. Kept(a, Never) \in Nat /\ Kept(a, b) \in Nat /\ r.t \in Nat
    BY <1>1, KeptBounds, TaskTypes
<1> DEFINE new == Kept(a, Never)
           old == Kept(a, b)
<1> HIDE DEF new, old
<1>4. new <= old /\ new \in Nat /\ old \in Nat /\ r.t \in Nat
    BY <1>2, <1>3 DEF new, old
<1>5. CASE r.pc = "working" /\ r.t < MaxWork
    BY <1>4, <1>5, WorkTypes DEF ToHeartbeat
<1>6. CASE r.pc = "working" /\ r.t >= MaxWork
    BY <1>4, <1>6, WorkTypes DEF ToHeartbeat, new, old
<1>7. CASE r.pc = "asleep" /\ r.t < TickSeconds
    BY <1>4, <1>7, WorkTypes DEF ToHeartbeat
<1>8. CASE r.pc # "working" /\ ~(r.pc = "asleep" /\ r.t < TickSeconds)
    BY <1>4, <1>8, WorkTypes DEF ToHeartbeat, new, old
<1> QED
    BY <1>4, <1>5, <1>6, <1>7, <1>8, WorkTypes

\* The sweep goes on.
LEMMA LeftSweeps ==
    ASSUME NEW r \in Task, NEW a \in Task, NEW n \in Task, n.t = 0,
           \/ n.pc \in {"asleep", "hung", "dead"}
           \/ n.pc = "working" /\ a.pc = "asleep" /\ a.t >= TickSeconds
    PROVE  ToHeartbeat(r, n, Never) <= ToHeartbeat(r, a, Never)
<1>1. Never \in Moment
    BY DEF Moment
<1>2. Kept(n, Never) <= Kept(a, Never)
    <2>1. Kept(a, Never) \in Nat
        BY <1>1, KeptBounds
    <2>2. CASE n.pc \in {"asleep", "hung", "dead"}
        BY <2>1, <2>2, WorkTypes DEF Kept
    <2>3. CASE n.pc = "working" /\ a.pc = "asleep" /\ a.t >= TickSeconds
        BY <2>3, WorkTypes DEF Kept
    <2> QED
        BY <2>2, <2>3
<1>3. Kept(n, Never) \in Nat /\ Kept(a, Never) \in Nat /\ r.t \in Nat
    BY <1>1, KeptBounds, TaskTypes
<1> QED
    BY <1>2, <1>3, WorkTypes DEF ToHeartbeat

\* A tick of the reminders ends, or begins.
LEMMA LeftSleeps ==
    ASSUME NEW r \in Task, NEW a \in Task, NEW m \in Task,
           r.pc = "working", m.pc = "asleep", m.t = 0
    PROVE  ToHeartbeat(m, a, Never) <= ToHeartbeat(r, a, Never)
<1>1. Never \in Moment
    BY DEF Moment
<1>2. Kept(a, Never) \in Nat /\ r.t \in Nat
    BY <1>1, KeptBounds, TaskTypes
<1> QED
    BY <1>2, WorkTypes DEF ToHeartbeat

LEMMA LeftAtTick ==
    ASSUME NEW m \in Task, NEW a \in Task, m.pc \in {"working", "asleep"}, m.t = 0
    PROVE  ToHeartbeat(m, a, Never) <= LongestGap
<1>1. Never \in Moment
    BY DEF Moment
<1>2. Kept(a, Never) \in Nat /\ Kept(a, Never) <= Work
    BY <1>1, KeptBounds
<1> QED
    BY <1>2, WorkTypes DEF ToHeartbeat, LongestGap, Work

--------------------------------------------------------------------------------
(* The steps.                                                              *)

LEMMA LiveTypes ==
    ASSUME TypeOK
    PROVE  /\ task["reminders"] \in Task /\ task["auto_kick"] \in Task
           /\ blocked # Forever => blocked \in Moment
           /\ heartbeat # Never => heartbeat \in Nat /\ heartbeat <= HEARTBEAT_THRESHOLD_SECONDS
           /\ probe.next \in Nat /\ probe.failures \in Nat
           /\ Ticks => Left \in Nat
<1>1. task["reminders"] \in Task /\ task["auto_kick"] \in Task
    BY DEF TypeOK, Scheduler
<1>2. blocked # Forever => blocked \in Moment
    BY DEF TypeOK, Age, Moment
<1>3. heartbeat # Never => heartbeat \in Nat /\ heartbeat <= HEARTBEAT_THRESHOLD_SECONDS
    BY ConstantTypes DEF TypeOK, Age
<1>4. probe.next \in Nat /\ probe.failures \in Nat
    BY ConstantTypes DEF TypeOK
<1>5. Ticks => Left \in Nat
    BY <1>1, <1>2, ToHeartbeatIsNat DEF Left, Ticks
<1> QED
    BY <1>1, <1>2, <1>3, <1>4, <1>5

LEMMA LiveTypesNext ==
    ASSUME TypeOK'
    PROVE  /\ task'["reminders"] \in Task /\ task'["auto_kick"] \in Task
           /\ Ticks' => Left' \in Nat
<1>1. task'["reminders"] \in Task /\ task'["auto_kick"] \in Task
    BY DEF TypeOK, Scheduler
<1>2. blocked' # Forever => blocked' \in Moment
    BY DEF TypeOK, Age, Moment
<1> QED
    BY <1>1, <1>2, ToHeartbeatIsNat DEF Left, Ticks

LEMMA Multiples ==
    /\ \A f \in Nat : f * ProbePeriod \in Nat /\ (f + 1) * ProbePeriod = f * ProbePeriod + ProbePeriod
    /\ 0 * ProbePeriod = 0
  BY ConstantTypes, Z3

\* A step that leaves the probes alone and brings no heartbeat.
LEMMA BoundsKept ==
    ASSUME TypeOK, TypeOK', LiveInv, UNCHANGED <<heartbeat, probe, row>>,
           up' = "running" => up = "running",
           Ticks' /\ heartbeat # Never => Ticks /\ Left' <= Left
    PROVE  GapBounded' /\ RowBounded'
<1>1. /\ heartbeat # Never => heartbeat \in Nat
      /\ probe.next \in Nat /\ probe.failures \in Nat
      /\ Ticks => Left \in Nat
      /\ Ticks' => Left' \in Nat
    BY LiveTypes, LiveTypesNext
<1>2. probe.failures * ProbePeriod \in Nat /\ HEARTBEAT_THRESHOLD_SECONDS \in Nat
    BY <1>1, Multiples, ConstantTypes
<1> DEFINE e == probe.failures * ProbePeriod
           now == Left
           later == Left'
<1>3. e' = e
    OBVIOUS
<1>4. GapBounded'
    <2>1. ASSUME heartbeat # Never, Ticks' PROVE heartbeat + later <= LongestGap
        <3>1. heartbeat + now <= LongestGap /\ later <= now
            BY <2>1 DEF LiveInv, GapBounded
        <3>2. heartbeat \in Nat /\ now \in Nat /\ later \in Nat
            BY <1>1, <2>1
        <3> HIDE DEF now, later
        <3> QED
            BY <3>1, <3>2, WorkTypes
    <2> QED
        BY <2>1 DEF GapBounded
<1>5. RowBounded'
    <2>1. ASSUME up' = "running", row = "calm", Ticks'
          PROVE  /\ probe.next <= ProbePeriod /\ probe.failures < FailureThreshold
                 /\ probe.failures > 0 =>
                       \/ heartbeat + probe.next < HEARTBEAT_THRESHOLD_SECONDS
                       \/ HEARTBEAT_THRESHOLD_SECONDS + (e - probe.next) + later <= LongestGap
        <3>1. heartbeat # Never
            BY <2>1 DEF LiveInv, AnsweredMeansTicked
        <3>2. Ticks /\ later <= now /\ up = "running"
            BY <2>1, <3>1
        <3>3. /\ probe.next <= ProbePeriod /\ probe.failures < FailureThreshold
              /\ probe.failures > 0 =>
                    \/ heartbeat + probe.next < HEARTBEAT_THRESHOLD_SECONDS
                    \/ HEARTBEAT_THRESHOLD_SECONDS + (e - probe.next) + now <= LongestGap
            BY <2>1, <3>2 DEF LiveInv, RowBounded
        <3>4. now \in Nat /\ later \in Nat
            BY <1>1, <2>1, <3>2
        <3> HIDE DEF e, now, later
        <3>5. HEARTBEAT_THRESHOLD_SECONDS + (e - probe.next) + now <= LongestGap =>
                 HEARTBEAT_THRESHOLD_SECONDS + (e - probe.next) + later <= LongestGap
            BY <1>1, <1>2, <3>2, <3>4, WorkTypes DEF e
        <3> QED
            BY <3>3, <3>5
    <2> HIDE DEF later
    <2> QED
        BY <2>1 DEF RowBounded, later
<1> QED
    BY <1>4, <1>5

\* Nothing of the two loops, the event loop and the probes changes.
LEMMA AsideKeeps ==
    ASSUME TypeOK, TypeOK', LiveInv, UNCHANGED <<task, blocked, heartbeat, probe, row>>,
           up' = up \/ up' \in {"draining", "cleaned"}
    PROVE  LiveInv'
<1>1. BlockedByWork' /\ AnsweredMeansTicked'
    BY DEF LiveInv, BlockedByWork, AnsweredMeansTicked
<1>2. Ticks' = Ticks /\ Left' = Left /\ (Ticks => Left \in Nat)
    BY LiveTypes DEF Ticks, Left
<1>3. GapBounded' /\ RowBounded'
    BY <1>2, BoundsKept
<1> QED
    BY <1>1, <1>3 DEF LiveInv

\* Without a heartbeat nothing is answered.
LEMMA Unheard ==
    ASSUME heartbeat' = Never, row' # "calm", BlockedByWork', up' \in {"setup", "down"} => row' = "first"
    PROVE  LiveInv'
  BY DEF LiveInv, AnsweredMeansTicked, GapBounded, RowBounded

LEMMA GoneKeeps ==
    ASSUME Gone
    PROVE  LiveInv'
  BY ConstantTypes, Unheard DEF Gone, BlockedByWork

\* One loop goes on while the event loop is free.
LEMMA TaskKeeps ==
    ASSUME TypeOK, TypeOK', LiveInv, NEW s \in Scheduler,
           NEW pc \in {"working", "asleep", "hung", "dead"},
           task' = [task EXCEPT ![s] = Go(s, pc)], Free,
           UNCHANGED <<up, blocked, heartbeat, probe, row>>,
           s = "auto_kick" => pc # "working" \/ (task[s].pc = "asleep" /\ task[s].t >= TickSeconds),
           s = "reminders" => pc \in {"hung", "dead"} \/ (pc = "asleep" /\ task[s].pc = "working")
    PROVE  LiveInv'
<1>1. /\ task'[s].pc = pc /\ task'[s].t = 0
      /\ \A q \in Scheduler \ {s} : task'[q] = task[q]
      /\ s \in {"reminders", "auto_kick"}
      /\ "reminders" \in Scheduler /\ "auto_kick" \in Scheduler
    BY DEF TypeOK, Go, Scheduler
<1>2. blocked = Never /\ blocked' = Never /\ Never # Forever /\ Never \notin Nat
    BY ConstantTypes DEF Free
<1>3. BlockedByWork' /\ AnsweredMeansTicked'
    BY <1>1, <1>2 DEF LiveInv, BlockedByWork, AnsweredMeansTicked
<1>4. ASSUME Ticks' PROVE Ticks /\ Left' <= Left
    <2>1. CASE s = "auto_kick"
        <3>1. task'["reminders"] = task["reminders"]
            BY <1>1, <2>1
        <3>2. Ticks
            BY <1>2, <1>4, <3>1 DEF Ticks
        <3>3. task["reminders"] \in Task /\ task["auto_kick"] \in Task /\ task'["auto_kick"] \in Task
            BY LiveTypes, LiveTypesNext
        <3>4. ToHeartbeat(task["reminders"], task'["auto_kick"], Never)
                 <= ToHeartbeat(task["reminders"], task["auto_kick"], Never)
            BY <1>1, <2>1, <3>3, LeftSweeps
        <3> QED
            BY <1>2, <3>1, <3>2, <3>4 DEF Left
    <2>2. CASE s = "reminders"
        <3>1. pc = "asleep" /\ task["reminders"].pc = "working" /\ task'["auto_kick"] = task["auto_kick"]
            BY <1>1, <1>4, <2>2 DEF Ticks
        <3>2. Ticks
            BY <1>2, <3>1 DEF Ticks
        <3>3. task["reminders"] \in Task /\ task["auto_kick"] \in Task /\ task'["reminders"] \in Task
            BY LiveTypes, LiveTypesNext
        <3>4. ToHeartbeat(task'["reminders"], task["auto_kick"], Never)
                 <= ToHeartbeat(task["reminders"], task["auto_kick"], Never)
            BY <1>1, <2>2, <3>1, <3>3, LeftSleeps
        <3> QED
            BY <1>2, <3>1, <3>2, <3>4 DEF Left
    <2> QED
        BY <1>1, <2>1, <2>2
<1>5. GapBounded' /\ RowBounded'
    BY <1>4, BoundsKept
<1> QED
    BY <1>3, <1>5 DEF LiveInv

LEMMA BlockKeeps ==
    ASSUME TypeOK, TypeOK', LiveInv, Block \/ Unblock
    PROVE  LiveInv'
<1>1. /\ UNCHANGED <<up, task, heartbeat, probe, row>>
      /\ Block => /\ blocked = Never /\ blocked' \in {0, Forever}
                  /\ \E s \in Scheduler : task[s].pc = "working" /\ task[s].t < MaxWork
      /\ Unblock => blocked \in 1 .. MaxBlock /\ blocked' = Never
    BY DEF Block, Unblock, Free
<1>2. BlockedByWork' /\ AnsweredMeansTicked'
    BY <1>1, ConstantTypes DEF LiveInv, BlockedByWork, AnsweredMeansTicked
<1>3. /\ task["reminders"] \in Task /\ task["auto_kick"] \in Task
    BY LiveTypes
<1>4. ASSUME Ticks' PROVE Ticks /\ Left' <= Left
    <2>1. task["reminders"].pc \in {"working", "asleep"} /\ blocked' # Forever
        BY <1>1, <1>4 DEF Ticks
    <2>2. CASE Block
        <3>1. blocked = Never /\ blocked' = 0
            BY <1>1, <2>1, <2>2
        <3>2. \/ task["reminders"].pc = "working" /\ task["reminders"].t < MaxWork
              \/ task["auto_kick"].pc = "working" /\ task["auto_kick"].t < MaxWork
            BY <1>1, <2>2 DEF Scheduler
        <3>3. Left' <= Left
            BY <1>1, <1>3, <2>1, <3>1, <3>2, LeftBlocks DEF Left
        <3> QED
            BY <2>1, <3>1, <3>3, ConstantTypes DEF Ticks
    <2>3. CASE Unblock
        <3>1. blocked \in Moment /\ blocked # Never /\ blocked # Forever /\ blocked' = Never
            BY <1>1, <2>3, ConstantTypes DEF Moment
        <3>2. Left' <= Left
            BY <1>1, <1>3, <3>1, LeftUnblocks DEF Left
        <3> QED
            BY <2>1, <3>1, <3>2 DEF Ticks
    <2> QED
        BY <2>2, <2>3
<1>5. GapBounded' /\ RowBounded'
    BY <1>1, <1>4, BoundsKept
<1> QED
    BY <1>2, <1>5 DEF LiveInv

\* The heartbeat of the reminder loop.
LEMMA HeartbeatKeeps ==
    ASSUME TypeOK, TypeOK', LiveInv, ProbesFit, Tick("reminders")
    PROVE  LiveInv'
<1>1. /\ heartbeat' = 0 /\ UNCHANGED <<up, blocked, probe, row>> /\ blocked = Never
      /\ up \in {"running", "draining", "cleaned"} /\ task["reminders"].pc = "asleep"
      /\ 0 # Never /\ Never \notin Nat /\ Never # Forever
    BY ConstantTypes DEF Tick, Wakes, Free, Alive
<1>2. /\ task'["reminders"].pc \in {"working", "asleep"} /\ task'["reminders"].t = 0
      /\ task'["auto_kick"] = task["auto_kick"]
    <2>1. \E pc \in {"working", "asleep"} : task' = [task EXCEPT !["reminders"] = Go("reminders", pc)]
        BY DEF Tick
    <2>2. PICK pc \in {"working", "asleep"} : task' = [task EXCEPT !["reminders"] = Go("reminders", pc)]
        BY <2>1
    <2>3. "reminders" \in Scheduler /\ "auto_kick" \in Scheduler /\ task \in [Scheduler -> Task]
        BY DEF TypeOK, Scheduler
    <2> QED
        BY <2>2, <2>3 DEF Go
<1>3. BlockedByWork' /\ AnsweredMeansTicked'
    BY <1>1, <1>2 DEF LiveInv, BlockedByWork, AnsweredMeansTicked
<1>4. Left' <= LongestGap /\ Left' \in Nat
    <2>1. task'["reminders"] \in Task /\ task["auto_kick"] \in Task
        BY LiveTypes, LiveTypesNext
    <2>2. Never \in Moment
        BY DEF Moment
    <2> QED
        BY <1>1, <1>2, <2>1, <2>2, LeftAtTick, ToHeartbeatIsNat DEF Left
<1>5. GapBounded'
    BY <1>1, <1>4 DEF GapBounded
<1>6. ASSUME up = "running", row = "calm"
      PROVE  /\ probe.next <= ProbePeriod /\ probe.failures < FailureThreshold
             /\ 0 + probe.next < HEARTBEAT_THRESHOLD_SECONDS
    <2>1. Ticks
        BY <1>1 DEF Ticks
    <2>2. probe.next <= ProbePeriod /\ probe.failures < FailureThreshold /\ probe.next \in Nat
        BY <1>6, <2>1, LiveTypes DEF LiveInv, RowBounded
    <2> QED
        BY <2>2, ConstantTypes DEF ProbesFit
<1>7. RowBounded'
    BY <1>1, <1>6 DEF RowBounded
<1> QED
    BY <1>3, <1>5, <1>7 DEF LiveInv

\* A probe that fails in a calm row finds the gap of the first.
LEMMA ProbeKeeps ==
    ASSUME TypeOK, TypeOK', LiveInv, ProbesFit, Probe
    PROVE  LiveInv'
<1>1. /\ UNCHANGED <<up, task, blocked, heartbeat>> /\ up # "down" /\ row' = NextRow
      /\ probe.next = 0 /\ probe.failures < FailureThreshold
      /\ probe'.next = ProbePeriod
      /\ probe'.failures = IF Healthz THEN 0 ELSE probe.failures + 1
    BY DEF Probe, ProbeDue
<1>2. /\ row' = "calm" => Healthz \/ (row = "calm" /\ Free)
      /\ ~Healthz /\ row = "first" => row' = "first"
    BY <1>1 DEF NextRow
<1>3. Healthz => heartbeat # Never
    BY DEF Healthz
<1>4. BlockedByWork' /\ AnsweredMeansTicked'
    BY <1>1, <1>2, <1>3 DEF LiveInv, BlockedByWork, AnsweredMeansTicked
<1>5. Ticks' = Ticks /\ Left' = Left
    BY <1>1 DEF Ticks, Left
<1>6. GapBounded'
    BY <1>1, <1>5 DEF LiveInv, GapBounded
<1>7. ASSUME up = "running", row' = "calm", Ticks
      PROVE  /\ probe'.failures < FailureThreshold
             /\ probe'.failures > 0 =>
                   HEARTBEAT_THRESHOLD_SECONDS + (probe'.failures * ProbePeriod - probe'.next) + Left
                      <= LongestGap
    <2>1. CASE Healthz
        BY <1>1, <2>1, ConstantTypes
    <2>2. CASE ~Healthz
        <3> DEFINE f == probe.failures
                   left == Left
                   e == f * ProbePeriod
        <3>1. row = "calm" /\ Free /\ heartbeat # Never
            BY <1>2, <1>7, <2>2 DEF LiveInv, AnsweredMeansTicked
        <3>2. heartbeat = HEARTBEAT_THRESHOLD_SECONDS /\ HEARTBEAT_THRESHOLD_SECONDS \in Nat
            BY <1>7, <2>2, <3>1, LiveTypes, ConstantTypes DEF Healthz
        <3>3. HEARTBEAT_THRESHOLD_SECONDS + left <= LongestGap
            BY <1>7, <3>1, <3>2 DEF LiveInv, GapBounded
        <3>4. /\ left \in Nat /\ f \in Nat /\ e \in Nat /\ f < FailureThreshold
              /\ (f + 1) * ProbePeriod = e + ProbePeriod
              /\ f = 0 => e = 0
            BY <1>1, <1>7, LiveTypes, Multiples
        <3>5. f > 0 => HEARTBEAT_THRESHOLD_SECONDS + (e - 0) + left <= LongestGap
            <4>1. ~(heartbeat + 0 < HEARTBEAT_THRESHOLD_SECONDS)
                BY <3>2
            <4> QED
                BY <1>1, <1>7, <3>1, <4>1 DEF LiveInv, RowBounded
        <3>6. HEARTBEAT_THRESHOLD_SECONDS + e + left <= LongestGap
            <4> HIDE DEF e, left, f
            <4> QED
                BY <3>2, <3>3, <3>4, <3>5, WorkTypes
        <3>7. f + 1 < FailureThreshold
            <4>1. f = FailureThreshold - 1 => LongestGap < HEARTBEAT_THRESHOLD_SECONDS + e
                BY DEF ProbesFit
            <4> HIDE DEF e, left, f
            <4>2. f # FailureThreshold - 1
                BY <3>2, <3>4, <3>6, <4>1, WorkTypes
            <4> QED
                BY <3>4, <4>2, ConstantTypes
        <3>8. probe'.failures = f + 1 /\ probe'.next = ProbePeriod /\ ProbePeriod \in Nat
            BY <1>1, <2>2, ConstantTypes
        <3>9. HEARTBEAT_THRESHOLD_SECONDS + ((e + ProbePeriod) - ProbePeriod) + left <= LongestGap
            <4> HIDE DEF e, left, f
            <4> QED
                BY <3>2, <3>4, <3>6, <3>8, WorkTypes
        <3> QED
            BY <3>4, <3>7, <3>8, <3>9
    <2> QED
        BY <2>1, <2>2
<1>8. RowBounded'
    BY <1>1, <1>5, <1>7, ConstantTypes DEF RowBounded
<1> QED
    BY <1>4, <1>6, <1>8 DEF LiveInv

\* A unit of time brings the next heartbeat, and the next probe, nearer.
LEMMA ElapseKeeps ==
    ASSUME TypeOK, TypeOK', LiveInv, Elapse
    PROVE  LiveInv'
<1>1. /\ UNCHANGED <<up, row>>
      /\ blocked' = Older(blocked, MaxBlock)
      /\ heartbeat' = Older(heartbeat, HEARTBEAT_THRESHOLD_SECONDS)
      /\ probe.next > 0 /\ probe' = [probe EXCEPT !.next = @ - 1]
    BY DEF Elapse
<1>2. /\ \A s \in Scheduler : task'[s].pc = task[s].pc
      /\ task["reminders"].pc \in {"working", "asleep"} =>
            task'["reminders"].t = Older(task["reminders"].t, Limit("reminders"))
      /\ task["auto_kick"].pc = "working" =>
            task'["auto_kick"].t = Older(task["auto_kick"].t, Limit("auto_kick"))
      /\ "reminders" \in Scheduler /\ "auto_kick" \in Scheduler
    BY DEF Elapse, TypeOK, Task, Scheduler
<1>3. /\ heartbeat = Never => heartbeat' = Never
      /\ heartbeat # Never => heartbeat' # Never /\ heartbeat' \in Nat /\ heartbeat' <= heartbeat + 1
    BY <1>1, LiveTypes, ConstantTypes DEF Older
<1>4. /\ blocked = Never => blocked' = Never
      /\ blocked = Forever => blocked' = Forever
      /\ blocked # Never /\ blocked # Forever =>
            /\ blocked \in 0 .. MaxBlock /\ blocked # MaxBlock
            /\ blocked' = blocked + 1 /\ blocked' # Never /\ blocked' # Forever
    <2>1. blocked # Never => blocked # MaxBlock
        BY DEF Elapse, Free
    <2>2. blocked # Never /\ blocked # Forever => blocked \in 0 .. MaxBlock
        BY DEF TypeOK, Age
    <2> QED
        BY <1>1, <2>1, <2>2, ConstantTypes DEF Older
<1>5. BlockedByWork'
    <2>1. blocked' \in Nat => blocked \in Nat
        BY <1>4, ConstantTypes
    <2> QED
        BY <1>2, <2>1 DEF LiveInv, BlockedByWork
<1>6. AnsweredMeansTicked'
    BY <1>1, <1>2, <1>3 DEF LiveInv, AnsweredMeansTicked
<1>7. ASSUME Ticks' PROVE Ticks /\ Left' + 1 <= Left
    <2>1. task["reminders"].pc \in {"working", "asleep"} /\ blocked # Forever /\ blocked' # Forever
        BY <1>2, <1>4, <1>7 DEF Ticks
    <2>2. /\ task["reminders"] \in Task /\ task["auto_kick"] \in Task /\ blocked \in Moment
          /\ task'["reminders"] \in Task /\ task'["auto_kick"] \in Task /\ blocked' \in Moment
        <3>1. blocked' \in Moment
            BY <2>1 DEF TypeOK, Age, Moment
        <3> QED
            BY <2>1, <3>1, LiveTypes, LiveTypesNext
    <2>3. blocked = Never =>
             /\ blocked' = Never
             /\ task["reminders"].pc = "working" => task["reminders"].t < MaxWork
             /\ task["reminders"].pc = "asleep" => task["reminders"].t < TickSeconds
        <3>1. blocked = Never => ~Due("reminders")
            BY DEF Elapse, Free, Scheduler
        <3>2. task["reminders"].t \in Nat
            BY <2>2, TaskTypes
        <3> QED
            BY <1>4, <3>1, <3>2, WorkTypes DEF Due
    <2>4. blocked # Never =>
             /\ blocked' = blocked + 1
             /\ task["reminders"].pc = "asleep" => task["auto_kick"].pc = "working"
        <3>1. blocked # Never => blocked \in Nat /\ blocked' = blocked + 1
            BY <1>4, <2>1, ConstantTypes
        <3> QED
            BY <3>1 DEF LiveInv, BlockedByWork, Scheduler
    <2>5. ToHeartbeat(task'["reminders"], task'["auto_kick"], blocked') + 1
             <= ToHeartbeat(task["reminders"], task["auto_kick"], blocked)
        BY <1>2, <2>1, <2>2, <2>3, <2>4, LeftElapses
    <2> QED
        BY <2>1, <2>5 DEF Ticks, Left
<1> DEFINE e == probe.failures * ProbePeriod
           now == Left
           later == Left'
<1>8. /\ Ticks => now \in Nat
      /\ Ticks' => Ticks /\ later \in Nat /\ later + 1 <= now
      /\ e \in Nat /\ e' = e /\ probe.next \in Nat
      /\ probe'.next = probe.next - 1 /\ probe'.failures = probe.failures
      /\ HEARTBEAT_THRESHOLD_SECONDS \in Nat
      /\ heartbeat # Never => heartbeat \in Nat
    <2>1. probe'.next = probe.next - 1 /\ probe'.failures = probe.failures
        BY <1>1 DEF TypeOK
    <2>2. probe.failures \in Nat /\ probe.next \in Nat
        BY LiveTypes
    <2>3. e \in Nat /\ e' = e
        BY <2>1, <2>2, Multiples
    <2> QED
        BY <1>7, <2>1, <2>2, <2>3, LiveTypes, LiveTypesNext, ConstantTypes
<1>9. GapBounded'
    <2>1. ASSUME heartbeat' # Never, Ticks' PROVE heartbeat' + later <= LongestGap
        <3>1. Ticks /\ heartbeat # Never /\ heartbeat + now <= LongestGap
            BY <1>3, <1>8, <2>1 DEF LiveInv, GapBounded
        <3> HIDE DEF now, later
        <3> QED
            BY <1>3, <1>8, <2>1, <3>1, WorkTypes
    <2> QED
        BY <2>1 DEF GapBounded
<1>10. RowBounded'
    <2>1. ASSUME up' = "running", row' = "calm", Ticks'
          PROVE  /\ probe'.next <= ProbePeriod /\ probe'.failures < FailureThreshold
                 /\ probe'.failures > 0 =>
                       \/ heartbeat' + probe'.next < HEARTBEAT_THRESHOLD_SECONDS
                       \/ HEARTBEAT_THRESHOLD_SECONDS + (e - probe'.next) + later <= LongestGap
        <3>1. heartbeat # Never /\ Ticks /\ up = "running" /\ row = "calm"
            BY <1>1, <1>7, <2>1 DEF LiveInv, AnsweredMeansTicked
        <3>2. /\ probe.next <= ProbePeriod /\ probe.failures < FailureThreshold
              /\ probe.failures > 0 =>
                    \/ heartbeat + probe.next < HEARTBEAT_THRESHOLD_SECONDS
                    \/ HEARTBEAT_THRESHOLD_SECONDS + (e - probe.next) + now <= LongestGap
            BY <3>1 DEF LiveInv, RowBounded
        <3> HIDE DEF e, now, later
        <3>3. heartbeat + probe.next < HEARTBEAT_THRESHOLD_SECONDS =>
                 heartbeat' + probe'.next < HEARTBEAT_THRESHOLD_SECONDS
            BY <1>1, <1>3, <1>8, <3>1
        <3>4. HEARTBEAT_THRESHOLD_SECONDS + (e - probe.next) + now <= LongestGap =>
                 HEARTBEAT_THRESHOLD_SECONDS + (e - probe'.next) + later <= LongestGap
            BY <1>8, <2>1, WorkTypes
        <3>5. probe'.next <= ProbePeriod
            BY <1>8, <3>2, ConstantTypes
        <3> QED
            BY <1>8, <3>2, <3>3, <3>4, <3>5
    <2>2. probe'.failures * ProbePeriod = e
        BY <1>8
    <2> HIDE DEF e, later
    <2> QED
        BY <2>1, <2>2 DEF RowBounded, later
<1> QED
    BY <1>5, <1>6, <1>9, <1>10 DEF LiveInv

LEMMA InitLives == ASSUME Init PROVE LiveInv
  BY ConstantTypes DEF Init, LiveInv, BlockedByWork, AnsweredMeansTicked, GapBounded, RowBounded

\* A process that has not ticked yet.
LEMMA StartKeeps ==
    ASSUME TypeOK, LiveInv, SetUp \/ Boot \/ StartSchedulers
    PROVE  LiveInv'
<1>1. heartbeat = Never
    BY DEF SetUp, Boot, StartSchedulers, LiveInv, AnsweredMeansTicked
<1>2. heartbeat' = Never /\ row' = row /\ row # "calm"
    BY <1>1 DEF SetUp, Boot, StartSchedulers, LiveInv, AnsweredMeansTicked
<1>3. up' = "setup" => row' = "first"
    BY <1>2 DEF SetUp, Boot, StartSchedulers, Alive, LiveInv, AnsweredMeansTicked
<1>4. up' # "down"
    BY DEF SetUp, Boot, StartSchedulers, Alive
<1>5. BlockedByWork'
    <2>1. CASE Boot
        BY <2>1 DEF Boot, LiveInv, BlockedByWork
    <2>2. CASE SetUp \/ StartSchedulers
        BY <2>2, ConstantTypes DEF SetUp, StartSchedulers, Free, BlockedByWork
    <2> QED
        BY <2>1, <2>2
<1> QED
    BY <1>2, <1>3, <1>4, <1>5, Unheard

\* One loop goes on, or hangs.
LEMMA LoopKeeps ==
    ASSUME TypeOK, TypeOK', LiveInv, ProbesFit, NEW s \in Scheduler, Loop(s) \/ Hang(s)
    PROVE  LiveInv'
<1>1. s = "reminders" \/ s = "auto_kick"
    BY DEF Scheduler
<1>2. CASE Tick(s) /\ s = "reminders"
    BY <1>2, HeartbeatKeeps
<1>3. CASE Tick(s) /\ s = "auto_kick"
    <2>1. PICK pc \in {"working", "asleep"} : task' = [task EXCEPT ![s] = Go(s, pc)]
        BY <1>3 DEF Tick
    <2>2. /\ Free /\ UNCHANGED <<up, blocked, heartbeat, probe, row>>
          /\ task[s].pc = "asleep" /\ task[s].t >= TickSeconds
        BY <1>3 DEF Tick, Wakes
    <2> QED
        BY <1>3, <2>1, <2>2, TaskKeeps
<1>4. CASE Complete(s) \/ Abort(s)
    <2>1. /\ task' = [task EXCEPT ![s] = Go(s, "asleep")] /\ Free
          /\ UNCHANGED <<up, blocked, heartbeat, probe, row>> /\ task[s].pc = "working"
        BY <1>4 DEF Complete, Abort, Works
    <2> QED
        BY <2>1, TaskKeeps
<1>5. CASE Hang(s)
    <2>1. /\ task' = [task EXCEPT ![s] = Go(s, "hung")] /\ Free
          /\ UNCHANGED <<up, blocked, heartbeat, probe, row>>
        BY <1>5 DEF Hang
    <2> QED
        BY <2>1, TaskKeeps
<1> QED
    BY <1>1, <1>2, <1>3, <1>4, <1>5 DEF Loop

\* A start that failed, or a sweep that has died.
LEMMA DeadKeeps ==
    ASSUME TypeOK, TypeOK', LiveInv, StartFails \/ SweepDies
    PROVE  LiveInv'
<1>1. PICK s \in Scheduler : task' = [task EXCEPT ![s] = Go(s, "dead")]
    BY DEF StartFails, SweepDies, Scheduler
<1>2. Free /\ UNCHANGED <<up, blocked, heartbeat, probe, row>>
    BY DEF StartFails, SweepDies, Works
<1> QED
    BY <1>1, <1>2, TaskKeeps

\* What is aside of the loops and the probes.
LEMMA OthersKeep ==
    ASSUME TypeOK, TypeOK', LiveInv,
           \/ GatewayReady \/ Disconnect \/ SidecarEnds \/ Close \/ Drained
           \/ UNCHANGED vars
    PROVE  LiveInv'
<1>1. UNCHANGED <<task, blocked, heartbeat, probe, row>>
    BY DEF GatewayReady, Disconnect, SidecarEnds, Close, Drained, vars
<1>2. up' = up \/ up' \in {"draining", "cleaned"}
    BY DEF GatewayReady, Disconnect, SidecarEnds, Close, Drained, vars
<1> QED
    BY <1>1, <1>2, AsideKeeps

LEMMA StepLives ==
    ASSUME TypeOK, TypeOK', LiveInv, ProbesFit, [Next]_vars
    PROVE  LiveInv'
<1>1. CASE SetUp \/ Boot \/ StartSchedulers
    BY <1>1, StartKeeps
<1>2. CASE \E s \in Scheduler : Loop(s) \/ Hang(s)
    BY <1>2, LoopKeeps
<1>3. CASE StartFails \/ SweepDies
    BY <1>3, DeadKeeps
<1>4. CASE \/ GatewayReady \/ Disconnect \/ SidecarEnds \/ Close \/ Drained
           \/ UNCHANGED vars
    BY <1>4, OthersKeep
<1>5. CASE SetUpFails \/ Exit \/ Kill
    BY <1>5, GoneKeeps DEF SetUpFails, Exit, Kill
<1>6. CASE Block \/ Unblock
    BY <1>6, BlockKeeps
<1>7. CASE Probe
    BY <1>7, ProbeKeeps
<1>8. CASE Elapse
    BY <1>8, ElapseKeeps
<1> QED
    BY <1>1, <1>2, <1>3, <1>4, <1>5, <1>6, <1>7, <1>8 DEF Next

\* Only the platform takes down a container that runs, and no calm row of
\* failures is full while the loop ticks.
LEMMA CalmIsSpared ==
    ASSUME TypeOK, LiveInv, [Next]_vars, up = "running", up' = "down", row = "calm"
    PROVE  task["reminders"].pc \in {"hung", "dead"} \/ blocked = Forever
<1>1. Kill
    BY DEF vars, Next, Loop, SetUp, SetUpFails, GatewayReady, Disconnect, StartSchedulers,
           StartFails, SidecarEnds, Tick, Complete, Abort, Hang, SweepDies,
           Block, Unblock, Close, Drained, Exit, Probe, Boot, Elapse
<1>2. ~Ticks
    BY <1>1, ConstantTypes, LiveTypes DEF Kill, LiveInv, RowBounded
<1>3. task["reminders"].pc \notin {"none", "waiting"}
    BY DEF LiveInv, AnsweredMeansTicked
<1>4. task["reminders"].pc \in {"none", "waiting", "working", "asleep", "hung", "dead"}
    BY LiveTypes, TaskTypes
<1> QED
    BY <1>2, <1>3, <1>4 DEF Ticks

\* Whenever the period and the failureThreshold of the probe outlast the
\* longest gap between two heartbeats, the liveness probe, once answered, kills
\* no container whose reminder loop ticks, unless a probe of the row found the
\* event loop in a statement.
THEOREM LiveLoopIsSpared == ProbesFit => (Spec => LiveSchedulerKept)
<1> SUFFICES ASSUME ProbesFit PROVE Spec => LiveSchedulerKept
    OBVIOUS
<1>1. Init => IInv /\ LiveInv
    BY InitEstablishes, InitLives
<1>2. IInv /\ LiveInv /\ [Next]_vars => (IInv /\ LiveInv)'
    BY StepPreserves, StepLives DEF IInv
<1>3. IInv /\ LiveInv /\ [Next]_vars =>
        [up = "running" /\ up' = "down" /\ row = "calm" =>
            task["reminders"].pc \in {"hung", "dead"} \/ blocked = Forever]_vars
    BY CalmIsSpared DEF IInv
<1> QED
    BY <1>1, <1>2, <1>3, PTL DEF Spec, LiveSchedulerKept
================================================================================
