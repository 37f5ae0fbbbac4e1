--------------------------- MODULE ReminderScheduler ---------------------------
(***************************************************************************)
(* The reminder scheduler: every minute a tick reads the due reminders,    *)
(* then the due member notifications, and delivers each by claiming its    *)
(* slot (INSERT and COMMIT), calling Discord, and deleting the claim when  *)
(* the call fails in a way worth retrying.                                 *)
(*                                                                         *)
(* A replica is one process of the bot.  One is the rule, two overlap      *)
(* during a revision rollout.  Inside a process only an `await' lets       *)
(* another coroutine run, so an officer's command served by replica p runs *)
(* when p is AtAwait; statements of two processes interleave freely.       *)
(***************************************************************************)
EXTENDS NotificationStore

CONSTANTS
    Replica,      \* processes that may be up
    Reminders,    \* the reminder rows, by id
    WeekdayOf,    \* the weekday of each date
    CondDates,    \* the dates on which each month_condition holds
    NoSlot,       \* "no send in progress"
    MaxFaults     \* bound: transient failures, database errors and crashes

Condition == {"tank_week_headsup", "tank_week_end",
              "siege_48h_headsup", "siege_24h_headsup"}

ASSUME SchedulerAssumption ==
    /\ WeekdayOf \in [Date -> 0 .. 6]
    /\ CondDates \in [Condition -> SUBSET Date]
    /\ \A r \in Reminder :
          /\ Reminders[r].weekday \in 0 .. 6
          /\ Reminders[r].fire_time \in Time
          /\ Reminders[r].month_condition \in Condition \cup {"none"}
    /\ NoSlot \notin Slot
    /\ MaxFaults \in Nat
    /\ Replica \cap {"open", "closed"} = {}

VARIABLES
    today, time,    \* the UTC wall clock
    proc,           \* each replica's scheduler task
    progress,       \* each replica's health.progress record
    posts,          \* messages Discord shows for a slot
    lost,           \* posted messages whose reply the bot never saw
    refused,        \* slots Discord refused for good (or without a channel)
    orphaned,       \* slots claimed by a crash or a failed statement
    faults          \* faults spent, at most MaxFaults

clockVars == <<today, time>>
historyVars == <<posts, lost, refused, orphaned>>
vars == <<storeVars, clockVars, proc, progress, historyVars, faults>>

(***************************************************************************)
(* Where a scheduler task can be.  "suppress", "channels" and "members"    *)
(* lie between two statements of one tick; the others are awaits.          *)
(***************************************************************************)
Await == {"asleep", "fetching", "sending"}
Pc == {"down", "suppress", "channels", "members"} \cup Await

Task == [pc : Pc, date : Date, time : Time, todo : SUBSET Slot,
         slot : Slot \cup {NoSlot}, reached : BOOLEAN, completed : BOOLEAN]

TypeOK ==
    /\ StoreTypeOK
    /\ today \in Date
    /\ time \in Time
    /\ proc \in [Replica -> Task]
    /\ progress \in [Replica -> {"stopped", "starting", "failed", "succeeded"}]
    /\ posts \in [Slot -> Nat]
    /\ lost \in [Slot -> Nat]
    /\ refused \subseteq Slot
    /\ orphaned \subseteq Slot
    /\ faults \in 0 .. MaxFaults

\* Another coroutine of the process may run: the task awaits, or is not there.
AtAwait(p) == proc[p].pc \in Await \cup {"down"}
Holding(p) == proc[p].pc \in {"fetching", "sending"}

Idle(pc) == [pc |-> pc, date |-> 0, time |-> 0, todo |-> {},
             slot |-> NoSlot, reached |-> FALSE, completed |-> TRUE]

Init ==
    /\ StoreInit
    /\ today = 0 /\ time = 0
    /\ proc = [p \in Replica |-> Idle("down")]
    /\ progress = [p \in Replica |-> "stopped"]
    /\ posts = [s \in Slot |-> 0]
    /\ lost = [s \in Slot |-> 0]
    /\ refused = {}
    /\ orphaned = {}
    /\ faults = 0

--------------------------------------------------------------------------------
(* Which reminders a tick keeps.                                           *)

Chan(r, d) == [kind |-> "channel", id |-> r, date |-> d]

CondHolds(c, d) == c = "none" \/ (c \in Condition /\ d \in CondDates[c])

\* weekday, fire time and month_condition: the reminder is due at (d, t).
DueAt(r, d, t) ==
    /\ Reminders[r].weekday = WeekdayOf[d]
    /\ Reminders[r].fire_time <= t
    /\ CondHolds(Reminders[r].month_condition, d)

\* Rows that compete for one slot of the week: same channel, weekday and time.
SamePlace(r, e) ==
    /\ Reminders[r].channel = Reminders[e].channel
    /\ Reminders[r].weekday = Reminders[e].weekday
    /\ Reminders[r].fire_time = Reminders[e].fire_time

IsTankEnd(r) == Reminders[r].month_condition = "tank_week_end"

\* Mutants of kept: the fire time is ignored; it must be the present minute.
KeptAllDay(d, t) ==
    {s \in ReminderSlot : s.date = d /\ DueAt(s.id, d, LastTime) /\ s \notin sent}
KeptOnTheMinute(d, t) ==
    {s \in ReminderSlot : /\ s.date = d /\ DueAt(s.id, d, t) /\ s \notin sent
                          /\ Reminders[s.id].fire_time = t}

kept(d, t) ==
    {s \in ReminderSlot : s.date = d /\ DueAt(s.id, d, t) /\ s \notin sent}

\* Mutant of tank_end: rows sent earlier the same day are forgotten.
TankEndKeptOnly(todo, d) == {e \in Reminder : IsTankEnd(e) /\ Chan(e, d) \in todo}

\* The tank-week-end rows that suppress: kept this tick, or sent earlier today.
tank_end(todo, d) ==
    {e \in Reminder :
        /\ IsTankEnd(e)
        /\ \/ Chan(e, d) \in todo
           \/ /\ d \in CondDates["tank_week_end"]
              /\ Chan(e, d) \in sent
              /\ Reminders[e].weekday = WeekdayOf[d]}

survivors(todo, d) ==
    {s \in todo : ~ /\ Reminders[s.id].month_condition = "none"
                    /\ \E e \in tank_end(todo, d) : SamePlace(s.id, e)}

--------------------------------------------------------------------------------
(* Building blocks.                                                        *)

Become(p, task) == proc' = [proc EXCEPT ![p] = task]

Goto(p, pc) == Become(p, [proc[p] EXCEPT !.pc = pc])

\* Where the loop over s's kind continues once s is dealt with.
Loop(s) == IF s.kind = "channel" THEN "channels" ELSE "members"

\* The current item is over; the loop it belongs to goes on.
NextItem(p, ok) ==
    Become(p, [proc[p] EXCEPT !.pc = Loop(proc[p].slot), !.slot = NoSlot,
                              !.reached = FALSE, !.completed = @ /\ ok])

\* An exception leaves the tick: the loop reports it and sleeps.
AbortTick(p) ==
    /\ Become(p, Idle("asleep"))
    /\ progress' = [progress EXCEPT ![p] = "failed"]

\* Mutant of FailItem: the error of a channel send is not raised again.
FailItemSwallowed(p) ==
    NextItem(p, proc[p].slot.kind = "channel") /\ UNCHANGED progress

\* A failed channel send ends the tick, a failed DM only its own iteration.
FailItem(p) ==
    IF proc[p].slot.kind = "channel"
    THEN AbortTick(p)
    ELSE NextItem(p, FALSE) /\ UNCHANGED progress

SpendFault == faults < MaxFaults /\ faults' = faults + 1

--------------------------------------------------------------------------------
(* The tick.                                                               *)

\* run(): the task starts, progress begins a new generation.
Start(p) ==
    /\ proc[p].pc = "down"
    /\ Goto(p, "asleep")
    /\ progress' = [progress EXCEPT ![p] = "starting"]
    /\ UNCHANGED <<storeVars, clockVars, historyVars, faults>>

\* The gateway is not ready: the tick is skipped and reported as failed.
SkipTick(p) ==
    /\ proc[p].pc = "asleep"
    /\ progress' = [progress EXCEPT ![p] = "failed"]
    /\ UNCHANGED <<storeVars, clockVars, proc, historyVars, faults>>

\* Mutant of BeginTick: the date is read in a zone ahead of UTC.
BeginTickAhead(p) ==
    /\ proc[p].pc = "asleep"
    /\ Become(p, [Idle("suppress") EXCEPT !.date = today + 1, !.time = time,
                                           !.todo = kept(today, time)])
    /\ UNCHANGED <<storeVars, clockVars, progress, historyVars, faults>>

\* Date and time are read once and attributed to the whole tick.
BeginTick(p) ==
    /\ proc[p].pc = "asleep"
    /\ Become(p, [Idle("suppress") EXCEPT !.date = today, !.time = time,
                                           !.todo = kept(today, time)])
    /\ UNCHANGED <<storeVars, clockVars, progress, historyVars, faults>>

\* The second query of the tick, and the suppression it decides.
Suppress(p) ==
    /\ proc[p].pc = "suppress"
    /\ Become(p, [proc[p] EXCEPT !.pc = "channels",
                                 !.todo = survivors(@, proc[p].date)])
    /\ UNCHANGED <<storeVars, clockVars, progress, historyVars, faults>>

\* mark_sent answers FALSE: another replica has the slot, or the row is gone.
Collide(p) ==
    /\ proc[p].pc \in {"channels", "members"}
    /\ \E s \in proc[p].todo :
          /\ ~Claimable(s)
          /\ Become(p, [proc[p] EXCEPT !.todo = @ \ {s}])
    /\ UNCHANGED <<storeVars, clockVars, progress, historyVars, faults>>

\* The claim is committed and the call to Discord goes out: a send, or first
\* a fetch of a member who is not in the cache.
Claim(p) ==
    /\ proc[p].pc \in {"channels", "members"}
    /\ \E s \in proc[p].todo, pc \in {"fetching", "sending"} :
          /\ Claimable(s)
          /\ pc = "fetching" => s.kind = "dm"
          /\ mark_sent(s)
          /\ Become(p, [proc[p] EXCEPT !.pc = pc, !.slot = s, !.todo = @ \ {s}])
    /\ UNCHANGED <<notifications, next_id, clockVars, progress, historyVars, faults>>

\* get_channel finds nothing: the claim stays, nothing is sent.
ClaimWithoutChannel(p) ==
    /\ proc[p].pc = "channels"
    /\ \E s \in proc[p].todo :
          /\ Claimable(s)
          /\ mark_sent(s)
          /\ Become(p, [proc[p] EXCEPT !.todo = @ \ {s}])
          /\ refused' = refused \cup {s}
    /\ UNCHANGED <<notifications, next_id, clockVars, progress, posts, lost, orphaned, faults>>

\* The channel loop is over: list_due for the tick's date and time.
ListDue(p) ==
    /\ proc[p].pc = "channels"
    /\ proc[p].todo = {}
    /\ Become(p, [proc[p] EXCEPT !.pc = "members",
                                 !.todo = list_due(proc[p].date, proc[p].time)])
    /\ UNCHANGED <<storeVars, clockVars, progress, historyVars, faults>>

EndTick(p) ==
    /\ proc[p].pc = "members"
    /\ proc[p].todo = {}
    /\ progress' = [progress EXCEPT ![p] =
                      IF proc[p].completed THEN "succeeded" ELSE "failed"]
    /\ Become(p, Idle("asleep"))
    /\ UNCHANGED <<storeVars, clockVars, historyVars, faults>>

--------------------------------------------------------------------------------
(* The awaits: what Discord does and what the bot hears of it.             *)

FetchFound(p) ==
    /\ proc[p].pc = "fetching"
    /\ Goto(p, "sending")
    /\ UNCHANGED <<storeVars, clockVars, progress, historyVars, faults>>

\* Discord accepts the message; the bot does not know yet.
Reach(p) ==
    /\ proc[p].pc = "sending"
    /\ ~proc[p].reached
    /\ Become(p, [proc[p] EXCEPT !.reached = TRUE])
    /\ posts' = [posts EXCEPT ![proc[p].slot] = @ + 1]
    /\ UNCHANGED <<storeVars, clockVars, progress, lost, refused, orphaned, faults>>

SendOk(p) ==
    /\ proc[p].pc = "sending"
    /\ proc[p].reached
    /\ NextItem(p, TRUE)
    /\ UNCHANGED <<storeVars, clockVars, progress, historyVars, faults>>

\* 403, 404 and other 4xx, of the send or of the fetch: the claim stays.
Refuse(p) ==
    /\ Holding(p)
    /\ ~proc[p].reached
    /\ NextItem(p, TRUE)
    /\ refused' = refused \cup {proc[p].slot}
    /\ UNCHANGED <<storeVars, clockVars, progress, posts, lost, orphaned, faults>>

\* Mutant of Transient: no unmark.
TransientKeepsClaim(p) ==
    /\ Holding(p)
    /\ SpendFault
    /\ FailItem(p)
    /\ UNCHANGED <<storeVars, clockVars, historyVars>>

\* Timeout, 429, 5xx or a broken connection: unmark and raise.  The message
\* may have reached Discord all the same.
Transient(p) ==
    /\ Holding(p)
    /\ SpendFault
    /\ unmark(proc[p].slot)
    /\ lost' = IF proc[p].reached THEN [lost EXCEPT ![proc[p].slot] = @ + 1] ELSE lost
    /\ FailItem(p)
    /\ UNCHANGED <<notifications, next_id, clockVars, posts, refused, orphaned>>

\* The same, and the DELETE fails: the claim stays behind.
UnmarkFails(p) ==
    /\ Holding(p)
    /\ SpendFault
    /\ orphaned' = orphaned \cup {proc[p].slot}
    /\ FailItem(p)
    /\ UNCHANGED <<storeVars, clockVars, posts, lost, refused>>

\* A query fails before or between the loops: the whole tick is given up.
QueryFails(p) ==
    /\ \/ proc[p].pc \in {"asleep", "suppress"}
       \/ proc[p].pc = "channels" /\ proc[p].todo = {}
    /\ SpendFault
    /\ AbortTick(p)
    /\ UNCHANGED <<storeVars, clockVars, historyVars>>

\* The INSERT fails for another reason than a collision; the connection may
\* break after the server committed it.
ClaimFails(p) ==
    /\ proc[p].pc \in {"channels", "members"}
    /\ SpendFault
    /\ \E s \in proc[p].todo :
          /\ \/ UNCHANGED <<sent, orphaned>>
             \/ /\ Claimable(s)
                /\ mark_sent(s)
                /\ orphaned' = orphaned \cup {s}
          /\ IF s.kind = "channel"
             THEN AbortTick(p)
             ELSE /\ Become(p, [proc[p] EXCEPT !.todo = @ \ {s}, !.completed = FALSE])
                  /\ UNCHANGED progress
    /\ UNCHANGED <<notifications, next_id, clockVars, posts, lost, refused>>

\* Mutant of Crash: the claim was not committed before the call.
CrashRollsBack(p) ==
    /\ proc[p].pc # "down"
    /\ SpendFault
    /\ Become(p, Idle("down"))
    /\ progress' = [progress EXCEPT ![p] = "stopped"]
    /\ sent' = sent \ {proc[p].slot}
    /\ UNCHANGED <<notifications, next_id, clockVars, historyVars>>

\* The process dies, or its task is cancelled at an await; nothing is undone.
Crash(p) ==
    /\ proc[p].pc # "down"
    /\ SpendFault
    /\ Become(p, Idle("down"))
    /\ progress' = [progress EXCEPT ![p] = "stopped"]
    /\ orphaned' = IF Holding(p) THEN orphaned \cup {proc[p].slot} ELSE orphaned
    /\ UNCHANGED <<storeVars, clockVars, posts, lost, refused>>

--------------------------------------------------------------------------------
(* The environment.                                                        *)

\* An officer's command runs in a process whose scheduler is at an await.
OfficerCommand ==
    /\ \E p \in Replica : AtAwait(p)
    /\ \/ \E row \in Row : create(row)
       \/ \E i \in NotifId, row \in Row : update(i, row)
       \/ \E i \in NotifId : delete(i)
    /\ UNCHANGED <<clockVars, proc, progress, historyVars, faults>>

AdvanceClock ==
    /\ \/ time < LastTime /\ time' = time + 1 /\ UNCHANGED today
       \/ time = LastTime /\ today < LastDate /\ time' = 0 /\ today' = today + 1
    /\ UNCHANGED <<storeVars, proc, progress, historyVars, faults>>

Step(p) ==
    \/ BeginTick(p) \/ Suppress(p) \/ Collide(p) \/ Claim(p)
    \/ ClaimWithoutChannel(p) \/ ListDue(p) \/ EndTick(p)
    \/ FetchFound(p) \/ Reach(p) \/ SendOk(p) \/ Refuse(p)

Fault(p) ==
    Transient(p) \/ UnmarkFails(p) \/ QueryFails(p) \/ ClaimFails(p) \/ Crash(p)

Next ==
    \/ \E p \in Replica : Start(p) \/ SkipTick(p) \/ Step(p) \/ Fault(p)
    \/ OfficerCommand
    \/ AdvanceClock

Spec == Init /\ [][Next]_vars

(***************************************************************************)
(* Fairness, for liveness only.  The platform restarts a process that is   *)
(* down; the event loop resumes a coroutine whose await is over and every  *)
(* await ends (discord.py and the database driver have timeouts); the      *)
(* gateway, however often it drops, is ready at infinitely many wake-ups.  *)
(***************************************************************************)
Fairness ==
    \A p \in Replica :
        /\ WF_vars(Start(p))
        /\ WF_vars(Step(p))
        /\ SF_vars(BeginTick(p))

FairSpec == Spec /\ Fairness

--------------------------------------------------------------------------------
(* Safety.                                                                 *)

Accounted(s) == posts[s] > 0 \/ s \in refused \cup orphaned

Holds(p, s) == Holding(p) /\ proc[p].slot = s

\* A row of member_notification that was deleted; its id never comes back.
Gone(s) == s.kind = "dm" /\ s.id < next_id /\ ~Exists(s.id)

\* Two replicas never deliver the same slot at the same time, whatever the
\* order of their statements (the UNIQUE constraint, sent_store.mark_sent).
OneHolder ==
    \A p, q \in Replica :
        Holding(p) /\ Holding(q) /\ proc[p].slot = proc[q].slot => p = q

\* A slot is posted again only after a reply that never arrived: crashes,
\* restarts, overlaps and retries by themselves never double a message.
DuplicateNeedsLostReply == \A s \in Slot : posts[s] <= 1 + lost[s]

\* A claimed slot was posted, refused for good, or cut short by a crash or a
\* failed statement; no handled failure leaves a claim and no message.
NoSilentDrop ==
    \A s \in sent : Accounted(s) \/ \E p \in Replica : Holds(p, s)

(***************************************************************************)
(* The inductive invariant behind the three properties above: a held slot  *)
(* is claimed (or its notification deleted under the holder), and the      *)
(* posts a slot may have run ahead of the lost replies only while claimed. *)
(***************************************************************************)
TaskOK ==
    \A p \in Replica :
        /\ Holding(p) => proc[p].slot \in Slot
        /\ ~Holding(p) \/ proc[p].pc = "fetching" => ~proc[p].reached

IdsBelowNext == \A i \in NotifId : Exists(i) => i < next_id

\* The foreign key of member_notification_sent.
SentRowsHaveParents == \A s \in sent : s.kind = "dm" => Exists(s.id)

Used(s) == s \in sent \/ Gone(s)

HeldIsUsed == \A p \in Replica : Holding(p) => Used(proc[p].slot)

PostsBounded ==
    \A s \in Slot : posts[s] <= lost[s] \/ (Used(s) /\ posts[s] <= lost[s] + 1)

HeldPosts ==
    \A p \in Replica : Holding(p) =>
        IF proc[p].reached THEN posts[proc[p].slot] > 0
        ELSE posts[proc[p].slot] <= lost[proc[p].slot]

\* What every state satisfies and every step preserves.
IInv ==
    /\ TypeOK
    /\ TaskOK
    /\ IdsBelowNext
    /\ SentRowsHaveParents
    /\ HeldIsUsed
    /\ OneHolder
    /\ PostsBounded
    /\ HeldPosts
    /\ NoSilentDrop

\* A reminder with no condition that shares its place with a tank-week-end
\* reminder is not claimed on an end-of-tank date.
Replaced(r, d) ==
    /\ Reminders[r].month_condition = "none"
    /\ d \in CondDates["tank_week_end"]
    /\ \E e \in Reminder : IsTankEnd(e) /\ SamePlace(r, e)

ReplacedNeverClaimed ==
    \A r \in Reminder, d \in Date : Replaced(r, d) => Chan(r, d) \notin sent

\* A message appears no earlier than its slot's date and fire time, on a
\* weekday and calendar date the row names, however late the tick runs.
PostedWhenDue ==
    [][\A s \in ReminderSlot : posts'[s] # posts[s] =>
          \/ today > s.date /\ DueAt(s.id, s.date, LastTime)
          \/ today = s.date /\ DueAt(s.id, s.date, time)]_vars

\* A tick that reports success to the health endpoint left no reminder that
\* was due when it began unclaimed, unless a tank-week-end row replaced it.
SuccessMeansServed ==
    [][\A p \in Replica :
         proc[p].pc = "members" /\ progress'[p] = "succeeded" /\ proc'[p] # proc[p]
         /\ proc'[p].pc = "asleep" =>
            \A r \in Reminder :
                DueAt(r, proc[p].date, proc[p].time) /\ ~Replaced(r, proc[p].date)
                => Chan(r, proc[p].date) \in sent]_vars

--------------------------------------------------------------------------------
(* The promise of the idempotency tables, implemented by the scheduler.    *)

slotState ==
    [s \in Slot |->
        IF \E p \in Replica : Holds(p, s) THEN CHOOSE p \in Replica : Holds(p, s)
        ELSE IF s \in sent \/ Gone(s) THEN "closed" ELSE "open"]

Slots == INSTANCE DeliverySlots WITH state <- slotState

\* Every slot goes open, owned by one replica, then closed or open again; a
\* closed slot never reopens, through crashes, retries and officers' deletes.
ImplementsSlots == Slots!Spec

--------------------------------------------------------------------------------
(* Liveness.                                                               *)

\* With finitely many faults, a reminder that is due is delivered, refused
\* or cut short before its date ends: no earlier failure starves it.
DueReminderServed ==
    \A s \in ReminderSlot :
        (today = s.date /\ DueAt(s.id, s.date, time) /\ ~Replaced(s.id, s.date))
            ~> (Accounted(s) \/ today # s.date)

\* A due notification likewise, unless an officer takes it back.
DueMember(s) ==
    /\ today = s.date
    /\ Exists(s.id)
    /\ notifications[s.id].enabled
    /\ notifications[s.id].fire_time <= time
    /\ s.date \in Occurs[notifications[s.id].schedule]

DueMemberServed ==
    \A s \in MemberSlot : DueMember(s) ~> (Accounted(s) \/ ~DueMember(s))

\* No failure of one channel or member starves another.
DueIsServed == DueReminderServed /\ DueMemberServed

================================================================================
