------------------------ MODULE ReminderScheduler_proof ------------------------
(***************************************************************************)
(* Proofs about ReminderScheduler, for any number of replicas, reminders,  *)
(* notifications, dates and faults.                                        *)
(***************************************************************************)
EXTENDS ReminderScheduler, TLAPS

LEMMA IdleInTask ==
    ASSUME NEW pc \in Pc PROVE Idle(pc) \in Task
  BY StoreAssumption DEF StoreAssumption, Idle, Task, Date, Time, Pc, Await

LEMMA SelectionsInSlot ==
    ASSUME NEW d, NEW t
    PROVE  kept(d, t) \subseteq Slot /\ list_due(d, t) \subseteq Slot
  BY DEF kept, list_due, Slot

LEMMA SurvivorsAmong ==
    ASSUME NEW todo, NEW d PROVE survivors(todo, d) \subseteq todo
  BY DEF survivors

--------------------------------------------------------------------------------
(* The type invariant.                                                     *)

LEMMA InitTypeOK == Init => TypeOK
<1> SUFFICES ASSUME Init PROVE TypeOK
  OBVIOUS
<1>1. Idle("down") \in Task
  BY IdleInTask DEF Pc
<1> QED
  BY <1>1, StoreAssumption, SchedulerAssumption
  DEF StoreAssumption, SchedulerAssumption, Init, TypeOK, StoreInit, StoreTypeOK, Date, Time

LEMMA BecomeType ==
    ASSUME TypeOK, NEW p \in Replica, NEW task \in Task, Become(p, task)
    PROVE  proc' \in [Replica -> Task]
  BY DEF Become, TypeOK

LEMMA NextItemType ==
    ASSUME TypeOK, NEW p \in Replica, Holding(p), NEW ok \in BOOLEAN, NextItem(p, ok)
    PROVE  proc' \in [Replica -> Task]
<1>1. Loop(proc[p].slot) \in Pc
  BY DEF Loop, Pc
<1>2. proc[p] \in Task
  BY DEF TypeOK
<1>3. [proc[p] EXCEPT !.pc = Loop(proc[p].slot), !.slot = NoSlot,
                      !.reached = FALSE, !.completed = @ /\ ok] \in Task
  BY <1>1, <1>2 DEF Task
<1> QED
  BY <1>3, BecomeType DEF NextItem

LEMMA AbortTickType ==
    ASSUME TypeOK, NEW p \in Replica, AbortTick(p)
    PROVE  /\ proc' \in [Replica -> Task]
           /\ progress' \in [Replica -> {"stopped", "starting", "failed", "succeeded"}]
  BY IdleInTask DEF AbortTick, Become, TypeOK, Pc, Await

LEMMA FailItemType ==
    ASSUME TypeOK, NEW p \in Replica, Holding(p), FailItem(p)
    PROVE  /\ proc' \in [Replica -> Task]
           /\ progress' \in [Replica -> {"stopped", "starting", "failed", "succeeded"}]
  BY NextItemType, AbortTickType DEF FailItem, TypeOK

LEMMA StepTypeOK == TypeOK /\ TaskOK /\ [Next]_vars => TypeOK'
<1> SUFFICES ASSUME TypeOK, TaskOK, [Next]_vars PROVE TypeOK'
  OBVIOUS
<1> USE DEF TypeOK, StoreTypeOK
<1>1. ASSUME NEW p \in Replica, Start(p) PROVE TypeOK'
  BY <1>1 DEF Start, Goto, Become, Task, Pc, Await, storeVars, clockVars, historyVars
<1>2. ASSUME NEW p \in Replica, SkipTick(p) PROVE TypeOK'
  BY <1>2 DEF SkipTick, storeVars, clockVars, historyVars
<1>3. ASSUME NEW p \in Replica, BeginTick(p) PROVE TypeOK'
  <2>1. Idle("suppress") \in Task
    BY IdleInTask DEF Pc
  <2>2. kept(today, time) \subseteq Slot
    BY SelectionsInSlot
  <2> QED
    BY <1>3, <2>1, <2>2 DEF BeginTick, Become, Task, storeVars, clockVars, historyVars
<1>4. ASSUME NEW p \in Replica, Suppress(p) PROVE TypeOK'
  <2>1. survivors(proc[p].todo, proc[p].date) \subseteq Slot
    BY SurvivorsAmong DEF Task
  <2> QED
    BY <1>4, <2>1 DEF Suppress, Become, Task, Pc, storeVars, clockVars, historyVars
<1>5. ASSUME NEW p \in Replica, Collide(p) PROVE TypeOK'
  BY <1>5 DEF Collide, Become, Task, storeVars, clockVars, historyVars
<1>6. ASSUME NEW p \in Replica, Claim(p) PROVE TypeOK'
  <2>1. PICK s \in proc[p].todo, pc \in {"fetching", "sending"} :
          /\ mark_sent(s)
          /\ Become(p, [proc[p] EXCEPT !.pc = pc, !.slot = s, !.todo = @ \ {s}])
    BY <1>6 DEF Claim
  <2>2. proc[p] \in Task /\ s \in Slot
    BY <2>1 DEF Task
  <2>3. [proc[p] EXCEPT !.pc = pc, !.slot = s, !.todo = @ \ {s}] \in Task
    BY <2>2 DEF Task, Pc, Await
  <2>4. proc' \in [Replica -> Task]
    BY <2>1, <2>3, BecomeType
  <2> QED
    BY <1>6, <2>1, <2>2, <2>4 DEF Claim, mark_sent, clockVars, historyVars
<1>7. ASSUME NEW p \in Replica, ClaimWithoutChannel(p) PROVE TypeOK'
  BY <1>7 DEF ClaimWithoutChannel, Become, mark_sent, Task, clockVars
<1>8. ASSUME NEW p \in Replica, ListDue(p) PROVE TypeOK'
  <2>1. list_due(proc[p].date, proc[p].time) \subseteq Slot
    BY SelectionsInSlot
  <2>2. [proc[p] EXCEPT !.pc = "members",
                        !.todo = list_due(proc[p].date, proc[p].time)] \in Task
    BY <2>1 DEF Task, Pc
  <2>3. proc' \in [Replica -> Task]
    BY <1>8, <2>2, BecomeType DEF ListDue
  <2> QED
    BY <1>8, <2>3 DEF ListDue, storeVars, clockVars, historyVars
<1>9. ASSUME NEW p \in Replica, EndTick(p) PROVE TypeOK'
  <2>1. Idle("asleep") \in Task
    BY IdleInTask DEF Pc, Await
  <2> QED
    BY <1>9, <2>1 DEF EndTick, Become, storeVars, clockVars, historyVars
<1>10. ASSUME NEW p \in Replica, FetchFound(p) PROVE TypeOK'
  BY <1>10 DEF FetchFound, Goto, Become, Task, Pc, Await, storeVars, clockVars, historyVars
<1>11. ASSUME NEW p \in Replica, Reach(p) PROVE TypeOK'
  <2>1. [proc[p] EXCEPT !.reached = TRUE] \in Task
    BY DEF Task
  <2>2. proc' \in [Replica -> Task]
    BY <1>11, <2>1, BecomeType DEF Reach
  <2>3. PICK n \in Nat : posts' = [posts EXCEPT ![proc[p].slot] = n]
    <3>1. proc[p].slot \in Slot
      BY <1>11 DEF Reach, TaskOK, Holding
    <3>2. posts[proc[p].slot] + 1 \in Nat
      BY <3>1
    <3> QED
      BY <1>11, <3>2, Zenon DEF Reach
  <2> QED
    BY <1>11, <2>2, <2>3 DEF Reach, storeVars, clockVars
<1>12. ASSUME NEW p \in Replica, SendOk(p) PROVE TypeOK'
  <2>1. proc' \in [Replica -> Task]
    BY <1>12, NextItemType DEF SendOk, Holding
  <2> QED
    BY <1>12, <2>1 DEF SendOk, storeVars, clockVars, historyVars
<1>13. ASSUME NEW p \in Replica, Refuse(p) PROVE TypeOK'
  <2>1. proc' \in [Replica -> Task]
    BY <1>13, NextItemType DEF Refuse
  <2> QED
    BY <1>13, <2>1 DEF Refuse, TaskOK, storeVars, clockVars
<1>14. ASSUME NEW p \in Replica, Transient(p) PROVE TypeOK'
  <2>1. /\ proc' \in [Replica -> Task]
        /\ progress' \in [Replica -> {"stopped", "starting", "failed", "succeeded"}]
    BY <1>14, FailItemType DEF Transient
  <2>2. faults' \in 0 .. MaxFaults
    BY <1>14, SchedulerAssumption DEF SchedulerAssumption, Transient, SpendFault
  <2>3. lost' = lost \/ \E n \in Nat : lost' = [lost EXCEPT ![proc[p].slot] = n]
    <3>1. proc[p].slot \in Slot
      BY <1>14 DEF Transient, TaskOK
    <3>2. lost[proc[p].slot] + 1 \in Nat
      BY <3>1
    <3> QED
      BY <1>14, <3>2, Zenon DEF Transient
  <2> QED
    BY <1>14, <2>1, <2>2, <2>3 DEF Transient, unmark, clockVars
<1>15. ASSUME NEW p \in Replica, UnmarkFails(p) PROVE TypeOK'
  <2>1. /\ proc' \in [Replica -> Task]
        /\ progress' \in [Replica -> {"stopped", "starting", "failed", "succeeded"}]
    BY <1>15, FailItemType DEF UnmarkFails
  <2>2. faults' \in 0 .. MaxFaults
    BY <1>15, SchedulerAssumption DEF SchedulerAssumption, UnmarkFails, SpendFault
  <2> QED
    BY <1>15, <2>1, <2>2 DEF UnmarkFails, TaskOK, storeVars, clockVars
<1>16. ASSUME NEW p \in Replica, QueryFails(p) PROVE TypeOK'
  <2>1. faults' \in 0 .. MaxFaults
    BY <1>16, SchedulerAssumption DEF SchedulerAssumption, QueryFails, SpendFault
  <2> QED
    BY <1>16, <2>1, AbortTickType DEF QueryFails, storeVars, clockVars, historyVars
<1>17. ASSUME NEW p \in Replica, ClaimFails(p) PROVE TypeOK'
  <2>1. faults' \in 0 .. MaxFaults
    BY <1>17, SchedulerAssumption DEF SchedulerAssumption, ClaimFails, SpendFault
  <2>2. PICK s \in proc[p].todo :
          /\ \/ UNCHANGED <<sent, orphaned>>
             \/ mark_sent(s) /\ orphaned' = orphaned \cup {s}
          /\ IF s.kind = "channel"
             THEN AbortTick(p)
             ELSE /\ Become(p, [proc[p] EXCEPT !.todo = @ \ {s}, !.completed = FALSE])
                  /\ UNCHANGED progress
    BY <1>17 DEF ClaimFails
  <2>3. s \in Slot
    BY <2>2 DEF Task
  <2>4. [proc[p] EXCEPT !.todo = @ \ {s}, !.completed = FALSE] \in Task
    BY DEF Task
  <2>5. /\ proc' \in [Replica -> Task]
        /\ progress' \in [Replica -> {"stopped", "starting", "failed", "succeeded"}]
    BY <2>2, <2>4, AbortTickType, BecomeType
  <2> QED
    BY <1>17, <2>1, <2>2, <2>3, <2>5 DEF ClaimFails, mark_sent, clockVars
<1>18. ASSUME NEW p \in Replica, Crash(p) PROVE TypeOK'
  <2>1. Idle("down") \in Task
    BY IdleInTask DEF Pc
  <2>2. faults' \in 0 .. MaxFaults
    BY <1>18, SchedulerAssumption DEF SchedulerAssumption, Crash, Become, SpendFault
  <2> QED
    BY <1>18, <2>1, <2>2 DEF Crash, Become, TaskOK, storeVars, clockVars
<1>19. ASSUME OfficerCommand PROVE TypeOK'
  <2>1. ASSUME NEW row \in Row, create(row) PROVE StoreTypeOK'
    BY <2>1, StoreAssumption DEF StoreAssumption, create, NotifId
  <2>2. ASSUME NEW i \in NotifId, NEW row \in Row, update(i, row) PROVE StoreTypeOK'
    BY <2>2 DEF update
  <2>3. ASSUME NEW i \in NotifId, delete(i) PROVE StoreTypeOK'
    BY <2>3 DEF delete
  <2> QED
    BY <1>19, <2>1, <2>2, <2>3 DEF OfficerCommand, clockVars, historyVars
<1>20. CASE AdvanceClock
  BY <1>20, StoreAssumption
  DEF StoreAssumption, AdvanceClock, Date, Time, storeVars, historyVars
<1>21. CASE UNCHANGED vars
  BY <1>21 DEF vars, storeVars, clockVars, historyVars
<1> QED
  BY <1>1, <1>2, <1>3, <1>4, <1>5, <1>6, <1>7, <1>8, <1>9, <1>10, <1>11, <1>12, <1>13,
     <1>14, <1>15, <1>16, <1>17, <1>18, <1>19, <1>20, <1>21 DEF Next, Step, Fault

--------------------------------------------------------------------------------
(* The inductive invariant.  A step either leaves every claim as it is,    *)
(* makes one, ends one, or edits the notification table.                   *)

\* q's send is where it was.
SameHold(q) ==
    /\ Holding(q)' = Holding(q)
    /\ Holding(q) => /\ proc'[q].slot = proc[q].slot
                     /\ proc'[q].reached = proc[q].reached
                     /\ proc'[q].pc = "fetching" => proc[q].pc = "fetching"
    /\ ~Holding(q) => ~proc'[q].reached

Quiet ==
    /\ \A q \in Replica : SameHold(q)
    /\ UNCHANGED <<storeVars, historyVars>>

\* p claims s, and either starts to deliver it or gives it up on the spot.
Claims(p, s) ==
    /\ ~Holding(p)
    /\ Claimable(s)
    /\ sent' = sent \cup {s}
    /\ \A q \in Replica \ {p} : proc'[q] = proc[q]
    /\ ~proc'[p].reached
    /\ \/ Holding(p)' /\ proc'[p].slot = s
       \/ ~Holding(p)' /\ Accounted(s)'
    /\ UNCHANGED <<notifications, next_id, posts, lost>>
    /\ refused \subseteq refused'
    /\ orphaned \subseteq orphaned'

\* p's delivery of s is over: the claim stays and is accounted for, or it is
\* given back, and then a post whose reply is lost is counted as lost.
Ends(p, s) ==
    /\ Holding(p)
    /\ proc[p].slot = s
    /\ ~Holding(p)'
    /\ ~proc'[p].reached
    /\ \A q \in Replica \ {p} : proc'[q] = proc[q]
    /\ UNCHANGED <<notifications, next_id, posts>>
    /\ refused \subseteq refused'
    /\ orphaned \subseteq orphaned'
    /\ \/ sent' = sent /\ lost' = lost /\ Accounted(s)'
       \/ /\ sent' = sent \ {s}
          /\ lost' = IF proc[p].reached THEN [lost EXCEPT ![s] = @ + 1] ELSE lost

\* Every step is of one of these kinds.
StepKind ==
    \/ Quiet
    \/ \E p \in Replica, s \in Slot : Claims(p, s) \/ Ends(p, s)
    \/ \E p \in Replica : Reach(p)
    \/ OfficerCommand

LEMMA InitIInv == Init => IInv
<1> SUFFICES ASSUME Init PROVE IInv
  OBVIOUS
<1>1. TypeOK
  BY InitTypeOK
<1>2. \A p \in Replica : ~Holding(p) /\ ~proc[p].reached
  BY DEF Init, Idle, Holding
<1>3. \A s \in Slot : posts[s] = 0 /\ lost[s] = 0
  BY DEF Init
<1>4. sent = {} /\ \A i \in NotifId : ~Exists(i)
  BY DEF Init, StoreInit, Exists
<1> QED
  BY <1>1, <1>2, <1>3, <1>4
  DEF IInv, TaskOK, IdsBelowNext, SentRowsHaveParents, HeldIsUsed, OneHolder,
      PostsBounded, HeldPosts, NoSilentDrop

LEMMA QuietStep ==
    ASSUME IInv, TypeOK', Quiet PROVE IInv'
<1> USE DEF IInv, Quiet, SameHold, storeVars, historyVars
<1>1. \A s : Used(s)' = Used(s)
  BY DEF Used, Gone, Exists
<1>2. TaskOK'
  BY DEF TaskOK, Holding
<1>3. IdsBelowNext' /\ SentRowsHaveParents'
  BY DEF IdsBelowNext, SentRowsHaveParents, Exists
<1>4. HeldIsUsed' /\ OneHolder'
  BY <1>1 DEF HeldIsUsed, OneHolder
<1>5. PostsBounded' /\ HeldPosts'
  BY <1>1 DEF PostsBounded, HeldPosts
<1>6. NoSilentDrop'
  BY DEF NoSilentDrop, Accounted, Holds
<1> QED
  BY <1>2, <1>3, <1>4, <1>5, <1>6

LEMMA ClaimStep ==
    ASSUME IInv, TypeOK', NEW p \in Replica, NEW s \in Slot, Claims(p, s)
    PROVE  IInv'
<1> USE DEF IInv, Claims
<1>1. ~Used(s)
  BY DEF Used, Gone, Claimable
<1>2. \A x : Used(x)' <=> Used(x) \/ x = s
  BY DEF Used, Gone, Exists
<1>3. \A q \in Replica \ {p} : Holding(q)' = Holding(q) /\ proc'[q] = proc[q]
  BY DEF Holding
<1>4. TaskOK'
  BY <1>3 DEF TaskOK, Holding
<1>5. IdsBelowNext' /\ SentRowsHaveParents'
  BY DEF IdsBelowNext, SentRowsHaveParents, Exists, Claimable
<1>6. HeldIsUsed'
  BY <1>2, <1>3 DEF HeldIsUsed
<1>7. \A q \in Replica \ {p} : Holding(q) => proc[q].slot # s
  BY <1>1 DEF HeldIsUsed
<1>8. OneHolder'
  BY <1>3, <1>7 DEF OneHolder
<1>9. PostsBounded'
  BY <1>2 DEF PostsBounded
<1>10. posts[s] <= lost[s]
  BY <1>1 DEF PostsBounded
<1>11. HeldPosts'
  BY <1>3, <1>10 DEF HeldPosts
<1>12. NoSilentDrop'
  <2> SUFFICES ASSUME NEW x \in sent'
               PROVE  Accounted(x)' \/ \E q \in Replica : Holds(q, x)'
    BY DEF NoSilentDrop
  <2>1. CASE x = s
    BY <2>1 DEF Holds
  <2>2. CASE x # s
    BY <2>2, <1>3 DEF NoSilentDrop, Accounted, Holds
  <2> QED
    BY <2>1, <2>2
<1> QED
  BY <1>4, <1>5, <1>6, <1>8, <1>9, <1>11, <1>12

LEMMA EndStep ==
    ASSUME IInv, TypeOK', NEW p \in Replica, NEW s \in Slot, Ends(p, s)
    PROVE  IInv'
<1> USE DEF IInv, Ends
<1>1. Used(s)
  BY DEF HeldIsUsed
<1>2. \A x : x # s => Used(x)' = Used(x)
  BY DEF Used, Gone, Exists
<1>3. \A q \in Replica \ {p} : Holding(q)' = Holding(q) /\ proc'[q] = proc[q]
  BY DEF Holding
<1>4. \A q \in Replica \ {p} : Holding(q) => proc[q].slot # s
  BY DEF OneHolder
<1>5. TaskOK'
  BY <1>3 DEF TaskOK, Holding
<1>6. IdsBelowNext' /\ SentRowsHaveParents'
  BY DEF IdsBelowNext, SentRowsHaveParents, Exists
<1>7. HeldIsUsed'
  BY <1>2, <1>3, <1>4 DEF HeldIsUsed
<1>8. OneHolder'
  BY <1>3 DEF OneHolder
<1>9. \A x \in Slot : x # s => lost'[x] = lost[x]
  BY DEF TypeOK
<1>10. PostsBounded'
  <2> SUFFICES ASSUME NEW x \in Slot
               PROVE  posts'[x] <= lost'[x] \/ (Used(x)' /\ posts'[x] <= lost'[x] + 1)
    BY DEF PostsBounded
  <2>1. CASE x # s
    BY <2>1, <1>2, <1>9 DEF PostsBounded
  <2>2. CASE x = s /\ sent' = sent /\ lost' = lost
    BY <2>2, <1>1 DEF PostsBounded, Used, Gone, Exists
  <2>3. CASE x = s /\ lost' = IF proc[p].reached
                             THEN [lost EXCEPT ![s] = @ + 1] ELSE lost
    <3>1. CASE proc[p].reached
      <4>1. lost'[x] = lost[x] + 1
        BY <2>3, <3>1, <1>1 DEF TypeOK
      <4>2. posts'[x] <= lost[x] + 1
        BY <2>3, <1>1 DEF PostsBounded, TypeOK
      <4> QED
        BY <4>1, <4>2
    <3>2. CASE ~proc[p].reached
      BY <2>3, <3>2 DEF HeldPosts
    <3> QED
      BY <3>1, <3>2
  <2> QED
    BY <2>1, <2>2, <2>3
<1>11. HeldPosts'
  BY <1>3, <1>4, <1>9, <1>5 DEF HeldPosts, TaskOK
<1>12. NoSilentDrop'
  <2> SUFFICES ASSUME NEW x \in sent'
               PROVE  Accounted(x)' \/ \E q \in Replica : Holds(q, x)'
    BY DEF NoSilentDrop
  <2>1. CASE x = s
    BY <2>1
  <2>2. CASE x # s
    <3>1. x \in sent
      OBVIOUS
    <3>2. CASE Accounted(x)
      BY <3>2 DEF Accounted
    <3>3. CASE \E q \in Replica : Holds(q, x)
      BY <3>3, <2>2, <1>3 DEF Holds
    <3> QED
      BY <3>1, <3>2, <3>3 DEF NoSilentDrop
  <2> QED
    BY <2>1, <2>2
<1> QED
  BY <1>5, <1>6, <1>7, <1>8, <1>10, <1>11, <1>12

\* An officer deletes a notification: its claims go with it, and whoever holds
\* one of them goes on holding a slot that is gone.
LEMMA DeleteStep ==
    ASSUME IInv, TypeOK', NEW i \in NotifId, delete(i), UNCHANGED <<proc, historyVars>>
    PROVE  IInv'
<1> USE DEF IInv, historyVars
<1>1. Exists(i) /\ i < next_id /\ ~Exists(i)'
  BY DEF delete, IdsBelowNext, Exists, TypeOK, StoreTypeOK
<1>2. \A j \in NotifId \ {i} : Exists(j)' = Exists(j)
  BY DEF delete, Exists, TypeOK, StoreTypeOK
<1>3. \A s \in Slot : s.kind = "dm" => s.id \in NotifId
  BY DEF Slot, ReminderSlot, MemberSlot
<1>4. \A s \in Slot : Used(s) => Used(s)'
  BY <1>1, <1>2, <1>3 DEF Used, Gone, delete
<1>5. TaskOK'
  BY DEF TaskOK, Holding
<1>6. IdsBelowNext'
  BY <1>1, <1>2 DEF IdsBelowNext, delete
<1>7. SentRowsHaveParents'
  BY <1>2, <1>3 DEF SentRowsHaveParents, delete, TypeOK, StoreTypeOK
<1>8. HeldIsUsed' /\ OneHolder' /\ HeldPosts'
  BY <1>4 DEF HeldIsUsed, OneHolder, HeldPosts, Holding, TaskOK
<1>9. PostsBounded'
  BY <1>4 DEF PostsBounded
<1>10. NoSilentDrop'
  BY DEF NoSilentDrop, Accounted, Holds, Holding, delete
<1> QED
  BY <1>5, <1>6, <1>7, <1>8, <1>9, <1>10

\* An officer creates or edits a notification: no claim and no id is touched
\* that was in use.
LEMMA EditStep ==
    ASSUME IInv, TypeOK', NEW row \in Row, UNCHANGED <<proc, historyVars>>,
           create(row) \/ \E i \in NotifId : update(i, row)
    PROVE  IInv'
<1> USE DEF IInv, historyVars
<1>1. row # NoRow
  BY StoreAssumption DEF StoreAssumption
<1>2. sent' = sent
  BY DEF create, update
<1>3. \A j \in NotifId : Exists(j) => Exists(j)'
  BY <1>1 DEF create, update, Exists, TypeOK, StoreTypeOK
<1>4. next_id \in Nat /\ next_id' \in Nat /\ next_id <= next_id'
  BY DEF create, update, TypeOK, StoreTypeOK
<1>5. \A j \in NotifId : Exists(j)' => Exists(j) \/ (j = next_id /\ next_id' = next_id + 1)
  BY DEF create, update, Exists, TypeOK, StoreTypeOK
<1>6. \A s \in Slot : s.kind = "dm" => s.id \in NotifId
  BY DEF Slot, ReminderSlot, MemberSlot
<1>7. \A s \in Slot : Used(s) => Used(s)'
  BY <1>2, <1>4, <1>5, <1>6 DEF Used, Gone, NotifId
<1>8. TaskOK'
  BY DEF TaskOK, Holding
<1>9. IdsBelowNext'
  BY <1>4, <1>5 DEF IdsBelowNext, NotifId
<1>10. SentRowsHaveParents'
  BY <1>2, <1>3, <1>6 DEF SentRowsHaveParents, TypeOK, StoreTypeOK
<1>11. HeldIsUsed' /\ OneHolder' /\ HeldPosts'
  BY <1>7 DEF HeldIsUsed, OneHolder, HeldPosts, Holding, TaskOK
<1>12. PostsBounded'
  BY <1>7 DEF PostsBounded
<1>13. NoSilentDrop'
  BY <1>2 DEF NoSilentDrop, Accounted, Holds, Holding
<1> QED
  BY <1>8, <1>9, <1>10, <1>11, <1>12, <1>13

\* What Become does to the task of p and leaves of the others.
LEMMA BecomeEffect ==
    ASSUME TypeOK, NEW p \in Replica, NEW task, Become(p, task)
    PROVE  proc'[p] = task /\ \A q \in Replica \ {p} : proc'[q] = proc[q]
  BY DEF Become, TypeOK

\* Discord shows the message of a slot p holds.
LEMMA ReachStep ==
    ASSUME IInv, TypeOK', NEW p \in Replica, Reach(p) PROVE IInv'
<1>0. TypeOK /\ TaskOK
  BY DEF IInv
<1> DEFINE s == proc[p].slot
<1>1. Holding(p) /\ s \in Slot /\ Used(s) /\ ~proc[p].reached
  BY <1>0 DEF Reach, Holding, TaskOK, IInv, HeldIsUsed
<1>2. /\ proc'[p].pc = "sending" /\ proc'[p].slot = s /\ proc'[p].reached
      /\ \A q \in Replica \ {p} : proc'[q] = proc[q]
  BY <1>0, BecomeEffect DEF Reach, TypeOK, Task
<1>3. \A q \in Replica : Holding(q)' = Holding(q) /\ proc'[q].slot = proc[q].slot
  BY <1>1, <1>2 DEF Holding
<1>4. /\ posts'[s] = posts[s] + 1
      /\ \A x \in Slot : x # s => posts'[x] = posts[x]
      /\ \A x \in Slot : posts[x] \in Nat /\ lost[x] \in Nat /\ lost'[x] = lost[x]
  BY <1>0, <1>1 DEF Reach, TypeOK
<1>5. \A x : Used(x)' = Used(x)
  BY DEF Reach, Used, Gone, Exists, storeVars
<1>6. TaskOK'
  BY <1>0, <1>2, <1>3 DEF TaskOK, Holding
<1>7. IdsBelowNext' /\ SentRowsHaveParents'
  BY DEF Reach, storeVars, IInv, IdsBelowNext, SentRowsHaveParents, Exists
<1>8. HeldIsUsed' /\ OneHolder'
  BY <1>3, <1>5 DEF IInv, HeldIsUsed, OneHolder
<1>9. PostsBounded'
  BY <1>1, <1>4, <1>5 DEF IInv, PostsBounded, HeldPosts
<1>10. HeldPosts'
  <2>1. posts'[s] > 0
    BY <1>1, <1>4
  <2>2. \A q \in Replica \ {p} : Holding(q) => proc[q].slot # s /\ proc[q].slot \in Slot
    BY <1>0, <1>1 DEF IInv, OneHolder, TaskOK
  <2> QED
    BY <1>2, <1>3, <1>4, <2>1, <2>2 DEF IInv, HeldPosts
<1>11. NoSilentDrop'
  <2>1. \A x \in Slot : Accounted(x) => Accounted(x)'
    BY <1>1, <1>4 DEF Reach, Accounted
  <2>2. \A x, q : q \in Replica /\ Holds(q, x) => Holds(q, x)'
    BY <1>3 DEF Holds
  <2>3. sent' = sent /\ sent \subseteq Slot
    BY <1>0 DEF Reach, storeVars, TypeOK, StoreTypeOK
  <2> QED
    BY <2>1, <2>2, <2>3 DEF IInv, NoSilentDrop
<1> QED
  BY <1>0, <1>6, <1>7, <1>8, <1>9, <1>10, <1>11 DEF IInv

LEMMA StepOfAKind == IInv /\ [Next]_vars => StepKind
<1> SUFFICES ASSUME IInv, [Next]_vars PROVE StepKind
  OBVIOUS
<1>a. TypeOK /\ TaskOK
  BY DEF IInv
<1>1. ASSUME NEW p \in Replica, Start(p) PROVE StepKind
  <2>1. \A q \in Replica : SameHold(q)
    BY <1>a, <1>1 DEF Start, SameHold, Holding, Become, TypeOK, Task, TaskOK, Goto
  <2> QED
    BY <1>a, <1>1, <2>1 DEF StepKind, Quiet, Start
<1>2. ASSUME NEW p \in Replica, SkipTick(p) PROVE StepKind
  <2>1. \A q \in Replica : SameHold(q)
    BY <1>a, <1>2 DEF SkipTick, SameHold, Holding, Become, TypeOK, Task, TaskOK
  <2> QED
    BY <1>a, <1>2, <2>1 DEF StepKind, Quiet, SkipTick
<1>3. ASSUME NEW p \in Replica, BeginTick(p) PROVE StepKind
  <2>0. /\ proc'[p].pc \notin {"fetching", "sending"} /\ ~proc'[p].reached
        /\ \A q \in Replica \ {p} : proc'[q] = proc[q]
    <3>1. /\ proc'[p] = [Idle("suppress") EXCEPT !.date = today, !.time = time,
                                                 !.todo = kept(today, time)]
          /\ \A q \in Replica \ {p} : proc'[q] = proc[q]
      BY <1>a, <1>3, BecomeEffect DEF BeginTick
    <3> QED
      BY <3>1 DEF Idle
  <2>1. \A q \in Replica : SameHold(q)
    BY <1>a, <1>3, <2>0 DEF BeginTick, SameHold, Holding, TaskOK
  <2> QED
    BY <1>a, <1>3, <2>1 DEF StepKind, Quiet, BeginTick
<1>4. ASSUME NEW p \in Replica, Suppress(p) PROVE StepKind
  <2>1. \A q \in Replica : SameHold(q)
    BY <1>a, <1>4 DEF Suppress, SameHold, Holding, Become, TypeOK, Task, TaskOK
  <2> QED
    BY <1>a, <1>4, <2>1 DEF StepKind, Quiet, Suppress
<1>5. ASSUME NEW p \in Replica, Collide(p) PROVE StepKind
  <2>1. \A q \in Replica : SameHold(q)
    BY <1>a, <1>5 DEF Collide, SameHold, Holding, Become, TypeOK, Task, TaskOK
  <2> QED
    BY <1>a, <1>5, <2>1 DEF StepKind, Quiet, Collide
<1>6. ASSUME NEW p \in Replica, ListDue(p) PROVE StepKind
  <2>1. \A q \in Replica : SameHold(q)
    BY <1>a, <1>6 DEF ListDue, SameHold, Holding, Become, TypeOK, Task, TaskOK
  <2> QED
    BY <1>a, <1>6, <2>1 DEF StepKind, Quiet, ListDue
<1>7. ASSUME NEW p \in Replica, EndTick(p) PROVE StepKind
  <2>0. /\ proc'[p].pc \notin {"fetching", "sending"} /\ ~proc'[p].reached
        /\ \A q \in Replica \ {p} : proc'[q] = proc[q]
    BY <1>a, <1>7, BecomeEffect DEF EndTick, Idle
  <2>1. \A q \in Replica : SameHold(q)
    BY <1>a, <1>7, <2>0 DEF EndTick, SameHold, Holding, TaskOK
  <2> QED
    BY <1>a, <1>7, <2>1 DEF StepKind, Quiet, EndTick
<1>8. ASSUME NEW p \in Replica, FetchFound(p) PROVE StepKind
  <2>1. \A q \in Replica : SameHold(q)
    BY <1>a, <1>8 DEF FetchFound, SameHold, Holding, Become, TypeOK, Task, TaskOK, Goto
  <2> QED
    BY <1>a, <1>8, <2>1 DEF StepKind, Quiet, FetchFound
<1>9. ASSUME NEW p \in Replica, QueryFails(p) PROVE StepKind
  <2>0. /\ proc'[p].pc \notin {"fetching", "sending"} /\ ~proc'[p].reached
        /\ \A q \in Replica \ {p} : proc'[q] = proc[q]
    BY <1>a, <1>9, BecomeEffect DEF QueryFails, Idle, AbortTick
  <2>1. \A q \in Replica : SameHold(q)
    BY <1>a, <1>9, <2>0 DEF QueryFails, SameHold, Holding, TaskOK
  <2> QED
    BY <1>a, <1>9, <2>1 DEF StepKind, Quiet, QueryFails
<1>10. ASSUME NEW p \in Replica, Claim(p) PROVE StepKind
  <2>1. PICK s \in proc[p].todo, pc \in {"fetching", "sending"} :
          /\ Claimable(s) /\ mark_sent(s)
          /\ Become(p, [proc[p] EXCEPT !.pc = pc, !.slot = s, !.todo = @ \ {s}])
    BY <1>10 DEF Claim
  <2>2. s \in Slot /\ ~Holding(p)
    BY <1>a, <1>10, <2>1 DEF Claim, TypeOK, Task, Holding
  <2>3. /\ proc'[p].pc = pc /\ proc'[p].slot = s /\ proc'[p].reached = proc[p].reached
        /\ \A q \in Replica \ {p} : proc'[q] = proc[q]
    <3>1. /\ proc'[p] = [proc[p] EXCEPT !.pc = pc, !.slot = s, !.todo = @ \ {s}]
          /\ \A q \in Replica \ {p} : proc'[q] = proc[q]
      BY <1>a, <2>1, BecomeEffect
    <3>2. proc[p] \in Task
      BY <1>a DEF TypeOK
    <3> QED
      BY <3>1, <3>2 DEF Task
  <2>4. Holding(p)' /\ ~proc'[p].reached
    BY <1>a, <2>2, <2>3 DEF Holding, TaskOK
  <2> QED
    BY <1>a, <1>10, <2>1, <2>2, <2>3, <2>4 DEF StepKind, Claims, Claim, mark_sent, historyVars
<1>11. ASSUME NEW p \in Replica, ClaimWithoutChannel(p) PROVE StepKind
  <2>1. PICK s \in proc[p].todo :
          /\ Claimable(s) /\ mark_sent(s)
          /\ Become(p, [proc[p] EXCEPT !.todo = @ \ {s}])
          /\ refused' = refused \cup {s}
    BY <1>11 DEF ClaimWithoutChannel
  <2>2. s \in Slot /\ ~Holding(p)
    BY <1>a, <1>11, <2>1 DEF ClaimWithoutChannel, TypeOK, Task, Holding
  <2>3. /\ proc'[p].pc = proc[p].pc /\ proc'[p].reached = proc[p].reached
        /\ \A q \in Replica \ {p} : proc'[q] = proc[q]
    BY <1>a, <2>1, BecomeEffect DEF TypeOK, Task
  <2>4. ~Holding(p)' /\ ~proc'[p].reached /\ Accounted(s)'
    BY <1>a, <2>1, <2>2, <2>3 DEF Holding, TaskOK, Accounted
  <2> QED
    BY <1>a, <1>11, <2>1, <2>2, <2>3, <2>4 DEF StepKind, Claims, ClaimWithoutChannel, mark_sent
<1>12. ASSUME NEW p \in Replica, Reach(p) PROVE StepKind
  BY <1>12 DEF StepKind
<1>13. ASSUME NEW p \in Replica, Holding(p) PROVE proc[p].slot \in Slot
  BY <1>a, <1>13 DEF TaskOK
<1>14. ASSUME NEW p \in Replica, NEW ok \in BOOLEAN, NextItem(p, ok)
       PROVE  /\ ~Holding(p)' /\ ~proc'[p].reached
              /\ \A q \in Replica \ {p} : proc'[q] = proc[q]
  <2>1. /\ proc'[p] = [proc[p] EXCEPT !.pc = Loop(proc[p].slot), !.slot = NoSlot,
                                      !.reached = FALSE, !.completed = @ /\ ok]
        /\ \A q \in Replica \ {p} : proc'[q] = proc[q]
    BY <1>a, <1>14, BecomeEffect DEF NextItem
  <2>2. proc[p] \in Task /\ Loop(proc[p].slot) \in {"channels", "members"}
    BY <1>a DEF TypeOK, Loop
  <2> QED
    BY <2>1, <2>2 DEF Holding, Task
<1>15. ASSUME NEW p \in Replica, NEW pc \in {"asleep", "down"}, Become(p, Idle(pc))
       PROVE  /\ ~Holding(p)' /\ ~proc'[p].reached
              /\ \A q \in Replica \ {p} : proc'[q] = proc[q]
  BY <1>a, <1>15, BecomeEffect DEF Idle, Holding
<1>16. ASSUME NEW p \in Replica, FailItem(p)
       PROVE  /\ ~Holding(p)' /\ ~proc'[p].reached
              /\ \A q \in Replica \ {p} : proc'[q] = proc[q]
  BY <1>14, <1>15, <1>16 DEF FailItem, AbortTick
<1>17. ASSUME NEW p \in Replica, SendOk(p) PROVE StepKind
  <2>1. PICK s \in Slot : s = proc[p].slot
    BY <1>13, <1>17 DEF SendOk, Holding
  <2>2. Accounted(s)' /\ Holding(p)
    BY <1>17, <2>1 DEF SendOk, Holding, historyVars, IInv, HeldPosts, Accounted
  <2> QED
    BY <1>a, <1>14, <1>17, <2>1, <2>2 DEF StepKind, Ends, SendOk, storeVars, historyVars
<1>18. ASSUME NEW p \in Replica, Refuse(p) PROVE StepKind
  <2>1. PICK s \in Slot : s = proc[p].slot
    BY <1>13, <1>18 DEF Refuse
  <2>2. Accounted(s)'
    BY <1>18, <2>1 DEF Refuse, Accounted
  <2> QED
    BY <1>a, <1>14, <1>18, <2>1, <2>2 DEF StepKind, Ends, Refuse, storeVars
<1>19. ASSUME NEW p \in Replica, Transient(p) PROVE StepKind
  <2>1. PICK s \in Slot : s = proc[p].slot
    BY <1>13, <1>19 DEF Transient
  <2> QED
    BY <1>a, <1>16, <1>19, <2>1 DEF StepKind, Ends, Transient, unmark
<1>20. ASSUME NEW p \in Replica, UnmarkFails(p) PROVE StepKind
  <2>1. PICK s \in Slot : s = proc[p].slot
    BY <1>13, <1>20 DEF UnmarkFails
  <2>2. Accounted(s)'
    BY <1>20, <2>1 DEF UnmarkFails, Accounted
  <2> QED
    BY <1>a, <1>16, <1>20, <2>1, <2>2 DEF StepKind, Ends, UnmarkFails, storeVars
<1>21. ASSUME NEW p \in Replica, ClaimFails(p) PROVE StepKind
  <2>1. PICK s \in proc[p].todo :
          /\ \/ UNCHANGED <<sent, orphaned>>
             \/ Claimable(s) /\ mark_sent(s) /\ orphaned' = orphaned \cup {s}
          /\ IF s.kind = "channel"
             THEN AbortTick(p)
             ELSE /\ Become(p, [proc[p] EXCEPT !.todo = @ \ {s}, !.completed = FALSE])
                  /\ UNCHANGED progress
    BY <1>21 DEF ClaimFails
  <2>2. s \in Slot /\ ~Holding(p)
    BY <1>a, <1>21, <2>1 DEF ClaimFails, TypeOK, Task, Holding
  <2>3. /\ ~Holding(p)' /\ ~proc'[p].reached
        /\ \A q \in Replica \ {p} : proc'[q] = proc[q]
    <3>1. CASE AbortTick(p)
      BY <3>1, <1>15 DEF AbortTick
    <3>2. CASE Become(p, [proc[p] EXCEPT !.todo = @ \ {s}, !.completed = FALSE])
      <4>1. /\ proc'[p] = [proc[p] EXCEPT !.todo = @ \ {s}, !.completed = FALSE]
            /\ \A q \in Replica \ {p} : proc'[q] = proc[q]
        BY <1>a, <3>2, BecomeEffect
      <4>2. proc[p] \in Task /\ ~proc[p].reached
        BY <1>a, <2>2 DEF TypeOK, TaskOK
      <4> QED
        BY <2>2, <4>1, <4>2 DEF Holding, Task
    <3> QED
      BY <2>1, <3>1, <3>2
  <2>4. CASE UNCHANGED <<sent, orphaned>>
    <3>1. \A q \in Replica : SameHold(q)
      BY <1>a, <2>2, <2>3 DEF SameHold, Holding, TaskOK
    <3> QED
      BY <1>a, <1>21, <2>4, <3>1 DEF StepKind, Quiet, ClaimFails, storeVars, historyVars
  <2>5. CASE Claimable(s) /\ mark_sent(s) /\ orphaned' = orphaned \cup {s}
    <3>1. Accounted(s)'
      BY <2>5 DEF Accounted
    <3> QED
      BY <1>a, <1>21, <2>2, <2>3, <2>5, <3>1 DEF StepKind, Claims, ClaimFails, mark_sent
  <2> QED
    BY <2>1, <2>4, <2>5
<1>22. ASSUME NEW p \in Replica, Crash(p) PROVE StepKind
  <2>1. /\ ~Holding(p)' /\ ~proc'[p].reached
        /\ \A q \in Replica \ {p} : proc'[q] = proc[q]
    BY <1>15, <1>22 DEF Crash
  <2>2. CASE Holding(p)
    <3>1. PICK s \in Slot : s = proc[p].slot
      BY <1>13, <2>2
    <3>2. Accounted(s)'
      BY <1>22, <2>2, <3>1 DEF Crash, Accounted
    <3> QED
      BY <1>a, <1>22, <2>1, <2>2, <3>1, <3>2 DEF StepKind, Ends, Crash, storeVars
  <2>3. CASE ~Holding(p)
    <3>1. \A q \in Replica : SameHold(q)
      BY <1>a, <2>1, <2>3 DEF SameHold, Holding, TaskOK
    <3> QED
      BY <1>a, <1>22, <2>3, <3>1 DEF StepKind, Quiet, Crash, historyVars
  <2> QED
    BY <2>2, <2>3
<1>23. CASE OfficerCommand
  BY <1>23 DEF StepKind
<1>24. CASE AdvanceClock
  <2>1. \A q \in Replica : SameHold(q)
    BY <1>a, <1>24 DEF AdvanceClock, SameHold, Holding, TaskOK
  <2> QED
    BY <1>a, <1>24, <2>1 DEF StepKind, Quiet, AdvanceClock
<1>25. CASE UNCHANGED vars
  <2>1. \A q \in Replica : SameHold(q)
    BY <1>a, <1>25 DEF vars, SameHold, Holding, TaskOK
  <2> QED
    BY <1>a, <1>25, <2>1 DEF StepKind, Quiet, vars
<1> QED
  BY <1>1, <1>2, <1>3, <1>4, <1>5, <1>6, <1>7, <1>8, <1>9, <1>10, <1>11, <1>12, <1>17,
     <1>18, <1>19, <1>20, <1>21, <1>22, <1>23, <1>24, <1>25 DEF Next, Step, Fault

LEMMA StepIInv == IInv /\ [Next]_vars => IInv'
<1> SUFFICES ASSUME IInv, [Next]_vars PROVE IInv'
  OBVIOUS
<1>1. TypeOK'
  BY StepTypeOK DEF IInv
<1>2. StepKind
  BY StepOfAKind
<1>3. CASE OfficerCommand
  BY <1>1, <1>3, EditStep, DeleteStep DEF OfficerCommand
<1> QED
  BY <1>1, <1>2, <1>3, QuietStep, ClaimStep, EndStep, ReachStep DEF StepKind

--------------------------------------------------------------------------------
(* The theorems.                                                           *)

\* The inductive invariant holds in every reachable state.
THEOREM Invariant == Spec => []IInv
<1>1. Init => IInv
  BY InitIInv
<1>2. IInv /\ [Next]_vars => IInv'
  BY StepIInv
<1> QED
  BY <1>1, <1>2, PTL DEF Spec

\* Every variable keeps its type.
THEOREM TypeCorrect == Spec => []TypeOK
<1>1. IInv => TypeOK
  BY DEF IInv
<1> QED
  BY <1>1, Invariant, PTL

\* However many replicas overlap and crash, no two deliver one slot at a time.
THEOREM MutualExclusion == Spec => []OneHolder
<1>1. IInv => OneHolder
  BY DEF IInv
<1> QED
  BY <1>1, Invariant, PTL

\* A message is doubled only when Discord's reply to it was lost.
THEOREM NoDuplicateWithoutLostReply == Spec => []DuplicateNeedsLostReply
<1>1. IInv => DuplicateNeedsLostReply
  BY DEF IInv, TypeOK, PostsBounded, DuplicateNeedsLostReply
<1> QED
  BY <1>1, Invariant, PTL

\* A claim is never left behind without a message by a failure the code handles.
THEOREM ClaimsAreAccountedFor == Spec => []NoSilentDrop
<1>1. IInv => NoSilentDrop
  BY DEF IInv
<1> QED
  BY <1>1, Invariant, PTL

--------------------------------------------------------------------------------
(* The scheduler implements DeliverySlots: a claim acquires a slot, the    *)
(* end of a delivery finishes or releases it, and the rest is stuttering.  *)

\* slotState changes at one slot only.
LEMMA OneSlotChanges ==
    ASSUME NEW s \in Slot, NEW v, slotState'[s] = v,
           \A x \in Slot : x # s => slotState'[x] = slotState[x]
    PROVE  slotState' = [slotState EXCEPT ![s] = v]
<1>1. /\ slotState = [x \in Slot |-> slotState[x]]
      /\ slotState' = [x \in Slot |-> slotState'[x]]
  BY Zenon DEF slotState
<1> HIDE DEF slotState
<1> QED
  BY <1>1

LEMMA SlotStateOf ==
    ASSUME OneHolder, NEW s \in Slot
    PROVE  /\ \A p \in Replica : Holds(p, s) => slotState[s] = p
           /\ (\A p \in Replica : ~Holds(p, s)) =>
                slotState[s] = IF Used(s) THEN "closed" ELSE "open"
  BY DEF slotState, OneHolder, Holds, Used

LEMMA SlotStateOfNext ==
    ASSUME OneHolder', NEW s \in Slot
    PROVE  /\ \A p \in Replica : Holds(p, s)' => slotState'[s] = p
           /\ (\A p \in Replica : ~Holds(p, s)') =>
                slotState'[s] = IF Used(s)' THEN "closed" ELSE "open"
  BY DEF slotState, OneHolder, Holds, Used

\* Nothing changes for a slot whose holder and claim stay.
LEMMA SameSlotState ==
    ASSUME OneHolder, OneHolder', NEW s \in Slot,
           \A p \in Replica : Holds(p, s)' = Holds(p, s), Used(s)' = Used(s)
    PROVE  slotState'[s] = slotState[s]
  BY SlotStateOf, SlotStateOfNext

LEMMA QuietSlots ==
    ASSUME OneHolder, OneHolder', Quiet PROVE UNCHANGED slotState
<1>1. \A s \in Slot, q \in Replica : Holds(q, s)' = Holds(q, s)
  BY DEF Quiet, SameHold, Holds
<1>2. \A s \in Slot : Used(s)' = Used(s)
  BY DEF Quiet, Used, Gone, Exists, storeVars
<1>3. \A s \in Slot : slotState'[s] = slotState[s]
  BY <1>1, <1>2, SameSlotState
<1> QED
  BY <1>3 DEF slotState

\* p takes s, or closes it on the spot.
LEMMA ClaimSlots ==
    ASSUME OneHolder, OneHolder', HeldIsUsed,
           NEW p \in Replica, NEW s \in Slot, Claims(p, s)
    PROVE  Slots!Next
<1> USE DEF Claims
<1>1. \A x \in Slot, q \in Replica \ {p} : Holds(q, x)' = Holds(q, x)
  BY DEF Holds, Holding
<1>2. ~Used(s) /\ Used(s)' /\ \A x \in Slot : x # s => Used(x)' = Used(x)
  BY DEF Used, Gone, Exists, Claimable
<1>3. \A x \in Slot : x # s => slotState'[x] = slotState[x]
  <2> SUFFICES ASSUME NEW x \in Slot, x # s PROVE slotState'[x] = slotState[x]
    OBVIOUS
  <2>1. Holds(p, x)' = Holds(p, x)
    BY DEF Holds
  <2> QED
    BY <1>1, <1>2, <2>1, SameSlotState
<1>4. \A q \in Replica : ~Holds(q, s)
  BY <1>2 DEF HeldIsUsed, Holds
<1>5. slotState[s] = "open"
  BY <1>2, <1>4, SlotStateOf
<1>6. CASE Holding(p)' /\ proc'[p].slot = s
  <2>1. slotState'[s] = p
    BY <1>6, SlotStateOfNext DEF Holds
  <2>2. Slots!Acquire(p, s)
    BY <1>3, <1>5, <2>1, OneSlotChanges DEF Slots!Acquire
  <2> QED
    BY <2>2 DEF Slots!Next
<1>7. CASE ~Holding(p)'
  <2>1. \A q \in Replica : ~Holds(q, s)'
    BY <1>1, <1>4, <1>7 DEF Holds
  <2>2. slotState'[s] = "closed"
    BY <1>2, <2>1, SlotStateOfNext
  <2>3. slotState' \in [Slot -> {"open", "closed"} \cup Replica]
    BY DEF slotState, Holds
  <2>4. Slots!Withdraw
    BY <1>3, <1>5, <2>2, <2>3 DEF Slots!Withdraw
  <2> QED
    BY <2>4 DEF Slots!Next
<1> QED
  BY <1>6, <1>7

\* p lets go of s.
LEMMA EndSlots ==
    ASSUME OneHolder, OneHolder', NEW p \in Replica, NEW s \in Slot, Ends(p, s)
    PROVE  Slots!Next
<1> USE DEF Ends
<1>1. \A x \in Slot, q \in Replica \ {p} : Holds(q, x)' = Holds(q, x)
  BY DEF Holds, Holding
<1>2. \A x \in Slot : x # s => Used(x)' = Used(x)
  BY DEF Used, Gone, Exists
<1>3. \A x \in Slot : x # s => slotState'[x] = slotState[x]
  <2> SUFFICES ASSUME NEW x \in Slot, x # s PROVE slotState'[x] = slotState[x]
    OBVIOUS
  <2>1. Holds(p, x)' = Holds(p, x)
    BY DEF Holds
  <2> QED
    BY <1>1, <1>2, <2>1, SameSlotState
<1>4. slotState[s] = p
  BY SlotStateOf DEF Holds
<1>5. \A q \in Replica : ~Holds(q, s)'
  BY DEF OneHolder, Holds, Holding
<1>6. slotState'[s] \in {"open", "closed"}
  BY <1>5, SlotStateOfNext
<1>7. slotState' = [slotState EXCEPT ![s] = slotState'[s]]
  BY <1>3, OneSlotChanges
<1>8. Slots!Release(p, s) \/ Slots!Finish(p, s)
  BY <1>4, <1>6, <1>7 DEF Slots!Release, Slots!Finish
<1> QED
  BY <1>8 DEF Slots!Next

\* A message shown, or a notification created or edited, moves no slot.
LEMMA SteadySlots ==
    ASSUME IInv, OneHolder',
           \A q \in Replica : Holding(q)' = Holding(q) /\ proc'[q].slot = proc[q].slot,
           sent' = sent, \A s \in Slot : Gone(s)' = Gone(s)
    PROVE  UNCHANGED slotState
<1>1. \A s \in Slot, q \in Replica : Holds(q, s)' = Holds(q, s)
  BY DEF Holds
<1>2. \A s \in Slot : Used(s)' = Used(s)
  BY DEF Used
<1>3. \A s \in Slot : slotState'[s] = slotState[s]
  BY <1>1, <1>2, SameSlotState DEF IInv
<1> QED
  BY <1>3 DEF slotState

\* A deleted notification closes the slots nobody holds.
LEMMA DeleteSlots ==
    ASSUME IInv, OneHolder', NEW i \in NotifId, delete(i), UNCHANGED proc
    PROVE  Slots!Next
<1>1. Exists(i) /\ i < next_id /\ ~Exists(i)' /\ next_id' = next_id
  BY DEF delete, IdsBelowNext, Exists, IInv, TypeOK, StoreTypeOK
<1>2. \A j \in NotifId \ {i} : Exists(j)' = Exists(j)
  BY DEF delete, Exists, IInv, TypeOK, StoreTypeOK
<1>3. \A s \in Slot : s.kind = "dm" => s.id \in NotifId
  BY DEF Slot, ReminderSlot, MemberSlot
<1>4. \A s \in Slot, q \in Replica : Holds(q, s)' = Holds(q, s)
  BY DEF Holds, Holding
<1>5. \A s \in Slot : Used(s) => Used(s)'
  BY <1>1, <1>2, <1>3 DEF Used, Gone, delete
<1>6. \A s \in Slot : \/ slotState'[s] = slotState[s]
                      \/ slotState[s] = "open" /\ slotState'[s] = "closed"
  <2> SUFFICES ASSUME NEW s \in Slot
               PROVE  \/ slotState'[s] = slotState[s]
                      \/ slotState[s] = "open" /\ slotState'[s] = "closed"
    OBVIOUS
  <2>1. OneHolder
    BY DEF IInv
  <2>2. CASE \E q \in Replica : Holds(q, s)
    BY <1>4, <2>1, <2>2, SlotStateOf, SlotStateOfNext
  <2>3. CASE \A q \in Replica : ~Holds(q, s)
    <3>1. slotState[s] = IF Used(s) THEN "closed" ELSE "open"
      BY <2>1, <2>3, SlotStateOf
    <3>2. slotState'[s] = IF Used(s)' THEN "closed" ELSE "open"
      BY <1>4, <2>3, SlotStateOfNext
    <3> QED
      BY <1>5, <3>1, <3>2
  <2> QED
    BY <2>2, <2>3
<1>7. slotState' \in [Slot -> {"open", "closed"} \cup Replica]
  BY DEF slotState, Holds
<1> QED
  BY <1>6, <1>7 DEF Slots!Next, Slots!Withdraw

LEMMA StepSlots == IInv /\ IInv' /\ [Next]_vars => Slots!Next \/ UNCHANGED slotState
<1> SUFFICES ASSUME IInv, IInv', [Next]_vars
             PROVE  Slots!Next \/ UNCHANGED slotState
  OBVIOUS
<1>1. StepKind
  BY StepOfAKind
<1>2. OneHolder /\ OneHolder' /\ HeldIsUsed /\ TypeOK
  BY DEF IInv
<1>3. CASE Quiet
  BY <1>2, <1>3, QuietSlots
<1>4. CASE \E p \in Replica, s \in Slot : Claims(p, s) \/ Ends(p, s)
  BY <1>2, <1>4, ClaimSlots, EndSlots
<1>5. ASSUME NEW p \in Replica, Reach(p) PROVE UNCHANGED slotState
  <2>1. \A q \in Replica : Holding(q)' = Holding(q) /\ proc'[q].slot = proc[q].slot
    BY <1>2, <1>5 DEF Reach, Become, Holding, TypeOK, Task
  <2>2. sent' = sent /\ \A s \in Slot : Gone(s)' = Gone(s)
    BY <1>5 DEF Reach, storeVars, Gone, Exists
  <2> QED
    BY <1>2, <2>1, <2>2, SteadySlots
<1>6. CASE OfficerCommand
  <2>1. \A q \in Replica : Holding(q)' = Holding(q) /\ proc'[q].slot = proc[q].slot
    BY <1>6 DEF OfficerCommand, Holding
  <2>2. ASSUME NEW row \in Row, create(row) \/ \E i \in NotifId : update(i, row)
        PROVE  UNCHANGED slotState
    <3>1. row # NoRow
      BY StoreAssumption DEF StoreAssumption
    <3>2. \A s \in Slot : Gone(s)' = Gone(s)
      BY <2>2, <3>1, <1>2 DEF IInv, IdsBelowNext, Gone, Exists, create, update, TypeOK,
         StoreTypeOK, Slot, ReminderSlot, MemberSlot, NotifId
    <3> QED
      BY <1>2, <2>1, <2>2, <3>2, SteadySlots DEF create, update
  <2>3. ASSUME NEW i \in NotifId, delete(i) PROVE Slots!Next
    BY <1>2, <1>6, <2>3, DeleteSlots DEF OfficerCommand
  <2> QED
    BY <1>6, <2>2, <2>3 DEF OfficerCommand
<1> QED
  BY <1>1, <1>3, <1>4, <1>5, <1>6 DEF StepKind

LEMMA InitSlots == Init => Slots!Init
<1> SUFFICES ASSUME Init PROVE Slots!Init
  OBVIOUS
<1>1. \A s \in Slot, p \in Replica : ~Holds(p, s)
  BY DEF Init, Idle, Holding, Holds
<1>2. \A s \in Slot : ~(s \in sent \/ Gone(s))
  BY DEF Init, StoreInit, Gone, Slot, ReminderSlot, MemberSlot, NotifId
<1> QED
  BY <1>1, <1>2 DEF slotState, Slots!Init

\* The scheduler implements DeliverySlots: through overlaps, crashes, retries
\* and officers' commands a slot has one owner at a time and, once closed, is
\* never delivered again.
THEOREM Refinement == Spec => ImplementsSlots
<1>1. Init => Slots!Init
  BY InitSlots
<1>2. IInv /\ IInv' /\ [Next]_vars => [Slots!Next]_slotState
  BY StepSlots
<1> QED
  BY <1>1, <1>2, Invariant, PTL DEF Spec, ImplementsSlots, Slots!Spec
--------------------------------------------------------------------------------
(* What a tick works on.                                                   *)

\* A reminder's slot is of the tick's date, and due at the tick's time.
Fits(s, t) == s.kind = "channel" => s.date = t.date /\ DueAt(s.id, s.date, t.time)

FitTask(t) ==
    /\ t.date < today \/ (t.date = today /\ t.time <= time)
    /\ \A s \in t.todo : Fits(s, t)
    /\ t.pc \in {"fetching", "sending"} => Fits(t.slot, t)

WorkIsDue == \A p \in Replica : FitTask(proc[p])

\* The channel loop comes before the loop over the members.
OneKind(t) ==
    /\ t.pc \in {"suppress", "channels"} => \A s \in t.todo : s.kind = "channel"
    /\ t.pc = "members" => \A s \in t.todo : s.kind = "dm"
    /\ t.pc \in {"fetching", "sending"} => \A s \in t.todo : s.kind = t.slot.kind

\* What a tank-week-end reminder replaces has been taken out.
Unreplaced(t) ==
    t.pc # "suppress" => \A s \in t.todo : s.kind = "channel" => ~Replaced(s.id, s.date)

\* Every due reminder is claimed or still to do, once suppressed those that
\* are not replaced.
Tried(t, claimed) ==
    /\ t.pc = "suppress" => \A r \in Reminder :
           DueAt(r, t.date, t.time) => Chan(r, t.date) \in claimed \cup t.todo
    /\ t.pc \in {"channels", "members", "fetching", "sending"} => \A r \in Reminder :
           DueAt(r, t.date, t.time) /\ ~Replaced(r, t.date) =>
               Chan(r, t.date) \in claimed \cup t.todo

Thorough(t, claimed) == OneKind(t) /\ Unreplaced(t) /\ Tried(t, claimed)

OneTick == ReplacedNeverClaimed /\ \A p \in Replica : Thorough(proc[p], sent)

\* One process of the bot.
SingleReplica == \A p, q \in Replica : p = q

LEMMA TaskMoves ==
    ASSUME TypeOK, WorkIsDue, NEW p \in Replica, NEW t, Become(p, t), UNCHANGED clockVars,
           FitTask(t), OneTick => Thorough(t, sent') /\ ReplacedNeverClaimed'
    PROVE  WorkIsDue' /\ (SingleReplica /\ OneTick => OneTick')
<1>1. proc'[p] = t /\ \A q \in Replica \ {p} : proc'[q] = proc[q]
  BY BecomeEffect
<1>2. WorkIsDue'
  <2>1. ASSUME NEW q \in Replica PROVE FitTask(proc'[q])
    BY <1>1 DEF WorkIsDue
  <2> QED
    BY <2>1 DEF WorkIsDue, FitTask, clockVars
<1>3. ASSUME SingleReplica, OneTick PROVE OneTick'
  BY <1>1, <1>3 DEF OneTick, SingleReplica
<1> QED
  BY <1>2, <1>3

\* The claims of reminders that a step leaves alone.
LEMMA SameClaims ==
    ASSUME \A s \in ReminderSlot : s \in sent' <=> s \in sent
    PROVE  /\ ReplacedNeverClaimed => ReplacedNeverClaimed'
           /\ \A t : t.date \in Date /\ Tried(t, sent) => Tried(t, sent')
<1>1. \A r \in Reminder, d \in Date : Chan(r, d) \in ReminderSlot
  BY DEF Chan, ReminderSlot
<1> QED
  BY <1>1 DEF ReplacedNeverClaimed, Tried

LEMMA TaskStays ==
    ASSUME TypeOK, WorkIsDue, UNCHANGED <<proc, clockVars>>,
           \A s \in ReminderSlot : s \in sent' <=> s \in sent
    PROVE  WorkIsDue' /\ (OneTick => OneTick')
<1>1. WorkIsDue'
  BY DEF WorkIsDue, FitTask, clockVars
<1>2. \A p \in Replica : proc[p].date \in Date
  BY DEF TypeOK, Task
<1> QED
  BY <1>1, <1>2, SameClaims DEF OneTick, Thorough

\* A task at rest has no work.
LEMMA IdleFits ==
    ASSUME TypeOK, NEW pc \in {"asleep", "down"}
    PROVE  FitTask(Idle(pc)) /\ \A claimed : Thorough(Idle(pc), claimed)
<1>1. /\ Idle(pc).pc = pc /\ Idle(pc).date = 0 /\ Idle(pc).time = 0 /\ Idle(pc).todo = {}
  BY DEF Idle
<1>2. (0 < today \/ 0 = today) /\ 0 <= time
  BY StoreAssumption DEF TypeOK, Date, Time
<1> QED
  BY <1>1, <1>2 DEF FitTask, Thorough, OneKind, Unreplaced, Tried

\* The next item after the one held: the loop over the slots of its kind.
LEMMA NextItemFits ==
    ASSUME TypeOK, WorkIsDue, NEW p \in Replica, Holding(p), proc[p].slot \in Slot,
           NEW ok, NextItem(p, ok)
    PROVE  \E t : /\ Become(p, t) /\ FitTask(t) /\ t.date \in Date
                  /\ OneTick => Thorough(t, sent)
<1> DEFINE t == [proc[p] EXCEPT !.pc = Loop(proc[p].slot), !.slot = NoSlot,
                                !.reached = FALSE, !.completed = @ /\ ok]
<1>1. /\ t.pc = Loop(proc[p].slot) /\ t.date = proc[p].date /\ t.time = proc[p].time
      /\ t.todo = proc[p].todo /\ t.date \in Date
  BY DEF TypeOK, Task
<1>2. Become(p, t)
  BY DEF NextItem
<1>3. proc[p].pc \in {"fetching", "sending"} /\ proc[p].slot.kind \in {"channel", "dm"}
  BY DEF Holding, Slot, ReminderSlot, MemberSlot
<1>4. t.pc = IF proc[p].slot.kind = "channel" THEN "channels" ELSE "members"
  BY <1>1 DEF Loop
<1> HIDE DEF t
<1>5. FitTask(t)
  BY <1>1, <1>3, <1>4 DEF WorkIsDue, FitTask, Fits
<1>6. ASSUME OneTick PROVE Thorough(t, sent)
  <2>1. OneKind(proc[p]) /\ Unreplaced(proc[p]) /\ Tried(proc[p], sent)
    BY <1>6 DEF OneTick, Thorough
  <2>2. OneKind(t)
    BY <1>1, <1>3, <1>4, <2>1 DEF OneKind
  <2>3. Unreplaced(t)
    BY <1>1, <1>3, <2>1 DEF Unreplaced
  <2>4. Tried(t, sent)
    BY <1>1, <1>3, <1>4, <2>1 DEF Tried
  <2> QED
    BY <2>2, <2>3, <2>4 DEF Thorough
<1> QED
  BY <1>1, <1>2, <1>5, <1>6

\* A failure of the item held: the tick is over, or goes on with the members.
LEMMA FailItemFits ==
    ASSUME TypeOK, WorkIsDue, NEW p \in Replica, Holding(p), proc[p].slot \in Slot, FailItem(p)
    PROVE  \E t : /\ Become(p, t) /\ FitTask(t)
                  /\ \/ \A claimed : Thorough(t, claimed)
                     \/ proc[p].slot.kind = "dm" /\ t.date \in Date
                        /\ (OneTick => Thorough(t, sent))
<1>1. CASE proc[p].slot.kind = "channel"
  <2>1. Become(p, Idle("asleep"))
    BY <1>1 DEF FailItem, AbortTick
  <2> QED
    BY <2>1, IdleFits
<1>2. CASE proc[p].slot.kind # "channel"
  <2>1. NextItem(p, FALSE) /\ proc[p].slot.kind = "dm"
    BY <1>2 DEF FailItem, Slot, ReminderSlot, MemberSlot
  <2> QED
    BY <2>1, NextItemFits
<1> QED
  BY <1>1, <1>2

\* The second query leaves what the tank-week end does not replace, and only
\* that: a row that replaces another is due when the other one is.
LEMMA SuppressionFits ==
    ASSUME NEW t, FitTask(t), t.pc = "suppress", t.date \in Date, Thorough(t, sent)
    PROVE  /\ \A s \in survivors(t.todo, t.date) : s.kind = "channel" /\ ~Replaced(s.id, s.date)
           /\ \A r \in Reminder : DueAt(r, t.date, t.time) /\ ~Replaced(r, t.date) =>
                  Chan(r, t.date) \in sent \cup survivors(t.todo, t.date)
<1>1. \A s \in t.todo : s.kind = "channel" /\ s.date = t.date /\ DueAt(s.id, t.date, t.time)
  BY DEF FitTask, Fits, Thorough, OneKind
<1>2. \A r, e : SamePlace(r, e) /\ IsTankEnd(e) /\ t.date \in CondDates["tank_week_end"]
                /\ DueAt(r, t.date, t.time) => DueAt(e, t.date, t.time)
  BY DEF SamePlace, IsTankEnd, DueAt, CondHolds, Condition
<1>3. \A e \in Reminder : IsTankEnd(e) /\ DueAt(e, t.date, t.time) =>
          e \in tank_end(t.todo, t.date) /\ t.date \in CondDates["tank_week_end"]
  BY DEF IsTankEnd, DueAt, CondHolds, tank_end, Thorough, Tried
<1>4. ASSUME NEW s \in survivors(t.todo, t.date), Replaced(s.id, s.date) PROVE FALSE
  <2>1. s \in t.todo /\ s.date = t.date
    BY <1>1 DEF survivors
  <2>2. PICK e \in Reminder : IsTankEnd(e) /\ SamePlace(s.id, e)
    BY <1>4 DEF Replaced
  <2>3. e \in tank_end(t.todo, t.date)
    BY <1>1, <1>2, <1>3, <1>4, <2>1, <2>2 DEF Replaced
  <2> QED
    BY <1>4, <2>1, <2>2, <2>3 DEF survivors, Replaced
<1>5. ASSUME NEW r \in Reminder, DueAt(r, t.date, t.time), ~Replaced(r, t.date),
             Chan(r, t.date) \notin sent
      PROVE  Chan(r, t.date) \in survivors(t.todo, t.date)
  <2>1. Chan(r, t.date) \in t.todo /\ Chan(r, t.date).id = r
    BY <1>5 DEF Thorough, Tried, Chan
  <2>2. \A e \in tank_end(t.todo, t.date) : IsTankEnd(e) /\ e \in Reminder
                                           /\ t.date \in CondDates["tank_week_end"]
    <3>1. \A e : Chan(e, t.date) \in t.todo => DueAt(e, t.date, t.time)
      BY <1>1 DEF Chan
    <3> QED
      BY <1>3, <3>1 DEF tank_end
  <2> QED
    BY <1>5, <2>1, <2>2 DEF survivors, Replaced
<1> QED
  BY <1>1, <1>4, <1>5 DEF survivors

\* A step of p's tick that takes s from the list and claims it, or finds that
\* it cannot.
LEMMA ItemTaken ==
    ASSUME TypeOK, WorkIsDue, OneTick, NEW p \in Replica,
           proc[p].pc \in {"channels", "members"}, NEW s \in proc[p].todo,
           NEW t, t.date = proc[p].date, t.time = proc[p].time, t.todo = proc[p].todo \ {s},
           t.pc = proc[p].pc \/ (t.pc \in {"fetching", "sending"} /\ t.slot = s),
           \/ sent' = sent \cup {s}
           \/ sent' = sent /\ (s.kind = "channel" => s \in sent)
    PROVE  Thorough(t, sent') /\ ReplacedNeverClaimed'
<1>1. OneKind(proc[p]) /\ Unreplaced(proc[p]) /\ Tried(proc[p], sent)
  BY DEF OneTick, Thorough
<1>2. s \in Slot /\ s.kind \in {"channel", "dm"}
  BY DEF TypeOK, Task, Slot, ReminderSlot, MemberSlot
<1>3. OneKind(t)
  BY <1>1 DEF OneKind
<1>4. Unreplaced(t)
  BY <1>1 DEF Unreplaced
<1>5. Tried(t, sent')
  <2>1. \A r, d : Chan(r, d).kind = "channel"
    BY DEF Chan
  <2> QED
    BY <1>1, <2>1 DEF Tried
<1>6. ReplacedNeverClaimed'
  <2>1. ASSUME NEW r \in Reminder, NEW d \in Date, Chan(r, d) = s PROVE ~Replaced(r, d)
    BY <1>1, <2>1 DEF Unreplaced, Chan
  <2> QED
    BY <2>1 DEF OneTick, ReplacedNeverClaimed
<1> QED
  BY <1>3, <1>4, <1>5, <1>6 DEF Thorough

LEMMA StepTick ==
    ASSUME TypeOK, TaskOK, WorkIsDue, [Next]_vars
    PROVE  WorkIsDue' /\ (SingleReplica /\ OneTick => OneTick')
<1> DEFINE Goal == WorkIsDue' /\ (SingleReplica /\ OneTick => OneTick')
<1>t. \A p \in Replica : proc[p] \in Task /\ proc[p].date \in Date /\ FitTask(proc[p])
  BY DEF TypeOK, Task, WorkIsDue
<1>s. \A p \in Replica : Holding(p) => proc[p].slot \in Slot
  BY DEF TaskOK
<1>i. ASSUME NEW p \in Replica, NEW pc \in {"asleep", "down"}, Become(p, Idle(pc)),
             UNCHANGED clockVars, OneTick => ReplacedNeverClaimed'
      PROVE  Goal
  BY <1>i, IdleFits, TaskMoves
<1>r. UNCHANGED sent => (OneTick => ReplacedNeverClaimed')
  BY DEF OneTick, ReplacedNeverClaimed
<1>1. ASSUME NEW p \in Replica, Start(p) PROVE Goal
  <2>1. PICK t : t = [proc[p] EXCEPT !.pc = "asleep"]
    OBVIOUS
  <2>2. /\ t.pc = "asleep" /\ t.date = proc[p].date /\ t.time = proc[p].time
        /\ t.todo = proc[p].todo
    BY <1>t, <2>1 DEF Task
  <2>3. Become(p, t) /\ proc[p].pc = "down" /\ UNCHANGED <<sent, clockVars>>
    BY <1>1, <2>1 DEF Start, Goto, storeVars
  <2>4. FitTask(t)
    BY <1>t, <2>2 DEF FitTask, Fits
  <2>5. OneTick => Thorough(t, sent')
    BY <2>2, <2>3 DEF OneTick, Thorough, OneKind, Unreplaced, Tried
  <2> QED
    BY <1>r, <2>3, <2>4, <2>5, TaskMoves
<1>2. ASSUME NEW p \in Replica, BeginTick(p) PROVE Goal
  <2>1. PICK t : t = [Idle("suppress") EXCEPT !.date = today, !.time = time,
                                              !.todo = kept(today, time)]
    OBVIOUS
  <2>2. t.pc = "suppress" /\ t.date = today /\ t.time = time /\ t.todo = kept(today, time)
    BY <2>1 DEF Idle
  <2>3. Become(p, t) /\ UNCHANGED <<sent, clockVars>>
    BY <1>2, <2>1 DEF BeginTick, storeVars
  <2>4. FitTask(t)
    BY <2>2 DEF FitTask, Fits, kept, TypeOK, Time
  <2>5. Thorough(t, sent')
    <3>1. \A r \in Reminder : Chan(r, today) \in ReminderSlot /\ Chan(r, today).date = today
                              /\ Chan(r, today).id = r
      BY DEF Chan, ReminderSlot, TypeOK
    <3>2. \A s \in kept(today, time) : s.kind = "channel"
      BY DEF kept, ReminderSlot
    <3> QED
      BY <2>2, <2>3, <3>1, <3>2 DEF Thorough, OneKind, Unreplaced, Tried, kept
  <2> QED
    BY <1>r, <2>3, <2>4, <2>5, TaskMoves
<1>3. ASSUME NEW p \in Replica, Suppress(p) PROVE Goal
  <2> DEFINE left == survivors(proc[p].todo, proc[p].date)
  <2>1. PICK t : t = [proc[p] EXCEPT !.pc = "channels", !.todo = left]
    OBVIOUS
  <2>2. t.pc = "channels" /\ t.date = proc[p].date /\ t.time = proc[p].time /\ t.todo = left
    BY <1>t, <2>1 DEF Task
  <2>3. Become(p, t) /\ proc[p].pc = "suppress" /\ UNCHANGED <<sent, clockVars>>
    BY <1>3, <2>1 DEF Suppress, storeVars
  <2>4. FitTask(t)
    BY <1>t, <2>2, SurvivorsAmong DEF FitTask, Fits
  <2>5. ASSUME OneTick PROVE Thorough(t, sent')
    <3>1. Thorough(proc[p], sent)
      BY <2>5 DEF OneTick
    <3>2. /\ \A s \in left : s.kind = "channel" /\ ~Replaced(s.id, s.date)
          /\ \A r \in Reminder : DueAt(r, t.date, t.time) /\ ~Replaced(r, t.date) =>
                 Chan(r, t.date) \in sent \cup left
      BY <1>t, <2>2, <2>3, <3>1, SuppressionFits
    <3> QED
      BY <2>2, <2>3, <3>2 DEF Thorough, OneKind, Unreplaced, Tried
  <2> QED
    BY <1>r, <2>3, <2>4, <2>5, TaskMoves
<1>4. ASSUME NEW p \in Replica, Collide(p) \/ Claim(p) \/ ClaimWithoutChannel(p) PROVE Goal
  <2>1. PICK s \in proc[p].todo, pc \in {proc[p].pc, "fetching", "sending"},
            slot \in Slot \cup {NoSlot} :
            /\ Become(p, [proc[p] EXCEPT !.pc = pc, !.slot = slot, !.todo = @ \ {s}])
            /\ pc = proc[p].pc \/ slot = s
            /\ \/ sent' = sent \cup {s}
               \/ sent' = sent /\ (s.kind = "channel" => s \in sent)
    <3>1. \A s : [proc[p] EXCEPT !.pc = proc[p].pc, !.slot = proc[p].slot, !.todo = @ \ {s}]
                     = [proc[p] EXCEPT !.todo = @ \ {s}]
      BY <1>t DEF Task
    <3>s. proc[p].slot \in Slot \cup {NoSlot} /\ proc[p].todo \subseteq Slot
      BY <1>t DEF Task
    <3>2. CASE Collide(p)
      BY <3>s, <3>1, <3>2 DEF Collide, Claimable, storeVars
    <3>3. CASE Claim(p)
      BY <3>s, <3>3 DEF Claim, mark_sent
    <3>4. CASE ClaimWithoutChannel(p)
      BY <3>s, <3>1, <3>4 DEF ClaimWithoutChannel, mark_sent
    <3> QED
      BY <1>4, <3>2, <3>3, <3>4
  <2>2. proc[p].pc \in {"channels", "members"} /\ UNCHANGED clockVars
    BY <1>4 DEF Collide, Claim, ClaimWithoutChannel
  <2>3. PICK t : t = [proc[p] EXCEPT !.pc = pc, !.slot = slot, !.todo = @ \ {s}]
    OBVIOUS
  <2>4. /\ t.pc = pc /\ t.slot = slot /\ t.date = proc[p].date /\ t.time = proc[p].time
        /\ t.todo = proc[p].todo \ {s}
    BY <1>t, <2>3 DEF Task
  <2>5. FitTask(t)
    BY <1>t, <2>1, <2>2, <2>4 DEF FitTask, Fits
  <2>6. OneTick => Thorough(t, sent') /\ ReplacedNeverClaimed'
    BY <2>1, <2>2, <2>4, ItemTaken
  <2> QED
    BY <2>1, <2>2, <2>3, <2>5, <2>6, TaskMoves
<1>5. ASSUME NEW p \in Replica, ListDue(p) PROVE Goal
  <2> DEFINE due == list_due(proc[p].date, proc[p].time)
  <2>1. PICK t : t = [proc[p] EXCEPT !.pc = "members", !.todo = due]
    OBVIOUS
  <2>2. t.pc = "members" /\ t.date = proc[p].date /\ t.time = proc[p].time /\ t.todo = due
    BY <1>t, <2>1 DEF Task
  <2>3. /\ Become(p, t) /\ proc[p].pc = "channels" /\ proc[p].todo = {}
        /\ UNCHANGED <<sent, clockVars>>
    BY <1>5, <2>1 DEF ListDue, storeVars
  <2>4. \A s \in due : s.kind = "dm"
    BY DEF list_due, MemberSlot
  <2>5. FitTask(t)
    BY <1>t, <2>2, <2>4 DEF FitTask, Fits
  <2>6. OneTick => Thorough(t, sent')
    BY <2>2, <2>3, <2>4 DEF OneTick, Thorough, OneKind, Unreplaced, Tried
  <2> QED
    BY <1>r, <2>3, <2>5, <2>6, TaskMoves
<1>6. ASSUME NEW p \in Replica, FetchFound(p) \/ Reach(p) PROVE Goal
  <2>1. PICK t : /\ Become(p, t) /\ t.pc = "sending" /\ t.date = proc[p].date
                 /\ t.time = proc[p].time /\ t.todo = proc[p].todo /\ t.slot = proc[p].slot
    BY <1>6, <1>t DEF FetchFound, Reach, Goto, Task
  <2>2. proc[p].pc \in {"fetching", "sending"} /\ UNCHANGED <<sent, clockVars>>
    BY <1>6 DEF FetchFound, Reach, storeVars
  <2>3. FitTask(t)
    BY <1>t, <2>1, <2>2 DEF FitTask, Fits
  <2>4. OneTick => Thorough(t, sent')
    BY <2>1, <2>2 DEF OneTick, Thorough, OneKind, Unreplaced, Tried
  <2> QED
    BY <1>r, <2>1, <2>2, <2>3, <2>4, TaskMoves
<1>7. ASSUME NEW p \in Replica, SendOk(p) \/ Refuse(p) PROVE Goal
  <2>1. NextItem(p, TRUE) /\ Holding(p) /\ UNCHANGED <<sent, clockVars>>
    BY <1>7 DEF SendOk, Refuse, Holding, storeVars
  <2>2. PICK t : Become(p, t) /\ FitTask(t) /\ (OneTick => Thorough(t, sent))
    BY <1>s, <2>1, NextItemFits
  <2> QED
    BY <1>r, <2>1, <2>2, TaskMoves
<1>8. ASSUME NEW p \in Replica, Transient(p) \/ UnmarkFails(p) PROVE Goal
  <2>1. /\ Holding(p) /\ FailItem(p) /\ UNCHANGED clockVars
        /\ sent' = sent \/ sent' = sent \ {proc[p].slot}
    BY <1>8 DEF Transient, UnmarkFails, unmark, storeVars
  <2>2. OneTick => ReplacedNeverClaimed'
    BY <2>1 DEF OneTick, ReplacedNeverClaimed
  <2>3. PICK t : /\ Become(p, t) /\ FitTask(t)
                 /\ \/ \A claimed : Thorough(t, claimed)
                    \/ proc[p].slot.kind = "dm" /\ t.date \in Date
                       /\ (OneTick => Thorough(t, sent))
    BY <1>s, <2>1, FailItemFits
  <2>4. CASE proc[p].slot.kind = "dm" /\ t.date \in Date /\ (OneTick => Thorough(t, sent))
    <3>1. \A s \in ReminderSlot : s \in sent' <=> s \in sent
      BY <2>1, <2>4 DEF ReminderSlot
    <3>2. OneTick => Thorough(t, sent')
      BY <2>4, <3>1, SameClaims DEF Thorough
    <3> QED
      BY <2>1, <2>2, <2>3, <3>2, TaskMoves
  <2> QED
    BY <2>1, <2>2, <2>3, <2>4, TaskMoves
<1>9. ASSUME NEW p \in Replica, EndTick(p) \/ QueryFails(p) \/ Crash(p) PROVE Goal
  <2>1. /\ Become(p, Idle("asleep")) \/ Become(p, Idle("down"))
        /\ UNCHANGED <<sent, clockVars>>
    BY <1>9 DEF EndTick, QueryFails, Crash, AbortTick, storeVars
  <2> QED
    BY <1>i, <1>r, <2>1
<1>10. ASSUME NEW p \in Replica, ClaimFails(p) PROVE Goal
  <2>1. PICK s \in proc[p].todo :
            /\ sent' = sent \/ sent' = sent \cup {s}
            /\ IF s.kind = "channel"
               THEN AbortTick(p)
               ELSE Become(p, [proc[p] EXCEPT !.todo = @ \ {s}, !.completed = FALSE])
    BY <1>10 DEF ClaimFails, mark_sent
  <2>2. proc[p].pc \in {"channels", "members"} /\ UNCHANGED clockVars
    BY <1>10 DEF ClaimFails
  <2>3. PICK t : t = [proc[p] EXCEPT !.todo = @ \ {s}, !.completed = FALSE]
    OBVIOUS
  <2>4. /\ t.pc = proc[p].pc /\ t.date = proc[p].date /\ t.time = proc[p].time
        /\ t.todo = proc[p].todo \ {s}
    BY <1>t, <2>3 DEF Task
  <2>5. CASE s.kind = "channel"
    <3>1. ASSUME OneTick PROVE ReplacedNeverClaimed'
      <4>1. Unreplaced(proc[p])
        BY <3>1 DEF OneTick, Thorough
      <4>2. ASSUME NEW r \in Reminder, NEW d \in Date, Chan(r, d) = s PROVE ~Replaced(r, d)
        BY <2>2, <4>1, <4>2 DEF Unreplaced, Chan
      <4> QED
        BY <2>1, <3>1, <4>2 DEF OneTick, ReplacedNeverClaimed
    <3> QED
      BY <1>i, <2>1, <2>2, <2>5, <3>1 DEF AbortTick
  <2>6. CASE s.kind # "channel"
    <3>1. FitTask(t)
      BY <1>t, <2>2, <2>4 DEF FitTask, Fits
    <3>2. OneTick => Thorough(t, sent') /\ ReplacedNeverClaimed'
      BY <2>1, <2>2, <2>4, <2>6, ItemTaken
    <3> QED
      BY <2>1, <2>2, <2>3, <2>6, <3>1, <3>2, TaskMoves
  <2> QED
    BY <2>5, <2>6
<1>11. CASE OfficerCommand
  <2>1. \A s \in ReminderSlot : s \in sent' <=> s \in sent
    BY <1>11 DEF OfficerCommand, create, update, delete, ReminderSlot
  <2> QED
    BY <1>11, <2>1, TaskStays DEF OfficerCommand
<1>12. CASE AdvanceClock
  <2>1. UNCHANGED <<sent, proc>>
    BY <1>12 DEF AdvanceClock, storeVars
  <2>2. \/ today' = today /\ time < time'
        \/ today < today'
    BY <1>12 DEF AdvanceClock, TypeOK, Date, Time
  <2>3. /\ today \in Nat /\ time \in Nat /\ today' \in Nat /\ time' \in Nat
        /\ \A p \in Replica : proc[p].date \in Nat /\ proc[p].time \in Nat
    BY <1>12, StoreAssumption DEF AdvanceClock, TypeOK, Date, Time, Task
  <2>4. WorkIsDue'
    BY <2>1, <2>2, <2>3 DEF WorkIsDue, FitTask
  <2> QED
    BY <2>1, <2>4 DEF OneTick, ReplacedNeverClaimed
<1>13. ASSUME NEW p \in Replica, SkipTick(p) PROVE Goal
  BY <1>13, TaskStays DEF SkipTick, storeVars
<1>14. CASE UNCHANGED vars
  BY <1>14, TaskStays DEF vars, storeVars
<1> QED
  BY <1>1, <1>2, <1>3, <1>4, <1>5, <1>6, <1>7, <1>8, <1>9, <1>10, <1>11, <1>12, <1>13, <1>14
     DEF Next, Step, Fault

LEMMA InitTick == Init => WorkIsDue /\ OneTick
<1> SUFFICES ASSUME Init PROVE WorkIsDue /\ OneTick
  OBVIOUS
<1>1. TypeOK /\ sent = {} /\ \A p \in Replica : proc[p] = Idle("down")
  BY InitTypeOK DEF Init, StoreInit
<1>2. \A p \in Replica : FitTask(proc[p]) /\ Thorough(proc[p], sent)
  BY <1>1, IdleFits
<1> QED
  BY <1>1, <1>2 DEF WorkIsDue, OneTick, ReplacedNeverClaimed

\* However late a tick runs and however many replicas there are, a message
\* appears on its own date and no earlier than its fire time.
THEOREM MessagesAreNeverEarly == Spec => PostedWhenDue
<1>1. Init => IInv /\ WorkIsDue
  BY InitIInv, InitTick
<1>2. IInv /\ WorkIsDue /\ [Next]_vars => IInv' /\ WorkIsDue'
  BY StepIInv, StepTick DEF IInv
<1>3. ASSUME IInv, WorkIsDue, [Next]_vars, NEW s \in ReminderSlot, posts'[s] # posts[s]
      PROVE  \/ today > s.date /\ DueAt(s.id, s.date, LastTime)
             \/ today = s.date /\ DueAt(s.id, s.date, time)
  <2>1. PICK p \in Replica : Reach(p)
    BY <1>3 DEF Next, Step, Fault, Start, SkipTick, BeginTick, Suppress, Collide, Claim,
       ClaimWithoutChannel, ListDue, EndTick, FetchFound, SendOk, Refuse, Transient, UnmarkFails,
       QueryFails, ClaimFails, Crash, OfficerCommand, AdvanceClock, historyVars, vars
  <2>2. s = proc[p].slot
    BY <1>3, <2>1 DEF Reach, IInv, TypeOK, Slot
  <2>3. FitTask(proc[p]) /\ Fits(s, proc[p]) /\ s.kind = "channel" /\ s.id \in Reminder
    BY <1>3, <2>1, <2>2 DEF Reach, WorkIsDue, FitTask, ReminderSlot
  <2>4. /\ proc[p].time \in Nat /\ proc[p].time <= LastTime /\ time \in Nat
        /\ Reminders[s.id].fire_time \in Nat
    BY <1>3, <2>3, StoreAssumption, SchedulerAssumption DEF IInv, TypeOK, Task, Time
  <2>5. \A t \in Nat : proc[p].time <= t /\ DueAt(s.id, s.date, proc[p].time) =>
            DueAt(s.id, s.date, t)
    BY <2>4 DEF DueAt
  <2>6. s.date = proc[p].date /\ DueAt(s.id, s.date, proc[p].time)
    BY <2>3 DEF Fits
  <2>7. CASE proc[p].date < today
    BY <2>4, <2>5, <2>6, <2>7, StoreAssumption
  <2>8. CASE proc[p].date = today /\ proc[p].time <= time
    BY <2>4, <2>5, <2>6, <2>8
  <2> QED
    BY <2>3, <2>7, <2>8 DEF FitTask
<1>4. IInv /\ WorkIsDue /\ [Next]_vars =>
          [\A s \in ReminderSlot : posts'[s] # posts[s] =>
              \/ today > s.date /\ DueAt(s.id, s.date, LastTime)
              \/ today = s.date /\ DueAt(s.id, s.date, time)]_vars
  BY <1>3
<1> QED
  BY <1>1, <1>2, <1>4, PTL DEF Spec, PostedWhenDue

LEMMA OneTickHolds == SingleReplica => (Spec => [](IInv /\ OneTick))
<1> SUFFICES ASSUME SingleReplica PROVE Spec => [](IInv /\ OneTick)
  OBVIOUS
<1>1. Init => IInv /\ WorkIsDue /\ OneTick
  BY InitIInv, InitTick
<1>2. IInv /\ WorkIsDue /\ OneTick /\ [Next]_vars => IInv' /\ WorkIsDue' /\ OneTick'
  BY StepIInv, StepTick DEF IInv
<1> QED
  BY <1>1, <1>2, PTL DEF Spec

\* With one replica a reminder the end of tank week replaces is never claimed,
\* whatever was claimed, given back and retried on that day before.
THEOREM ReplacedStaysUnclaimed == SingleReplica => (Spec => []ReplacedNeverClaimed)
<1> SUFFICES ASSUME SingleReplica PROVE Spec => []ReplacedNeverClaimed
  OBVIOUS
<1>1. OneTick => ReplacedNeverClaimed
  BY DEF OneTick
<1> QED
  BY <1>1, OneTickHolds, PTL

\* With one replica a tick that reports success has claimed every reminder
\* that was due when it began and that nothing replaces.
THEOREM SuccessLeavesNothingDue == SingleReplica => (Spec => SuccessMeansServed)
<1> SUFFICES ASSUME SingleReplica PROVE Spec => SuccessMeansServed
  OBVIOUS
<1>1. ASSUME IInv, OneTick, NEW p \in Replica, proc[p].pc = "members", NEW r \in Reminder,
             DueAt(r, proc[p].date, proc[p].time), ~Replaced(r, proc[p].date)
      PROVE  Chan(r, proc[p].date) \in sent
  <2>1. OneKind(proc[p]) /\ Tried(proc[p], sent)
    BY <1>1 DEF OneTick, Thorough
  <2>2. Chan(r, proc[p].date).kind = "channel"
    BY DEF Chan
  <2> QED
    BY <1>1, <2>1, <2>2 DEF OneKind, Tried
<1>2. IInv /\ OneTick =>
        [\A p \in Replica :
         proc[p].pc = "members" /\ progress'[p] = "succeeded" /\ proc'[p] # proc[p]
         /\ proc'[p].pc = "asleep" =>
            \A r \in Reminder :
                DueAt(r, proc[p].date, proc[p].time) /\ ~Replaced(r, proc[p].date)
                => Chan(r, proc[p].date) \in sent]_vars
  BY <1>1
<1> QED
  BY <1>2, OneTickHolds, PTL DEF SuccessMeansServed
================================================================================
