---------------------------- MODULE RoleSync_proof ----------------------------
(***************************************************************************)
(* Proofs about RoleSync, for any deliveries, days, stamps and faults.     *)
(* The type invariant holds for any number of replicas.  The rest needs    *)
(* one process: its lock makes the check, the service call and the UPSERT  *)
(* one critical section, so the row a call decided on is still there when  *)
(* it writes, and the stored timestamp never goes back.                    *)
(***************************************************************************)
EXTENDS RoleSync, TLAPS

TypeInv == TypeOK /\ Sent

LEMMA InitTypeInv == Init => TypeInv
<1> SUFFICES ASSUME Init PROVE TypeInv
    OBVIOUS
<1>1. calls \in [Call -> CallState]
  <2> DEFINE unsent(p) == [pc |-> "unsent", replica |-> p, body |-> NoBody, remove |-> {},
                           add |-> {}, result |-> "error", exact |-> TRUE]
  <2>1. \A p \in Replica : unsent(p) \in CallState
    BY DEF CallState, Result
  <2>2. {unsent(p) : p \in Replica} \subseteq CallState
    BY <2>1
  <2>3. calls \in [Call -> {unsent(p) : p \in Replica}]
    BY DEF Init
  <2> QED
    BY <2>2, <2>3
<1>2. \A c \in Call : calls[c].pc = "unsent"
    BY DEF Init
<1>3. discord \in View /\ cache \in [Replica -> View]
    BY DEF Init, View
<1> QED
    BY <1>1, <1>2, <1>3, RoleSyncAssumption DEF Init, TypeInv, TypeOK, Sent

\* What a stored row keeps of its call.
LEMMA StoredType ==
    ASSUME TypeInv, NEW c \in Call, InLock(c)
    PROVE  Stored(c) \in Row
<1>1. calls[c] \in CallState /\ calls[c].pc # "unsent"
    BY DEF TypeInv, TypeOK, InLock
<1>2. calls[c].body \in Body
    BY <1>1 DEF TypeInv, Sent, CallState
<1> QED
    BY <1>1, <1>2 DEF Stored, Row, CallState

\* A step of one call.
LEMMA BecomeType ==
    ASSUME TypeInv, NEW c \in Call, NEW s \in CallState,
           s.pc # "unsent" => s.body \in Body,
           Become(c, s)
    PROVE  calls' \in [Call -> CallState] /\ Sent'
BY RoleSyncAssumption DEF Become, TypeInv, TypeOK, Sent

\* Forgetting what is known of the roles changes no type.
LEMMA BlurType ==
    ASSUME NEW cs \in [Call -> CallState], NEW r \in Row \cup {NoRow}, Blur(cs, r)
    PROVE  /\ calls' \in [Call -> CallState]
           /\ row' \in Row \cup {NoRow}
           /\ (\A c \in Call : cs[c].pc # "unsent" => cs[c].body # NoBody) => Sent'
<1>1. \A c \in Call : [cs[c] EXCEPT !.exact = FALSE] \in CallState
    BY DEF CallState
<1>2. r # NoRow => [r EXCEPT !.exact = FALSE] \in Row
    BY DEF Row
<1>3. calls' \in [Call -> CallState] /\ row' \in Row \cup {NoRow}
    BY <1>1, <1>2 DEF Blur
<1>4. \A c \in Call : calls'[c].pc = cs[c].pc /\ calls'[c].body = cs[c].body
    BY DEF Blur, CallState
<1> QED
    BY <1>3, <1>4 DEF Sent

LEMMA BlurRow ==
    ASSUME NEW cs, NEW r \in Row \cup {NoRow}, Blur(cs, r)
    PROVE  /\ r = NoRow => row' = NoRow
           /\ r # NoRow => row' \in Row /\ row' # NoRow
                           /\ row'.body = r.body /\ ~row'.exact
<1>1. ASSUME r # NoRow
      PROVE  row' \in Row /\ row'.body = r.body /\ ~row'.exact
    BY <1>1 DEF Blur, Row
<1> QED
    BY <1>1, RoleSyncAssumption DEF Blur

LEMMA TypeInvStep == TypeInv /\ [Next]_vars => TypeInv'
<1> SUFFICES ASSUME TypeInv, [Next]_vars PROVE TypeInv'
    OBVIOUS
<1>t. TypeOK /\ Sent
    BY DEF TypeInv
<1>b. \A c \in Call : calls[c] \in CallState /\ (calls[c].pc # "unsent" => calls[c].body \in Body)
    BY <1>t DEF TypeOK, Sent, CallState
<1>a. \A c \in Call, result \in Result :
        /\ Answered(c, result) \in CallState
        /\ Answered(c, result).body = calls[c].body
        /\ Answered(c, result).pc = "answered"
    BY <1>b DEF Answered, CallState
<1>1. ASSUME NEW c \in Call, NEW b \in Body, Deliver(c, b),
             UNCHANGED <<discord, cache, row, faults>>, stamp' \in 0 .. MaxStamp
      PROVE  TypeInv'
  <2> DEFINE s == [calls[c] EXCEPT !.pc = "waiting", !.body = b]
  <2>1. s \in CallState /\ s.body \in Body
    BY <1>b DEF CallState
  <2>2. calls' \in [Call -> CallState] /\ Sent'
    BY <1>1, <2>1, BecomeType DEF Deliver
  <2> QED
    BY <1>1, <2>2, <1>t DEF TypeInv, TypeOK
<1>2. ASSUME NEW c \in Call, NEW s \in CallState, s.pc # "unsent" => s.body \in Body,
             Become(c, s),
             discord' \in View, row' \in Row \cup {NoRow}, faults' \in 0 .. MaxFaults,
             UNCHANGED <<cache, stamp>>
      PROVE  TypeInv'
  <2>1. calls' \in [Call -> CallState] /\ Sent'
    BY <1>2, BecomeType
  <2> QED
    BY <1>2, <2>1, <1>t DEF TypeInv, TypeOK
<1>3. ASSUME SpendFault PROVE faults' \in 0 .. MaxFaults
    BY <1>3, <1>t, RoleSyncAssumption DEF SpendFault, TypeOK
<1>4. ASSUME NEW c \in Call, Submit(c) PROVE TypeInv'
    BY <1>4, <1>t, <1>1, RoleSyncAssumption DEF Submit, TypeOK
<1>5. ASSUME NEW c \in Call, Repeat(c) PROVE TypeInv'
    BY <1>5, <1>t, <1>b, <1>1 DEF Repeat, TypeOK
<1>6. ASSUME NEW c \in Call, Decide(c) PROVE TypeInv'
  <2>a. ASSUME NEW result \in Result, calls[c].pc = "waiting", Answer(c, result),
               UNCHANGED <<discord, cache, row, stamp, faults>>
        PROVE  TypeInv'
    BY <2>a, <1>2, <1>a, <1>b, <1>t DEF Answer, TypeOK
  <2>e. ASSUME NEW remove \in SUBSET Day, NEW add \in SUBSET Day, NEW result \in Result,
               NEW pc \in {"removing", "adding", "saving"},
               calls[c].pc = "waiting",
               Enter(c, pc, remove, add, result),
               UNCHANGED <<discord, cache, row, stamp, faults>>
        PROVE  TypeInv'
    <3> DEFINE s == [calls[c] EXCEPT !.pc = pc, !.remove = remove, !.add = add,
                           !.result = result,
                           !.exact = (cache[calls[c].replica] = discord)]
    <3>1. s \in CallState /\ s.body \in Body
        BY <2>e, <1>b DEF CallState
    <3>2. Become(c, s)
        BY <2>e DEF Enter
    <3> HIDE DEF s
    <3> QED
        BY <2>e, <3>1, <3>2, <1>2, <1>t DEF TypeOK
  <2>1. CASE Replay(c)
    <3> DEFINE s == [Answered(c, row.result) EXCEPT !.exact = row.exact]
    <3>1. row \in Row
        BY <2>1, <1>t DEF Replay, IsReplay, TypeOK
    <3>2. row.result \in Result /\ row.exact \in BOOLEAN
        BY <3>1 DEF Row
    <3>3. s \in CallState /\ s.body = calls[c].body
        BY <3>2, <1>a DEF CallState
    <3>4. Become(c, s) /\ calls[c].body \in Body
        BY <2>1, <1>b DEF Replay
    <3> HIDE DEF s
    <3> QED
        BY <2>1, <3>3, <3>4, <1>2, <1>t DEF Replay, TypeOK
  <2>2. CASE RejectStale(c)
    BY <2>2, <2>a DEF RejectStale, Result
  <2>3. CASE NothingToUnassign(c)
    BY <2>3, <2>a DEF NothingToUnassign, Result
  <2>4. CASE Skip(c)
    BY <2>4, <2>e DEF Skip
  <2>5. CASE Assign(c)
    <3>1. calls[c].body \in Body
        BY <2>5, <1>b DEF Assign
    <3>2. calls[c].body.day \in Day
        BY <2>5, <3>1, RoleSyncAssumption DEF Assign, Body
    <3>3. PICK other \in OtherDays(calls[c].body.day, cache[calls[c].replica]) :
            Enter(c, IF other = {} THEN "adding" ELSE "removing", other,
                  {calls[c].body.day}, "applied")
        BY <2>5 DEF Assign
    <3>4. cache[calls[c].replica] \in View
        BY <1>t, <1>b DEF TypeOK, CallState
    <3>5. other \in SUBSET Day
        BY <3>3, <3>4 DEF OtherDays, View
    <3> QED
        BY <2>5, <2>e, <3>2, <3>3, <3>5 DEF Assign, Result
  <2>6. CASE Unassign(c)
    <3>1. prior_day \in Day
        BY <2>6, <1>t DEF Unassign, prior_day, TypeOK, Row, Body
    <3> QED
        BY <2>6, <2>e, <3>1 DEF Unassign, Result
  <2> QED
    BY <1>6, <2>1, <2>2, <2>3, <2>4, <2>5, <2>6 DEF Decide
<1>7. ASSUME NEW cs \in [Call -> CallState], NEW r \in Row \cup {NoRow},
             Blur(cs, r),
             \A d \in Call : cs[d].pc # "unsent" => cs[d].body # NoBody,
             discord' \in View, cache' \in [Replica -> View], faults' \in 0 .. MaxFaults,
             UNCHANGED stamp
      PROVE  TypeInv'
    BY <1>7, <1>t, BlurType DEF TypeInv, TypeOK
<1>8. ASSUME NEW c \in Call, Continue(c) PROVE TypeInv'
  <2>0. AfterRemoval(c) \in {"saving", "adding"} /\ discord \in View /\ calls[c] \in CallState
    BY <1>t, <1>b DEF AfterRemoval, TypeOK
  <2>a. ASSUME NEW pc \in {"saving", "adding"}, NEW result \in Result, calls[c].pc # "unsent",
               Become(c, [calls[c] EXCEPT !.pc = pc, !.result = result]),
               discord' \in View, faults' \in 0 .. MaxFaults, UNCHANGED <<cache, row, stamp>>
        PROVE  TypeInv'
    <3> DEFINE s == [calls[c] EXCEPT !.pc = pc, !.result = result]
    <3>1. s \in CallState /\ s.body \in Body
        BY <2>a, <1>b DEF CallState
    <3>2. Become(c, s)
        BY <2>a
    <3> HIDE DEF s
    <3> QED
        BY <2>a, <3>1, <3>2, <1>2, <1>t DEF TypeOK
  <2>b. ASSUME NEW pc \in {"saving", "adding"}, Become(c, [calls[c] EXCEPT !.pc = pc])
        PROVE  Become(c, [calls[c] EXCEPT !.pc = pc, !.result = calls[c].result])
    BY <2>b, <2>0 DEF CallState
  <2>1. CASE Removed(c)
    <3>1. discord' \in View
        BY <2>1, <2>0 DEF Removed, View
    <3> QED
        BY <2>0, <2>1, <3>1, <2>a, <2>b, <1>t DEF Removed, TypeOK, CallState
  <2>2. CASE RemovalForbidden(c)
    BY <2>0, <2>2, <2>a, <1>3 DEF RemovalForbidden, Result
  <2>3. CASE Added(c)
    <3>1. discord' \in View
        BY <2>3, <2>0 DEF Added, View, CallState
    <3> QED
        BY <2>0, <2>3, <3>1, <2>a, <2>b, <1>t DEF Added, TypeOK, CallState
  <2>4. CASE AddForbidden(c)
    BY <2>0, <2>4, <2>a, <1>3 DEF AddForbidden, Result
  <2>5. CASE Save(c)
    <3>1. row' \in Row /\ calls[c].body \in Body
        BY <2>5, <1>b, StoredType DEF Save, InLock
    <3>2. calls[c].result \in Result
        BY <1>b DEF CallState
    <3>3. Become(c, Answered(c, calls[c].result))
        BY <2>5 DEF Save, Answer
    <3> QED
        BY <2>5, <3>1, <3>2, <3>3, <1>a, <1>2, <1>t DEF Save, TypeOK
  <2>6. CASE CallBreaks(c)
    <3> DEFINE cs == [calls EXCEPT ![c] = Answered(c, "error")]
    <3>1. PICK r \in {row} \cup (IF calls[c].pc = "saving" THEN {Stored(c)} ELSE {}) : Blur(cs, r)
        BY <2>6 DEF CallBreaks
    <3>2. r \in Row \cup {NoRow}
        BY <2>6, <3>1, <1>t, StoredType DEF CallBreaks, TypeOK
    <3>3. Answered(c, "error") \in CallState /\ calls[c].body \in Body
        BY <2>6, <1>a, <1>b DEF CallBreaks, InLock, Result
    <3>4. cs \in [Call -> CallState]
        BY <3>3, <1>t DEF TypeOK
    <3>5. \A d \in Call : cs[d].pc # "unsent" => cs[d].body # NoBody
        BY <3>3, <1>a, <1>t, RoleSyncAssumption DEF TypeOK, Sent, Result
    <3>6. discord' \in View
      <4>1. \A roles \in SUBSET Day : [discord EXCEPT !.roles = roles] \in View
        BY <2>0 DEF View
      <4>2. discord.roles \ calls[c].remove \in SUBSET Day /\ discord.roles \cup calls[c].add \in SUBSET Day
        BY <2>0 DEF View, CallState
      <4>3. Touched(c) \subseteq View
        BY <2>0, <4>1, <4>2 DEF Touched
      <4> QED
        BY <2>6, <4>3 DEF CallBreaks
    <3>7. faults' \in 0 .. MaxFaults
        BY <2>6, <1>3, <1>t DEF CallBreaks, TypeOK
    <3> HIDE DEF cs
    <3> QED
        BY <2>6, <3>1, <3>2, <3>4, <3>5, <3>6, <3>7, <1>7, <1>t DEF CallBreaks, TypeOK
  <2> QED
    BY <1>8, <2>1, <2>2, <2>3, <2>4, <2>5, <2>6 DEF Continue
<1>9. ASSUME NEW p \in Replica, Crash(p) PROVE TypeInv'
  <2> DEFINE cs == [c \in Call |->
               IF calls[c].replica = p /\ (InLock(c) \/ calls[c].pc = "waiting")
               THEN Answered(c, "error") ELSE calls[c]]
  <2>1. Blur(cs, row)
    BY <1>9 DEF Crash
  <2>2. cs \in [Call -> CallState]
    BY <1>a, <1>b DEF Result
  <2>3. \A d \in Call : cs[d].pc # "unsent" => cs[d].body # NoBody
    BY <1>a, <1>b, RoleSyncAssumption DEF InLock, Result
  <2> HIDE DEF cs
  <2>4. calls' \in [Call -> CallState] /\ row' \in Row \cup {NoRow} /\ Sent'
    BY <2>1, <2>2, <2>3, <1>t, BlurType DEF TypeOK
  <2>5. faults' \in 0 .. MaxFaults
    BY <1>9, <1>3 DEF Crash
  <2> QED
    BY <1>9, <2>4, <2>5, <1>t DEF Crash, TypeInv, TypeOK
<1>10. ASSUME NEW p \in Replica, GatewayUpdate(p) PROVE TypeInv'
    BY <1>10, <1>t DEF GatewayUpdate, TypeInv, TypeOK, Sent
<1>11. CASE LeaveOrJoin
  <2>1. calls' \in [Call -> CallState] /\ row' \in Row \cup {NoRow} /\ Sent'
    BY <1>11, <1>t, BlurType DEF LeaveOrJoin, TypeOK, Sent
  <2>2. discord' \in View
    BY <1>11, <1>t DEF LeaveOrJoin, TypeOK, View
  <2>3. faults' \in 0 .. MaxFaults
    BY <1>11, <1>3 DEF LeaveOrJoin
  <2> QED
    BY <1>11, <2>1, <2>2, <2>3, <1>t DEF LeaveOrJoin, TypeInv, TypeOK
<1>12. CASE CorruptRow
  <2>1. row' \in Row
    BY <1>12, <1>t DEF CorruptRow, TypeOK, Row
  <2>2. faults' \in 0 .. MaxFaults
    BY <1>12, <1>3 DEF CorruptRow
  <2> QED
    BY <1>12, <2>1, <2>2, <1>t DEF CorruptRow, TypeInv, TypeOK, Sent
<1>13. CASE UNCHANGED vars
    BY <1>13, <1>t DEF vars, TypeInv, TypeOK, Sent
<1> QED
    BY <1>4, <1>5, <1>6, <1>8, <1>9, <1>10, <1>11, <1>12, <1>13 DEF Next

--------------------------------------------------------------------------------
(* What a step does to the lock and to the row: a call takes the lock, or  *)
(* gives it back after writing the row, or neither touches them.           *)

Frame(d) == calls'[d].body = calls[d].body /\ calls'[d].replica = calls[d].replica

\* No call but those of S takes the lock.
Holds(S) == \A d \in Call \ S : InLock(d)' => InLock(d) /\ Frame(d)

KeepsRow == row' = row \/ (row # NoRow /\ row' # NoRow /\ row'.body = row.body)

Enters(c) ==
    /\ Free(c) /\ IsFresh(calls[c].body) /\ calls[c].body \in Body
    /\ Frame(c) /\ Holds({c}) /\ KeepsRow

Writes(c) ==
    /\ InLock(c) /\ ~InLock(c)'
    /\ Holds({}) /\ row' # NoRow /\ row'.body = calls[c].body

LEMMA StepKind ==
    ASSUME TypeInv, [Next]_vars
    PROVE  \/ Holds({}) /\ KeepsRow
           \/ \E c \in Call : Enters(c)
           \/ \E c \in Call : Writes(c)
<1>t. calls \in [Call -> CallState] /\ row \in Row \cup {NoRow}
    BY DEF TypeInv, TypeOK
<1>b. \A c \in Call : calls[c] \in CallState /\ (calls[c].pc # "unsent" => calls[c].body \in Body)
    BY DEF TypeInv, TypeOK, Sent, CallState
<1>1. ASSUME NEW c \in Call, NEW s, Become(c, s)
      PROVE  calls'[c] = s /\ \A d \in Call \ {c} : calls'[d] = calls[d]
    BY <1>1, <1>t DEF Become
<1>2. ASSUME NEW c \in Call, NEW s, Become(c, s),
             s.pc \in {"removing", "adding", "saving"} => InLock(c),
             InLock(c) => s.body = calls[c].body /\ s.replica = calls[c].replica
      PROVE  Holds({})
    BY <1>1, <1>2 DEF Holds, InLock, Frame
<1>a. \A c \in Call : \A result :
        /\ Answered(c, result).pc = "answered"
        /\ Answered(c, result).body = calls[c].body
        /\ Answered(c, result).replica = calls[c].replica
    BY <1>b DEF Answered, CallState
<1>3. ASSUME NEW c \in Call, Submit(c) \/ Repeat(c) PROVE Holds({}) /\ KeepsRow
  <2>1. PICK b : Deliver(c, b)
    BY <1>3 DEF Submit, Repeat
  <2> DEFINE s == [calls[c] EXCEPT !.pc = "waiting", !.body = b]
  <2>2. s.pc = "waiting" /\ ~InLock(c)
    BY <1>3, <1>b DEF CallState, Submit, Repeat, InLock
  <2>3. Become(c, s)
    BY <2>1 DEF Deliver
  <2> HIDE DEF s
  <2> QED
    BY <1>3, <2>2, <2>3, <1>2 DEF Submit, Repeat, KeepsRow
<1>4. ASSUME NEW c \in Call, Decide(c)
      PROVE  (Holds({}) /\ KeepsRow) \/ Enters(c)
  <2>0. calls[c].pc = "waiting" /\ Free(c) /\ ~InLock(c) /\ calls[c].body \in Body /\ KeepsRow
    BY <1>4, <1>b DEF Decide, Replay, RejectStale, NothingToUnassign, Skip, Assign, Unassign,
       InLock, KeepsRow
  <2>1. CASE Replay(c)
    <3> DEFINE s == [Answered(c, row.result) EXCEPT !.exact = row.exact]
    <3>1. s.pc = "answered"
        BY <1>b DEF Answered, CallState
    <3>2. Become(c, s)
        BY <2>1 DEF Replay
    <3> HIDE DEF s
    <3> QED
        BY <2>0, <3>1, <3>2, <1>2
  <2>2. CASE RejectStale(c) \/ NothingToUnassign(c)
    BY <2>0, <2>2, <1>a, <1>2 DEF RejectStale, NothingToUnassign, Answer
  <2>3. CASE Skip(c) \/ Assign(c) \/ Unassign(c)
    <3>1. PICK pc, remove, add, result : Enter(c, pc, remove, add, result)
        BY <2>3 DEF Skip, Assign, Unassign
    <3> DEFINE s == [calls[c] EXCEPT !.pc = pc, !.remove = remove, !.add = add,
                           !.result = result,
                           !.exact = (cache[calls[c].replica] = discord)]
    <3>2. s.body = calls[c].body /\ s.replica = calls[c].replica
        BY <1>b DEF CallState
    <3>3. Become(c, s)
        BY <3>1 DEF Enter
    <3>4. IsFresh(calls[c].body)
        BY <2>3 DEF Skip, Assign, Unassign
    <3> HIDE DEF s
    <3> QED
        BY <2>0, <3>2, <3>3, <3>4, <1>1 DEF Enters, Holds, Frame, InLock
  <2> QED
    BY <1>4, <2>1, <2>2, <2>3 DEF Decide
<1>5. ASSUME NEW cs \in [Call -> CallState], NEW r, Blur(cs, r)
      PROVE  \A d \in Call : /\ calls'[d].pc = cs[d].pc
                             /\ calls'[d].body = cs[d].body
                             /\ calls'[d].replica = cs[d].replica
    BY <1>5 DEF Blur, CallState
<1>6. ASSUME NEW c \in Call, Continue(c) PROVE (Holds({}) /\ KeepsRow) \/ Writes(c)
  <2>0. InLock(c) /\ calls[c].body \in Body
    BY <1>6, <1>b DEF Continue, Removed, RemovalForbidden, Added, AddForbidden, Save, CallBreaks,
       InLock
  <2>1. CASE Removed(c) \/ RemovalForbidden(c) \/ Added(c) \/ AddForbidden(c)
    <3>1. \A pc, result :
            LET s == [calls[c] EXCEPT !.pc = pc, !.result = result]
                t == [calls[c] EXCEPT !.pc = pc]
            IN /\ s.body = calls[c].body /\ s.replica = calls[c].replica
               /\ t.body = calls[c].body /\ t.replica = calls[c].replica
        BY <1>b DEF CallState
    <3>2. Removed(c) \/ Added(c) => \E pc : Become(c, [calls[c] EXCEPT !.pc = pc])
        BY DEF Removed, Added
    <3>3. RemovalForbidden(c) \/ AddForbidden(c) =>
            \E pc, result : Become(c, [calls[c] EXCEPT !.pc = pc, !.result = result])
        BY DEF RemovalForbidden, AddForbidden
    <3>4. Holds({})
        BY <2>0, <2>1, <3>1, <3>2, <3>3, <1>2
    <3> QED
        BY <2>1, <3>4 DEF Removed, RemovalForbidden, Added, AddForbidden, KeepsRow
  <2>2. CASE Save(c)
    <3>1. Become(c, Answered(c, calls[c].result)) /\ row' = Stored(c)
        BY <2>2 DEF Save, Answer
    <3>2. Holds({}) /\ ~InLock(c)'
        BY <2>0, <3>1, <1>1, <1>2, <1>a DEF InLock
    <3>3. row' \in Row /\ row'.body = calls[c].body
        BY <2>0, <3>1, StoredType DEF Stored
    <3> QED
        BY <2>0, <3>2, <3>3, RoleSyncAssumption DEF Writes
  <2>3. CASE CallBreaks(c)
    <3> DEFINE cs == [calls EXCEPT ![c] = Answered(c, "error")]
    <3>1. PICK r \in {row} \cup (IF calls[c].pc = "saving" THEN {Stored(c)} ELSE {}) : Blur(cs, r)
        BY <2>3 DEF CallBreaks
    <3>2. Answered(c, "error") \in CallState
        BY <1>b DEF Answered, CallState, Result
    <3>3. cs \in [Call -> CallState]
        BY <3>2, <1>t
    <3>4. \A d \in Call : /\ cs[d].pc = (IF d = c THEN "answered" ELSE calls[d].pc)
                          /\ cs[d].body = calls[d].body /\ cs[d].replica = calls[d].replica
        BY <1>a, <1>t
    <3> HIDE DEF cs
    <3>5. Holds({}) /\ ~InLock(c)'
        BY <3>1, <3>3, <3>4, <1>5 DEF Holds, Frame, InLock
    <3>6. CASE r = row
        BY <3>1, <3>5, <3>6, <1>t, BlurRow DEF KeepsRow
    <3>7. CASE r = Stored(c)
        <4>1. r \in Row /\ r.body = calls[c].body
            BY <2>0, <3>7, StoredType DEF Stored
        <4>2. row' # NoRow /\ row'.body = calls[c].body
            BY <3>1, <4>1, RoleSyncAssumption, BlurRow
        <4> QED
            BY <2>0, <3>5, <4>2 DEF Writes
    <3> QED
        BY <3>1, <3>6, <3>7
  <2> QED
    BY <1>6, <2>1, <2>2, <2>3 DEF Continue
<1>7. ASSUME NEW p \in Replica, Crash(p) PROVE Holds({}) /\ KeepsRow
  <2> DEFINE cs == [c \in Call |->
               IF calls[c].replica = p /\ (InLock(c) \/ calls[c].pc = "waiting")
               THEN Answered(c, "error") ELSE calls[c]]
  <2>1. Blur(cs, row)
    BY <1>7 DEF Crash
  <2>2. \A c \in Call : Answered(c, "error") \in CallState
    BY <1>b DEF Answered, CallState, Result
  <2>3. cs \in [Call -> CallState]
    BY <2>2, <1>b
  <2>4. \A d \in Call : /\ cs[d].pc \in {calls[d].pc, "answered"}
                        /\ cs[d].body = calls[d].body /\ cs[d].replica = calls[d].replica
    BY <1>a
  <2> HIDE DEF cs
  <2>5. Holds({})
    BY <2>1, <2>3, <2>4, <1>5 DEF Holds, Frame, InLock
  <2> QED
    BY <2>1, <2>5, <1>t, BlurRow DEF KeepsRow
<1>8. CASE LeaveOrJoin
  <2>1. Holds({})
    BY <1>8, <1>t, <1>5 DEF LeaveOrJoin, Holds, Frame, InLock
  <2> QED
    BY <1>8, <2>1, <1>t, BlurRow DEF LeaveOrJoin, KeepsRow
<1>9. CASE CorruptRow
  <2>1. row' # NoRow /\ row'.body = row.body
    BY <1>9, <1>t, RoleSyncAssumption DEF CorruptRow, Row
  <2> QED
    BY <1>9, <2>1 DEF CorruptRow, Holds, Frame, InLock, KeepsRow
<1>10. ASSUME UNCHANGED <<calls, row>> PROVE Holds({}) /\ KeepsRow
    BY <1>10 DEF Holds, Frame, InLock, KeepsRow
<1> QED
    BY <1>3, <1>4, <1>6, <1>7, <1>8, <1>9, <1>10 DEF Next, vars, GatewayUpdate

--------------------------------------------------------------------------------
(* The lock, and the order of the writes.                                  *)

LEMMA InitIInv == Init => IInv
<1> SUFFICES ASSUME Init PROVE IInv
    OBVIOUS
<1>1. \A c \in Call : calls[c].pc = "unsent"
    BY DEF Init
<1> QED
    BY <1>1, InitTypeInv DEF IInv, TypeInv, LockOK, Ordered, InLock

LEMMA Stamps == \A b \in Body : b.assigned_at \in Nat
BY RoleSyncAssumption DEF Body

LEMMA IInvStep == SingleReplica /\ IInv /\ [Next]_vars => IInv'
<1> SUFFICES ASSUME SingleReplica, IInv, [Next]_vars PROVE IInv'
    OBVIOUS
<1>t. TypeInv
    BY DEF IInv, TypeInv
<1>1. TypeInv'
    BY <1>t, TypeInvStep
<1>2. \A c \in Call : calls[c].replica \in Replica
    BY <1>t DEF TypeInv, TypeOK, CallState
<1>3. \A c, d \in Call : InLock(c) /\ InLock(d) => c = d
    BY <1>2 DEF IInv, LockOK, SingleReplica
<1>4. CASE Holds({}) /\ KeepsRow
  <2>1. LockOK'
    BY <1>3, <1>4 DEF LockOK, Holds
  <2>2. Ordered'
    BY <1>4 DEF IInv, Ordered, Holds, Frame, KeepsRow
  <2> QED
    BY <1>1, <2>1, <2>2 DEF IInv, TypeInv
<1>5. ASSUME NEW c \in Call, Enters(c) PROVE IInv'
  <2>1. \A d \in Call : ~InLock(d)
    BY <1>2, <1>5 DEF Enters, Free, SingleReplica
  <2>2. \A d \in Call : InLock(d)' => d = c
    BY <1>5, <2>1 DEF Enters, Holds
  <2>3. LockOK'
    BY <2>2 DEF LockOK
  <2>4. row = NoRow \/ row.body.assigned_at <= calls[c].body.assigned_at
    <3>1. CASE row # NoRow
      <4>1. row.body \in Body
        BY <3>1, <1>t DEF TypeInv, TypeOK, Row
      <4>2. ~(calls[c].body.assigned_at < row.body.assigned_at)
        BY <1>5, <3>1 DEF Enters, IsFresh, IsStale
      <4>3. calls[c].body.assigned_at \in Nat /\ row.body.assigned_at \in Nat
        BY <1>5, <4>1, Stamps DEF Enters
      <4> QED
        BY <4>2, <4>3
    <3> QED
      BY <3>1
  <2>5. Ordered'
    BY <1>5, <2>2, <2>4 DEF Ordered, Enters, Frame, KeepsRow
  <2> QED
    BY <1>1, <2>3, <2>5 DEF IInv, TypeInv
<1>6. ASSUME NEW c \in Call, Writes(c) PROVE IInv'
  <2>1. \A d \in Call : ~InLock(d)'
    BY <1>3, <1>6 DEF Writes, Holds
  <2> QED
    BY <1>1, <2>1 DEF IInv, TypeInv, LockOK, Ordered
<1> QED
    BY <1>t, <1>4, <1>5, <1>6, StepKind

\* Every variable keeps its type, whatever the number of replicas.
THEOREM TypeCorrect == Spec => []TypeOK
<1>1. Init => TypeInv
    BY InitTypeInv
<1>2. TypeInv /\ [Next]_vars => TypeInv'
    BY TypeInvStep
<1>3. TypeInv => TypeOK
    BY DEF TypeInv
<1> QED
    BY <1>1, <1>2, <1>3, PTL DEF Spec

\* With one process, one call at a time is past the lock, and the row is no
\* newer than that call: the inductive invariant.
THEOREM Invariant == SingleReplica => (Spec => []IInv)
<1>1. SingleReplica /\ IInv /\ [Next]_vars => IInv'
    BY IInvStep
<1>2. Init => IInv
    BY InitIInv
<1>3. ASSUME SingleReplica PROVE Spec => []IInv
  <2>1. IInv /\ [Next]_vars => IInv'
    BY <1>1, <1>3
  <2> QED
    BY <1>2, <2>1, PTL DEF Spec
<1> QED
    BY <1>3

\* With one process the stored timestamp never goes back, whatever the order
\* in which requests arrive, wait, fail and are repeated.
THEOREM TimestampNeverGoesBack == SingleReplica => (Spec => NeverBackInTime)
<1> SUFFICES ASSUME SingleReplica PROVE Spec => NeverBackInTime
    OBVIOUS
<1>1. ASSUME IInv, [Next]_vars
      PROVE  [row # NoRow /\ row' # NoRow =>
                  row.body.assigned_at <= row'.body.assigned_at]_vars
  <2>1. TypeInv
    BY <1>1 DEF IInv, TypeInv
  <2>2. row # NoRow => row.body.assigned_at \in Nat
    BY <2>1, Stamps DEF TypeInv, TypeOK, Row
  <2>3. CASE KeepsRow
    BY <2>2, <2>3 DEF KeepsRow
  <2>4. ASSUME NEW c \in Call, Writes(c)
        PROVE  row # NoRow => row.body.assigned_at <= row'.body.assigned_at
    BY <1>1, <2>4 DEF IInv, Ordered, Writes
  <2> QED
    BY <1>1, <2>1, <2>3, <2>4, StepKind DEF Enters
<1>2. Spec => []IInv
    BY Invariant
<1> QED
    BY <1>1, <1>2, PTL DEF Spec, NeverBackInTime

--------------------------------------------------------------------------------
(* The stored status tells what the member has.                            *)

InRoles == AssignmentsOnTrack /\ OnlySeededRoles /\ RowMatchesRoles

LEMMA InitInRoles == Init => InRoles
<1> SUFFICES ASSUME Init PROVE InRoles
    OBVIOUS
<1>1. \A c \in Call : calls[c].pc = "unsent" /\ calls[c].add = {}
    BY DEF Init
<1> QED
    BY <1>1 DEF Init, InRoles, AssignmentsOnTrack, OnlySeededRoles, RowMatchesRoles, InLock

\* Once everything is blurred, nothing is claimed of the roles.
LEMMA Blurred ==
    ASSUME TypeInv, InRoles, NEW cs \in [Call -> CallState], NEW r \in Row \cup {NoRow},
           Blur(cs, r), \A c \in Call : cs[c].add = calls[c].add,
           discord'.roles \subseteq Seeded
    PROVE  InRoles'
<1>1. \A c \in Call : ~calls'[c].exact /\ calls'[c].add = calls[c].add
    BY DEF Blur, CallState
<1>2. row' # NoRow => ~row'.exact
    BY BlurRow
<1> QED
    BY <1>1, <1>2 DEF InRoles, AssignmentsOnTrack, OnlySeededRoles, RowMatchesRoles

\* A step outside the lock that touches no role.
LEMMA OutsideLock ==
    ASSUME InRoles, UNCHANGED discord,
           \A c \in Call : /\ calls'[c].add = calls[c].add
                           /\ InLock(c) \/ InLock(c)' => calls'[c] = calls[c],
           \/ UNCHANGED row
           \/ row # NoRow /\ row' # NoRow /\ row'.body = row.body
              /\ row'.result = row.result /\ row'.exact = row.exact
    PROVE  InRoles'
<1>1. AssignmentsOnTrack' /\ OnlySeededRoles'
    BY DEF InRoles, AssignmentsOnTrack, OnlySeededRoles, OnTrack, Tells, InLock
<1>2. Quiet' => Quiet
    BY DEF Quiet, InLock
<1>3. RowMatchesRoles'
    BY <1>2 DEF InRoles, RowMatchesRoles, Tells
<1> QED
    BY <1>1, <1>3 DEF InRoles

\* A step of the only call in the lock, which stays there.
LEMMA InsideLock ==
    ASSUME InRoles, NEW c \in Call, InLock(c)',
           \A d \in Call \ {c} : calls'[d] = calls[d] /\ ~InLock(d),
           calls'[c].add \subseteq Seeded, discord'.roles \subseteq Seeded,
           calls'[c].exact /\ calls'[c].body.action = "assign" => OnTrack(c)'
    PROVE  InRoles'
<1>1. \A d \in Call : InLock(d)' => d = c
    BY DEF InLock
<1>2. AssignmentsOnTrack'
    BY <1>1 DEF AssignmentsOnTrack
<1>3. OnlySeededRoles' /\ ~Quiet'
    BY DEF InRoles, OnlySeededRoles, Quiet
<1> QED
    BY <1>2, <1>3 DEF InRoles, RowMatchesRoles

LEMMA InRolesStep == SingleReplica /\ TwoDays /\ IInv /\ InRoles /\ [Next]_vars => InRoles'
<1> SUFFICES ASSUME SingleReplica, TwoDays, IInv, InRoles, [Next]_vars PROVE InRoles'
    OBVIOUS
<1>t. TypeInv /\ calls \in [Call -> CallState] /\ row \in Row \cup {NoRow} /\ discord \in View
    BY DEF IInv, TypeInv, TypeOK
<1>b. \A c \in Call : calls[c] \in CallState /\ (calls[c].pc # "unsent" => calls[c].body \in Body)
    BY DEF IInv, TypeOK, Sent, CallState
<1>s. discord.roles \subseteq Seeded /\ (\A c \in Call : calls[c].add \subseteq Seeded)
    BY DEF InRoles, OnlySeededRoles
<1>l. \A c, d \in Call : InLock(c) /\ InLock(d) => c = d
    BY <1>b DEF IInv, LockOK, SingleReplica, CallState
<1>f. \A c, d \in Call : Free(c) => ~InLock(d)
    BY <1>b DEF Free, SingleReplica, CallState
<1>1. ASSUME NEW c \in Call, NEW s, Become(c, s)
      PROVE  calls'[c] = s /\ \A d \in Call \ {c} : calls'[d] = calls[d]
    BY <1>1, <1>t DEF Become
<1>2. ASSUME NEW c \in Call, NEW s, Become(c, s), ~InLock(c), s.add = calls[c].add,
             s.pc \in {"waiting", "answered"}, UNCHANGED <<discord, row>>
      PROVE  InRoles'
    BY <1>1, <1>2, OutsideLock DEF InLock
<1>a. \A c \in Call : \A result :
        Answered(c, result).add = calls[c].add /\ Answered(c, result).pc = "answered"
    BY <1>b DEF Answered, CallState
<1>3. ASSUME NEW c \in Call, Submit(c) \/ Repeat(c) PROVE InRoles'
  <2>1. PICK b : Deliver(c, b)
    BY <1>3 DEF Submit, Repeat
  <2> DEFINE s == [calls[c] EXCEPT !.pc = "waiting", !.body = b]
  <2>2. s.pc = "waiting" /\ s.add = calls[c].add /\ ~InLock(c)
    BY <1>3, <1>b DEF CallState, Submit, Repeat, InLock
  <2>3. Become(c, s)
    BY <2>1 DEF Deliver
  <2> HIDE DEF s
  <2> QED
    BY <1>3, <2>2, <2>3, <1>2 DEF Submit, Repeat
<1>4. ASSUME NEW c \in Call, Decide(c) PROVE InRoles'
  <2>0. calls[c].pc = "waiting" /\ ~InLock(c) /\ calls[c].body \in Body
        /\ UNCHANGED <<discord, row>> /\ (\A d \in Call : ~InLock(d))
    BY <1>4, <1>b, <1>f
       DEF Decide, Replay, RejectStale, NothingToUnassign, Skip, Assign, Unassign, InLock
  <2>1. CASE Replay(c)
    <3> DEFINE s == [Answered(c, row.result) EXCEPT !.exact = row.exact]
    <3>1. s.pc = "answered" /\ s.add = calls[c].add
        BY <1>b DEF Answered, CallState
    <3>2. Become(c, s)
        BY <2>1 DEF Replay
    <3> HIDE DEF s
    <3> QED
        BY <2>0, <3>1, <3>2, <1>2
  <2>2. CASE RejectStale(c) \/ NothingToUnassign(c)
    BY <2>0, <2>2, <1>a, <1>2 DEF RejectStale, NothingToUnassign, Answer
  <2>e. ASSUME NEW pc \in {"removing", "adding", "saving"}, NEW remove, NEW add \in SUBSET Seeded,
               NEW result, Enter(c, pc, remove, add, result),
               cache[calls[c].replica] = discord /\ calls[c].body.action = "assign" =>
                  LET day == calls[c].body.day
                  IN CASE pc = "removing" -> add = {day} /\ result = "applied"
                                             /\ discord.roles \subseteq remove
                       [] pc = "adding" -> add = {day} /\ result = "applied" /\ discord.roles = {}
                       [] pc = "saving" -> Tells(result, day)
        PROVE  InRoles'
    <3> DEFINE s == [calls[c] EXCEPT !.pc = pc, !.remove = remove, !.add = add,
                           !.result = result,
                           !.exact = (cache[calls[c].replica] = discord)]
    <3>1. /\ s.pc = pc /\ s.add = add /\ s.remove = remove /\ s.result = result
          /\ s.body = calls[c].body /\ s.exact = (cache[calls[c].replica] = discord)
        BY <1>b DEF CallState
    <3>2. Become(c, s)
        BY <2>e DEF Enter
    <3> HIDE DEF s
    <3>3. calls'[c] = s /\ (\A d \in Call \ {c} : calls'[d] = calls[d])
        BY <3>2, <1>1
    <3>4. InLock(c)' /\ calls'[c].add \subseteq Seeded
        BY <2>e, <3>1, <3>3 DEF InLock
    <3>5. calls'[c].exact /\ calls'[c].body.action = "assign" => OnTrack(c)'
        BY <2>0, <2>e, <3>1, <3>3 DEF OnTrack, Tells
    <3> QED
        BY <2>0, <3>3, <3>4, <3>5, <1>s, InsideLock
  <2>3. CASE Skip(c)
    <3>1. PICK why \in Result :
            /\ Skips(calls[c].body.action, Target(calls[c].body), cache[calls[c].replica], why)
            /\ Enter(c, "saving", {}, {}, why)
        BY <2>3 DEF Skip
    <3>2. calls[c].body.action = "assign" => Target(calls[c].body) = calls[c].body.day
        BY DEF Target
    <3>3. cache[calls[c].replica] = discord /\ calls[c].body.action = "assign" =>
            Tells(why, calls[c].body.day)
        BY <3>1, <3>2 DEF Skips, Tells
    <3> QED
        BY <3>1, <3>3, <2>e
  <2>4. CASE Assign(c)
    <3> DEFINE day == calls[c].body.day
               view == cache[calls[c].replica]
    <3>1. PICK other \in OtherDays(day, view) :
            Enter(c, IF other = {} THEN "adding" ELSE "removing", other, {day}, "applied")
        BY <2>4 DEF Assign
    <3>2. ~Skips("assign", day, view, "role_not_seeded")
          /\ ~Skips("assign", day, view, "member_not_in_guild")
          /\ ~Skips("assign", day, view, "already_has_role")
        BY <2>4 DEF Assign, Result
    <3>3. day \in Seeded /\ day \notin view.roles
        BY <3>2 DEF Skips
    <3>4. view = discord /\ other = {} => discord.roles = {}
        BY <3>1, <3>3, <1>s DEF OtherDays
    <3>5. view = discord /\ other # {} => discord.roles \subseteq other
        BY <3>1, <3>3, <1>s, RoleSyncAssumption DEF OtherDays, TwoDays
    <3> HIDE DEF day, view
    <3> QED
        BY <3>1, <3>3, <3>4, <3>5, <2>e DEF day, view
  <2>5. CASE Unassign(c)
    BY <2>5, <2>e DEF Unassign
  <2> QED
    BY <1>4, <2>1, <2>2, <2>3, <2>4, <2>5 DEF Decide
<1>5. ASSUME NEW c \in Call, Continue(c) PROVE InRoles'
  <2>0. InLock(c) /\ calls[c].body \in Body /\ calls[c] \in CallState
    BY <1>5, <1>b DEF Continue, Removed, RemovalForbidden, Added, AddForbidden, Save, CallBreaks,
       InLock
  <2>o. calls[c].exact /\ calls[c].body.action = "assign" => OnTrack(c)
    BY <2>0 DEF InRoles, AssignmentsOnTrack
  <2>d. \A d \in Call \ {c} : ~InLock(d)
    BY <2>0, <1>l
  <2>a. ASSUME NEW pc \in {"adding", "saving"}, NEW result,
               Become(c, [calls[c] EXCEPT !.pc = pc, !.result = result]),
               discord'.roles \subseteq Seeded,
               calls[c].exact /\ calls[c].body.action = "assign" =>
                  \/ pc = "adding" /\ calls[c].add = {calls[c].body.day}
                     /\ (result = "partial" \/ (result = "applied" /\ discord'.roles = {}))
                  \/ pc = "saving" /\ result = "failed"
                  \/ pc = "saving" /\ result = "partial" /\ calls[c].body.day \in discord'.roles
                  \/ pc = "saving" /\ result = "applied" /\ discord'.roles = {calls[c].body.day}
        PROVE  InRoles'
    <3> DEFINE s == [calls[c] EXCEPT !.pc = pc, !.result = result]
    <3>1. /\ s.pc = pc /\ s.add = calls[c].add /\ s.result = result
          /\ s.body = calls[c].body /\ s.exact = calls[c].exact
        BY <2>0 DEF CallState
    <3>2. Become(c, s)
        BY <2>a
    <3> HIDE DEF s
    <3>3. calls'[c] = s /\ (\A d \in Call \ {c} : calls'[d] = calls[d])
        BY <3>2, <1>1
    <3>4. InLock(c)' /\ calls'[c].add \subseteq Seeded
        BY <2>a, <3>1, <3>3, <1>s DEF InLock
    <3>5. calls'[c].exact /\ calls'[c].body.action = "assign" => OnTrack(c)'
        BY <2>a, <3>1, <3>3 DEF OnTrack, Tells
    <3> QED
        BY <2>a, <2>d, <3>3, <3>4, <3>5, InsideLock
  <2>b. ASSUME NEW pc \in {"saving", "adding"}, Become(c, [calls[c] EXCEPT !.pc = pc])
        PROVE  Become(c, [calls[c] EXCEPT !.pc = pc, !.result = calls[c].result])
    BY <2>b, <2>0 DEF CallState
  <2>1. CASE Removed(c)
    <3>1. discord'.roles = discord.roles \ calls[c].remove
        BY <2>1, <1>t DEF Removed, View
    <3>2. calls[c].exact /\ calls[c].body.action = "assign" =>
            calls[c].add = {calls[c].body.day} /\ calls[c].result = "applied"
            /\ discord'.roles = {} /\ AfterRemoval(c) = "adding"
        BY <2>1, <2>o, <3>1 DEF Removed, OnTrack, AfterRemoval
    <3> QED
        BY <2>1, <2>a, <2>b, <3>1, <3>2, <1>s DEF Removed, AfterRemoval
  <2>2. CASE RemovalForbidden(c)
    <3>1. calls[c].exact /\ calls[c].body.action = "assign" =>
            calls[c].add = {calls[c].body.day} /\ AfterRemoval(c) = "adding"
        BY <2>2, <2>o DEF RemovalForbidden, OnTrack, AfterRemoval
    <3> QED
        BY <2>2, <2>a, <3>1, <1>s DEF RemovalForbidden, AfterRemoval
  <2>3. CASE Added(c)
    <3>1. discord'.roles = discord.roles \cup calls[c].add
        BY <2>3, <1>t DEF Added, View
    <3>2. calls[c].exact /\ calls[c].body.action = "assign" =>
            \/ calls[c].result = "partial" /\ calls[c].body.day \in discord'.roles
            \/ calls[c].result = "applied" /\ discord'.roles = {calls[c].body.day}
        BY <2>3, <2>o, <3>1 DEF Added, OnTrack
    <3> QED
        BY <2>3, <2>a, <2>b, <3>1, <3>2, <1>s DEF Added
  <2>4. CASE AddForbidden(c)
    BY <2>4, <2>a, <1>s DEF AddForbidden
  <2>5. CASE Save(c)
    <3>1. row' = Stored(c) /\ UNCHANGED discord
        BY <2>5 DEF Save
    <3>2. calls'[c] = Answered(c, calls[c].result) /\ (\A d \in Call \ {c} : calls'[d] = calls[d])
        BY <2>5, <1>1 DEF Save, Answer
    <3>3. \A d \in Call : ~InLock(d)'
        BY <2>d, <3>2, <1>a DEF InLock
    <3>4. AssignmentsOnTrack' /\ OnlySeededRoles'
        BY <3>1, <3>2, <3>3, <1>a, <1>s DEF AssignmentsOnTrack, OnlySeededRoles
    <3>5. calls[c].exact /\ calls[c].body.action = "assign" =>
            Tells(calls[c].result, calls[c].body.day)
        BY <2>5, <2>o DEF Save, OnTrack
    <3>6. RowMatchesRoles'
        BY <3>1, <3>5 DEF RowMatchesRoles, Stored, Tells
    <3> QED
        BY <3>4, <3>6 DEF InRoles
  <2>6. CASE CallBreaks(c)
    <3> DEFINE cs == [calls EXCEPT ![c] = Answered(c, "error")]
    <3>1. PICK r \in {row} \cup (IF calls[c].pc = "saving" THEN {Stored(c)} ELSE {}) : Blur(cs, r)
        BY <2>6 DEF CallBreaks
    <3>2. r \in Row \cup {NoRow}
        BY <2>0, <3>1, <1>t, StoredType
    <3>3. Answered(c, "error") \in CallState
        BY <2>0 DEF Answered, CallState, Result
    <3>4. cs \in [Call -> CallState] /\ (\A d \in Call : cs[d].add = calls[d].add)
        BY <3>3, <1>a, <1>t
    <3>5. discord'.roles \subseteq Seeded
      <4>1. \A roles : [discord EXCEPT !.roles = roles].roles = roles
        BY <1>t DEF View
      <4>2. \A v \in Touched(c) : v.roles \subseteq Seeded
        BY <4>1, <1>s DEF Touched
      <4> QED
        BY <2>6, <4>2 DEF CallBreaks
    <3> HIDE DEF cs
    <3> QED
        BY <3>1, <3>2, <3>4, <3>5, <1>t, Blurred
  <2> QED
    BY <1>5, <2>1, <2>2, <2>3, <2>4, <2>5, <2>6 DEF Continue
<1>6. ASSUME NEW p \in Replica, Crash(p) PROVE InRoles'
  <2> DEFINE cs == [c \in Call |->
               IF calls[c].replica = p /\ (InLock(c) \/ calls[c].pc = "waiting")
               THEN Answered(c, "error") ELSE calls[c]]
  <2>1. Blur(cs, row)
    BY <1>6 DEF Crash
  <2>2. \A c \in Call : Answered(c, "error") \in CallState
    BY <1>b DEF Answered, CallState, Result
  <2>3. cs \in [Call -> CallState] /\ (\A d \in Call : cs[d].add = calls[d].add)
    BY <2>2, <1>a, <1>b
  <2> HIDE DEF cs
  <2> QED
    BY <1>6, <2>1, <2>3, <1>t, <1>s, Blurred DEF Crash
<1>7. CASE LeaveOrJoin
  <2>1. discord'.roles = {}
    BY <1>7 DEF LeaveOrJoin
  <2> QED
    BY <1>7, <2>1, <1>t, Blurred DEF LeaveOrJoin
<1>8. CASE CorruptRow
  <2>1. row' # NoRow /\ row'.body = row.body /\ row'.result = row.result /\ row'.exact = row.exact
    BY <1>8, <1>t, RoleSyncAssumption DEF CorruptRow, Row
  <2> QED
    BY <1>8, <2>1, OutsideLock DEF CorruptRow, InLock
<1>9. ASSUME UNCHANGED <<discord, calls, row>> PROVE InRoles'
    BY <1>9, OutsideLock DEF InLock
<1> QED
    BY <1>3, <1>4, <1>5, <1>6, <1>7, <1>8, <1>9 DEF Next, vars, GatewayUpdate

\* With one process and two attack days, the stored status of an assignment
\* tells the truth about the member's roles, through any interleaving of
\* requests, refusals, broken calls, crashes, departures and corrupted rows.
THEOREM StatusTellsTheRoles == SingleReplica /\ TwoDays => (Spec => []RowMatchesRoles)
<1> SUFFICES ASSUME SingleReplica, TwoDays PROVE Spec => []RowMatchesRoles
    OBVIOUS
<1>1. Init => IInv /\ InRoles
    BY InitIInv, InitInRoles
<1>2. IInv /\ InRoles /\ [Next]_vars => IInv' /\ InRoles'
    BY IInvStep, InRolesStep
<1>3. InRoles => RowMatchesRoles
    BY DEF InRoles
<1> QED
    BY <1>1, <1>2, <1>3, PTL DEF Spec

\* The whole of what the runs check of one process: the lock, the order of
\* the stamps, what a call under way has established, that no role but a
\* seeded one is ever asked for, and the status that tells the roles.
THEOREM RolesInvariant == SingleReplica /\ TwoDays => (Spec => []RolesInv)
<1> SUFFICES ASSUME SingleReplica, TwoDays PROVE Spec => []RolesInv
    OBVIOUS
<1>1. Init => IInv /\ InRoles
    BY InitIInv, InitInRoles
<1>2. IInv /\ InRoles /\ [Next]_vars => IInv' /\ InRoles'
    BY IInvStep, InRolesStep
<1>3. IInv /\ InRoles => RolesInv
    BY DEF InRoles, RolesInv
<1> QED
    BY <1>1, <1>2, <1>3, PTL DEF Spec
--------------------------------------------------------------------------------
(* The newest assignment stands.                                           *)

\* What siege-web sent and the database keeps of it.
Bodies == {calls[c].body : c \in {d \in Call : calls[d].pc # "unsent"}}
          \cup {r.body : r \in {row} \ {NoRow}}

\* A stamp is of one change, and none is from the future.
OneBody == \A a \in Bodies :
    a.assigned_at <= stamp /\ \A b \in Bodies : a.assigned_at = b.assigned_at => a = b

\* An assignment removes other days only.
RemovesOthers == \A c \in Call :
    InLock(c) /\ calls[c].body.action = "assign" => calls[c].body.day \notin calls[c].remove

IsNewest(b) == b.action = "assign" /\ b.assigned_at = stamp

Grants == {"applied", "partial", "already_has_role"}

\* The row of the newest assignment, granted, is true; and a call so answered
\* left that row, which no older request and no other one replaces.
RowStands == row # NoRow /\ row.exact /\ IsNewest(row.body) /\ row.result \in Grants =>
    row.body.day \in discord.roles

GrantStands == \A c \in Call : Granted(c) /\ IsNewest(calls[c].body) =>
    row # NoRow /\ row.body = calls[c].body /\ calls[c].body.day \in discord.roles

Standing == OneBody /\ RemovesOthers /\ RowStands /\ GrantStands

LEMMA InitStanding == Init => Standing
<1> SUFFICES ASSUME Init PROVE Standing
    OBVIOUS
<1>1. row = NoRow /\ \A c \in Call : calls[c].pc = "unsent"
    BY DEF Init
<1> QED
    BY <1>1 DEF Standing, OneBody, Bodies, RemovesOthers, RowStands, GrantStands, InLock, Granted

LEMMA KeptBodies ==
    ASSUME OneBody, stamp' = stamp,
           \A d \in Call : calls'[d].pc # "unsent" => calls'[d].body \in Bodies,
           row' # NoRow => row'.body \in Bodies
    PROVE  OneBody'
<1>1. Bodies' \subseteq Bodies
    BY DEF Bodies
<1> QED
    BY <1>1 DEF OneBody

\* A step of one call that writes no row, and takes from the member no role of
\* the newest assignment.
LEMMA OneCall ==
    ASSUME TypeInv, Standing, NEW c \in Call, NEW s, Become(c, s), row' = row, stamp' = stamp,
           s.pc # "unsent" => s.body \in Bodies,
           s.pc \in {"removing", "adding", "saving"} /\ s.body.action = "assign" =>
               s.body.day \notin s.remove,
           s.pc = "answered" /\ s.exact /\ s.result \in Grants /\ IsNewest(s.body) =>
               row # NoRow /\ row.body = s.body /\ s.body.day \in discord.roles,
           row # NoRow /\ IsNewest(row.body) /\ row.body.day \in discord.roles =>
               row.body.day \in discord'.roles
    PROVE  Standing'
<1>1. calls'[c] = s /\ \A d \in Call \ {c} : calls'[d] = calls[d]
    BY DEF Become, TypeInv, TypeOK
<1>2. OneBody'
  <2>1. \A d \in Call : calls[d].pc # "unsent" => calls[d].body \in Bodies
    BY DEF Bodies
  <2>2. row' # NoRow => row'.body \in Bodies
    BY DEF Bodies
  <2> QED
    BY <1>1, <2>1, <2>2, KeptBodies DEF Standing
<1>3. RemovesOthers'
    BY <1>1 DEF Standing, RemovesOthers, InLock
<1>4. RowStands'
    BY DEF Standing, RowStands, IsNewest
<1>5. ASSUME NEW d \in Call, Granted(d)', IsNewest(calls'[d].body)
      PROVE  row # NoRow /\ row.body = calls'[d].body /\ calls'[d].body.day \in discord.roles
  <2>1. CASE d = c
    BY <1>1, <1>5, <2>1 DEF Granted, IsNewest, Grants
  <2>2. CASE d # c
    BY <1>1, <1>5, <2>2 DEF Granted, IsNewest, Standing, GrantStands
  <2> QED
    BY <2>1, <2>2
<1>6. GrantStands'
    BY <1>5 DEF GrantStands, IsNewest
<1> QED
    BY <1>2, <1>3, <1>4, <1>6 DEF Standing

\* Once everything is blurred, nothing counts as granted.
LEMMA BlurredStands ==
    ASSUME Standing, NEW cs \in [Call -> CallState], NEW r \in Row \cup {NoRow}, Blur(cs, r),
           stamp' = stamp, r # NoRow => r.body \in Bodies,
           \A d \in Call :
               /\ cs[d].pc # "unsent" => calls[d].pc # "unsent" /\ cs[d].body = calls[d].body
               /\ cs[d].pc \in {"removing", "adding", "saving"} =>
                      InLock(d) /\ cs[d].remove = calls[d].remove
    PROVE  Standing'
<1>1. \A d \in Call : /\ calls'[d].pc = cs[d].pc /\ calls'[d].body = cs[d].body
                      /\ calls'[d].remove = cs[d].remove /\ ~calls'[d].exact
    BY DEF Blur, CallState
<1>2. row' # NoRow => ~row'.exact /\ row'.body \in Bodies
    BY BlurRow
<1>3. OneBody'
  <2>1. \A d \in Call : calls'[d].pc # "unsent" => calls'[d].body \in Bodies
    BY <1>1 DEF Bodies
  <2> QED
    BY <1>2, <2>1, KeptBodies DEF Standing
<1>4. RemovesOthers'
    BY <1>1 DEF Standing, RemovesOthers, InLock
<1>5. RowStands' /\ GrantStands'
    BY <1>1, <1>2 DEF RowStands, GrantStands, Granted
<1> QED
    BY <1>3, <1>4, <1>5 DEF Standing

\* The call in the lock is no older than the row: if the row is of the newest
\* change the call repeats it, and takes away another day's role.
LEMMA NewestKept ==
    ASSUME IInv, Standing, NEW c \in Call, InLock(c), row # NoRow, IsNewest(row.body)
    PROVE  calls[c].body = row.body /\ row.body.day \notin calls[c].remove
<1>1. calls[c].pc # "unsent" /\ calls[c].body \in Bodies /\ row.body \in Bodies
    BY DEF InLock, Bodies
<1>2. calls[c].body \in Body /\ row.body \in Body
    BY <1>1 DEF IInv, TypeOK, Sent, CallState, Row
<1>3. calls[c].body.assigned_at <= stamp /\ stamp <= calls[c].body.assigned_at
    BY <1>1 DEF Standing, OneBody, IInv, Ordered, IsNewest
<1>4. calls[c].body.assigned_at = row.body.assigned_at
    BY <1>2, <1>3, Stamps DEF IsNewest
<1>5. calls[c].body = row.body
    BY <1>1, <1>4 DEF Standing, OneBody
<1> QED
    BY <1>5 DEF Standing, RemovesOthers, IsNewest

LEMMA StandingStep ==
    SingleReplica /\ IInv /\ InRoles /\ Standing /\ [Next]_vars => Standing'
<1> SUFFICES ASSUME SingleReplica, IInv, InRoles, Standing, [Next]_vars PROVE Standing'
    OBVIOUS
<1>t. TypeInv /\ calls \in [Call -> CallState] /\ row \in Row \cup {NoRow} /\ discord \in View
    BY DEF IInv, TypeInv, TypeOK
<1>b. \A c \in Call : calls[c] \in CallState /\ (calls[c].pc # "unsent" => calls[c].body \in Body)
    BY DEF IInv, TypeOK, Sent, CallState
<1>l. \A c, d \in Call : InLock(c) /\ InLock(d) => c = d
    BY <1>b DEF IInv, LockOK, SingleReplica, CallState
<1>k. \A c \in Call : calls[c].pc # "unsent" => calls[c].body \in Bodies
    BY DEF Bodies
<1>r. row # NoRow => row.body \in Bodies
    BY DEF Bodies
<1>a. \A c \in Call : \A result :
        LET s == Answered(c, result)
        IN /\ s.pc = "answered" /\ s.result = result /\ s.body = calls[c].body
           /\ s.remove = calls[c].remove /\ s.exact = calls[c].exact
    BY <1>b DEF Answered, CallState
<1>1. ASSUME NEW c \in Call, Submit(c) PROVE Standing'
  <2>1. PICK b \in Body : b.assigned_at = stamp + 1 /\ Deliver(c, b)
    BY <1>1 DEF Submit
  <2> DEFINE s == [calls[c] EXCEPT !.pc = "waiting", !.body = b]
  <2>2. s.pc = "waiting" /\ s.body = b
    BY <1>b DEF CallState
  <2>3. calls'[c] = s /\ \A d \in Call \ {c} : calls'[d] = calls[d]
    BY <2>1, <1>t DEF Deliver, Become
  <2> HIDE DEF s
  <2>4. stamp \in Nat /\ stamp' = stamp + 1 /\ row' = row
    BY <1>1, <1>t DEF Submit, TypeInv, TypeOK
  <2>5. Bodies' \subseteq Bodies \cup {b}
    BY <2>2, <2>3, <2>4 DEF Bodies
  <2>6. \A a \in Bodies : a \in Body /\ a.assigned_at \in Nat /\ a.assigned_at <= stamp
    <3>1. Bodies \subseteq Body
        BY <1>t, <1>b DEF Bodies, Row
    <3> QED
        BY <3>1, Stamps DEF Standing, OneBody
  <2>7. OneBody'
    BY <2>1, <2>4, <2>5, <2>6 DEF Standing, OneBody
  <2>8. RemovesOthers'
    BY <2>2, <2>3 DEF Standing, RemovesOthers, InLock
  <2>9. \A a \in Bodies : ~IsNewest(a)'
    BY <2>4, <2>6 DEF IsNewest
  <2>10. RowStands' /\ GrantStands'
    BY <1>k, <1>r, <2>2, <2>3, <2>4, <2>9 DEF RowStands, GrantStands, Granted, IsNewest
  <2> QED
    BY <2>7, <2>8, <2>10 DEF Standing
<1>2. ASSUME NEW c \in Call, Repeat(c) PROVE Standing'
  <2>1. PICK d \in Call : calls[d].pc # "unsent" /\ Deliver(c, calls[d].body)
    BY <1>2 DEF Repeat
  <2> DEFINE s == [calls[c] EXCEPT !.pc = "waiting", !.body = calls[d].body]
  <2>2. s.pc = "waiting" /\ s.body = calls[d].body /\ Become(c, s)
    BY <1>b, <2>1 DEF CallState, Deliver
  <2> HIDE DEF s
  <2> QED
    BY <1>2, <2>1, <2>2, <1>k, <1>t, OneCall DEF Repeat
<1>3. ASSUME NEW c \in Call, Decide(c) PROVE Standing'
  <2>0. calls[c].pc = "waiting" /\ calls[c].body \in Bodies /\ UNCHANGED <<discord, row, stamp>>
    BY <1>3, <1>k DEF Decide, Replay, RejectStale, NothingToUnassign, Skip, Assign, Unassign
  <2>1. CASE Replay(c)
    <3> DEFINE s == [Answered(c, row.result) EXCEPT !.exact = row.exact]
    <3>1. s.pc = "answered" /\ s.body = calls[c].body /\ s.result = row.result /\ s.exact = row.exact
        BY <1>b DEF Answered, CallState
    <3>2. Become(c, s) /\ row # NoRow /\ row.body = calls[c].body
        BY <2>1 DEF Replay, IsReplay
    <3>3. row.exact /\ IsNewest(row.body) /\ row.result \in Grants =>
              row.body.day \in discord.roles
        BY <3>2 DEF Standing, RowStands
    <3> HIDE DEF s
    <3> QED
        BY <2>0, <3>1, <3>2, <3>3, <1>t, OneCall
  <2>2. CASE RejectStale(c) \/ NothingToUnassign(c)
    <3>1. PICK result \in {"stale_write", "already_lacks_role"} : Become(c, Answered(c, result))
        BY <2>2 DEF RejectStale, NothingToUnassign, Answer
    <3>2. result \notin Grants
        BY DEF Grants
    <3> QED
        BY <2>0, <3>1, <3>2, <1>a, <1>t, OneCall
  <2>e. ASSUME NEW pc \in {"removing", "adding", "saving"}, NEW remove, NEW add, NEW result,
               Enter(c, pc, remove, add, result),
               calls[c].body.action = "assign" => calls[c].body.day \notin remove
        PROVE  Standing'
    <3> DEFINE s == [calls[c] EXCEPT !.pc = pc, !.remove = remove, !.add = add,
                           !.result = result,
                           !.exact = (cache[calls[c].replica] = discord)]
    <3>1. s.pc = pc /\ s.remove = remove /\ s.body = calls[c].body
        BY <1>b DEF CallState
    <3>2. Become(c, s)
        BY <2>e DEF Enter
    <3> HIDE DEF s
    <3> QED
        BY <2>0, <2>e, <3>1, <3>2, <1>t, OneCall
  <2>3. CASE Skip(c)
    BY <2>3, <2>e DEF Skip
  <2>4. CASE Assign(c)
    <3>1. PICK other \in OtherDays(calls[c].body.day, cache[calls[c].replica]) :
            Enter(c, IF other = {} THEN "adding" ELSE "removing", other,
                  {calls[c].body.day}, "applied")
        BY <2>4 DEF Assign
    <3>2. calls[c].body.day \notin other
        BY <3>1 DEF OtherDays
    <3> QED
        BY <3>1, <3>2, <2>e
  <2>5. CASE Unassign(c)
    BY <2>5, <2>e DEF Unassign
  <2> QED
    BY <1>3, <2>1, <2>2, <2>3, <2>4, <2>5 DEF Decide
<1>4. ASSUME NEW c \in Call, Continue(c) PROVE Standing'
  <2>0. InLock(c) /\ calls[c].body \in Bodies /\ stamp' = stamp /\ calls[c].body \in Body
    BY <1>4, <1>b, <1>k DEF Continue, Removed, RemovalForbidden, Added, AddForbidden, Save,
       CallBreaks, InLock
  <2>1. CASE Removed(c) \/ RemovalForbidden(c) \/ Added(c) \/ AddForbidden(c)
    <3>1. PICK pc \in {"adding", "saving"}, result \in Result :
            Become(c, [calls[c] EXCEPT !.pc = pc, !.result = result])
      <4>1. \A pc : [calls[c] EXCEPT !.pc = pc, !.result = calls[c].result]
                      = [calls[c] EXCEPT !.pc = pc]
        BY <1>b DEF CallState
      <4>2. calls[c].result \in Result /\ {"failed", "partial"} \subseteq Result
        BY <1>b DEF CallState, Result
      <4> QED
        BY <2>1, <4>1, <4>2 DEF Removed, RemovalForbidden, Added, AddForbidden, AfterRemoval
    <3> DEFINE s == [calls[c] EXCEPT !.pc = pc, !.result = result]
    <3>2. s.pc = pc /\ s.body = calls[c].body /\ s.remove = calls[c].remove
        BY <1>b DEF CallState
    <3>3. s.body.action = "assign" => s.body.day \notin s.remove
        BY <2>0, <3>2 DEF Standing, RemovesOthers
    <3>4. discord.roles \ calls[c].remove \subseteq discord'.roles /\ row' = row
        BY <2>1, <1>t DEF Removed, RemovalForbidden, Added, AddForbidden, View
    <3>5. row # NoRow /\ IsNewest(row.body) /\ row.body.day \in discord.roles =>
              row.body.day \in discord'.roles
        BY <2>0, <3>4, NewestKept
    <3> HIDE DEF s
    <3>6. Become(c, s)
        BY <3>1 DEF s
    <3> QED
        BY <2>0, <3>2, <3>3, <3>4, <3>5, <3>6, <1>t, OneCall
  <2>2. CASE Save(c)
    <3>1. row' = Stored(c) /\ UNCHANGED discord
        BY <2>2 DEF Save
    <3>2. calls'[c] = Answered(c, calls[c].result) /\ (\A d \in Call \ {c} : calls'[d] = calls[d])
        BY <2>2, <1>t DEF Save, Answer, Become
    <3>3. row'.body = calls[c].body /\ row'.result = calls[c].result /\ row'.exact = calls[c].exact
        BY <3>1 DEF Stored
    <3>4. row' # NoRow
        BY <2>0, <3>1, <1>t, StoredType, RoleSyncAssumption
    <3>5. OneBody'
        BY <2>0, <3>2, <3>3, <1>a, <1>k, KeptBodies DEF Standing
    <3>6. RemovesOthers'
        BY <3>2, <1>a DEF Standing, RemovesOthers, InLock
    <3>7. calls[c].exact /\ calls[c].body.action = "assign" /\ calls[c].result \in Grants =>
              calls[c].body.day \in discord.roles
        BY <2>0, <2>2 DEF InRoles, AssignmentsOnTrack, OnTrack, Tells, Save, Grants
    <3>8. RowStands'
        BY <2>0, <3>1, <3>3, <3>7 DEF RowStands, IsNewest
    <3>9. ASSUME NEW d \in Call, Granted(d)', IsNewest(calls[d].body)'
          PROVE  row'.body = calls'[d].body /\ calls'[d].body.day \in discord'.roles
      <4>1. CASE d = c
        BY <3>1, <3>2, <3>3, <3>7, <3>9, <4>1, <1>a DEF Granted, Grants
      <4>2. CASE d # c
        <5>1. row # NoRow /\ row.body = calls[d].body /\ calls[d].body.day \in discord.roles
              /\ IsNewest(row.body)
            BY <2>0, <3>2, <3>9, <4>2 DEF Granted, IsNewest, Standing, GrantStands
        <5>2. calls[c].body = row.body
            BY <2>0, <5>1, NewestKept
        <5> QED
            BY <3>1, <3>2, <3>3, <4>2, <5>1, <5>2
      <4> QED
        BY <4>1, <4>2
    <3>10. GrantStands'
        BY <3>4, <3>9 DEF GrantStands
    <3> QED
        BY <3>5, <3>6, <3>8, <3>10 DEF Standing
  <2>3. CASE CallBreaks(c)
    <3> DEFINE cs == [calls EXCEPT ![c] = Answered(c, "error")]
    <3>1. PICK r \in {row} \cup (IF calls[c].pc = "saving" THEN {Stored(c)} ELSE {}) : Blur(cs, r)
        BY <2>3 DEF CallBreaks
    <3>2. r \in Row \cup {NoRow} /\ (r # NoRow => r.body \in Bodies)
        BY <2>0, <3>1, <1>t, <1>r, StoredType DEF Stored
    <3>3. Answered(c, "error") \in CallState
        BY <1>b DEF Answered, CallState, Result
    <3>4. cs \in [Call -> CallState]
        BY <3>3, <1>t
    <3>5. \A d \in Call : cs[d] = IF d = c THEN Answered(c, "error") ELSE calls[d]
        BY <1>t
    <3>6. calls[c].pc # "unsent"
        BY <2>0 DEF InLock
    <3> HIDE DEF cs
    <3> QED
        BY <2>0, <3>1, <3>2, <3>4, <3>5, <3>6, <1>a, BlurredStands DEF InLock
  <2> QED
    BY <1>4, <2>1, <2>2, <2>3 DEF Continue
<1>5. ASSUME NEW p \in Replica, Crash(p) PROVE Standing'
  <2> DEFINE cs == [c \in Call |->
               IF calls[c].replica = p /\ (InLock(c) \/ calls[c].pc = "waiting")
               THEN Answered(c, "error") ELSE calls[c]]
  <2>1. Blur(cs, row) /\ stamp' = stamp
    BY <1>5 DEF Crash
  <2>2. \A c \in Call : Answered(c, "error") \in CallState
    BY <1>b DEF Answered, CallState, Result
  <2>3. cs \in [Call -> CallState]
    BY <2>2, <1>b
  <2>4. \A d \in Call : \/ cs[d] = calls[d]
                        \/ calls[d].pc # "unsent" /\ cs[d] = Answered(d, "error")
    BY DEF InLock
  <2> HIDE DEF cs
  <2> QED
    BY <2>1, <2>3, <2>4, <1>a, <1>r, <1>t, BlurredStands DEF InLock
<1>6. CASE LeaveOrJoin
    BY <1>6, <1>r, <1>t, BlurredStands DEF LeaveOrJoin, InLock
<1>7. CASE CorruptRow
  <2>1. row' # NoRow /\ row'.body = row.body /\ row'.result = row.result /\ row'.exact = row.exact
    BY <1>7, <1>t, RoleSyncAssumption DEF CorruptRow, Row
  <2>2. UNCHANGED <<discord, calls, stamp>> /\ row # NoRow
    BY <1>7 DEF CorruptRow
  <2>3. OneBody'
    BY <2>1, <2>2, <1>k, <1>r, KeptBodies DEF Standing
  <2>4. RemovesOthers' /\ RowStands' /\ GrantStands'
    BY <2>1, <2>2 DEF Standing, RemovesOthers, RowStands, GrantStands, IsNewest, Granted, InLock
  <2> QED
    BY <2>3, <2>4 DEF Standing
<1>8. ASSUME UNCHANGED <<discord, calls, row, stamp>> PROVE Standing'
    BY <1>8 DEF Standing, OneBody, Bodies, RemovesOthers, RowStands, GrantStands, IsNewest,
       Granted, InLock
<1> QED
    BY <1>1, <1>2, <1>3, <1>4, <1>5, <1>6, <1>7, <1>8 DEF Next, vars, GatewayUpdate

\* With one process and two attack days, the newest assignment, once answered
\* as granted, stands: no older request that arrives late, no repeat, no
\* rejected one and no retry of an unreadable row takes its role away.
THEOREM GrantedStands == SingleReplica /\ TwoDays => (Spec => []LatestAssignmentStands)
<1> SUFFICES ASSUME SingleReplica, TwoDays PROVE Spec => []LatestAssignmentStands
    OBVIOUS
<1>1. Init => IInv /\ InRoles /\ Standing
    BY InitIInv, InitInRoles, InitStanding
<1>2. IInv /\ InRoles /\ Standing /\ [Next]_vars => IInv' /\ InRoles' /\ Standing'
    BY IInvStep, InRolesStep, StandingStep
<1>3. Standing => LatestAssignmentStands
    BY DEF Standing, GrantStands, LatestAssignmentStands, Granted, IsNewest
<1> QED
    BY <1>1, <1>2, <1>3, PTL DEF Spec
================================================================================
