------------------------------ MODULE AutoKick_proof ------------------------------
(***************************************************************************)
(* The rows of member_activity tell the truth, and the sweep kicks who     *)
(* deserves it, for any members, replicas, window and number of faults.    *)
(***************************************************************************)
EXTENDS AutoKick, TLAPS

JoinOf(m) == [kind |-> "join", member |-> m]
MessageOf(m) == [kind |-> "message", member |-> m]

\* An event still to be handled by somebody.
Waits(e) == \E p \in Replica : \E i \in DOMAIN events[p] : events[p][i] = e

\* After every event a of the queue q comes an event b.
Followed(q, a, b) ==
    \A i \in DOMAIN q : q[i] = a => \E j \in DOMAIN q : j > i /\ q[j] = b

\* Only a replica that is up has events.
OnlyUpIsTold == \A p \in Replica : events[p] # <<>> => Up(p)

StaysBegun == \A m \in Member : guild[m].since <= clock

\* A queue that still has the join of a stay has what came after it, too, and
\* one that has a message of an earlier stay has the join of the present one:
\* whoever was told the one was up to be told the other.
QueueGoesOn(m) ==
    guild[m].inside =>
        \A p \in Replica :
            /\ guild[m].spoke => Followed(events[p], JoinOf(m), MessageOf(m))
            /\ ~guild[m].spoke => Followed(events[p], MessageOf(m), JoinOf(m))

\* What a row has wrong, an event still to be handled will set right.
RowIsCorrected(m) ==
    m \notin missed /\ rows[m] # NoRow =>
        /\ guild[m].since <= rows[m].joined_at \/ Waits(JoinOf(m))
        /\ guild[m].inside /\ guild[m].spoke => rows[m].first_message \/ Waits(MessageOf(m))
        /\ guild[m].inside /\ ~guild[m].spoke => ~rows[m].first_message \/ Waits(JoinOf(m))

\* The sweep works on rows whose window has passed.
WindowHasPassed ==
    \A p \in Replica :
        /\ \A a \in sweep[p].todo : a.joined_at + Window <= clock
        /\ sweep[p].pc \in {"fetching", "messaging", "kicking", "kicked"} =>
             /\ sweep[p].cur \in Activity
             /\ sweep[p].cur.joined_at + Window <= clock

IInv ==
    /\ TypeOK
    /\ OnlyUpIsTold
    /\ StaysBegun
    /\ \A m \in Member : QueueGoesOn(m) /\ RowIsCorrected(m)
    /\ WindowHasPassed

--------------------------------------------------------------------------------
(* Types.                                                                  *)

Active == {"fetching", "messaging", "kicking", "kicked"}

LEMMA TypeFacts ==
    ASSUME TypeOK
    PROVE  /\ clock \in Nat
           /\ \A m \in Member : /\ guild[m] \in Guild
                                /\ guild[m].inside \in BOOLEAN
                                /\ guild[m].spoke \in BOOLEAN
                                /\ guild[m].since \in Nat
                                /\ rows[m] \in Row \cup {NoRow}
           /\ \A p \in Replica : /\ sweep[p] \in Sweep
                                 /\ sweep[p].todo \subseteq Activity
                                 /\ sweep[p].cur \in Activity \cup {NoJob}
                                 /\ events[p] \in Seq(Event)
                                 /\ cache[p] \subseteq Member
  BY DEF TypeOK, Guild, Sweep, Time

\* What a step of the sweep does to the sweeps.
LEMMA SweepMoves ==
    ASSUME TypeOK, NEW p \in Replica, SweepStep(p)
    PROVE  /\ sweep' \in [Replica -> Sweep]
           /\ \A r \in Replica \ {p} : sweep'[r] = sweep[r]
           /\ Up(p) /\ sweep'[p].pc # "down"
           /\ sweep'[p].todo \subseteq sweep[p].todo \cup list_stale
           /\ sweep'[p].pc \in Active =>
                \/ sweep[p].pc \in Active /\ sweep'[p].cur = sweep[p].cur
                \/ sweep'[p].cur \in sweep[p].todo
           /\ sweep[p].pc = "messaging" /\ sweep'[p].pc = "kicking" => Unchanged(sweep[p].cur)
  <1> DEFINE s == sweep[p]
             t == sweep'[p]
  <1>1. /\ s \in Sweep /\ s.todo \subseteq Activity /\ s.cur \in Activity \cup {NoJob}
        /\ sweep \in [Replica -> Sweep]
    BY TypeFacts DEF TypeOK
  <1>2. list_stale \subseteq Activity
    <2>1. SUFFICES ASSUME NEW m \in Member, Stale(m)
                   PROVE  [member |-> m, joined_at |-> rows[m].joined_at] \in Activity
      BY DEF list_stale
    <2>2. rows[m] \in Row
      BY <2>1, TypeFacts DEF Stale
    <2>3. QED
      BY <2>2 DEF Activity, Row
  <1>3. ASSUME NEW x \in Sweep, sweep' = [sweep EXCEPT ![p] = x]
        PROVE  /\ sweep' \in [Replica -> Sweep]
               /\ \A r \in Replica \ {p} : sweep'[r] = sweep[r]
               /\ t = x
    BY <1>1, <1>3
  <1>4. ASSUME NEW pc \in {"down", "sleeping", "next", "fetching", "messaging", "kicking", "kicked", "dead"},
               Become(p, pc)
        PROVE  /\ sweep' \in [Replica -> Sweep]
               /\ \A r \in Replica \ {p} : sweep'[r] = sweep[r]
               /\ t.pc = pc /\ t.todo = s.todo /\ t.cur = s.cur
    <2>1. [s EXCEPT !.pc = pc] \in Sweep
      BY <1>1 DEF Sweep
    <2>2. sweep' = [sweep EXCEPT ![p] = [s EXCEPT !.pc = pc]]
      BY <1>1, <1>4 DEF Become
    <2>3. /\ [s EXCEPT !.pc = pc].pc = pc
          /\ [s EXCEPT !.pc = pc].todo = s.todo
          /\ [s EXCEPT !.pc = pc].cur = s.cur
      BY <1>1 DEF Sweep
    <2>4. QED
      BY <1>3, <2>1, <2>2, <2>3
  <1>5. ASSUME NextMember(p)
        PROVE  /\ sweep' \in [Replica -> Sweep]
               /\ \A r \in Replica \ {p} : sweep'[r] = sweep[r]
               /\ t.pc = "next" /\ t.todo = s.todo
    <2>1. [s EXCEPT !.pc = "next", !.cur = NoJob] \in Sweep
      BY <1>1 DEF Sweep
    <2>2. sweep' = [sweep EXCEPT ![p] = [s EXCEPT !.pc = "next", !.cur = NoJob]]
      BY <1>1, <1>5 DEF NextMember
    <2>3. /\ [s EXCEPT !.pc = "next", !.cur = NoJob].pc = "next"
          /\ [s EXCEPT !.pc = "next", !.cur = NoJob].todo = s.todo
      BY <1>1 DEF Sweep
    <2>4. QED
      BY <1>3, <2>1, <2>2, <2>3
  <1>6. CASE BeginSweep(p)
    <2>1. [pc |-> "next", todo |-> list_stale, cur |-> NoJob] \in Sweep
      BY <1>2 DEF Sweep
    <2>2. QED
      BY <1>3, <1>6, <2>1 DEF BeginSweep, Up, Active
  <1>7. CASE EndSweep(p)
    BY <1>4, <1>7 DEF EndSweep, Up, Active
  <1>8. CASE Resolve(p)
    <2>1. PICK a \in s.todo :
            sweep' = [sweep EXCEPT ![p] =
                        [pc |-> IF a.member \in cache[p] THEN "messaging" ELSE "fetching",
                         todo |-> s.todo \ {a}, cur |-> a]]
      BY <1>1, <1>8 DEF Resolve
    <2>2. [pc |-> IF a.member \in cache[p] THEN "messaging" ELSE "fetching",
           todo |-> s.todo \ {a}, cur |-> a] \in Sweep
      BY <1>1 DEF Sweep
    <2>3. QED
      BY <1>3, <1>8, <2>1, <2>2 DEF Resolve, Up, Active
  <1>9. CASE Fetched(p)
    BY <1>4, <1>9 DEF Fetched, Up, Active
  <1>10. CASE FetchNotFound(p) \/ FetchFails(p)
    BY <1>5, <1>10 DEF FetchNotFound, FetchFails, Up, Active
  <1>11. CASE FetchRaises(p)
    <2>1. [pc |-> "dead", todo |-> {}, cur |-> NoJob] \in Sweep
      BY DEF Sweep
    <2>2. QED
      BY <1>3, <1>11, <2>1 DEF FetchRaises, Up, Active
  <1>12. CASE Messaged(p)
    <2>1. CASE Unchanged(s.cur)
      BY <1>4, <1>12, <2>1 DEF Messaged, Up, Active
    <2>2. CASE ~Unchanged(s.cur)
      BY <1>5, <1>12, <2>2 DEF Messaged, Up, Active
    <2>3. QED
      BY <2>1, <2>2
  <1>13. CASE KickLands(p)
    BY <1>4, <1>13 DEF KickLands, Up, Active
  <1>14. CASE KickAnswered(p)
    BY <1>5, <1>14 DEF KickAnswered, Up, Active
  <1>15. CASE KickGone(p)
    BY <1>5, <1>15 DEF KickGone, Up, Active
  <1>16. CASE KickRefused(p)
    BY <1>5, <1>16 DEF KickRefused, Up, Active
  <1>17. QED
    BY <1>6, <1>7, <1>8, <1>9, <1>10, <1>11, <1>12, <1>13, <1>14, <1>15, <1>16 DEF SweepStep

\* The steps of the sweep but for the kick itself change nothing that is told,
\* and rows only by deleting them.
LEMMA QuietSteps ==
    ASSUME TypeOK, NEW p \in Replica, SweepStep(p), ~KickLands(p)
    PROVE  /\ UNCHANGED <<clock, guild, events, cache, missed>>
           /\ rows' \in [Member -> Row \cup {NoRow}]
           /\ \A m \in Member : rows'[m] = rows[m] \/ rows'[m] = NoRow
           /\ faults' \in 0 .. MaxFaults
  <1>1. /\ rows \in [Member -> Row \cup {NoRow}]
        /\ faults \in 0 .. MaxFaults
    BY DEF TypeOK
  <1>2. faults' = faults \/ SpendFault => faults' \in 0 .. MaxFaults
    BY <1>1, AutoKickAssumption DEF SpendFault
  <1>3. ASSUME NEW m, rows' = [rows EXCEPT ![m] = NoRow]
        PROVE  /\ rows' \in [Member -> Row \cup {NoRow}]
               /\ \A n \in Member : rows'[n] = rows[n] \/ rows'[n] = NoRow
    BY <1>1, <1>3
  <1>4. ASSUME NEW m, Untrack(m)
        PROVE  /\ rows' \in [Member -> Row \cup {NoRow}]
               /\ \A n \in Member : rows'[n] = rows[n] \/ rows'[n] = NoRow
               /\ faults' \in 0 .. MaxFaults
    <2>1. CASE rows' = [rows EXCEPT ![m] = NoRow] /\ UNCHANGED faults
      BY <1>1, <1>3, <2>1
    <2>2. CASE SpendFault /\ UNCHANGED rows
      BY <1>1, <1>2, <2>2
    <2>3. QED
      BY <1>4, <2>1, <2>2 DEF Untrack
  <1>5. CASE BeginSweep(p) \/ EndSweep(p) \/ Resolve(p) \/ Fetched(p) \/ FetchFails(p)
               \/ FetchRaises(p) \/ Messaged(p)
    BY <1>1, <1>2, <1>5 DEF BeginSweep, EndSweep, Resolve, Fetched, FetchFails, FetchRaises, Messaged
  <1>6. CASE FetchNotFound(p) \/ KickAnswered(p) \/ KickGone(p)
    BY <1>4, <1>6 DEF FetchNotFound, KickAnswered, KickGone
  <1>7. CASE KickRefused(p)
    BY <1>1, <1>2, <1>3, <1>7 DEF KickRefused
  <1>8. QED
    BY <1>5, <1>6, <1>7 DEF SweepStep

--------------------------------------------------------------------------------
(* Queues.                                                                 *)

LEMMA AppendIsSeq ==
    ASSUME NEW q \in Seq(Event), NEW e \in Event
    PROVE  Append(q, e) \in Seq(Event)
  OBVIOUS

\* Telling everybody appends one event; nobody hears of it only if missed.
LEMMA Told ==
    ASSUME TypeOK, OnlyUpIsTold, NEW m \in Member,
           NEW kind \in {"join", "leave", "message"}, Tell(kind, m),
           NEW e, e = [kind |-> kind, member |-> m]
    PROVE  /\ events' \in [Replica -> Seq(Event)]
           /\ missed' \subseteq Member /\ missed \subseteq missed'
           /\ \A p \in Replica : IF Up(p) THEN events'[p] = Append(events[p], e)
                                          ELSE events'[p] = <<>>
           /\ m \notin missed' => Waits(e)'
           /\ \A d : Waits(d) => Waits(d)'
  <1>1. e \in Event
    BY DEF Event
  <1>2. \A p \in Replica : events[p] \in Seq(Event)
    BY TypeFacts
  <1>3. \A p \in Replica : events'[p] = IF Up(p) THEN Append(events[p], e) ELSE events[p]
    BY DEF Tell
  <1>4. \A p \in Replica : events'[p] \in Seq(Event)
    <2>1. \A p \in Replica : Append(events[p], e) \in Seq(Event)
      BY <1>1, <1>2, AppendIsSeq
    <2>2. QED
      BY <1>2, <1>3, <2>1
  <1>5. \A p \in Replica : IF Up(p) THEN events'[p] = Append(events[p], e)
                                    ELSE events'[p] = <<>>
    BY <1>3 DEF OnlyUpIsTold
  <1>6. m \notin missed' => Waits(e)'
    <2>1. SUFFICES ASSUME NEW p \in Replica, Up(p)
                   PROVE  Waits(e)'
      BY DEF Tell
    <2>2. /\ Len(events[p]) + 1 \in DOMAIN events'[p]
          /\ events'[p][Len(events[p]) + 1] = e
      BY <1>1, <1>2, <1>5, <2>1
    <2>3. QED
      BY <2>2 DEF Waits
  <1>7. ASSUME NEW d, Waits(d)
        PROVE  Waits(d)'
    <2>1. PICK p \in Replica : \E i \in DOMAIN events[p] : events[p][i] = d
      BY <1>7 DEF Waits
    <2>2. PICK i \in DOMAIN events[p] : events[p][i] = d
      BY <2>1
    <2>3. events[p] # <<>>
      BY <1>2, <2>2
    <2>4. Up(p)
      BY <2>3 DEF OnlyUpIsTold
    <2>5. i \in DOMAIN events'[p] /\ events'[p][i] = d
      BY <1>1, <1>2, <1>5, <2>2, <2>4
    <2>6. QED
      BY <2>5 DEF Waits
  <1>8. events' \in [Replica -> Seq(Event)]
    BY <1>4 DEF Tell
  <1>9. missed' \subseteq Member /\ missed \subseteq missed'
    BY DEF Tell, TypeOK
  <1>10. QED
    BY <1>5, <1>6, <1>7, <1>8, <1>9

LEMMA FollowedByLast ==
    ASSUME NEW q \in Seq(Event), NEW a, NEW b \in Event, a # b
    PROVE  Followed(Append(q, b), a, b)
  <1>1. SUFFICES ASSUME NEW i \in DOMAIN Append(q, b), Append(q, b)[i] = a
                 PROVE  \E j \in DOMAIN Append(q, b) : j > i /\ Append(q, b)[j] = b
    BY DEF Followed
  <1>2. /\ Len(q) + 1 \in DOMAIN Append(q, b)
        /\ Append(q, b)[Len(q) + 1] = b
        /\ Len(q) + 1 > i
    BY <1>1
  <1>3. QED
    BY <1>2

LEMMA FollowedStill ==
    ASSUME NEW q \in Seq(Event), NEW a, NEW b, NEW c \in Event, c # a, Followed(q, a, b)
    PROVE  Followed(Append(q, c), a, b)
  <1>1. SUFFICES ASSUME NEW i \in DOMAIN Append(q, c), Append(q, c)[i] = a
                 PROVE  \E j \in DOMAIN Append(q, c) : j > i /\ Append(q, c)[j] = b
    BY DEF Followed
  <1>2. i \in DOMAIN q /\ q[i] = a
    BY <1>1
  <1>3. PICK j \in DOMAIN q : j > i /\ q[j] = b
    BY <1>2 DEF Followed
  <1>4. j \in DOMAIN Append(q, c) /\ Append(q, c)[j] = b
    BY <1>3
  <1>5. QED
    BY <1>3, <1>4

LEMMA FollowedInTail ==
    ASSUME NEW q \in Seq(Event), q # <<>>, NEW a, NEW b, Followed(q, a, b)
    PROVE  /\ Followed(Tail(q), a, b)
           /\ Head(q) = a => \E i \in DOMAIN Tail(q) : Tail(q)[i] = b
  <1>1. /\ Tail(q) \in Seq(Event)
        /\ \A i \in DOMAIN Tail(q) : i \in Nat \ {0} /\ i + 1 \in DOMAIN q /\ Tail(q)[i] = q[i + 1]
        /\ \A j \in DOMAIN q : j > 1 => j - 1 \in DOMAIN Tail(q) /\ Tail(q)[j - 1] = q[j]
        /\ 1 \in DOMAIN q /\ Head(q) = q[1]
        /\ DOMAIN q \subseteq Nat
    OBVIOUS
  <1>2. ASSUME NEW i \in DOMAIN Tail(q), Tail(q)[i] = a
        PROVE  \E j \in DOMAIN Tail(q) : j > i /\ Tail(q)[j] = b
    <2>1. PICK j \in DOMAIN q : j > i + 1 /\ q[j] = b
      BY <1>1, <1>2 DEF Followed
    <2>2. /\ j - 1 \in DOMAIN Tail(q) /\ Tail(q)[j - 1] = b
          /\ j - 1 > i
      BY <1>1, <1>2, <2>1
    <2>3. QED
      BY <2>2
  <1>3. ASSUME Head(q) = a
        PROVE  \E i \in DOMAIN Tail(q) : Tail(q)[i] = b
    <2>1. PICK j \in DOMAIN q : j > 1 /\ q[j] = b
      BY <1>1, <1>3 DEF Followed
    <2>2. QED
      BY <1>1, <2>1
  <1>4. QED
    BY <1>2, <1>3 DEF Followed

\* A replica handles the first event of its queue.
LEMMA Handled ==
    ASSUME TypeOK, NEW p \in Replica, events[p] # <<>>,
           events' = [events EXCEPT ![p] = Tail(@)]
    PROVE  /\ events' \in [Replica -> Seq(Event)]
           /\ events'[p] = Tail(events[p])
           /\ \A r \in Replica \ {p} : events'[r] = events[r]
           /\ \A d : Waits(d) => Waits(d)' \/ d = Head(events[p])
  <1>1. \A r \in Replica : events[r] \in Seq(Event)
    BY TypeFacts
  <1>2. /\ events'[p] = Tail(events[p])
        /\ \A r \in Replica \ {p} : events'[r] = events[r]
        /\ events' \in [Replica -> Seq(Event)]
    BY <1>1 DEF TypeOK
  <1>3. ASSUME NEW d, Waits(d), d # Head(events[p])
        PROVE  Waits(d)'
    <2>1. PICK r \in Replica : \E i \in DOMAIN events[r] : events[r][i] = d
      BY <1>3 DEF Waits
    <2>2. PICK i \in DOMAIN events[r] : events[r][i] = d
      BY <2>1
    <2>3. CASE r # p
      BY <1>2, <2>2, <2>3 DEF Waits
    <2>4. CASE r = p
      <3>1. i \in 1 .. Len(events[p]) /\ i # 1
        BY <1>1, <1>3, <2>2, <2>4
      <3>2. i - 1 \in DOMAIN Tail(events[p]) /\ Tail(events[p])[i - 1] = d
        BY <1>1, <2>2, <2>4, <3>1
      <3>3. QED
        BY <1>2, <3>2 DEF Waits
    <2>5. QED
      BY <2>3, <2>4
  <1>4. QED
    BY <1>2, <1>3

--------------------------------------------------------------------------------
(* The steps.                                                              *)

LEMMA InitHolds == Init => IInv
  <1>1. SUFFICES ASSUME Init
                 PROVE  IInv
    OBVIOUS
  <1>2. /\ \A p \in Replica : events[p] = <<>> /\ sweep[p] = Asleep
        /\ \A m \in Member : guild[m].since = 0 /\ ~guild[m].inside
    BY <1>1 DEF Init
  <1>3. TypeOK
    <2>1. 0 \in Time /\ 0 \in 0 .. MaxStays /\ 0 \in 0 .. MaxFaults
      BY AutoKickAssumption DEF Time
    <2>2. guild \in [Member -> Guild]
      <3>1. \A n \in {0, MaxStays} :
               [inside |-> FALSE, stays |-> n, since |-> 0, spoke |-> FALSE] \in Guild
        BY <2>1, AutoKickAssumption DEF Guild
      <3>2. QED
        BY <1>1, <3>1 DEF Init
    <2>3. Asleep \in Sweep
      BY DEF Asleep, Sweep
    <2>4. events \in [Replica -> Seq(Event)]
      BY <1>1 DEF Init
    <2>5. rows \in [Member -> Row \cup {NoRow}]
      <3>1. [joined_at |-> 0, first_message |-> FALSE] \in Row
        BY <2>1 DEF Row
      <3>2. QED
        BY <1>1, <3>1 DEF Init
    <2>6. cache \in [Replica -> SUBSET Member] /\ sweep \in [Replica -> Sweep]
      BY <1>1, <2>3 DEF Init
    <2>7. QED
      BY <1>1, <2>1, <2>2, <2>4, <2>5, <2>6 DEF Init, TypeOK
  <1>4. OnlyUpIsTold
    BY <1>2 DEF OnlyUpIsTold
  <1>5. StaysBegun
    <2>1. clock = 0
      BY <1>1 DEF Init
    <2>2. ASSUME NEW m \in Member
          PROVE  guild[m].since <= clock
      <3>1. guild[m].since = 0
        BY <1>2
      <3>2. QED
        BY <2>1, <3>1
    <2>3. QED
      BY <2>2 DEF StaysBegun
  <1>6. \A m \in Member : QueueGoesOn(m)
    BY <1>2 DEF QueueGoesOn
  <1>7. \A m \in Member : RowIsCorrected(m)
    BY <1>1 DEF Init, RowIsCorrected
  <1>8. WindowHasPassed
    BY <1>2 DEF WindowHasPassed, Asleep
  <1>9. QED
    BY <1>3, <1>4, <1>5, <1>6, <1>7, <1>8 DEF IInv

\* Telling of something else than a leaves what was promised to follow a.
LEMMA QueuesAfterTelling ==
    ASSUME TypeOK, OnlyUpIsTold, NEW m \in Member,
           NEW kind \in {"join", "leave", "message"}, Tell(kind, m),
           NEW p \in Replica, NEW a, NEW b,
           Followed(events[p], a, b), a # [kind |-> kind, member |-> m]
    PROVE  Followed(events'[p], a, b)
  <1> DEFINE e == [kind |-> kind, member |-> m]
  <1>1. e \in Event /\ events[p] \in Seq(Event)
    BY TypeFacts DEF Event
  <1>2. IF Up(p) THEN events'[p] = Append(events[p], e) ELSE events'[p] = <<>>
    BY Told
  <1>3. Followed(<<>>, a, b)
    BY DEF Followed
  <1>4. Followed(Append(events[p], e), a, b)
    <2> HIDE DEF e
    <2>1. e # a
      BY DEF e
    <2>2. QED
      BY <1>1, <2>1, FollowedStill
  <1>5. QED
    BY <1>2, <1>3, <1>4

\* What is told of m, and what becomes of m, touches nobody else, and nothing
\* but the guild, the queues and the history.
LEMMA AfterTelling ==
    ASSUME IInv, NEW m \in Member, NEW kind \in {"join", "leave", "message"}, Tell(kind, m),
           guild' \in [Member -> Guild], \A n \in Member \ {m} : guild'[n] = guild[n],
           guild'[m].since <= clock,
           UNCHANGED <<clock, cache, rows, faults>>, sweep' \in [Replica -> Sweep],
           \A p \in Replica : Up(p)' = Up(p),
           WindowHasPassed', QueueGoesOn(m)', RowIsCorrected(m)'
    PROVE  IInv'
  <1> DEFINE e == [kind |-> kind, member |-> m]
  <1>1. /\ TypeOK /\ OnlyUpIsTold /\ StaysBegun /\ WindowHasPassed
        /\ \A n \in Member : QueueGoesOn(n) /\ RowIsCorrected(n)
    BY DEF IInv
  <1>2. /\ events' \in [Replica -> Seq(Event)]
        /\ missed' \subseteq Member /\ missed \subseteq missed'
        /\ \A p \in Replica : IF Up(p) THEN events'[p] = Append(events[p], e)
                                       ELSE events'[p] = <<>>
        /\ \A d : Waits(d) => Waits(d)'
    BY <1>1, Told
  <1> HIDE DEF e
  <1>3. TypeOK'
    BY <1>1, <1>2 DEF TypeOK
  <1>4. OnlyUpIsTold'
    BY <1>1, <1>2 DEF OnlyUpIsTold
  <1>5. StaysBegun'
    <2>1. ASSUME NEW n \in Member
          PROVE  guild'[n].since <= clock'
      BY <1>1 DEF StaysBegun
    <2>2. QED
      BY <2>1 DEF StaysBegun
  <1>6. ASSUME NEW n \in Member \ {m}
        PROVE  QueueGoesOn(n)'
    <2>1. JoinOf(n) # [kind |-> kind, member |-> m] /\ MessageOf(n) # [kind |-> kind, member |-> m]
      BY DEF JoinOf, MessageOf
    <2>2. SUFFICES ASSUME NEW p \in Replica, guild[n].inside
                   PROVE  /\ guild[n].spoke => Followed(events'[p], JoinOf(n), MessageOf(n))
                          /\ ~guild[n].spoke => Followed(events'[p], MessageOf(n), JoinOf(n))
      BY DEF QueueGoesOn
    <2>3. /\ guild[n].spoke => Followed(events[p], JoinOf(n), MessageOf(n))
          /\ ~guild[n].spoke => Followed(events[p], MessageOf(n), JoinOf(n))
      BY <1>1, <2>2 DEF QueueGoesOn
    <2>4. QED
      BY <1>1, <2>1, <2>3, QueuesAfterTelling
  <1>7. ASSUME NEW n \in Member \ {m}
        PROVE  RowIsCorrected(n)'
    <2>1. RowIsCorrected(n) /\ guild'[n] = guild[n]
      BY <1>1
    <2>2. /\ Waits(JoinOf(n)) => Waits(JoinOf(n))'
          /\ Waits(MessageOf(n)) => Waits(MessageOf(n))'
          /\ n \notin missed' => n \notin missed
      BY <1>2
    <2>3. QED
      BY <2>1, <2>2 DEF RowIsCorrected
  <1>8. QED
    BY <1>3, <1>4, <1>5, <1>6, <1>7 DEF IInv

LEMMA JoinStep ==
    ASSUME IInv, NEW m \in Member, Join(m)
    PROVE  IInv'
  <1> DEFINE g == [inside |-> TRUE, stays |-> guild[m].stays + 1, since |-> clock, spoke |-> FALSE]
  <1>1. /\ TypeOK /\ OnlyUpIsTold /\ WindowHasPassed
        /\ Tell("join", m)
        /\ UNCHANGED <<clock, cache, rows, sweep, faults>>
    BY DEF IInv, Join
  <1>2. /\ guild' \in [Member -> Guild]
        /\ guild'[m] = g
        /\ \A n \in Member \ {m} : guild'[n] = guild[n]
    <2>1. g \in Guild
      <3>1. guild[m] \in Guild /\ guild[m].stays < MaxStays
        BY <1>1, TypeFacts DEF Join
      <3>2. guild[m].stays + 1 \in 0 .. MaxStays
        BY <3>1, AutoKickAssumption DEF Guild
      <3>3. QED
        BY <1>1, <3>2 DEF Guild, TypeOK
    <2>2. guild' = [guild EXCEPT ![m] = g]
      BY <1>1 DEF Join, TypeOK
    <2>3. QED
      BY <1>1, <2>1, <2>2 DEF TypeOK
  <1>3. ~guild'[m].spoke /\ guild'[m].since = clock
    BY <1>2
  <1> HIDE DEF g
  <1>4. /\ \A p \in Replica : IF Up(p) THEN events'[p] = Append(events[p], JoinOf(m))
                                       ELSE events'[p] = <<>>
        /\ m \notin missed' => Waits(JoinOf(m))'
    BY <1>1, Told DEF JoinOf
  <1>5. QueueGoesOn(m)'
    <2>1. ASSUME NEW p \in Replica
          PROVE  Followed(events'[p], MessageOf(m), JoinOf(m))
      <3>1. JoinOf(m) \in Event /\ MessageOf(m) # JoinOf(m) /\ events[p] \in Seq(Event)
        BY <1>1, TypeFacts DEF JoinOf, MessageOf, Event
      <3>2. Followed(Append(events[p], JoinOf(m)), MessageOf(m), JoinOf(m))
        BY <3>1, FollowedByLast
      <3>3. Followed(<<>>, MessageOf(m), JoinOf(m))
        BY DEF Followed
      <3>4. QED
        BY <1>4, <3>2, <3>3
    <2>2. QED
      BY <1>3, <2>1 DEF QueueGoesOn
  <1>6. RowIsCorrected(m)'
    BY <1>3, <1>4 DEF RowIsCorrected
  <1>7. WindowHasPassed'
    BY <1>1 DEF WindowHasPassed
  <1>8. /\ guild'[m].since <= clock
        /\ sweep' \in [Replica -> Sweep]
        /\ \A p \in Replica : Up(p)' = Up(p)
    BY <1>1, <1>3, TypeFacts DEF TypeOK, Up
  <1>9. QED
    BY <1>1, <1>2, <1>5, <1>6, <1>7, <1>8, AfterTelling

\* Once outside, a member's row need only not be older than the stay.
LEMMA OutsideStep ==
    ASSUME IInv, NEW m \in Member, guild' = [guild EXCEPT ![m].inside = FALSE], Tell("leave", m),
           UNCHANGED <<clock, cache, rows, faults>>, sweep' \in [Replica -> Sweep],
           \A p \in Replica : Up(p)' = Up(p), WindowHasPassed'
    PROVE  IInv'
  <1> DEFINE g == [guild[m] EXCEPT !.inside = FALSE]
  <1>1. /\ TypeOK /\ OnlyUpIsTold /\ StaysBegun /\ RowIsCorrected(m)
    BY DEF IInv
  <1>2. g \in Guild /\ g.since = guild[m].since /\ ~g.inside
    <2>1. guild[m] \in Guild
      BY <1>1, TypeFacts
    <2>2. QED
      BY <2>1 DEF Guild
  <1>3. guild' = [guild EXCEPT ![m] = g]
    BY <1>1 DEF TypeOK
  <1> HIDE DEF g
  <1>4. /\ guild' \in [Member -> Guild]
        /\ guild'[m] = g
        /\ \A n \in Member \ {m} : guild'[n] = guild[n]
    BY <1>1, <1>2, <1>3 DEF TypeOK
  <1>5. QueueGoesOn(m)'
    BY <1>2, <1>4 DEF QueueGoesOn
  <1>6. RowIsCorrected(m)'
    <2>1. /\ Waits(JoinOf(m)) => Waits(JoinOf(m))'
          /\ m \notin missed' => m \notin missed
      BY <1>1, Told
    <2>2. QED
      BY <1>1, <1>2, <1>4, <2>1 DEF RowIsCorrected
  <1>7. guild'[m].since <= clock
    BY <1>1, <1>2, <1>4 DEF StaysBegun
  <1>8. QED
    BY <1>4, <1>5, <1>6, <1>7, AfterTelling

LEMMA LeaveStep ==
    ASSUME IInv, NEW m \in Member, Leave(m)
    PROVE  IInv'
  <1>1. WindowHasPassed'
    BY DEF IInv, WindowHasPassed, Leave
  <1>2. sweep' \in [Replica -> Sweep] /\ \A p \in Replica : Up(p)' = Up(p)
    BY DEF IInv, TypeOK, Leave, Up
  <1>3. /\ guild' = [guild EXCEPT ![m].inside = FALSE] /\ Tell("leave", m)
        /\ UNCHANGED <<clock, cache, rows, faults>>
    BY DEF Leave
  <1>4. QED
    BY <1>1, <1>2, <1>3, OutsideStep

LEMMA WriteStep ==
    ASSUME IInv, NEW m \in Member, Write(m)
    PROVE  IInv'
  <1> DEFINE g == [guild[m] EXCEPT !.spoke = TRUE]
  <1>1. /\ TypeOK /\ OnlyUpIsTold /\ StaysBegun /\ RowIsCorrected(m) /\ WindowHasPassed
        /\ Tell("message", m)
        /\ UNCHANGED <<clock, cache, rows, sweep, faults>>
    BY DEF IInv, Write
  <1>2. g \in Guild /\ g.since = guild[m].since /\ g.spoke
    <2>1. guild[m] \in Guild
      BY <1>1, TypeFacts
    <2>2. QED
      BY <2>1 DEF Guild
  <1>3. guild' = [guild EXCEPT ![m] = g]
    BY <1>1 DEF TypeOK, Write
  <1> HIDE DEF g
  <1>4. /\ guild' \in [Member -> Guild]
        /\ guild'[m] = g
        /\ \A n \in Member \ {m} : guild'[n] = guild[n]
    BY <1>1, <1>2, <1>3 DEF TypeOK
  <1>5. /\ \A p \in Replica : IF Up(p) THEN events'[p] = Append(events[p], MessageOf(m))
                                       ELSE events'[p] = <<>>
        /\ m \notin missed' => Waits(MessageOf(m))'
        /\ Waits(JoinOf(m)) => Waits(JoinOf(m))'
        /\ m \notin missed' => m \notin missed
    BY <1>1, Told DEF MessageOf
  <1>6. QueueGoesOn(m)'
    <2>1. ASSUME NEW p \in Replica
          PROVE  Followed(events'[p], JoinOf(m), MessageOf(m))
      <3>1. MessageOf(m) \in Event /\ MessageOf(m) # JoinOf(m) /\ events[p] \in Seq(Event)
        BY <1>1, TypeFacts DEF JoinOf, MessageOf, Event
      <3>2. Followed(Append(events[p], MessageOf(m)), JoinOf(m), MessageOf(m))
        BY <3>1, FollowedByLast
      <3>3. Followed(<<>>, JoinOf(m), MessageOf(m))
        BY DEF Followed
      <3>4. QED
        BY <1>5, <3>2, <3>3
    <2>2. QED
      BY <1>2, <1>4, <2>1 DEF QueueGoesOn
  <1>7. RowIsCorrected(m)'
    BY <1>1, <1>2, <1>4, <1>5 DEF RowIsCorrected
  <1>8. WindowHasPassed'
    BY <1>1 DEF WindowHasPassed
  <1>9. /\ guild'[m].since <= clock
        /\ sweep' \in [Replica -> Sweep]
        /\ \A p \in Replica : Up(p)' = Up(p)
    BY <1>1, <1>2, <1>4 DEF StaysBegun, TypeOK, Up
  <1>10. QED
    BY <1>1, <1>4, <1>6, <1>7, <1>8, <1>9, AfterTelling

\* Rows whose window has passed stay such, and new ones are listed as such.
LEMMA WindowStillPassed ==
    ASSUME IInv, NEW p \in Replica, SweepStep(p), UNCHANGED clock
    PROVE  WindowHasPassed'
  <1>1. TypeOK /\ WindowHasPassed /\ clock \in Nat /\ Window \in Nat
    BY TypeFacts, AutoKickAssumption DEF IInv
  <1>2. \A a \in list_stale : a.joined_at + Window <= clock
    BY DEF list_stale, Stale
  <1>3. /\ \A r \in Replica \ {p} : sweep'[r] = sweep[r]
        /\ sweep'[p].todo \subseteq sweep[p].todo \cup list_stale
        /\ sweep'[p].pc \in Active =>
             \/ sweep[p].pc \in Active /\ sweep'[p].cur = sweep[p].cur
             \/ sweep'[p].cur \in sweep[p].todo
        /\ sweep[p].todo \subseteq Activity
    BY <1>1, SweepMoves, TypeFacts
  <1>4. ASSUME NEW r \in Replica
        PROVE  /\ \A a \in sweep'[r].todo : a.joined_at + Window <= clock
               /\ sweep'[r].pc \in Active =>
                    sweep'[r].cur \in Activity /\ sweep'[r].cur.joined_at + Window <= clock
    <2>1. CASE r # p
      BY <1>1, <1>3, <2>1 DEF WindowHasPassed, Active
    <2>2. CASE r = p
      BY <1>1, <1>2, <1>3, <2>2 DEF WindowHasPassed, Active
    <2>3. QED
      BY <2>1, <2>2
  <1>5. QED
    BY <1>4 DEF WindowHasPassed, Active

LEMMA SweepStepKeeps ==
    ASSUME IInv, NEW p \in Replica, SweepStep(p)
    PROVE  IInv'
  <1>1. /\ TypeOK /\ OnlyUpIsTold /\ StaysBegun
        /\ \A m \in Member : QueueGoesOn(m) /\ RowIsCorrected(m)
    BY DEF IInv
  <1>2. /\ sweep' \in [Replica -> Sweep]
        /\ \A r \in Replica : Up(r)' = Up(r)
    BY <1>1, SweepMoves DEF Up
  <1>3. CASE KickLands(p)
    <2>1. sweep[p].cur \in Activity
      BY <1>3 DEF IInv, WindowHasPassed, KickLands
    <2>2. sweep[p].cur.member \in Member
      BY <2>1 DEF Activity
    <2>3. /\ guild' = [guild EXCEPT ![sweep[p].cur.member].inside = FALSE]
          /\ Tell("leave", sweep[p].cur.member)
          /\ UNCHANGED <<clock, cache, rows, faults>>
      BY <1>3 DEF KickLands
    <2>4. WindowHasPassed'
      BY <2>3, WindowStillPassed
    <2>5. QED
      BY <1>2, <2>2, <2>3, <2>4, OutsideStep
  <1>4. CASE ~KickLands(p)
    <2>1. /\ UNCHANGED <<clock, guild, events, cache, missed>>
          /\ rows' \in [Member -> Row \cup {NoRow}]
          /\ \A m \in Member : rows'[m] = rows[m] \/ rows'[m] = NoRow
          /\ faults' \in 0 .. MaxFaults
      BY <1>1, <1>4, QuietSteps
    <2>2. TypeOK'
      BY <1>1, <1>2, <2>1 DEF TypeOK
    <2>3. OnlyUpIsTold'
      BY <1>1, <1>2, <2>1 DEF OnlyUpIsTold
    <2>4. StaysBegun'
      BY <1>1, <2>1 DEF StaysBegun
    <2>5. ASSUME NEW m \in Member
          PROVE  QueueGoesOn(m)' /\ RowIsCorrected(m)'
      <3>1. QueueGoesOn(m)'
        BY <1>1, <2>1 DEF QueueGoesOn
      <3>2. /\ Waits(JoinOf(m)) => Waits(JoinOf(m))'
            /\ Waits(MessageOf(m)) => Waits(MessageOf(m))'
        BY <2>1 DEF Waits
      <3>3. RowIsCorrected(m)'
        BY <1>1, <2>1, <3>2 DEF RowIsCorrected
      <3>4. QED
        BY <3>1, <3>3
    <2>6. WindowHasPassed'
      BY <2>1, WindowStillPassed
    <2>7. QED
      BY <2>2, <2>3, <2>4, <2>5, <2>6 DEF IInv
  <1>5. QED
    BY <1>3, <1>4

LEMMA HandleEventStep ==
    ASSUME IInv, NEW p \in Replica, HandleEvent(p)
    PROVE  IInv'
  <1>1. /\ TypeOK /\ OnlyUpIsTold /\ StaysBegun /\ WindowHasPassed
        /\ \A m \in Member : QueueGoesOn(m) /\ RowIsCorrected(m)
        /\ events[p] # <<>> /\ events[p] \in Seq(Event)
        /\ UNCHANGED <<clock, guild, sweep>>
    BY TypeFacts DEF IInv, HandleEvent
  <1>0. PICK e \in Event : e = Head(events[p])
    <2>1. Head(events[p]) \in Event
      BY <1>1
    <2>2. QED
      BY <2>1
  <1> DEFINE n == e.member
  <1>2. e \in Event /\ n \in Member /\ e = [kind |-> e.kind, member |-> n]
        /\ e.kind \in {"join", "leave", "message"}
    BY DEF Event
  <1>3. /\ events' \in [Replica -> Seq(Event)]
        /\ events'[p] = Tail(events[p])
        /\ \A r \in Replica \ {p} : events'[r] = events[r]
        /\ \A d : Waits(d) => Waits(d)' \/ d = e
    BY <1>1, <1>0, Handled DEF HandleEvent
  <1>4. cache' \in [Replica -> SUBSET Member]
    <2>1. \A x \in SUBSET Member : [cache EXCEPT ![p] = x] \in [Replica -> SUBSET Member]
      BY <1>1 DEF TypeOK
    <2>2. cache[p] \cup {n} \in SUBSET Member /\ cache[p] \ {n} \in SUBSET Member /\ cache[p] \in SUBSET Member
      BY <1>1, <1>2, TypeFacts
    <2>3. cache' = [cache EXCEPT ![p] = CASE e.kind = "join"  -> cache[p] \cup {n}
                                          [] e.kind = "leave" -> cache[p] \ {n}
                                          [] OTHER            -> cache[p]]
      BY <1>0, <1>1 DEF HandleEvent, TypeOK
    <2> HIDE DEF n
    <2>4. QED
      BY <1>2, <2>1, <2>2, <2>3
  <1>5. \/ /\ rows' = [rows EXCEPT ![n] = CASE e.kind = "join"    -> record_join(n)
                                            [] e.kind = "message" -> record_first_message(n)
                                            [] OTHER              -> rows[n]]
           /\ UNCHANGED <<missed, faults>>
        \/ /\ SpendFault
           /\ missed' = missed \cup {n}
           /\ UNCHANGED rows
    BY <1>0, <1>1, <1>2 DEF HandleEvent, TypeOK
  <1> HIDE DEF n
  <1>6. record_join(n) \in Row /\ record_first_message(n) \in Row \cup {NoRow}
    <2>1. rows[n] \in Row \cup {NoRow} /\ clock \in Time
      BY <1>1, <1>2, TypeFacts DEF TypeOK
    <2>2. QED
      BY <2>1 DEF record_join, record_first_message, Row
  <1>7. /\ rows' \in [Member -> Row \cup {NoRow}]
        /\ \A m \in Member \ {n} : rows'[m] = rows[m]
        /\ missed' \subseteq Member /\ missed \subseteq missed'
        /\ faults' \in 0 .. MaxFaults
        /\ n \notin missed' => rows'[n] = CASE e.kind = "join"    -> record_join(n)
                                            [] e.kind = "message" -> record_first_message(n)
                                            [] OTHER              -> rows[n]
    <2>1. rows[n] \in Row \cup {NoRow}
      BY <1>1, <1>2, TypeFacts
    <2>2. CASE /\ rows' = [rows EXCEPT ![n] = CASE e.kind = "join"    -> record_join(n)
                                                [] e.kind = "message" -> record_first_message(n)
                                                [] OTHER              -> rows[n]]
               /\ UNCHANGED <<missed, faults>>
      BY <1>1, <1>2, <1>6, <2>1, <2>2 DEF TypeOK
    <2>3. CASE SpendFault /\ missed' = missed \cup {n} /\ UNCHANGED rows
      BY <1>1, <1>2, <2>3, AutoKickAssumption DEF SpendFault, TypeOK
    <2>4. QED
      BY <1>5, <2>2, <2>3
  <1>8. TypeOK'
    BY <1>1, <1>3, <1>4, <1>7 DEF TypeOK
  <1>9. OnlyUpIsTold'
    <2>1. \A r \in Replica : events'[r] # <<>> => events[r] # <<>>
      BY <1>1, <1>3
    <2>2. QED
      BY <1>1, <2>1 DEF OnlyUpIsTold, Up
  <1>10. StaysBegun'
    BY <1>1 DEF StaysBegun
  <1>11. ASSUME NEW m \in Member
         PROVE  QueueGoesOn(m)'
    <2>1. \A a, b : Followed(events[p], a, b) => Followed(events'[p], a, b)
      BY <1>1, <1>3, FollowedInTail
    <2>2. ASSUME NEW r \in Replica, NEW a, NEW b, Followed(events[r], a, b)
          PROVE  Followed(events'[r], a, b)
      BY <1>3, <2>1, <2>2
    <2>3. QED
      BY <1>1, <2>2 DEF QueueGoesOn
  <1>12. ASSUME NEW m \in Member, m # n
         PROVE  RowIsCorrected(m)'
    <2>1. JoinOf(m) # e /\ MessageOf(m) # e
      BY <1>2, <1>12 DEF JoinOf, MessageOf
    <2>2. /\ Waits(JoinOf(m)) => Waits(JoinOf(m))'
          /\ Waits(MessageOf(m)) => Waits(MessageOf(m))'
          /\ rows'[m] = rows[m]
          /\ m \notin missed' => m \notin missed
      BY <1>3, <1>7, <1>12, <2>1
    <2>3. QED
      BY <1>1, <2>2 DEF RowIsCorrected
  <1>13. RowIsCorrected(n)'
    <2>1. SUFFICES ASSUME n \notin missed', rows'[n] # NoRow
                   PROVE  RowIsCorrected(n)'
      BY DEF RowIsCorrected
    <2>2. n \notin missed /\ RowIsCorrected(n) /\ QueueGoesOn(n) /\ guild'[n] = guild[n]
          /\ guild[n].since <= clock /\ guild[n].spoke \in BOOLEAN
      BY <1>1, <1>2, <1>7, <2>1, TypeFacts DEF StaysBegun
    <2>3. CASE e.kind = "join"
      <3>1. e = JoinOf(n) /\ rows'[n] = [joined_at |-> clock, first_message |-> FALSE]
        BY <1>2, <1>7, <2>1, <2>3 DEF JoinOf, record_join
      <3>2. guild[n].inside /\ guild[n].spoke => Waits(MessageOf(n))'
        <4>1. SUFFICES ASSUME guild[n].inside, guild[n].spoke
                       PROVE  Waits(MessageOf(n))'
          OBVIOUS
        <4>2. Followed(events[p], JoinOf(n), MessageOf(n))
          BY <2>2, <4>1 DEF QueueGoesOn
        <4>3. \E i \in DOMAIN Tail(events[p]) : Tail(events[p])[i] = MessageOf(n)
          BY <1>1, <3>1, <4>2, FollowedInTail, <1>0
        <4>4. QED
          BY <1>3, <4>3 DEF Waits
      <3>3. rows'[n].joined_at = clock /\ ~rows'[n].first_message
        BY <3>1
      <3>4. QED
        BY <2>2, <3>2, <3>3 DEF RowIsCorrected
    <2>4. CASE e.kind = "message"
      <3>1. e = MessageOf(n) /\ rows'[n] = record_first_message(n)
        BY <1>2, <1>7, <2>1, <2>4 DEF MessageOf
      <3>2. rows[n] # NoRow /\ rows[n] \in Row
        BY <1>1, <1>2, <2>1, <3>1, TypeFacts DEF record_first_message
      <3>3. rows'[n].joined_at = rows[n].joined_at /\ rows'[n].first_message
        BY <3>1, <3>2 DEF record_first_message, Row
      <3>4. Waits(JoinOf(n)) => Waits(JoinOf(n))'
        <4>1. JoinOf(n) # MessageOf(n)
          BY DEF JoinOf, MessageOf
        <4>2. QED
          BY <1>3, <3>1, <4>1
      <3>5. guild[n].inside /\ ~guild[n].spoke => Waits(JoinOf(n))'
        <4>1. SUFFICES ASSUME guild[n].inside, ~guild[n].spoke
                       PROVE  Waits(JoinOf(n))'
          OBVIOUS
        <4>2. Followed(events[p], MessageOf(n), JoinOf(n))
          BY <2>2, <4>1 DEF QueueGoesOn
        <4>3. \E i \in DOMAIN Tail(events[p]) : Tail(events[p])[i] = JoinOf(n)
          BY <1>1, <3>1, <4>2, FollowedInTail, <1>0
        <4>4. QED
          BY <1>3, <4>3 DEF Waits
      <3>6. QED
        BY <1>1, <2>2, <3>2, <3>3, <3>4, <3>5 DEF RowIsCorrected
    <2>5. CASE e.kind = "leave"
      <3>1. rows'[n] = rows[n] /\ JoinOf(n) # e /\ MessageOf(n) # e
        BY <1>7, <2>1, <2>5 DEF JoinOf, MessageOf
      <3>2. /\ Waits(JoinOf(n)) => Waits(JoinOf(n))'
            /\ Waits(MessageOf(n)) => Waits(MessageOf(n))'
        BY <1>3, <3>1
      <3>3. QED
        BY <2>2, <3>1, <3>2 DEF RowIsCorrected
    <2>6. QED
      BY <1>2, <2>3, <2>4, <2>5
  <1>14. WindowHasPassed'
    BY <1>1 DEF WindowHasPassed
  <1>15. QED
    BY <1>8, <1>9, <1>10, <1>11, <1>12, <1>13, <1>14 DEF IInv

LEMMA CrashStep ==
    ASSUME IInv, NEW p \in Replica, Crash(p)
    PROVE  IInv'
  <1>1. /\ TypeOK /\ OnlyUpIsTold /\ StaysBegun /\ WindowHasPassed
        /\ \A m \in Member : QueueGoesOn(m) /\ RowIsCorrected(m)
        /\ events[p] \in Seq(Event)
        /\ UNCHANGED <<clock, guild, cache, rows>>
    BY TypeFacts DEF IInv, Crash
  <1>2. /\ events' \in [Replica -> Seq(Event)]
        /\ events'[p] = <<>>
        /\ \A r \in Replica \ {p} : events'[r] = events[r]
    BY <1>1 DEF Crash, TypeOK
  <1>3. /\ sweep' \in [Replica -> Sweep]
        /\ sweep'[p] = Down
        /\ \A r \in Replica \ {p} : sweep'[r] = sweep[r]
    <2>1. Down \in Sweep
      BY DEF Down, Sweep
    <2>2. QED
      BY <1>1, <2>1 DEF Crash, TypeOK
  <1>4. /\ missed' \subseteq Member /\ missed \subseteq missed'
        /\ \A i \in DOMAIN events[p] : events[p][i].member \in missed'
    <2>1. \A i \in DOMAIN events[p] : events[p][i].member \in Member
      <3>1. \A i \in DOMAIN events[p] : events[p][i] \in Event
        BY <1>1
      <3>2. QED
        BY <3>1 DEF Event
    <2>2. QED
      BY <1>1, <2>1 DEF Crash, TypeOK
  <1>5. faults' \in 0 .. MaxFaults
    BY <1>1, AutoKickAssumption DEF Crash, SpendFault, TypeOK
  <1>6. TypeOK'
    BY <1>1, <1>2, <1>3, <1>4, <1>5 DEF TypeOK
  <1>7. OnlyUpIsTold'
    BY <1>1, <1>2, <1>3 DEF OnlyUpIsTold, Up
  <1>8. StaysBegun'
    BY <1>1 DEF StaysBegun
  <1>9. ASSUME NEW m \in Member
        PROVE  QueueGoesOn(m)'
    <2>1. \A a, b : Followed(<<>>, a, b)
      BY DEF Followed
    <2>2. QED
      BY <1>1, <1>2, <2>1 DEF QueueGoesOn
  <1>10. ASSUME NEW m \in Member
         PROVE  RowIsCorrected(m)'
    <2>1. SUFFICES ASSUME m \notin missed'
                   PROVE  RowIsCorrected(m)'
      BY DEF RowIsCorrected
    <2>2. ASSUME NEW d, d.member = m, Waits(d)
          PROVE  Waits(d)'
      <3>1. PICK r \in Replica : \E i \in DOMAIN events[r] : events[r][i] = d
        BY <2>2 DEF Waits
      <3>2. r # p
        BY <1>4, <2>1, <2>2, <3>1
      <3>3. QED
        BY <1>2, <3>1, <3>2 DEF Waits
    <2>3. /\ Waits(JoinOf(m)) => Waits(JoinOf(m))'
          /\ Waits(MessageOf(m)) => Waits(MessageOf(m))'
      BY <2>2 DEF JoinOf, MessageOf
    <2>4. m \notin missed /\ RowIsCorrected(m)
      BY <1>1, <1>4, <2>1
    <2>5. QED
      BY <1>1, <2>3, <2>4 DEF RowIsCorrected
  <1>11. WindowHasPassed'
    BY <1>1, <1>3 DEF WindowHasPassed, Down
  <1>12. QED
    BY <1>6, <1>7, <1>8, <1>9, <1>10, <1>11 DEF IInv

LEMMA RestartStep ==
    ASSUME IInv, NEW p \in Replica, Restart(p)
    PROVE  IInv'
  <1>1. /\ TypeOK /\ OnlyUpIsTold /\ StaysBegun /\ WindowHasPassed
        /\ \A m \in Member : QueueGoesOn(m) /\ RowIsCorrected(m)
        /\ UNCHANGED <<clock, guild, events, rows, missed, faults>>
    BY DEF IInv, Restart
  <1>2. /\ sweep' \in [Replica -> Sweep]
        /\ sweep'[p] = Asleep
        /\ \A r \in Replica \ {p} : sweep'[r] = sweep[r]
    <2>1. Asleep \in Sweep
      BY DEF Asleep, Sweep
    <2>2. QED
      BY <1>1, <2>1 DEF Restart, TypeOK
  <1>3. cache' \in [Replica -> SUBSET Member]
    BY <1>1 DEF Restart, TypeOK
  <1>4. TypeOK'
    BY <1>1, <1>2, <1>3 DEF TypeOK
  <1>5. OnlyUpIsTold'
    BY <1>1, <1>2 DEF OnlyUpIsTold, Up, Asleep
  <1>6. StaysBegun'
    BY <1>1 DEF StaysBegun
  <1>7. ASSUME NEW m \in Member
        PROVE  QueueGoesOn(m)' /\ RowIsCorrected(m)'
    BY <1>1 DEF QueueGoesOn, RowIsCorrected, Waits
  <1>8. WindowHasPassed'
    BY <1>1, <1>2 DEF WindowHasPassed, Asleep
  <1>9. QED
    BY <1>4, <1>5, <1>6, <1>7, <1>8 DEF IInv

LEMMA AdvanceClockStep ==
    ASSUME IInv, AdvanceClock
    PROVE  IInv'
  <1>1. /\ TypeOK /\ OnlyUpIsTold /\ StaysBegun /\ WindowHasPassed
        /\ \A m \in Member : QueueGoesOn(m) /\ RowIsCorrected(m)
        /\ UNCHANGED <<guild, events, cache, rows, sweep, missed, faults>>
        /\ clock \in Nat /\ clock' = clock + 1 /\ clock' \in Time
    <2>1. clock' = clock + 1 /\ clock' \in Time
      BY AutoKickAssumption DEF IInv, AdvanceClock, TypeOK, Time
    <2>2. QED
      BY <2>1, TypeFacts DEF IInv, AdvanceClock
  <1>2. TypeOK'
    BY <1>1 DEF TypeOK
  <1>3. OnlyUpIsTold'
    BY <1>1 DEF OnlyUpIsTold, Up
  <1>4. StaysBegun'
    <2>1. ASSUME NEW m \in Member
          PROVE  guild[m].since <= clock + 1
      BY <1>1, TypeFacts DEF StaysBegun
    <2>2. QED
      BY <1>1, <2>1 DEF StaysBegun
  <1>5. ASSUME NEW m \in Member
        PROVE  QueueGoesOn(m)' /\ RowIsCorrected(m)'
    BY <1>1 DEF QueueGoesOn, RowIsCorrected, Waits
  <1>6. WindowHasPassed'
    <2>1. \A x \in Nat : x + Window <= clock => x + Window <= clock'
      BY <1>1, AutoKickAssumption
    <2>2. \A a \in Activity : a.joined_at \in Nat
      BY DEF Activity, Time
    <2>3. \A p \in Replica : sweep[p].todo \subseteq Activity
      BY <1>1, TypeFacts
    <2>4. QED
      BY <1>1, <2>1, <2>2, <2>3 DEF WindowHasPassed
  <1>7. QED
    BY <1>2, <1>3, <1>4, <1>5, <1>6 DEF IInv

LEMMA Inductive == IInv /\ [Next]_vars => IInv'
  <1>1. SUFFICES ASSUME IInv, [Next]_vars
                 PROVE  IInv'
    OBVIOUS
  <1>2. CASE Next
    BY <1>1, <1>2, JoinStep, LeaveStep, WriteStep, HandleEventStep, SweepStepKeeps, CrashStep,
       RestartStep, AdvanceClockStep DEF Next
  <1>3. CASE UNCHANGED vars
    BY <1>1, <1>3 DEF vars, IInv, TypeOK, OnlyUpIsTold, Up, StaysBegun, QueueGoesOn, RowIsCorrected,
       Waits, WindowHasPassed
  <1>4. QED
    BY <1>1, <1>2, <1>3

--------------------------------------------------------------------------------
(* The theorems.                                                           *)

\* What a row has wrong an event under way will set right, and the sweep works
\* on rows whose window has passed: the invariant of the auto-kick.
THEOREM InvariantHolds == Spec => []IInv
  <1>1. QED
    BY InitHolds, Inductive, PTL DEF Spec

\* The variables of the auto-kick keep their types.
THEOREM TypeCorrect == Spec => []TypeOK
  <1>1. IInv => TypeOK
    BY DEF IInv
  <1>2. QED
    BY <1>1, InvariantHolds, PTL

\* Nobody waits for an event of a member of whom nothing is still to be handled.
LEMMA NothingWaits ==
    ASSUME NEW m, Known(m), NEW e, e.member = m
    PROVE  m \notin missed /\ ~Waits(e)
  BY DEF Known, Pending, Waits

\* A row of member_activity is about the present stay and its messages as soon
\* as every event has been handled (member_activity/service.py, on_member_join
\* and on_message).
THEOREM RowsTellTheStay == Spec => []RowTellsTheStay
  <1>1. ASSUME IInv
        PROVE  RowTellsTheStay
    <2>1. SUFFICES ASSUME NEW m \in Member, guild[m].inside, Known(m), rows[m] # NoRow
                   PROVE  /\ guild[m].since <= rows[m].joined_at
                          /\ rows[m].first_message <=> guild[m].spoke
      BY DEF RowTellsTheStay
    <2>2. m \notin missed /\ ~Waits(JoinOf(m)) /\ ~Waits(MessageOf(m))
      BY <2>1, NothingWaits DEF JoinOf, MessageOf
    <2>3. /\ guild[m].since <= rows[m].joined_at
          /\ guild[m].spoke => rows[m].first_message
          /\ ~guild[m].spoke => ~rows[m].first_message
      BY <1>1, <2>1, <2>2 DEF IInv, RowIsCorrected
    <2>4. QED
      BY <2>3
  <1>2. QED
    BY <1>1, InvariantHolds, PTL

\* The sweep goes on to kick only a member who has been silent for the window
\* (_process_member of member_activity/scheduler.py).
THEOREM KicksAreDeserved == Spec => KickIsDeserved
  <1> DEFINE Deserved(p) ==
        sweep[p].pc = "messaging" /\ sweep'[p].pc = "kicking" =>
            LET m == sweep[p].cur.member
            IN Known(m) => /\ ~guild[m].inside \/ ~guild[m].spoke
                           /\ guild[m].since + Window <= clock
  <1>1. ASSUME IInv, [Next]_vars, NEW p \in Replica,
               sweep[p].pc = "messaging", sweep'[p].pc = "kicking"
        PROVE  Unchanged(sweep[p].cur)
    <2>1. ASSUME NEW r \in Replica, SweepStep(r)
          PROVE  Unchanged(sweep[p].cur)
      BY <1>1, <2>1, SweepMoves DEF IInv
    <2>2. ASSUME NEW r \in Replica, Crash(r) \/ Restart(r)
          PROVE  FALSE
      <3>1. sweep' = [sweep EXCEPT ![r] = Down] \/ sweep' = [sweep EXCEPT ![r] = Asleep]
        BY <2>2 DEF Crash, Restart
      <3>2. sweep \in [Replica -> Sweep]
        BY <1>1 DEF IInv, TypeOK
      <3>3. sweep'[p] \in {sweep[p], Down, Asleep}
        BY <3>1, <3>2
      <3>4. Down.pc = "down" /\ Asleep.pc = "sleeping"
        BY DEF Down, Asleep
      <3>5. QED
        BY <1>1, <3>3, <3>4
    <2>3. sweep' # sweep
      BY <1>1
    <2>4. QED
      BY <1>1, <2>1, <2>2, <2>3 DEF Next, Join, Leave, Write, HandleEvent, AdvanceClock, vars
  <1>2. ASSUME IInv, [Next]_vars, NEW p \in Replica
        PROVE  Deserved(p)
    <2> DEFINE m == sweep[p].cur.member
    <2>1. SUFFICES ASSUME sweep[p].pc = "messaging", sweep'[p].pc = "kicking", Known(m)
                   PROVE  /\ ~guild[m].inside \/ ~guild[m].spoke
                          /\ guild[m].since + Window <= clock
      OBVIOUS
    <2>2. Unchanged(sweep[p].cur)
      BY <1>1, <1>2, <2>1
    <2>3. sweep[p].cur \in Activity /\ sweep[p].cur.joined_at + Window <= clock
      BY <1>2, <2>1 DEF IInv, WindowHasPassed
    <2>4. m \in Member /\ sweep[p].cur.joined_at \in Nat
      BY <2>3 DEF Activity, Time
    <2>5. m \notin missed /\ ~Waits(JoinOf(m)) /\ ~Waits(MessageOf(m))
      BY <2>1, NothingWaits DEF JoinOf, MessageOf
    <2>6. RowIsCorrected(m)
      BY <1>2, <2>4 DEF IInv
    <2>7. /\ guild[m].since <= rows[m].joined_at
          /\ guild[m].inside /\ guild[m].spoke => rows[m].first_message
          /\ ~rows[m].first_message
          /\ rows[m].joined_at = sweep[p].cur.joined_at
      BY <2>2, <2>5, <2>6 DEF RowIsCorrected, Unchanged
    <2>8. guild[m].since \in Nat /\ clock \in Nat /\ Window \in Nat
      BY <1>2, <2>4, TypeFacts, AutoKickAssumption DEF IInv
    <2>9. QED
      BY <2>3, <2>4, <2>7, <2>8
  <1>3. IInv /\ [Next]_vars => [\A p \in Replica : Deserved(p)]_vars
    BY <1>2
  <1>4. QED
    BY <1>3, InvariantHolds, PTL DEF Spec, KickIsDeserved
================================================================================
