------------------------------- MODULE AutoKick -------------------------------
(***************************************************************************)
(* The 24 hours a new member has to write something: the gateway events    *)
(* that track a member in member_activity, and the sweep that warns and    *)
(* kicks the silent ones (AutoKickScheduler).  The sweep keeps the rows it *)
(* read while it awaits Discord; members join, write and leave meanwhile.  *)
(*                                                                         *)
(* A replica is a process of the bot with its own gateway session.         *)
(***************************************************************************)
EXTENDS Naturals, Sequences

CONSTANTS
    Member, Replica,
    Earlier,       \* members of an earlier process, who left while none ran
    Unfetchable,   \* members whom fetch_member may fail to return for ever
    NoRow,         \* no member_activity row
    NoJob,         \* the sweep is between members
    Window,        \* INACTIVITY_WINDOW
    MaxTime,       \* bound: the last modelled time
    MaxStays,      \* bound: how often a member joins
    MaxFaults      \* bound: errors and crashes

ASSUME AutoKickAssumption ==
    /\ Earlier \subseteq Member /\ Unfetchable \subseteq Member
    /\ Window \in Nat \ {0}
    /\ MaxTime \in Nat /\ MaxStays \in Nat /\ MaxFaults \in Nat

Time == 0 .. MaxTime

\* MemberActivity, the timestamp of the first message left out.
Row == [joined_at : Time, first_message : BOOLEAN]

\* A stale row as the sweep keeps it.
Activity == [member : Member, joined_at : Time]

Event == [kind : {"join", "leave", "message"}, member : Member]

Sweep == [pc : {"down", "sleeping", "next", "fetching", "messaging", "kicking", "kicked", "dead"},
          todo : SUBSET Activity, cur : Activity \cup {NoJob}]

Guild == [inside : BOOLEAN, stays : 0 .. MaxStays, since : Time, spoke : BOOLEAN]

VARIABLES
    clock,
    guild,       \* Discord: each member's present stay
    events,      \* gateway events each replica has yet to handle
    cache,       \* the members each replica's guild.get_member finds
    rows,        \* member_activity
    sweep,       \* each replica's AutoKickScheduler
    missed,      \* history: members with an event that no row shows
    faults       \* faults spent, at most MaxFaults

vars == <<clock, guild, events, cache, rows, sweep, missed, faults>>

TypeOK ==
    /\ clock \in Time
    /\ guild \in [Member -> Guild]
    /\ events \in [Replica -> Seq(Event)]
    /\ cache \in [Replica -> SUBSET Member]
    /\ rows \in [Member -> Row \cup {NoRow}]
    /\ sweep \in [Replica -> Sweep]
    /\ missed \subseteq Member
    /\ faults \in 0 .. MaxFaults

Asleep == [pc |-> "sleeping", todo |-> {}, cur |-> NoJob]
Down == [pc |-> "down", todo |-> {}, cur |-> NoJob]
Up(p) == sweep[p].pc # "down"

Init ==
    /\ clock = 0
    /\ guild = [m \in Member |-> [inside |-> FALSE, stays |-> IF m \in Earlier THEN MaxStays ELSE 0,
                                  since |-> 0, spoke |-> FALSE]]
    /\ events = [p \in Replica |-> <<>>]
    /\ cache = [p \in Replica |-> {}]
    /\ rows = [m \in Member |->
                 IF m \in Earlier THEN [joined_at |-> 0, first_message |-> FALSE] ELSE NoRow]
    /\ sweep = [p \in Replica |-> Asleep]
    /\ missed = {}
    /\ faults = 0

SpendFault == faults < MaxFaults /\ faults' = faults + 1

--------------------------------------------------------------------------------
(* The members.  The gateway tells every replica that is up.               *)

Tell(kind, m) ==
    /\ events' = [p \in Replica |->
                    IF Up(p) THEN Append(events[p], [kind |-> kind, member |-> m]) ELSE events[p]]
    /\ missed' = IF \E p \in Replica : Up(p) THEN missed ELSE missed \cup {m}

Join(m) ==
    /\ ~guild[m].inside /\ guild[m].stays < MaxStays
    /\ guild' = [guild EXCEPT ![m] =
                   [inside |-> TRUE, stays |-> @.stays + 1, since |-> clock, spoke |-> FALSE]]
    /\ Tell("join", m)
    /\ UNCHANGED <<clock, cache, rows, sweep, faults>>

Leave(m) ==
    /\ guild[m].inside
    /\ guild' = [guild EXCEPT ![m].inside = FALSE]
    /\ Tell("leave", m)
    /\ UNCHANGED <<clock, cache, rows, sweep, faults>>

\* Bound: one message of a member is on its way at a time.
Write(m) ==
    /\ guild[m].inside
    /\ \A p \in Replica : \A i \in DOMAIN events[p] :
          events[p][i] # [kind |-> "message", member |-> m]
    /\ guild' = [guild EXCEPT ![m].spoke = TRUE]
    /\ Tell("message", m)
    /\ UNCHANGED <<clock, cache, rows, sweep, faults>>

AdvanceClock ==
    /\ clock < MaxTime
    /\ clock' = clock + 1
    /\ UNCHANGED <<guild, events, cache, rows, sweep, missed, faults>>

--------------------------------------------------------------------------------
(* on_member_join and on_message: one statement each, before any await.    *)

\* Mutant of record_join: the row of an earlier stay is kept as it is.
KeepEarlierStay(m) ==
    IF rows[m] = NoRow THEN [joined_at |-> clock, first_message |-> FALSE] ELSE rows[m]

\* Mutant of record_join: the deadline is stored for the join.
StoreDeadline(m) == [joined_at |-> clock + Window, first_message |-> FALSE]

record_join(m) == [joined_at |-> clock, first_message |-> FALSE]

record_first_message(m) ==
    IF rows[m] = NoRow THEN NoRow ELSE [rows[m] EXCEPT !.first_message = TRUE]

\* discord.py brings its cache up to date and starts the handler.
HandleEvent(p) ==
    /\ Up(p) /\ events[p] # <<>>
    /\ LET e == Head(events[p])
           m == e.member
       IN /\ cache' = [cache EXCEPT ![p] = CASE e.kind = "join"  -> @ \cup {m}
                                             [] e.kind = "leave" -> @ \ {m}
                                             [] OTHER            -> @]
          /\ \/ /\ rows' = [rows EXCEPT ![m] = CASE e.kind = "join"    -> record_join(m)
                                                 [] e.kind = "message" -> record_first_message(m)
                                                 [] OTHER              -> @]
                /\ UNCHANGED <<missed, faults>>
             \* The statement fails; nobody records the event again.
             \/ /\ e.kind # "leave" /\ SpendFault
                /\ missed' = missed \cup {m}
                /\ UNCHANGED rows
    /\ events' = [events EXCEPT ![p] = Tail(@)]
    /\ UNCHANGED <<clock, guild, sweep>>

--------------------------------------------------------------------------------
(* The sweep.                                                              *)

Stale(m) ==
    /\ rows[m] # NoRow
    /\ ~rows[m].first_message
    /\ rows[m].joined_at + Window <= clock

list_stale == {[member |-> m, joined_at |-> rows[m].joined_at] : m \in {n \in Member : Stale(n)}}

Become(p, pc) == sweep' = [sweep EXCEPT ![p].pc = pc]

\* The member is dealt with, whatever came of it.
NextMember(p) == sweep' = [sweep EXCEPT ![p].pc = "next", ![p].cur = NoJob]

BeginSweep(p) ==
    /\ sweep[p].pc = "sleeping"
    /\ sweep' = [sweep EXCEPT ![p] = [pc |-> "next", todo |-> list_stale, cur |-> NoJob]]
    /\ UNCHANGED <<clock, guild, events, cache, rows, missed, faults>>

EndSweep(p) ==
    /\ sweep[p].pc = "next" /\ sweep[p].todo = {}
    /\ Become(p, "sleeping")
    /\ UNCHANGED <<clock, guild, events, cache, rows, missed, faults>>

\* guild.get_member finds the member, or fetch_member is awaited.
Resolve(p) ==
    /\ sweep[p].pc = "next"
    /\ \E a \in sweep[p].todo :
          sweep' = [sweep EXCEPT ![p] =
                      [pc |-> IF a.member \in cache[p] THEN "messaging" ELSE "fetching",
                       todo |-> @.todo \ {a}, cur |-> a]]
    /\ UNCHANGED <<clock, guild, events, cache, rows, missed, faults>>

Fetched(p) ==
    /\ sweep[p].pc = "fetching" /\ guild[sweep[p].cur.member].inside
    /\ Become(p, "messaging")
    /\ UNCHANGED <<clock, guild, events, cache, rows, missed, faults>>

\* remove_tracking by guild and member; its failure is only logged.
Untrack(m) ==
    \/ rows' = [rows EXCEPT ![m] = NoRow] /\ UNCHANGED faults
    \/ SpendFault /\ UNCHANGED rows

FetchNotFound(p) ==
    /\ sweep[p].pc = "fetching" /\ ~guild[sweep[p].cur.member].inside
    /\ Untrack(sweep[p].cur.member)
    /\ NextMember(p)
    /\ UNCHANGED <<clock, guild, events, cache, missed>>

\* Mutant of FetchFails: the error ends the sweep of the others, too.
FetchFailsForAll(p) ==
    /\ sweep[p].pc = "fetching"
    /\ \/ sweep[p].cur.member \in Unfetchable /\ UNCHANGED faults
       \/ SpendFault
    /\ sweep' = [sweep EXCEPT ![p] = Asleep]
    /\ UNCHANGED <<clock, guild, events, cache, rows, missed>>

\* An HTTP error keeps the row for the next sweep.
FetchFails(p) ==
    /\ sweep[p].pc = "fetching"
    /\ \/ sweep[p].cur.member \in Unfetchable /\ UNCHANGED faults
       \/ SpendFault
    /\ NextMember(p)
    /\ UNCHANGED <<clock, guild, events, cache, rows, missed>>

\* A connection error is no discord exception: nothing catches it, and the
\* task that is the scheduler ends.
FetchRaises(p) ==
    /\ sweep[p].pc = "fetching"
    /\ SpendFault
    /\ sweep' = [sweep EXCEPT ![p] = [pc |-> "dead", todo |-> {}, cur |-> NoJob]]
    /\ UNCHANGED <<clock, guild, events, cache, rows, missed>>

\* Mutant of Unchanged: the row is not compared with the one listed.
StillThere(a) == rows[a.member] # NoRow

\* The row is still the one the sweep listed.
Unchanged(a) ==
    /\ rows[a.member] # NoRow
    /\ ~rows[a.member].first_message
    /\ rows[a.member].joined_at = a.joined_at

\* The warning was delivered or not; the row is read again.
Messaged(p) ==
    /\ sweep[p].pc = "messaging"
    /\ IF Unchanged(sweep[p].cur) THEN Become(p, "kicking") ELSE NextMember(p)
    /\ UNCHANGED <<clock, guild, events, cache, rows, missed, faults>>

\* Discord carries out the kick; its answer is still to come.
KickLands(p) ==
    LET m == sweep[p].cur.member
    IN /\ sweep[p].pc = "kicking" /\ guild[m].inside
       /\ guild' = [guild EXCEPT ![m].inside = FALSE]
       /\ Become(p, "kicked")
       /\ Tell("leave", m)
       /\ UNCHANGED <<clock, cache, rows, faults>>

KickAnswered(p) ==
    /\ sweep[p].pc = "kicked"
    /\ Untrack(sweep[p].cur.member)
    /\ NextMember(p)
    /\ UNCHANGED <<clock, guild, events, cache, missed>>

\* The member has gone (404): the row goes all the same.
KickGone(p) ==
    /\ sweep[p].pc = "kicking" /\ ~guild[sweep[p].cur.member].inside
    /\ Untrack(sweep[p].cur.member)
    /\ NextMember(p)
    /\ UNCHANGED <<clock, guild, events, cache, missed>>

\* Discord refuses, or the second read fails: the row goes all the same, unless
\* its deletion, in the same trouble, fails too.
KickRefused(p) ==
    /\ sweep[p].pc \in {"messaging", "kicking"}
    /\ SpendFault
    /\ rows' \in {[rows EXCEPT ![sweep[p].cur.member] = NoRow], rows}
    /\ NextMember(p)
    /\ UNCHANGED <<clock, guild, events, cache, missed>>

--------------------------------------------------------------------------------
(* The process stops, and comes back some time later with a fresh cache.   *)
(* The gateway does not tell again what it told, or did not tell, before.  *)

Crash(p) ==
    /\ Up(p) /\ SpendFault
    /\ sweep' = [sweep EXCEPT ![p] = Down]
    /\ missed' = missed \cup {events[p][i].member : i \in DOMAIN events[p]}
    /\ events' = [events EXCEPT ![p] = <<>>]
    /\ UNCHANGED <<clock, guild, cache, rows>>

Restart(p) ==
    /\ ~Up(p)
    /\ sweep' = [sweep EXCEPT ![p] = Asleep]
    /\ cache' = [cache EXCEPT ![p] = {m \in Member : guild[m].inside}]
    /\ UNCHANGED <<clock, guild, events, rows, missed, faults>>

SweepStep(p) ==
    \/ BeginSweep(p) \/ EndSweep(p) \/ Resolve(p)
    \/ Fetched(p) \/ FetchNotFound(p) \/ FetchFails(p) \/ FetchRaises(p)
    \/ Messaged(p) \/ KickLands(p) \/ KickAnswered(p) \/ KickGone(p) \/ KickRefused(p)

Next ==
    \/ \E m \in Member : Join(m) \/ Leave(m) \/ Write(m)
    \/ \E p \in Replica : HandleEvent(p) \/ SweepStep(p) \/ Crash(p) \/ Restart(p)
    \/ AdvanceClock

Spec == Init /\ [][Next]_vars

\* The event loop runs the sweep and the handlers, discord.py times out what
\* does not answer, and the platform restarts the process.
FairSpec ==
    /\ Spec
    /\ \A p \in Replica : WF_vars(HandleEvent(p)) /\ WF_vars(SweepStep(p)) /\ WF_vars(Restart(p))

--------------------------------------------------------------------------------
(* Properties.                                                             *)

Pending(m) == \E p \in Replica : \E i \in DOMAIN events[p] : events[p][i].member = m

\* Nothing of this member has been missed or is still to be handled.
Known(m) == m \notin missed /\ ~Pending(m)

\* When the sweep goes on to kick, the member, if everything the gateway told
\* has been handled, has been inside and silent for the whole window: no
\* message, departure or new stay that came while the warning was awaited is
\* overlooked (the second read in _process_member).
KickIsDeserved ==
    [][\A p \in Replica :
        sweep[p].pc = "messaging" /\ sweep'[p].pc = "kicking" =>
            LET m == sweep[p].cur.member
            IN Known(m) => /\ ~guild[m].inside \/ ~guild[m].spoke
                           /\ guild[m].since + Window <= clock]_vars

\* A row is about the present stay, once all events are handled: it starts no
\* earlier, and shows a message exactly when the member has written in it,
\* although the stays, replicas and sweeps of one member share the one row.
RowTellsTheStay ==
    \A m \in Member :
        guild[m].inside /\ Known(m) /\ rows[m] # NoRow =>
            /\ guild[m].since <= rows[m].joined_at
            /\ rows[m].first_message <=> guild[m].spoke

\* A stale row is dealt with, or changes, whatever fails for it or for another
\* member: a fetch or a deletion that failed is tried again by the next sweep; a
\* kick that failed is not, its row goes all the same; and a member whom Discord
\* never returns keeps no other waiting.  One process whose task has ended is
\* not enough to stop it, where there is another.
StaleIsHandled ==
    \A m \in Member \ Unfetchable :
        Stale(m) ~> ~Stale(m) \/ \A p \in Replica : sweep[p].pc = "dead"

\* What the documents say, and the code does not do.

\* "Each stale member is isolated": the sweep's task goes on for ever.
SweepSurvives == \A p \in Replica : sweep[p].pc # "dead"

\* A newcomer whose events were all handled is tracked until the window has
\* passed.
NewcomersTracked ==
    \A m \in Member :
        guild[m].inside /\ Known(m) /\ clock < guild[m].since + Window => rows[m] # NoRow
================================================================================
