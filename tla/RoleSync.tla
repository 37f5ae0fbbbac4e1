------------------------------- MODULE RoleSync -------------------------------
(***************************************************************************)
(* POST /api/internal/role-sync: siege-web tells the bot which attack day  *)
(* one guild member has, and the bot moves the member's Discord role.      *)
(* Members are independent of each other (the lock, the stored row and the *)
(* roles are per discord_id), so the module follows one member.            *)
(*                                                                         *)
(* A call is one delivery of a request: siege-web delivers changes without *)
(* ordering and repeats them.  Inside a replica the calls for the member   *)
(* queue on an asyncio.Lock; replicas share only the database and Discord. *)
(***************************************************************************)
EXTENDS Naturals

CONSTANTS
    Replica,     \* processes of the bot
    Call,        \* deliveries of requests
    Day,         \* attack days
    Seeded,      \* the days with a row in day_role_map and a live role
    NoDay,       \* day_number is None
    NoRow,       \* no member_role_sync_state row
    NoBody,      \* the call is not made yet
    MaxStamp,    \* bound: how many changes siege-web makes
    MaxFaults    \* bound: refusals, broken calls, crashes and corruptions

\* A valid request: day_number is there exactly when the action is "assign".
Body == [assigned_at : 1 .. MaxStamp, action : {"assign"}, day : Day]
        \cup [assigned_at : 1 .. MaxStamp, action : {"unassign"}, day : {NoDay}]

\* The statuses, each skipped one by its reason; "error" is an HTTP 500.
Result == {"applied", "partial", "failed", "role_not_seeded", "member_not_in_guild",
           "already_has_role", "already_lacks_role", "stale_write", "error"}

Row == [body : Body, result : Result, readable : BOOLEAN, exact : BOOLEAN]

ASSUME RoleSyncAssumption ==
    /\ Seeded \subseteq Day
    /\ NoDay \notin Day
    /\ NoBody \notin Body
    /\ NoRow \notin Row
    /\ MaxStamp \in Nat
    /\ MaxFaults \in Nat

View == [in_guild : BOOLEAN, roles : SUBSET Day]

VARIABLES
    discord,     \* the member as Discord has it
    cache,       \* the member in each replica's gateway cache
    row,         \* member_role_sync_state
    calls,       \* the deliveries
    stamp,       \* the assigned_at of siege-web's newest change
    faults       \* faults spent, at most MaxFaults

vars == <<discord, cache, row, calls, stamp, faults>>

CallState ==
    [pc : {"unsent", "waiting", "removing", "adding", "saving", "answered"},
     replica : Replica, body : Body \cup {NoBody},
     remove : SUBSET Day, add : SUBSET Day, result : Result,
     exact : BOOLEAN]  \* history: nobody else touched the roles since the decision

TypeOK ==
    /\ discord \in View
    /\ cache \in [Replica -> View]
    /\ row \in Row \cup {NoRow}
    /\ calls \in [Call -> CallState]
    /\ stamp \in 0 .. MaxStamp
    /\ faults \in 0 .. MaxFaults

InLock(c) == calls[c].pc \in {"removing", "adding", "saving"}

Init ==
    /\ discord = [in_guild |-> TRUE, roles |-> {}]
    /\ cache = [p \in Replica |-> discord]
    /\ row = NoRow
    /\ calls \in [Call -> {[pc |-> "unsent", replica |-> p, body |-> NoBody,
                            remove |-> {}, add |-> {}, result |-> "error",
                            exact |-> TRUE] : p \in Replica}]
    /\ stamp = 0
    /\ faults = 0

--------------------------------------------------------------------------------
(* siege-web: every change has a later stamp; a request may be repeated.   *)

Become(c, call) == calls' = [calls EXCEPT ![c] = call]

Deliver(c, b) == Become(c, [calls[c] EXCEPT !.pc = "waiting", !.body = b])

Submit(c) ==
    /\ calls[c].pc = "unsent"
    /\ stamp < MaxStamp
    /\ stamp' = stamp + 1
    /\ \E b \in Body : b.assigned_at = stamp' /\ Deliver(c, b)
    /\ UNCHANGED <<discord, cache, row, faults>>

Repeat(c) ==
    /\ calls[c].pc = "unsent"
    /\ \E d \in Call : calls[d].pc # "unsent" /\ Deliver(c, calls[d].body)
    /\ UNCHANGED <<discord, cache, row, stamp, faults>>

--------------------------------------------------------------------------------
(* The handler, from the lock to its first await: replay, staleness, and   *)
(* what the role service decides from the cached member.                   *)

\* Mutant of Free: no lock.
AlwaysFree(c) == TRUE

\* The per-discord_id lock of c's replica.
Free(c) == \A d \in Call : calls[d].replica = calls[c].replica => ~InLock(d)

Answered(c, result) == [calls[c] EXCEPT !.pc = "answered", !.result = result]
Answer(c, result) == Become(c, Answered(c, result))

IsReplay(b) == row # NoRow /\ row.body = b /\ row.readable

\* Mutant of IsStale: the stored timestamp is not looked at.
NeverStale(b) == FALSE

IsStale(b) == row # NoRow /\ b.assigned_at < row.body.assigned_at

IsFresh(b) == ~IsReplay(b) /\ ~IsStale(b)

Replay(c) ==
    /\ calls[c].pc = "waiting" /\ Free(c)
    /\ IsReplay(calls[c].body)
    /\ Become(c, [Answered(c, row.result) EXCEPT !.exact = row.exact])
    /\ UNCHANGED <<discord, cache, row, stamp, faults>>

RejectStale(c) ==
    /\ calls[c].pc = "waiting" /\ Free(c)
    /\ ~IsReplay(calls[c].body) /\ IsStale(calls[c].body)
    /\ Answer(c, "stale_write")
    /\ UNCHANGED <<discord, cache, row, stamp, faults>>

\* The day the request is about; an unassign takes it from the stored row.
prior_day == IF row = NoRow THEN NoDay ELSE row.body.day
Target(b) == IF b.action = "assign" THEN b.day ELSE prior_day

\* An unassign with no stored day is answered and not stored.
NothingToUnassign(c) ==
    /\ calls[c].pc = "waiting" /\ Free(c)
    /\ IsFresh(calls[c].body)
    /\ Target(calls[c].body) = NoDay
    /\ Answer(c, "already_lacks_role")
    /\ UNCHANGED <<discord, cache, row, stamp, faults>>

\* The reasons for which the role service does nothing.
Skips(action, day, view, why) ==
    \/ why = "role_not_seeded" /\ day \notin Seeded
    \/ /\ day \in Seeded
       /\ \/ why = "member_not_in_guild" /\ ~view.in_guild
          \/ /\ view.in_guild
             /\ \/ why = "already_has_role" /\ action = "assign" /\ day \in view.roles
                \/ why = "already_lacks_role" /\ action = "unassign" /\ day \notin view.roles

Enter(c, pc, remove, add, result) ==
    Become(c, [calls[c] EXCEPT !.pc = pc, !.remove = remove, !.add = add,
                               !.result = result,
                               !.exact = (cache[calls[c].replica] = discord)])

Skip(c) ==
    /\ calls[c].pc = "waiting" /\ Free(c)
    /\ IsFresh(calls[c].body)
    /\ Target(calls[c].body) # NoDay
    /\ \E why \in Result :
          /\ Skips(calls[c].body.action, Target(calls[c].body), cache[calls[c].replica], why)
          /\ Enter(c, "saving", {}, {}, why)
    /\ UNCHANGED <<discord, cache, row, stamp, faults>>

\* Mutant of OtherDays: an assign removes no other day.
NoOtherDays(day, view) == {{}}

\* At most one other day role is removed, the first the map yields.
OtherDays(day, view) ==
    LET held == (view.roles \cap Seeded) \ {day}
    IN IF held = {} THEN {{}} ELSE {{d} : d \in held}

Assign(c) ==
    /\ calls[c].pc = "waiting" /\ Free(c)
    /\ IsFresh(calls[c].body)
    /\ calls[c].body.action = "assign"
    /\ LET day == calls[c].body.day
           view == cache[calls[c].replica]
       IN /\ ~\E why \in Result : Skips("assign", day, view, why)
          /\ \E other \in OtherDays(day, view) :
                Enter(c, IF other = {} THEN "adding" ELSE "removing", other, {day}, "applied")
    /\ UNCHANGED <<discord, cache, row, stamp, faults>>

Unassign(c) ==
    /\ calls[c].pc = "waiting" /\ Free(c)
    /\ IsFresh(calls[c].body)
    /\ calls[c].body.action = "unassign"
    /\ prior_day # NoDay
    /\ ~\E why \in Result : Skips("unassign", prior_day, cache[calls[c].replica], why)
    /\ Enter(c, "removing", {prior_day}, {}, "applied")
    /\ UNCHANGED <<discord, cache, row, stamp, faults>>

--------------------------------------------------------------------------------
(* The awaits of the role service, and the UPSERT.                         *)

\* After the removal, or its refusal, an assign goes on to the add.
AfterRemoval(c) == IF calls[c].add = {} THEN "saving" ELSE "adding"

SpendFault == faults < MaxFaults /\ faults' = faults + 1

Removed(c) ==
    /\ calls[c].pc = "removing" /\ discord.in_guild
    /\ discord' = [discord EXCEPT !.roles = @ \ calls[c].remove]
    /\ Become(c, [calls[c] EXCEPT !.pc = AfterRemoval(c)])
    /\ UNCHANGED <<cache, row, stamp, faults>>

\* 403: an assign goes on and will be "partial", an unassign has "failed".
RemovalForbidden(c) ==
    /\ calls[c].pc = "removing" /\ discord.in_guild
    /\ SpendFault
    /\ Become(c, [calls[c] EXCEPT !.pc = AfterRemoval(c),
                   !.result = IF calls[c].add = {} THEN "failed" ELSE "partial"])
    /\ UNCHANGED <<discord, cache, row, stamp>>

Added(c) ==
    /\ calls[c].pc = "adding" /\ discord.in_guild
    /\ discord' = [discord EXCEPT !.roles = @ \cup calls[c].add]
    /\ Become(c, [calls[c] EXCEPT !.pc = "saving"])
    /\ UNCHANGED <<cache, row, stamp, faults>>

AddForbidden(c) ==
    /\ calls[c].pc = "adding" /\ discord.in_guild
    /\ SpendFault
    /\ Become(c, [calls[c] EXCEPT !.pc = "saving", !.result = "failed"])
    /\ UNCHANGED <<discord, cache, row, stamp>>

Stored(c) == [body |-> calls[c].body, result |-> calls[c].result,
              readable |-> TRUE, exact |-> calls[c].exact]

Save(c) ==
    /\ calls[c].pc = "saving"
    /\ row' = Stored(c)
    /\ Answer(c, calls[c].result)
    /\ UNCHANGED <<discord, cache, stamp, faults>>

\* Nothing decided so far tells what the roles are any longer.
Blur(cs, r) ==
    /\ calls' = [c \in Call |-> [cs[c] EXCEPT !.exact = FALSE]]
    /\ row' = IF r = NoRow THEN NoRow ELSE [r EXCEPT !.exact = FALSE]

\* What a call may have done to the roles before its error.
Touched(c) ==
    CASE calls[c].pc = "removing" -> {discord, [discord EXCEPT !.roles = @ \ calls[c].remove]}
      [] calls[c].pc = "adding" /\ discord.in_guild ->
            {discord, [discord EXCEPT !.roles = @ \cup calls[c].add]}
      [] OTHER -> {discord}

\* Mutant of CallBreaks: an answer 404 does not end the call.
CallBreaksUnless404(c) ==
    /\ InLock(c) /\ SpendFault
    /\ discord' \in Touched(c)
    /\ Blur([calls EXCEPT ![c] = Answered(c, "error")], row)
    /\ UNCHANGED <<cache, stamp>>

\* Any other error of Discord, with or without its effect, or of the UPSERT,
\* committed or not: the lock is released and the answer is a 500.  A member
\* who has left is a 404 and no fault.
CallBreaks(c) ==
    /\ InLock(c)
    /\ SpendFault \/ (calls[c].pc # "saving" /\ ~discord.in_guild /\ UNCHANGED faults)
    /\ discord' \in Touched(c)
    /\ \E r \in {row} \cup (IF calls[c].pc = "saving" THEN {Stored(c)} ELSE {}) :
          Blur([calls EXCEPT ![c] = Answered(c, "error")], r)
    /\ UNCHANGED <<cache, stamp>>

\* The replica dies with its calls and comes back with a fresh cache.
Crash(p) ==
    /\ SpendFault
    /\ Blur([c \in Call |->
               IF calls[c].replica = p /\ (InLock(c) \/ calls[c].pc = "waiting")
               THEN Answered(c, "error") ELSE calls[c]],
            row)
    /\ cache' = [cache EXCEPT ![p] = discord]
    /\ UNCHANGED <<discord, stamp>>

--------------------------------------------------------------------------------
(* Discord and the database.                                               *)

\* A gateway event brings a replica's cache up to date, some time later.
GatewayUpdate(p) ==
    /\ cache[p] # discord
    /\ cache' = [cache EXCEPT ![p] = discord]
    /\ UNCHANGED <<discord, row, calls, stamp, faults>>

\* The member leaves (and loses the roles) or joins again.
LeaveOrJoin ==
    /\ SpendFault
    /\ discord' = [in_guild |-> ~discord.in_guild, roles |-> {}]
    /\ Blur(calls, row)
    /\ UNCHANGED <<cache, stamp>>

\* The stored response is no longer JSON.
CorruptRow ==
    /\ row # NoRow /\ row.readable
    /\ SpendFault
    /\ row' = [row EXCEPT !.readable = FALSE]
    /\ UNCHANGED <<discord, cache, calls, stamp>>

Decide(c) ==
    \/ Replay(c) \/ RejectStale(c) \/ NothingToUnassign(c)
    \/ Skip(c) \/ Assign(c) \/ Unassign(c)

Continue(c) ==
    \/ Removed(c) \/ RemovalForbidden(c) \/ Added(c) \/ AddForbidden(c)
    \/ Save(c) \/ CallBreaks(c)

Next ==
    \/ \E c \in Call : Submit(c) \/ Repeat(c) \/ Decide(c) \/ Continue(c)
    \/ \E p \in Replica : Crash(p) \/ GatewayUpdate(p)
    \/ LeaveOrJoin
    \/ CorruptRow

Spec == Init /\ [][Next]_vars

\* The event loop runs a call that can go on, discord.py times out what does
\* not answer, and asyncio.Lock serves its waiters in order of arrival: a
\* call the lock passes over again and again is served in the end.
FairSpec ==
    /\ Spec
    /\ \A c \in Call : WF_vars(Continue(c)) /\ SF_vars(Decide(c))

--------------------------------------------------------------------------------
(* One process of the bot.                                                 *)

SingleReplica == \A p, q \in Replica : p = q

\* The lock admits one call of a replica at a time.
LockOK == \A c, d \in Call :
    InLock(c) /\ InLock(d) /\ calls[c].replica = calls[d].replica => c = d

\* What a call decided on the stored row still holds when it writes: the row
\* is no newer than the call.  Only one process guarantees it.
Ordered == \A c \in Call :
    InLock(c) => row = NoRow \/ row.body.assigned_at <= calls[c].body.assigned_at

Sent == \A c \in Call : calls[c].pc # "unsent" => calls[c].body # NoBody

IInv == TypeOK /\ Sent /\ LockOK /\ Ordered

Quiet == \A c \in Call : ~InLock(c)

\* What a status says of the roles, for an assignment.
Tells(result, day) ==
    /\ result = "applied" => discord.roles = {day}
    /\ result \in {"partial", "already_has_role"} => day \in discord.roles

\* What a call under way has established, as long as it is exact.
OnTrack(c) ==
    LET day == calls[c].body.day
    IN CASE calls[c].pc = "removing" ->
               calls[c].add = {day} /\ calls[c].result = "applied"
               /\ discord.roles \subseteq calls[c].remove
         [] calls[c].pc = "adding" ->
               calls[c].add = {day} /\ calls[c].result \in {"applied", "partial"}
               /\ (calls[c].result = "applied" => discord.roles = {})
         [] calls[c].pc = "saving" -> Tells(calls[c].result, day)

AssignmentsOnTrack == \A c \in Call :
    InLock(c) /\ calls[c].exact /\ calls[c].body.action = "assign" => OnTrack(c)

OnlySeededRoles ==
    /\ discord.roles \subseteq Seeded
    /\ \A c \in Call : calls[c].add \subseteq Seeded

\* The stored timestamp never goes back: an older request that passed the
\* staleness check never overwrites what a newer one stored while the older
\* one awaited Discord (role_sync's check, service call and UPSERT).
NeverBackInTime ==
    [][row # NoRow /\ row' # NoRow => row.body.assigned_at <= row'.body.assigned_at]_vars

\* Once no call is under way, the stored status of an assignment tells the
\* truth about Discord: "applied" means that day's role and no other, through
\* any interleaving of removals, adds, refusals and replays, as long as the
\* cache was current and nothing but the bot has moved the roles since.
RowMatchesRoles ==
    Quiet /\ row # NoRow /\ row.exact /\ row.body.action = "assign" =>
        Tells(row.result, row.body.day)

RolesInv == IInv /\ AssignmentsOnTrack /\ OnlySeededRoles /\ RowMatchesRoles

\* The bot knows two attack days (_ATTACK_DAYS): one removal clears the other.
TwoDays == \A a, b, d \in Day : a = b \/ a = d \/ b = d

Granted(c) ==
    /\ calls[c].pc = "answered" /\ calls[c].exact
    /\ calls[c].body.action = "assign"
    /\ calls[c].result \in {"applied", "partial", "already_has_role"}

\* An assignment that was answered as granted stands until siege-web sends a
\* newer change: older changes that arrive later, and repeats of any, cannot
\* take its role away (the stale-write and replay steps of role_sync).
LatestAssignmentStands ==
    Quiet => \A c \in Call :
        Granted(c) /\ calls[c].body.assigned_at = stamp =>
            calls[c].body.day \in discord.roles

\* Every request is answered: the lock is released on every path, refusals,
\* errors and the member's departure included (async with _get_lock).
EveryCallAnswered == \A c \in Call :
    calls[c].pc = "waiting" ~> calls[c].pc = "answered"

--------------------------------------------------------------------------------
(* What the documents promise, and the code does not do.                   *)

\* "applied" after a swap: the member has the new day's role only.
SwapLeavesOneRole ==
    Quiet /\ faults = 0 /\ row # NoRow /\ row.result = "applied" /\ row.body.action = "assign"
        => discord.roles = {row.body.day}

\* Requests out of order: once the newest unassign is answered, and nothing
\* is left to arrive, the member holds no role of an older assignment.
OlderAssignmentRejected ==
    faults = 0 /\ (\A c \in Call : calls[c].pc = "answered") =>
        \A c \in Call : calls[c].body.action = "unassign" /\ calls[c].body.assigned_at = stamp
            => discord.roles = {}
================================================================================
