------------------------------- MODULE SidecarApi -------------------------------
(***************************************************************************)
(* The sidecar's endpoints for siege-web that keep no state of their own:  *)
(* notify, post-message, post-image, members and the public ones.  A name  *)
(* is looked up in the guild cache, which the gateway keeps up to date     *)
(* with a lag, then Discord is called and its answer or exception becomes  *)
(* a status.  role-sync is in RoleSync.                                    *)
(***************************************************************************)
EXTENDS Naturals, FiniteSets

CONSTANTS
    Request,      \* the HTTP requests; a repetition is a request of its own
    Member, Channel,
    Name,         \* user names and channel names
    Gone,         \* not in the guild
    Nothing,      \* no target
    Asked,        \* what siege-web asks
    MaxFaults     \* bound: errors of Discord and the network, renames, stops

Target == Member \cup Channel

\* token: the Authorization header; body: not JSON, fields missing, as expected.
Ask == [kind : {"public", "members", "member", "notify", "post_message", "post_image"},
        target : Member \cup {Nothing}, name : Name,
        token : {"none", "wrong", "right"}, body : {"broken", "incomplete", "ok"}]

Posting == {"notify", "post_message", "post_image"}

Status == {"200", "sent", "not_member", "401", "403", "404", "422", "500", "502", "503",
           "forbidden"}

ASSUME ApiAssumption ==
    /\ MaxFaults \in Nat
    /\ Asked \subseteq Ask
    /\ Member \cap Channel = {} /\ Nothing \notin Target /\ Gone \notin Name
    /\ \A a \in Asked : a.kind = "member" => a.target \in Member

VARIABLES
    guild,      \* Discord: the name of each member and channel
    cache,      \* the same in discord.py
    asked,      \* what each request says
    request,    \* where it is: new, accepted, calling, answering, over
    told,       \* the status siege-web has received
    posted,     \* Discord: how many messages a request has made, and to whom
    serving,    \* the server: open, draining, closed
    held,       \* history: the names each target has had
    absent,     \* history: whether the member was gone while a request ran
    lost,       \* history: attempts that discord.py has repeated by itself
    cut,        \* history: requests that a broken connection or a kill ended
    faults

vars == <<guild, cache, asked, request, told, posted, serving, held, absent, lost, cut, faults>>

InProgress == {q \in Request : request[q].pc \in {"accepted", "calling", "answering"}}

RequestState == [pc : {"new", "accepted", "calling", "answering", "over"},
                 target : Target \cup {Nothing}, status : Status]

TypeOK ==
    /\ guild \in [Target -> Name \cup {Gone}]
    /\ cache \in [Target -> Name \cup {Gone}]
    /\ asked \in [Request -> Ask]
    /\ request \in [Request -> RequestState]
    /\ told \in [Request -> SUBSET Status]
    /\ posted \in [Request -> [Target -> Nat]]
    /\ serving \in {"open", "draining", "closed"}
    /\ held \in [Target -> SUBSET Name]
    /\ absent \subseteq Request /\ cut \subseteq Request
    /\ lost \in [Request -> Nat]
    /\ faults \in 0 .. MaxFaults

Fresh(pc) == [pc |-> pc, target |-> Nothing, status |-> "200"]

Init ==
    /\ guild \in [Target -> Name]
    /\ cache = guild
    /\ asked \in [Request -> Asked]
    /\ request = [q \in Request |-> Fresh("new")]
    /\ told = [q \in Request |-> {}]
    /\ posted = [q \in Request |-> [t \in Target |-> 0]]
    /\ serving = "open"
    /\ held = [t \in Target |-> {guild[t]}]
    /\ absent = {} /\ cut = {}
    /\ lost = [q \in Request |-> 0]
    /\ faults = 0

SpendFault == faults < MaxFaults /\ faults' = faults + 1

--------------------------------------------------------------------------------
(* The guild and its cache.                                                *)

\* A member or a channel is renamed, leaves, or comes (back).
Changes(t, n) ==
    /\ n # guild[t] /\ SpendFault
    /\ guild' = [guild EXCEPT ![t] = n]
    /\ held' = [held EXCEPT ![t] = @ \cup ({n} \ {Gone})]
    /\ absent' = IF n = Gone THEN absent \cup {q \in InProgress : asked[q].target = t} ELSE absent
    /\ UNCHANGED <<cache, asked, request, told, posted, serving, lost, cut>>

\* The event of the gateway arrives.
Learns(t) ==
    /\ cache[t] # guild[t]
    /\ cache' = [cache EXCEPT ![t] = guild[t]]
    /\ UNCHANGED <<guild, asked, request, told, posted, serving, held, absent, lost, cut, faults>>

--------------------------------------------------------------------------------
(* A request.                                                              *)

Accept(q) ==
    /\ request[q].pc = "new" /\ serving = "open"
    /\ request' = [request EXCEPT ![q].pc = "accepted"]
    /\ absent' = IF asked[q].kind = "member" /\ guild[asked[q].target] = Gone
                   THEN absent \cup {q} ELSE absent
    /\ UNCHANGED <<guild, cache, asked, told, posted, serving, held, lost, cut, faults>>

Answer(q, s) == request' = [request EXCEPT ![q].pc = "answering", ![q].status = s]

Call(q, t) == request' = [request EXCEPT ![q].pc = "calling", ![q].target = t]

\* _require_bearer and the validation handler; FastAPI reads the body before
\* it runs dependencies, and looks at the fields after them.
Refusals(a) ==
    CASE a.kind = "public"        -> {}
      [] a.body = "broken"        -> {"422"}
      [] a.token = "none"         -> {"403"}
      [] a.token = "wrong"        -> {"401"}
      [] a.body = "incomplete"    -> {"422"}
      [] OTHER                    -> {}

\* Whom a name means in the cache; the first one counts.
Named(a) == {t \in IF a.kind = "notify" THEN Member ELSE Channel : cache[t] = a.name}

\* Mutant of Found: members are looked up in the cache, too.
FoundInCache(a) ==
    CASE a.kind \in {"public", "members"} -> {}
      [] a.kind = "member"                -> {t \in Member : t = a.target /\ cache[t] # Gone}
      [] OTHER                            -> Named(a)

\* Mutant of Found: whoever comes first.
FoundAnyone(a) ==
    CASE a.kind \in {"public", "members"} -> {}
      [] a.kind = "member"                -> {a.target}
      [] OTHER -> {t \in IF a.kind = "notify" THEN Member ELSE Channel : cache[t] # Gone}

Found(a) ==
    CASE a.kind \in {"public", "members"} -> {}
      [] a.kind = "member"                -> {a.target}
      [] OTHER                            -> Named(a)

\* Up to the call of Discord nothing is awaited that others could see.
Handle(q) ==
    LET a == asked[q]
    IN /\ request[q].pc = "accepted"
       /\ CASE Refusals(a) # {} -> \E s \in Refusals(a) : Answer(q, s)
            [] Refusals(a) = {} /\ Found(a) # {} -> \E t \in Found(a) : Call(q, t)
            [] Refusals(a) = {} /\ Found(a) = {} ->
                 Answer(q, CASE a.kind \in Posting -> "404"
                             [] a.kind = "member"  -> "not_member"
                             [] OTHER              -> "200")
       /\ UNCHANGED <<guild, cache, asked, told, posted, serving, held, absent, lost, cut, faults>>

--------------------------------------------------------------------------------
(* Discord, and what becomes of its answer.                                *)

Posts(q) ==
    posted' = IF asked[q].kind \in Posting
                THEN [posted EXCEPT ![q][request[q].target] = @ + 1] ELSE posted

\* Mutant of Translated: every failure of Discord is an answer of its own.
TranslatedAs502(outcome) == IF outcome = "forbidden" THEN "forbidden" ELSE "502"

\* The exception handlers: Forbidden, HTTPException below and from 500 on,
\* TimeoutError; any other exception is an internal error.
Translated(outcome) ==
    CASE outcome = "forbidden"              -> "forbidden"
      [] outcome = "refused"                -> "502"
      [] outcome \in {"failed", "timeout"}  -> "503"
      [] outcome = "broken"                 -> "500"

Done(q) == IF asked[q].kind \in Posting THEN "sent" ELSE "200"

\* Discord carries the call out; of an image it may show no attachment.
Succeeds(q) ==
    /\ request[q].pc = "calling" /\ guild[request[q].target] # Gone
    /\ Posts(q)
    /\ \/ Answer(q, Done(q)) /\ UNCHANGED faults
       \/ asked[q].kind = "post_image" /\ Answer(q, "500") /\ SpendFault
    /\ UNCHANGED <<guild, cache, asked, told, serving, held, absent, lost, cut>>

\* NotFound: of a member that is the answer, of others a 4xx of Discord.
Missing(q) ==
    /\ request[q].pc = "calling" /\ guild[request[q].target] = Gone
    /\ Answer(q, IF asked[q].kind = "member" THEN "not_member" ELSE Translated("refused"))
    /\ UNCHANGED <<guild, cache, asked, told, posted, serving, held, absent, lost, cut, faults>>

\* Discord refuses: without permission, for the message, for the rate.
Refused(q) ==
    /\ request[q].pc = "calling" /\ SpendFault
    /\ \E outcome \in {"forbidden", "refused"} : Answer(q, Translated(outcome))
    /\ UNCHANGED <<guild, cache, asked, told, posted, serving, held, absent, lost, cut>>

\* A 5xx, a timeout or a broken connection, before Discord did it or after;
\* discord.py tries some of them again by itself.
Fails(q) ==
    /\ request[q].pc = "calling" /\ SpendFault
    /\ UNCHANGED posted \/ (guild[request[q].target] # Gone /\ Posts(q))
    /\ \/ /\ \E outcome \in {"failed", "timeout", "broken"} : Answer(q, Translated(outcome))
          /\ UNCHANGED lost
       \/ lost' = [lost EXCEPT ![q] = @ + 1] /\ UNCHANGED request
    /\ UNCHANGED <<guild, cache, asked, told, serving, held, absent, cut>>

Reply(q) ==
    /\ request[q].pc = "answering"
    /\ request' = [request EXCEPT ![q] = Fresh("over")]
    /\ \/ told' = [told EXCEPT ![q] = {request[q].status}] /\ UNCHANGED <<cut, faults>>
       \/ cut' = cut \cup {q} /\ SpendFault /\ UNCHANGED told
    /\ UNCHANGED <<guild, cache, asked, posted, serving, held, absent, lost>>

--------------------------------------------------------------------------------
(* Shutdown: MomBot.close and the platform.                                *)

Close ==
    /\ serving = "open" /\ SpendFault
    /\ serving' = "draining"
    /\ UNCHANGED <<guild, cache, asked, request, told, posted, held, absent, lost, cut>>

\* Mutant of MayEnd: close() does not await the task of the server.
MayEndAtOnce == TRUE

\* uvicorn has answered what it had accepted.
MayEnd == InProgress = {}

Drained ==
    /\ serving = "draining" /\ MayEnd
    /\ serving' = "closed"
    /\ UNCHANGED <<guild, cache, asked, request, told, posted, held, absent, lost, cut, faults>>

Ended == [q \in Request |-> IF q \in InProgress THEN Fresh("over") ELSE request[q]]

\* The process ends and a new one starts with a fresh cache.
Restart ==
    /\ serving = "closed"
    /\ serving' = "open"
    /\ request' = Ended
    /\ cache' = guild
    /\ UNCHANGED <<guild, asked, told, posted, held, absent, lost, cut, faults>>

\* The grace period is over, or the process just stops.
Kill ==
    /\ serving # "closed" /\ SpendFault
    /\ serving' = "closed"
    /\ request' = Ended
    /\ cut' = cut \cup InProgress
    /\ UNCHANGED <<guild, cache, asked, told, posted, held, absent, lost>>

Works(q) == Handle(q) \/ Succeeds(q) \/ Missing(q) \/ Reply(q)

Runs == serving # "closed"

Next ==
    \/ \E t \in Target, n \in Name \cup {Gone} : Changes(t, n)
    \/ \E t \in Target : Learns(t)
    \/ \E q \in Request : Accept(q)
    \/ \E q \in Request : Runs /\ Handle(q)
    \/ \E q \in Request : Runs /\ Succeeds(q)
    \/ \E q \in Request : Runs /\ Missing(q)
    \/ \E q \in Request : Runs /\ Refused(q)
    \/ \E q \in Request : Runs /\ Fails(q)
    \/ \E q \in Request : Runs /\ Reply(q)
    \/ Close \/ Drained \/ Restart \/ Kill

Spec == Init /\ [][Next]_vars

\* Handlers go on, Discord answers or the call times out, and a shutdown ends.
FairSpec ==
    /\ Spec
    /\ \A q \in Request : WF_vars(Runs /\ Works(q))
    /\ WF_vars(Drained) /\ WF_vars(Restart)

--------------------------------------------------------------------------------
(* Properties.                                                             *)

\* siege-web may trust the status: "sent" means that Discord has the message;
\* a refusal by the sidecar, that it has not; one by Discord (403, 502), that
\* it has not either unless discord.py had tried before; only 500 and 503 leave
\* it open.  A second copy needs such a repetition, and nobody else gets one.
AnswerTellsDelivery ==
    \A q \in Request :
        LET copies == {t \in Target : posted[q][t] > 0}
        IN /\ "sent" \in told[q] => copies # {}
           /\ told[q] \cap {"401", "403", "404", "422"} # {} => copies = {}
           /\ told[q] \cap {"forbidden", "502"} # {} /\ lost[q] = 0 => copies = {}
           /\ Cardinality(copies) <= 1
           /\ \A t \in copies : posted[q][t] <= 1 + lost[q]

\* However late the gateway's events are, no lookup names a stranger: who was
\* written to has had the name siege-web gave, though another may bear it by
\* now; and "not a member" is said only of who was not in the guild at a moment
\* of the request.
LookupsAreTrue ==
    \A q \in Request :
        /\ \A t \in Target : posted[q][t] > 0 => asked[q].name \in held[t]
        /\ "not_member" \in told[q] => q \in absent

\* What the server has accepted it answers, in a shutdown, too, unless the
\* connection breaks or the process is killed.
AcceptedIsAnswered ==
    \A q \in Request : request[q].pc = "accepted" ~> told[q] # {} \/ q \in cut
================================================================================
