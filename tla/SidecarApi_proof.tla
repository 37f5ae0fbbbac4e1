----------------------------- MODULE SidecarApi_proof -----------------------------
(***************************************************************************)
(* siege-web may trust the status it is answered, whatever the names, the  *)
(* requests and the number of faults.                                      *)
(***************************************************************************)
EXTENDS SidecarApi, FiniteSetTheorems, TLAPS

Working == {"accepted", "calling", "answering"}

Silent(q) == \A t \in Target : posted[q][t] = 0

\* What a status says about the request's messages and its member.
Truthful(q, status) ==
    /\ status = "sent" => ~Silent(q)
    /\ status \in {"401", "403", "404", "422"} => Silent(q)
    /\ status \in {"forbidden", "502"} /\ lost[q] = 0 => Silent(q)
    /\ status = "not_member" => q \in absent

\* Every copy went to the same bearer of the name, and all but one were
\* repetitions by discord.py.
CopiesFit(q) ==
    \A t \in Target :
        posted[q][t] > 0 =>
            /\ asked[q].name \in held[t]
            /\ posted[q][t] <= 1 + lost[q]
            /\ \A u \in Target : posted[q][u] > 0 => u = t

\* While Discord is called, whatever it has shown was a repeated attempt's.
CallFits(q) ==
    request[q].pc = "calling" =>
        /\ asked[q].kind \notin {"public", "members"}
        /\ request[q].target \in Target
        /\ asked[q].kind = "member" => request[q].target = asked[q].target
        /\ asked[q].kind \in Posting => asked[q].name \in held[request[q].target]
        /\ \A t \in Target :
              posted[q][t] > 0 => t = request[q].target /\ posted[q][t] <= lost[q]

\* A member who is gone while the request is worked on was seen to be.
AbsenceSeen(q) ==
    asked[q].kind = "member" /\ request[q].pc \in Working /\ guild[asked[q].target] = Gone
        => q \in absent

RequestFits(q) ==
    /\ request[q].pc \in {"new", "accepted"} => Silent(q)
    /\ request[q].pc # "over" => told[q] = {}
    /\ request[q].pc = "answering" => Truthful(q, request[q].status)
    /\ \A status \in told[q] : Truthful(q, status)
    /\ CopiesFit(q) /\ CallFits(q) /\ AbsenceSeen(q)

\* The names of the guild and of the cache have been borne.
NamesWereHeld ==
    \A t \in Target : /\ guild[t] # Gone => guild[t] \in held[t]
                      /\ cache[t] # Gone => cache[t] \in held[t]

IInv ==
    /\ TypeOK
    /\ NamesWereHeld
    /\ \A q \in Request : asked[q] \in Asked /\ RequestFits(q)

--------------------------------------------------------------------------------
(* Types.                                                                  *)

LEMMA TypeFacts ==
    ASSUME TypeOK
    PROVE  /\ \A t \in Target : guild[t] \in Name \cup {Gone} /\ cache[t] \in Name \cup {Gone}
           /\ \A q \in Request : /\ asked[q] \in Ask
                                 /\ request[q] \in RequestState
                                 /\ request[q].target \in Target \cup {Nothing}
                                 /\ request[q].status \in Status
                                 /\ lost[q] \in Nat
                                 /\ posted[q] \in [Target -> Nat]
                                 /\ \A t \in Target : posted[q][t] \in Nat
           /\ faults \in 0 .. MaxFaults
           /\ SpendFault => faults' \in 0 .. MaxFaults
  <1>1. SpendFault /\ TypeOK => faults' \in 0 .. MaxFaults
    BY ApiAssumption DEF SpendFault, TypeOK
  <1>2. QED
    BY <1>1 DEF TypeOK, RequestState

LEMMA FreshIsState ==
    ASSUME NEW pc \in {"new", "accepted", "calling", "answering", "over"}
    PROVE  Fresh(pc) \in RequestState /\ Fresh(pc).pc = pc
  BY DEF Fresh, RequestState, Status

\* An answer is under way, and nothing else of any request moves.
LEMMA AnswerFacts ==
    ASSUME TypeOK, NEW q \in Request, NEW s \in Status, Answer(q, s)
    PROVE  /\ request' \in [Request -> RequestState]
           /\ request'[q].pc = "answering" /\ request'[q].status = s
           /\ \A r \in Request \ {q} : request'[r] = request[r]
  <1> DEFINE x == [request[q] EXCEPT !.pc = "answering", !.status = s]
  <1>1. request[q] \in RequestState
    BY TypeFacts
  <1>2. x \in RequestState /\ x.pc = "answering" /\ x.status = s
    BY <1>1 DEF RequestState
  <1>3. request' = [request EXCEPT ![q] = x]
    BY DEF Answer, TypeOK
  <1> HIDE DEF x
  <1>4. QED
    BY <1>2, <1>3 DEF TypeOK

LEMMA CallFacts ==
    ASSUME TypeOK, NEW q \in Request, NEW t \in Target, Call(q, t)
    PROVE  /\ request' \in [Request -> RequestState]
           /\ request'[q].pc = "calling" /\ request'[q].target = t
           /\ \A r \in Request \ {q} : request'[r] = request[r]
  <1> DEFINE x == [request[q] EXCEPT !.pc = "calling", !.target = t]
  <1>1. request[q] \in RequestState
    BY TypeFacts
  <1>2. x \in RequestState /\ x.pc = "calling" /\ x.target = t
    BY <1>1 DEF RequestState
  <1>3. request' = [request EXCEPT ![q] = x]
    BY DEF Call, TypeOK
  <1> HIDE DEF x
  <1>4. QED
    BY <1>2, <1>3 DEF TypeOK

\* The message that a call posts is one more for its target.
LEMMA PostsFacts ==
    ASSUME TypeOK, NEW q \in Request, request[q].target \in Target, Posts(q)
    PROVE  /\ posted' \in [Request -> [Target -> Nat]]
           /\ \A r \in Request \ {q} : posted'[r] = posted[r]
           /\ \A t \in Target \ {request[q].target} : posted'[q][t] = posted[q][t]
           /\ posted'[q][request[q].target] =
                IF asked[q].kind \in Posting THEN posted[q][request[q].target] + 1
                                             ELSE posted[q][request[q].target]
  <1> DEFINE t == request[q].target
             x == [posted[q] EXCEPT ![t] = @ + 1]
  <1>1. posted \in [Request -> [Target -> Nat]] /\ posted[q] \in [Target -> Nat]
    BY DEF TypeOK
  <1>2. x \in [Target -> Nat] /\ x[t] = posted[q][t] + 1
        /\ \A u \in Target \ {t} : x[u] = posted[q][u]
    BY <1>1
  <1>3. posted' = IF asked[q].kind \in Posting THEN [posted EXCEPT ![q] = x] ELSE posted
    BY <1>1 DEF Posts
  <1> HIDE DEF x
  <1>4. CASE asked[q].kind \in Posting
    BY <1>1, <1>2, <1>3, <1>4
  <1>5. CASE asked[q].kind \notin Posting
    BY <1>1, <1>3, <1>5
  <1>6. QED
    BY <1>4, <1>5

--------------------------------------------------------------------------------
(* Steps that leave a request where it is.                                 *)

\* Names are added to the history only, and absences, too.
LEMMA Untouched ==
    ASSUME NEW q \in Request, RequestFits(q), UNCHANGED asked,
           request'[q] = request[q], told'[q] = told[q], posted'[q] = posted[q], lost'[q] = lost[q],
           \A t \in Target : held[t] \subseteq held'[t], absent \subseteq absent',
           AbsenceSeen(q)'
    PROVE  RequestFits(q)'
  <1>1. Silent(q)' = Silent(q)
    BY DEF Silent
  <1>2. ASSUME NEW status, Truthful(q, status)
        PROVE  Truthful(q, status)'
    BY <1>1, <1>2 DEF Truthful
  <1>3. request'[q].pc = "answering" => Truthful(q, request[q].status)'
    BY <1>1 DEF RequestFits, Truthful
  <1>4. CopiesFit(q)'
    BY DEF RequestFits, CopiesFit
  <1>5. CallFits(q)'
    BY DEF RequestFits, CallFits
  <1>6. QED
    BY <1>1, <1>2, <1>3, <1>4, <1>5 DEF RequestFits

\* A step that ends requests, or none, and moves no name and no message.
LEMMA Ending ==
    ASSUME IInv, UNCHANGED <<guild, asked, told, posted, held, absent, lost>>,
           cache' \in [Target -> Name \cup {Gone}], request' \in [Request -> RequestState],
           \A t \in Target : cache'[t] \in {cache[t], guild[t]},
           \A q \in Request : request'[q] = request[q] \/ request'[q].pc = "over",
           serving' \in {"open", "draining", "closed"}, cut' \subseteq Request,
           faults' \in 0 .. MaxFaults
    PROVE  IInv'
  <1>1. TypeOK'
    BY DEF IInv, TypeOK
  <1>2. NamesWereHeld'
    BY DEF IInv, NamesWereHeld
  <1>3. ASSUME NEW q \in Request
        PROVE  RequestFits(q)'
    <2>1. RequestFits(q)
      BY DEF IInv
    <2>2. CASE request'[q] = request[q]
      <3>1. AbsenceSeen(q)'
        BY <2>1, <2>2 DEF RequestFits, AbsenceSeen
      <3>2. QED
        BY <2>1, <2>2, <3>1, Untouched
    <2>3. CASE request'[q].pc = "over"
      BY <2>1, <2>3 DEF RequestFits, CopiesFit, CallFits, AbsenceSeen, Truthful, Silent, Working
    <2>4. QED
      BY <2>2, <2>3
  <1>4. QED
    BY <1>1, <1>2, <1>3 DEF IInv

\* A step of one request leaves the others as they were.
LEMMA OneRequest ==
    ASSUME IInv, NEW q \in Request, TypeOK', UNCHANGED <<guild, cache, asked, held>>,
           \A r \in Request \ {q} : /\ request'[r] = request[r] /\ told'[r] = told[r]
                                    /\ posted'[r] = posted[r] /\ lost'[r] = lost[r],
           absent \subseteq absent',
           RequestFits(q)'
    PROVE  IInv'
  <1>1. NamesWereHeld'
    BY DEF IInv, NamesWereHeld
  <1>2. ASSUME NEW r \in Request \ {q}
        PROVE  RequestFits(r)'
    <2>1. RequestFits(r)
      BY DEF IInv
    <2>2. AbsenceSeen(r)'
      BY <2>1 DEF RequestFits, AbsenceSeen
    <2>3. QED
      BY <2>1, <2>2, Untouched
  <1>3. QED
    BY <1>1, <1>2 DEF IInv

LEMMA ChangesStep ==
    ASSUME IInv, NEW t \in Target, NEW n \in Name \cup {Gone}, Changes(t, n)
    PROVE  IInv'
  <1>0. \A q \in Request : RequestFits(q)
    BY DEF IInv
  <1>1. /\ TypeOK /\ NamesWereHeld
        /\ UNCHANGED <<cache, asked, request, told, posted, serving, lost, cut>>
    BY DEF IInv, Changes
  <1>2. /\ guild' \in [Target -> Name \cup {Gone}]
        /\ guild'[t] = n /\ \A u \in Target \ {t} : guild'[u] = guild[u]
        /\ held' \in [Target -> SUBSET Name]
        /\ n # Gone => n \in held'[t]
        /\ \A u \in Target : held[u] \subseteq held'[u]
    <2>1. held[t] \cup ({n} \ {Gone}) \in SUBSET Name
      BY <1>1 DEF TypeOK
    <2>2. QED
      BY <1>1, <2>1 DEF Changes, TypeOK
  <1>3. /\ absent' \subseteq Request /\ absent \subseteq absent'
        /\ n = Gone => \A q \in InProgress : asked[q].target = t => q \in absent'
    <2>1. InProgress \subseteq Request
      BY DEF InProgress
    <2>2. absent \subseteq Request
      BY <1>1 DEF TypeOK
    <2>3. QED
      BY <2>1, <2>2 DEF Changes
  <1>4. faults' \in 0 .. MaxFaults
    BY <1>1, TypeFacts DEF Changes
  <1>5. TypeOK'
    BY <1>1, <1>2, <1>3, <1>4 DEF TypeOK
  <1>6. NamesWereHeld'
    BY <1>1, <1>2 DEF NamesWereHeld
  <1>7. ASSUME NEW q \in Request
        PROVE  RequestFits(q)'
    <2>1. AbsenceSeen(q)'
      <3>1. SUFFICES ASSUME asked[q].kind = "member", request[q].pc \in Working,
                            guild'[asked[q].target] = Gone
                     PROVE  q \in absent'
        BY <1>1 DEF AbsenceSeen
      <3>2. CASE asked[q].target = t
        <4>1. n = Gone
          BY <1>2, <3>1, <3>2
        <4>2. q \in InProgress
          BY <3>1 DEF InProgress, Working
        <4>3. QED
          BY <1>3, <3>2, <4>1, <4>2
      <3>3. CASE asked[q].target # t
        <4>1. guild[asked[q].target] = Gone \/ asked[q].target \notin Target
          BY <1>2, <3>1, <3>3
        <4>2. CASE guild[asked[q].target] = Gone
          <5>1. AbsenceSeen(q)
            BY <1>0 DEF RequestFits
          <5>2. QED
            BY <1>3, <3>1, <4>2, <5>1 DEF AbsenceSeen
        <4>3. CASE asked[q].target \notin Target
          <5>1. guild'[asked[q].target] = guild[asked[q].target]
            BY <1>1, <4>3 DEF Changes, TypeOK
          <5>2. QED
            BY <3>1, <4>2, <5>1
        <4>4. QED
          BY <4>1, <4>2, <4>3
      <3>4. QED
        BY <3>2, <3>3
    <2>2. QED
      BY <1>0, <1>1, <1>2, <1>3, <2>1, Untouched
  <1>8. QED
    BY <1>1, <1>5, <1>6, <1>7 DEF IInv

--------------------------------------------------------------------------------
(* The steps of a request.                                                 *)

LEMMA AcceptStep ==
    ASSUME IInv, NEW q \in Request, Accept(q)
    PROVE  IInv'
  <1> DEFINE x == [request[q] EXCEPT !.pc = "accepted"]
  <1>1. /\ TypeOK /\ RequestFits(q) /\ request[q].pc = "new"
        /\ UNCHANGED <<guild, cache, asked, told, posted, serving, held, lost, cut, faults>>
    BY DEF IInv, Accept
  <1>2. x \in RequestState /\ x.pc = "accepted"
    <2>1. request[q] \in RequestState
      BY <1>1, TypeFacts
    <2>2. QED
      BY <2>1 DEF RequestState
  <1>3. request' = [request EXCEPT ![q] = x]
    BY <1>1 DEF Accept, TypeOK
  <1> HIDE DEF x
  <1>4. /\ request' \in [Request -> RequestState]
        /\ request'[q].pc = "accepted"
        /\ \A r \in Request \ {q} : request'[r] = request[r]
    BY <1>1, <1>2, <1>3 DEF TypeOK
  <1>5. /\ absent' \subseteq Request /\ absent \subseteq absent'
        /\ asked[q].kind = "member" /\ guild[asked[q].target] = Gone => q \in absent'
    BY <1>1 DEF Accept, TypeOK
  <1>6. TypeOK'
    BY <1>1, <1>4, <1>5 DEF TypeOK
  <1>7. Silent(q)
    BY <1>1 DEF RequestFits
  <1>8. Silent(q)' /\ told'[q] = {}
    BY <1>1, <1>7 DEF RequestFits, Silent
  <1>9. CopiesFit(q)' /\ CallFits(q)' /\ AbsenceSeen(q)'
    BY <1>1, <1>4, <1>5, <1>8 DEF CopiesFit, CallFits, AbsenceSeen, Silent
  <1>10. RequestFits(q)'
    BY <1>4, <1>8, <1>9 DEF RequestFits
  <1>11. QED
    BY <1>1, <1>4, <1>5, <1>6, <1>10, OneRequest

LEMMA HandleStep ==
    ASSUME IInv, NEW q \in Request, Handle(q)
    PROVE  IInv'
  <1>1. /\ TypeOK /\ NamesWereHeld /\ RequestFits(q) /\ request[q].pc = "accepted"
        /\ UNCHANGED <<guild, cache, asked, told, posted, serving, held, absent, lost, cut, faults>>
    BY DEF IInv, Handle
  <1>2. Silent(q) /\ told[q] = {} /\ AbsenceSeen(q)
    BY <1>1 DEF RequestFits
  <1>3. Silent(q)' /\ told'[q] = {} /\ CopiesFit(q)'
    BY <1>1, <1>2 DEF Silent, CopiesFit
  <1>4. /\ asked[q] \in Ask
        /\ asked[q].kind \in {"public", "members", "member", "notify", "post_message", "post_image"}
    BY <1>1, TypeFacts DEF Ask
  <1>5. CASE \E s \in Status \ {"sent", "not_member"} : Answer(q, s)
    <2>1. PICK s \in Status \ {"sent", "not_member"} : Answer(q, s)
      BY <1>5
    <2>2. /\ request' \in [Request -> RequestState]
          /\ request'[q].pc = "answering" /\ request'[q].status = s
          /\ \A r \in Request \ {q} : request'[r] = request[r]
      BY <1>1, <2>1, AnswerFacts
    <2>3. TypeOK'
      BY <1>1, <2>2 DEF TypeOK
    <2>4. CallFits(q)' /\ AbsenceSeen(q)'
      BY <1>1, <1>2, <2>2 DEF CallFits, AbsenceSeen, Working
    <2>5. Truthful(q, request[q].status)'
      BY <1>3, <2>1, <2>2 DEF Truthful
    <2>6. RequestFits(q)'
      BY <1>3, <2>2, <2>4, <2>5 DEF RequestFits
    <2>7. QED
      BY <1>1, <2>2, <2>3, <2>6, OneRequest
  <1>6. CASE \E t \in Found(asked[q]) : Call(q, t)
    <2>1. PICK t \in Found(asked[q]) : Call(q, t)
      BY <1>6
    <2>2. /\ t \in Target
          /\ asked[q].kind \notin {"public", "members"}
          /\ asked[q].kind = "member" => t = asked[q].target
          /\ asked[q].kind \in Posting => asked[q].name \in held[t]
      <3>1. CASE asked[q].kind \in {"public", "members"}
        BY <2>1, <3>1 DEF Found
      <3>2. CASE asked[q].kind = "member"
        <4>1. t = asked[q].target
          BY <2>1, <3>2 DEF Found
        <4>2. asked[q] \in Ask /\ asked[q].target \in Member
          BY <1>4, <3>2, ApiAssumption DEF IInv
        <4>3. QED
          BY <3>2, <4>1, <4>2 DEF Target, Posting
      <3>3. CASE asked[q].kind \in Posting
        <4>1. t \in Named(asked[q])
          BY <2>1, <3>3 DEF Found, Posting
        <4>2. t \in Target /\ cache[t] = asked[q].name
          BY <4>1 DEF Named, Target
        <4>3. asked[q].name \in Name
          BY <1>4 DEF Ask
        <4>4. QED
          BY <1>1, <3>3, <4>2, <4>3, ApiAssumption DEF NamesWereHeld, Posting
      <3>4. QED
        BY <1>4, <3>1, <3>2, <3>3 DEF Posting
    <2>3. /\ request' \in [Request -> RequestState]
          /\ request'[q].pc = "calling" /\ request'[q].target = t
          /\ \A r \in Request \ {q} : request'[r] = request[r]
      BY <1>1, <2>1, <2>2, CallFacts
    <2>4. TypeOK'
      BY <1>1, <2>3 DEF TypeOK
    <2>5. AbsenceSeen(q)'
      BY <1>1, <1>2, <2>3 DEF AbsenceSeen, Working
    <2>6. CallFits(q)'
      BY <1>1, <1>3, <2>2, <2>3 DEF CallFits, Silent
    <2>7. RequestFits(q)'
      BY <1>3, <2>3, <2>5, <2>6 DEF RequestFits
    <2>8. QED
      BY <1>1, <2>3, <2>4, <2>7, OneRequest
  <1>7. CASE Refusals(asked[q]) # {} /\ \E s \in Refusals(asked[q]) : Answer(q, s)
    <2>1. Refusals(asked[q]) \subseteq {"422", "403", "401"}
      BY DEF Refusals
    <2>2. QED
      BY <1>5, <1>7, <2>1 DEF Status
  <1>8. CASE Refusals(asked[q]) = {} /\ Found(asked[q]) = {}
    <2>1. asked[q].kind # "member"
      BY <1>8 DEF Found
    <2>2. Answer(q, IF asked[q].kind \in Posting THEN "404" ELSE "200")
      BY <1>8, <2>1 DEF Handle
    <2>3. QED
      BY <1>5, <2>2 DEF Status
  <1>9. QED
    BY <1>6, <1>7, <1>8 DEF Handle

\* While Discord was called, nothing was told, and what it had shown was
\* repeated.
LEMMA CallingFacts ==
    ASSUME IInv, NEW q \in Request, request[q].pc = "calling"
    PROVE  /\ TypeOK /\ RequestFits(q) /\ CopiesFit(q) /\ AbsenceSeen(q)
           /\ told[q] = {}
           /\ request[q].target \in Target /\ lost[q] \in Nat
           /\ asked[q].kind \notin {"public", "members"}
           /\ asked[q].kind = "member" => request[q].target = asked[q].target
           /\ asked[q].kind \in Posting => asked[q].name \in held[request[q].target]
           /\ \A t \in Target : /\ posted[q][t] \in Nat
                                /\ posted[q][t] > 0 => t = request[q].target /\ posted[q][t] <= lost[q]
           /\ lost[q] = 0 => Silent(q)
  <1>1. TypeOK /\ RequestFits(q) /\ CallFits(q) /\ lost[q] \in Nat
        /\ \A t \in Target : posted[q][t] \in Nat
    BY TypeFacts DEF IInv, RequestFits
  <1>2. \A t \in Target : posted[q][t] > 0 => t = request[q].target /\ posted[q][t] <= lost[q]
    BY <1>1 DEF CallFits
  <1>3. ASSUME lost[q] = 0, NEW t \in Target
        PROVE  posted[q][t] = 0
    BY <1>1, <1>2, <1>3
  <1>4. lost[q] = 0 => Silent(q)
    BY <1>3 DEF Silent
  <1>5. QED
    BY <1>1, <1>2, <1>4 DEF CallFits, RequestFits

\* An answer of Discord that posts nothing is told as it is.
LEMMA AnswerStep ==
    ASSUME IInv, NEW q \in Request, request[q].pc = "calling",
           NEW s \in Status, Answer(q, s), Truthful(q, s),
           faults' \in 0 .. MaxFaults,
           UNCHANGED <<guild, cache, asked, told, posted, serving, held, absent, lost, cut>>
    PROVE  IInv'
  <1>1. /\ request' \in [Request -> RequestState]
        /\ request'[q].pc = "answering" /\ request'[q].status = s
        /\ \A r \in Request \ {q} : request'[r] = request[r]
    BY AnswerFacts DEF IInv
  <1>2. /\ TypeOK /\ RequestFits(q) /\ CopiesFit(q) /\ AbsenceSeen(q) /\ told[q] = {}
    BY CallingFacts
  <1>3. TypeOK'
    BY <1>1, <1>2 DEF TypeOK
  <1>4. CopiesFit(q)' /\ CallFits(q)' /\ AbsenceSeen(q)'
    BY <1>1, <1>2 DEF CopiesFit, CallFits, AbsenceSeen, Working
  <1>5. Truthful(q, request[q].status)'
    BY <1>1 DEF Truthful, Silent
  <1>6. told'[q] = {}
    BY <1>2
  <1>7. RequestFits(q)'
    BY <1>1, <1>4, <1>5, <1>6 DEF RequestFits
  <1>8. QED
    BY <1>1, <1>3, <1>7, OneRequest

\* Discord shows the message, if it is one, and then an answer is under way or
\* the attempt is repeated.
LEMMA PostingStep ==
    ASSUME IInv, NEW q \in Request, request[q].pc = "calling", Posts(q),
           faults' \in 0 .. MaxFaults,
           UNCHANGED <<guild, cache, asked, told, serving, held, absent, cut>>,
           \/ /\ \E s \in {Done(q), "500", "503"} : Answer(q, s)
              /\ UNCHANGED lost
           \/ lost' = [lost EXCEPT ![q] = @ + 1] /\ UNCHANGED request
    PROVE  IInv'
  <1> DEFINE u == request[q].target
  <1>1. /\ TypeOK /\ RequestFits(q) /\ AbsenceSeen(q) /\ told[q] = {}
        /\ u \in Target /\ lost[q] \in Nat
        /\ asked[q].kind \notin {"public", "members"}
        /\ asked[q].kind = "member" => u = asked[q].target
        /\ asked[q].kind \in Posting => asked[q].name \in held[u]
        /\ \A t \in Target : /\ posted[q][t] \in Nat
                             /\ posted[q][t] > 0 => t = u /\ posted[q][t] <= lost[q]
    BY CallingFacts
  <1>2. /\ posted' \in [Request -> [Target -> Nat]]
        /\ \A r \in Request \ {q} : posted'[r] = posted[r]
        /\ \A t \in Target \ {u} : posted'[q][t] = posted[q][t]
        /\ posted'[q][u] = IF asked[q].kind \in Posting THEN posted[q][u] + 1 ELSE posted[q][u]
    BY <1>1, PostsFacts
  <1>3. /\ \A t \in Target : posted'[q][t] > 0 => t = u /\ posted'[q][t] <= lost[q] + 1
        /\ asked[q].kind \in Posting => posted'[q][u] > 0
    BY <1>1, <1>2
  <1>4. \A t \in Target : posted'[q][t] > 0 => asked[q].name \in held[t]
    <2>1. ASSUME NEW t \in Target, posted'[q][t] > 0
          PROVE  asked[q].name \in held[t]
      <3>1. CASE asked[q].kind \in Posting
        BY <1>1, <1>3, <2>1, <3>1
      <3>2. CASE asked[q].kind \notin Posting
        BY <1>1, <1>2, <2>1, <3>2 DEF RequestFits, CopiesFit
      <3>3. QED
        BY <3>1, <3>2
    <2>2. QED
      BY <2>1
  <1>5. told'[q] = {} /\ asked'[q] = asked[q] /\ held' = held
    BY <1>1
  <1>6. CASE \E s \in {Done(q), "500", "503"} : Answer(q, s) /\ UNCHANGED lost
    <2>1. PICK s \in {Done(q), "500", "503"} : Answer(q, s) /\ UNCHANGED lost
      BY <1>6
    <2>2. s \in Status
      BY <2>1 DEF Done, Status
    <2>3. /\ request' \in [Request -> RequestState]
          /\ request'[q].pc = "answering" /\ request'[q].status = s
          /\ \A r \in Request \ {q} : request'[r] = request[r]
      BY <1>1, <2>1, <2>2, AnswerFacts
    <2>4. TypeOK'
      BY <1>1, <1>2, <2>1, <2>3 DEF TypeOK
    <2>5. CopiesFit(q)'
      <3>1. \A t \in Target : posted'[q][t] > 0 => posted'[q][t] <= 1 + lost'[q]
        BY <1>1, <1>2, <1>3, <2>1
      <3>2. \A t, v \in Target : posted'[q][t] > 0 /\ posted'[q][v] > 0 => v = t
        BY <1>3
      <3>3. QED
        BY <1>4, <1>5, <3>1, <3>2 DEF CopiesFit
    <2>6. CallFits(q)' /\ AbsenceSeen(q)'
      BY <1>1, <2>3 DEF CallFits, AbsenceSeen, Working
    <2>7. Truthful(q, request[q].status)'
      <3>1. s = "sent" => asked[q].kind \in Posting
        BY <2>1 DEF Done
      <3>2. s = "sent" => posted'[q][u] # 0
        BY <1>1, <1>2, <3>1
      <3>3. s = "sent" => ~Silent(q)'
        BY <1>1, <3>2 DEF Silent
      <3>4. s \in {"sent", "200", "500", "503"}
        BY <2>1 DEF Done
      <3>5. QED
        BY <2>3, <3>3, <3>4 DEF Truthful
    <2>8. RequestFits(q)'
      BY <1>5, <2>3, <2>5, <2>6, <2>7 DEF RequestFits
    <2>9. QED
      BY <1>2, <2>1, <2>3, <2>4, <2>8, OneRequest, <1>1 DEF TypeOK
  <1>7. CASE lost' = [lost EXCEPT ![q] = @ + 1] /\ UNCHANGED request
    <2>1. /\ lost' \in [Request -> Nat] /\ lost'[q] = lost[q] + 1
          /\ \A r \in Request \ {q} : lost'[r] = lost[r]
      BY <1>1, <1>7 DEF TypeOK
    <2>2. TypeOK'
      BY <1>1, <1>2, <1>7, <2>1 DEF TypeOK
    <2>3. \A t \in Target : posted'[q][t] > 0 => t = u /\ posted'[q][t] <= lost'[q]
      BY <1>3, <2>1
    <2>4. CopiesFit(q)'
      <3>1. \A t \in Target : posted'[q][t] > 0 => posted'[q][t] <= 1 + lost'[q]
        BY <1>1, <1>2, <2>1, <2>3
      <3>2. \A t, v \in Target : posted'[q][t] > 0 /\ posted'[q][v] > 0 => v = t
        BY <1>3
      <3>3. QED
        BY <1>4, <1>5, <3>1, <3>2 DEF CopiesFit
    <2>5. AbsenceSeen(q)'
      BY <1>1, <1>7 DEF AbsenceSeen
    <2>6. CallFits(q)'
      BY <1>1, <1>7, <2>3 DEF CallFits
    <2>7. RequestFits(q)'
      BY <1>5, <1>7, <2>4, <2>5, <2>6 DEF RequestFits
    <2>8. QED
      BY <1>2, <1>7, <2>1, <2>2, <2>7, OneRequest
  <1>8. QED
    BY <1>6, <1>7

LEMMA SucceedsStep ==
    ASSUME IInv, NEW q \in Request, Succeeds(q)
    PROVE  IInv'
  <1>1. /\ request[q].pc = "calling" /\ Posts(q)
        /\ \E s \in {Done(q), "500", "503"} : Answer(q, s)
        /\ UNCHANGED <<guild, cache, asked, told, serving, held, absent, lost, cut>>
    BY DEF Succeeds
  <1>2. faults' \in 0 .. MaxFaults
    BY TypeFacts DEF Succeeds, IInv
  <1>3. QED
    BY <1>1, <1>2, PostingStep

LEMMA MissingStep ==
    ASSUME IInv, NEW q \in Request, Missing(q)
    PROVE  IInv'
  <1>1. /\ request[q].pc = "calling" /\ guild[request[q].target] = Gone
        /\ UNCHANGED <<guild, cache, asked, told, posted, serving, held, absent, lost, cut, faults>>
    BY DEF Missing
  <1>2. /\ TypeOK /\ AbsenceSeen(q) /\ (lost[q] = 0 => Silent(q))
        /\ asked[q].kind = "member" => request[q].target = asked[q].target
    BY <1>1, CallingFacts
  <1>3. faults' \in 0 .. MaxFaults
    BY <1>1, <1>2 DEF TypeOK
  <1>4. CASE asked[q].kind = "member"
    <2>1. Truthful(q, "not_member")
      BY <1>1, <1>2, <1>4 DEF AbsenceSeen, Working, Truthful
    <2>2. Answer(q, "not_member") /\ "not_member" \in Status
      BY <1>4 DEF Missing, Status
    <2>3. QED
      BY <1>1, <1>3, <2>1, <2>2, AnswerStep
  <1>5. CASE asked[q].kind # "member"
    <2>1. Truthful(q, "502")
      BY <1>2 DEF Truthful
    <2>2. Answer(q, "502") /\ "502" \in Status
      BY <1>5 DEF Missing, Translated, Status
    <2>3. QED
      BY <1>1, <1>3, <2>1, <2>2, AnswerStep
  <1>6. QED
    BY <1>4, <1>5

LEMMA RefusedStep ==
    ASSUME IInv, NEW q \in Request, Refused(q)
    PROVE  IInv'
  <1>1. /\ request[q].pc = "calling"
        /\ UNCHANGED <<guild, cache, asked, told, posted, serving, held, absent, lost, cut>>
    BY DEF Refused
  <1>2. lost[q] = 0 => Silent(q)
    BY <1>1, CallingFacts
  <1>3. faults' \in 0 .. MaxFaults
    BY TypeFacts DEF Refused, IInv
  <1>4. PICK s \in {"forbidden", "502"} : Answer(q, s)
    BY DEF Refused, Translated
  <1>5. s \in Status /\ Truthful(q, s)
    BY <1>2, <1>4 DEF Status, Truthful
  <1>6. QED
    BY <1>1, <1>3, <1>4, <1>5, AnswerStep

LEMMA FailsStep ==
    ASSUME IInv, NEW q \in Request, Fails(q)
    PROVE  IInv'
  <1>1. /\ request[q].pc = "calling"
        /\ UNCHANGED <<guild, cache, asked, told, serving, held, absent, cut>>
    BY DEF Fails
  <1>2. faults' \in 0 .. MaxFaults
    BY TypeFacts DEF Fails, IInv
  <1>3. \/ (\E s \in {"500", "503"} : Answer(q, s)) /\ UNCHANGED lost
        \/ lost' = [lost EXCEPT ![q] = @ + 1] /\ UNCHANGED request
    BY DEF Fails, Translated
  <1>4. CASE Posts(q)
    BY <1>1, <1>2, <1>3, <1>4, PostingStep
  <1>5. CASE UNCHANGED posted
    <2>1. CASE (\E s \in {"500", "503"} : Answer(q, s)) /\ UNCHANGED lost
      <3>1. PICK s \in {"500", "503"} : Answer(q, s)
        BY <2>1
      <3>2. s \in Status /\ Truthful(q, s)
        BY <3>1 DEF Status, Truthful
      <3>3. QED
        BY <1>1, <1>2, <1>5, <2>1, <3>1, <3>2, AnswerStep
    <2>2. CASE lost' = [lost EXCEPT ![q] = @ + 1] /\ UNCHANGED request
      <3>1. /\ TypeOK /\ RequestFits(q) /\ CopiesFit(q) /\ CallFits(q) /\ AbsenceSeen(q)
            /\ told[q] = {} /\ lost[q] \in Nat
            /\ \A t \in Target : posted[q][t] \in Nat
        BY <1>1, CallingFacts DEF RequestFits
      <3>2. /\ lost' \in [Request -> Nat] /\ lost'[q] = lost[q] + 1
            /\ \A r \in Request \ {q} : lost'[r] = lost[r]
        BY <2>2, <3>1 DEF TypeOK
      <3>3. TypeOK'
        BY <1>1, <1>2, <1>5, <2>2, <3>1, <3>2 DEF TypeOK
      <3>4. \A t \in Target : /\ posted[q][t] <= 1 + lost[q] => posted[q][t] <= 1 + lost'[q]
                              /\ posted[q][t] <= lost[q] => posted[q][t] <= lost'[q]
        BY <3>1, <3>2
      <3>5. CopiesFit(q)'
        BY <1>1, <1>5, <3>1, <3>4 DEF CopiesFit
      <3>6. CallFits(q)'
        BY <1>1, <1>5, <2>2, <3>1, <3>4 DEF CallFits
      <3>7. AbsenceSeen(q)' /\ told'[q] = {} /\ request'[q].pc = "calling"
        BY <1>1, <2>2, <3>1 DEF AbsenceSeen
      <3>8. RequestFits(q)'
        BY <3>5, <3>6, <3>7 DEF RequestFits
      <3>9. QED
        BY <1>1, <1>5, <2>2, <3>2, <3>3, <3>8, OneRequest
    <2>3. QED
      BY <1>3, <2>1, <2>2
  <1>6. QED
    BY <1>4, <1>5 DEF Fails

LEMMA ReplyStep ==
    ASSUME IInv, NEW q \in Request, Reply(q)
    PROVE  IInv'
  <1>1. /\ TypeOK /\ RequestFits(q) /\ CopiesFit(q) /\ request[q].pc = "answering"
        /\ told[q] = {} /\ request[q].status \in Status /\ Truthful(q, request[q].status)
        /\ UNCHANGED <<guild, cache, asked, posted, serving, held, absent, lost>>
    BY TypeFacts DEF IInv, Reply, RequestFits
  <1>2. /\ request' \in [Request -> RequestState]
        /\ request'[q].pc = "over"
        /\ \A r \in Request \ {q} : request'[r] = request[r]
    BY <1>1, FreshIsState DEF Reply, TypeOK
  <1>3. /\ told' \in [Request -> SUBSET Status]
        /\ told'[q] \subseteq {request[q].status}
        /\ \A r \in Request \ {q} : told'[r] = told[r]
    BY <1>1 DEF Reply, TypeOK
  <1>4. faults' \in 0 .. MaxFaults /\ cut' \subseteq Request
    BY <1>1, TypeFacts DEF Reply, TypeOK
  <1>5. TypeOK'
    BY <1>1, <1>2, <1>3, <1>4 DEF TypeOK
  <1>6. \A status \in told'[q] : Truthful(q, status)'
    BY <1>1, <1>3 DEF Truthful, Silent
  <1>7. CopiesFit(q)' /\ CallFits(q)' /\ AbsenceSeen(q)'
    BY <1>1, <1>2 DEF CopiesFit, CallFits, AbsenceSeen, Working
  <1>8. RequestFits(q)'
    BY <1>2, <1>6, <1>7 DEF RequestFits
  <1>9. QED
    BY <1>1, <1>2, <1>3, <1>5, <1>8, OneRequest

--------------------------------------------------------------------------------
(* The steps of the server.                                                *)

LEMMA EndedFacts ==
    ASSUME TypeOK
    PROVE  /\ Ended \in [Request -> RequestState]
           /\ \A q \in Request : Ended[q] = request[q] \/ Ended[q].pc = "over"
  BY FreshIsState, TypeFacts DEF Ended

LEMMA ServerStep ==
    ASSUME IInv, Close \/ Drained \/ Restart \/ Kill \/ \E t \in Target : Learns(t)
    PROVE  IInv'
  <1>1. TypeOK /\ InProgress \subseteq Request
    BY DEF IInv, InProgress
  <1>2. /\ UNCHANGED <<guild, asked, told, posted, held, absent, lost>>
        /\ serving' \in {"open", "draining", "closed"}
        /\ cut' \subseteq Request
        /\ faults' \in 0 .. MaxFaults
    BY <1>1, TypeFacts DEF Close, Drained, Restart, Kill, Learns, TypeOK
  <1>3. /\ cache' \in [Target -> Name \cup {Gone}]
        /\ \A t \in Target : cache'[t] \in {cache[t], guild[t]}
    <2>1. CASE \E t \in Target : Learns(t)
      BY <1>1, <2>1 DEF Learns, TypeOK
    <2>2. CASE Close \/ Drained \/ Restart \/ Kill
      BY <1>1, <2>2 DEF Close, Drained, Restart, Kill, TypeOK
    <2>3. QED
      BY <2>1, <2>2
  <1>4. /\ request' \in [Request -> RequestState]
        /\ \A q \in Request : request'[q] = request[q] \/ request'[q].pc = "over"
    <2>1. CASE request' = request
      BY <1>1, <2>1 DEF TypeOK
    <2>2. CASE request' = Ended
      BY <1>1, <2>2, EndedFacts
    <2>3. QED
      BY <2>1, <2>2 DEF Close, Drained, Restart, Kill, Learns
  <1>5. QED
    BY <1>2, <1>3, <1>4, Ending

--------------------------------------------------------------------------------
(* The theorems.                                                           *)

LEMMA InitHolds == Init => IInv
  <1>1. SUFFICES ASSUME Init
                 PROVE  IInv
    OBVIOUS
  <1>2. TypeOK
    <2>1. asked \in [Request -> Ask]
      BY <1>1, ApiAssumption DEF Init
    <2>2. request \in [Request -> RequestState]
      BY <1>1, FreshIsState DEF Init
    <2>3. held \in [Target -> SUBSET Name]
      BY <1>1 DEF Init
    <2>4. posted \in [Request -> [Target -> Nat]]
      BY <1>1 DEF Init
    <2>5. faults \in 0 .. MaxFaults
      BY <1>1, ApiAssumption DEF Init
    <2>6. /\ guild \in [Target -> Name \cup {Gone}] /\ cache \in [Target -> Name \cup {Gone}]
          /\ told \in [Request -> SUBSET Status] /\ lost \in [Request -> Nat]
          /\ serving = "open" /\ absent = {} /\ cut = {}
      BY <1>1 DEF Init
    <2>7. QED
      BY <2>1, <2>2, <2>3, <2>4, <2>5, <2>6 DEF TypeOK
  <1>3. NamesWereHeld
    BY <1>1 DEF Init, NamesWereHeld
  <1>4. ASSUME NEW q \in Request
        PROVE  RequestFits(q)
    <2>1. request[q].pc = "new"
      BY <1>1, FreshIsState DEF Init
    <2>2. told[q] = {} /\ \A t \in Target : posted[q][t] = 0
      BY <1>1 DEF Init
    <2>3. QED
      BY <2>1, <2>2 DEF RequestFits, Silent, CopiesFit, CallFits, AbsenceSeen, Working
  <1>5. \A q \in Request : asked[q] \in Asked
    BY <1>1 DEF Init
  <1>6. QED
    BY <1>2, <1>3, <1>4, <1>5 DEF IInv

LEMMA Inductive == IInv /\ [Next]_vars => IInv'
  <1>1. SUFFICES ASSUME IInv, [Next]_vars
                 PROVE  IInv'
    OBVIOUS
  <1>2. CASE Next
    BY <1>1, <1>2, ChangesStep, AcceptStep, HandleStep, SucceedsStep, MissingStep, RefusedStep,
       FailsStep, ReplyStep, ServerStep DEF Next
  <1>3. CASE UNCHANGED vars
    BY <1>1, <1>3, Ending DEF vars, IInv, TypeOK
  <1>4. QED
    BY <1>1, <1>2, <1>3

\* What is told, posted and looked up fits together: the invariant of the
\* endpoints.
THEOREM InvariantHolds == Spec => []IInv
  <1>1. QED
    BY InitHolds, Inductive, PTL DEF Spec

\* The variables of the endpoints keep their types.
THEOREM TypeCorrect == Spec => []TypeOK
  <1>1. IInv => TypeOK
    BY DEF IInv
  <1>2. QED
    BY <1>1, InvariantHolds, PTL

\* siege-web may infer from the status whether Discord has the message, for any
\* number of requests, failures and repetitions (sidecar/app.py, its endpoints
\* and exception handlers).
THEOREM StatusesAreTrue == Spec => []AnswerTellsDelivery
  <1>1. ASSUME IInv, NEW q \in Request
        PROVE  LET copies == {t \in Target : posted[q][t] > 0}
               IN /\ "sent" \in told[q] => copies # {}
                  /\ told[q] \cap {"401", "403", "404", "422"} # {} => copies = {}
                  /\ told[q] \cap {"forbidden", "502"} # {} /\ lost[q] = 0 => copies = {}
                  /\ Cardinality(copies) <= 1
                  /\ \A t \in copies : posted[q][t] <= 1 + lost[q]
    <2> DEFINE copies == {t \in Target : posted[q][t] > 0}
    <2>1. RequestFits(q) /\ CopiesFit(q) /\ \A t \in Target : posted[q][t] \in Nat
      BY <1>1, TypeFacts DEF IInv, RequestFits
    <2>2. Silent(q) <=> copies = {}
      BY <2>1 DEF Silent
    <2>3. Cardinality(copies) <= 1
      <3>1. CASE copies = {}
        BY <3>1, FS_EmptySet
      <3>2. CASE copies # {}
        <4>1. PICK t \in copies : TRUE
          BY <3>2
        <4>2. copies = {t}
          BY <2>1, <4>1 DEF CopiesFit
        <4>3. Cardinality({t}) = 1
          BY FS_Singleton
        <4>4. QED
          BY <4>2, <4>3
      <3>3. QED
        BY <3>1, <3>2
    <2>4. \A t \in copies : posted[q][t] <= 1 + lost[q]
      BY <2>1 DEF CopiesFit
    <2>5. \A status \in told[q] : Truthful(q, status)
      BY <2>1 DEF RequestFits
    <2> HIDE DEF copies
    <2>6. /\ "sent" \in told[q] => copies # {}
          /\ told[q] \cap {"401", "403", "404", "422"} # {} => copies = {}
          /\ told[q] \cap {"forbidden", "502"} # {} /\ lost[q] = 0 => copies = {}
      BY <2>2, <2>5 DEF Truthful
    <2>7. QED
      BY <2>3, <2>4, <2>6 DEF copies
  <1>2. IInv => AnswerTellsDelivery
    BY <1>1 DEF AnswerTellsDelivery
  <1>3. QED
    BY <1>2, InvariantHolds, PTL

\* No lookup in the lagging cache names a stranger, and "not a member" is said
\* only of who was away (sidecar/app.py, get_member and the three lookups).
THEOREM LookupsNameTheBearer == Spec => []LookupsAreTrue
  <1>1. IInv => LookupsAreTrue
    BY DEF IInv, LookupsAreTrue, RequestFits, CopiesFit, Truthful
  <1>2. QED
    BY <1>1, InvariantHolds, PTL
================================================================================
