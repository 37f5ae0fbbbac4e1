-------------------------- MODULE NewMemberAlerts_proof --------------------------
(***************************************************************************)
(* Officers' commands and the alerts for new members, for any processes,   *)
(* interactions, officers and notifications: what an officer is told is    *)
(* true, every change is asked for once, and alerts go to whom they must.  *)
(***************************************************************************)
EXTENDS NewMemberAlerts, TLAPS

\* What a call that said "done" must have witnessed.
Shown(c) ==
    IF command[c].kind = "update" THEN command[c].fields \subseteq witness[c]
    ELSE "done" \in witness[c]

Refusals == {"officers_only", "invalid", "not_found"}

\* How far a call is, and what it has seen and done by then.
CallOK(c) ==
    LET kind == command[c].kind
        pc == call[c].pc
        answer == call[c].answer
    IN /\ heard[c] # {} => pc = "sent"
       /\ pc \in {"new", "sent"} => call[c].at = Nobody
       /\ told[c] # {} => pc \in {"answering", "over"}
       /\ pc \in {"new", "sent", "running", "found"} => c \notin wrote
       /\ pc = "found" => MayRun(c) /\ kind \in {"update", "remove"} \cup Setting
       /\ pc = "written" => kind \in {"add", "update"}
       /\ pc \in {"found", "written"} /\ kind \in {"update", "remove"} => call[c].row # NoRow
       /\ pc = "found" /\ kind = "update" => command[c].fields \ Dirty(c) \subseteq witness[c]
       /\ pc = "found" /\ kind = "remove" => Same(c) \/ "done" \in witness[c]
       /\ pc = "written" /\ kind = "update" => Shown(c)
       /\ pc = "answering" /\ answer = "done" /\ kind \notin Reading => Shown(c)
       /\ pc = "answering" /\ answer = "not_found" => "not_found" \in witness[c]
       /\ pc = "answering" /\ answer \in Refusals => c \notin wrote

CallsOK == \A c \in Call : CallOK(c)

\* A call that no other of its officer overlapped still runs alone, and the
\* table is what it is about to tell.
AloneOK == \A c \in alone :
    /\ Sets(c) /\ call[c].pc # "new"
    /\ InProgress(c) => Rivals(c) = {}
    /\ call[c].pc = "answering" /\ call[c].answer = "done" =>
          (command[c].officer \in subscribed <=> command[c].kind = "on")

\* What an officer knows is so, and nobody is about to change it.
KnownOK == \A o \in Officer : setting[o] # "unknown" =>
    /\ o \in subscribed <=> setting[o] = "on"
    /\ \A c \in Call : Sets(c) /\ command[c].officer = o =>
          call[c].pc \in {"new", "answering", "over"}

\* How far on_member_join is in a process, and whom it has yet to write to.
HandlerOK(p) ==
    LET h == handler[p]
        on == promised[p]["on"]
        off == promised[p]["off"]
    IN /\ \A o \in on : setting[o] = "on" /\ o \in permitted
       /\ \A o \in off : setting[o] = "off"
       /\ h.pc \in {"idle", "joined", "welcoming", "loading"} =>
             h.todo = {} /\ h.cur = {} /\ alerted[p] = {}
       /\ h.pc = "alerting" => h.cur = {}
       /\ off \cap (h.todo \cup h.cur \cup alerted[p]) = {}
       /\ h.pc \in {"alerting", "sending"} => on \subseteq h.todo \cup h.cur \cup alerted[p]
       /\ h.pc = "done" => on \subseteq alerted[p]

HandlersOK == \A p \in Replica : HandlerOK(p)

AlertInv == TypeOK /\ CallsOK /\ AnswersAreTrue /\ AloneOK /\ KnownOK /\ HandlersOK

--------------------------------------------------------------------------------
(* What the operators of OfficerCommands do.                               *)

LEMMA AnsweringIs ==
    ASSUME call \in [Call -> CallState], NEW c \in Call, NEW a \in Answer, Answering(c, a)
    PROVE  /\ call' \in [Call -> CallState]
           /\ \A d \in Call \ {c} : call'[d] = call[d]
           /\ call'[c].pc = "answering" /\ call'[c].answer = a /\ call'[c].at = call[c].at
<1> DEFINE s == call[c]
           s1 == [s EXCEPT !.pc = "answering"]
           s2 == [s1 EXCEPT !.answer = a]
           s3 == [s2 EXCEPT !.row = NoRow]
<1>1. s \in CallState
    OBVIOUS
<1>2. s1 \in CallState /\ s1.pc = "answering" /\ s1.at = s.at
    BY <1>1 DEF CallState
<1> HIDE DEF s1
<1>3. s2 \in CallState /\ s2.pc = "answering" /\ s2.at = s.at /\ s2.answer = a
    BY <1>2 DEF CallState
<1> HIDE DEF s2
<1>4. s3 \in CallState /\ s3.pc = "answering" /\ s3.at = s.at /\ s3.answer = a
    BY <1>3 DEF CallState
<1>5. call' = [call EXCEPT ![c] = s3]
    BY DEF Answering, s1, s2, s3, s
<1> HIDE DEF s3, s
<1> QED
    BY <1>4, <1>5 DEF s

LEMMA MovesIs ==
    ASSUME call \in [Call -> CallState], NEW c \in Call, Moves(c, "sent") \/ Moves(c, "found") \/ Moves(c, "written")
    PROVE  /\ call' \in [Call -> CallState]
           /\ \A d \in Call \ {c} : call'[d] = call[d]
           /\ call'[c].at = call[c].at /\ call'[c].row = call[c].row
           /\ \A pc \in {"sent", "found", "written"} : Moves(c, pc) => call'[c].pc = pc
  BY DEF Moves, CallState

LEMMA EndsIs ==
    ASSUME call \in [Call -> CallState], NEW c \in Call, Ends(c)
    PROVE  /\ call' \in [Call -> CallState]
           /\ \A d \in Call \ {c} : call'[d] = call[d]
           /\ call'[c].pc = "over"
  BY DEF Ends, Idle, CallState, Answer

\* A row with the fields given.
LEMMA WrittenIs ==
    ASSUME NEW c \in Call, command[c] \in Command, NEW row \in Row, NEW fields
    PROVE  /\ Written(c, row, fields) \in Row
           /\ Written(c, row, fields).by = row.by
           /\ Written(c, row, fields).body = IF "body" \in fields THEN command[c].body ELSE row.body
           /\ Written(c, row, fields).enabled =
                 IF "enabled" \in fields THEN command[c].enabled ELSE row.enabled
<1>1. command[c].body \in Body /\ command[c].enabled \in BOOLEAN
    BY DEF Command
<1>2. row.by \in Call \cup {Nobody} /\ row.body \in Body /\ row.enabled \in BOOLEAN
    BY DEF Row
<1> DEFINE body == IF "body" \in fields THEN command[c].body ELSE row.body
           enabled == IF "enabled" \in fields THEN command[c].enabled ELSE row.enabled
<1>3. body \in Body /\ enabled \in BOOLEAN
    BY <1>1, <1>2
<1> DEFINE r1 == [row EXCEPT !.body = body]
           r2 == [r1 EXCEPT !.enabled = enabled]
<1>4. Written(c, row, fields) = r2
    BY DEF Written
<1> HIDE DEF body, enabled
<1>5. r1 \in Row /\ r1.by = row.by /\ r1.body = body
    BY <1>3 DEF Row
<1> HIDE DEF r1
<1>6. r2 \in Row /\ r2.by = row.by /\ r2.body = body /\ r2.enabled = enabled
    BY <1>3, <1>5 DEF Row
<1> QED
    BY <1>4, <1>6 DEF body, enabled

LEMMA RowIsNotNone == NoRow \notin Row
  BY OfficerAssumption

\* What is seen of the tables on behalf of a call.
LEMMA FactsAre ==
    ASSUME NEW tab, NEW sub, NEW c \in Call
    PROVE  LET k == command[c]
               row == tab[k.title]
           IN /\ Facts(tab, sub, c) \subseteq Fact
              /\ "not_found" \in Facts(tab, sub, c) <=>
                    k.kind \in {"update", "remove", "get"} /\ row = NoRow
              /\ "body" \in Facts(tab, sub, c) <=>
                    k.kind = "update" /\ "body" \in k.fields /\ row # NoRow /\ row.body = k.body
              /\ "enabled" \in Facts(tab, sub, c) <=>
                    k.kind = "update" /\ "enabled" \in k.fields /\ row # NoRow /\ row.enabled = k.enabled
              /\ k.kind = "add" => ("done" \in Facts(tab, sub, c) <=> row # NoRow /\ row.by = c)
              /\ k.kind = "remove" => ("done" \in Facts(tab, sub, c) <=> row = NoRow)
              /\ k.kind = "on" => ("done" \in Facts(tab, sub, c) <=> k.officer \in sub)
              /\ k.kind = "off" => ("done" \in Facts(tab, sub, c) <=> k.officer \notin sub)
  BY DEF Facts, Fact

LEMMA Witnessed ==
    ASSUME witness \in [Call -> SUBSET Fact], Witness
    PROVE  /\ witness' \in [Call -> SUBSET Fact]
           /\ \A c \in Call : witness[c] \subseteq witness'[c]
           /\ \A c \in Call : call'[c].pc \in {"found", "written", "answering"} =>
                Facts(table', subscribed', c) \subseteq witness'[c]
<1>1. \A c \in Call : Facts(table', subscribed', c) \subseteq Fact
    BY DEF Facts
<1>2. \A c \in Call :
         witness'[c] = IF call'[c].pc \in {"found", "written", "answering"}
                         THEN witness[c] \cup Facts(table', subscribed', c) ELSE witness[c]
    BY DEF Witness
<1>3. \A c \in Call : witness'[c] \subseteq Fact
    BY <1>1, <1>2
<1>4. witness' = [c \in Call |-> witness'[c]]
    BY DEF Witness
<1> QED
    BY <1>2, <1>3, <1>4

--------------------------------------------------------------------------------
(* One step of one call.                                                   *)

\* A row keeps its key until it is removed.
RowsEndure == \A t \in Title :
    \/ table'[t] = table[t] \/ table[t] = NoRow \/ table'[t] = NoRow
    \/ table'[t] # NoRow /\ table'[t].by = table[t].by

CallStep(c) ==
    /\ UNCHANGED command /\ RowsEndure
    /\ \A d \in Call \ {c} : /\ call'[d] = call[d] /\ told'[d] = told[d] /\ heard'[d] = heard[d]
                             /\ d \in wrote' <=> d \in wrote

\* What a step does to the settings and to what officers know of them.
SettingStep ==
    /\ UNCHANGED command
    /\ \A o \in Officer : \/ o \in subscribed' <=> o \in subscribed
                          \/ \E c \in Call : /\ Sets(c) /\ command[c].officer = o
                                             /\ call[c].pc = "found"
    /\ \A c \in Call :
          /\ call[c].pc = "new" /\ call'[c].pc # "new" =>
                UNCHANGED <<subscribed, told>> /\ \A d \in Call \ {c} : call'[d] = call[d]
          /\ call[c].pc # "new" => call'[c].pc # "new"
          /\ call[c].pc = "over" => call'[c].pc = "over"
          /\ call[c].pc = "answering" => call'[c].pc \in {"answering", "over"}
          /\ told'[c] # told[c] => call[c].pc = "answering" /\ told'[c] = told[c] \cup {call[c].answer}
          /\ Sets(c) /\ call'[c].pc = "answering" /\ call'[c].answer = "done" =>
                \/ call[c].pc = "answering" /\ call[c].answer = "done"
                \/ command[c].officer \in subscribed' <=> command[c].kind = "on"
          /\ c \in wrote' => c \in wrote \/ told'[c] = {}

\* The step of ChangesAreAskedOnce.
AskedOnce ==
    UNCHANGED <<table, subscribed>> \/
        \E c \in Call : /\ c \notin wrote /\ command[c].allowed /\ command[c].valid
                        /\ IsChangeOf(c)
                        /\ wrote' = wrote \cup {c}

Stepped == OfficerTypeOK' /\ CallsOK' /\ SettingStep /\ AskedOnce

\* What the other calls have established still holds.
LEMMA OthersStayOK ==
    ASSUME OfficerTypeOK, CallsOK, NEW c \in Call, CallStep(c), Witness, CallOK(c)'
    PROVE  CallsOK'
<1> SUFFICES ASSUME NEW d \in Call \ {c} PROVE CallOK(d)'
    BY DEF CallsOK
<1>1. CallOK(d) /\ command[d] \in Command /\ command' = command
    BY DEF CallsOK, OfficerTypeOK, CallStep
<1>2. /\ call'[d] = call[d] /\ told'[d] = told[d] /\ heard'[d] = heard[d]
      /\ d \in wrote' <=> d \in wrote
    BY DEF CallStep
<1>3. witness[d] \subseteq witness'[d]
    BY Witnessed DEF OfficerTypeOK
<1>4. MayRun(d)' = MayRun(d) /\ Dirty(d)' = Dirty(d)
    BY <1>1, <1>2 DEF MayRun, Dirty
<1>5. Shown(d) => Shown(d)'
    BY <1>1, <1>3 DEF Shown
<1>6. call[d].pc = "found" /\ command[d].kind = "remove" => Same(d)' \/ "done" \in witness'[d]
    <2> SUFFICES ASSUME call[d].pc = "found", command[d].kind = "remove"
                 PROVE  Same(d)' \/ "done" \in witness'[d]
        OBVIOUS
    <2>1. CASE "done" \in witness[d]
        BY <1>3, <2>1
    <2>2. CASE Same(d)
        <3> DEFINE t == command[d].title
        <3>1. t \in Title /\ table[t] # NoRow /\ table[t].by = call[d].row.by
            BY <1>1, <2>2 DEF Same, Command
        <3>2. CASE table'[t] = NoRow
            <4>1. "done" \in Facts(table', subscribed', d)
                BY <3>2, FactsAre
            <4> QED
                BY <1>2, <4>1, Witnessed DEF OfficerTypeOK
        <3>3. CASE table'[t] # NoRow
            <4>1. table'[t].by = call[d].row.by
                BY <3>1, <3>3 DEF CallStep, RowsEndure
            <4> QED
                BY <1>1, <1>2, <3>3, <4>1 DEF Same
        <3> QED
            BY <3>2, <3>3
    <2> QED
        BY <1>1, <2>1, <2>2 DEF CallOK
<1> QED
    BY <1>1, <1>2, <1>3, <1>4, <1>5, <1>6 DEF CallOK

LEMMA FaultType == faults \in 0 .. MaxFaults /\ (SpendFault \/ UNCHANGED faults) => faults' \in 0 .. MaxFaults
  BY OfficerAssumption DEF SpendFault

\* A step of one call that changes no table.
LEMMA QuietStep ==
    ASSUME OfficerTypeOK, CallsOK, NEW c \in Call, Witness, UNCHANGED <<tableVars, command>>,
           SpendFault \/ UNCHANGED faults,
           call' \in [Call -> CallState], heard' \in [Call -> SUBSET Replica], taken' \subseteq Call,
           told' \in [Call -> SUBSET Answer], up' \subseteq Replica,
           \A d \in Call \ {c} : call'[d] = call[d] /\ told'[d] = told[d] /\ heard'[d] = heard[d],
           CallOK(c)',
           call[c].pc = "new" => told'[c] = told[c],
           call[c].pc # "new" => call'[c].pc # "new",
           call[c].pc # "over",
           call[c].pc = "answering" => call'[c].pc \in {"answering", "over"},
           told'[c] # told[c] => call[c].pc = "answering" /\ told'[c] = told[c] \cup {call[c].answer},
           Sets(c) /\ call'[c].pc = "answering" /\ call'[c].answer = "done" =>
                \/ call[c].pc = "answering" /\ call[c].answer = "done"
                \/ command[c].officer \in subscribed <=> command[c].kind = "on"
    PROVE  Stepped
<1>1. CallStep(c)
    BY DEF CallStep, RowsEndure, tableVars
<1>2. CallsOK'
    BY <1>1, OthersStayOK
<1>3. OfficerTypeOK'
    BY Witnessed, FaultType DEF OfficerTypeOK, tableVars
<1>4. AskedOnce
    BY DEF AskedOnce, tableVars
<1>5. \A d \in Call \ {c} : call'[d] = call[d] /\ told'[d] = told[d]
    OBVIOUS
<1>6. call[c].pc = "new" => told' = told
    BY <1>5 DEF OfficerTypeOK
<1>7. SettingStep
    <2>1. ASSUME NEW d \in Call
          PROVE  /\ call[d].pc = "new" /\ call'[d].pc # "new" =>
                        UNCHANGED <<subscribed, told>> /\ \A e \in Call \ {d} : call'[e] = call[e]
                 /\ call[d].pc # "new" => call'[d].pc # "new"
                 /\ call[d].pc = "over" => call'[d].pc = "over"
                 /\ call[d].pc = "answering" => call'[d].pc \in {"answering", "over"}
                 /\ told'[d] # told[d] =>
                        call[d].pc = "answering" /\ told'[d] = told[d] \cup {call[d].answer}
                 /\ Sets(d) /\ call'[d].pc = "answering" /\ call'[d].answer = "done" =>
                        \/ call[d].pc = "answering" /\ call[d].answer = "done"
                        \/ command[d].officer \in subscribed' <=> command[d].kind = "on"
                 /\ d \in wrote' => d \in wrote \/ told'[d] = {}
        <3>1. CASE d = c
            BY <1>5, <1>6, <3>1 DEF tableVars
        <3>2. CASE d # c
            BY <1>5, <3>2 DEF tableVars
        <3> QED
            BY <3>1, <3>2
    <2> QED
        BY <2>1 DEF SettingStep, tableVars
<1> QED
    BY <1>2, <1>3, <1>4, <1>7 DEF Stepped

--------------------------------------------------------------------------------
(* The actions that change no table.                                       *)

LEMMA CallFacts ==
    ASSUME OfficerTypeOK, CallsOK, NEW c \in Call
    PROVE  /\ CallOK(c) /\ command[c] \in Command /\ call[c] \in CallState
           /\ call \in [Call -> CallState] /\ heard \in [Call -> SUBSET Replica]
           /\ told \in [Call -> SUBSET Answer] /\ taken \subseteq Call /\ up \subseteq Replica
  BY DEF OfficerTypeOK, CallsOK

LEMMA InvokeStep ==
    ASSUME OfficerTypeOK, CallsOK, NEW c \in Call, Witness, Invoke(c)
    PROVE  Stepped
<1>1. CallOK(c) /\ UNCHANGED <<tableVars, command, taken, told, up, faults>> /\ call[c].pc = "new"
    BY CallFacts DEF Invoke
<1>2. /\ call' \in [Call -> CallState] /\ call'[c].pc = "sent" /\ call'[c].at = call[c].at
      /\ \A d \in Call \ {c} : call'[d] = call[d]
    BY CallFacts, MovesIs DEF Invoke
<1>3. /\ heard' \in [Call -> SUBSET Replica] /\ \A d \in Call \ {c} : heard'[d] = heard[d]
    BY CallFacts DEF Invoke
<1>4. CallOK(c)'
    BY <1>1, <1>2 DEF CallOK, tableVars
<1> QED
    BY <1>1, <1>2, <1>3, <1>4, CallFacts, QuietStep

LEMMA ExpireStep ==
    ASSUME OfficerTypeOK, CallsOK, NEW c \in Call, Witness, Expire(c)
    PROVE  Stepped
<1>1. CallOK(c) /\ UNCHANGED <<tableVars, command, told, up, faults>> /\ call[c].pc = "sent"
    BY CallFacts DEF Expire
<1>2. /\ call' \in [Call -> CallState] /\ call'[c].pc = "over"
      /\ \A d \in Call \ {c} : call'[d] = call[d]
    BY CallFacts, EndsIs DEF Expire
<1>3. /\ heard' \in [Call -> SUBSET Replica] /\ heard'[c] = {}
      /\ \A d \in Call \ {c} : heard'[d] = heard[d]
    BY CallFacts DEF Expire
<1>4. taken' \subseteq Call
    BY CallFacts DEF Expire
<1>5. CallOK(c)'
    BY <1>1, <1>2, <1>3 DEF CallOK, tableVars
<1> QED
    BY <1>1, <1>2, <1>3, <1>4, <1>5, CallFacts, QuietStep

LEMMA DeferStep ==
    ASSUME OfficerTypeOK, CallsOK, NEW c \in Call, NEW p \in Replica, Witness, Defer(p, c)
    PROVE  Stepped
<1>1. /\ CallOK(c) /\ UNCHANGED <<tableVars, command, told, up>> /\ heard[c] # {}
      /\ SpendFault \/ UNCHANGED faults
    BY CallFacts DEF Defer
<1>2. call[c].pc = "sent" /\ c \notin wrote /\ told[c] = {}
    BY <1>1 DEF CallOK
<1>3. /\ call' \in [Call -> CallState] /\ call'[c].pc \in {"running", "over"}
      /\ \A d \in Call \ {c} : call'[d] = call[d]
    <2>1. CASE Ends(c)
        BY <2>1, CallFacts, EndsIs
    <2>2. CASE call' = [call EXCEPT ![c].pc = "running", ![c].at = p]
        <3> DEFINE s1 == [call[c] EXCEPT !.pc = "running"]
                   s2 == [s1 EXCEPT !.at = p]
        <3>1. s1 \in CallState /\ s1.pc = "running"
            BY CallFacts DEF CallState
        <3> HIDE DEF s1
        <3>2. s2 \in CallState /\ s2.pc = "running"
            BY <3>1 DEF CallState
        <3>3. call' = [call EXCEPT ![c] = s2]
            BY <2>2 DEF s1, s2
        <3> HIDE DEF s2
        <3> QED
            BY <3>2, <3>3, CallFacts
    <2> QED
        BY <2>1, <2>2 DEF Defer
<1>4. /\ heard' \in [Call -> SUBSET Replica] /\ heard'[c] = {}
      /\ \A d \in Call \ {c} : heard'[d] = heard[d]
    BY CallFacts DEF Defer
<1>5. taken' \subseteq Call
    BY CallFacts DEF Defer
<1>6. CallOK(c)'
    BY <1>1, <1>2, <1>3, <1>4 DEF CallOK, tableVars
<1> QED
    BY <1>1, <1>2, <1>3, <1>4, <1>5, <1>6, CallFacts, QuietStep

\* A call comes to an answer and has changed nothing in this step.
LEMMA AnswerStep ==
    ASSUME OfficerTypeOK, CallsOK, NEW c \in Call, Witness, NEW a \in Answer, Answering(c, a),
           UNCHANGED <<tableVars, command, heard, taken, up>>, SpendFault \/ UNCHANGED faults,
           call[c].pc \notin {"new", "sent", "over"},
           told' \in [Call -> SUBSET Answer], \A d \in Call \ {c} : told'[d] = told[d],
           told'[c] # told[c] => call[c].pc = "answering" /\ told'[c] = told[c] \cup {call[c].answer},
           a = "done" /\ command[c].kind \notin Reading => Shown(c)',
           a = "done" /\ Sets(c) => (command[c].officer \in subscribed <=> command[c].kind = "on"),
           a = "not_found" => "not_found" \in witness'[c],
           a \in Refusals => c \notin wrote
    PROVE  Stepped
<1>1. CallOK(c)
    BY CallFacts
<1>2. /\ call' \in [Call -> CallState] /\ call'[c].pc = "answering" /\ call'[c].answer = a
      /\ \A d \in Call \ {c} : call'[d] = call[d]
    BY CallFacts, AnsweringIs
<1>3. heard'[c] = {}
    BY <1>1 DEF CallOK
<1>4. CallOK(c)'
    BY <1>1, <1>2, <1>3 DEF CallOK, tableVars
<1> QED
    BY <1>2, <1>4, CallFacts, QuietStep

LEMMA RefuseStep ==
    ASSUME OfficerTypeOK, CallsOK, NEW c \in Call, Witness, Refuse(c)
    PROVE  Stepped
<1> DEFINE a == IF command[c].allowed THEN "invalid" ELSE "officers_only"
<1>1. a \in Answer /\ a \in {"invalid", "officers_only"}
    BY DEF Answer
<1>2. Answering(c, a) /\ call[c].pc = "running" /\ UNCHANGED <<tableVars, command, discordVars, faults>>
    BY DEF Refuse, Runs
<1> HIDE DEF a
<1>3. c \notin wrote
    BY <1>2, CallFacts DEF CallOK
<1>4. UNCHANGED <<tableVars, command, heard, taken, up>> /\ told' = told /\ UNCHANGED faults
    BY <1>2 DEF discordVars
<1> QED
    BY <1>1, <1>2, <1>3, <1>4, CallFacts, AnswerStep

LEMMA ReadStep ==
    ASSUME OfficerTypeOK, CallsOK, NEW c \in Call, Witness, Read(c)
    PROVE  Stepped
<1> DEFINE k == command[c]
           a == CASE k.kind = "get" /\ table[k.title] = NoRow -> "not_found"
                  [] k.kind = "list" /\ Cardinality({t \in Title : table[t] # NoRow}) > ListLimit -> "ops"
                  [] OTHER -> "done"
<1>1. Answering(c, a) /\ call[c].pc = "running" /\ UNCHANGED <<tableVars, command, discordVars, faults>>
      /\ k.kind \in Reading
    BY DEF Read, Runs
<1>2. a \in {"not_found", "ops", "done"} /\ (a = "not_found" => k.kind = "get" /\ table[k.title] = NoRow)
    OBVIOUS
<1> HIDE DEF a
<1>3. a \in Answer
    BY <1>2 DEF Answer
<1>4. c \notin wrote
    BY <1>1, CallFacts DEF CallOK
<1>5. UNCHANGED <<tableVars, command, heard, taken, up>> /\ told' = told /\ UNCHANGED faults
    BY <1>1 DEF discordVars
<1>6. a = "not_found" => "not_found" \in witness'[c]
    <2>1. call'[c].pc = "answering"
        BY <1>1, <1>3, CallFacts, AnsweringIs
    <2>2. a = "not_found" => "not_found" \in Facts(table', subscribed', c)
        BY <1>2, <1>5, FactsAre DEF tableVars
    <2> QED
        BY <2>1, <2>2, Witnessed DEF OfficerTypeOK
<1>7. ~Sets(c)
    BY <1>1 DEF Sets, Setting, Reading
<1> QED
    BY <1>1, <1>3, <1>4, <1>5, <1>6, <1>7, CallFacts, AnswerStep

LEMMA FindStep ==
    ASSUME OfficerTypeOK, CallsOK, NEW c \in Call, Witness, Find(c)
    PROVE  Stepped
<1> DEFINE k == command[c]
           row == table[k.title]
           asIs == (k.kind = "on") = (k.officer \in subscribed)
<1>1. /\ UNCHANGED <<tableVars, command, heard, taken, up>> /\ told' = told /\ UNCHANGED faults
      /\ call[c].pc = "running" /\ MayRun(c) /\ k.kind \in {"update", "remove"} \cup Setting
    BY DEF Find, Runs, discordVars
<1>2. c \notin wrote /\ k \in Command /\ CallOK(c) /\ told' \in [Call -> SUBSET Answer]
      /\ "done" \in Answer /\ "not_found" \in Answer
    BY <1>1, CallFacts DEF CallOK, Answer
<1>3. row \in Row \cup {NoRow}
    BY <1>2 DEF OfficerTypeOK, Command
<1>4. CASE k.kind \in Setting /\ asIs
    <2>1. Answering(c, "done")
        BY <1>4 DEF Find
    <2>2. k.officer \in subscribed <=> k.kind = "on"
        BY <1>4
    <2>3. "done" \in Facts(table', subscribed', c)
        BY <1>1, <1>4, <2>2, FactsAre DEF Setting, tableVars
    <2>4. "done" \in witness'[c]
        BY <1>2, <2>1, <2>3, Witnessed, AnsweringIs DEF OfficerTypeOK
    <2>5. Shown(c)'
        BY <1>1, <1>4, <2>4 DEF Shown, Setting
    <2> QED
        BY <1>1, <1>2, <2>1, <2>2, <2>5, AnswerStep DEF Refusals
<1>5. CASE k.kind \notin Setting /\ row = NoRow
    <2>1. Answering(c, "not_found")
        BY <1>5 DEF Find
    <2>2. "not_found" \in Facts(table', subscribed', c)
        BY <1>1, <1>5, FactsAre DEF tableVars
    <2>3. "not_found" \in witness'[c]
        BY <1>2, <2>1, <2>2, Witnessed, AnsweringIs DEF OfficerTypeOK
    <2> QED
        BY <1>1, <1>2, <2>1, <2>3, AnswerStep
<1>6. ASSUME /\ call' \in [Call -> CallState] /\ call'[c].pc = "found"
             /\ \A d \in Call \ {c} : call'[d] = call[d],
             k.kind \notin Setting => row # NoRow /\ call'[c].row = row
      PROVE  Stepped
    <2>1. MayRun(c)' /\ heard'[c] = {} /\ told'[c] = {}
        BY <1>1, <1>2 DEF CallOK, MayRun
    <2>2. k.kind = "remove" => Same(c)'
        BY <1>1, <1>6 DEF Same, Setting, tableVars
    <2>3. ASSUME k.kind = "update" PROVE k.fields \ Dirty(c)' \subseteq witness'[c]
        <3>1. row # NoRow /\ call'[c].row = row /\ command' = command /\ table' = table
            BY <1>1, <1>6, <2>3 DEF Setting, tableVars
        <3>2. Facts(table', subscribed', c) \subseteq witness'[c]
            BY <1>6, Witnessed DEF OfficerTypeOK
        <3>3. ASSUME NEW f \in k.fields \ Dirty(c)' PROVE f \in Facts(table', subscribed', c)
            <4>1. f \in {"body", "enabled"}
                BY <1>2 DEF Command
            <4>2. CASE f = "body"
                <5>1. row.body = k.body
                    BY <3>1, <3>3, <4>2 DEF Dirty
                <5> QED
                    BY <2>3, <3>1, <3>3, <4>2, <5>1, FactsAre
            <4>3. CASE f = "enabled"
                <5>1. row.enabled = k.enabled
                    BY <3>1, <3>3, <4>3 DEF Dirty
                <5> QED
                    BY <2>3, <3>1, <3>3, <4>3, <5>1, FactsAre
            <4> QED
                BY <4>1, <4>2, <4>3
        <3> QED
            BY <3>2, <3>3
    <2>4. CallOK(c)'
        BY <1>1, <1>2, <1>6, <2>1, <2>2, <2>3 DEF CallOK, tableVars, Setting
    <2> QED
        BY <1>1, <1>2, <1>6, <2>4, CallFacts, QuietStep
<1>7. CASE k.kind \in Setting /\ ~asIs
    <2>1. Moves(c, "found")
        BY <1>7 DEF Find
    <2>2. /\ call' \in [Call -> CallState] /\ call'[c].pc = "found"
          /\ \A d \in Call \ {c} : call'[d] = call[d]
        BY <2>1, CallFacts, MovesIs
    <2> QED
        BY <1>6, <1>7, <2>2
<1>8. CASE k.kind \notin Setting /\ row # NoRow
    <2>1. call' = [call EXCEPT ![c].pc = "found", ![c].row = row]
        BY <1>8 DEF Find
    <2> DEFINE s1 == [call[c] EXCEPT !.pc = "found"]
               s2 == [s1 EXCEPT !.row = row]
    <2>2. s1 \in CallState /\ s1.pc = "found"
        BY CallFacts DEF CallState
    <2>3. call' = [call EXCEPT ![c] = s2]
        BY <2>1 DEF s1, s2
    <2> HIDE DEF s1, row
    <2>4. s2 \in CallState /\ s2.pc = "found" /\ s2.row = row
        BY <1>3, <2>2 DEF CallState
    <2> HIDE DEF s2
    <2>5. /\ call' \in [Call -> CallState] /\ call'[c] = s2
          /\ \A d \in Call \ {c} : call'[d] = call[d]
        BY <2>3, <2>4, CallFacts
    <2> QED
        BY <1>6, <1>8, <2>4, <2>5
<1> QED
    BY <1>4, <1>5, <1>7, <1>8

LEMMA RefreshStep ==
    ASSUME OfficerTypeOK, CallsOK, NEW c \in Call, Witness, Refresh(c)
    PROVE  Stepped
<1> DEFINE k == command[c]
           row == table[k.title]
           key == IF k.kind = "add" THEN c ELSE call[c].row.by
           a == IF row # NoRow /\ row.by = key THEN "done" ELSE "ops"
<1>1. /\ UNCHANGED <<tableVars, command, heard, taken, up>> /\ told' = told /\ UNCHANGED faults
      /\ call[c].pc = "written" /\ Answering(c, a)
    BY DEF Refresh, discordVars
<1>2. a \in Answer /\ a \notin Refusals /\ a # "not_found"
    BY DEF Answer, Refusals
<1>3. k.kind \in {"add", "update"} /\ CallOK(c)
    BY <1>1, CallFacts DEF CallOK
<1>4. call'[c].pc = "answering"
    <2> HIDE DEF a
    <2> QED
        BY <1>1, <1>2, CallFacts, AnsweringIs
<1>5. a = "done" => Shown(c)'
    <2>1. CASE k.kind = "update"
        <3>1. Shown(c)
            BY <1>1, <1>3, <2>1 DEF CallOK
        <3> QED
            BY <1>1, <3>1, Witnessed DEF Shown, OfficerTypeOK
    <2>2. CASE k.kind = "add"
        <3>1. a = "done" => row # NoRow /\ row.by = c
            BY <2>2
        <3>2. a = "done" => "done" \in Facts(table', subscribed', c)
            BY <1>1, <2>2, <3>1, FactsAre DEF tableVars
        <3>3. a = "done" => "done" \in witness'[c]
            BY <1>4, <3>2, Witnessed DEF OfficerTypeOK
        <3> QED
            BY <1>1, <2>2, <3>3 DEF Shown
    <2> QED
        BY <1>3, <2>1, <2>2
<1>6. ~Sets(c)
    BY <1>3 DEF Sets, Setting
<1> HIDE DEF a
<1> QED
    BY <1>1, <1>2, <1>5, <1>6, CallFacts, AnswerStep

LEMMA ReplyStep ==
    ASSUME OfficerTypeOK, CallsOK, NEW c \in Call, Witness, Reply(c)
    PROVE  Stepped
<1>1. /\ CallOK(c) /\ UNCHANGED <<tableVars, command, heard, taken, up, faults>>
      /\ call[c].pc = "answering"
    BY CallFacts DEF Reply
<1>2. /\ call' \in [Call -> CallState] /\ call'[c].pc = "over"
      /\ \A d \in Call \ {c} : call'[d] = call[d]
    BY CallFacts, EndsIs DEF Reply
<1>3. /\ told' \in [Call -> SUBSET Answer] /\ told'[c] = told[c] \cup {call[c].answer}
      /\ \A d \in Call \ {c} : told'[d] = told[d]
    BY CallFacts DEF Reply, CallState
<1>4. CallOK(c)'
    BY <1>1, <1>2 DEF CallOK, tableVars
<1> QED
    BY <1>1, <1>2, <1>3, <1>4, CallFacts, QuietStep

LEMMA ReplyFailsStep ==
    ASSUME OfficerTypeOK, CallsOK, NEW c \in Call, Witness, ReplyFails(c)
    PROVE  Stepped
<1>1. /\ CallOK(c) /\ UNCHANGED <<tableVars, command, heard, taken, up>> /\ SpendFault
      /\ call[c].pc = "answering"
    BY CallFacts DEF ReplyFails
<1>2. /\ told' \in [Call -> SUBSET Answer]
      /\ told'[c] # told[c] => told'[c] = told[c] \cup {call[c].answer}
      /\ \A d \in Call \ {c} : told'[d] = told[d]
    BY CallFacts DEF ReplyFails, CallState
<1>3. CASE Answering(c, "ops")
    BY <1>1, <1>2, <1>3, CallFacts, AnswerStep DEF Answer, Refusals
<1>4. CASE Ends(c)
    <2>1. /\ call' \in [Call -> CallState] /\ call'[c].pc = "over"
          /\ \A d \in Call \ {c} : call'[d] = call[d]
        BY <1>4, CallFacts, EndsIs
    <2>2. CallOK(c)'
        BY <1>1, <2>1 DEF CallOK, tableVars
    <2> QED
        BY <1>1, <1>2, <2>1, <2>2, CallFacts, QuietStep
<1> QED
    BY <1>3, <1>4 DEF ReplyFails

--------------------------------------------------------------------------------
(* The statements that change a table.                                     *)

LEMMA WriterFacts ==
    ASSUME OfficerTypeOK, CallsOK, NEW c \in Call, AtWrite(c)
    PROVE  /\ MayRun(c) /\ c \notin wrote /\ call[c].pc \in {"running", "found"}
           /\ command[c].kind = "add" => call[c].pc = "running"
           /\ command[c].kind # "add" => call[c].pc = "found"
           /\ command[c].kind \in Change \cup Setting
  BY CallFacts DEF AtWrite, Runs, CallOK, Change, Setting

LEMMA PutIs ==
    ASSUME OfficerTypeOK, NEW c \in Call, NEW r \in Row \cup {NoRow}, Put(c, r)
    PROVE  /\ table' \in [Title -> Row \cup {NoRow}]
           /\ table'[command[c].title] = r
           /\ \A t \in Title \ {command[c].title} : table'[t] = table[t]
           /\ subscribed' = subscribed /\ command[c].title \in Title
<1>1. command[c].title \in Title
    BY DEF OfficerTypeOK, Command
<1> QED
    BY <1>1 DEF Put, OfficerTypeOK

\* A committed change is one the call may make.
LEMMA Committed ==
    ASSUME OfficerTypeOK, CallsOK, NEW c \in Call, AtWrite(c), Changes(c), Commit(c)
    PROVE  LET k == command[c]
           IN /\ table' \in [Title -> Row \cup {NoRow}] /\ subscribed' \subseteq Officer
              /\ RowsEndure /\ AskedOnce
              /\ wrote' \subseteq Call /\ wrote' \in {wrote, wrote \cup {c}}
              /\ \A o \in Officer : \/ o \in subscribed' <=> o \in subscribed
                                    \/ Sets(c) /\ k.officer = o /\ call[c].pc = "found"
              /\ k.kind = "update" => Same(c) /\ table'[k.title] = Updated(c, table[k.title])
              /\ k.kind = "remove" => table'[k.title] = NoRow \/ (~Same(c) /\ table' = table)
              /\ k.kind = "on" => k.officer \in subscribed'
              /\ k.kind = "off" => k.officer \notin subscribed'
<1> DEFINE k == command[c]
           t == k.title
<1>1. /\ k \in Command /\ t \in Title /\ table[t] \in Row \cup {NoRow}
      /\ table \in [Title -> Row \cup {NoRow}] /\ subscribed \subseteq Officer /\ wrote \subseteq Call
      /\ k.officer \in Officer
    BY DEF OfficerTypeOK, Command
<1>2. /\ MayRun(c) /\ c \notin wrote /\ (k.kind # "add" => call[c].pc = "found")
      /\ k.kind \in Change \cup Setting
    BY WriterFacts
<1>3. wrote' = IF <<table, subscribed>>' # <<table, subscribed>> THEN wrote \cup {c} ELSE wrote
    BY DEF Commit
<1>4. wrote' \subseteq Call /\ wrote' \in {wrote, wrote \cup {c}}
    BY <1>1, <1>3
<1>5. ASSUME IsChangeOf(c) \/ UNCHANGED <<table, subscribed>> PROVE AskedOnce
    BY <1>2, <1>3, <1>5 DEF AskedOnce, MayRun
<1>6. CASE k.kind = "add"
    <2>1. Put(c, NewRow(c)) /\ table[t] = NoRow
        BY <1>6 DEF Commit, Changes
    <2>2. NewRow(c) \in Row
        BY <1>1 DEF NewRow, Row, Command
    <2>3. /\ table' \in [Title -> Row \cup {NoRow}] /\ table'[t] = NewRow(c)
          /\ \A u \in Title \ {t} : table'[u] = table[u]
          /\ subscribed' = subscribed
        BY <2>1, <2>2, PutIs
    <2>4. IsChangeOf(c)
        BY <1>6, <2>1, <2>3 DEF IsChangeOf, Setting
    <2>5. RowsEndure
        BY <2>1, <2>3 DEF RowsEndure
    <2> QED
        BY <1>1, <1>4, <1>5, <1>6, <2>3, <2>4, <2>5
<1>7. CASE k.kind = "update"
    <2> DEFINE old == table[t]
               new == Updated(c, old)
    <2>1. Same(c) /\ Put(c, new)
        BY <1>7 DEF Commit, Changes
    <2>2. old \in Row
        BY <1>1, <2>1 DEF Same
    <2>3. /\ new \in Row /\ new.by = old.by
          /\ new.body = IF "body" \in Dirty(c) THEN k.body ELSE old.body
          /\ new.enabled = IF "enabled" \in Dirty(c) THEN k.enabled ELSE old.enabled
        BY <1>1, <2>2, WrittenIs DEF Updated
    <2>4. Dirty(c) \subseteq k.fields
        BY DEF Dirty
    <2> HIDE DEF new
    <2>5. /\ table' \in [Title -> Row \cup {NoRow}] /\ table'[t] = new
          /\ \A u \in Title \ {t} : table'[u] = table[u]
          /\ subscribed' = subscribed
        BY <2>1, <2>3, PutIs
    <2>6. old # NoRow /\ new # NoRow
        BY <2>2, <2>3, RowIsNotNone
    <2>7. IsChangeOf(c)
        BY <1>7, <2>3, <2>4, <2>5, <2>6 DEF IsChangeOf, Setting
    <2>8. RowsEndure
        BY <2>3, <2>5, <2>6 DEF RowsEndure
    <2> QED
        BY <1>1, <1>4, <1>5, <1>7, <2>1, <2>5, <2>7, <2>8 DEF new
<1>8. CASE k.kind = "remove" /\ Same(c)
    <2>1. Put(c, NoRow)
        BY <1>8 DEF Commit
    <2>2. /\ table' \in [Title -> Row \cup {NoRow}] /\ table'[t] = NoRow
          /\ \A u \in Title \ {t} : table'[u] = table[u]
          /\ subscribed' = subscribed
        BY <2>1, PutIs
    <2>3. IsChangeOf(c)
        BY <1>8, <2>2 DEF IsChangeOf, Setting
    <2>4. RowsEndure
        BY <2>2 DEF RowsEndure
    <2> QED
        BY <1>1, <1>4, <1>5, <1>8, <2>2, <2>3, <2>4
<1>9. CASE k.kind = "remove" /\ ~Same(c)
    <2>1. UNCHANGED <<table, subscribed>>
        BY <1>9 DEF Commit
    <2>2. RowsEndure
        BY <2>1 DEF RowsEndure
    <2> QED
        BY <1>1, <1>4, <1>5, <1>9, <2>1, <2>2
<1>10. CASE k.kind \in Setting
    <2>1. /\ table' = table /\ subscribed' \subseteq Officer
          /\ \A o \in Officer \ {k.officer} : o \in subscribed' <=> o \in subscribed
          /\ k.kind = "on" => k.officer \in subscribed'
          /\ k.kind = "off" => k.officer \notin subscribed'
        BY <1>1, <1>10 DEF Commit, Subscribe, Setting
    <2>2. RowsEndure
        BY <2>1 DEF RowsEndure
    <2>3. subscribed' # subscribed => IsChangeOf(c)
        BY <1>10, <2>1 DEF IsChangeOf, Setting
    <2>4. call[c].pc = "found" /\ Sets(c)
        BY <1>2, <1>10 DEF Setting, Sets
    <2> QED
        BY <1>1, <1>4, <1>5, <1>10, <2>1, <2>2, <2>3, <2>4 DEF Setting
<1> QED
    BY <1>2, <1>6, <1>7, <1>8, <1>9, <1>10 DEF Change

\* A committed statement, and where it leaves its call.
LEMMA CommitStep ==
    ASSUME OfficerTypeOK, CallsOK, NEW c \in Call, Witness, AtWrite(c), Changes(c), Commit(c),
           UNCHANGED <<command, discordVars>>, SpendFault \/ UNCHANGED faults,
           call' \in [Call -> CallState], \A d \in Call \ {c} : call'[d] = call[d],
           \/ call'[c].pc = "answering" /\ call'[c].answer = "ops"
           \/ /\ call'[c].pc = "answering" /\ call'[c].answer = "done"
              /\ command[c].kind \notin {"add", "update"}
           \/ /\ call'[c].pc = "written" /\ call'[c].row = call[c].row
              /\ command[c].kind \in {"add", "update"}
    PROVE  Stepped
<1> DEFINE k == command[c]
           t == k.title
<1>1. /\ CallOK(c) /\ k \in Command /\ t \in Title /\ table[t] \in Row \cup {NoRow}
      /\ command' = command /\ told' = told /\ heard' = heard /\ taken' = taken /\ up' = up
    BY CallFacts DEF OfficerTypeOK, Command, discordVars
<1>2. /\ c \notin wrote /\ call[c].pc \in {"running", "found"} /\ k.kind \in Change \cup Setting
      /\ k.kind # "add" => call[c].pc = "found"
    BY WriterFacts
<1>3. /\ table' \in [Title -> Row \cup {NoRow}] /\ subscribed' \subseteq Officer
      /\ RowsEndure /\ AskedOnce /\ wrote' \subseteq Call /\ wrote' \in {wrote, wrote \cup {c}}
      /\ \A o \in Officer : \/ o \in subscribed' <=> o \in subscribed
                            \/ Sets(c) /\ k.officer = o /\ call[c].pc = "found"
      /\ k.kind = "update" => Same(c) /\ table'[t] = Updated(c, table[t])
      /\ k.kind = "remove" => table'[t] = NoRow \/ (~Same(c) /\ table' = table)
      /\ k.kind = "on" => k.officer \in subscribed'
      /\ k.kind = "off" => k.officer \notin subscribed'
    BY Committed
<1>4. told[c] = {} /\ heard[c] = {}
    BY <1>1, <1>2 DEF CallOK
<1>5. Facts(table', subscribed', c) \subseteq witness'[c] /\ witness[c] \subseteq witness'[c]
    BY Witnessed DEF OfficerTypeOK
<1>6. k.kind = "update" => call[c].row # NoRow /\ k.fields \subseteq witness'[c]
    <2> SUFFICES ASSUME k.kind = "update" PROVE call[c].row # NoRow /\ k.fields \subseteq witness'[c]
        OBVIOUS
    <2>1. call[c].row # NoRow /\ k.fields \ Dirty(c) \subseteq witness[c]
        BY <1>1, <1>2 DEF CallOK
    <2> DEFINE new == Updated(c, table[t])
    <2>2. table[t] \in Row
        BY <1>1, <1>3 DEF Same
    <2>3. /\ new \in Row
          /\ "body" \in Dirty(c) => new.body = k.body
          /\ "enabled" \in Dirty(c) => new.enabled = k.enabled
        BY <1>1, <2>2, WrittenIs DEF Updated
    <2>4. Dirty(c) \subseteq k.fields \cap {"body", "enabled"}
        BY DEF Dirty
    <2> HIDE DEF new
    <2>5. table'[t] = new /\ new # NoRow
        BY <1>3, <2>3, RowIsNotNone DEF new
    <2>6. Dirty(c) \subseteq Facts(table', subscribed', c)
        <3> SUFFICES ASSUME NEW f \in Dirty(c) PROVE f \in Facts(table', subscribed', c)
            OBVIOUS
        <3>1. CASE f = "body"
            BY <2>3, <2>4, <2>5, <3>1, FactsAre
        <3>2. CASE f = "enabled"
            BY <2>3, <2>4, <2>5, <3>2, FactsAre
        <3> QED
            BY <2>4, <3>1, <3>2
    <2> QED
        BY <1>5, <2>1, <2>6
<1>7. k.kind \in {"remove"} \cup Setting => "done" \in witness'[c]
    <2>1. CASE k.kind = "remove"
        <3>1. Same(c) \/ "done" \in witness[c]
            BY <1>1, <1>2, <2>1 DEF CallOK
        <3>2. table'[t] = NoRow => "done" \in Facts(table', subscribed', c)
            BY <2>1, FactsAre
        <3> QED
            BY <1>3, <1>5, <2>1, <3>1, <3>2
    <2>2. CASE k.kind \in Setting
        BY <1>3, <1>5, <2>2, FactsAre DEF Setting
    <2> QED
        BY <2>1, <2>2
<1>8. Shown(c)' <=> IF k.kind = "update" THEN k.fields \subseteq witness'[c] ELSE "done" \in witness'[c]
    BY <1>1 DEF Shown
<1>9. CallOK(c)'
    BY <1>1, <1>2, <1>4, <1>6, <1>7, <1>8 DEF CallOK, Refusals, Change
<1>10. CallStep(c)
    BY <1>1, <1>3 DEF CallStep
<1>11. CallsOK'
    BY <1>9, <1>10, OthersStayOK
<1>12. OfficerTypeOK'
    BY <1>1, <1>3, Witnessed, FaultType DEF OfficerTypeOK
<1>13. SettingStep
    <2>1. ASSUME NEW d \in Call
          PROVE  /\ call[d].pc = "new" /\ call'[d].pc # "new" =>
                        UNCHANGED <<subscribed, told>> /\ \A e \in Call \ {d} : call'[e] = call[e]
                 /\ call[d].pc # "new" => call'[d].pc # "new"
                 /\ call[d].pc = "over" => call'[d].pc = "over"
                 /\ call[d].pc = "answering" => call'[d].pc \in {"answering", "over"}
                 /\ told'[d] # told[d] =>
                        call[d].pc = "answering" /\ told'[d] = told[d] \cup {call[d].answer}
                 /\ Sets(d) /\ call'[d].pc = "answering" /\ call'[d].answer = "done" =>
                        \/ call[d].pc = "answering" /\ call[d].answer = "done"
                        \/ command[d].officer \in subscribed' <=> command[d].kind = "on"
                 /\ d \in wrote' => d \in wrote \/ told'[d] = {}
        <3>1. CASE d = c
            <4>1. Sets(c) => (k.officer \in subscribed' <=> k.kind = "on")
                BY <1>3 DEF Sets, Setting
            <4> QED
                BY <1>1, <1>2, <1>4, <3>1, <4>1
        <3>2. CASE d # c
            BY <1>1, <1>3, <3>2
        <3> QED
            BY <3>1, <3>2
    <2> QED
        BY <1>1, <1>3, <2>1 DEF SettingStep
<1> QED
    BY <1>3, <1>11, <1>12, <1>13 DEF Stepped

LEMMA WriteStep ==
    ASSUME OfficerTypeOK, CallsOK, NEW c \in Call, Witness, Write(c)
    PROVE  Stepped
<1>1. /\ AtWrite(c) /\ UNCHANGED <<command, discordVars, faults>>
      /\ call[c].pc \in {"running", "found"} /\ c \notin wrote
    BY WriterFacts DEF Write
<1>2. "done" \in Answer /\ "ops" \in Answer /\ "ops" \notin Refusals
    BY DEF Answer, Refusals
<1>3. CASE Changes(c)
    <2>1. Commit(c)
        BY <1>3 DEF Write
    <2>2. CASE command[c].kind \in {"add", "update"}
        <3>1. Moves(c, "written")
            BY <1>3, <2>2 DEF Write
        <3>2. /\ call' \in [Call -> CallState] /\ call'[c].pc = "written" /\ call'[c].row = call[c].row
              /\ \A d \in Call \ {c} : call'[d] = call[d]
            BY <3>1, CallFacts, MovesIs
        <3> QED
            BY <1>1, <1>3, <2>1, <2>2, <3>2, CommitStep
    <2>3. CASE command[c].kind \notin {"add", "update"}
        <3>1. Answering(c, "done")
            BY <1>3, <2>3 DEF Write
        <3>2. /\ call' \in [Call -> CallState] /\ call'[c].pc = "answering" /\ call'[c].answer = "done"
              /\ \A d \in Call \ {c} : call'[d] = call[d]
            BY <1>2, <3>1, CallFacts, AnsweringIs
        <3> QED
            BY <1>1, <1>3, <2>1, <2>3, <3>2, CommitStep
    <2> QED
        BY <2>2, <2>3
<1>4. CASE ~Changes(c)
    <2>1. Answering(c, "ops") /\ UNCHANGED <<tableVars, command, heard, taken, up>> /\ told' = told
        BY <1>1, <1>4 DEF Write, discordVars
    <2> QED
        BY <1>1, <1>2, <2>1, CallFacts, AnswerStep
<1> QED
    BY <1>3, <1>4

LEMMA StatementFailsStep ==
    ASSUME OfficerTypeOK, CallsOK, NEW c \in Call, Witness, StatementFails(c)
    PROVE  Stepped
<1>1. /\ Answering(c, "ops") /\ SpendFault /\ UNCHANGED <<command, discordVars>>
      /\ "ops" \in Answer /\ "ops" \notin Refusals
    BY DEF StatementFails, Answer, Refusals
<1>2. CASE AtWrite(c) /\ Changes(c) /\ Commit(c)
    <2>1. /\ call' \in [Call -> CallState] /\ call'[c].pc = "answering" /\ call'[c].answer = "ops"
          /\ \A d \in Call \ {c} : call'[d] = call[d]
        BY <1>1, CallFacts, AnsweringIs
    <2> QED
        BY <1>1, <1>2, <2>1, CommitStep
<1>3. CASE (Runs(c) /\ MayRun(c)) \/ call[c].pc \in {"found", "written"}
    <2>1. CASE UNCHANGED tableVars
        <3>1. /\ call[c].pc \in {"running", "found", "written"}
              /\ UNCHANGED <<tableVars, command, heard, taken, up>> /\ told' = told
            BY <1>1, <1>3, <2>1 DEF Runs, discordVars
        <3> QED
            BY <1>1, <3>1, CallFacts, AnswerStep
    <2> QED
        BY <1>2, <2>1 DEF StatementFails
<1> QED
    BY <1>2, <1>3 DEF StatementFails

--------------------------------------------------------------------------------
(* The steps of processes and of the guild.                                *)

\* Calls end with their process; the others are as they were.
LEMMA CutStep ==
    ASSUME OfficerTypeOK, CallsOK, Witness, UNCHANGED <<tableVars, command, taken, told>>,
           SpendFault \/ UNCHANGED faults, up' \subseteq Replica,
           call' \in [Call -> CallState], heard' \in [Call -> SUBSET Replica],
           \A c \in Call : /\ heard'[c] \subseteq heard[c]
                           /\ \/ call'[c] = call[c]
                              \/ call'[c].pc = "over" /\ call[c].pc \notin {"new", "sent"}
    PROVE  Stepped
<1>1. OfficerTypeOK'
    BY Witnessed, FaultType DEF OfficerTypeOK, tableVars
<1>2. ASSUME NEW c \in Call PROVE CallOK(c)'
    <2>1. CallOK(c) /\ witness[c] \subseteq witness'[c]
        BY Witnessed, CallFacts DEF OfficerTypeOK
    <2>2. CASE call'[c] = call[c]
        <3>1. MayRun(c)' = MayRun(c) /\ Dirty(c)' = Dirty(c) /\ Same(c)' = Same(c)
            BY <2>2 DEF MayRun, Dirty, Same, tableVars
        <3>2. Shown(c) => Shown(c)'
            BY <2>1 DEF Shown
        <3>3. heard'[c] # {} => heard[c] # {}
            OBVIOUS
        <3> QED
            BY <2>1, <2>2, <3>1, <3>2, <3>3 DEF CallOK, tableVars
    <2>3. CASE call'[c].pc = "over" /\ call[c].pc \notin {"new", "sent"}
        BY <2>1, <2>3 DEF CallOK, tableVars
    <2> QED
        BY <2>2, <2>3
<1>3. CallsOK'
    BY <1>2 DEF CallsOK
<1>4. AskedOnce
    BY DEF AskedOnce, tableVars
<1>5. SettingStep
    BY DEF SettingStep, tableVars
<1> QED
    BY <1>1, <1>3, <1>4, <1>5 DEF Stepped

LEMMA CrashStep ==
    ASSUME OfficerTypeOK, CallsOK, NEW p \in Replica, Witness, Crash(p)
    PROVE  Stepped
<1>1. /\ UNCHANGED <<tableVars, command, taken, told>> /\ SpendFault /\ up' \subseteq Replica
      /\ heard' = [c \in Call |-> heard[c] \ {p}]
      /\ call' = [c \in Call |-> IF call[c].at = p THEN Idle("over") ELSE call[c]]
    BY DEF Crash, OfficerTypeOK
<1>2. Idle("over") \in CallState /\ Idle("over").pc = "over"
    BY DEF Idle, CallState, Answer
<1>3. /\ call' \in [Call -> CallState] /\ heard' \in [Call -> SUBSET Replica]
      /\ \A c \in Call : heard'[c] \subseteq heard[c]
    BY <1>1, <1>2, CallFacts
<1>4. ASSUME NEW c \in Call
      PROVE  call'[c] = call[c] \/ (call'[c].pc = "over" /\ call[c].pc \notin {"new", "sent"})
    <2>1. call[c].pc \in {"new", "sent"} => call[c].at # p
        BY CallFacts, OfficerAssumption DEF CallOK
    <2> QED
        BY <1>1, <1>2, <2>1
<1> QED
    BY <1>1, <1>3, <1>4, CutStep

LEMMA RestStep ==
    ASSUME OfficerTypeOK, CallsOK, Witness, SpendFault \/ UNCHANGED faults,
           UNCHANGED <<tableVars, command, call, heard, taken, told>>, up' \subseteq Replica
    PROVE  Stepped
  BY CallFacts, CutStep DEF OfficerTypeOK

--------------------------------------------------------------------------------
(* Every step of the system is one of these.                               *)

LEMMA EveryStep ==
    ASSUME OfficerTypeOK, CallsOK, Next
    PROVE  Stepped
<1>1. ASSUME NEW c \in Call, Invoke(c), Along(c) PROVE Stepped
    BY <1>1, InvokeStep DEF Along, History
<1>2. ASSUME NEW c \in Call, Expire(c), Along(c) PROVE Stepped
    BY <1>2, ExpireStep DEF Along, History
<1>3. ASSUME NEW c \in Call, NEW p \in Replica, Defer(p, c), Along(c) PROVE Stepped
    BY <1>3, DeferStep DEF Along, History
<1>4. ASSUME NEW c \in Call, Refuse(c), Along(c) PROVE Stepped
    BY <1>4, RefuseStep DEF Along, History
<1>5. ASSUME NEW c \in Call, Read(c), Along(c) PROVE Stepped
    BY <1>5, ReadStep DEF Along, History
<1>6. ASSUME NEW c \in Call, Find(c), Along(c) PROVE Stepped
    BY <1>6, FindStep DEF Along, History
<1>7. ASSUME NEW c \in Call, Write(c), Along(c) PROVE Stepped
    BY <1>7, WriteStep DEF Along, History
<1>8. ASSUME NEW c \in Call, Refresh(c), Along(c) PROVE Stepped
    BY <1>8, RefreshStep DEF Along, History
<1>9. ASSUME NEW c \in Call, StatementFails(c), Along(c) PROVE Stepped
    BY <1>9, StatementFailsStep DEF Along, History
<1>10. ASSUME NEW c \in Call, Reply(c), Along(c) PROVE Stepped
    BY <1>10, ReplyStep DEF Along, History
<1>11. ASSUME NEW c \in Call, ReplyFails(c), Along(c) PROVE Stepped
    BY <1>11, ReplyFailsStep DEF Along, History
<1>12. ASSUME UNCHANGED officerVars, History PROVE Stepped
    <2>1. up' \subseteq Replica
        BY <1>12 DEF officerVars, OfficerTypeOK
    <2> QED
        BY <1>12, <2>1, RestStep DEF History, officerVars, tableVars
<1>13. ASSUME UNCHANGED noOfficerVars, SpendFault \/ UNCHANGED faults, History PROVE Stepped
    <2>1. up' \subseteq Replica
        BY <1>13 DEF noOfficerVars, discordVars, OfficerTypeOK
    <2> QED
        BY <1>13, <2>1, RestStep DEF History, noOfficerVars, discordVars
<1>14. ASSUME Join, History PROVE Stepped
    BY <1>12, <1>14 DEF Join
<1>15. ASSUME NEW o \in Officer, Retire(o), History PROVE Stepped
    BY <1>12, <1>15 DEF Retire
<1>16. ASSUME NEW p \in Replica, Welcome(p), History PROVE Stepped
    BY <1>12, <1>16 DEF Welcome
<1>17. ASSUME NEW p \in Replica, Welcomed(p), History PROVE Stepped
    BY <1>13, <1>17 DEF Welcomed
<1>18. ASSUME NEW p \in Replica, LoadSubscribers(p), History PROVE Stepped
    BY <1>13, <1>18 DEF LoadSubscribers
<1>19. ASSUME NEW p \in Replica, NEW o \in Officer, StartAlert(p, o), History PROVE Stepped
    BY <1>12, <1>19 DEF StartAlert
<1>20. ASSUME NEW p \in Replica, Alerted(p), History PROVE Stepped
    BY <1>13, <1>20 DEF Alerted
<1>21. ASSUME NEW p \in Replica, AllAlerted(p), History PROVE Stepped
    BY <1>12, <1>21 DEF AllAlerted
<1>22. ASSUME NEW p \in Replica, Crash(p), History PROVE Stepped
    BY <1>22, CrashStep DEF History
<1>23. ASSUME NEW p \in Replica, Start(p), History PROVE Stepped
    <2>1. up' \subseteq Replica
        BY <1>23 DEF Start, OfficerTypeOK
    <2> QED
        BY <1>23, <2>1, RestStep DEF History, Start
<1> QED
    BY <1>1, <1>2, <1>3, <1>4, <1>5, <1>6, <1>7, <1>8, <1>9, <1>10, <1>11, <1>14, <1>15, <1>16,
       <1>17, <1>18, <1>19, <1>20, <1>21, <1>22, <1>23 DEF Next

\* What was told stays true, and what is told now is.
LEMMA AnswersStayTrue ==
    ASSUME OfficerTypeOK, CallsOK, AnswersAreTrue, Witness, SettingStep
    PROVE  AnswersAreTrue'
<1>1. ASSUME NEW c \in Call
      PROVE  /\ "done" \in told'[c] /\ command[c].kind \notin Reading => Shown(c)'
             /\ "not_found" \in told'[c] => "not_found" \in witness'[c]
             /\ told'[c] \cap Refusals # {} => c \notin wrote'
    <2>1. CallOK(c) /\ witness[c] \subseteq witness'[c] /\ command' = command
        BY Witnessed DEF CallsOK, OfficerTypeOK, SettingStep
    <2>2. /\ "done" \in told[c] /\ command[c].kind \notin Reading => Shown(c)
          /\ "not_found" \in told[c] => "not_found" \in witness[c]
          /\ told[c] \cap Refusals # {} => c \notin wrote
        BY DEF AnswersAreTrue, Shown, Refusals
    <2>3. Shown(c) => Shown(c)'
        BY <2>1 DEF Shown
    <2>4. c \in wrote' => c \in wrote \/ told'[c] = {}
        BY DEF SettingStep
    <2>5. CASE told'[c] = told[c]
        BY <2>1, <2>2, <2>3, <2>4, <2>5
    <2>6. CASE told'[c] # told[c]
        <3>1. call[c].pc = "answering" /\ told'[c] = told[c] \cup {call[c].answer}
            BY <2>6 DEF SettingStep
        <3>2. /\ call[c].answer = "done" /\ command[c].kind \notin Reading => Shown(c)
              /\ call[c].answer = "not_found" => "not_found" \in witness[c]
              /\ call[c].answer \in Refusals => c \notin wrote
            BY <2>1, <3>1 DEF CallOK
        <3> QED
            BY <2>1, <2>2, <2>3, <2>4, <3>1, <3>2
    <2> QED
        BY <2>5, <2>6
<1>2. command' = command
    BY DEF SettingStep
<1> QED
    BY <1>1, <1>2 DEF AnswersAreTrue, Shown, Refusals

--------------------------------------------------------------------------------
(* What officers know of their settings.                                   *)

\* Learn, officer by officer and process by process.
LEMMA Learned ==
    ASSUME Learn
    PROVE  /\ \A c \in alone' : /\ c \in alone \/ (c \in Call /\ Starts(c) /\ Rivals(c) = {})
                                /\ \A d \in Call : Starts(d) => c \notin Rivals(d) \/ c \notin Call
           /\ \A o \in Officer : setting'[o] # "unknown" =>
                /\ \A c \in Call : Starts(c) => command[c].officer # o
                /\ \/ setting'[o] = setting[o]
                   \/ \E c \in alone : /\ command[c].officer = o /\ setting'[o] = command[c].kind
                                       /\ "done" \in told'[c] \ told[c]
           /\ \A p \in Replica, s \in Setting :
                /\ \A o \in promised'[p][s] :
                      o \in Officer /\ setting'[o] = s /\ (s = "on" => o \in permitted')
                /\ handler'[p].pc \in {"idle", "broken"} => promised'[p][s] = {}
                /\ handler[p].pc # "idle" => promised'[p][s] \subseteq promised[p][s]
<1>1. ASSUME NEW c \in alone'
      PROVE  /\ c \in alone \/ (c \in Call /\ Starts(c) /\ Rivals(c) = {})
             /\ \A d \in Call : Starts(d) => c \notin Rivals(d) \/ c \notin Call
    BY DEF Learn
<1>2. ASSUME NEW o \in Officer, setting'[o] # "unknown"
      PROVE  /\ \A c \in Call : Starts(c) => command[c].officer # o
             /\ \/ setting'[o] = setting[o]
                \/ \E c \in alone : /\ command[c].officer = o /\ setting'[o] = command[c].kind
                                    /\ "done" \in told'[c] \ told[c]
    <2> DEFINE new == {c \in alone : command[c].officer = o /\ "done" \in told'[c] \ told[c]}
    <2>1. setting'[o] = IF \E c \in Call : Starts(c) /\ command[c].officer = o THEN "unknown"
                        ELSE IF new = {} THEN setting[o] ELSE command[CHOOSE c \in new : TRUE].kind
        BY DEF Learn
    <2>2. ~\E c \in Call : Starts(c) /\ command[c].officer = o
        BY <1>2, <2>1
    <2>3. new # {} => (CHOOSE c \in new : TRUE) \in new
        OBVIOUS
    <2>4. new # {} => \E c \in new : setting'[o] = command[c].kind
        <3> HIDE DEF new
        <3> QED
            BY <2>1, <2>2, <2>3
    <2>5. new = {} => setting'[o] = setting[o]
        BY <2>1, <2>2
    <2> QED
        BY <2>2, <2>4, <2>5
<1>3. ASSUME NEW p \in Replica, NEW s \in Setting
      PROVE  /\ \A o \in promised'[p][s] :
                   o \in Officer /\ setting'[o] = s /\ (s = "on" => o \in permitted')
             /\ handler'[p].pc \in {"idle", "broken"} => promised'[p][s] = {}
             /\ handler[p].pc # "idle" => promised'[p][s] \subseteq promised[p][s]
    <2> DEFINE now == {o \in Officer : setting'[o] = s /\ (s = "on" => o \in permitted')}
    <2>1. promised'[p][s] = IF handler'[p].pc \in {"idle", "broken"} THEN {}
                            ELSE IF handler[p].pc = "idle" THEN now ELSE promised[p][s] \cap now
        BY DEF Learn
    <2> QED
        BY <2>1
<1> QED
    BY <1>1, <1>2, <1>3

\* The calls of an officer that changes or is told something while alone.
LEMMA AloneStays ==
    ASSUME TypeOK, AloneOK, Learn, SettingStep, CallsOK, call' \in [Call -> CallState]
    PROVE  AloneOK' /\ alone' \subseteq Call
<1>1. alone \subseteq Call /\ command' = command /\ command \in [Call -> Command]
    BY DEF TypeOK, OfficerTypeOK, SettingStep
<1>2. ASSUME NEW c \in alone'
      PROVE  /\ c \in Call /\ Sets(c)' /\ call'[c].pc # "new"
             /\ InProgress(c)' => Rivals(c)' = {}
             /\ call'[c].pc = "answering" /\ call'[c].answer = "done" =>
                   (command[c].officer \in subscribed' <=> command[c].kind = "on")
    <2>1. /\ c \in alone \/ (c \in Call /\ Starts(c) /\ Rivals(c) = {})
          /\ c \in Call
          /\ \A d \in Call : Starts(d) => c \notin Rivals(d)
        BY <1>1, Learned
    <2>2. Sets(c) /\ call'[c].pc # "new"
        BY <1>1, <2>1 DEF AloneOK, Starts, SettingStep
    <2>3. Sets(c)'
        BY <1>1, <2>2 DEF Sets
    <2>4. CASE Starts(c) /\ Rivals(c) = {}
        <3>1. call[c].pc = "new" /\ \A d \in Call \ {c} : call'[d] = call[d]
            BY <2>1, <2>4 DEF Starts, SettingStep
        <3>2. Rivals(c)' = {}
            BY <1>1, <2>4, <3>1 DEF Rivals, Sets, InProgress
        <3>3. call'[c].pc = "answering" /\ call'[c].answer = "done" =>
                 (command[c].officer \in subscribed' <=> command[c].kind = "on")
            BY <2>1, <2>2, <3>1 DEF SettingStep
        <3> QED
            BY <2>1, <2>2, <2>3, <3>2, <3>3
    <2>5. CASE c \in alone
        <3>1. /\ call[c].pc # "new" /\ (InProgress(c) => Rivals(c) = {})
              /\ call[c].pc = "answering" /\ call[c].answer = "done" =>
                    (command[c].officer \in subscribed <=> command[c].kind = "on")
            BY <2>5 DEF AloneOK
        <3>2. InProgress(c)' => InProgress(c)
            BY <2>1, <3>1 DEF InProgress, SettingStep
        <3>3. InProgress(c)' => Rivals(c)' = {}
            <4> SUFFICES ASSUME InProgress(c)', NEW d \in Rivals(c)' PROVE FALSE
                OBVIOUS
            <4>1. /\ d \in Call \ {c} /\ Sets(d) /\ command[d].officer = command[c].officer
                  /\ call'[d].pc \notin {"new", "over"}
                BY <1>1 DEF Rivals, Sets, InProgress
            <4>2. d \notin Rivals(c) /\ InProgress(c)
                BY <3>1, <3>2
            <4>3. call[d].pc \in {"new", "over"}
                BY <4>1, <4>2 DEF Rivals, InProgress
            <4>4. call[d].pc = "new"
                BY <4>1, <4>3 DEF SettingStep
            <4>5. Starts(d)
                BY <4>1, <4>4 DEF Starts
            <4>6. c \in Rivals(d)
                BY <2>1, <2>2, <4>1, <4>2 DEF Rivals
            <4> QED
                BY <2>1, <4>1, <4>5, <4>6
        <3>4. call'[c].pc = "answering" /\ call'[c].answer = "done" =>
                 (command[c].officer \in subscribed' <=> command[c].kind = "on")
            <4> SUFFICES ASSUME call'[c].pc = "answering", call'[c].answer = "done"
                         PROVE  command[c].officer \in subscribed' <=> command[c].kind = "on"
                OBVIOUS
            <4>1. \/ call[c].pc = "answering" /\ call[c].answer = "done"
                  \/ command[c].officer \in subscribed' <=> command[c].kind = "on"
                BY <2>1, <2>2 DEF SettingStep
            <4>2. ASSUME call[c].pc = "answering", call[c].answer = "done"
                  PROVE  command[c].officer \in subscribed' <=> command[c].officer \in subscribed
                <5>1. command[c].officer \in Officer
                    BY <1>1, <2>1 DEF Command
                <5>2. Rivals(c) = {}
                    BY <3>1, <4>2 DEF InProgress
                <5>3. ASSUME NEW d \in Call, Sets(d), command[d].officer = command[c].officer,
                             call[d].pc = "found"
                      PROVE  FALSE
                    <6>1. d # c
                        BY <4>2, <5>3
                    <6>2. d \in Rivals(c)
                        BY <5>3, <6>1 DEF Rivals, InProgress
                    <6> QED
                        BY <5>2, <6>2
                <5> QED
                    BY <5>1, <5>3 DEF SettingStep
            <4> QED
                BY <3>1, <4>1, <4>2
        <3> QED
            BY <2>1, <2>2, <2>3, <3>3, <3>4
    <2> QED
        BY <2>1, <2>4, <2>5
<1> QED
    BY <1>1, <1>2 DEF AloneOK

LEMMA KnownStays ==
    ASSUME TypeOK, AloneOK, KnownOK, Learn, SettingStep
    PROVE  KnownOK'
<1>1. alone \subseteq Call /\ command' = command /\ command \in [Call -> Command]
    BY DEF TypeOK, OfficerTypeOK, SettingStep
<1>2. ASSUME NEW o \in Officer, setting'[o] # "unknown"
      PROVE  /\ o \in subscribed' <=> setting'[o] = "on"
             /\ \A c \in Call : Sets(c) /\ command[c].officer = o =>
                   call'[c].pc \in {"new", "answering", "over"}
    <2>1. /\ \A c \in Call : Starts(c) => command[c].officer # o
          /\ \/ setting'[o] = setting[o]
             \/ \E c \in alone : /\ command[c].officer = o /\ setting'[o] = command[c].kind
                                 /\ "done" \in told'[c] \ told[c]
        BY <1>2, Learned
    <2>2. /\ o \in subscribed <=> setting'[o] = "on"
          /\ \A c \in Call : Sets(c) /\ command[c].officer = o =>
                call[c].pc \in {"new", "answering", "over"}
        <3>1. CASE setting'[o] = setting[o]
            BY <1>2, <3>1 DEF KnownOK
        <3>2. CASE \E c \in alone : /\ command[c].officer = o /\ setting'[o] = command[c].kind
                                    /\ "done" \in told'[c] \ told[c]
            <4>1. PICK c \in alone : /\ command[c].officer = o /\ setting'[o] = command[c].kind
                                     /\ "done" \in told'[c] \ told[c]
                BY <3>2
            <4>2. c \in Call /\ call[c].pc = "answering" /\ told'[c] = told[c] \cup {call[c].answer}
                BY <1>1, <4>1 DEF SettingStep
            <4>3. call[c].answer = "done"
                BY <4>1, <4>2
            <4>4. o \in subscribed <=> command[c].kind = "on"
                BY <4>1, <4>2, <4>3 DEF AloneOK
            <4>5. Rivals(c) = {}
                BY <4>1, <4>2 DEF AloneOK, InProgress
            <4>6. ASSUME NEW d \in Call, Sets(d), command[d].officer = o
                  PROVE  call[d].pc \in {"new", "answering", "over"}
                <5>1. d \notin Rivals(c)
                    BY <4>5
                <5> QED
                    BY <4>1, <4>2, <4>6, <5>1 DEF Rivals, InProgress
            <4> QED
                BY <4>1, <4>4, <4>6
        <3> QED
            BY <2>1, <3>1, <3>2
    <2>3. o \in subscribed' <=> o \in subscribed
        BY <2>2 DEF SettingStep
    <2>4. ASSUME NEW c \in Call, Sets(c), command[c].officer = o
          PROVE  call'[c].pc \in {"new", "answering", "over"}
        <3>1. CASE call[c].pc = "new"
            BY <2>1, <2>4, <3>1 DEF Starts
        <3>2. CASE call[c].pc \in {"answering", "over"}
            BY <3>2 DEF SettingStep
        <3> QED
            BY <2>2, <2>4, <3>1, <3>2
    <2> QED
        BY <2>2, <2>3, <2>4
<1> QED
    BY <1>1, <1>2 DEF KnownOK, Sets

\* The history keeps its types.
LEMMA HistoryTypes ==
    ASSUME TypeOK, AloneOK, Learn
    PROVE  /\ setting' \in [Officer -> Setting \cup {"unknown"}]
           /\ promised' \in [Replica -> [Setting -> SUBSET Officer]]
<1>1. ASSUME NEW o \in Officer PROVE setting'[o] \in Setting \cup {"unknown"}
    <2>1. CASE setting'[o] = "unknown"
        BY <2>1
    <2>2. CASE setting'[o] = setting[o]
        BY <2>2 DEF TypeOK
    <2>3. CASE \E c \in alone : setting'[o] = command[c].kind
        BY <2>3 DEF AloneOK, Sets
    <2> QED
        BY <2>1, <2>2, <2>3, Learned
<1>2. \A p \in Replica, s \in Setting : promised'[p][s] \subseteq Officer
    BY Learned
<1>3. setting' = [o \in Officer |-> setting'[o]]
    BY DEF Learn
<1>4. promised' = [p \in Replica |-> [s \in Setting |-> promised'[p][s]]]
    BY DEF Learn
<1>5. \A p \in Replica : [s \in Setting |-> promised'[p][s]] \in [Setting -> SUBSET Officer]
    BY <1>2
<1> QED
    BY <1>1, <1>3, <1>4, <1>5

--------------------------------------------------------------------------------
(* on_member_join.                                                         *)

AlertTypes ==
    permitted \subseteq Officer /\ handler \in [Replica -> Handler] /\ alerted \in [Replica -> SUBSET Officer]

\* What is promised after a step was promised before it, unless the member has
\* joined in between, and still holds.
LEMMA PromisesOf ==
    ASSUME Learn, KnownOK', NEW p \in Replica
    PROVE  LET on == promised[p]["on"]
               off == promised[p]["off"]
           IN /\ \A o \in on' : o \in Officer /\ setting'[o] = "on" /\ o \in permitted' /\ o \in subscribed'
              /\ \A o \in off' : o \in Officer /\ setting'[o] = "off" /\ o \notin subscribed'
              /\ handler'[p].pc \in {"idle", "broken"} => on' = {} /\ off' = {}
              /\ handler[p].pc # "idle" => on' \subseteq on /\ off' \subseteq off
<1>1. "on" \in Setting /\ "off" \in Setting
    BY DEF Setting
<1> QED
    BY <1>1, Learned DEF KnownOK

\* A handler that nothing moves.
LEMMA HandlerKept ==
    ASSUME Learn, KnownOK', NEW p \in Replica, HandlerOK(p), handler'[p] = handler[p], alerted'[p] = alerted[p]
    PROVE  HandlerOK(p)'
  BY PromisesOf DEF HandlerOK

LEMMA HandlersKept ==
    ASSUME Learn, KnownOK', HandlersOK, AlertTypes, UNCHANGED <<permitted, alertVars>>
    PROVE  HandlersOK' /\ AlertTypes'
  BY HandlerKept DEF HandlersOK, AlertTypes, alertVars

\* A handler that goes on by itself.
LEMMA HandlerGoes ==
    ASSUME Learn, KnownOK', HandlersOK, AlertTypes, NEW p \in Replica, NEW h \in Handler,
           handler' = [handler EXCEPT ![p] = h], permitted' = permitted,
           alerted' \in [Replica -> SUBSET Officer],
           \A q \in Replica \ {p} : alerted'[q] = alerted[q], HandlerOK(p)'
    PROVE  HandlersOK' /\ AlertTypes'
<1>1. handler' \in [Replica -> Handler] /\ \A q \in Replica \ {p} : handler'[q] = handler[q]
    BY DEF AlertTypes
<1>2. ASSUME NEW q \in Replica PROVE HandlerOK(q)'
    <2>1. CASE q = p
        BY <2>1
    <2>2. CASE q # p
        BY <1>1, <2>2, HandlerKept DEF HandlersOK
    <2> QED
        BY <2>1, <2>2
<1> QED
    BY <1>1, <1>2 DEF HandlersOK, AlertTypes

\* Where a handler goes without a change of what it has to do.
LEMMA GoesIs ==
    ASSUME AlertTypes, NEW p \in Replica,
           NEW pc \in {"welcoming", "loading", "alerting", "broken", "done"}, Goes(p, pc)
    PROVE  LET h == [handler[p] EXCEPT !.pc = pc]
           IN /\ h \in Handler /\ handler' = [handler EXCEPT ![p] = h] /\ handler'[p] = h
              /\ handler'[p].pc = pc /\ handler'[p].todo = handler[p].todo
              /\ handler'[p].cur = handler[p].cur
<1> DEFINE h == [handler[p] EXCEPT !.pc = pc]
<1>1. handler[p] \in Handler /\ handler \in [Replica -> Handler]
    BY DEF AlertTypes
<1>2. h \in Handler /\ h.pc = pc /\ h.todo = handler[p].todo /\ h.cur = handler[p].cur
    BY <1>1 DEF Handler
<1>3. handler' = [handler EXCEPT ![p] = h]
    BY DEF Goes
<1> HIDE DEF h
<1>4. handler'[p] = h
    BY <1>1, <1>3
<1> QED
    BY <1>2, <1>3, <1>4 DEF h

LEMMA GoesStep ==
    ASSUME Learn, KnownOK', HandlersOK, AlertTypes, NEW p \in Replica, permitted' = permitted,
           NEW pc \in {"welcoming", "loading", "alerting", "broken", "done"}, Goes(p, pc),
           alerted' \in [Replica -> SUBSET Officer],
           \A q \in Replica \ {p} : alerted'[q] = alerted[q], HandlerOK(p)'
    PROVE  HandlersOK' /\ AlertTypes'
<1> DEFINE h == [handler[p] EXCEPT !.pc = pc]
<1>1. h \in Handler /\ handler' = [handler EXCEPT ![p] = h]
    BY GoesIs
<1> HIDE DEF h
<1> QED
    BY <1>1, HandlerGoes

\* A handler that an error ends promises nothing.
LEMMA Breaks ==
    ASSUME Learn, KnownOK', HandlersOK, AlertTypes, NEW p \in Replica, permitted' = permitted,
           Goes(p, "broken"), alerted' \in [Replica -> SUBSET Officer],
           \A q \in Replica \ {p} : alerted'[q] = alerted[q]
    PROVE  HandlersOK' /\ AlertTypes'
<1>1. handler'[p].pc = "broken"
    BY GoesIs
<1>2. HandlerOK(p)'
    BY <1>1, PromisesOf DEF HandlerOK
<1> QED
    BY <1>2, GoesStep

LEMMA JoinKeeps ==
    ASSUME Learn, KnownOK', HandlersOK, AlertTypes, Join
    PROVE  HandlersOK' /\ AlertTypes'
<1> DEFINE h == [Unstarted EXCEPT !.pc = "joined"]
<1>1. /\ Unstarted \in Handler /\ h \in Handler /\ h.pc = "joined" /\ Unstarted.pc = "idle"
      /\ h.todo = {} /\ h.cur = {} /\ Unstarted.todo = {} /\ Unstarted.cur = {}
    BY DEF Unstarted, Handler
<1>2. /\ \A p \in Replica : handler[p].pc = "idle"
      /\ handler' = [p \in Replica |-> IF p \in up THEN h ELSE Unstarted]
      /\ permitted' = permitted /\ alerted' = alerted
    BY DEF Join
<1> HIDE DEF h
<1>3. AlertTypes'
    BY <1>1, <1>2 DEF AlertTypes
<1>4. ASSUME NEW p \in Replica PROVE HandlerOK(p)'
    <2>1. alerted'[p] = {}
        BY <1>2 DEF HandlersOK, HandlerOK
    <2>2. handler'[p].pc \in {"idle", "joined"} /\ handler'[p].todo = {} /\ handler'[p].cur = {}
        BY <1>1, <1>2
    <2> QED
        BY <2>1, <2>2, PromisesOf DEF HandlerOK
<1> QED
    BY <1>3, <1>4 DEF HandlersOK

LEMMA RetireKeeps ==
    ASSUME Learn, KnownOK', HandlersOK, AlertTypes, NEW o \in Officer, Retire(o)
    PROVE  HandlersOK' /\ AlertTypes'
  BY HandlerKept DEF HandlersOK, AlertTypes, Retire, alertVars

LEMMA WelcomeKeeps ==
    ASSUME Learn, KnownOK', HandlersOK, AlertTypes, NEW p \in Replica, Welcome(p) \/ Welcomed(p)
    PROVE  HandlersOK' /\ AlertTypes'
<1>1. /\ handler[p].pc \in {"joined", "welcoming"} /\ permitted' = permitted /\ alerted' = alerted
      /\ Goes(p, "welcoming") \/ Goes(p, "loading") \/ Goes(p, "broken")
    BY DEF Welcome, Welcomed, At
<1>2. HandlerOK(p) /\ alerted \in [Replica -> SUBSET Officer]
    BY DEF HandlersOK, AlertTypes
<1>3. CASE Goes(p, "broken")
    BY <1>1, <1>2, <1>3, Breaks
<1>4. ASSUME NEW pc \in {"welcoming", "loading"}, Goes(p, pc) PROVE HandlersOK' /\ AlertTypes'
    <2>1. /\ handler'[p].pc \in {"welcoming", "loading"}
          /\ handler'[p].todo = handler[p].todo /\ handler'[p].cur = handler[p].cur
        BY <1>4, GoesIs
    <2>2. HandlerOK(p)'
        BY <1>1, <1>2, <2>1, PromisesOf DEF HandlerOK
    <2> QED
        BY <1>1, <1>2, <1>4, <2>2, GoesStep
<1> QED
    BY <1>1, <1>3, <1>4

LEMMA LoadKeeps ==
    ASSUME Learn, KnownOK', HandlersOK, AlertTypes, NEW p \in Replica, LoadSubscribers(p),
           subscribed \subseteq Officer
    PROVE  HandlersOK' /\ AlertTypes'
<1>1. /\ handler[p].pc = "loading" /\ permitted' = permitted /\ alerted' = alerted
      /\ subscribed' = subscribed
    BY DEF LoadSubscribers, At, noOfficerVars, tableVars
<1>2. HandlerOK(p) /\ alerted \in [Replica -> SUBSET Officer] /\ handler[p] \in Handler
      /\ handler \in [Replica -> Handler]
    BY DEF HandlersOK, AlertTypes
<1>3. CASE Goes(p, "broken")
    BY <1>1, <1>2, <1>3, Breaks
<1>4. CASE handler' = [handler EXCEPT ![p].pc = "alerting", ![p].todo = list_subscriber_ids]
    <2> DEFINE h1 == [handler[p] EXCEPT !.pc = "alerting"]
               h2 == [h1 EXCEPT !.todo = subscribed]
    <2>1. h1 \in Handler /\ h1.pc = "alerting" /\ h1.cur = handler[p].cur
        BY <1>2 DEF Handler
    <2>2. handler' = [handler EXCEPT ![p] = h2]
        BY <1>4 DEF list_subscriber_ids
    <2> HIDE DEF h1
    <2>3. h2 \in Handler /\ h2.pc = "alerting" /\ h2.cur = handler[p].cur /\ h2.todo = subscribed
        BY <2>1 DEF Handler
    <2> HIDE DEF h2
    <2>4. handler'[p] = h2
        BY <1>2, <2>2
    <2>5. handler[p].cur = {} /\ alerted[p] = {}
        BY <1>1, <1>2 DEF HandlerOK
    <2>6. HandlerOK(p)'
        BY <1>1, <2>3, <2>4, <2>5, PromisesOf DEF HandlerOK
    <2> QED
        BY <1>1, <1>2, <2>2, <2>3, <2>6, HandlerGoes
<1> QED
    BY <1>3, <1>4 DEF LoadSubscribers

LEMMA StartAlertKeeps ==
    ASSUME Learn, KnownOK', HandlersOK, AlertTypes, NEW p \in Replica, NEW o \in Officer, StartAlert(p, o)
    PROVE  HandlersOK' /\ AlertTypes'
<1>1. /\ handler[p].pc = "alerting" /\ permitted' = permitted /\ alerted' = alerted
      /\ o \in handler[p].todo
    BY DEF StartAlert, At
<1>2. HandlerOK(p) /\ alerted \in [Replica -> SUBSET Officer] /\ handler[p] \in Handler
      /\ handler \in [Replica -> Handler] /\ handler[p].todo \subseteq Officer
    BY DEF HandlersOK, AlertTypes, Handler
<1>3. PICK skipped \in SUBSET (handler[p].todo \ permitted) :
         handler' = [handler EXCEPT ![p].pc = "sending", ![p].cur = {o}, ![p].todo = @ \ ({o} \cup skipped)]
    BY DEF StartAlert
<1> DEFINE rest == handler[p].todo \ ({o} \cup skipped)
           h1 == [handler[p] EXCEPT !.pc = "sending"]
           h2 == [h1 EXCEPT !.cur = {o}]
           h3 == [h2 EXCEPT !.todo = rest]
<1>4. h1 \in Handler /\ h1.pc = "sending" /\ h1.todo = handler[p].todo
    BY <1>2 DEF Handler
<1>5. handler' = [handler EXCEPT ![p] = h3]
    BY <1>3
<1>6. rest \subseteq Officer
    BY <1>2
<1> HIDE DEF h1
<1>7. h2 \in Handler /\ h2.pc = "sending" /\ h2.cur = {o}
    BY <1>4 DEF Handler
<1> HIDE DEF h2, rest
<1>8. h3 \in Handler /\ h3.pc = "sending" /\ h3.cur = {o} /\ h3.todo = rest
    BY <1>6, <1>7 DEF Handler
<1> HIDE DEF h3
<1>9. handler'[p] = h3
    BY <1>2, <1>5
<1>10. /\ rest \subseteq handler[p].todo /\ skipped \cap permitted = {}
       /\ handler[p].todo \subseteq rest \cup {o} \cup skipped
    BY DEF rest
<1>11. /\ handler[p].cur = {}
       /\ promised[p]["off"] \cap (handler[p].todo \cup alerted[p]) = {}
       /\ promised[p]["on"] \subseteq handler[p].todo \cup alerted[p]
    BY <1>1, <1>2 DEF HandlerOK
<1>12. HandlerOK(p)'
    BY <1>1, <1>8, <1>9, <1>10, <1>11, PromisesOf DEF HandlerOK
<1> QED
    BY <1>1, <1>2, <1>5, <1>8, <1>12, HandlerGoes

LEMMA AlertedKeeps ==
    ASSUME Learn, KnownOK', HandlersOK, AlertTypes, NEW p \in Replica, Alerted(p)
    PROVE  HandlersOK' /\ AlertTypes'
<1>1. /\ handler[p].pc = "sending" /\ permitted' = permitted
      /\ alerted' = [alerted EXCEPT ![p] = @ \cup handler[p].cur]
    BY DEF Alerted, At
<1>2. HandlerOK(p) /\ alerted \in [Replica -> SUBSET Officer] /\ handler[p] \in Handler
      /\ handler \in [Replica -> Handler] /\ handler[p].cur \subseteq Officer
    BY DEF HandlersOK, AlertTypes, Handler
<1>3. /\ alerted' \in [Replica -> SUBSET Officer] /\ alerted'[p] = alerted[p] \cup handler[p].cur
      /\ \A q \in Replica \ {p} : alerted'[q] = alerted[q]
    BY <1>1, <1>2
<1>4. CASE Goes(p, "broken")
    BY <1>1, <1>3, <1>4, Breaks
<1>5. CASE handler' = [handler EXCEPT ![p].pc = "alerting", ![p].cur = {}]
    <2> DEFINE h1 == [handler[p] EXCEPT !.pc = "alerting"]
               h2 == [h1 EXCEPT !.cur = {}]
    <2>1. h1 \in Handler /\ h1.pc = "alerting" /\ h1.todo = handler[p].todo
        BY <1>2 DEF Handler
    <2>2. handler' = [handler EXCEPT ![p] = h2]
        BY <1>5
    <2> HIDE DEF h1
    <2>3. h2 \in Handler /\ h2.pc = "alerting" /\ h2.cur = {} /\ h2.todo = handler[p].todo
        BY <2>1 DEF Handler
    <2> HIDE DEF h2
    <2>4. handler'[p] = h2
        BY <1>2, <2>2
    <2>5. HandlerOK(p)'
        BY <1>1, <1>2, <1>3, <2>3, <2>4, PromisesOf DEF HandlerOK
    <2> QED
        BY <1>1, <1>3, <2>2, <2>3, <2>5, HandlerGoes
<1> QED
    BY <1>4, <1>5 DEF Alerted, AfterRefusal

LEMMA AllAlertedKeeps ==
    ASSUME Learn, KnownOK', HandlersOK, AlertTypes, NEW p \in Replica, AllAlerted(p)
    PROVE  HandlersOK' /\ AlertTypes'
<1>1. /\ handler[p].pc = "alerting" /\ permitted' = permitted /\ alerted' = alerted
      /\ handler[p].todo \cap permitted = {} /\ Goes(p, "done")
    BY DEF AllAlerted, At
<1>2. HandlerOK(p) /\ alerted \in [Replica -> SUBSET Officer]
    BY DEF HandlersOK, AlertTypes
<1>3. handler'[p].pc = "done" /\ handler'[p].todo = handler[p].todo /\ handler'[p].cur = handler[p].cur
    BY <1>1, GoesIs
<1>4. HandlerOK(p)'
    BY <1>1, <1>2, <1>3, PromisesOf DEF HandlerOK
<1> QED
    BY <1>1, <1>2, <1>4, GoesStep

LEMMA StopsKeeps ==
    ASSUME Learn, KnownOK', HandlersOK, AlertTypes, NEW p \in Replica, Stops(p)
    PROVE  HandlersOK' /\ AlertTypes'
<1>1. permitted' = permitted /\ alerted' = alerted
    BY DEF Stops
<1>2. HandlerOK(p) /\ handler \in [Replica -> Handler] /\ handler[p] \in Handler
    BY DEF HandlersOK, AlertTypes
<1>3. CASE handler[p].pc = "idle"
    <2>1. handler'[p] = handler[p] /\ \A q \in Replica \ {p} : handler'[q] = handler[q]
        <3> DEFINE h == [handler[p] EXCEPT !.pc = "idle"]
        <3>1. h = handler[p]
            BY <1>2, <1>3 DEF Handler
        <3>2. handler' = [handler EXCEPT ![p] = h]
            BY <1>3 DEF Stops
        <3> HIDE DEF h
        <3> QED
            BY <1>2, <3>1, <3>2
    <2>2. handler' = handler
        BY <1>2, <2>1 DEF Stops
    <2> QED
        BY <1>1, <2>2, HandlersKept DEF alertVars
<1>4. CASE handler[p].pc # "idle"
    <2>1. Goes(p, "broken")
        BY <1>4 DEF Stops, Goes
    <2> QED
        BY <1>1, <2>1, Breaks DEF AlertTypes
<1> QED
    BY <1>3, <1>4

--------------------------------------------------------------------------------
(* The invariant.                                                          *)

LEMMA InitAlertInv == Init => AlertInv
<1> SUFFICES ASSUME Init PROVE AlertInv
    OBVIOUS
<1>1. TypeOK
    <2>1. OfficerTypeOK
        <3>1. Idle("new") \in CallState
            BY DEF Idle, CallState, Answer
        <3>2. [by : {Nobody}, body : Body, enabled : {TRUE}] \subseteq Row
            BY DEF Row
        <3>3. command \in [Call -> Command] /\ faults \in 0 .. MaxFaults
            BY OfficerAssumption DEF Init, OfficerInit
        <3> QED
            BY <3>1, <3>2, <3>3 DEF Init, OfficerInit, OfficerTypeOK
    <2>2. Unstarted \in Handler
        BY DEF Unstarted, Handler
    <2>3. "off" \in Setting
        BY DEF Setting
    <2> QED
        BY <2>1, <2>2, <2>3 DEF Init, TypeOK
<1>2. /\ \A c \in Call : call[c].pc = "new" /\ call[c].at = Nobody
      /\ \A c \in Call : heard[c] = {} /\ told[c] = {}
      /\ wrote = {} /\ subscribed = {} /\ alone = {} /\ \A o \in Officer : setting[o] = "off"
    BY DEF Init, OfficerInit, Idle
<1>3. CallsOK
    BY <1>2 DEF CallsOK, CallOK
<1>4. AnswersAreTrue
    BY <1>2 DEF AnswersAreTrue
<1>5. AloneOK /\ KnownOK
    BY <1>2 DEF AloneOK, KnownOK
<1>6. HandlersOK
    <2> SUFFICES ASSUME NEW p \in Replica PROVE HandlerOK(p)
        BY DEF HandlersOK
    <2>1. promised[p]["on"] = {} /\ promised[p]["off"] = {}
        BY DEF Init, Setting
    <2>2. /\ handler[p].pc = "idle" /\ handler[p].todo = {} /\ handler[p].cur = {}
          /\ alerted[p] = {}
        BY DEF Init, Unstarted
    <2> QED
        BY <2>1, <2>2 DEF HandlerOK
<1> QED
    BY <1>1, <1>3, <1>4, <1>5, <1>6 DEF AlertInv

LEMMA NextHandlers ==
    ASSUME TypeOK, HandlersOK, Learn, KnownOK', Next
    PROVE  HandlersOK' /\ AlertTypes'
<1>1. AlertTypes /\ subscribed \subseteq Officer
    BY DEF TypeOK, AlertTypes, OfficerTypeOK
<1>2. ASSUME NEW c \in Call, Along(c) PROVE HandlersOK' /\ AlertTypes'
    BY <1>1, <1>2, HandlersKept DEF Along
<1>3. CASE Join
    BY <1>1, <1>3, JoinKeeps
<1>4. ASSUME NEW o \in Officer, Retire(o) PROVE HandlersOK' /\ AlertTypes'
    BY <1>1, <1>4, RetireKeeps
<1>5. ASSUME NEW p \in Replica, Welcome(p) \/ Welcomed(p) PROVE HandlersOK' /\ AlertTypes'
    BY <1>1, <1>5, WelcomeKeeps
<1>6. ASSUME NEW p \in Replica, LoadSubscribers(p) PROVE HandlersOK' /\ AlertTypes'
    BY <1>1, <1>6, LoadKeeps
<1>7. ASSUME NEW p \in Replica, NEW o \in Officer, StartAlert(p, o) PROVE HandlersOK' /\ AlertTypes'
    BY <1>1, <1>7, StartAlertKeeps
<1>8. ASSUME NEW p \in Replica, Alerted(p) PROVE HandlersOK' /\ AlertTypes'
    BY <1>1, <1>8, AlertedKeeps
<1>9. ASSUME NEW p \in Replica, AllAlerted(p) PROVE HandlersOK' /\ AlertTypes'
    BY <1>1, <1>9, AllAlertedKeeps
<1>10. ASSUME NEW p \in Replica, Stops(p) PROVE HandlersOK' /\ AlertTypes'
    BY <1>1, <1>10, StopsKeeps
<1>11. ASSUME UNCHANGED <<permitted, alertVars>> PROVE HandlersOK' /\ AlertTypes'
    BY <1>1, <1>11, HandlersKept
<1> QED
    BY <1>2, <1>3, <1>4, <1>5, <1>6, <1>7, <1>8, <1>9, <1>10, <1>11 DEF Next

LEMMA NextHistory == Next => Witness /\ Learn
  BY DEF Next, Along, History

LEMMA NextAlertInv ==
    ASSUME AlertInv, Next
    PROVE  AlertInv'
<1>1. /\ TypeOK /\ OfficerTypeOK /\ CallsOK /\ AnswersAreTrue /\ AloneOK /\ KnownOK /\ HandlersOK
    BY DEF AlertInv, TypeOK
<1>2. Witness /\ Learn
    BY NextHistory
<1>3. OfficerTypeOK' /\ CallsOK' /\ SettingStep
    BY <1>1, EveryStep DEF Stepped
<1>4. AnswersAreTrue'
    BY <1>1, <1>2, <1>3, AnswersStayTrue
<1>5. AloneOK' /\ alone' \subseteq Call
    <2>1. call' \in [Call -> CallState]
        BY <1>3 DEF OfficerTypeOK
    <2> QED
        BY <1>1, <1>2, <1>3, <2>1, AloneStays
<1>6. KnownOK'
    BY <1>1, <1>2, <1>3, KnownStays
<1>7. HandlersOK' /\ AlertTypes'
    BY <1>1, <1>2, <1>6, NextHandlers
<1>8. TypeOK'
    BY <1>1, <1>2, <1>3, <1>5, <1>7, HistoryTypes DEF TypeOK, AlertTypes
<1> QED
    BY <1>3, <1>4, <1>5, <1>6, <1>7, <1>8 DEF AlertInv

LEMMA StutterAlertInv ==
    ASSUME AlertInv, UNCHANGED vars
    PROVE  AlertInv'
<1> USE DEF vars, officerVars, alertVars, historyVars
<1>1. TypeOK' /\ AnswersAreTrue'
    BY DEF AlertInv, TypeOK, OfficerTypeOK, AnswersAreTrue
<1>2. CallsOK'
    BY DEF AlertInv, CallsOK, CallOK, MayRun, Dirty, Same, Shown
<1>3. AloneOK' /\ KnownOK'
    BY DEF AlertInv, AloneOK, KnownOK, Sets, InProgress, Rivals
<1>4. HandlersOK'
    BY DEF AlertInv, HandlersOK, HandlerOK
<1> QED
    BY <1>1, <1>2, <1>3, <1>4 DEF AlertInv

--------------------------------------------------------------------------------

\* The invariant the theorems below follow from: how far each call and each
\* handler is, what has been seen of the tables on behalf of a call, and that
\* what an officer knows of its alerts is so.
THEOREM AlertInvariant == Spec => []AlertInv
<1>1. AlertInv /\ [Next]_vars => AlertInv'
    BY NextAlertInv, StutterAlertInv
<1> QED
    BY InitAlertInv, <1>1, PTL DEF Spec

\* What an officer is told of its command is true, whatever the other officers
\* and the other process did between its statements, and whatever failed.
THEOREM AnswersHold == Spec => []AnswersAreTrue
<1>1. AlertInv => AnswersAreTrue
    BY DEF AlertInv
<1> QED
    BY AlertInvariant, <1>1, PTL

\* Although every process hears of every interaction, each one changes the
\* tables at most once, with the permission, and only what it names.
THEOREM AskedForOnce == Spec => ChangesAreAskedOnce
<1>1. AlertInv /\ [Next]_vars => [AskedOnce]_officerVars
    <2>1. ASSUME AlertInv, Next PROVE AskedOnce
        BY <2>1, EveryStep DEF AlertInv, TypeOK, Stepped
    <2>2. UNCHANGED vars => UNCHANGED officerVars
        BY DEF vars
    <2> QED
        BY <2>1, <2>2
<1>2. [][AskedOnce]_officerVars => ChangesAreAskedOnce
    BY DEF ChangesAreAskedOnce, AskedOnce
<1> QED
    BY AlertInvariant, <1>1, <1>2, PTL DEF Spec

\* An officer told that its alerts are off hears of nobody who joins after
\* that, until it asks for alerts again.
THEOREM OffIsQuiet == Spec => []OffMeansNoAlert
<1>1. AlertInv => OffMeansNoAlert
    BY DEF AlertInv, HandlersOK, HandlerOK, OffMeansNoAlert
<1> QED
    BY AlertInvariant, <1>1, PTL

\* A process that is through with a new member has written to every officer
\* told before that its alerts are on, and permitted since.
THEOREM OnIsAlerted == Spec => []OnMeansAlert
<1>1. AlertInv => OnMeansAlert
    BY DEF AlertInv, HandlersOK, HandlerOK, OnMeansAlert
<1> QED
    BY AlertInvariant, <1>1, PTL
================================================================================
