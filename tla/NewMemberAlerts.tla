---------------------------- MODULE NewMemberAlerts ----------------------------
(***************************************************************************)
(* on_member_join: every process that is up welcomes the new member and    *)
(* then writes to each officer subscribed to alerts.  The subscriptions    *)
(* are read once, before a loop of awaits in which officers come, go and   *)
(* change their setting.  record_join is in AutoKick.                      *)
(***************************************************************************)
EXTENDS OfficerCommands

\* One process's handler.  todo: the subscribers it has yet to look at.
Handler == [pc : {"idle", "joined", "welcoming", "loading", "alerting", "sending", "done", "broken"},
            todo : SUBSET Officer, cur : SUBSET Officer]

VARIABLES
    permitted,   \* officers in the guild with manage_guild, as the gateway tells
    handler,     \* on_member_join in each process; one member joins
    alerted,     \* the officers each process has written to, reached or not
    setting,     \* history: what each officer knows its alerts are set to
    alone,       \* history: settings no other one of the officer overlapped
    promised     \* history: for each process, what was known when the member
                 \* joined and has been neither changed nor suspended since

alertVars == <<handler, alerted>>
historyVars == <<setting, alone, promised>>
vars == <<officerVars, permitted, alertVars, historyVars>>

TypeOK ==
    /\ OfficerTypeOK
    /\ permitted \subseteq Officer
    /\ handler \in [Replica -> Handler]
    /\ alerted \in [Replica -> SUBSET Officer]
    /\ setting \in [Officer -> Setting \cup {"unknown"}]
    /\ alone \subseteq Call
    /\ promised \in [Replica -> [Setting -> SUBSET Officer]]

Unstarted == [pc |-> "idle", todo |-> {}, cur |-> {}]

Init ==
    /\ OfficerInit
    /\ permitted = Officer
    /\ handler = [p \in Replica |-> Unstarted]
    /\ alerted = [p \in Replica |-> {}]
    /\ setting = [o \in Officer |-> "off"]
    /\ alone = {}
    /\ promised = [p \in Replica |-> [s \in Setting |-> {}]]

--------------------------------------------------------------------------------
(* History: an officer knows its setting once told of a command that no    *)
(* other command of its own overlapped.                                    *)

Sets(c) == command[c].kind \in Setting

InProgress(c) == call[c].pc \notin {"new", "over"}

Starts(c) == call[c].pc = "new" /\ call'[c].pc # "new" /\ Sets(c)

Rivals(c) == {d \in Call \ {c} : Sets(d) /\ InProgress(d) /\ command[d].officer = command[c].officer}

Learn ==
    /\ alone' = (alone \cup {c \in Call : Starts(c) /\ Rivals(c) = {}})
                  \ {d \in Call : \E c \in Call : Starts(c) /\ d \in Rivals(c)}
    /\ setting' = [o \in Officer |->
         IF \E c \in Call : Starts(c) /\ command[c].officer = o THEN "unknown"
         ELSE LET new == {c \in alone : /\ command[c].officer = o
                                        /\ "done" \in told'[c] \ told[c]}
              IN IF new = {} THEN setting[o] ELSE command[CHOOSE c \in new : TRUE].kind]
    \* "on" counts for who may be alerted throughout, "off" for who has not
    \* asked again.
    /\ promised' = [p \in Replica |-> [s \in Setting |->
         LET now == {o \in Officer : /\ setting'[o] = s
                                     /\ s = "on" => o \in permitted'}
         IN IF handler'[p].pc \in {"idle", "broken"} THEN {}
            ELSE IF handler[p].pc = "idle" THEN now
            ELSE promised[p][s] \cap now]]

--------------------------------------------------------------------------------
(* The guild.                                                              *)

\* Bound: one member joins, where no notification is edited.
Join ==
    /\ \A c \in Call : Sets(c)
    /\ up # {} /\ \A p \in Replica : handler[p].pc = "idle"
    /\ handler' = [p \in Replica |-> IF p \in up THEN [Unstarted EXCEPT !.pc = "joined"] ELSE Unstarted]
    /\ UNCHANGED <<officerVars, permitted, alerted>>

\* An officer loses the role that permits it, or leaves the guild.  Bound:
\* one of them does.
Retire(o) ==
    /\ permitted = Officer
    /\ permitted' = permitted \ {o}
    /\ UNCHANGED <<officerVars, alertVars>>

--------------------------------------------------------------------------------
(* on_member_join.                                                         *)

At(p, pc) == handler[p].pc = pc /\ ~Blocked(p)

Goes(p, pc) == handler' = [handler EXCEPT ![p].pc = pc]

noOfficerVars == <<tableVars, command, call, discordVars, witness>>

\* _send_welcome_message: without the secret or a channel to write to it
\* returns at once, otherwise it awaits fetch_channel or send.
Welcome(p) ==
    /\ At(p, "joined")
    /\ Goes(p, "welcoming") \/ Goes(p, "loading")
    /\ UNCHANGED <<officerVars, permitted, alerted>>

\* Discord's errors are caught; any other one ends the handler.
Welcomed(p) ==
    /\ At(p, "welcoming")
    /\ \/ Goes(p, "loading") /\ UNCHANGED faults
       \/ Goes(p, "broken") /\ SpendFault
    /\ UNCHANGED <<noOfficerVars, permitted, alerted>>

list_subscriber_ids == subscribed

\* The statement follows the welcome without an await.
LoadSubscribers(p) ==
    /\ At(p, "loading")
    /\ \/ /\ handler' = [handler EXCEPT ![p].pc = "alerting", ![p].todo = list_subscriber_ids]
          /\ UNCHANGED faults
       \/ Goes(p, "broken") /\ SpendFault
    /\ UNCHANGED <<noOfficerVars, permitted, alerted>>

\* Officers without the permission are passed over at their turn.
StartAlert(p, o) ==
    /\ At(p, "alerting") /\ o \in handler[p].todo \cap permitted
    /\ \E skipped \in SUBSET (handler[p].todo \ permitted) :
          handler' = [handler EXCEPT ![p].pc = "sending", ![p].cur = {o},
                                     ![p].todo = @ \ ({o} \cup skipped)]
    /\ UNCHANGED <<officerVars, permitted, alerted>>

\* Mutant of AfterRefusal: one officer's closed messages end the loop.
LoopEnds == "done"

AfterRefusal == "alerting"

\* The message arrives or Discord refuses it, or the connection breaks: that
\* is not caught.
Alerted(p) ==
    /\ At(p, "sending")
    /\ alerted' = [alerted EXCEPT ![p] = @ \cup handler[p].cur]
    /\ \/ \E next \in {"alerting", AfterRefusal} :
             handler' = [handler EXCEPT ![p].pc = next, ![p].cur = {}]
          /\ UNCHANGED faults
       \/ Goes(p, "broken") /\ SpendFault
    /\ UNCHANGED <<noOfficerVars, permitted>>

AllAlerted(p) ==
    /\ At(p, "alerting") /\ handler[p].todo \cap permitted = {}
    /\ Goes(p, "done")
    /\ UNCHANGED <<officerVars, permitted, alerted>>
--------------------------------------------------------------------------------
(* A process does one thing at a time: from the welcome to the first alert,*)
(* and from one alert to the next, there is no await.                      *)

Busy(p) == p \in Replica /\ handler[p].pc \in {"loading", "alerting"}

\* The menu and require_manage_guild go by the permission of the moment.
Permitted(c) == command[c].allowed = (command[c].officer \in permitted)

History == Witness /\ Learn

\* What else a step of call c means.
Along(c) == ~Busy(call[c].at) /\ UNCHANGED <<permitted, alertVars>> /\ History

\* A process that stops leaves its handler.
Stops(p) ==
    /\ handler' = [handler EXCEPT ![p].pc = IF @ = "idle" THEN @ ELSE "broken"]
    /\ UNCHANGED <<permitted, alerted>>

Next ==
    \/ \E c \in Call : Invoke(c) /\ Permitted(c) /\ Along(c)
    \/ \E c \in Call : Expire(c) /\ Along(c)
    \/ \E c \in Call, p \in Replica : Defer(p, c) /\ ~Busy(p) /\ Along(c)
    \/ \E c \in Call : Refuse(c) /\ Along(c)
    \/ \E c \in Call : Read(c) /\ Along(c)
    \/ \E c \in Call : Find(c) /\ Along(c)
    \/ \E c \in Call : Write(c) /\ Along(c)
    \/ \E c \in Call : Refresh(c) /\ Along(c)
    \/ \E c \in Call : StatementFails(c) /\ Along(c)
    \/ \E c \in Call : Reply(c) /\ Along(c)
    \/ \E c \in Call : ReplyFails(c) /\ Along(c)
    \/ Join /\ History
    \/ \E o \in Officer : Retire(o) /\ History
    \/ \E p \in Replica : Welcome(p) /\ History
    \/ \E p \in Replica : Welcomed(p) /\ History
    \/ \E p \in Replica : LoadSubscribers(p) /\ History
    \/ \E p \in Replica, o \in Officer : StartAlert(p, o) /\ History
    \/ \E p \in Replica : Alerted(p) /\ History
    \/ \E p \in Replica : AllAlerted(p) /\ History
    \/ \E p \in Replica : Crash(p) /\ Stops(p) /\ History
    \/ \E p \in Replica : Start(p) /\ UNCHANGED <<permitted, alertVars>> /\ History

Spec == Init /\ [][Next]_vars

--------------------------------------------------------------------------------
(* Properties.                                                             *)

\* An officer told that its alerts are off hears of nobody who joins after
\* that, until it asks for alerts again, in whatever order the processes
\* handled its commands.
OffMeansNoAlert == \A p \in Replica : alerted[p] \cap promised[p]["off"] = {}

\* When a process is through with a new member, it has written to every
\* officer told before that its alerts are on, and permitted since, whomever
\* else Discord refused a message to.
OnMeansAlert == \A p \in Replica : handler[p].pc = "done" => promised[p]["on"] \subseteq alerted[p]
================================================================================
