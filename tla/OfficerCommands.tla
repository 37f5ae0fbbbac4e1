---------------------------- MODULE OfficerCommands ----------------------------
(***************************************************************************)
(* The officers' slash commands: /member-notify-add, -update, -remove,     *)
(* -list and -get on the table member_notification, and                    *)
(* /notify-new-members on the table of alert subscriptions.                *)
(*                                                                         *)
(* Discord tells every process that is up of an interaction (two during a  *)
(* rollout) and takes the first acknowledgement; each handler begins with  *)
(* it (require_manage_guild).  Statements are synchronous: a process that  *)
(* is between two of them does nothing else, the other process may.        *)
(***************************************************************************)
EXTENDS Naturals, FiniteSets

CONSTANTS
    Replica,       \* the processes of the bot
    Call,          \* the interactions
    Officer,
    Title,         \* the names of notifications
    Body,          \* dates, cadence, target and message of a notification
    NoRow,         \* no notification of that name
    Nobody,        \* no process has the call; no call made the row
    ListLimit,     \* how many lines a message of Discord holds
    Asked,         \* the commands officers give
    MaxFaults      \* bound: lost replies, failing statements, crashes

\* A row; "by" is the call that inserted it and stands for its primary key.
Row == [by : Call \cup {Nobody}, body : Body, enabled : BOOLEAN]

Change == {"add", "update", "remove"}
Reading == {"list", "get"}
Setting == {"on", "off"}

\* An interaction.  "fields" are the parameters given, "valid" whether their
\* format is (dates, times and cadence are typed as text), "allowed" the
\* permission manage_guild Discord sends with it.
Command == [kind : Change \cup Reading \cup Setting, officer : Officer, title : Title,
            body : Body, enabled : BOOLEAN, fields : SUBSET {"body", "enabled"},
            valid : BOOLEAN, allowed : BOOLEAN]

\* What can be said of the tables: the command's wish, or that field of it,
\* holds; there is no such row.
Fact == {"done", "body", "enabled", "not_found"}

Answer == {"done", "not_found", "officers_only", "invalid", "ops"}

\* pc: new, sent (to the processes), running (acknowledged), found (a row is
\* read), written (committed), answering, over.
CallState == [pc : {"new", "sent", "running", "found", "written", "answering", "over"},
              at : Replica \cup {Nobody}, row : Row \cup {NoRow}, answer : Answer]

ASSUME OfficerAssumption ==
    /\ MaxFaults \in Nat /\ ListLimit \in Nat
    /\ Asked \subseteq Command
    /\ Nobody \notin Replica \cup Call /\ NoRow \notin Row

VARIABLES
    table,       \* member_notification, by name
    subscribed,  \* officers with a row in new_member_alert_subscription
    command,     \* what each call asks for
    call,        \* where each call is
    heard,       \* the processes that have yet to handle it
    taken,       \* Discord: calls acknowledged, or given up after three seconds
    told,        \* what the officer was shown of each call
    up,          \* the processes that run
    wrote,       \* history: calls that changed a table
    witness,     \* history: what was true at an instant while the call ran
    faults

officerVars == <<table, subscribed, command, call, heard, taken, told, up, wrote, witness, faults>>

OfficerTypeOK ==
    /\ table \in [Title -> Row \cup {NoRow}]
    /\ subscribed \subseteq Officer
    /\ command \in [Call -> Command]
    /\ call \in [Call -> CallState]
    /\ heard \in [Call -> SUBSET Replica]
    /\ taken \subseteq Call
    /\ told \in [Call -> SUBSET Answer]
    /\ up \subseteq Replica
    /\ wrote \subseteq Call
    /\ witness \in [Call -> SUBSET Fact]
    /\ faults \in 0 .. MaxFaults

\* A process between two statements does nothing else.
Blocked(p) == \E c \in Call : call[c].at = p /\ call[c].pc \in {"found", "written"}

Ended(c) == call[c].pc = "over"

SpendFault == faults < MaxFaults /\ faults' = faults + 1

Idle(pc) == [pc |-> pc, at |-> Nobody, row |-> NoRow, answer |-> "ops"]

Ends(c) == call' = [call EXCEPT ![c] = Idle("over")]

Answering(c, a) == call' = [call EXCEPT ![c].pc = "answering", ![c].answer = a, ![c].row = NoRow]

Moves(c, pc) == call' = [call EXCEPT ![c].pc = pc]

tableVars == <<table, subscribed, wrote>>
discordVars == <<heard, taken, told, up>>

NewRow(c) == [by |-> c, body |-> command[c].body, enabled |-> TRUE]

OfficerInit ==
    /\ table \in [Title -> {NoRow} \cup [by : {Nobody}, body : Body, enabled : {TRUE}]]
    /\ subscribed = {}
    /\ command \in [Call -> Asked]
    /\ call = [c \in Call |-> Idle("new")]
    /\ heard = [c \in Call |-> {}]
    /\ taken = {}
    /\ told = [c \in Call |-> {}]
    /\ up = Replica
    /\ wrote = {}
    /\ witness = [c \in Call |-> {}]
    /\ faults = 0

--------------------------------------------------------------------------------
(* What was true while a call ran, kept up by every step.                  *)

Facts(tab, sub, c) ==
    LET k == command[c]
        row == tab[k.title]
    IN {f \in Fact :
          CASE f = "not_found" -> k.kind \in {"update", "remove", "get"} /\ row = NoRow
            [] f \in {"body", "enabled"} ->
                 k.kind = "update" /\ f \in k.fields /\ row # NoRow /\ row[f] = k[f]
            [] f = "done"      -> CASE k.kind = "add"    -> row # NoRow /\ row.by = c
                                    [] k.kind = "remove" -> row = NoRow
                                    [] k.kind = "on"     -> k.officer \in sub
                                    [] k.kind = "off"    -> k.officer \notin sub
                                    [] OTHER             -> FALSE}

Witness ==
    witness' = [c \in Call |->
                  IF call'[c].pc \in {"found", "written", "answering"}
                    THEN witness[c] \cup Facts(table', subscribed', c) ELSE witness[c]]

--------------------------------------------------------------------------------
(* Discord: the interaction, and the acknowledgement it waits for.         *)

Invoke(c) ==
    /\ call[c].pc = "new"
    /\ Moves(c, "sent")
    /\ heard' = [heard EXCEPT ![c] = up]
    /\ UNCHANGED <<tableVars, command, taken, told, up, faults>>

\* Three seconds without an acknowledgement: "the application did not respond".
Expire(c) ==
    /\ call[c].pc = "sent" /\ c \notin taken
    /\ taken' = taken \cup {c}
    /\ heard' = [heard EXCEPT ![c] = {}]
    /\ Ends(c)
    /\ UNCHANGED <<tableVars, command, told, up, faults>>

\* require_manage_guild: the handler defers before anything else.  Discord
\* takes the first acknowledgement; in the other processes defer() raises.
Defer(p, c) ==
    /\ p \in heard[c] /\ c \notin taken /\ ~Blocked(p)
    /\ taken' = taken \cup {c}
    /\ heard' = [heard EXCEPT ![c] = {}]
    /\ \/ /\ call' = [call EXCEPT ![c].pc = "running", ![c].at = p]
          /\ UNCHANGED faults
       \* Discord took it and the reply is lost: this handler ends, too.
       \/ Ends(c) /\ SpendFault
    /\ UNCHANGED <<tableVars, command, told, up>>

--------------------------------------------------------------------------------
(* The handler: permission, format, and the statements of the service.     *)

Runs(c) == call[c].pc = "running" /\ ~Blocked(call[c].at)

MayRun(c) == command[c].allowed /\ command[c].valid

Refuse(c) ==
    /\ Runs(c) /\ ~MayRun(c)
    /\ Answering(c, IF command[c].allowed THEN "invalid" ELSE "officers_only")
    /\ UNCHANGED <<tableVars, command, discordVars, faults>>

\* What SQLAlchemy writes: the fields given that differ from what was read.
Dirty(c) ==
    LET k == command[c]
        row == call[c].row
    IN k.fields \cap ({f \in {"body"} : k.body # row.body}
                        \cup {f \in {"enabled"} : k.enabled # row.enabled})

Written(c, row, fields) ==
    [row EXCEPT !.body = IF "body" \in fields THEN command[c].body ELSE @,
                !.enabled = IF "enabled" \in fields THEN command[c].enabled ELSE @]

\* Mutants of Updated: every column is written, as read or as given; the
\* switch is not among the fields that are set.
WholeRow(c, row) == Written(c, call[c].row, command[c].fields)
WithoutEnabled(c, row) == Written(c, row, Dirty(c) \ {"enabled"})

Updated(c, row) == Written(c, row, Dirty(c))

\* The row a statement names by its key is still there.
Same(c) ==
    LET row == table[command[c].title]
    IN row # NoRow /\ row.by = call[c].row.by

Put(c, row) ==
    /\ table' = [table EXCEPT ![command[c].title] = row]
    /\ UNCHANGED subscribed

\* Mutant of Subscribe: the DELETE is not committed.
SubscribeOnly(officers) == subscribed' = subscribed \cup officers /\ UNCHANGED table

Subscribe(officers) == subscribed' = officers /\ UNCHANGED table

\* The write of a call goes through: INSERT needs a free name (or no row of
\* that officer), UPDATE a row to change (StaleDataError); a DELETE that finds
\* none is only warned of.
Changes(c) ==
    LET k == command[c]
    IN CASE k.kind = "add"    -> table[k.title] = NoRow
         [] k.kind = "update" -> Same(c)
         [] k.kind = "on"     -> k.officer \notin subscribed
         [] OTHER             -> TRUE

\* The committed statement of a call, when it goes through.
Commit(c) ==
    LET k == command[c]
    IN /\ CASE k.kind = "add"    -> Put(c, NewRow(c))
            [] k.kind = "update" -> IF Same(c) THEN Put(c, Updated(c, table[k.title]))
                                    ELSE UNCHANGED <<table, subscribed>>
            [] k.kind = "remove" -> IF Same(c) THEN Put(c, NoRow)
                                    ELSE UNCHANGED <<table, subscribed>>
            [] k.kind = "on"     -> Subscribe(subscribed \cup {k.officer})
            [] k.kind = "off"    -> Subscribe(subscribed \ {k.officer})
       /\ wrote' = IF <<table, subscribed>>' # <<table, subscribed>> THEN wrote \cup {c} ELSE wrote

\* /member-notify-list and -get: one SELECT; a list that no message holds is
\* refused by Discord.
Read(c) ==
    LET k == command[c]
    IN /\ Runs(c) /\ MayRun(c) /\ k.kind \in Reading
       /\ Answering(c, CASE k.kind = "get" /\ table[k.title] = NoRow -> "not_found"
                         [] k.kind = "list" /\ Cardinality({t \in Title : table[t] # NoRow})
                                                 > ListLimit -> "ops"
                         [] OTHER -> "done")
       /\ UNCHANGED <<tableVars, command, discordVars, faults>>

\* The SELECT an update, a removal or a setting begins with.
Find(c) ==
    LET k == command[c]
        row == table[k.title]
        asIs == (k.kind = "on") = (k.officer \in subscribed)
    IN /\ Runs(c) /\ MayRun(c) /\ k.kind \in {"update", "remove"} \cup Setting
       /\ CASE k.kind \in Setting /\ asIs                  -> Answering(c, "done")
            [] k.kind \in Setting /\ ~asIs                 -> Moves(c, "found")
            [] k.kind \notin Setting /\ row = NoRow        -> Answering(c, "not_found")
            [] OTHER -> call' = [call EXCEPT ![c].pc = "found", ![c].row = row]
       /\ UNCHANGED <<tableVars, command, discordVars, faults>>

\* An addition begins with its INSERT.
AtWrite(c) ==
    \/ call[c].pc = "found"
    \/ Runs(c) /\ MayRun(c) /\ command[c].kind = "add"

\* A duplicate name is answered as an internal error: the text of Postgres's
\* message is not the one `create' looks for.
Write(c) ==
    /\ AtWrite(c)
    /\ IF Changes(c)
         THEN /\ Commit(c)
              /\ IF command[c].kind \in {"add", "update"} THEN Moves(c, "written")
                 ELSE Answering(c, "done")
         ELSE Answering(c, "ops") /\ UNCHANGED tableVars
    /\ UNCHANGED <<command, discordVars, faults>>

\* session.refresh raises when the row has been removed meanwhile.
Refresh(c) ==
    LET row == table[command[c].title]
        key == IF command[c].kind = "add" THEN c ELSE call[c].row.by
    IN /\ call[c].pc = "written"
       /\ Answering(c, IF row # NoRow /\ row.by = key THEN "done" ELSE "ops")
       /\ UNCHANGED <<tableVars, command, discordVars, faults>>

\* A statement raises; a COMMIT may have been carried out all the same.
StatementFails(c) ==
    /\ SpendFault
    /\ \/ /\ (Runs(c) /\ MayRun(c)) \/ call[c].pc \in {"found", "written"}
          /\ UNCHANGED tableVars
       \/ AtWrite(c) /\ Changes(c) /\ Commit(c)
    /\ Answering(c, "ops")
    /\ UNCHANGED <<command, discordVars>>

--------------------------------------------------------------------------------
(* The reply.                                                              *)

Reply(c) ==
    /\ call[c].pc = "answering" /\ ~Blocked(call[c].at)
    /\ told' = [told EXCEPT ![c] = @ \cup {call[c].answer}]
    /\ Ends(c)
    /\ UNCHANGED <<tableVars, command, heard, taken, up, faults>>

\* followup.send raises, the officer sees its message or not.  Inside the try
\* block of the handler the internal error is told next.
ReplyFails(c) ==
    /\ call[c].pc = "answering" /\ ~Blocked(call[c].at)
    /\ SpendFault
    /\ told' \in {told, [told EXCEPT ![c] = @ \cup {call[c].answer}]}
    /\ IF call[c].answer = "done" \/ (call[c].answer = "not_found" /\ command[c].kind = "get")
         THEN Answering(c, "ops") ELSE Ends(c)
    /\ UNCHANGED <<tableVars, command, heard, taken, up>>

--------------------------------------------------------------------------------
(* Processes stop and start.                                               *)

Crash(p) ==
    /\ p \in up /\ SpendFault
    /\ up' = up \ {p}
    /\ heard' = [c \in Call |-> heard[c] \ {p}]
    /\ call' = [c \in Call |-> IF call[c].at = p THEN Idle("over") ELSE call[c]]
    /\ UNCHANGED <<tableVars, command, taken, told>>

Start(p) ==
    /\ p \notin up
    /\ up' = up \cup {p}
    /\ UNCHANGED <<tableVars, command, call, heard, taken, told, faults>>

--------------------------------------------------------------------------------
(* Properties.                                                             *)

\* What an officer is told is true: "created", "updated", "removed" or "on"
\* held at an instant while the command ran (of an update, each field given),
\* "not found" of a moment in which there was no such row, and who was refused
\* has changed nothing, whatever the other process did between the statements.
AnswersAreTrue ==
    \A c \in Call :
        LET k == command[c]
        IN /\ "done" \in told[c] /\ k.kind \notin Reading =>
                IF k.kind = "update" THEN k.fields \subseteq witness[c] ELSE "done" \in witness[c]
           /\ "not_found" \in told[c] => "not_found" \in witness[c]
           /\ told[c] \cap {"officers_only", "invalid", "not_found"} # {} => c \notin wrote

\* The change a call may make: of its own row or subscription, and of a row
\* only the fields given.
IsChangeOf(c) ==
    LET k == command[c]
        old == table[k.title]
        new == table'[k.title]
    IN /\ \A t \in Title \ {k.title} : table'[t] = table[t]
       /\ \A o \in Officer \ {k.officer} : (o \in subscribed') = (o \in subscribed)
       /\ k.kind \in Setting <=> subscribed' # subscribed
       /\ CASE k.kind = "add"    -> old = NoRow /\ new = NewRow(c)
            [] k.kind = "remove" -> new = NoRow
            [] k.kind = "update" -> /\ old # NoRow /\ new # NoRow /\ new.by = old.by
                                    /\ new.body # old.body => "body" \in k.fields
                                    /\ new.enabled # old.enabled => "enabled" \in k.fields
            [] OTHER             -> UNCHANGED table

\* Although every process hears of every interaction, each one changes the
\* tables at most once, only for an officer with the permission, and nothing
\* but what it names: two updates of different fields both stand.
ChangesAreAskedOnce ==
    [][UNCHANGED <<table, subscribed>> \/
       \E c \in Call : /\ c \notin wrote /\ command[c].allowed /\ command[c].valid
                       /\ IsChangeOf(c)
                       /\ wrote' = wrote \cup {c}]_officerVars
================================================================================
