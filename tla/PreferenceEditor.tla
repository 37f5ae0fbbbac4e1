---------------------------- MODULE PreferenceEditor ----------------------------
(***************************************************************************)
(* /post-conditions-set: one member's editors (PostConditionsGridView),    *)
(* each built from a catalog and the preferences siege-web had when it was *)
(* opened, and the Saves their buttons start.  A click on Save is a        *)
(* callback of its own that awaits the PUT: the member may go on toggling, *)
(* save again, or cancel meanwhile, and another editor may save too.       *)
(***************************************************************************)
EXTENDS CatalogCache

CONSTANTS
    SaveClick,     \* bound: the clicks on Save
    NoEditor

\* "sent": the request is on its way or sleeps after a 429; "done": siege-web
\* has answered; "told": the callback has ended.
SaveTask == [pc : {"unused", "sent", "done", "told"},
             editor : Editor \cup {NoEditor}, ids : Catalog, attempt : 1 .. MaxAttempts,
             answer : {"none", "stored", "error", "unknown"},
             reply : {"none", "saved", "retry", "lost"}]

\* The conditions an editor lists are the payload of its call.
View == [pc : {"closed", "read", "open", "stripped", "error"},
         selected : Catalog]

VARIABLES
    prefs,     \* the member's preferences in siege-web
    view,      \* the editors
    saves,     \* the callbacks of SaveButton
    moved      \* history: what was toggled in an editor, or changed by others since it read

editorVars == <<prefs, view, saves, moved>>
commandVars == <<cacheVars, faults, editorVars>>

EditorTypeOK ==
    /\ CacheTypeOK
    /\ prefs \in Catalog
    /\ view \in [Editor -> View]
    /\ saves \in [SaveClick -> SaveTask]
    /\ moved \in [Editor -> Catalog]

NoSave == [pc |-> "unused", editor |-> NoEditor, ids |-> {}, attempt |-> 1,
           answer |-> "none", reply |-> "none"]

EditorInit ==
    /\ CacheInit
    /\ prefs \in Catalog
    /\ view = [e \in Editor |-> [pc |-> "closed", selected |-> {}]]
    /\ saves = [s \in SaveClick |-> NoSave]
    /\ moved = [e \in Editor |-> {}]

--------------------------------------------------------------------------------
(* post_conditions_set: list_catalog, then get_my_preferences, then a view.*)

\* The catalog has arrived and the preferences are awaited.
Reading(e) == view[e].pc = "closed" /\ call[e].pc = "returned"

\* siege-web answers with the preferences of this moment.
ReadPrefs(e) ==
    /\ Reading(e)
    /\ view' = [view EXCEPT ![e].pc = "read", ![e].selected = prefs]
    /\ moved' = [moved EXCEPT ![e] = {}]
    /\ UNCHANGED <<cacheVars, faults, prefs, saves>>

\* Not registered, rate-limited, or an error: a message and no view.
ReadFails(e) ==
    /\ Reading(e) /\ SpendFault
    /\ view' = [view EXCEPT ![e].pc = "error"]
    /\ UNCHANGED <<cacheVars, prefs, saves, moved>>

\* Mutant of seeded: the saved preferences are not marked.
SeededEmpty(listed, read) == {}

\* _selections: the conditions of the catalog, those preferred marked.
seeded(listed, read) == read \cap listed

\* The view is built; what is no catalog raises outside the try.
OpenView(e) ==
    /\ view[e].pc = "read"
    /\ view' = [view EXCEPT ![e] =
          IF call[e].payload = Garbage THEN [pc |-> "error", selected |-> {}]
          ELSE [pc |-> "open", selected |-> seeded(call[e].payload, @.selected)]]
    /\ UNCHANGED <<cacheVars, faults, prefs, saves, moved>>

--------------------------------------------------------------------------------
(* The buttons.                                                            *)

ToggleCondition(e) ==
    /\ view[e].pc = "open"
    /\ \E c \in call[e].payload :
          /\ view' = [view EXCEPT ![e].selected = Differ(@, {c})]
          /\ moved' = [moved EXCEPT ![e] = @ \cup {c}]
    /\ UNCHANGED <<cacheVars, faults, prefs, saves>>

NoButtons == [pc |-> "stripped", selected |-> {}]

CancelEditor(e) ==
    /\ view[e].pc = "open"
    /\ view' = [view EXCEPT ![e] = NoButtons]
    /\ UNCHANGED <<cacheVars, faults, prefs, saves, moved>>

ClickSave(e) ==
    /\ view[e].pc = "open"
    /\ \E s \in SaveClick :
          /\ saves[s].pc = "unused"
          /\ saves' = [saves EXCEPT ![s] = [NoSave EXCEPT !.pc = "sent", !.editor = e,
                                                          !.ids = view[e].selected]]
    /\ UNCHANGED <<cacheVars, faults, prefs, view, moved>>

--------------------------------------------------------------------------------
(* The PUT of a Save.                                                      *)

Answer(s, answer) ==
    saves' = [saves EXCEPT ![s].pc = "done", ![s].answer = answer,
                           ![s].ids = {}, ![s].attempt = 1]

\* The callback ends.
Reply(s, reply) ==
    saves' = [saves EXCEPT ![s] = [NoSave EXCEPT !.pc = "told", !.reply = reply,
                                                 !.answer = saves[s].answer]]

\* siege-web replaces the preferences; it refuses (422) what it does not list.
PutStored(s) ==
    /\ saves[s].pc = "sent" /\ saves[s].ids \subseteq catalog
    /\ prefs' = saves[s].ids
    /\ Answer(s, "stored")
    /\ moved' = [e \in Editor |->
                   IF e = saves[s].editor THEN moved[e]
                   ELSE moved[e] \cup Differ(prefs, saves[s].ids)]
    /\ UNCHANGED <<cacheVars, faults, view>>

PutRefused(s) ==
    /\ saves[s].pc = "sent"
    /\ \/ ~(saves[s].ids \subseteq catalog) /\ UNCHANGED faults
       \/ SpendFault
    /\ Answer(s, "error")
    /\ UNCHANGED <<cacheVars, prefs, view, moved>>

\* Mutant of PutLimited: the last 429 is taken for an answer.
PutLimitedSwallowed(s) ==
    /\ saves[s].pc = "sent"
    /\ \/ /\ saves[s].attempt < MaxAttempts
          /\ saves' = [saves EXCEPT ![s].attempt = @ + 1]
       \/ saves[s].attempt = MaxAttempts /\ Answer(s, "none")
    /\ UNCHANGED <<cacheVars, faults, prefs, view, moved>>

\* 429: sleep and send again; the last one raises SiegeWebRateLimitError.
PutLimited(s) ==
    /\ saves[s].pc = "sent"
    /\ \/ /\ saves[s].attempt < MaxAttempts
          /\ saves' = [saves EXCEPT ![s].attempt = @ + 1]
       \/ saves[s].attempt = MaxAttempts /\ Answer(s, "error")
    /\ UNCHANGED <<cacheVars, faults, prefs, view, moved>>

\* A status _raise_for_status does not know, with a JSON body.
PutUnknown(s) ==
    /\ saves[s].pc = "sent" /\ SpendFault
    /\ Answer(s, "unknown")
    /\ UNCHANGED <<cacheVars, prefs, view, moved>>

\* The connection breaks, before or after siege-web stored: no SiegeWebError,
\* so the callback ends without an answer.
PutBreaks(s) ==
    /\ saves[s].pc \in {"sent", "done"} /\ saves[s].answer \in {"none", "stored"} /\ SpendFault
    /\ Reply(s, "lost")
    /\ UNCHANGED <<cacheVars, prefs, view, moved>>

--------------------------------------------------------------------------------
(* The rest of the callback, once the PUT has returned.                    *)

\* "Preferences saved", and the buttons go.
TellSaved(s) ==
    /\ saves[s].pc = "done" /\ saves[s].answer # "error"
    /\ Reply(s, "saved")
    /\ view' = [view EXCEPT ![saves[s].editor] = NoButtons]
    /\ UNCHANGED <<cacheVars, faults, prefs, moved>>

\* "Could not save preferences. Try again.", and the buttons stay.
TellRetry(s) ==
    /\ saves[s].pc = "done" /\ saves[s].answer = "error"
    /\ Reply(s, "retry")
    /\ UNCHANGED <<cacheVars, faults, prefs, view, moved>>

\* The retries have outlasted the three seconds of the interaction: Discord
\* refuses the reply.
TellTooLate(s) ==
    /\ saves[s].pc = "done"
    /\ Reply(s, "lost")
    /\ UNCHANGED <<cacheVars, faults, prefs, view, moved>>

Put(s) == PutStored(s) \/ PutRefused(s) \/ PutLimited(s) \/ PutUnknown(s) \/ PutBreaks(s)
Tell(s) == TellSaved(s) \/ TellRetry(s) \/ TellTooLate(s)
OpenEditor(e) == ReadPrefs(e) \/ ReadFails(e) \/ OpenView(e)

EditorNext ==
    \/ \E e \in Editor :
          \/ ListCatalog(e) /\ UNCHANGED editorVars
          \/ OpenEditor(e) \/ ToggleCondition(e) \/ CancelEditor(e) \/ ClickSave(e)
    \/ \E s \in SaveClick : Put(s) \/ Tell(s)
    \/ (AdvanceClock \/ EditCatalog) /\ UNCHANGED editorVars

EditorSpec == EditorInit /\ [][EditorNext]_commandVars

--------------------------------------------------------------------------------
(* Properties.                                                             *)

\* A Save that siege-web stores changes only what the member has toggled in
\* that editor, what others have changed since it was opened, and what its
\* catalog does not list: no preference is lost by the snapshot, the seeding
\* of _selections or a Save that overlaps another one.
OnlyToggledChanges ==
    [][\A s \in SaveClick :
        saves[s].pc = "sent" /\ saves'[s].answer = "stored" =>
            LET e == saves[s].editor
            IN Differ(prefs, prefs') \subseteq moved[e] \cup (Condition \ call[e].payload)]_commandVars

\* "Preferences saved" is shown for no Save that siege-web refused, limited or
\* never answered; a status the client does not know is the one exception.
SavedIsStored ==
    \A s \in SaveClick : saves[s].reply = "saved" => saves[s].answer \in {"stored", "unknown"}
================================================================================
