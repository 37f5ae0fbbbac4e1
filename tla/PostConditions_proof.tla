-------------------------- MODULE PostConditions_proof --------------------------
(***************************************************************************)
(* /post-conditions-set.  Of the catalog and the preferences: the cache is *)
(* fetched by one caller at a time and returns what is recent, and a Save  *)
(* stores what was toggled.  Of the view of an editor, for every catalog,  *)
(* page size and number of clicks: the pages are right, the message comes  *)
(* to show what is staged, and "Preferences saved" lists what was sent.    *)
(***************************************************************************)
EXTENDS PreferenceEditor, GridView, FiniteSetTheorems, TLAPS

--------------------------------------------------------------------------------
(* The catalog cache and the editors' data (PreferenceEditor).             *)

\* Whoever fetches holds the lock.
FetcherHoldsLock ==
    \A e \in Editor : call[e].pc \in {"fetching", "answered"} => lock = e

\* An answer under way is at most Latency old, and its catalog was siege-web's
\* when it was made; what is cached was siege-web's Latency before it was
\* stored, whatever happened to the catalog since.
AnswersRecent ==
    /\ \A e \in Editor : call[e].pc = "answered" =>
          /\ clock <= call[e].at + Latency
          /\ call[e].payload # Garbage => call[e].at <= LastCurrent(call[e].payload)
    /\ cache # NoEntry /\ cache.payload # Garbage =>
          cache.ts <= LastCurrent(cache.payload) + Latency

\* An editor has its catalog, a Save that is on its way has its editor.
EditorsHaveCatalogs ==
    /\ \A e \in Editor :
          /\ view[e].pc # "closed" => call[e].pc = "returned"
          /\ view[e].pc = "open" => call[e].payload \in Catalog
    /\ \A s \in SaveClick : saves[s].pc \in {"sent", "done"} =>
          /\ saves[s].editor \in Editor
          /\ view[saves[s].editor].pc \notin {"closed", "read"}

\* How siege-web may answer a Save, and when the member is told.
SavesInOrder ==
    \A s \in SaveClick :
        /\ saves[s].pc \in {"unused", "sent"} => saves[s].answer = "none"
        /\ saves[s].pc = "done" => saves[s].answer # "none"
        /\ saves[s].pc # "told" => saves[s].reply = "none"

\* Conditions an editor cannot show.
Unlisted(e) == Condition \ call[e].payload

\* What an editor has, and what a Save is about to store, differs from the
\* preferences by what was moved since the editor read them, and by what the
\* editor does not list.
DifferenceIsMoved ==
    /\ \A e \in Editor :
          /\ view[e].pc = "read" => Differ(prefs, view[e].selected) \subseteq moved[e]
          /\ view[e].pc = "open" =>
                Differ(prefs, view[e].selected) \subseteq moved[e] \cup Unlisted(e)
    /\ \A s \in SaveClick : saves[s].pc = "sent" =>
          Differ(prefs, saves[s].ids) \subseteq moved[saves[s].editor] \cup Unlisted(saves[s].editor)

EditorInv ==
    /\ EditorTypeOK
    /\ FetcherHoldsLock
    /\ LockIsForAFetch
    /\ AnswersRecent
    /\ EditorsHaveCatalogs
    /\ SavesInOrder
    /\ DifferenceIsMoved

LEMMA CallTypes ==
    /\ {} \in Payload /\ Catalog \subseteq Payload /\ Garbage \in Payload
    /\ \A p \in Payload : \A pc \in {"returned", "failed"} : Result(pc, p) \in Call
  BY CacheAssumption DEF Payload, Catalog, Result, Call, Time

LEMMA ListCatalogTypes ==
    ASSUME CacheTypeOK, NEW e \in Editor, ListCatalog(e)
    PROVE  CacheTypeOK'
  <1> USE CacheAssumption DEF CacheTypeOK
  <1>0. call[e] \in Call /\ call[e].payload \in Payload
    BY DEF Call
  <1>1. CASE Hit(e)
    BY <1>1, CallTypes DEF Hit, Return, Fresh, Entry
  <1>2. CASE Queue(e)
    BY <1>2 DEF Queue, Call
  <1>3. CASE Locked(e)
    <2>1. CASE Fresh /\ Return(e, cache.payload) /\ UNCHANGED lock
      BY <1>3, <2>1, CallTypes DEF Locked, Return, Fresh, Entry
    <2>2. CASE ~Fresh /\ StartFetch(e)
      BY <1>3, <2>2 DEF Locked, StartFetch, Call
    <2>3. QED
      BY <1>3, <2>1, <2>2 DEF Locked
  <1>4. CASE FetchAnswered(e)
    <2>1. PICK p \in Payload :
              call' = [call EXCEPT ![e] = [@ EXCEPT !.pc = "answered", !.payload = p, !.at = clock]]
      BY <1>4, CallTypes DEF FetchAnswered
    <2>2. [call[e] EXCEPT !.pc = "answered", !.payload = p, !.at = clock] \in Call
      BY DEF Call
    <2> HIDE DEF CacheTypeOK
    <2>4. call' \in [Editor -> Call]
      BY <2>1, <2>2 DEF CacheTypeOK
    <2>3. faults' \in 0 .. MaxFaults
      BY <1>4 DEF FetchAnswered, SpendFault, CacheTypeOK
    <2>5. QED
      BY <1>4, <2>3, <2>4 DEF FetchAnswered, CacheTypeOK
  <1>5. CASE FetchStored(e)
    BY <1>0, <1>5, CallTypes DEF FetchStored, Return, Entry
  <1>6. CASE FetchLimited(e)
    <2>1. CASE Raise(e)
      BY <1>6, <2>1, CallTypes DEF FetchLimited, Raise
    <2>2. CASE call[e].attempt < MaxAttempts /\ call' = [call EXCEPT ![e].attempt = @ + 1] /\ UNCHANGED lock
      BY <1>6, <2>2 DEF FetchLimited, Call
    <2>3. QED
      BY <1>6, <2>1, <2>2 DEF FetchLimited
  <1>7. CASE FetchFails(e)
    BY <1>7, CallTypes DEF FetchFails, Raise, SpendFault
  <1>8. QED
    BY <1>1, <1>2, <1>3, <1>4, <1>5, <1>6, <1>7 DEF ListCatalog

\* What the clock and the administrator of siege-web do.
LEMMA OutsideTypes ==
    ASSUME CacheTypeOK, AdvanceClock \/ EditCatalog
    PROVE  CacheTypeOK'
  <1>1. CASE AdvanceClock
    BY <1>1, CacheAssumption DEF AdvanceClock, CacheTypeOK, Time
  <1>2. CASE EditCatalog
    <2>1. catalog' \in Catalog
      BY <1>2 DEF EditCatalog, CacheTypeOK, Catalog
    <2>2. retired' \in [Catalog -> 0 .. MaxTime]
      BY <1>2 DEF EditCatalog, CacheTypeOK, Time
    <2>3. QED
      BY <1>2, <2>1, <2>2 DEF EditCatalog, CacheTypeOK
  <1>3. QED
    BY <1>1, <1>2

\* The task of a Save, changed as the steps change it.
LEMMA TaskTypes ==
    ASSUME NEW t \in SaveTask, NEW pc \in {"sent", "done", "told"}
    PROVE  /\ \A e \in Editor, c \in Catalog :
                 [t EXCEPT !.pc = pc, !.editor = e, !.ids = c] \in SaveTask
           /\ \A a \in {"none", "stored", "error", "unknown"} :
                 [t EXCEPT !.pc = pc, !.answer = a] \in SaveTask
           /\ [t EXCEPT !.ids = {}, !.attempt = 1] \in SaveTask
           /\ t.attempt < MaxAttempts => [t EXCEPT !.attempt = @ + 1] \in SaveTask
  <1> USE DEF SaveTask
  <1>1. ASSUME NEW e \in Editor, NEW c \in Catalog
        PROVE  [t EXCEPT !.pc = pc, !.editor = e, !.ids = c] \in SaveTask
    OBVIOUS
  <1>2. ASSUME NEW a \in {"none", "stored", "error", "unknown"}
        PROVE  [t EXCEPT !.pc = pc, !.answer = a] \in SaveTask
    OBVIOUS
  <1>3. [t EXCEPT !.ids = {}, !.attempt = 1] \in SaveTask
    <2>1. {} \in Catalog /\ 1 \in 1 .. MaxAttempts
      BY CacheAssumption DEF Catalog
    <2>2. QED
      BY <2>1
  <1>4. ASSUME t.attempt < MaxAttempts
        PROVE  [t EXCEPT !.attempt = @ + 1] \in SaveTask
    BY CacheAssumption, <1>4
  <1> HIDE DEF SaveTask
  <1>5. QED
    BY <1>1, <1>2, <1>3, <1>4

\* The tasks of Saves, as each step leaves them.
LEMMA SaveTypes ==
    ASSUME EditorTypeOK, NEW s \in SaveClick
    PROVE  /\ NoSave \in SaveTask
           /\ \A e \in Editor, c \in Catalog :
                 [NoSave EXCEPT !.pc = "sent", !.editor = e, !.ids = c] \in SaveTask
           /\ \A a \in {"stored", "error", "unknown"} :
                 Answer(s, a) => saves' \in [SaveClick -> SaveTask]
           /\ \A r \in {"saved", "retry", "lost"} :
                 Reply(s, r) => saves' \in [SaveClick -> SaveTask]
  <1>1. NoSave \in SaveTask /\ {} \in Catalog
    BY CacheAssumption DEF NoSave, SaveTask, Catalog
  <1>2. ASSUME NEW e \in Editor, NEW c \in Catalog
        PROVE  [NoSave EXCEPT !.pc = "sent", !.editor = e, !.ids = c] \in SaveTask
    BY <1>1, TaskTypes
  <1>3. ASSUME NEW a \in {"stored", "error", "unknown"}, Answer(s, a)
        PROVE  saves' \in [SaveClick -> SaveTask]
    <2>1. saves' = [saves EXCEPT ![s] = [@ EXCEPT !.pc = "done", !.answer = a,
                                                  !.ids = {}, !.attempt = 1]]
      BY <1>3 DEF Answer
    <2>2. [saves[s] EXCEPT !.pc = "done", !.answer = a, !.ids = {}, !.attempt = 1] \in SaveTask
      <3>1. saves[s] \in SaveTask
        BY DEF EditorTypeOK
      <3>2. [saves[s] EXCEPT !.pc = "done", !.answer = a] \in SaveTask
        BY <3>1, TaskTypes
      <3>3. QED
        BY <3>2, TaskTypes
    <2>3. QED
      BY <2>1, <2>2 DEF EditorTypeOK
  <1>4. ASSUME NEW r \in {"saved", "retry", "lost"}, Reply(s, r)
        PROVE  saves' \in [SaveClick -> SaveTask]
    <2>1. [NoSave EXCEPT !.pc = "told", !.reply = r, !.answer = saves[s].answer] \in SaveTask
      BY <1>1 DEF EditorTypeOK, SaveTask, NoSave
    <2>2. QED
      BY <1>4, <2>1 DEF Reply, EditorTypeOK
  <1>5. QED
    BY <1>1, <1>2, <1>3, <1>4

LEMMA SameCacheTypes ==
    ASSUME CacheTypeOK, UNCHANGED cacheVars, UNCHANGED faults \/ SpendFault
    PROVE  CacheTypeOK'
  BY CacheAssumption DEF CacheTypeOK, cacheVars, SpendFault

LEMMA EditorStepTypes ==
    ASSUME EditorTypeOK, EditorsHaveCatalogs, NEW e \in Editor,
           OpenEditor(e) \/ ToggleCondition(e) \/ CancelEditor(e) \/ ClickSave(e)
    PROVE  EditorTypeOK'
  <1> USE DEF EditorTypeOK
  <1>0. call[e].payload \in Payload /\ view[e] \in View /\ view[e].selected \in Catalog
    BY DEF CacheTypeOK, Call, View
  <1>1. CASE ReadPrefs(e)
    <2>1. view' \in [Editor -> View] /\ moved' \in [Editor -> Catalog]
      BY <1>1 DEF ReadPrefs, View, Catalog
    <2>2. QED
      BY <1>1, <2>1, SameCacheTypes DEF ReadPrefs
  <1>2. CASE ReadFails(e)
    <2>1. view' \in [Editor -> View]
      BY <1>2 DEF ReadFails, View
    <2>2. QED
      BY <1>2, <2>1, SameCacheTypes DEF ReadFails
  <1>3. CASE OpenView(e)
    <2>1. view' \in [Editor -> View]
      BY <1>0, <1>3 DEF OpenView, View, Catalog, Payload, seeded
    <2>2. QED
      BY <1>3, <2>1, SameCacheTypes DEF OpenView
  <1>4. CASE ToggleCondition(e)
    <2>1. PICK c \in call[e].payload :
              /\ view' = [view EXCEPT ![e].selected = Differ(@, {c})]
              /\ moved' = [moved EXCEPT ![e] = @ \cup {c}]
      BY <1>4 DEF ToggleCondition
    <2>2. c \in Condition
      BY <1>4, <2>1 DEF ToggleCondition, EditorsHaveCatalogs, Catalog
    <2>3. Differ(view[e].selected, {c}) \in Catalog /\ moved[e] \cup {c} \in Catalog
      BY <1>0, <2>2 DEF Differ, Catalog
    <2>4. view' \in [Editor -> View] /\ moved' \in [Editor -> Catalog]
      BY <2>1, <2>3 DEF View
    <2>5. QED
      BY <1>4, <2>4, SameCacheTypes DEF ToggleCondition
  <1>5. CASE CancelEditor(e)
    <2>1. view' \in [Editor -> View]
      BY <1>5 DEF CancelEditor, NoButtons, View, Catalog
    <2>2. QED
      BY <1>5, <2>1, SameCacheTypes DEF CancelEditor
  <1>6. CASE ClickSave(e)
    <2>1. PICK s \in SaveClick : saves' = [saves EXCEPT ![s] = [NoSave EXCEPT !.pc = "sent", !.editor = e,
                                                          !.ids = view[e].selected]]
      BY <1>6 DEF ClickSave
    <2>2. saves' \in [SaveClick -> SaveTask]
      BY <1>0, <2>1, SaveTypes
    <2>3. QED
      BY <1>6, <2>2, SameCacheTypes DEF ClickSave
  <1>7. QED
    BY <1>1, <1>2, <1>3, <1>4, <1>5, <1>6 DEF OpenEditor

LEMMA PutTypes ==
    ASSUME EditorTypeOK, NEW s \in SaveClick, Put(s)
    PROVE  EditorTypeOK'
  <1> USE SaveTypes, SameCacheTypes DEF EditorTypeOK
  <1>1. CASE PutStored(s)
    <2>1. saves[s].ids \in Catalog
      BY DEF SaveTask
    <2>2. moved' \in [Editor -> Catalog]
      BY <1>1, <2>1 DEF PutStored, Differ, Catalog
    <2>3. QED
      BY <1>1, <2>1, <2>2 DEF PutStored
  <1>2. CASE PutRefused(s)
    BY <1>2 DEF PutRefused
  <1>3. CASE PutLimited(s)
    <2>1. CASE saves[s].attempt < MaxAttempts /\ saves' = [saves EXCEPT ![s].attempt = @ + 1]
      <3>0. [saves[s] EXCEPT !.attempt = @ + 1] \in SaveTask
        BY <2>1, TaskTypes
      <3>1. saves' \in [SaveClick -> SaveTask]
        BY <2>1, <3>0
      <3>2. QED
        BY <1>3, <3>1 DEF PutLimited
    <2>2. CASE Answer(s, "error")
      BY <1>3, <2>2 DEF PutLimited
    <2>3. QED
      BY <1>3, <2>1, <2>2 DEF PutLimited
  <1>4. CASE PutUnknown(s)
    BY <1>4 DEF PutUnknown
  <1>5. CASE PutBreaks(s)
    BY <1>5 DEF PutBreaks
  <1>6. QED
    BY <1>1, <1>2, <1>3, <1>4, <1>5 DEF Put

LEMMA TellTypes ==
    ASSUME EditorTypeOK, NEW s \in SaveClick, Tell(s)
    PROVE  EditorTypeOK'
  <1> USE SaveTypes, SameCacheTypes DEF EditorTypeOK
  <1>1. CASE TellSaved(s)
    <2>1. view' \in [Editor -> View]
      BY <1>1 DEF TellSaved, NoButtons, View, Catalog
    <2>2. QED
      BY <1>1, <2>1 DEF TellSaved
  <1>2. CASE TellRetry(s)
    BY <1>2 DEF TellRetry
  <1>3. CASE TellTooLate(s)
    BY <1>3 DEF TellTooLate
  <1>4. QED
    BY <1>1, <1>2, <1>3 DEF Tell

LEMMA EditorTypeStep ==
    ASSUME EditorTypeOK, EditorsHaveCatalogs, [EditorNext]_commandVars
    PROVE  EditorTypeOK'
  <1>1. ASSUME NEW e \in Editor, ListCatalog(e), UNCHANGED editorVars
        PROVE  EditorTypeOK'
    BY <1>1, ListCatalogTypes DEF EditorTypeOK, editorVars
  <1>2. CASE (AdvanceClock \/ EditCatalog) /\ UNCHANGED editorVars
    BY <1>2, OutsideTypes DEF EditorTypeOK, editorVars
  <1>3. CASE UNCHANGED commandVars
    BY <1>3 DEF EditorTypeOK, CacheTypeOK, commandVars, cacheVars, editorVars
  <1>4. QED
    BY <1>1, <1>2, <1>3, EditorStepTypes, PutTypes, TellTypes DEF EditorNext

--------------------------------------------------------------------------------
(* The cache and its lock.                                                 *)

\* What a step of list_catalog may be, for the lock and the caller.
LEMMA LockStep ==
    ASSUME EditorTypeOK, FetcherHoldsLock, NEW e \in Editor, ListCatalog(e)
    PROVE  /\ FetcherHoldsLock'
           /\ LockIsForAFetch => LockIsForAFetch'
           /\ \A f \in Editor \ {e} : call'[f] = call[f]
           /\ call[e].pc # "returned"
  <1> USE CacheAssumption DEF EditorTypeOK, CacheTypeOK, FetcherHoldsLock, LockIsForAFetch, Call
  <1>1. CASE Hit(e)
    BY <1>1 DEF Hit, Return, Result
  <1>2. CASE Queue(e)
    BY <1>2 DEF Queue
  <1>3. CASE Locked(e)
    <2>1. call[e].pc \in {"idle", "waiting"} /\ lock = Nobody
      BY <1>3 DEF Locked, Grant
    <2>2. CASE Fresh /\ Return(e, cache.payload) /\ UNCHANGED lock
      BY <2>1, <2>2 DEF Return, Result
    <2>3. CASE ~Fresh /\ StartFetch(e)
      BY <2>1, <2>3 DEF StartFetch
    <2>4. QED
      BY <1>3, <2>2, <2>3 DEF Locked
  <1>4. CASE FetchAnswered(e)
    BY <1>4 DEF FetchAnswered
  <1>5. CASE FetchStored(e)
    BY <1>5 DEF FetchStored, Return, Result
  <1>6. CASE FetchLimited(e)
    BY <1>6 DEF FetchLimited, Raise, Result
  <1>7. CASE FetchFails(e)
    BY <1>7 DEF FetchFails, Raise, Result
  <1>8. QED
    BY <1>1, <1>2, <1>3, <1>4, <1>5, <1>6, <1>7 DEF ListCatalog

\* A fetch starts behind the lock, on an entry that has expired.
LEMMA FetchStarts ==
    ASSUME EditorTypeOK, FetcherHoldsLock, NEW e \in Editor, ListCatalog(e),
           NEW f \in Editor, call[f].pc # "fetching", call'[f].pc = "fetching"
    PROVE  /\ \A g \in Editor : call[g].pc \notin {"fetching", "answered"}
           /\ cache = NoEntry \/ cache.ts + TTL <= clock
  <1> USE CacheAssumption DEF EditorTypeOK, CacheTypeOK, Call
  <1>1. f = e
    BY LockStep
  <1>2. Locked(e) /\ ~Fresh
    BY <1>1 DEF ListCatalog, Hit, Queue, Locked, FetchAnswered, FetchStored, FetchLimited,
                FetchFails, Return, Raise, Result
  <1>3. lock = Nobody
    BY <1>2 DEF Locked, Grant
  <1>4. \A g \in Editor : call[g].pc \notin {"fetching", "answered"}
    BY <1>3 DEF FetcherHoldsLock
  <1>5. cache = NoEntry \/ cache.ts + TTL <= clock
    BY <1>2 DEF Fresh, Entry, Time
  <1>6. QED
    BY <1>4, <1>5

\* Time does not take from a catalog that it was current at some time.
LEMMA LastCurrentType ==
    ASSUME EditorTypeOK, NEW p \in Catalog
    PROVE  LastCurrent(p) \in 0 .. MaxTime
  BY CacheAssumption DEF EditorTypeOK, CacheTypeOK, LastCurrent, Time

\* Neither the clock nor a step of list_catalog changes a catalog's past.
LEMMA RecentAfterCall ==
    ASSUME EditorTypeOK, AnswersRecent, NEW e \in Editor, ListCatalog(e)
    PROVE  /\ AnswersRecent'
           /\ call[e].pc # "returned" /\ call'[e].pc = "returned" /\ call'[e].payload # Garbage =>
                 clock < LastCurrent(call'[e].payload) + TTL + Latency
  <1> USE CacheAssumption DEF EditorTypeOK, CacheTypeOK
  <1>0. /\ clock \in Nat /\ catalog \in Catalog
        /\ \A f \in Editor : call[f] \in Call /\ call[f].payload \in Payload /\ call[f].at \in Nat
        /\ \A p \in Catalog : LastCurrent(p) \in Nat
        /\ \A p \in Payload : p # Garbage => LastCurrent(p) \in Nat
    BY LastCurrentType DEF Time, Call, Payload
  <1>1. \A p : LastCurrent(p)' = LastCurrent(p)
    BY DEF ListCatalog, Hit, Queue, Locked, FetchAnswered, FetchStored, FetchLimited, FetchFails,
           LastCurrent
  <1>2. CASE Hit(e) \/ (Locked(e) /\ Fresh /\ Return(e, cache.payload))
    <2>1. /\ call' = [call EXCEPT ![e] = Result("returned", cache.payload)]
          /\ UNCHANGED <<clock, cache>> /\ Fresh
      BY <1>2 DEF Hit, Locked, Return
    <2>2. AnswersRecent'
      BY <1>1, <2>1 DEF AnswersRecent, Result
    <2>3. cache.payload # Garbage => clock < LastCurrent(cache.payload) + TTL + Latency
      BY <1>0, <2>1 DEF AnswersRecent, Fresh, Entry, Time
    <2>4. QED
      BY <2>1, <2>2, <2>3 DEF Result
  <1>3. CASE FetchStored(e)
    <2>1. /\ call' = [call EXCEPT ![e] = Result("returned", call[e].payload)]
          /\ cache' = [payload |-> call[e].payload, ts |-> clock]
          /\ UNCHANGED clock
          /\ call[e].pc = "answered"
      BY <1>3 DEF FetchStored, Return
    <2>2. call[e].payload # Garbage => clock <= LastCurrent(call[e].payload) + Latency
      BY <1>0, <2>1 DEF AnswersRecent
    <2>3. AnswersRecent'
      BY <1>1, <2>1, <2>2 DEF AnswersRecent, Result
    <2>4. call[e].payload # Garbage => clock < LastCurrent(call[e].payload) + TTL + Latency
      BY <1>0, <2>2
    <2>5. QED
      BY <2>1, <2>3, <2>4 DEF Result
  <1>4. CASE FetchAnswered(e)
    <2>1. PICK p \in {catalog, Garbage} :
              call' = [call EXCEPT ![e] = [@ EXCEPT !.pc = "answered", !.payload = p, !.at = clock]]
      BY <1>4 DEF FetchAnswered
    <2>2. UNCHANGED <<clock, cache>>
      BY <1>4 DEF FetchAnswered
    <2>3. /\ call'[e].pc = "answered" /\ call'[e].payload = p /\ call'[e].at = clock
          /\ \A f \in Editor \ {e} : call'[f] = call[f]
      BY <1>0, <2>1 DEF Call
    <2>4. p # Garbage => LastCurrent(p) = clock
      BY DEF LastCurrent
    <2>5. QED
      BY <1>0, <1>1, <2>2, <2>3, <2>4 DEF AnswersRecent
  <1>5. CASE Queue(e) \/ (Locked(e) /\ StartFetch(e)) \/ FetchLimited(e) \/ FetchFails(e)
    <2>1. call'[e].pc \notin {"answered", "returned"}
      BY <1>0, <1>5 DEF Queue, StartFetch, FetchLimited, FetchFails, Raise, Result, Call
    <2>2. UNCHANGED <<clock, cache>> /\ \A f \in Editor \ {e} : call'[f] = call[f]
      BY <1>5 DEF Queue, Locked, StartFetch, FetchLimited, FetchFails, Raise
    <2>3. QED
      BY <1>1, <2>1, <2>2 DEF AnswersRecent
  <1>6. QED
    BY <1>2, <1>3, <1>4, <1>5 DEF ListCatalog, Locked

LEMMA RecentOutside ==
    ASSUME EditorTypeOK, AnswersRecent, AdvanceClock \/ EditCatalog
    PROVE  AnswersRecent'
  <1> USE CacheAssumption DEF EditorTypeOK, CacheTypeOK
  <1>0. /\ clock \in Nat \ {0} /\ catalog \in Catalog
        /\ \A f \in Editor : call[f] \in Call /\ call[f].payload \in Payload /\ call[f].at \in Nat
        /\ \A p \in Catalog : LastCurrent(p) \in Nat /\ retired[p] \in Nat
        /\ \A p \in Payload : p # Garbage => p \in Catalog
        /\ cache # NoEntry => cache.payload \in Payload /\ cache.ts \in Nat
    BY LastCurrentType DEF Time, Call, Payload, Entry
  <1>1. CASE AdvanceClock
    <2>1. \A p \in Catalog : LastCurrent(p)' >= LastCurrent(p) /\ LastCurrent(p)' \in Nat
      BY <1>0, <1>1 DEF AdvanceClock, LastCurrent
    <2>2. QED
      BY <1>0, <1>1, <2>1 DEF AdvanceClock, AnswersRecent
  <1>2. CASE EditCatalog
    <2>1. \A p \in Catalog : LastCurrent(p)' >= LastCurrent(p) /\ LastCurrent(p)' \in Nat
      <3>1. /\ retired' = [retired EXCEPT ![catalog] = clock] /\ clock' = clock
            /\ \A p \in Catalog : retired[p] = 0
        BY <1>2 DEF EditCatalog
      <3>2. /\ retired'[catalog] = clock
            /\ \A p \in Catalog : p # catalog => retired'[p] = 0
        BY <1>0, <3>1
      <3>3. QED
        BY <1>0, <3>1, <3>2 DEF LastCurrent
    <2>2. QED
      BY <1>0, <1>2, <2>1 DEF EditCatalog, AnswersRecent
  <1>3. QED
    BY <1>1, <1>2

--------------------------------------------------------------------------------
(* The editors and their Saves.                                            *)

\* What a step that answers a Save or ends its callback leaves of it.
LEMMA TaskAfter ==
    ASSUME EditorTypeOK, NEW s \in SaveClick
    PROVE  /\ \A a : Answer(s, a) =>
                 /\ saves'[s].pc = "done" /\ saves'[s].answer = a
                 /\ saves'[s].editor = saves[s].editor /\ saves'[s].reply = saves[s].reply
                 /\ \A t \in SaveClick \ {s} : saves'[t] = saves[t]
           /\ \A r : Reply(s, r) =>
                 /\ saves'[s].pc = "told" /\ saves'[s].answer = saves[s].answer
                 /\ saves'[s].reply = r
                 /\ \A t \in SaveClick \ {s} : saves'[t] = saves[t]
  <1>1. saves[s] \in SaveTask
    BY DEF EditorTypeOK
  <1>2. ASSUME NEW a, Answer(s, a)
        PROVE  /\ saves'[s].pc = "done" /\ saves'[s].answer = a
               /\ saves'[s].editor = saves[s].editor /\ saves'[s].reply = saves[s].reply
               /\ \A t \in SaveClick \ {s} : saves'[t] = saves[t]
    <2>1. saves' = [saves EXCEPT ![s] = [@ EXCEPT !.pc = "done", !.answer = a,
                                                  !.ids = {}, !.attempt = 1]]
      BY <1>2 DEF Answer
    <2>2. saves'[s] = [saves[s] EXCEPT !.pc = "done", !.answer = a, !.ids = {}, !.attempt = 1]
      BY <2>1 DEF EditorTypeOK
    <2>3. QED
      BY <1>1, <2>1, <2>2 DEF EditorTypeOK, SaveTask
  <1>3. ASSUME NEW r, Reply(s, r)
        PROVE  /\ saves'[s].pc = "told" /\ saves'[s].answer = saves[s].answer
               /\ saves'[s].reply = r
               /\ \A t \in SaveClick \ {s} : saves'[t] = saves[t]
    BY <1>3 DEF Reply, EditorTypeOK, NoSave
  <1>4. QED
    BY <1>2, <1>3

\* What a click on Save starts.
LEMMA ClickStarts ==
    ASSUME EditorTypeOK, NEW e \in Editor, ClickSave(e)
    PROVE  \E s \in SaveClick :
              /\ saves[s].pc = "unused"
              /\ saves'[s].pc = "sent" /\ saves'[s].editor = e
              /\ saves'[s].ids = view[e].selected
              /\ saves'[s].answer = "none" /\ saves'[s].reply = "none"
              /\ \A t \in SaveClick \ {s} : saves'[t] = saves[t]
  BY DEF ClickSave, EditorTypeOK, NoSave

LEMMA SavesInOrderStep ==
    ASSUME EditorTypeOK, SavesInOrder, [EditorNext]_commandVars
    PROVE  SavesInOrder'
  <1>1. CASE UNCHANGED saves
    BY <1>1 DEF SavesInOrder
  <1>2. ASSUME NEW e \in Editor, ClickSave(e)
        PROVE  SavesInOrder'
    BY <1>2, ClickStarts DEF SavesInOrder
  <1>3. ASSUME NEW s \in SaveClick, Put(s)
        PROVE  SavesInOrder'
    <2>1. CASE PutStored(s)
      BY <2>1, TaskAfter DEF PutStored, SavesInOrder
    <2>2. CASE PutRefused(s)
      BY <2>2, TaskAfter DEF PutRefused, SavesInOrder
    <2>3. CASE PutLimited(s)
      <3>1. CASE saves' = [saves EXCEPT ![s].attempt = @ + 1]
        BY <3>1 DEF SavesInOrder, EditorTypeOK, SaveTask
      <3>2. CASE Answer(s, "error")
        BY <2>3, <3>2, TaskAfter DEF PutLimited, SavesInOrder
      <3>3. QED
        BY <2>3, <3>1, <3>2 DEF PutLimited
    <2>4. CASE PutUnknown(s)
      BY <2>4, TaskAfter DEF PutUnknown, SavesInOrder
    <2>5. CASE PutBreaks(s)
      BY <2>5, TaskAfter DEF PutBreaks, SavesInOrder
    <2>6. QED
      BY <1>3, <2>1, <2>2, <2>3, <2>4, <2>5 DEF Put
  <1>4. ASSUME NEW s \in SaveClick, Tell(s)
        PROVE  SavesInOrder'
    <2>1. saves[s].pc = "done" /\ \E r : Reply(s, r)
      BY <1>4 DEF Tell, TellSaved, TellRetry, TellTooLate
    <2>2. QED
      BY <2>1, TaskAfter DEF SavesInOrder
  <1>5. QED
    BY <1>1, <1>2, <1>3, <1>4 DEF EditorNext, commandVars, editorVars, OpenEditor, ReadPrefs,
       ReadFails, OpenView, ToggleCondition, CancelEditor

\* Whom a step tells that it is saved.
LEMMA SavedStep ==
    ASSUME EditorTypeOK, SavesInOrder, SavedIsStored, [EditorNext]_commandVars
    PROVE  SavedIsStored'
  <1>1. CASE UNCHANGED saves
    BY <1>1 DEF SavedIsStored
  <1>2. ASSUME NEW e \in Editor, ClickSave(e)
        PROVE  SavedIsStored'
    BY <1>2, ClickStarts DEF SavedIsStored
  <1>3. ASSUME NEW s \in SaveClick, Put(s)
        PROVE  SavedIsStored'
    <2>1. CASE \E a : Answer(s, a)
      <3>1. saves[s].pc = "sent"
        BY <1>3, <2>1, TaskAfter DEF Put, PutStored, PutRefused, PutLimited, PutUnknown, PutBreaks
      <3>2. QED
        BY <2>1, <3>1, TaskAfter DEF SavedIsStored, SavesInOrder
    <2>2. CASE PutBreaks(s)
      BY <2>2, TaskAfter DEF PutBreaks, SavedIsStored
    <2>3. CASE saves' = [saves EXCEPT ![s].attempt = @ + 1]
      BY <2>3 DEF SavedIsStored, EditorTypeOK, SaveTask
    <2>4. QED
      BY <1>3, <2>1, <2>2, <2>3 DEF Put, PutStored, PutRefused, PutLimited, PutUnknown
  <1>4. ASSUME NEW s \in SaveClick, Tell(s)
        PROVE  SavedIsStored'
    <2>1. CASE TellSaved(s)
      <3>1. saves[s].answer \in {"stored", "unknown"}
        BY <2>1 DEF TellSaved, SavesInOrder, EditorTypeOK, SaveTask
      <3>2. QED
        BY <2>1, <3>1, TaskAfter DEF TellSaved, SavedIsStored
    <2>2. CASE TellRetry(s)
      BY <2>2, TaskAfter DEF TellRetry, SavedIsStored
    <2>3. CASE TellTooLate(s)
      BY <2>3, TaskAfter DEF TellTooLate, SavedIsStored
    <2>4. QED
      BY <1>4, <2>1, <2>2, <2>3 DEF Tell
  <1>5. QED
    BY <1>1, <1>2, <1>3, <1>4 DEF EditorNext, commandVars, editorVars, OpenEditor, ReadPrefs,
       ReadFails, OpenView, ToggleCondition, CancelEditor

\* A step of an editor leaves the other editors alone, and its catalog.
LEMMA CatalogsStep ==
    ASSUME EditorTypeOK, FetcherHoldsLock, EditorsHaveCatalogs, [EditorNext]_commandVars
    PROVE  EditorsHaveCatalogs'
  <1> USE DEF EditorTypeOK
  <1>1. CASE UNCHANGED <<call, view, saves>>
    BY <1>1 DEF EditorsHaveCatalogs
  <1>2. ASSUME NEW e \in Editor, ListCatalog(e), UNCHANGED editorVars
        PROVE  EditorsHaveCatalogs'
    BY <1>2, LockStep DEF EditorsHaveCatalogs, editorVars
  <1>3. ASSUME NEW e \in Editor, OpenEditor(e) \/ ToggleCondition(e) \/ CancelEditor(e)
        PROVE  EditorsHaveCatalogs'
    <2>1. CASE ReadPrefs(e)
      BY <2>1 DEF ReadPrefs, Reading, EditorsHaveCatalogs, View, cacheVars
    <2>2. CASE ReadFails(e)
      BY <2>2 DEF ReadFails, Reading, EditorsHaveCatalogs, View, cacheVars
    <2>3. CASE OpenView(e)
      <3>1. call[e].pc = "returned" /\ view[e].pc = "read" /\ call[e].payload \in Payload
        BY <2>3 DEF OpenView, EditorsHaveCatalogs, CacheTypeOK, Call
      <3>2. /\ view'[e].pc \in {"error", "open"}
            /\ view'[e].pc = "open" => call[e].payload \in Catalog
            /\ \A f \in Editor \ {e} : view'[f] = view[f]
        BY <2>3, <3>1 DEF OpenView, Payload
      <3>3. QED
        BY <2>3, <3>1, <3>2 DEF OpenView, EditorsHaveCatalogs, cacheVars
    <2>4. CASE ToggleCondition(e)
      BY <2>4 DEF ToggleCondition, EditorsHaveCatalogs, View, cacheVars
    <2>5. CASE CancelEditor(e)
      BY <2>5 DEF CancelEditor, EditorsHaveCatalogs, NoButtons, cacheVars
    <2>6. QED
      BY <1>3, <2>1, <2>2, <2>3, <2>4, <2>5 DEF OpenEditor
  <1>4. ASSUME NEW e \in Editor, ClickSave(e)
        PROVE  EditorsHaveCatalogs'
    <2>1. view[e].pc = "open" /\ UNCHANGED <<call, view>>
      BY <1>4 DEF ClickSave, cacheVars
    <2>2. QED
      BY <1>4, <2>1, ClickStarts DEF EditorsHaveCatalogs
  <1>5. ASSUME NEW s \in SaveClick, Put(s)
        PROVE  EditorsHaveCatalogs'
    <2>1. UNCHANGED <<call, view>>
      BY <1>5 DEF Put, PutStored, PutRefused, PutLimited, PutUnknown, PutBreaks, cacheVars
    <2>2. CASE \E a : Answer(s, a) /\ saves[s].pc = "sent"
      BY <2>1, <2>2, TaskAfter DEF EditorsHaveCatalogs
    <2>3. CASE PutBreaks(s)
      BY <2>1, <2>3, TaskAfter DEF PutBreaks, EditorsHaveCatalogs
    <2>4. CASE saves' = [saves EXCEPT ![s].attempt = @ + 1]
      BY <2>1, <2>4 DEF EditorsHaveCatalogs, SaveTask
    <2>5. QED
      BY <1>5, <2>2, <2>3, <2>4 DEF Put, PutStored, PutRefused, PutLimited, PutUnknown
  <1>6. ASSUME NEW s \in SaveClick, Tell(s)
        PROVE  EditorsHaveCatalogs'
    <2>1. saves[s].pc = "done" /\ (\E r : Reply(s, r)) /\ UNCHANGED call
      BY <1>6 DEF Tell, TellSaved, TellRetry, TellTooLate, cacheVars
    <2>2. view' \in {view, [view EXCEPT ![saves[s].editor] = NoButtons]}
      BY <1>6 DEF Tell, TellSaved, TellRetry, TellTooLate
    <2>3. \A e \in Editor : /\ view'[e].pc = "open" => view[e].pc = "open"
                            /\ view'[e].pc \in {"closed", "read"} => view'[e] = view[e]
                            /\ view'[e].pc # "closed" => view[e].pc # "closed"
                            /\ view'[e] = view[e] \/ view'[e].pc = "stripped"
      BY <2>1, <2>2 DEF EditorsHaveCatalogs, NoButtons
    <2>4. QED
      BY <2>1, <2>3, TaskAfter DEF EditorsHaveCatalogs
  <1>7. QED
    BY <1>1, <1>2, <1>3, <1>4, <1>5, <1>6 DEF EditorNext, commandVars, editorVars, cacheVars,
       AdvanceClock, EditCatalog

LEMMA DifferTriangle ==
    ASSUME NEW a, NEW b, NEW c
    PROVE  Differ(b, c) \subseteq Differ(a, b) \cup Differ(a, c)
  BY DEF Differ

LEMMA DifferenceStep ==
    ASSUME EditorTypeOK, FetcherHoldsLock, EditorsHaveCatalogs, DifferenceIsMoved,
           [EditorNext]_commandVars
    PROVE  DifferenceIsMoved'
  <1> USE DEF EditorTypeOK
  <1>1. CASE UNCHANGED <<call, prefs, view, saves, moved>>
    BY <1>1 DEF DifferenceIsMoved, Unlisted
  <1>2. ASSUME NEW e \in Editor, ListCatalog(e), UNCHANGED editorVars
        PROVE  DifferenceIsMoved'
    <2>1. \A f \in Editor : view[f].pc # "closed" => call'[f] = call[f]
      BY <1>2, LockStep DEF EditorsHaveCatalogs
    <2>2. \A f \in Editor : view[f].pc # "closed" => Unlisted(f)' = Unlisted(f)
      BY <2>1 DEF Unlisted
    <2>3. QED
      BY <1>2, <2>2 DEF DifferenceIsMoved, EditorsHaveCatalogs, editorVars
  <1>3. ASSUME NEW e \in Editor, OpenEditor(e) \/ ToggleCondition(e) \/ CancelEditor(e)
        PROVE  DifferenceIsMoved'
    <2>0. UNCHANGED <<prefs, saves, call>>
      BY <1>3 DEF OpenEditor, ReadPrefs, ReadFails, OpenView, ToggleCondition, CancelEditor,
                  cacheVars, Unlisted
    <2>1. CASE ReadPrefs(e)
      <3>1. /\ view[e].pc = "closed" /\ view'[e].pc = "read" /\ view'[e].selected = prefs
            /\ \A f \in Editor \ {e} : view'[f] = view[f] /\ moved'[f] = moved[f]
        BY <2>1 DEF ReadPrefs, Reading, View
      <3>2. Differ(prefs, prefs) = {}
        BY DEF Differ
      <3>3. \A s \in SaveClick : saves[s].pc = "sent" => saves[s].editor \in Editor \ {e}
        BY <3>1 DEF EditorsHaveCatalogs
      <3>4. QED
        BY <2>0, <3>1, <3>2, <3>3 DEF DifferenceIsMoved, Unlisted
    <2>2. CASE ReadFails(e) \/ CancelEditor(e)
      <3>1. /\ view'[e].pc \notin {"read", "open"} /\ UNCHANGED moved
            /\ \A f \in Editor \ {e} : view'[f] = view[f]
        BY <2>2 DEF ReadFails, CancelEditor, NoButtons, View
      <3>2. QED
        BY <2>0, <3>1 DEF DifferenceIsMoved, Unlisted
    <2>3. CASE OpenView(e)
      <3>1. /\ view[e].pc = "read" /\ UNCHANGED moved
            /\ view'[e].pc = "open" =>
                  view'[e].selected = seeded(call[e].payload, view[e].selected)
            /\ view'[e].pc \in {"open", "error"}
            /\ \A f \in Editor \ {e} : view'[f] = view[f]
        BY <2>3 DEF OpenView
      <3>2. Differ(prefs, seeded(call[e].payload, view[e].selected)) \subseteq moved[e] \cup Unlisted(e)
        <4>1. Differ(prefs, view[e].selected) \subseteq moved[e] /\ view[e].selected \subseteq Condition
          BY <3>1 DEF DifferenceIsMoved, View, Catalog
        <4>2. QED
          BY <4>1 DEF Differ, seeded, Unlisted
      <3>3. QED
        BY <2>0, <3>1, <3>2 DEF DifferenceIsMoved, Unlisted
    <2>4. CASE ToggleCondition(e)
      <3>1. PICK c \in call[e].payload :
                /\ view' = [view EXCEPT ![e].selected = Differ(@, {c})]
                /\ moved' = [moved EXCEPT ![e] = @ \cup {c}]
        BY <2>4 DEF ToggleCondition
      <3>2. /\ view[e].pc = "open" /\ view'[e].pc = "open"
            /\ view'[e].selected = Differ(view[e].selected, {c})
            /\ moved'[e] = moved[e] \cup {c}
            /\ \A f \in Editor \ {e} : view'[f] = view[f] /\ moved'[f] = moved[f]
        BY <2>4, <3>1 DEF ToggleCondition, View
      <3>3. Differ(prefs, Differ(view[e].selected, {c})) \subseteq Differ(prefs, view[e].selected) \cup {c}
        BY DEF Differ
      <3>4. Differ(prefs, view'[e].selected) \subseteq moved'[e] \cup Unlisted(e)
        BY <3>2, <3>3 DEF DifferenceIsMoved
      <3>5. \A s \in SaveClick : saves[s].pc = "sent" =>
              saves[s].editor \in Editor /\ moved[saves[s].editor] \subseteq moved'[saves[s].editor]
        BY <3>2 DEF EditorsHaveCatalogs
      <3>6. \A f \in Editor \ {e} : view'[f] = view[f] /\ moved'[f] = moved[f]
        BY <3>2
      <3>7. view'[e].pc = "open"
        BY <3>2
      <3>8. QED
        BY <2>0, <3>4, <3>5, <3>6, <3>7 DEF DifferenceIsMoved, Unlisted
    <2>5. QED
      BY <1>3, <2>1, <2>2, <2>3, <2>4 DEF OpenEditor
  <1>4. ASSUME NEW e \in Editor, ClickSave(e)
        PROVE  DifferenceIsMoved'
    <2>1. /\ view[e].pc = "open" /\ UNCHANGED <<call, prefs, view, moved>>
         
      BY <1>4 DEF ClickSave, cacheVars, Unlisted
    <2>2. PICK s \in SaveClick :
              /\ saves'[s].pc = "sent" /\ saves'[s].editor = e /\ saves'[s].ids = view[e].selected
              /\ \A t \in SaveClick \ {s} : saves'[t] = saves[t]
      BY <1>4, ClickStarts
    <2>3. Differ(prefs, saves'[s].ids) \subseteq moved[saves'[s].editor] \cup Unlisted(saves'[s].editor)
      BY <2>1, <2>2 DEF DifferenceIsMoved
    <2>4. QED
      BY <2>1, <2>2, <2>3 DEF DifferenceIsMoved, Unlisted
  <1>5. ASSUME NEW s \in SaveClick, Put(s)
        PROVE  DifferenceIsMoved'
    <2>1. UNCHANGED <<call, view>>
      BY <1>5 DEF Put, PutStored, PutRefused, PutLimited, PutUnknown, PutBreaks, cacheVars, Unlisted
    <2>2. CASE PutStored(s)
      <3>1. /\ saves[s].pc = "sent" /\ prefs' = saves[s].ids /\ Answer(s, "stored")
            /\ moved' = [e \in Editor |-> IF e = saves[s].editor THEN moved[e]
                                          ELSE moved[e] \cup Differ(prefs, saves[s].ids)]
        BY <2>2 DEF PutStored
      <3>2. /\ saves[s].editor \in Editor
            /\ Differ(prefs, saves[s].ids) \subseteq moved[saves[s].editor] \cup Unlisted(saves[s].editor)
        BY <3>1 DEF DifferenceIsMoved, EditorsHaveCatalogs
      <3>3. \A f \in Editor :
              /\ moved[f] \subseteq moved'[f]
              /\ Differ(prefs, prefs') \subseteq moved'[f] \cup Unlisted(f)
              /\ f # saves[s].editor => Differ(prefs, prefs') \subseteq moved'[f]
        BY <3>1, <3>2
      <3>4. \A x : Differ(prefs', x) \subseteq Differ(prefs, prefs') \cup Differ(prefs, x)
        BY DifferTriangle
      <3>5. \A t \in SaveClick : saves'[t].pc = "sent" => saves'[t] = saves[t]
        BY <3>1, TaskAfter
      <3>6. view[saves[s].editor].pc # "read"
        BY <3>1 DEF EditorsHaveCatalogs
      <3>7. ASSUME NEW f \in Editor
            PROVE  /\ view[f].pc = "read" => Differ(prefs', view[f].selected) \subseteq moved'[f]
                   /\ view[f].pc = "open" =>
                        Differ(prefs', view[f].selected) \subseteq moved'[f] \cup Unlisted(f)
        <4>1. Differ(prefs', view[f].selected) \subseteq Differ(prefs, prefs') \cup Differ(prefs, view[f].selected)
          BY <3>4
        <4>2. QED
          BY <3>3, <3>6, <4>1 DEF DifferenceIsMoved
      <3>8. ASSUME NEW t \in SaveClick, saves[t].pc = "sent"
            PROVE  Differ(prefs', saves[t].ids) \subseteq moved'[saves[t].editor] \cup Unlisted(saves[t].editor)
        <4>1. Differ(prefs', saves[t].ids) \subseteq Differ(prefs, prefs') \cup Differ(prefs, saves[t].ids)
          BY <3>4
        <4>2. saves[t].editor \in Editor
          BY <3>8 DEF EditorsHaveCatalogs
        <4>3. QED
          BY <3>3, <3>8, <4>1, <4>2 DEF DifferenceIsMoved
      <3>9. ASSUME NEW t \in SaveClick, saves'[t].pc = "sent"
            PROVE  /\ saves'[t] = saves[t] /\ saves[t].pc = "sent"
                   /\ saves[t].editor \in Editor
        BY <3>5, <3>9 DEF EditorsHaveCatalogs
      <3>10. QED
        BY <2>1, <3>7, <3>8, <3>9 DEF DifferenceIsMoved, Unlisted
    <2>3. CASE UNCHANGED <<prefs, moved>>
      <3>1. \A t \in SaveClick : saves'[t].pc = "sent" =>
              /\ saves[t].pc = "sent" /\ saves'[t].ids = saves[t].ids
              /\ saves'[t].editor = saves[t].editor
        <4>1. CASE \E a : Answer(s, a)
          BY <4>1, TaskAfter
        <4>2. CASE PutBreaks(s)
          BY <4>2, TaskAfter DEF PutBreaks
        <4>3. CASE saves' = [saves EXCEPT ![s].attempt = @ + 1]
          BY <4>3 DEF SaveTask
        <4>4. QED
          BY <1>5, <4>1, <4>2, <4>3 DEF Put, PutStored, PutRefused, PutLimited, PutUnknown
      <3>2. \A t \in SaveClick : saves[t].pc = "sent" => saves[t].editor \in Editor
        BY DEF EditorsHaveCatalogs
      <3>3. QED
        BY <2>1, <2>3, <3>1, <3>2 DEF DifferenceIsMoved, Unlisted
    <2>4. QED
      BY <1>5, <2>2, <2>3 DEF Put, PutRefused, PutLimited, PutUnknown, PutBreaks
  <1>6. ASSUME NEW s \in SaveClick, Tell(s)
        PROVE  DifferenceIsMoved'
    <2>1. /\ saves[s].pc = "done" /\ (\E r : Reply(s, r)) /\ UNCHANGED <<call, prefs, moved>>
         
      BY <1>6 DEF Tell, TellSaved, TellRetry, TellTooLate, cacheVars, Unlisted
    <2>2. view' \in {view, [view EXCEPT ![saves[s].editor] = NoButtons]}
      BY <1>6 DEF Tell, TellSaved, TellRetry, TellTooLate
    <2>3. \A e \in Editor : view'[e] = view[e] \/ view'[e].pc = "stripped"
      BY <2>2 DEF NoButtons
    <2>4. \A t \in SaveClick : saves'[t].pc = "sent" => saves'[t] = saves[t]
      BY <2>1, TaskAfter
    <2>5. \A t \in SaveClick : saves[t].pc = "sent" => saves[t].editor \in Editor
      BY DEF EditorsHaveCatalogs
    <2>6. QED
      BY <2>1, <2>3, <2>4, <2>5 DEF DifferenceIsMoved, Unlisted
  <1>7. QED
    BY <1>1, <1>2, <1>3, <1>4, <1>5, <1>6 DEF EditorNext, commandVars, editorVars, cacheVars,
       AdvanceClock, EditCatalog

--------------------------------------------------------------------------------
(* Theorems about the catalog cache and the editors' data.                 *)

LEMMA EditorInvInit == EditorInit => EditorInv
  <1> SUFFICES ASSUME EditorInit PROVE EditorInv
    OBVIOUS
  <1> USE DEF EditorInit, CacheInit
  <1>1. EditorTypeOK
    <2>1. CacheTypeOK
      BY CacheAssumption DEF CacheTypeOK, Time, Catalog, Call, Payload
    <2>2. \A s \in SaveClick : saves[s] \in SaveTask
      BY CacheAssumption DEF NoSave, SaveTask, Catalog
    <2>3. QED
      BY <2>1, <2>2 DEF EditorTypeOK, View, Catalog
  <1>2. FetcherHoldsLock /\ LockIsForAFetch /\ AnswersRecent
    BY DEF FetcherHoldsLock, LockIsForAFetch, AnswersRecent
  <1>3. EditorsHaveCatalogs /\ SavesInOrder /\ DifferenceIsMoved
    BY DEF EditorsHaveCatalogs, SavesInOrder, DifferenceIsMoved, NoSave
  <1>4. QED
    BY <1>1, <1>2, <1>3 DEF EditorInv

\* Steps that are none of list_catalog's leave the lock and the entry.
LEMMA CacheStep ==
    ASSUME EditorTypeOK, FetcherHoldsLock, LockIsForAFetch, AnswersRecent,
           [EditorNext]_commandVars
    PROVE  FetcherHoldsLock' /\ LockIsForAFetch' /\ AnswersRecent'
  <1>1. ASSUME NEW e \in Editor, ListCatalog(e)
        PROVE  FetcherHoldsLock' /\ LockIsForAFetch' /\ AnswersRecent'
    BY <1>1, LockStep, RecentAfterCall
  <1>2. CASE AdvanceClock \/ EditCatalog
    <2>1. UNCHANGED <<lock, call>>
      BY <1>2 DEF AdvanceClock, EditCatalog
    <2>2. QED
      BY <1>2, <2>1, RecentOutside DEF FetcherHoldsLock, LockIsForAFetch
  <1>3. CASE UNCHANGED cacheVars
    BY <1>3 DEF FetcherHoldsLock, LockIsForAFetch, AnswersRecent, LastCurrent, cacheVars
  <1>4. QED
    BY <1>1, <1>2, <1>3 DEF EditorNext, commandVars, OpenEditor, ReadPrefs, ReadFails, OpenView,
       ToggleCondition, CancelEditor, ClickSave, Put, PutStored, PutRefused, PutLimited, PutUnknown,
       PutBreaks, Tell, TellSaved, TellRetry, TellTooLate

LEMMA EditorInvStep == EditorInv /\ [EditorNext]_commandVars => EditorInv'
  BY EditorTypeStep, CacheStep, CatalogsStep, SavesInOrderStep, DifferenceStep DEF EditorInv

\* For any number of editors, Saves, conditions, attempts and faults: the
\* invariant of list_catalog and of the data of PostConditionsGridView.
THEOREM EditorInvariant == EditorSpec => []EditorInv
  <1>1. QED
    BY EditorInvInit, EditorInvStep, PTL DEF EditorSpec

\* Every way out of list_catalog gives the lock of the cache back.
THEOREM LockIsGivenBack == EditorSpec => []LockIsForAFetch
  <1>1. EditorInv => LockIsForAFetch
    BY DEF EditorInv
  <1>2. QED
    BY <1>1, EditorInvariant, PTL

\* SaveButton says "Preferences saved" of no Save that was refused, limited or
\* never answered.
THEOREM SavedMeansStored == EditorSpec => []SavedIsStored
  <1>1. EditorInit => SavedIsStored
    BY DEF EditorInit, NoSave, SavedIsStored
  <1>2. EditorInv /\ SavedIsStored /\ [EditorNext]_commandVars => SavedIsStored'
    BY SavedStep DEF EditorInv
  <1>3. QED
    BY <1>1, <1>2, EditorInvariant, PTL DEF EditorSpec

\* Callers of list_catalog who find the entry expired together fetch it once.
THEOREM ExpiredIsFetchedOnce == EditorSpec => NoHerd
  <1>1. EditorInv /\ [EditorNext]_commandVars =>
          [\A e \in Editor :
              call[e].pc # "fetching" /\ call'[e].pc = "fetching" =>
                  /\ \A f \in Editor : call[f].pc \notin {"fetching", "answered"}
                  /\ cache = NoEntry \/ cache.ts + TTL <= clock]_cacheVars
    <2> SUFFICES ASSUME EditorInv, [EditorNext]_commandVars, call' # call,
                        NEW e \in Editor, call[e].pc # "fetching", call'[e].pc = "fetching"
                 PROVE  /\ \A f \in Editor : call[f].pc \notin {"fetching", "answered"}
                        /\ cache = NoEntry \/ cache.ts + TTL <= clock
      BY DEF cacheVars
    <2>1. \E d \in Editor : ListCatalog(d)
      BY DEF EditorNext, commandVars, cacheVars, OpenEditor, ReadPrefs, ReadFails, OpenView,
         ToggleCondition, CancelEditor, ClickSave, Put, PutStored, PutRefused, PutLimited,
         PutUnknown, PutBreaks, Tell, TellSaved, TellRetry, TellTooLate, AdvanceClock, EditCatalog
    <2>2. QED
      BY <2>1, FetchStarts DEF EditorInv
  <1>2. QED
    BY <1>1, EditorInvariant, PTL DEF EditorSpec, NoHerd

\* What list_catalog returns was siege-web's catalog less than the TTL and the
\* time of one answer ago.
THEOREM ReturnedIsRecent == EditorSpec => CatalogRecent
  <1>1. EditorInv /\ [EditorNext]_commandVars =>
          [\A e \in Editor :
              call[e].pc # "returned" /\ call'[e].pc = "returned" /\ call'[e].payload # Garbage =>
                  clock < LastCurrent(call'[e].payload) + TTL + Latency]_cacheVars
    <2> SUFFICES ASSUME EditorInv, [EditorNext]_commandVars, call' # call,
                        NEW e \in Editor, call[e].pc # "returned", call'[e].pc = "returned",
                        call'[e].payload # Garbage
                 PROVE  clock < LastCurrent(call'[e].payload) + TTL + Latency
      BY DEF cacheVars
    <2>1. PICK d \in Editor : ListCatalog(d)
      BY DEF EditorNext, commandVars, cacheVars, OpenEditor, ReadPrefs, ReadFails, OpenView,
         ToggleCondition, CancelEditor, ClickSave, Put, PutStored, PutRefused, PutLimited,
         PutUnknown, PutBreaks, Tell, TellSaved, TellRetry, TellTooLate, AdvanceClock, EditCatalog
    <2>2. d = e
      BY <2>1, LockStep DEF EditorInv
    <2>3. QED
      BY <2>1, <2>2, RecentAfterCall DEF EditorInv
  <1>2. QED
    BY <1>1, EditorInvariant, PTL DEF EditorSpec, CatalogRecent

\* A stored Save changes what was toggled in its editor, what others changed
\* since it was opened, and what its catalog does not list.
THEOREM StoredIsToggled == EditorSpec => OnlyToggledChanges
  <1>1. EditorInv /\ [EditorNext]_commandVars =>
          [\A s \in SaveClick :
              saves[s].pc = "sent" /\ saves'[s].answer = "stored" =>
                  LET e == saves[s].editor
                  IN Differ(prefs, prefs') \subseteq moved[e] \cup (Condition \ call[e].payload)]_commandVars
    <2> SUFFICES ASSUME EditorInv, [EditorNext]_commandVars,
                        NEW s \in SaveClick, saves[s].pc = "sent", saves'[s].answer = "stored"
                 PROVE  Differ(prefs, prefs') \subseteq
                           moved[saves[s].editor] \cup (Condition \ call[saves[s].editor].payload)
      OBVIOUS
    <2>0. EditorTypeOK /\ saves[s].answer = "none"
      BY DEF EditorInv, SavesInOrder
    <2>1. PutStored(s)
      <3>1. saves' # saves
        BY <2>0
      <3>2. ASSUME NEW e \in Editor, ClickSave(e) PROVE FALSE
        BY <2>0, <3>2, ClickStarts
      <3>3. ASSUME NEW t \in SaveClick, Tell(t) PROVE FALSE
        <4>1. saves[t].pc = "done" /\ \E r : Reply(t, r)
          BY <3>3 DEF Tell, TellSaved, TellRetry, TellTooLate
        <4>2. QED
          BY <2>0, <4>1, TaskAfter
      <3>4. ASSUME NEW t \in SaveClick, Put(t) PROVE PutStored(s)
        <4>1. CASE PutStored(t)
          <5>1. s = t
            BY <2>0, <4>1, TaskAfter DEF PutStored
          <5>2. QED
            BY <4>1, <5>1
        <4>2. CASE saves' = [saves EXCEPT ![t].attempt = @ + 1]
          <5>1. saves'[s].answer = "none"
            BY <2>0, <4>2 DEF EditorTypeOK, SaveTask
          <5>2. QED
            BY <5>1
        <4>3. CASE Answer(t, "error") \/ Answer(t, "unknown") \/ Reply(t, "lost")
          BY <2>0, <4>3, TaskAfter
        <4>4. QED
          BY <3>4, <4>1, <4>2, <4>3 DEF Put, PutRefused, PutLimited, PutUnknown, PutBreaks
      <3>5. QED
        BY <3>1, <3>2, <3>3, <3>4 DEF EditorNext, commandVars, editorVars, OpenEditor, ReadPrefs,
           ReadFails, OpenView, ToggleCondition, CancelEditor
    <2>2. QED
      BY <2>1 DEF PutStored, EditorInv, DifferenceIsMoved, Unlisted
  <1>2. QED
    BY <1>1, EditorInvariant, PTL DEF EditorSpec, OnlyToggledChanges

--------------------------------------------------------------------------------
(* The view of an editor (GridView): arithmetic of chunks.                 *)

LEMMA ChunkBounds ==
    ASSUME NEW x \in Nat, NEW p \in Nat \ {0}
    PROVE  /\ x \div p \in Nat
           /\ p * (x \div p) <= x
           /\ x < p * (x \div p) + p
  BY Z3

LEMMA ProductOrder ==
    ASSUME NEW p \in Nat \ {0}, NEW a \in Nat, NEW b \in Nat, p * a < p * b + p
    PROVE  a <= b
  <1>1. SUFFICES ASSUME a >= b + 1
                 PROVE  FALSE
    OBVIOUS
  <1>2. p * (a - (b + 1)) >= 0
    BY <1>1, Z3
  <1>3. p * (a - (b + 1)) = p * a - (p * b + p)
    BY Z3
  <1>4. p * a \in Nat /\ p * b \in Nat
    BY Z3
  <1>5. QED
    BY <1>2, <1>3, <1>4

LEMMA ChunkMonotone ==
    ASSUME NEW x \in Nat, NEW y \in Nat, NEW p \in Nat \ {0}, x <= y
    PROVE  x \div p <= y \div p
  <1>1. /\ x \div p \in Nat /\ y \div p \in Nat
        /\ p * (x \div p) <= x
        /\ y < p * (y \div p) + p
    BY ChunkBounds
  <1>2. p * (x \div p) \in Nat /\ p * (y \div p) \in Nat
    BY <1>1, Z3
  <1>3. p * (x \div p) < p * (y \div p) + p
    BY <1>1, <1>2
  <1>4. QED
    BY <1>1, <1>3, ProductOrder

--------------------------------------------------------------------------------
(* The order of conditions within a group.                                 *)

LEMMA PrecedesOrder ==
    ASSUME NEW c \in Condition, NEW d \in Condition
    PROVE  /\ ~Precedes(c, c)
           /\ c # d => Precedes(c, d) \/ Precedes(d, c)
           /\ \A e \in Condition : Precedes(c, d) /\ Precedes(d, e) => Precedes(c, e)
  <1>1. /\ Condition \subseteq Nat
        /\ \A x \in Condition : Kind[x] \in Nat
    BY PagesAssumption
  <1>2. QED
    BY <1>1 DEF Precedes

LEMMA AheadFinite ==
    ASSUME NEW offered \in SUBSET Condition, NEW c \in offered
    PROVE  /\ IsFiniteSet(offered)
           /\ Ahead(offered, c) \subseteq offered
           /\ IsFiniteSet(Ahead(offered, c))
           /\ Cardinality(Ahead(offered, c)) \in Nat
           /\ Chunk(offered, c) \in Nat
  <1>1. IsFiniteSet(offered)
    BY PagesAssumption, FS_Subset
  <1>2. Ahead(offered, c) \subseteq offered
    BY DEF Ahead
  <1>3. IsFiniteSet(Ahead(offered, c))
    BY <1>1, <1>2, FS_Subset
  <1>4. Cardinality(Ahead(offered, c)) \in Nat
    BY <1>3, FS_CardinalityType
  <1>5. Chunk(offered, c) \in Nat
    BY <1>4, PagesAssumption, ChunkBounds DEF Chunk
  <1>6. QED
    BY <1>1, <1>2, <1>3, <1>4, <1>5

\* Who comes later in a group has more conditions ahead.
LEMMA AheadGrows ==
    ASSUME NEW offered \in SUBSET Condition, NEW c \in offered, NEW d \in offered,
           Group[c] = Group[d], Precedes(c, d)
    PROVE  /\ Cardinality(Ahead(offered, c)) < Cardinality(Ahead(offered, d))
           /\ Chunk(offered, c) <= Chunk(offered, d)
  <1>1. Ahead(offered, c) \subseteq Ahead(offered, d)
    BY PrecedesOrder DEF Ahead
  <1>2. c \in Ahead(offered, d) /\ c \notin Ahead(offered, c)
    BY PrecedesOrder DEF Ahead
  <1>3. /\ Cardinality(Ahead(offered, c)) <= Cardinality(Ahead(offered, d))
        /\ Cardinality(Ahead(offered, c)) # Cardinality(Ahead(offered, d))
    BY <1>1, <1>2, AheadFinite, FS_Subset
  <1>4. Cardinality(Ahead(offered, c)) \in Nat
    BY AheadFinite
  <1>5. Cardinality(Ahead(offered, d)) \in Nat
    BY AheadFinite
  <1>6. Cardinality(Ahead(offered, c)) < Cardinality(Ahead(offered, d))
    BY <1>3, <1>4, <1>5
  <1>7. Cardinality(Ahead(offered, c)) <= Cardinality(Ahead(offered, d))
    BY <1>4, <1>5, <1>6
  <1>8. Chunk(offered, c) <= Chunk(offered, d)
    BY <1>4, <1>5, <1>7, PagesAssumption, ChunkMonotone DEF Chunk
  <1>9. QED
    BY <1>6, <1>8

--------------------------------------------------------------------------------
(* Slots and their places.                                                 *)

LEMMA SlotsFinite ==
    ASSUME NEW offered \in SUBSET Condition
    PROVE  /\ IsFiniteSet(Known(offered)) /\ IsFiniteSet(Slots(offered))
           /\ PageCount(offered) \in Nat
  <1> DEFINE f == [c \in Known(offered) |-> Slot(offered, c)]
  <1>1. IsFiniteSet(Known(offered))
    <2>1. Known(offered) \subseteq Condition
      BY DEF Known
    <2>2. QED
      BY <2>1, PagesAssumption, FS_Subset
  <1>2. f \in Surjection(Known(offered), Slots(offered))
    BY DEF Surjection, Slots
  <1>3. IsFiniteSet(Slots(offered))
    BY <1>1, <1>2, FS_Surjection
  <1>4. QED
    BY <1>1, <1>3, FS_CardinalityType DEF PageCount

Before(offered, s) == {t \in Slots(offered) : SlotBefore(t, s)}

LEMMA SlotOrder ==
    ASSUME NEW offered \in SUBSET Condition, NEW s \in Slots(offered), NEW t \in Slots(offered)
    PROVE  /\ s[1] \in Nat /\ s[2] \in Nat
           /\ ~SlotBefore(s, s)
           /\ s # t => SlotBefore(s, t) \/ SlotBefore(t, s)
           /\ \A u \in Slots(offered) : SlotBefore(s, t) /\ SlotBefore(t, u) => SlotBefore(s, u)
  <1>1. ASSUME NEW u \in Slots(offered)
        PROVE  u[1] \in Nat /\ u[2] \in Nat /\ u = <<u[1], u[2]>>
    <2>1. PICK c \in Known(offered) : u = Slot(offered, c)
      BY DEF Slots
    <2>2. Group[c] \in Nat /\ Chunk(offered, c) \in Nat
      BY PagesAssumption, AheadFinite DEF Known
    <2>3. QED
      BY <2>1, <2>2 DEF Slot
  <1>2. s[1] \in Nat /\ s[2] \in Nat /\ t[1] \in Nat /\ t[2] \in Nat
    BY <1>1
  <1>3. s # t => s[1] # t[1] \/ s[2] # t[2]
    BY <1>1
  <1>4. \A u \in Slots(offered) : u[1] \in Nat /\ u[2] \in Nat
    BY <1>1
  <1>5. QED
    BY <1>2, <1>3, <1>4 DEF SlotBefore

LEMMA BeforeFacts ==
    ASSUME NEW offered \in SUBSET Condition, NEW s \in Slots(offered)
    PROVE  /\ IsFiniteSet(Before(offered, s))
           /\ Cardinality(Before(offered, s)) \in 0 .. PageCount(offered) - 1
  <1>1. Before(offered, s) \subseteq Slots(offered) /\ s \notin Before(offered, s)
    BY SlotOrder DEF Before
  <1>2. /\ IsFiniteSet(Before(offered, s))
        /\ Cardinality(Before(offered, s)) <= Cardinality(Slots(offered))
        /\ Cardinality(Before(offered, s)) # Cardinality(Slots(offered))
    BY <1>1, SlotsFinite, FS_Subset
  <1>3. Cardinality(Before(offered, s)) \in Nat
    BY <1>2, FS_CardinalityType
  <1>4. QED
    BY <1>2, <1>3, SlotsFinite DEF PageCount

LEMMA BeforeGrows ==
    ASSUME NEW offered \in SUBSET Condition, NEW s \in Slots(offered), NEW t \in Slots(offered),
           SlotBefore(s, t)
    PROVE  Cardinality(Before(offered, s)) < Cardinality(Before(offered, t))
  <1>1. Before(offered, s) \subseteq Before(offered, t)
    BY SlotOrder DEF Before
  <1>2. s \in Before(offered, t) /\ s \notin Before(offered, s)
    BY SlotOrder DEF Before
  <1>3. /\ Cardinality(Before(offered, s)) <= Cardinality(Before(offered, t))
        /\ Cardinality(Before(offered, s)) # Cardinality(Before(offered, t))
    BY <1>1, <1>2, BeforeFacts, FS_Subset
  <1>4. Cardinality(Before(offered, s)) \in Nat /\ Cardinality(Before(offered, t)) \in Nat
    BY BeforeFacts
  <1>5. QED
    BY <1>3, <1>4

\* A page is a slot, and a later slot is a later page.
LEMMA PageIsSlot ==
    ASSUME NEW offered \in SUBSET Condition, NEW c \in Known(offered), NEW d \in Known(offered)
    PROVE  /\ Slot(offered, c) \in Slots(offered)
           /\ PageOf(offered, c) \in 1 .. PageCount(offered)
           /\ PageOf(offered, c) = Cardinality(Before(offered, Slot(offered, c))) + 1
           /\ SlotBefore(Slot(offered, c), Slot(offered, d)) => PageOf(offered, c) < PageOf(offered, d)
           /\ PageOf(offered, c) = PageOf(offered, d) => Slot(offered, c) = Slot(offered, d)
           /\ Slot(offered, c) = Slot(offered, d) => PageOf(offered, c) = PageOf(offered, d)
  <1>1. Slot(offered, c) \in Slots(offered) /\ Slot(offered, d) \in Slots(offered)
    BY DEF Slots
  <1>2. /\ PageOf(offered, c) = Cardinality(Before(offered, Slot(offered, c))) + 1
        /\ PageOf(offered, d) = Cardinality(Before(offered, Slot(offered, d))) + 1
    BY DEF PageOf, Before
  <1>3. /\ Cardinality(Before(offered, Slot(offered, c))) \in 0 .. PageCount(offered) - 1
        /\ Cardinality(Before(offered, Slot(offered, d))) \in 0 .. PageCount(offered) - 1
    BY <1>1, BeforeFacts
  <1>4. PageCount(offered) \in Nat
    BY SlotsFinite
  <1>5. PageOf(offered, c) \in 1 .. PageCount(offered)
    BY <1>2, <1>3, <1>4
  <1>6. /\ SlotBefore(Slot(offered, c), Slot(offered, d)) => PageOf(offered, c) < PageOf(offered, d)
        /\ SlotBefore(Slot(offered, d), Slot(offered, c)) => PageOf(offered, d) < PageOf(offered, c)
    BY <1>1, <1>2, <1>3, BeforeGrows
  <1>7. PageOf(offered, c) = PageOf(offered, d) => Slot(offered, c) = Slot(offered, d)
    BY <1>1, <1>2, <1>3, <1>6, SlotOrder
  <1>8. QED
    BY <1>1, <1>2, <1>5, <1>6, <1>7

--------------------------------------------------------------------------------
(* The pages.                                                              *)

\* As many places as slots, so none is left out.
LEMMA NoEmptyPage ==
    ASSUME NEW offered \in SUBSET Condition, NEW i \in 1 .. PageCount(offered)
    PROVE  Page(offered, i) # {}
  <1> DEFINE places == {Cardinality(Before(offered, s)) + 1 : s \in Slots(offered)}
  <1> DEFINE f == [s \in Slots(offered) |-> Cardinality(Before(offered, s)) + 1]
  <1>1. f \in Surjection(Slots(offered), places)
    BY DEF Surjection
  <1>2. \A s, t \in Slots(offered) : f[s] = f[t] => s = t
    BY BeforeGrows, BeforeFacts, SlotOrder
  <1>3. f \in Injection(Slots(offered), places)
    BY <1>1, <1>2 DEF Injection, IsInjective, Surjection
  <1>4. IsFiniteSet(places) /\ Cardinality(places) = PageCount(offered)
    BY <1>1, <1>3, SlotsFinite, FS_Surjection DEF PageCount
  <1>5. places \subseteq 1 .. PageCount(offered)
    BY BeforeFacts, SlotsFinite
  <1>6. IsFiniteSet(1 .. PageCount(offered)) /\ Cardinality(1 .. PageCount(offered)) = PageCount(offered)
    BY SlotsFinite, FS_Interval
  <1>7. places = 1 .. PageCount(offered)
    BY <1>4, <1>5, <1>6, FS_Subset
  <1>8. PICK s \in Slots(offered) : i = Cardinality(Before(offered, s)) + 1
    BY <1>7
  <1>9. PICK c \in Known(offered) : s = Slot(offered, c)
    BY DEF Slots
  <1>10. PageOf(offered, c) = i
    BY <1>8, <1>9, PageIsSlot
  <1>11. QED
    BY <1>10 DEF Page

\* The conditions of a page differ in how many are ahead of them, and that
\* number lies within one chunk.
LEMMA PageFits ==
    ASSUME NEW offered \in SUBSET Condition, NEW i \in 1 .. PageCount(offered)
    PROVE  Cardinality(Page(offered, i)) <= PageSize
  <1> DEFINE place(c) == Cardinality(Ahead(offered, c))
  <1>1. PICK e \in Page(offered, i) : TRUE
    BY NoEmptyPage
  <1> DEFINE first == PageSize * Chunk(offered, e)
  <1> DEFINE chunk == first .. (first + PageSize - 1)
  <1>2. /\ e \in offered /\ PageSize \in Nat \ {0}
        /\ Chunk(offered, e) \in Nat /\ first \in Nat
    <2>1. e \in offered
      BY DEF Page, Known
    <2>2. Chunk(offered, e) \in Nat /\ PageSize \in Nat
      BY <2>1, AheadFinite, PagesAssumption
    <2>3. PageSize * Chunk(offered, e) \in Nat
      BY <2>2, Z3
    <2>4. QED
      BY <2>1, <2>2, <2>3, PagesAssumption
  <1>3. ASSUME NEW c \in Page(offered, i)
        PROVE  c \in offered /\ Slot(offered, c) = Slot(offered, e)
    BY PageIsSlot DEF Page, Known
  <1>4. ASSUME NEW c \in Page(offered, i)
        PROVE  place(c) \in chunk
    <2>1. c \in offered /\ Chunk(offered, c) = Chunk(offered, e)
      BY <1>3 DEF Slot
    <2>2. place(c) \in Nat /\ Chunk(offered, c) = place(c) \div PageSize
      BY <2>1, AheadFinite DEF Chunk
    <2>3. /\ PageSize * (place(c) \div PageSize) <= place(c)
          /\ place(c) < PageSize * (place(c) \div PageSize) + PageSize
      BY <1>2, <2>2, ChunkBounds
    <2>4. first = PageSize * (place(c) \div PageSize)
      BY <2>1, <2>2
    <2>5. QED
      BY <1>2, <2>2, <2>3, <2>4
  <1>5. ASSUME NEW c \in Page(offered, i), NEW d \in Page(offered, i), place(c) = place(d)
        PROVE  c = d
    <2>1. c \in offered /\ d \in offered /\ Group[c] = Group[d]
      BY <1>3 DEF Slot
    <2>2. place(c) \in Nat /\ place(d) \in Nat
      BY <2>1, AheadFinite
    <2>3. ~Precedes(c, d) /\ ~Precedes(d, c)
      BY <1>5, <2>1, <2>2, AheadGrows
    <2>4. QED
      BY <2>1, <2>3, PrecedesOrder
  <1> DEFINE g == [c \in Page(offered, i) |-> place(c)]
  <1>6. g \in Injection(Page(offered, i), chunk)
    <2> HIDE DEF place, chunk
    <2>1. QED
      BY <1>4, <1>5 DEF Injection, IsInjective
  <1>7. IsFiniteSet(chunk) /\ Cardinality(chunk) = PageSize
    <2>1. first \in Int /\ first + PageSize - 1 \in Int
      BY <1>2
    <2>2. (first + PageSize - 1) - first + 1 = PageSize /\ ~(first > first + PageSize - 1)
      BY <1>2
    <2> HIDE DEF first
    <2>3. QED
      BY <2>1, <2>2, FS_Interval
  <1>8. QED
    BY <1>6, <1>7, FS_Injection

\* The pages of any catalog: every condition of a known type on one page, no
\* page empty, mixed or too large, and all in their order.
THEOREM PagesHoldAll ==
    ASSUME NEW offered \in SUBSET Condition
    PROVE  PagesInOrder(offered)
  <1>1. ASSUME NEW c \in Known(offered), NEW d \in Known(offered)
        PROVE  /\ PageOf(offered, c) = PageOf(offered, d) => Group[c] = Group[d]
               /\ Group[c] < Group[d] => PageOf(offered, c) < PageOf(offered, d)
               /\ Group[c] = Group[d] /\ Precedes(c, d) => PageOf(offered, c) <= PageOf(offered, d)
    <2>1. /\ c \in offered /\ d \in offered
          /\ Chunk(offered, c) \in Nat /\ Chunk(offered, d) \in Nat
      BY AheadFinite DEF Known
    <2>2. PageOf(offered, c) = PageOf(offered, d) => Group[c] = Group[d]
      BY PageIsSlot DEF Slot
    <2>3. Group[c] < Group[d] => PageOf(offered, c) < PageOf(offered, d)
      BY PageIsSlot DEF SlotBefore, Slot
    <2>4. ASSUME Group[c] = Group[d], Precedes(c, d)
          PROVE  PageOf(offered, c) <= PageOf(offered, d)
      <3>1. Chunk(offered, c) <= Chunk(offered, d)
        BY <2>1, <2>4, AheadGrows
      <3>2. Slot(offered, c) = Slot(offered, d) \/ SlotBefore(Slot(offered, c), Slot(offered, d))
        BY <2>1, <2>4, <3>1 DEF Slot, SlotBefore
      <3>3. PageOf(offered, c) \in Nat /\ PageOf(offered, d) \in Nat
        BY PageIsSlot
      <3>4. QED
        BY <3>2, <3>3, PageIsSlot
    <2>5. QED
      BY <2>2, <2>3, <2>4
  <1>2. \A c \in Known(offered) : PageOf(offered, c) \in 1 .. PageCount(offered)
    BY PageIsSlot
  <1>3. QED
    BY <1>1, <1>2, NoEmptyPage, PageFits DEF PagesInOrder

--------------------------------------------------------------------------------
(* The inductive invariant.                                                *)

Staged(d) == d.page = page /\ d.marked = Known(selections)

\* Clicks come one after the other, once the editor is open.
Ordered ==
    /\ \A k \in Click : k > clicks => callback[k] = Unused
    /\ phase \in {"opening", "failed"} => clicks = 0 /\ ~message.live /\ message.at = 0

\* What is drawn has buttons only if there are pages, and only a callback that
\* has got to its edit has drawn them.
Drawn ==
    /\ message.live => PageCount(listed) > 0
    /\ \A k \in Click :
          /\ callback[k].drawing.live => PageCount(listed) > 0 /\ callback[k].pc \in {"editing", "over"}
          /\ callback[k].pc = "editing" => callback[k].drawing.at = k

\* The message is the drawing of the click it names.
Landed ==
    /\ message.at = 0 => message.title # "saved"
    /\ message.at # 0 => /\ message.at <= clicks
                         /\ callback[message.at].pc = "over"
                         /\ message = callback[message.at].drawing

\* Without an excuse no edit has been passed by an older one.
Advancing ==
    excuses = {} => \A k \in Click :
        callback[k].pc = "over" /\ callback[k].drawing.live => k <= message.at

\* The last click that drew buttons, or the opening.
Newest(k) ==
    /\ k = 0 \/ callback[k].drawing.live
    /\ \A j \in Click : j > k => ~callback[j].drawing.live

\* What it has drawn is staged: under way, shown, or replaced by a message
\* without buttons.
Current ==
    excuses = {} /\ phase \in {"open", "expired"} =>
        \A k \in 0 .. MaxClicks : Newest(k) =>
            \/ k > 0 /\ callback[k].pc = "editing" /\ Staged(callback[k].drawing)
            \/ message.at = k /\ Staged(message)
            \/ message.at > k /\ ~message.live

\* What a Save has sent and what it lists differ by the toggles since.
Sent ==
    \A k \in Click :
        /\ callback[k].pc = "saving" =>
              Differ(Known(selections), Known(callback[k].ids)) \subseteq meanwhile[k]
        /\ callback[k].drawing.title = "saved" =>
              Differ(callback[k].drawing.marked, Known(callback[k].ids)) \subseteq meanwhile[k]

GridInv == TypeOK /\ Ordered /\ Drawn /\ Landed /\ Advancing /\ Current /\ Sent

--------------------------------------------------------------------------------
(* Types of what is drawn.                                                 *)

LEMMA KnownType ==
    ASSUME NEW chosen \in SUBSET Condition
    PROVE  Known(chosen) \in SUBSET Condition
  BY DEF Known

LEMMA GridFields ==
    ASSUME NEW p, NEW chosen, NEW k
    PROVE  /\ Grid(p, chosen, k).title = "editing"
           /\ Grid(p, chosen, k).live = (PageCount(listed) > 0)
           /\ Grid(p, chosen, k).page = p
           /\ Grid(p, chosen, k).marked = Known(chosen)
           /\ Grid(p, chosen, k).at = k
  BY DEF Grid

LEMMA GridType ==
    ASSUME NEW p \in Nat, NEW chosen \in SUBSET Condition, NEW k \in 0 .. MaxClicks
    PROVE  Grid(p, chosen, k) \in Drawing
  <1>1. (PageCount(listed) > 0) \in BOOLEAN
    OBVIOUS
  <1>2. QED
    BY <1>1, KnownType DEF Grid, Drawing

LEMMA BlankFields ==
    /\ Blank \in Drawing /\ Unused \in Callback
    /\ Blank.live = FALSE /\ Blank.at = 0 /\ Blank.title = "cancelled"
    /\ Unused.pc = "unused" /\ Unused.drawing = Blank
  <1>1. 0 \in 0 .. MaxClicks
    BY ViewAssumption
  <1>2. QED
    BY <1>1 DEF Blank, Drawing, Unused, Callback

\* The embed of a Save that went through, and the message of Cancel.
SavedGrid(k) == [Grid(page, selections, k) EXCEPT !.title = "saved", !.live = FALSE]
Stripped(k) == [Blank EXCEPT !.at = k]

LEMMA FinalFields ==
    ASSUME NEW k \in Click, page \in Nat, selections \in SUBSET Condition
    PROVE  /\ SavedGrid(k) \in Drawing /\ Stripped(k) \in Drawing
           /\ SavedGrid(k).live = FALSE /\ SavedGrid(k).at = k
           /\ SavedGrid(k).title = "saved" /\ SavedGrid(k).marked = Known(selections)
           /\ Stripped(k).live = FALSE /\ Stripped(k).at = k
           /\ Stripped(k).title = "cancelled"
  <1>1. k \in 0 .. MaxClicks
    BY ViewAssumption DEF Click
  <1> DEFINE g == Grid(page, selections, k)
  <1>2. g \in Drawing /\ g.at = k /\ g.marked = Known(selections)
    BY <1>1, GridType, GridFields
  <1>3. /\ SavedGrid(k) \in Drawing /\ SavedGrid(k).live = FALSE /\ SavedGrid(k).at = g.at
        /\ SavedGrid(k).title = "saved" /\ SavedGrid(k).marked = g.marked
    <2>1. SavedGrid(k) = [g EXCEPT !.title = "saved", !.live = FALSE]
      BY DEF SavedGrid
    <2> HIDE DEF g
    <2>2. QED
      BY <1>2, <2>1 DEF Drawing
  <1>4. Blank \in Drawing /\ Blank.live = FALSE /\ Blank.title = "cancelled"
    BY BlankFields
  <1>5. /\ Stripped(k) \in Drawing /\ Stripped(k).at = k
        /\ Stripped(k).live = Blank.live /\ Stripped(k).title = Blank.title
    BY <1>1, <1>4 DEF Stripped, Drawing
  <1>6. QED
    BY <1>2, <1>3, <1>4, <1>5

\* A callback is written whole by its fields.
LEMMA CallbackFields ==
    ASSUME NEW x \in Callback
    PROVE  /\ x.pc \in {"unused", "saving", "editing", "over"}
           /\ x.ids \in SUBSET Condition
           /\ x.drawing \in Drawing
           /\ x.drawing.live \in BOOLEAN
           /\ x.drawing.page \in Nat
           /\ x.drawing.marked \in SUBSET Condition
           /\ x.drawing.at \in 0 .. MaxClicks
  BY DEF Callback, Drawing

\* A toggle changes what is known of the selections by no more than it names.
LEMMA ToggleDiffers ==
    ASSUME NEW s \in SUBSET Condition, NEW c \in Condition, NEW t \in SUBSET Condition
    PROVE  Differ(Known(Differ(s, {c})), t) \subseteq Differ(Known(s), t) \cup {c}
  BY DEF Differ, Known

--------------------------------------------------------------------------------
(* What the actions do to the callbacks.                                   *)

Becomes(k, pc, ids, drawing) ==
    /\ callback' \in [Click -> Callback]
    /\ \A j \in Click \ {k} : callback'[j] = callback[j]
    /\ callback'[k].pc = pc /\ callback'[k].ids = ids /\ callback'[k].drawing = drawing

LEMMA EditBecomes ==
    ASSUME NEW k \in Click, NEW d \in Drawing, callback \in [Click -> Callback], Edit(k, d)
    PROVE  Becomes(k, "editing", callback[k].ids, d)
  <1> DEFINE x == [callback[k] EXCEPT !.pc = "editing", !.drawing = d]
  <1>1. x \in Callback /\ x.pc = "editing" /\ x.drawing = d /\ x.ids = callback[k].ids
    BY DEF Callback
  <1>2. callback' = [callback EXCEPT ![k] = x]
    BY DEF Edit
  <1> HIDE DEF x
  <1>3. QED
    BY <1>1, <1>2 DEF Becomes

LEMMA OverBecomes ==
    ASSUME NEW k \in Click, callback \in [Click -> Callback],
           callback' = [callback EXCEPT ![k].pc = "over"]
    PROVE  Becomes(k, "over", callback[k].ids, callback[k].drawing)
  <1> DEFINE x == [callback[k] EXCEPT !.pc = "over"]
  <1>1. x \in Callback /\ x.pc = "over" /\ x.drawing = callback[k].drawing /\ x.ids = callback[k].ids
    BY DEF Callback
  <1>2. callback' = [callback EXCEPT ![k] = x]
    OBVIOUS
  <1> HIDE DEF x
  <1>3. QED
    BY <1>1, <1>2 DEF Becomes

LEMMA SaveBecomes ==
    ASSUME NEW k \in Click, callback \in [Click -> Callback], selections \in SUBSET Condition,
           callback' = [callback EXCEPT ![k].pc = "saving", ![k].ids = selections]
    PROVE  Becomes(k, "saving", selections, callback[k].drawing)
  <1> DEFINE x == [callback[k] EXCEPT !.pc = "saving", !.ids = selections]
  <1>1. /\ x \in Callback /\ x.pc = "saving" /\ x.drawing = callback[k].drawing
        /\ x.ids = selections
    BY DEF Callback
  <1>2. callback' = [callback EXCEPT ![k] = x]
    OBVIOUS
  <1> HIDE DEF x
  <1>3. QED
    BY <1>1, <1>2 DEF Becomes

LEMMA TypeFacts ==
    ASSUME TypeOK
    PROVE  /\ page \in Nat /\ selections \in SUBSET Condition /\ listed \in SUBSET Condition
           /\ PageCount(listed) \in Nat /\ clicks \in Nat /\ MaxClicks \in Nat
           /\ \A k \in Click : k \in 0 .. MaxClicks /\ k \in Nat /\ k >= 1
           /\ message.at \in 0 .. MaxClicks
           /\ \A p : Page(listed, p) \subseteq listed
  <1>1. listed \in SUBSET Condition /\ selections \in SUBSET Condition
    BY DEF TypeOK
  <1>2. PageCount(listed) \in Nat
    BY <1>1, SlotsFinite
  <1>3. page \in Nat
    BY <1>2 DEF TypeOK
  <1>4. message.at \in 0 .. MaxClicks
    BY DEF TypeOK, Drawing
  <1>5. \A p : Page(listed, p) \subseteq listed
    BY DEF Page, Known
  <1>6. QED
    BY <1>1, <1>2, <1>3, <1>4, <1>5, ViewAssumption DEF TypeOK, Click

\* A click on a condition, Prev or Next: drawn from the new state, or the label
\* is missing.
LEMMA DrawingClick ==
    ASSUME TypeOK, NEW k \in Click, Toggle(k) \/ Navigate(k)
    PROVE  /\ phase = "open" /\ message.live /\ k = clicks + 1 /\ clicks' = k
           /\ UNCHANGED <<listed, phase, message, faults>>
           /\ page' \in 1 .. PageCount(listed) \/ page' = page
           /\ selections' \subseteq listed
           /\ meanwhile' \in [Click -> SUBSET Condition]
           /\ \A j \in Click : meanwhile[j] \subseteq meanwhile'[j]
           /\ \A j \in Click : callback[j].pc = "saving" =>
                 Differ(Known(selections'), Known(callback[j].ids))
                    \subseteq Differ(Known(selections), Known(callback[j].ids)) \cup meanwhile'[j]
           /\ \/ /\ Becomes(k, "editing", callback[k].ids, Grid(page', selections', k))
                 /\ excuses' = excuses
              \/ /\ Becomes(k, "over", callback[k].ids, callback[k].drawing)
                 /\ excuses' = excuses \cup {"unlabelled"}
  <1>1. /\ phase = "open" /\ message.live /\ k = clicks + 1 /\ clicks' = k
        /\ UNCHANGED <<listed, phase, message, faults>>
    BY DEF Toggle, Navigate, Clicked
  <1>2. callback \in [Click -> Callback]
    BY DEF TypeOK
  <1>3. \A j \in Click : callback[j].ids \in SUBSET Condition
    BY <1>2, CallbackFields
  <1>4. /\ page' \in 1 .. PageCount(listed) \/ page' = page
        /\ selections' \subseteq listed
        /\ meanwhile' \in [Click -> SUBSET Condition]
        /\ \A j \in Click : meanwhile[j] \subseteq meanwhile'[j]
        /\ \A j \in Click : callback[j].pc = "saving" =>
              Differ(Known(selections'), Known(callback[j].ids))
                 \subseteq Differ(Known(selections), Known(callback[j].ids)) \cup meanwhile'[j]
        /\ Redraw(k, page', selections')
    <2>1. CASE Toggle(k)
      <3>1. PICK c \in Page(listed, message.page) :
               /\ selections' = Differ(selections, {c})
               /\ meanwhile' = [j \in Click |-> IF callback[j].pc = "saving"
                                                  THEN meanwhile[j] \cup {c} ELSE meanwhile[j]]
        BY <2>1 DEF Toggle
      <3>2. c \in listed /\ c \in Condition
        BY <3>1, TypeFacts
      <3>3. page' = page /\ Redraw(k, page', selections')
        BY <2>1 DEF Toggle
      <3>4. selections' \subseteq listed
        BY <3>1, <3>2 DEF Differ, TypeOK
      <3>5. /\ meanwhile' \in [Click -> SUBSET Condition]
            /\ \A j \in Click : meanwhile[j] \subseteq meanwhile'[j]
        BY <3>1, <3>2 DEF TypeOK
      <3>6. ASSUME NEW j \in Click, callback[j].pc = "saving"
            PROVE  Differ(Known(selections'), Known(callback[j].ids))
                      \subseteq Differ(Known(selections), Known(callback[j].ids)) \cup meanwhile'[j]
        <4>1. c \in meanwhile'[j]
          BY <3>1, <3>6
        <4>2. Known(callback[j].ids) \in SUBSET Condition
          BY <1>3, KnownType
        <4>3. Differ(Known(selections'), Known(callback[j].ids))
                 \subseteq Differ(Known(selections), Known(callback[j].ids)) \cup {c}
          BY <3>1, <3>2, <4>2, TypeFacts, ToggleDiffers
        <4>4. QED
          BY <4>1, <4>3
      <3>7. QED
        BY <3>3, <3>4, <3>5, <3>6
    <2>2. CASE Navigate(k)
      <3>1. UNCHANGED <<selections, meanwhile>> /\ Redraw(k, page', selections')
        BY <2>2 DEF Navigate
      <3>2. page' \in 1 .. PageCount(listed) \/ page' = page
        BY <2>2, TypeFacts DEF Navigate, TypeOK
      <3>3. QED
        BY <3>1, <3>2 DEF TypeOK
    <2>3. QED
      BY <2>1, <2>2
  <1>5. page' \in Nat /\ selections' \in SUBSET Condition
    BY <1>4, TypeFacts
  <1>6. Grid(page', selections', k) \in Drawing
    BY <1>5, GridType, TypeFacts
  <1>7. \/ /\ Becomes(k, "editing", callback[k].ids, Grid(page', selections', k))
           /\ excuses' = excuses
        \/ /\ Becomes(k, "over", callback[k].ids, callback[k].drawing)
           /\ excuses' = excuses \cup {"unlabelled"}
    BY <1>2, <1>4, <1>6, EditBecomes, OverBecomes DEF Redraw
  <1>8. QED
    BY <1>1, <1>4, <1>7

\* Cancel and Save, and the end of a Save: what is staged stays, and nothing
\* with buttons is drawn.
LEMMA QuietClick ==
    ASSUME TypeOK, NEW k \in Click, Cancel(k) \/ Save(k)
    PROVE  /\ phase = "open" /\ message.live /\ k = clicks + 1 /\ clicks' = k
           /\ UNCHANGED <<listed, phase, message, faults, page, selections, meanwhile, excuses>>
           /\ \/ Becomes(k, "editing", callback[k].ids, Stripped(k))
              \/ Becomes(k, "saving", selections, callback[k].drawing)
  <1>1. callback \in [Click -> Callback] /\ page \in Nat /\ selections \in SUBSET Condition
    BY TypeFacts DEF TypeOK
  <1>2. CASE Cancel(k)
    <2>1. Edit(k, Stripped(k))
      BY <1>2 DEF Cancel, Stripped
    <2>2. Becomes(k, "editing", callback[k].ids, Stripped(k))
      BY <1>1, <2>1, FinalFields, EditBecomes
    <2>3. QED
      BY <1>2, <2>2 DEF Cancel, Clicked
  <1>3. CASE Save(k)
    <2>1. Becomes(k, "saving", selections, callback[k].drawing)
      BY <1>1, <1>3, SaveBecomes DEF Save
    <2>2. QED
      BY <1>3, <2>1 DEF Save, Clicked
  <1>4. QED
    BY <1>2, <1>3

LEMMA SaveEnds ==
    ASSUME TypeOK, NEW k \in Click, Stored(k) \/ NotStored(k)
    PROVE  /\ callback[k].pc = "saving"
           /\ UNCHANGED <<listed, phase, message, faults, page, selections, meanwhile,
                          excuses, clicks>>
           /\ \/ Becomes(k, "editing", callback[k].ids, SavedGrid(k))
              \/ Becomes(k, "over", callback[k].ids, callback[k].drawing)
  <1>1. callback \in [Click -> Callback] /\ page \in Nat /\ selections \in SUBSET Condition
    BY TypeFacts DEF TypeOK
  <1>2. CASE Stored(k)
    <2>1. Edit(k, SavedGrid(k))
      BY <1>2 DEF Stored, SavedGrid
    <2>2. Becomes(k, "editing", callback[k].ids, SavedGrid(k))
      BY <1>1, <2>1, FinalFields, EditBecomes
    <2>3. QED
      BY <1>2, <2>2 DEF Stored
  <1>3. CASE NotStored(k)
    <2>1. Becomes(k, "over", callback[k].ids, callback[k].drawing)
      BY <1>1, <1>3, OverBecomes DEF NotStored
    <2>2. QED
      BY <1>3, <2>1 DEF NotStored
  <1>4. QED
    BY <1>2, <1>3

\* The end of an edit.
LEMMA EditEnds ==
    ASSUME TypeOK, NEW k \in Click, Lands(k) \/ IsLost(k)
    PROVE  /\ callback[k].pc = "editing"
           /\ UNCHANGED <<listed, phase, page, selections, meanwhile, clicks>>
           /\ Becomes(k, "over", callback[k].ids, callback[k].drawing)
           /\ \/ /\ message' = callback[k].drawing
                 /\ excuses' = IF message.at > k THEN excuses \cup {"overtaken"} ELSE excuses
              \/ message' = message /\ excuses' = excuses \cup {"lost"}
           /\ faults' \in 0 .. MaxFaults
  <1>1. callback \in [Click -> Callback] /\ faults \in 0 .. MaxFaults
    BY DEF TypeOK
  <1>2. callback' = [callback EXCEPT ![k].pc = "over"]
    BY DEF Lands, IsLost
  <1>3. Becomes(k, "over", callback[k].ids, callback[k].drawing)
    BY <1>1, <1>2, OverBecomes
  <1>4. CASE Lands(k)
    BY <1>1, <1>3, <1>4 DEF Lands
  <1>5. CASE IsLost(k)
    BY <1>1, <1>3, <1>5, ViewAssumption DEF IsLost
  <1>6. QED
    BY <1>4, <1>5

--------------------------------------------------------------------------------
(* Types.                                                                  *)

LEMMA TypeInit ==
    ASSUME Init
    PROVE  TypeOK
  <1>1. PageCount(listed) \in Nat
    BY SlotsFinite DEF Init
  <1>2. page \in 1 .. PageCount(listed) \/ (page = 1 /\ PageCount(listed) = 0)
    BY <1>1 DEF Init
  <1>3. callback \in [Click -> Callback] /\ message \in Drawing
    BY BlankFields DEF Init
  <1>4. QED
    BY <1>2, <1>3, ViewAssumption DEF Init, TypeOK

\* Listed and PageCount stay, so a page is in range if it was or is a new one.
LEMMA PageType ==
    ASSUME TypeOK, listed' = listed, page' \in 1 .. PageCount(listed) \/ page' = page
    PROVE  page' \in 1 .. PageCount(listed)' \/ (page' = 1 /\ PageCount(listed)' = 0)
  <1>1. PageCount(listed)' = PageCount(listed)
    BY DEF PageCount, Slots, Known, Slot, Chunk, Ahead
  <1>2. QED
    BY <1>1 DEF TypeOK

LEMMA TypeStep ==
    ASSUME TypeOK, [Next]_vars
    PROVE  TypeOK'
  <1>1. CASE Open
    <2>1. Grid(page, selections, 0) \in Drawing
      BY TypeFacts, GridType
    <2>2. faults' \in 0 .. MaxFaults /\ message' \in Drawing /\ phase' \in {"open", "failed"}
      BY <1>1, <2>1, ViewAssumption DEF Open, TypeOK
    <2>3. QED
      BY <1>1, <2>2, PageType DEF Open, TypeOK
  <1>2. CASE Expire
    BY <1>2, PageType DEF Expire, TypeOK
  <1>3. ASSUME NEW k \in Click, Toggle(k) \/ Navigate(k)
        PROVE  TypeOK'
    <2>1. clicks' \in 0 .. MaxClicks
      BY <1>3, DrawingClick, TypeFacts
    <2>2. callback' \in [Click -> Callback] /\ excuses' \subseteq {"lost", "overtaken", "unlabelled"}
      BY <1>3, DrawingClick DEF Becomes, TypeOK
    <2>3. UNCHANGED <<listed, phase, message, faults>> /\ selections' \subseteq listed
          /\ meanwhile' \in [Click -> SUBSET Condition]
          /\ (page' \in 1 .. PageCount(listed) \/ page' = page)
      BY <1>3, DrawingClick
    <2>4. QED
      BY <2>1, <2>2, <2>3, PageType DEF TypeOK
  <1>4. ASSUME NEW k \in Click, Cancel(k) \/ Save(k)
        PROVE  TypeOK'
    <2>1. clicks' \in 0 .. MaxClicks
      BY <1>4, QuietClick, TypeFacts
    <2>2. /\ UNCHANGED <<listed, phase, message, faults, page, selections, meanwhile, excuses>>
          /\ callback' \in [Click -> Callback]
      BY <1>4, QuietClick DEF Becomes
    <2>3. QED
      BY <2>1, <2>2, PageType DEF TypeOK
  <1>5. ASSUME NEW k \in Click, Stored(k) \/ NotStored(k)
        PROVE  TypeOK'
    <2>1. /\ UNCHANGED <<listed, phase, message, faults, page, selections, meanwhile, excuses, clicks>>
          /\ callback' \in [Click -> Callback]
      BY <1>5, SaveEnds DEF Becomes
    <2>2. QED
      BY <2>1, PageType DEF TypeOK
  <1>6. ASSUME NEW k \in Click, Lands(k) \/ IsLost(k)
        PROVE  TypeOK'
    <2>1. /\ UNCHANGED <<listed, phase, page, selections, meanwhile, clicks>>
          /\ callback' \in [Click -> Callback] /\ faults' \in 0 .. MaxFaults
      BY <1>6, EditEnds DEF Becomes
    <2>2. callback[k].drawing \in Drawing
      BY CallbackFields DEF TypeOK
    <2>3. message' \in Drawing /\ excuses' \subseteq {"lost", "overtaken", "unlabelled"}
      BY <1>6, <2>2, EditEnds DEF TypeOK
    <2>4. QED
      BY <2>1, <2>3, PageType DEF TypeOK
  <1>7. CASE UNCHANGED vars
    BY <1>7, PageType DEF vars, TypeOK
  <1>8. QED
    BY <1>1, <1>2, <1>3, <1>4, <1>5, <1>6, <1>7 DEF Next

--------------------------------------------------------------------------------
(* The rest of the invariant, action by action.                            *)

Rest == Ordered /\ Drawn /\ Landed /\ Advancing /\ Current /\ Sent

LEMMA RestInit ==
    ASSUME Init
    PROVE  Rest
  <1>1. /\ callback = [k \in Click |-> Unused] /\ message = Blank /\ clicks = 0 /\ phase = "opening"
        /\ \A k \in Click : callback[k] = Unused
    BY DEF Init
  <1>2. Ordered /\ Drawn /\ Landed /\ Advancing /\ Current
    BY <1>1, BlankFields DEF Ordered, Drawn, Landed, Advancing, Current
  <1>3. Sent
    BY <1>1, BlankFields DEF Sent
  <1>4. QED
    BY <1>2, <1>3 DEF Rest

\* What stays when the catalog does, and when what is staged does.
LEMMA Constancy ==
    ASSUME listed' = listed
    PROVE  /\ PageCount(listed)' = PageCount(listed)
           /\ page' = page /\ selections' = selections =>
                 /\ Known(selections)' = Known(selections)
  BY DEF PageCount, Slots, Known, Slot, Chunk, Ahead

\* A click is new: nothing is known of it, and the message is older.
LEMMA NewClick ==
    ASSUME TypeOK, Ordered, Landed, NEW k \in Click, k = clicks + 1
    PROVE  /\ callback[k].pc = "unused" /\ callback[k].drawing.live = FALSE
           /\ callback[k].drawing.title = "cancelled"
           /\ message.at < k
           /\ \A j \in Click : j > k => callback[j] = Unused
  <1>1. \A j \in Click : j >= k => callback[j] = Unused
    BY TypeFacts DEF Ordered
  <1>2. message.at < k
    BY TypeFacts DEF Landed
  <1>3. callback[k] = Unused
    BY <1>1, TypeFacts
  <1>4. QED
    BY <1>1, <1>2, <1>3, BlankFields, TypeFacts

LEMMA DrawingClickKeeps ==
    ASSUME TypeOK, Rest, NEW k \in Click, Toggle(k) \/ Navigate(k)
    PROVE  Rest'
  <1>1. /\ Ordered /\ Drawn /\ Landed /\ Advancing /\ Current /\ Sent
        /\ phase = "open" /\ message.live /\ k = clicks + 1 /\ clicks' = k
        /\ listed' = listed /\ phase' = phase /\ message' = message
    BY DrawingClick DEF Rest
  <1>2. /\ \A j \in Click : meanwhile[j] \subseteq meanwhile'[j]
        /\ \A j \in Click : callback[j].pc = "saving" =>
              Differ(Known(selections'), Known(callback[j].ids))
                 \subseteq Differ(Known(selections), Known(callback[j].ids)) \cup meanwhile'[j]
    BY DrawingClick
  <1>3. \A j \in Click \ {k} : callback'[j] = callback[j]
    BY DrawingClick DEF Becomes
  <1>4. /\ callback[k].pc = "unused" /\ callback[k].drawing.live = FALSE
        /\ callback[k].drawing.title = "cancelled"
        /\ message.at < k
        /\ \A j \in Click : j > k => callback[j] = Unused
    BY <1>1, NewClick
  <1>5. PageCount(listed)' = PageCount(listed) /\ PageCount(listed) > 0
    BY <1>1, Constancy DEF Drawn
  <1>6. \/ /\ callback'[k].pc = "editing" /\ callback'[k].drawing.live
           /\ callback'[k].drawing.at = k /\ callback'[k].drawing.title = "editing"
           /\ callback'[k].drawing.page = page' /\ callback'[k].drawing.marked = Known(selections')
           /\ excuses' = excuses
        \/ /\ callback'[k].pc = "over" /\ ~callback'[k].drawing.live
           /\ callback'[k].drawing.title = "cancelled"
           /\ excuses' # {}
    <2> DEFINE g == Grid(page', selections', k)
    <2>1. /\ g.title = "editing" /\ g.live = (PageCount(listed) > 0) /\ g.page = page'
          /\ g.marked = Known(selections') /\ g.at = k
      BY GridFields
    <2>2. \/ Becomes(k, "editing", callback[k].ids, g) /\ excuses' = excuses
          \/ /\ Becomes(k, "over", callback[k].ids, callback[k].drawing)
             /\ excuses' = excuses \cup {"unlabelled"}
      BY DrawingClick
    <2> HIDE DEF g
    <2>3. QED
      BY <1>4, <1>5, <2>1, <2>2 DEF Becomes
  <1>7. Ordered'
    BY <1>1, <1>3, <1>4, TypeFacts DEF Ordered
  <1>8. Drawn'
    BY <1>1, <1>3, <1>5, <1>6 DEF Drawn
  <1>9. Landed'
    <2>1. ASSUME message.at # 0
          PROVE  message.at \in Click \ {k}
      BY <1>4, <2>1, TypeFacts DEF Click
    <2>2. QED
      BY <1>1, <1>3, <1>4, <2>1, TypeFacts DEF Landed
  <1>10. Advancing'
    BY <1>1, <1>3, <1>6 DEF Advancing
  <1>11. Current'
    <2>1. SUFFICES ASSUME excuses' = {}, NEW i \in 0 .. MaxClicks, Newest(i)'
                   PROVE  i > 0 /\ callback'[i].pc = "editing" /\ Staged(callback[i].drawing)'
      BY DEF Current
    <2>2. callback'[k].drawing.live
      BY <1>6, <2>1
    <2>3. ~(k > i)
      BY <2>1, <2>2 DEF Newest
    <2>4. ~(i > k)
      <3>1. SUFFICES ASSUME i > k
                     PROVE  FALSE
        OBVIOUS
      <3>2. i \in Click \ {k} /\ i # 0
        BY <3>1, TypeFacts DEF Click
      <3>3. callback'[i] = Unused
        BY <1>3, <1>4, <3>1, <3>2
      <3>4. callback'[i].drawing.live
        BY <2>1, <3>2 DEF Newest
      <3>5. QED
        BY <3>3, <3>4, BlankFields
    <2>5. i = k
      BY <2>3, <2>4, TypeFacts
    <2>6. callback'[k].pc = "editing" /\ callback'[k].drawing.page = page'
          /\ callback'[k].drawing.marked = Known(selections')
      BY <1>6, <2>1
    <2>7. QED
      BY <2>5, <2>6, TypeFacts DEF Staged, Known
  <1>12. Sent'
    <2>1. ASSUME NEW j \in Click
          PROVE  /\ callback'[j].pc = "saving" =>
                       Differ(Known(selections'), Known(callback'[j].ids)) \subseteq meanwhile'[j]
                 /\ callback'[j].drawing.title = "saved" =>
                       Differ(callback'[j].drawing.marked, Known(callback'[j].ids)) \subseteq meanwhile'[j]
      <3>1. CASE j = k
        BY <1>6, <3>1
      <3>2. CASE j # k
        <4>1. callback'[j] = callback[j]
          BY <1>3, <3>2
        <4>2. meanwhile[j] \subseteq meanwhile'[j]
          BY <1>2
        <4>3. QED
          BY <1>1, <1>2, <4>1, <4>2 DEF Sent
      <3>3. QED
        BY <3>1, <3>2
    <2>2. QED
      BY <2>1 DEF Sent, Differ, Known
  <1>13. QED
    BY <1>7, <1>8, <1>9, <1>10, <1>11, <1>12 DEF Rest

LEMMA QuietClickKeeps ==
    ASSUME TypeOK, Rest, NEW k \in Click, Cancel(k) \/ Save(k)
    PROVE  Rest'
  <1>1. /\ Ordered /\ Drawn /\ Landed /\ Advancing /\ Current /\ Sent
        /\ phase = "open" /\ k = clicks + 1 /\ clicks' = k
        /\ UNCHANGED <<listed, phase, message, page, selections, meanwhile, excuses>>
    BY QuietClick DEF Rest
  <1>2. \A j \in Click \ {k} : callback'[j] = callback[j]
    BY QuietClick DEF Becomes
  <1>3. /\ callback[k].pc = "unused" /\ callback[k].drawing.live = FALSE
        /\ callback[k].drawing.title = "cancelled"
        /\ message.at < k
        /\ \A j \in Click : j > k => callback[j] = Unused
    BY <1>1, NewClick
  <1>4. /\ callback'[k].drawing.live = FALSE /\ callback'[k].drawing.title = "cancelled"
        /\ \/ callback'[k].pc = "editing" /\ callback'[k].drawing.at = k
           \/ callback'[k].pc = "saving" /\ callback'[k].ids = selections
    <2>1. \/ Becomes(k, "editing", callback[k].ids, Stripped(k))
          \/ Becomes(k, "saving", selections, callback[k].drawing)
      BY QuietClick
    <2>2. CASE Becomes(k, "editing", callback[k].ids, Stripped(k))
      <3>1. callback'[k].pc = "editing" /\ callback'[k].drawing = Stripped(k)
        BY <2>2 DEF Becomes
      <3>2. /\ Stripped(k).live = FALSE /\ Stripped(k).at = k
            /\ Stripped(k).title = "cancelled"
        BY FinalFields, TypeFacts
      <3>3. QED
        BY <3>1, <3>2
    <2>3. CASE Becomes(k, "saving", selections, callback[k].drawing)
      BY <1>3, <2>3 DEF Becomes
    <2>4. QED
      BY <2>1, <2>2, <2>3
  <1>5. PageCount(listed)' = PageCount(listed) /\ Known(selections)' = Known(selections)
    BY <1>1, Constancy
  <1>6. Ordered'
    BY <1>1, <1>2, <1>3, TypeFacts DEF Ordered
  <1>7. Drawn'
    BY <1>1, <1>2, <1>4, <1>5 DEF Drawn
  <1>8. Landed'
    <2>1. ASSUME message.at # 0
          PROVE  message.at \in Click \ {k}
      BY <1>3, <2>1, TypeFacts DEF Click
    <2>2. QED
      BY <1>1, <1>2, <1>3, <2>1, TypeFacts DEF Landed
  <1>9. Advancing'
    BY <1>1, <1>2, <1>4 DEF Advancing
  <1>10. Current'
    <2>1. SUFFICES ASSUME excuses = {}, NEW i \in 0 .. MaxClicks, Newest(i)'
                   PROVE  (\/ i > 0 /\ callback[i].pc = "editing" /\ Staged(callback[i].drawing)
                           \/ message.at = i /\ Staged(message)
                           \/ message.at > i /\ ~message.live)'
      BY <1>1 DEF Current
    <2>2. Newest(i) /\ i # k
      <3>1. \A j \in Click : callback'[j].drawing.live = callback[j].drawing.live
        BY <1>2, <1>3, <1>4
      <3>2. i # k
        BY <1>4, <2>1, TypeFacts DEF Newest
      <3>3. i = 0 \/ i \in Click
        BY TypeFacts DEF Click
      <3>4. QED
        BY <2>1, <3>1, <3>2, <3>3 DEF Newest
    <2>3. \/ i > 0 /\ callback[i].pc = "editing" /\ Staged(callback[i].drawing)
          \/ message.at = i /\ Staged(message)
          \/ message.at > i /\ ~message.live
      BY <1>1, <2>1, <2>2 DEF Current
    <2>4. i > 0 => callback'[i] = callback[i]
      BY <1>2, <2>2, TypeFacts DEF Click
    <2>5. QED
      BY <1>1, <1>5, <2>3, <2>4 DEF Staged
  <1>11. Sent'
    <2>1. Differ(Known(selections), Known(selections)) = {}
      BY DEF Differ
    <2>2. QED
      BY <1>1, <1>2, <1>4, <1>5, <2>1 DEF Sent, Differ, Known
  <1>12. QED
    BY <1>6, <1>7, <1>8, <1>9, <1>10, <1>11 DEF Rest

LEMMA SaveEndsKeeps ==
    ASSUME TypeOK, Rest, NEW k \in Click, Stored(k) \/ NotStored(k)
    PROVE  Rest'
  <1>1. /\ Ordered /\ Drawn /\ Landed /\ Advancing /\ Current /\ Sent
        /\ callback[k].pc = "saving"
        /\ UNCHANGED <<listed, phase, message, page, selections, meanwhile, excuses, clicks>>
    BY SaveEnds DEF Rest
  <1>2. \A j \in Click \ {k} : callback'[j] = callback[j]
    BY SaveEnds DEF Becomes
  <1>3. /\ callback[k].drawing.live = FALSE /\ k <= clicks /\ message.at # k
    <2>1. callback[k].drawing.live \in BOOLEAN
      BY CallbackFields DEF TypeOK
    <2>2. ~(k > clicks)
      BY <1>1, BlankFields DEF Ordered
    <2>3. QED
      BY <1>1, <2>1, <2>2, TypeFacts DEF Drawn, Landed
  <1>4. /\ callback'[k].drawing.live = FALSE /\ callback'[k].ids = callback[k].ids
        /\ \/ /\ callback'[k].pc = "editing" /\ callback'[k].drawing.at = k
              /\ callback'[k].drawing.marked = Known(selections)
           \/ callback'[k].pc = "over" /\ callback'[k].drawing = callback[k].drawing
    <2>1. \/ Becomes(k, "editing", callback[k].ids, SavedGrid(k))
          \/ Becomes(k, "over", callback[k].ids, callback[k].drawing)
      BY SaveEnds
    <2>2. CASE Becomes(k, "editing", callback[k].ids, SavedGrid(k))
      <3>1. /\ callback'[k].pc = "editing" /\ callback'[k].drawing = SavedGrid(k)
            /\ callback'[k].ids = callback[k].ids
        BY <2>2 DEF Becomes
      <3>2. /\ SavedGrid(k).live = FALSE /\ SavedGrid(k).at = k
            /\ SavedGrid(k).marked = Known(selections)
        BY FinalFields, TypeFacts
      <3>3. QED
        BY <3>1, <3>2
    <2>3. CASE Becomes(k, "over", callback[k].ids, callback[k].drawing)
      BY <1>3, <2>3 DEF Becomes
    <2>4. QED
      BY <2>1, <2>2, <2>3
  <1>5. PageCount(listed)' = PageCount(listed) /\ Known(selections)' = Known(selections)
    BY <1>1, Constancy
  <1>6. Ordered'
    BY <1>1, <1>2, <1>3, TypeFacts DEF Ordered
  <1>7. Drawn'
    BY <1>1, <1>2, <1>4, <1>5 DEF Drawn
  <1>8. Landed'
    <2>1. ASSUME message.at # 0
          PROVE  message.at \in Click \ {k}
      BY <1>3, <2>1, TypeFacts DEF Click
    <2>2. QED
      BY <1>1, <1>2, <2>1 DEF Landed
  <1>9. Advancing'
    BY <1>1, <1>2, <1>4 DEF Advancing
  <1>10. Current'
    <2>1. SUFFICES ASSUME excuses = {}, phase \in {"open", "expired"},
                          NEW i \in 0 .. MaxClicks, Newest(i)'
                   PROVE  (\/ i > 0 /\ callback[i].pc = "editing" /\ Staged(callback[i].drawing)
                           \/ message.at = i /\ Staged(message)
                           \/ message.at > i /\ ~message.live)'
      BY <1>1 DEF Current
    <2>2. Newest(i) /\ i # k
      <3>1. \A j \in Click : callback'[j].drawing.live = callback[j].drawing.live
        BY <1>2, <1>3, <1>4
      <3>2. i # k
        BY <1>4, <2>1, TypeFacts DEF Newest
      <3>3. i = 0 \/ i \in Click
        BY TypeFacts DEF Click
      <3>4. QED
        BY <2>1, <3>1, <3>2, <3>3 DEF Newest
    <2>3. \/ i > 0 /\ callback[i].pc = "editing" /\ Staged(callback[i].drawing)
          \/ message.at = i /\ Staged(message)
          \/ message.at > i /\ ~message.live
      BY <1>1, <2>1, <2>2 DEF Current
    <2>4. i > 0 => callback'[i] = callback[i]
      BY <1>2, <2>2, TypeFacts DEF Click
    <2>5. QED
      BY <1>1, <1>5, <2>3, <2>4 DEF Staged
  <1>11. Sent'
    BY <1>1, <1>2, <1>4, <1>5 DEF Sent, Differ, Known
  <1>12. QED
    BY <1>6, <1>7, <1>8, <1>9, <1>10, <1>11 DEF Rest

LEMMA EditEndsKeeps ==
    ASSUME TypeOK, Rest, NEW k \in Click, Lands(k) \/ IsLost(k)
    PROVE  Rest'
  <1>1. /\ Ordered /\ Drawn /\ Landed /\ Advancing /\ Current /\ Sent
        /\ callback[k].pc = "editing" /\ callback[k].drawing.at = k
        /\ UNCHANGED <<listed, phase, page, selections, meanwhile, clicks>>
    BY EditEnds DEF Rest, Drawn
  <1>2. \A j \in Click \ {k} : callback'[j] = callback[j]
    BY EditEnds DEF Becomes
  <1>3. /\ callback'[k].pc = "over" /\ callback'[k].drawing = callback[k].drawing
        /\ callback'[k].ids = callback[k].ids
    BY EditEnds DEF Becomes
  <1>4. \/ /\ message' = callback[k].drawing
           /\ excuses' = IF message.at > k THEN excuses \cup {"overtaken"} ELSE excuses
        \/ message' = message /\ excuses' = excuses \cup {"lost"}
    BY EditEnds
  <1>5. k <= clicks /\ phase \notin {"opening", "failed"}
    <2>1. ~(k > clicks)
      BY <1>1, BlankFields DEF Ordered
    <2>2. QED
      BY <1>1, <2>1, TypeFacts DEF Ordered
  <1>6. PageCount(listed)' = PageCount(listed) /\ Known(selections)' = Known(selections)
    BY <1>1, Constancy
  <1>7. Ordered'
    BY <1>1, <1>2, <1>5, TypeFacts DEF Ordered
  <1>8. Drawn'
    BY <1>1, <1>2, <1>3, <1>4, <1>6 DEF Drawn
  <1>9. Landed'
    <2>1. CASE message' = callback[k].drawing
      BY <1>1, <1>3, <1>5, <2>1, TypeFacts DEF Landed
    <2>2. CASE message' = message
      <3>1. message.at # 0 => message.at \in Click
        BY TypeFacts DEF Click
      <3>2. QED
        BY <1>1, <1>2, <1>3, <2>2, <3>1 DEF Landed
    <2>3. QED
      BY <1>4, <2>1, <2>2
  \* Without an excuse the edit has landed, and no later one before it.
  <1>10. excuses' = {} => excuses = {} /\ message' = callback[k].drawing /\ message.at <= k
    BY <1>4, TypeFacts
  <1>11. Advancing'
    <2>1. SUFFICES ASSUME excuses' = {}, NEW j \in Click,
                          callback'[j].pc = "over", callback'[j].drawing.live
                   PROVE  j <= message'.at
      BY DEF Advancing
    <2>2. message'.at = k
      BY <1>1, <1>10, <2>1
    <2>3. j # k => j <= message.at
      BY <1>1, <1>2, <1>10, <2>1 DEF Advancing
    <2>4. QED
      BY <1>10, <2>1, <2>2, <2>3, TypeFacts
  <1>12. Current'
    <2>1. SUFFICES ASSUME excuses' = {}, phase' \in {"open", "expired"},
                          NEW i \in 0 .. MaxClicks, Newest(i)'
                   PROVE  (\/ i > 0 /\ callback[i].pc = "editing" /\ Staged(callback[i].drawing)
                           \/ message.at = i /\ Staged(message)
                           \/ message.at > i /\ ~message.live)'
      BY DEF Current
    <2>2. \A j \in Click : callback'[j].drawing = callback[j].drawing
      BY <1>2, <1>3
    <2>3. Newest(i)
      BY <2>1, <2>2, TypeFacts DEF Newest, Click
    <2>4. \/ i > 0 /\ callback[i].pc = "editing" /\ Staged(callback[i].drawing)
          \/ message.at = i /\ Staged(message)
          \/ message.at > i /\ ~message.live
      BY <1>1, <1>10, <2>1, <2>3 DEF Current
    <2>5. message' = callback[k].drawing /\ message'.at = k /\ message.at <= k
      BY <1>1, <1>10, <2>1
    <2>6. CASE i = k
      <3>1. Staged(callback[k].drawing)
        <4>1. message.at = k => message = callback[k].drawing
          BY <1>1, TypeFacts DEF Landed
        <4>2. QED
          BY <2>4, <2>5, <2>6, <4>1, TypeFacts
      <3>2. QED
        BY <1>1, <1>6, <2>5, <2>6, <3>1 DEF Staged
    <2>7. CASE i < k
      <3>1. ~callback[k].drawing.live
        BY <2>3, <2>7, TypeFacts DEF Newest
      <3>2. QED
        BY <2>5, <2>7, <3>1
    <2>8. CASE i > k
      <3>1. i > 0 /\ callback[i].pc = "editing" /\ Staged(callback[i].drawing)
        BY <2>4, <2>5, <2>8, TypeFacts
      <3>2. i \in Click \ {k}
        BY <2>8, TypeFacts DEF Click
      <3>3. callback'[i] = callback[i]
        BY <1>2, <3>2
      <3>4. QED
        BY <1>1, <1>6, <3>1, <3>3 DEF Staged
    <2>9. QED
      BY <2>6, <2>7, <2>8, TypeFacts
  <1>13. Sent'
    BY <1>1, <1>2, <1>3, <1>6 DEF Sent, Differ, Known
  <1>14. QED
    BY <1>7, <1>8, <1>9, <1>11, <1>12, <1>13 DEF Rest

LEMMA OpenKeeps ==
    ASSUME TypeOK, Rest, Open
    PROVE  Rest'
  <1>1. /\ Ordered /\ Drawn /\ Landed /\ Advancing /\ Current /\ Sent
        /\ phase = "opening"
        /\ UNCHANGED <<listed, page, selections, callback, clicks, meanwhile, excuses>>
        /\ \/ phase' = "open" /\ message' = Grid(page, selections, 0)
           \/ phase' = "failed" /\ message' = message
    BY DEF Open, Rest
  <1>2. /\ clicks = 0 /\ ~message.live /\ message.at = 0
        /\ \A k \in Click : callback[k] = Unused
    BY <1>1, TypeFacts DEF Ordered
  <1>3. PageCount(listed)' = PageCount(listed) /\ Known(selections)' = Known(selections)
    BY <1>1, Constancy
  <1>4. CASE phase' = "open" /\ message' = Grid(page, selections, 0)
    <2>1. /\ message'.title = "editing" /\ message'.live = (PageCount(listed) > 0)
          /\ message'.page = page /\ message'.marked = Known(selections) /\ message'.at = 0
      BY <1>4, GridFields
    <2>2. Ordered' /\ Drawn' /\ Landed' /\ Advancing'
      BY <1>1, <1>2, <1>3, <1>4, <2>1, BlankFields DEF Ordered, Drawn, Landed, Advancing
    <2>3. Current'
      <3>1. SUFFICES ASSUME NEW i \in 0 .. MaxClicks, Newest(i)'
                     PROVE  message'.at = i /\ Staged(message)'
        BY DEF Current
      <3>2. i \notin Click
        BY <1>1, <1>2, <3>1, BlankFields, TypeFacts DEF Newest
      <3>3. i = 0
        BY <3>2, TypeFacts DEF Click
      <3>4. QED
        BY <1>1, <1>3, <2>1, <3>3 DEF Staged
    <2>4. Sent'
      BY <1>1, <1>2, BlankFields DEF Sent, Differ, Known
    <2>5. QED
      BY <2>2, <2>3, <2>4 DEF Rest
  <1>5. CASE phase' = "failed" /\ message' = message
    BY <1>1, <1>2, <1>3, <1>5 DEF Rest, Ordered, Drawn, Landed, Advancing, Current, Sent, Differ, Known
  <1>6. QED
    BY <1>1, <1>4, <1>5

LEMMA IdleKeeps ==
    ASSUME TypeOK, Rest, Expire \/ UNCHANGED vars
    PROVE  Rest'
  <1>1. /\ Ordered /\ Drawn /\ Landed /\ Advancing /\ Current /\ Sent
        /\ UNCHANGED <<listed, page, selections, callback, clicks, meanwhile, excuses, message>>
        /\ phase' = phase \/ (phase = "open" /\ phase' = "expired")
    BY DEF Expire, vars, Rest
  <1>2. PageCount(listed)' = PageCount(listed) /\ Known(selections)' = Known(selections)
    BY <1>1, Constancy
  <1>3. Ordered' /\ Drawn' /\ Landed' /\ Advancing'
    BY <1>1, <1>2 DEF Ordered, Drawn, Landed, Advancing
  <1>4. Current'
    BY <1>1, <1>2 DEF Current, Newest, Staged
  <1>5. Sent'
    BY <1>1 DEF Sent, Differ, Known
  <1>6. QED
    BY <1>3, <1>4, <1>5 DEF Rest

LEMMA GridInvStep ==
    ASSUME GridInv, [Next]_vars
    PROVE  GridInv'
  <1>1. TypeOK /\ Rest
    BY DEF GridInv, Rest
  <1>2. TypeOK'
    BY <1>1, TypeStep
  <1>3. Rest'
    BY <1>1, OpenKeeps, IdleKeeps, DrawingClickKeeps, QuietClickKeeps, SaveEndsKeeps, EditEndsKeeps
    DEF Next
  <1>4. QED
    BY <1>2, <1>3 DEF GridInv, Rest

--------------------------------------------------------------------------------
(* The theorems.                                                           *)

\* In every editor and after any clicks, what is drawn, sent and shown fits
\* together: the invariant of PostConditionsGridView.
THEOREM GridInvariant == Spec => []GridInv
  <1>1. Init => GridInv
    BY TypeInit, RestInit DEF GridInv, Rest
  <1>2. GridInv /\ [Next]_vars => GridInv'
    BY GridInvStep
  <1>3. QED
    BY <1>1, <1>2, PTL DEF Spec

\* Every variable of the editor keeps its type.
THEOREM GridTypes == Spec => []TypeOK
  <1>1. GridInv => TypeOK
    BY DEF GridInv
  <1>2. QED
    BY <1>1, GridInvariant, PTL

\* split_by_meta_group of whatever catalog an editor opens with.
THEOREM PagesAreRight == Spec => []PagesOfCatalog
  <1>1. GridInv => PagesOfCatalog
    BY PagesHoldAll DEF GridInv, TypeOK, PagesOfCatalog
  <1>2. QED
    BY <1>1, GridInvariant, PTL

\* However the callbacks of fast clicks overlap, the message comes to show the
\* page and the selections the next click works on.
THEOREM MessageShowsStaged == Spec => []ShownIsStaged
  <1>1. GridInv => ShownIsStaged
    <2>1. SUFFICES ASSUME GridInv, message.live, excuses = {},
                          \A k \in Click : callback[k].pc # "editing"
                   PROVE  message.page = page /\ message.marked = Known(selections)
      BY DEF ShownIsStaged
    <2>2. TypeOK /\ Ordered /\ Drawn /\ Landed /\ Advancing /\ Current
      BY <2>1 DEF GridInv
    <2>3. phase \in {"open", "expired"}
      BY <2>1, <2>2 DEF Ordered, TypeOK
    <2>4. Newest(message.at)
      <3>1. message.at = 0 \/ callback[message.at].drawing.live
        BY <2>1, <2>2 DEF Landed
      <3>2. ASSUME NEW j \in Click, j > message.at
            PROVE  ~callback[j].drawing.live
        <4>1. SUFFICES ASSUME callback[j].drawing.live
                       PROVE  FALSE
          OBVIOUS
        <4>2. callback[j].pc = "over"
          BY <2>1, <2>2, <4>1 DEF Drawn
        <4>3. j <= message.at
          BY <2>1, <2>2, <4>1, <4>2 DEF Advancing
        <4>4. QED
          BY <2>2, <3>2, <4>3, TypeFacts
      <3>3. QED
        BY <3>1, <3>2 DEF Newest
    <2>5. \/ message.at > 0 /\ callback[message.at].pc = "editing"
          \/ Staged(message)
          \/ message.at > message.at /\ ~message.live
      BY <2>1, <2>2, <2>3, <2>4, TypeFacts DEF Current
    <2>6. message.at > 0 => message.at \in Click
      BY <2>2, TypeFacts DEF Click
    <2>7. QED
      BY <2>1, <2>5, <2>6 DEF Staged
  <1>2. QED
    BY <1>1, GridInvariant, PTL

\* "Preferences saved" lists what that Save sent, but for what was toggled
\* while it waited.
THEOREM SavedListsSent == Spec => []SavedIsListed
  <1>1. GridInv => SavedIsListed
    <2>1. SUFFICES ASSUME GridInv, NEW k \in Click, message.title = "saved", message.at = k
                   PROVE  Differ(message.marked, Known(callback[k].ids)) \subseteq meanwhile[k]
      BY DEF SavedIsListed
    <2>2. message = callback[k].drawing
      BY <2>1, TypeFacts DEF GridInv, Landed
    <2>3. QED
      BY <2>1, <2>2 DEF GridInv, Sent
  <1>2. QED
    BY <1>1, GridInvariant, PTL
================================================================================
