-------------------------------- MODULE GridView --------------------------------
(***************************************************************************)
(* PostConditionsGridView: the state of one editor, the callbacks its      *)
(* buttons start and the message they edit.  A callback changes the view   *)
(* and draws it at once, then awaits the edit: edits of different clicks   *)
(* reach Discord in any order, and the member goes on clicking what the    *)
(* message shows.  PreferenceEditor has the preferences themselves.        *)
(***************************************************************************)
EXTENDS GridPages

CONSTANTS
    Labelled,     \* the conditions SHORT_LABELS has a label for
    MaxClicks     \* bound: the clicks

ASSUME ViewAssumption == Labelled \subseteq Condition /\ MaxClicks \in Nat /\ MaxFaults \in Nat

Click == 1 .. MaxClicks

\* What an edit makes of the message.  at: the click that drew it.
Drawing == [title : {"editing", "saved", "cancelled"}, live : BOOLEAN,
            page : Nat, marked : SUBSET Condition, at : 0 .. MaxClicks]

Blank == [title |-> "cancelled", live |-> FALSE, page |-> 0, marked |-> {}, at |-> 0]

Callback == [pc : {"unused", "saving", "editing", "over"},
             ids : SUBSET Condition, drawing : Drawing]

VARIABLES
    listed,       \* the catalog the view was built from
    phase,        \* opening, open, failed, expired
    page,         \* _page_index + 1
    selections,   \* _selections
    callback,     \* what each click has started
    clicks,       \* how many there were
    message,      \* what Discord shows
    meanwhile,    \* history: what was toggled while a Save awaited siege-web
    excuses       \* history: why the message may show something old

vars == <<listed, phase, page, selections, callback, clicks, message,
          meanwhile, excuses, faults>>

TypeOK ==
    /\ listed \subseteq Condition
    /\ phase \in {"opening", "open", "failed", "expired"}
    /\ page \in 1 .. PageCount(listed) \/ (page = 1 /\ PageCount(listed) = 0)
    /\ selections \subseteq listed
    /\ callback \in [Click -> Callback]
    /\ clicks \in 0 .. MaxClicks
    /\ message \in Drawing
    /\ meanwhile \in [Click -> SUBSET Condition]
    /\ excuses \subseteq {"lost", "overtaken", "unlabelled"}
    /\ faults \in 0 .. MaxFaults

Unused == [pc |-> "unused", ids |-> {}, drawing |-> Blank]

Init ==
    /\ listed \in SUBSET Condition
    /\ phase = "opening"
    /\ page = 1
    /\ selections \in SUBSET listed
    /\ callback = [k \in Click |-> Unused]
    /\ clicks = 0
    /\ message = Blank
    /\ meanwhile = [k \in Click |-> {}]
    /\ excuses = {}
    /\ faults = 0

--------------------------------------------------------------------------------
(* Drawing.                                                                *)

\* short_label raises for a description it does not know.
Drawable(p) == Page(listed, p) \subseteq Labelled

\* The embed lists what is selected on all pages.
Grid(p, chosen, k) ==
    [title |-> "editing", live |-> PageCount(listed) > 0, page |-> p,
     marked |-> Known(chosen), at |-> k]

\* The view is built, and sent as the reply to the command.
Open ==
    /\ phase = "opening"
    /\ \/ /\ Drawable(page)
          /\ phase' = "open"
          /\ message' = Grid(page, selections, 0)
          /\ UNCHANGED faults
       \/ /\ ~Drawable(page)
          /\ phase' = "failed"
          /\ UNCHANGED <<message, faults>>
       \/ /\ Drawable(page) /\ faults < MaxFaults
          /\ phase' = "failed" /\ faults' = faults + 1
          /\ UNCHANGED message
    /\ UNCHANGED <<listed, page, selections, callback, clicks, meanwhile, excuses>>

--------------------------------------------------------------------------------
(* The buttons: those the message shows, whatever the view is at by now.   *)

Clicked(k) ==
    /\ phase = "open" /\ message.live
    /\ k = clicks + 1
    /\ clicks' = k
    /\ UNCHANGED <<listed, phase, message, faults>>

Edit(k, drawing) ==
    callback' = [callback EXCEPT ![k] = [@ EXCEPT !.pc = "editing", !.drawing = drawing]]

\* _build_components, _build_embed_for_current_page and the edit.  A missing
\* label ends the callback when the view has changed and the message has not.
Redraw(k, p, chosen) ==
    \/ Drawable(p) /\ Edit(k, Grid(p, chosen, k)) /\ UNCHANGED excuses
    \/ /\ ~Drawable(p)
       /\ callback' = [callback EXCEPT ![k].pc = "over"]
       /\ excuses' = excuses \cup {"unlabelled"}

Toggle(k) ==
    /\ Clicked(k)
    /\ \E c \in Page(listed, message.page) :
          /\ selections' = Differ(selections, {c})
          /\ meanwhile' = [j \in Click |-> IF callback[j].pc = "saving"
                                             THEN meanwhile[j] \cup {c} ELSE meanwhile[j]]
    /\ Redraw(k, page, selections')
    /\ UNCHANGED page

\* Mutant of Navigate: the page is drawn before it is turned.
NavigateLate(k) ==
    /\ Clicked(k)
    /\ \/ message.page > 1 /\ page' = IF page > 1 THEN page - 1 ELSE page
       \/ /\ message.page < PageCount(listed)
          /\ page' = IF page < PageCount(listed) THEN page + 1 ELSE page
    /\ Redraw(k, page, selections)
    /\ UNCHANGED <<selections, meanwhile>>

\* Prev and Next are disabled at the ends of what was drawn; the view may have
\* been turned since, so the callback looks again.
Navigate(k) ==
    /\ Clicked(k)
    /\ \/ message.page > 1 /\ page' = IF page > 1 THEN page - 1 ELSE page
       \/ /\ message.page < PageCount(listed)
          /\ page' = IF page < PageCount(listed) THEN page + 1 ELSE page
    /\ Redraw(k, page', selections)
    /\ UNCHANGED <<selections, meanwhile>>

Cancel(k) ==
    /\ Clicked(k)
    /\ Edit(k, [Blank EXCEPT !.at = k])
    /\ UNCHANGED <<page, selections, meanwhile, excuses>>

Save(k) ==
    /\ Clicked(k)
    /\ callback' = [callback EXCEPT ![k].pc = "saving", ![k].ids = selections]
    /\ UNCHANGED <<page, selections, meanwhile, excuses>>

\* No click for 300 seconds: the buttons stay and are answered no more.
Expire ==
    /\ phase = "open"
    /\ phase' = "expired"
    /\ UNCHANGED <<listed, page, selections, callback, clicks, message, meanwhile,
                   excuses, faults>>

--------------------------------------------------------------------------------
(* What was awaited.                                                       *)

\* Mutant of Stored: the embed lists the page the member is on.
StoredPage(k) ==
    /\ callback[k].pc = "saving"
    /\ Edit(k, [Grid(page, selections \cap Page(listed, page), k) EXCEPT !.title = "saved", !.live = FALSE])
    /\ UNCHANGED <<listed, phase, page, selections, clicks, message, meanwhile,
                   excuses, faults>>

\* The PUT has returned.  The embed is drawn now, from what is selected now.
Stored(k) ==
    /\ callback[k].pc = "saving"
    /\ Edit(k, [Grid(page, selections, k) EXCEPT !.title = "saved", !.live = FALSE])
    /\ UNCHANGED <<listed, phase, page, selections, clicks, message, meanwhile,
                   excuses, faults>>

\* It has raised: a message of its own, or none; the editor stays.
NotStored(k) ==
    /\ callback[k].pc = "saving"
    /\ callback' = [callback EXCEPT ![k].pc = "over"]
    /\ UNCHANGED <<listed, phase, page, selections, clicks, message, meanwhile,
                   excuses, faults>>

\* An edit of a later click may have been faster.
Lands(k) ==
    /\ callback[k].pc = "editing"
    /\ callback' = [callback EXCEPT ![k].pc = "over"]
    /\ message' = callback[k].drawing
    /\ excuses' = IF message.at > k THEN excuses \cup {"overtaken"} ELSE excuses
    /\ UNCHANGED <<listed, phase, page, selections, clicks, meanwhile, faults>>

\* Discord does not answer, or too late for the interaction.
IsLost(k) ==
    /\ callback[k].pc = "editing"
    /\ faults < MaxFaults /\ faults' = faults + 1
    /\ callback' = [callback EXCEPT ![k].pc = "over"]
    /\ excuses' = excuses \cup {"lost"}
    /\ UNCHANGED <<listed, phase, page, selections, clicks, message, meanwhile>>

Next ==
    \/ Open \/ Expire
    \/ \E k \in Click : Toggle(k) \/ Navigate(k) \/ Cancel(k) \/ Save(k)
    \/ \E k \in Click : Stored(k) \/ NotStored(k) \/ Lands(k) \/ IsLost(k)

Spec == Init /\ [][Next]_vars

--------------------------------------------------------------------------------
(* Properties.                                                             *)

\* Once every edit has landed, the message shows the page and the selections
\* the next click works on, however fast the member has clicked; unless an edit
\* was lost, overtaken by an older one, or met a condition without a label.
ShownIsStaged ==
    message.live /\ excuses = {} /\ (\A k \in Click : callback[k].pc # "editing") =>
        message.page = page /\ message.marked = Known(selections)

\* "Preferences saved" lists what that Save has sent, from all pages; only what
\* was toggled while siege-web was awaited may be listed wrongly.
SavedIsListed ==
    \A k \in Click :
        message.title = "saved" /\ message.at = k =>
            Differ(message.marked, Known(callback[k].ids)) \subseteq meanwhile[k]

\* The pages of every catalog an editor may be opened with.
PagesOfCatalog == phase = "opening" => PagesInOrder(listed)
================================================================================
