----------------------------- MODULE PostConditions -----------------------------
(***************************************************************************)
(* What the two models of /post-conditions-set have in common: GridView,   *)
(* the view of one editor, and PreferenceEditor, its data.                 *)
(***************************************************************************)
EXTENDS Integers

CONSTANTS
    Condition,     \* the ids of post-conditions
    MaxFaults      \* bound: errors, lost answers, edits that fail

VARIABLE faults    \* faults spent, at most MaxFaults

\* What is in one set of conditions and not in the other.
Differ(a, b) == (a \ b) \cup (b \ a)
================================================================================
