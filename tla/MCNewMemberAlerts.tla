--------------------------- MODULE MCNewMemberAlerts ---------------------------
EXTENDS NewMemberAlerts, TLC

CONSTANTS o1, o2, t1, b1, b2

MCCommand(kind, officer) ==
    [kind |-> kind, officer |-> officer, title |-> t1, body |-> b1, enabled |-> TRUE,
     fields |-> {}, valid |-> TRUE, allowed |-> TRUE]

\* Of every kind, and one each with a wrong format and without permission.
MCAsked ==
    {MCCommand(k, o1) : k \in {"add", "remove", "list", "get", "on", "off"}}
      \cup {MCCommand("on", o2)}
      \cup {[MCCommand("update", o1) EXCEPT !.body = b2, !.enabled = FALSE, !.fields = f] :
              f \in {{"body"}, {"enabled"}, {"body", "enabled"}}}
      \cup {[MCCommand("add", o1) EXCEPT !.valid = FALSE], [MCCommand("on", o2) EXCEPT !.allowed = FALSE]}
\* Processes and interactions are interchangeable.
MCSymmetry == Permutations(Replica) \cup Permutations(Call)
================================================================================
