------------------------------ MODULE MCSidecarApi ------------------------------
EXTENDS SidecarApi, TLC

CONSTANTS m1, m2, ch, n1, n2

MCAsk(kind, target) ==
    [kind |-> kind, target |-> target, name |-> n1, token |-> "right", body |-> "ok"]

\* Of every kind, and with each defect of the header or the body.
MCAsked ==
    {MCAsk(k, Nothing) : k \in {"public", "members", "notify", "post_message", "post_image"}}
      \cup {MCAsk("member", m1)}
      \cup {[MCAsk("notify", Nothing) EXCEPT !.token = t] : t \in {"none", "wrong"}}
      \cup {[MCAsk("notify", Nothing) EXCEPT !.body = b] : b \in {"broken", "incomplete"}}
================================================================================
