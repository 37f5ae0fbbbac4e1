----------------------------- MODULE DeliverySlots -----------------------------
(***************************************************************************)
(* What the idempotency tables promise to the rest of the bot: a slot (one *)
(* message on one date) is open, owned by the one replica that is          *)
(* delivering it, or closed for good.                                      *)
(***************************************************************************)
CONSTANTS Slot, Replica

VARIABLE state

Init == state = [s \in Slot |-> "open"]

\* p takes an open slot.
Acquire(p, s) ==
    /\ state[s] = "open"
    /\ state' = [state EXCEPT ![s] = p]

\* p gives its slot back for a later attempt.
Release(p, s) ==
    /\ state[s] = p
    /\ state' = [state EXCEPT ![s] = "open"]

\* p is done with its slot: delivered, refused, or p died.
Finish(p, s) ==
    /\ state[s] = p
    /\ state' = [state EXCEPT ![s] = "closed"]

\* Slots nobody owns are closed without an attempt.
Withdraw ==
    /\ state' \in [Slot -> {"open", "closed"} \cup Replica]
    /\ \A s \in Slot : \/ state'[s] = state[s]
                       \/ state[s] = "open" /\ state'[s] = "closed"

Next ==
    \/ \E p \in Replica, s \in Slot : Acquire(p, s) \/ Release(p, s) \/ Finish(p, s)
    \/ Withdraw

Spec == Init /\ [][Next]_state
================================================================================
