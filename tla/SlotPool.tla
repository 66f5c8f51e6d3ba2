------------------------------ MODULE SlotPool ------------------------------
(***************************************************************************)
(* What a counter of slots promises, without the counter: at most Limit    *)
(* clients hold a slot, a client takes one only while fewer hold one, and  *)
(* slots change hands one at a time.  Admission shows that the counters    *)
(* `active` and `active_large` of AdmitRequests implement this.            *)
(***************************************************************************)
EXTENDS Naturals, FiniteSets

CONSTANTS Clients, Limit

VARIABLE holders

Init == holders = {}

Take(c) == /\ c \notin holders
           /\ Cardinality(holders) < Limit
           /\ holders' = holders \cup {c}

Give(c) == /\ c \in holders
           /\ holders' = holders \ {c}

Next == \E c \in Clients : Take(c) \/ Give(c)

Spec == Init /\ [][Next]_holders

=============================================================================
