--------------------------- MODULE MCEventDelivery ---------------------------
(* Instances of EventDelivery for TLC. *)
EXTENDS EventDelivery

CONSTANTS k1, k2, l1, l2, e1, e2, e3

\* k1 makes l1, k2 makes l2.
OneEach == [l \in Listeners |-> IF l = l2 THEN k2 ELSE k1]

\* l1 is for the events with the id of e2, l2 for all.
HearsSome == [l \in Listeners |-> IF l = l1 THEN Events \ {e1} ELSE Events]

\* Every payload fits, as the server's buffer is as large as a slot.
SmallEvents == [e \in Events |-> 1]
=============================================================================
