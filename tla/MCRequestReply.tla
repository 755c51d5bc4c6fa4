--------------------------- MODULE MCRequestReply ---------------------------
(* Instances of RequestReply for TLC. *)
EXTENDS RequestReply

CONSTANTS k1, k2, a, b, d, e

\* Which client makes which call: k2 makes d, k1 the others.
AllOfK1 == [c \in Calls |-> k1]
DOfK2 == [c \in Calls |-> IF c = d THEN k2 ELSE k1]

\* A frame without arguments takes 16 bytes, that of a takes 4 more.  The
\* arguments of b do not fit a frame of 20 bytes.
SmallFrames == [c \in Calls |-> IF c = a THEN 20 ELSE 16]
FramesWithABigOne == [c \in Calls |-> CASE c = a -> 20 [] c = b -> 46 [] OTHER -> 16]
=============================================================================
