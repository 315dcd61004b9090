---------------------------- MODULE MCFrameCache ----------------------------
(***************************************************************************)
(* Small instances of FrameCache for TLC: a client that connects three     *)
(* times, the last time possibly as another user.                          *)
(***************************************************************************)
EXTENDS FrameCache

CONSTANTS c1, c2, c3, u1, u2, i1, i2

SameUser == [c \in Conns |-> u1]
ThenAnother == [c \in Conns |-> IF c = c3 THEN u2 ELSE u1]

OneBroker == [c \in Conns |-> i1]

\* The second request goes to the other broker.
ThereAndBack == [c \in Conns |-> IF c = c2 THEN i2 ELSE i1]
=============================================================================
