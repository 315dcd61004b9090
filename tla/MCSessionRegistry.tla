------------------------- MODULE MCSessionRegistry -------------------------
(***************************************************************************)
(* Small deployments of SessionRegistry for TLC. Each .cfg picks the       *)
(* requests, what each of them names, and which faults it considers.       *)
(***************************************************************************)
EXTENDS SessionRegistry, TLC

CONSTANTS c1, c2, c3, d1, d2, u1, u2, i1, i2, q1

\* Every request is one device's, one user's and one broker's.
OneDevice == [c \in Conns |-> d1]
OneUser == [c \in Conns |-> u1]
OneBroker == [c \in Conns |-> i1]

\* c2 names the second device, the second user or the second broker.
SecondDevice == [c \in Conns |-> IF c = c2 THEN d2 ELSE d1]
SecondUser == [c \in Conns |-> IF c = c2 THEN u2 ELSE u1]
SecondBroker == [c \in Conns |-> IF c = c2 THEN i2 ELSE i1]

ServingOnly == {"up"}
AnyStep == BrokerSteps

\* The requests of one device, user and broker are interchangeable.
SameRequests == Permutations(Conns)
=============================================================================
