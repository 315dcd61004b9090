--------------------------- MODULE MCSendRouting ---------------------------
(***************************************************************************)
(* Small deployments of SendRouting for TLC. The request is sent to i1,    *)
(* where c1 is connected; all others are, or connect, to i2. c2 is of the  *)
(* same device as c1.                                                      *)
(***************************************************************************)
EXTENDS SendRouting

CONSTANTS c1, c2, c3, c4, c5, c6, c7, d1, d3, d4, d5, d6, d7, u1, u2, i1, i2

DeviceOf == [c \in Conns |->
    CASE c \in {c1, c2} -> d1 [] c = c3 -> d3 [] c = c4 -> d4 [] c = c5 -> d5
      [] c = c6 -> d6 [] c = c7 -> d7]
UserOf == [c \in Conns |-> IF c \in {c1, c2, c3} THEN u1 ELSE u2]
BrokerOfConn == [c \in Conns |-> IF c = c1 THEN i1 ELSE i2]

\* While d1 moves from one broker to the other.
Moving(uids, names) ==
    [uids |-> uids, names |-> names, served |-> {c1, c3, c4},
     arriving |-> {c2}, leaving |-> {c1}]

\* To five devices of the other broker that stay connected.
Crowd == [uids |-> {}, names |-> {d3, d4, d5, d6, d7}, served |-> {c3, c4, c5, c6, c7},
          arriving |-> {}, leaving |-> {}]

\* A broadcast, a message to a user, one to a user and a device of another, and one to
\* a crowd.
AllKinds == {Moving({}, {}), Moving({u1}, {}), Moving({u1}, {d4}), Crowd}
OnlyCrowd == {Crowd}

NoStep == {}
=============================================================================
