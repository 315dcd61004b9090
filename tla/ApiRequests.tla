----------------------------- MODULE ApiRequests -----------------------------
(***************************************************************************)
(* The API of a cluster in service: a POST /send, or a GET /info of the    *)
(* cluster, while sessions come and go. The two only read what the         *)
(* sessions keep in Redis, so that one of them at a time is enough.        *)
(***************************************************************************)
EXTENDS SendRouting, ClusterInfo

ApiInit == SendInit /\ NothingAsked

ApiNext ==
    \/ SessionStep /\ asking # "done" /\ Note
    \/ RequestStep /\ asking = "idle" /\ UNCHANGED infoVars
    \/ InfoStep /\ at = "idle" /\ UNCHANGED sendVars

ApiSpec == ApiInit /\ [][ApiNext]_<<vars, sendVars, infoVars>>
=============================================================================
