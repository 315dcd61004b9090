----------------------------- MODULE ClusterInfo -----------------------------
(***************************************************************************)
(* A GET /info of the cluster: getClusterInfo reads the set of brokers and *)
(* then the hash of one broker after the other, while the sessions of      *)
(* SessionRegistry come and go and the brokers stay up.                    *)
(***************************************************************************)
EXTENDS SessionRegistry

VARIABLES
    asking,     \* where the GET /info of the cluster is
    unread,     \* the brokers it has yet to read
    answer,     \* the device count it has added up
    throughout, \* history: the sessions that were registered all the while
    meanwhile   \* history: those that were registered at some moment of it

infoVars == <<asking, unread, answer, throughout, meanwhile>>

\* getInstanceInfo: a hash without a version is no broker
InstanceOnline(i) == i \in versioned

\* getClusterInfo: SMEMBERS of the brokers
AskCluster ==
    /\ asking = "idle"
    /\ unread' = cluster
    /\ throughout' = {c \in Conns : Registered(c)}
    /\ meanwhile' = {c \in Conns : Registered(c)}
    /\ asking' = "reading"
    /\ UNCHANGED answer

CountOf(i) == IF InstanceOnline(i) THEN deviceCount[i] ELSE 0

\* Mutant: the last broker's count is the answer.
Overwritten(i) == CountOf(i)

Added(i) == answer + CountOf(i)

\* getRedisInstance; the reading broker exits when it fails
ReadInstance(i) ==
    /\ asking = "reading" /\ i \in unread
    /\ unread' = unread \ {i}
    /\ answer' = Added(i)
    /\ UNCHANGED <<asking, throughout, meanwhile>>

Answered ==
    /\ asking = "reading" /\ unread = {}
    /\ asking' = "done"
    /\ UNCHANGED <<unread, answer, throughout, meanwhile>>

NothingAsked ==
    /\ asking = "idle" /\ unread = {} /\ answer = 0
    /\ throughout = {} /\ meanwhile = {}

\* What a step of the registry does to the history of an open question.
Note ==
    /\ UNCHANGED <<asking, unread, answer>>
    /\ IF asking = "reading"
         THEN /\ throughout' = {c \in throughout : Registered(c)'}
              /\ meanwhile' = meanwhile \cup {c \in Conns : Registered(c)'}
         ELSE UNCHANGED <<throughout, meanwhile>>

InfoStep ==
    /\ AskCluster \/ Answered \/ \E i \in Instances : ReadInstance(i)
    /\ UNCHANGED vars

------------------------------------------------------------------------------
\* A cluster read broker by broker, while sessions move between them, still counts every
\* session that was registered all the while, none twice, and nothing but sessions that
\* were registered at some moment of it (getClusterInfo, getInstanceInfo, addDevice,
\* delDevice).
CountInBounds ==
    asking = "done" => /\ Cardinality(throughout) <= answer
                       /\ answer <= Cardinality(meanwhile)

=============================================================================
