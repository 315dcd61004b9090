--------------------------- MODULE ClusterInfoProofs ---------------------------
(***************************************************************************)
(* Proofs about ClusterInfo within ApiRequests: a GET /info of the cluster *)
(* counts right, for any number of sessions, devices, users and brokers,   *)
(* while these brokers stay up.                                            *)
(***************************************************************************)
EXTENDS ApiRequests, RegistryBooksProofs

\* The brokers neither crash nor are they stopped.
BrokersStay == Crashable = {} /\ Stoppable = {}

\* All brokers serve.
AllUp == \A i \in Instances : pc[i] = "up"

\* What a GET /info has counted lies between the sessions of the brokers it has read that
\* were registered all the while, and those that were registered at some moment.
ReadOf(S) == {c \in S : instanceOf[c] \notin unread}

\* The inductive invariant.
InfoInv ==
    /\ TypeOK /\ BooksInv /\ AllUp
    /\ asking \in {"idle", "reading", "done"}
    /\ throughout \subseteq Conns /\ meanwhile \subseteq Conns /\ unread \subseteq Instances
    /\ answer \in Int
    /\ asking = "idle" => answer = 0
    /\ asking = "reading" =>
         /\ throughout \subseteq {c \in Conns : Registered(c)}
         /\ {c \in Conns : Registered(c)} \subseteq meanwhile
         /\ Cardinality(ReadOf(throughout)) <= answer
         /\ answer <= Cardinality(ReadOf(meanwhile))
    /\ CountInBounds

\* Any set of sessions is finite.
LEMMA ConnSets ==
    ASSUME NEW S, S \subseteq Conns
    PROVE  IsFiniteSet(S) /\ Cardinality(S) \in Nat
<1>1. S \in SUBSET Conns
  OBVIOUS
<1>2. IsFiniteSet(S)
  BY <1>1, ConnsFinite, FS_Subset
<1> QED
  BY <1>2, FS_CardinalityType

\* Of two sets of sessions the greater has no fewer.
LEMMA MoreConns ==
    ASSUME NEW T, T \subseteq Conns, NEW S, S \subseteq T
    PROVE  Cardinality(S) <= Cardinality(T)
BY ConnSets, FS_Subset

\* Two sets that are disjoint add up.
LEMMA DisjointConns ==
    ASSUME NEW S, S \subseteq Conns, NEW T, T \subseteq Conns, S \cap T = {}
    PROVE  Cardinality(S \cup T) = Cardinality(S) + Cardinality(T)
<1>1. /\ IsFiniteSet(S) /\ Cardinality(S) \in Nat
      /\ IsFiniteSet(T) /\ Cardinality(T) \in Nat
  BY ConnSets
<1>2. Cardinality(S \cup T) = Cardinality(S) + Cardinality(T) - Cardinality(S \cap T)
  BY <1>1, FS_Union
<1>3. Cardinality(S \cap T) = 0
  BY FS_EmptySet
<1> QED
  BY <1>1, <1>2, <1>3

\* Devices that have one session each are as many as these.
LEMMA OneDeviceEach ==
    ASSUME NEW S, S \subseteq Conns, \A c, e \in S : deviceOf[c] = deviceOf[e] => c = e
    PROVE  LET D == {deviceOf[c] : c \in S} IN
           IsFiniteSet(D) /\ Cardinality(D) = Cardinality(S)
<1> DEFINE D == {deviceOf[c] : c \in S}
           f == [c \in S |-> deviceOf[c]]
<1>1. f \in Surjection(S, D) /\ f \in Injection(S, D)
  BY DEF Surjection, Injection, IsInjective
<1>2. IsFiniteSet(S)
  BY ConnSets
<1> HIDE DEF D, f
<1>3. /\ IsFiniteSet(D)
      /\ Cardinality(D) = Cardinality(S) <=> f \in Injection(S, D)
  BY <1>1, <1>2, FS_Surjection
<1>4. IsFiniteSet(D) /\ Cardinality(D) = Cardinality(S)
  BY <1>1, <1>3
<1> QED
  BY <1>4 DEF D

\* A cluster in service has its books in order.
LEMMA ServedInService ==
    ASSUME NEW served, served \subseteq Conns, ServedInit(served),
           \A c, e \in served : deviceOf[c] = deviceOf[e] => c = e
    PROVE  TypeOK /\ BooksInv /\ AllUp
<1> DEFINE On(i, d) == {c \in served : instanceOf[c] = i /\ deviceOf[c] = d}
           At(i) == {c \in served : instanceOf[c] = i}
<1> USE ConstantsAssumption DEF ConstantsAssumption
<1>1. /\ pc = [a \in Actors |-> IF a \in Instances THEN "up"
                                 ELSE IF a \in served THEN "live" ELSE "idle"]
      /\ devices = [i \in Instances |-> [d \in Devices |->
                      IF On(i, d) = {} THEN None ELSE CHOOSE c \in On(i, d) : TRUE]]
      /\ instSet = [i \in Instances |-> {d \in Devices : On(i, d) # {}}]
      /\ deviceCount = [i \in Instances |-> Cardinality(instSet[i])]
      /\ versioned = Instances /\ cluster = Instances
      /\ deviceKeys = UNION {instSet[i] : i \in Instances}
      /\ deviceHash = [d \in Devices |-> IF d \in deviceKeys
            THEN LET c == CHOOSE c \in served : deviceOf[c] = d
                 IN [uid |-> uidOf[c], instance |-> instanceOf[c]]
            ELSE NoHash]
  BY DEF ServedInit
<1>2. /\ userSet = [u \in UserKeys |-> {deviceOf[c] : c \in SessionsOf(u) \cap served}]
      /\ onlineUsers = {uidOf[c] : c \in served}
      /\ userEvent = [u \in UserKeys |-> IF u \in onlineUsers THEN "online" ELSE "none"]
      /\ deviceEvent = [d \in Devices |-> IF d \in deviceKeys THEN "online" ELSE "none"]
      /\ device = [a \in Actors |-> IF a \in Conns THEN [id |-> deviceOf[a], uid |-> uidOf[a]]
                                     ELSE [id |-> None, uid |-> None]]
      /\ seen = [a \in Actors |-> {}] /\ empty = [a \in Actors |-> FALSE]
      /\ todo = [i \in Instances |-> {}] /\ pass = [i \in Instances |-> 2]
      /\ leaked = {}
  BY DEF ServedInit
<1>3. /\ \A c \in Conns : pc[c] = IF c \in served THEN "live" ELSE "idle"
      /\ \A i \in Instances : pc[i] = "up"
      /\ \A q \in Queries : pc[q] = "idle"
      /\ pc \in [Actors -> {"up", "live", "idle"}]
  BY <1>1 DEF Actors
<1>4. \A i \in Instances : At(i) \subseteq Conns /\ RegisteredAt(i) = At(i)
  BY <1>3 DEF RegisteredAt, Registered, AfterUserTx
<1>5. \A i \in Instances : instSet[i] = {deviceOf[c] : c \in At(i)}
  BY <1>1
<1>6. \A i \in Instances : IsFiniteSet(instSet[i]) /\ Cardinality(instSet[i]) = Cardinality(At(i))
  <2> TAKE i \in Instances
  <2>1. \A c, e \in At(i) : deviceOf[c] = deviceOf[e] => c = e
    OBVIOUS
  <2>2. At(i) \subseteq Conns /\ instSet[i] = {deviceOf[c] : c \in At(i)}
    BY <1>5
  <2> DEFINE A == At(i)
  <2>3. A \subseteq Conns /\ \A c, e \in A : deviceOf[c] = deviceOf[e] => c = e
    BY <2>1, <2>2
  <2> HIDE DEF A
  <2>4. LET D == {deviceOf[c] : c \in A} IN IsFiniteSet(D) /\ Cardinality(D) = Cardinality(A)
    BY <2>3, OneDeviceEach
  <2> QED
    BY <2>2, <2>4 DEF A
<1>7. /\ deviceCount \in [Instances -> Int]
      /\ \A i \in Instances : deviceCount[i] = Cardinality(At(i))
  <2>1. \A i \in Instances : Cardinality(At(i)) \in Nat
    BY <1>4, ConnSets
  <2>2. deviceCount = [i \in Instances |-> Cardinality(instSet[i])]
    BY <1>1
  <2> HIDE DEF At
  <2>3. \A i \in Instances : Cardinality(instSet[i]) = Cardinality(At(i))
    BY <1>6
  <2>4. \A i \in Instances : Cardinality(instSet[i]) \in Int
    BY <2>1, <2>3
  <2> QED
    BY <2>2, <2>3, <2>4
<1>8. deviceKeys = {deviceOf[c] : c \in served}
  BY <1>1, <1>5
<1>9. devices \in [Instances -> [Devices -> Conns \cup {None}]]
      /\ \A i \in Instances, d \in Devices : devices[i][d] # None => devices[i][d] \in On(i, d)
  BY <1>1
<1>10. TypeOK
  <2>1. deviceHash \in [Devices -> [uid : UserKeys, instance : Instances \cup {None}]]
    <3>1. \A d \in deviceKeys : (CHOOSE c \in served : deviceOf[c] = d) \in Conns
      BY <1>8
    <3> QED
      BY <1>1, <3>1 DEF NoHash, UserKeys
  <2>2. /\ deviceKeys \subseteq Devices /\ instSet \in [Instances -> SUBSET Devices]
        /\ userSet \in [UserKeys -> SUBSET Devices] /\ onlineUsers \subseteq Users
    BY <1>1, <1>2, <1>8 DEF SessionsOf
  <2>3. /\ device \in [Actors -> [id : Devices \cup {None}, uid : UserKeys]]
        /\ seen \in [Actors -> SUBSET Devices] /\ empty \in [Actors -> BOOLEAN]
        /\ todo \in [Instances -> SUBSET Devices] /\ pass \in [Instances -> {1, 2}]
        /\ userEvent \in [UserKeys -> {"none", "online", "offline"}]
        /\ deviceEvent \in [Devices -> {"none", "online", "offline"}]
        /\ \A i \in Instances : todo[i] = {}
    BY <1>2 DEF UserKeys
  <2>4. /\ pc \in [Actors -> ConnSteps \cup BrokerSteps \cup QuerySteps]
        /\ \A c \in Conns : pc[c] \in ConnSteps
        /\ \A i \in Instances : pc[i] \in BrokerSteps
        /\ \A q \in Queries : pc[q] \in QuerySteps
    BY <1>3 DEF ConnSteps, BrokerSteps, QuerySteps, AfterUserTx
  <2> QED
    BY <1>1, <1>2, <1>7, <1>9, <2>1, <2>2, <2>3, <2>4 DEF TypeOK
<1>11. OwnDevice /\ Served /\ SetEmptied
  BY <1>2, <1>3
  DEF OwnDevice, Served, SetEmptied, Listening, Actors, OfflineSteps, BeforeUserTxOff,
      AfterUserTxOff
<1>12. DeviceCountExact
  BY <1>1, <1>4, <1>7 DEF DeviceCountExact
<1>13. InstanceSetAccurate
  BY <1>4, <1>5 DEF InstanceSetAccurate
<1>14. LocalMapSound
  <2>1. \A c \in served : Registered(c) /\ pc[c] # "delTx"
    BY <1>3 DEF Registered, AfterUserTx
  <2> QED
    BY <1>9, <2>1 DEF LocalMapSound
<1>15. LastDeviceEventJustified
  <2>1. \A c \in served : Registered(c)
    BY <1>3 DEF Registered, AfterUserTx
  <2> QED
    BY <1>2, <1>8, <2>1 DEF LastDeviceEventJustified
<1> QED
  BY <1>3, <1>10, <1>11, <1>12, <1>13, <1>14, <1>15 DEF BooksInv, AllUp

\* Nothing has been asked at first.
LEMMA InitInfo == ApiInit => InfoInv
<1> SUFFICES ASSUME ApiInit PROVE InfoInv
  OBVIOUS
<1>1. params \in Requests /\ ServedInit(params.served)
  BY DEF ApiInit, SendInit
<1>2. params.served \subseteq Conns /\ \A c, e \in params.served :
                                       deviceOf[c] = deviceOf[e] => c = e
  BY <1>1, SendAssumption DEF SendAssumption
<1> QED
  BY <1>1, <1>2, ServedInService DEF ApiInit, NothingAsked, InfoInv, CountInBounds

\* A broker that is up stays so.
LEMMA BrokersStayUp ==
    ASSUME BrokersStay, TypeOK, AllUp, Next
    PROVE  AllUp'
<1> SUFFICES ASSUME NEW i \in Instances PROVE pc'[i] = "up"
  BY DEF AllUp
<1>1. /\ i \in Actors /\ i \notin Conns \cup Queries /\ pc[i] = "up"
      /\ Conns \cup Queries \subseteq Actors
  BY ConstantsAssumption DEF ConstantsAssumption, Actors, AllUp
<1>2. ASSUME NEW c \in Conns, ConnStep(c) PROVE pc'[i] = "up"
  BY <1>1, <1>2, ConnMoves
<1>3. ASSUME NEW j \in Instances, BrokerStep(j) \/ Exit(j) PROVE FALSE
  <2>1. pc[j] = "up" /\ j \notin Conns
    BY ConstantsAssumption DEF ConstantsAssumption, AllUp
  <2> QED
    BY <1>3, <2>1
    DEF BrokersStay, BrokerStep, GoOffline, DelLocal, DelDeviceTx, DispatchDeviceOffline,
        UserOfflineTx, CheckOffline, PruneOffline, UserOff, DispatchUserOffline, RedisError,
        ConnSteps, BeforeUserTx, AfterUserTx, OfflineSteps, BeforeUserTxOff, AfterUserTxOff,
        Boot, ClearTx, ClearDevice, ClearSkip, ClearDone, StartTx, Dispose, Exit
<1>4. ASSUME NEW q \in Queries, Query(q) PROVE pc'[i] = "up"
  <2>1. \E step \in QuerySteps : pc' = [pc EXCEPT ![q] = step]
    BY <1>4 DEF Query, QueryUser, CheckInfo, PruneInfo, Validate, PruneStale, Goto, QuerySteps
  <2> QED
    BY <1>1, <2>1 DEF TypeOK
<1>5. ASSUME NEW d \in Devices, DeviceKeyExpires(d) PROVE pc'[i] = "up"
  BY <1>1, <1>5 DEF DeviceKeyExpires
<1>6. ASSUME NEW u \in Users, UserSetExpires(u) PROVE pc'[i] = "up"
  BY <1>1, <1>6 DEF UserSetExpires
<1> QED
  BY <1>2, <1>3, <1>4, <1>5, <1>6 DEF Next, ConnStep, BrokerStep

\* Reading changes nothing on the books.
LEMMA UnchangedBooks ==
    ASSUME TypeOK, BooksInv, AllUp, UNCHANGED vars
    PROVE  TypeOK' /\ BooksInv' /\ AllUp'
<1>1. TypeOK' /\ BooksInv'
  BY NextTypeOK, NextBooks
<1>2. AllUp'
  BY DEF AllUp, vars
<1> QED
  BY <1>1, <1>2

\* A step of the sessions keeps what is known of an open question.
LEMMA SessionsInfo ==
    ASSUME BrokersStay, InfoInv, Next, asking # "done", Note
    PROVE  InfoInv'
<1>1. TypeOK' /\ BooksInv' /\ AllUp'
  BY NextTypeOK, NextBooks, BrokersStayUp DEF InfoInv
<1>2. UNCHANGED <<asking, unread, answer>>
  BY DEF Note
<1>3. CASE asking = "reading"
  <2>1. /\ throughout' = {c \in throughout : Registered(c)'}
        /\ meanwhile' = meanwhile \cup {c \in Conns : Registered(c)'}
    BY <1>3 DEF Note
  <2>2. /\ throughout \subseteq Conns /\ meanwhile \subseteq Conns
        /\ unread \subseteq Instances /\ answer \in Int
        /\ Cardinality(ReadOf(throughout)) <= answer
        /\ answer <= Cardinality(ReadOf(meanwhile))
    BY <1>3 DEF InfoInv
  <2>3. /\ throughout' \subseteq {c \in Conns : Registered(c)'}
        /\ {c \in Conns : Registered(c)'} \subseteq meanwhile'
        /\ throughout' \subseteq throughout /\ meanwhile \subseteq meanwhile'
        /\ meanwhile' \subseteq Conns
    BY <2>1, <2>2
  <2>4. /\ ReadOf(throughout)' \subseteq ReadOf(throughout) /\ ReadOf(throughout) \subseteq Conns
        /\ ReadOf(meanwhile) \subseteq ReadOf(meanwhile)' /\ ReadOf(meanwhile)' \subseteq Conns
    BY <1>2, <2>2, <2>3 DEF ReadOf
  <2>5. /\ Cardinality(ReadOf(throughout)') <= Cardinality(ReadOf(throughout))
        /\ Cardinality(ReadOf(meanwhile)) <= Cardinality(ReadOf(meanwhile)')
    BY <2>4, MoreConns
  <2>6. /\ Cardinality(ReadOf(throughout)') \in Nat /\ Cardinality(ReadOf(throughout)) \in Nat
        /\ Cardinality(ReadOf(meanwhile)') \in Nat /\ Cardinality(ReadOf(meanwhile)) \in Nat
    <3>1. ReadOf(throughout)' \subseteq Conns /\ ReadOf(meanwhile) \subseteq Conns
      BY <2>4
    <3> QED
      BY <2>4, <3>1, ConnSets
  <2>7. /\ Cardinality(ReadOf(throughout)') <= answer'
        /\ answer' <= Cardinality(ReadOf(meanwhile)')
    BY <1>2, <2>2, <2>5, <2>6
  <2> QED
    BY <1>1, <1>2, <1>3, <2>2, <2>3, <2>7 DEF InfoInv, CountInBounds
<1>4. CASE asking = "idle"
  BY <1>1, <1>2, <1>4 DEF InfoInv, Note, CountInBounds
<1> QED
  BY <1>3, <1>4 DEF InfoInv

\* The broker whose hash is read has counted its sessions, and only them.
LEMMA CountedAt ==
    ASSUME TypeOK, BooksInv, AllUp, NEW i \in Instances
    PROVE  CountOf(i) = Cardinality(RegisteredAt(i))
BY DEF BooksInv, DeviceCountExact, AllUp, CountOf, InstanceOnline

\* Asking begins with all brokers to read; so none of the sessions counts yet.
LEMMA AskInfo ==
    ASSUME InfoInv, AskCluster, UNCHANGED vars
    PROVE  InfoInv'
<1>1. TypeOK' /\ BooksInv' /\ AllUp'
  BY UnchangedBooks DEF InfoInv
<1>2. asking = "idle" /\ answer = 0
  BY DEF AskCluster, InfoInv
<1>3. unread' = Instances /\ unread' \subseteq Instances
  BY DEF AskCluster, InfoInv, BooksInv, DeviceCountExact, AllUp, TypeOK
<1>4. /\ throughout' = {c \in Conns : Registered(c)} /\ meanwhile' = throughout'
      /\ asking' = "reading" /\ answer' = 0
  BY <1>2 DEF AskCluster
<1>5. \A c \in Conns : Registered(c)' <=> Registered(c)
  BY DEF vars, Registered
<1>6. ReadOf(throughout)' = {} /\ ReadOf(meanwhile)' = {}
  BY <1>3, <1>4, ConstantsAssumption DEF ConstantsAssumption, ReadOf
<1>7. Cardinality(ReadOf(throughout)') = 0 /\ Cardinality(ReadOf(meanwhile)') = 0
  BY <1>6, FS_EmptySet
<1> QED
  BY <1>1, <1>3, <1>4, <1>5, <1>7 DEF InfoInv, CountInBounds

\* A broker adds as many as are registered with it when it is read.
LEMMA ReadInfo ==
    ASSUME InfoInv, NEW i \in Instances, ReadInstance(i), UNCHANGED vars
    PROVE  InfoInv'
<1> DEFINE At == RegisteredAt(i)
           Some == {c \in throughout : instanceOf[c] = i}
<1>1. TypeOK' /\ BooksInv' /\ AllUp'
  BY UnchangedBooks DEF InfoInv
<1>2. /\ asking = "reading" /\ i \in unread /\ unread' = unread \ {i}
      /\ answer' = answer + CountOf(i)
      /\ UNCHANGED <<asking, throughout, meanwhile>>
  BY DEF ReadInstance, Added
<1>3. /\ throughout \subseteq {c \in Conns : Registered(c)}
      /\ {c \in Conns : Registered(c)} \subseteq meanwhile
      /\ meanwhile \subseteq Conns /\ unread \subseteq Instances /\ answer \in Int
      /\ Cardinality(ReadOf(throughout)) <= answer
      /\ answer <= Cardinality(ReadOf(meanwhile))
  BY <1>2 DEF InfoInv
<1>4. CountOf(i) = Cardinality(At)
  BY CountedAt DEF InfoInv
<1>5. /\ At \subseteq Conns /\ Some \subseteq At
      /\ ReadOf(throughout) \subseteq Conns /\ ReadOf(meanwhile) \subseteq Conns
      /\ ReadOf(throughout)' = ReadOf(throughout) \cup Some
      /\ ReadOf(throughout) \cap Some = {}
      /\ ReadOf(meanwhile) \cup At \subseteq ReadOf(meanwhile)'
      /\ ReadOf(meanwhile)' \subseteq Conns
      /\ ReadOf(meanwhile) \cap At = {}
  BY <1>2, <1>3 DEF ReadOf, RegisteredAt
<1> HIDE DEF At, Some
<1>6. Some \subseteq Conns /\ ReadOf(meanwhile) \cup At \subseteq Conns
  BY <1>5
<1>7. Cardinality(ReadOf(throughout)') = Cardinality(ReadOf(throughout)) + Cardinality(Some)
  BY <1>5, <1>6, DisjointConns
<1>8. Cardinality(ReadOf(meanwhile) \cup At) = Cardinality(ReadOf(meanwhile)) + Cardinality(At)
  BY <1>5, DisjointConns
<1>9. /\ Cardinality(Some) <= Cardinality(At)
      /\ Cardinality(ReadOf(meanwhile) \cup At) <= Cardinality(ReadOf(meanwhile)')
  BY <1>5, MoreConns
<1>10. /\ Cardinality(ReadOf(throughout)) \in Nat /\ Cardinality(ReadOf(meanwhile)) \in Nat
       /\ Cardinality(Some) \in Nat /\ Cardinality(At) \in Nat
       /\ Cardinality(ReadOf(meanwhile)') \in Nat
  BY <1>5, <1>6, ConnSets
<1>11. /\ answer' \in Int
       /\ Cardinality(ReadOf(throughout)') <= answer'
       /\ answer' <= Cardinality(ReadOf(meanwhile)')
  BY <1>2, <1>3, <1>4, <1>7, <1>8, <1>9, <1>10
<1>12. \A c \in Conns : Registered(c)' <=> Registered(c)
  BY DEF vars, Registered
<1>13. /\ throughout' \subseteq {c \in Conns : Registered(c)'}
       /\ {c \in Conns : Registered(c)'} \subseteq meanwhile'
       /\ throughout' \subseteq Conns /\ meanwhile' \subseteq Conns
       /\ unread' \subseteq Instances
  BY <1>2, <1>3, <1>12
<1> QED
  BY <1>1, <1>2, <1>11, <1>13 DEF InfoInv, CountInBounds

\* When no broker is left to read, all sessions in question have been.
LEMMA AnsweredInfo ==
    ASSUME InfoInv, Answered, UNCHANGED vars
    PROVE  InfoInv'
<1>1. TypeOK' /\ BooksInv' /\ AllUp'
  BY UnchangedBooks DEF InfoInv
<1>2. ReadOf(throughout) = throughout /\ ReadOf(meanwhile) = meanwhile
  BY DEF Answered, ReadOf
<1> QED
  BY <1>1, <1>2 DEF InfoInv, CountInBounds, Answered

\* And each step of the cluster in service keeps it all.
LEMMA NextInfo ==
    ASSUME BrokersStay, InfoInv, [ApiNext]_<<vars, sendVars, infoVars>>
    PROVE  InfoInv'
<1>1. CASE UNCHANGED <<vars, infoVars>>
  BY <1>1, UnchangedBooks DEF InfoInv, infoVars, ReadOf, CountInBounds, vars, Registered
<1>2. CASE SessionStep /\ asking # "done" /\ Note
  BY <1>2, SessionsInfo DEF SessionStep
<1>3. CASE RequestStep /\ asking = "idle" /\ UNCHANGED infoVars
  BY <1>1, <1>3 DEF RequestStep
<1>4. CASE InfoStep /\ at = "idle" /\ UNCHANGED sendVars
  BY <1>4, AskInfo, ReadInfo, AnsweredInfo DEF InfoStep
<1> QED
  BY <1>1, <1>2, <1>3, <1>4 DEF ApiNext

\* The invariant of the cluster in service while a GET /info reads it.
THEOREM InfoInvariant == ASSUME BrokersStay PROVE ApiSpec => []InfoInv
<1>1. InfoInv /\ [ApiNext]_<<vars, sendVars, infoVars>> => InfoInv'
  BY NextInfo
<1> QED
  BY InitInfo, <1>1, PTL DEF ApiSpec

\* A GET /info read broker by broker, while sessions come, go and move between brokers,
\* counts every session that was registered all the while, none twice, and none that
\* never was (getClusterInfo, getInstanceInfo, addDevice, delDevice).
THEOREM InfoCountsRight == ASSUME BrokersStay PROVE ApiSpec => []CountInBounds
BY InfoInvariant, PTL DEF InfoInv
=============================================================================
