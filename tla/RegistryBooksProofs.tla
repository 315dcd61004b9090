------------------------- MODULE RegistryBooksProofs -------------------------
(***************************************************************************)
(* Proofs about the books that SessionRegistry's brokers keep of their     *)
(* sessions: the Devices map, the device set, the device_count, and the    *)
(* events of the devices, for any number of requests, devices, users and   *)
(* brokers, and whatever fails.                                            *)
(***************************************************************************)
EXTENDS SessionRegistryProofs, FiniteSetTheorems

\* Only a broker that listens serves: no session goes on after its broker's exit.
Served ==
    \A c \in Conns : pc[c] \notin {"idle", "done", "crashed"} => Listening(instanceOf[c])

\* From clear's transaction to start's the broker's set stays empty.
SetEmptied ==
    \A i \in Instances :
        pc[i] \in {"clearing", "reclear", "starting"} \cup OfflineSteps => instSet[i] = {}

\* The inductive invariant, on top of TypeOK.
BooksInv ==
    /\ OwnDevice /\ Served /\ SetEmptied
    /\ DeviceCountExact /\ InstanceSetAccurate /\ LocalMapSound /\ LastDeviceEventJustified

\* Its device is in the broker's map; it has taken its device out of the broker's set;
\* it accounts for its device having been announced online.
Mapped(c) == pc[c] = "addTx" \/ (Registered(c) /\ pc[c] # "delTx")
TakenOut(c) == pc[c] \in (OfflineSteps \ {"delLocal", "delTx"}) \cup {"done"}
Announced(c) == Registered(c) \/ pc[c] = "pubOffline" \/ Lost(c)

\* What a connection's goroutine does.
ConnStep(c) ==
    NewDevice(c) \/ GoOnline(c) \/ Heartbeat(c) \/ Leave(c) \/ GoOffline(c) \/ RedisError(c)

\* What a broker does short of its exit.
BrokerStep(i) == GoOffline(i) \/ RedisError(i) \/ Boot(i) \/ Dispose(i)

\* The initial state has nothing on its books.
LEMMA InitBooks == Init => BooksInv
<1> SUFFICES ASSUME Init PROVE BooksInv
  OBVIOUS
<1> USE ConstantsAssumption DEF ConstantsAssumption, Init, Actors
<1>1. OwnDevice /\ Served /\ LocalMapSound
  BY DEF OwnDevice, Served, LocalMapSound
<1>2. SetEmptied /\ LastDeviceEventJustified
  BY DEF SetEmptied, LastDeviceEventJustified
<1>3. DeviceCountExact /\ InstanceSetAccurate
  BY DEF DeviceCountExact, InstanceSetAccurate
<1> QED
  BY <1>1, <1>2, <1>3 DEF BooksInv

\* A goroutine moves nobody but itself and is neither born before its broker listens
\* nor goes on when it is over; the list of brokers is not its business.
LEMMA ConnMoves ==
    ASSUME TypeOK, NEW c \in Conns, ConnStep(c)
    PROVE  /\ \A a \in Actors \ {c} : pc'[a] = pc[a]
           /\ \A e \in Conns : device'[e] = device[e]
           /\ leaked \subseteq leaked'
           /\ pc[c] \notin {"done", "crashed"} /\ pc'[c] \notin {"idle", "crashed"}
           /\ pc[c] = "idle" => Listening(instanceOf[c])
           /\ UNCHANGED <<cluster, versioned>>
<1> USE DEF TypeOK, Goto, Actors, redisVars, instanceKey
<1>1. CASE NewDevice(c) \/ Heartbeat(c) \/ Leave(c)
  BY <1>1 DEF NewDevice, Heartbeat, Leave
<1>2. CASE GoOnline(c)
  BY <1>2 DEF GoOnline, AddLocal, AddDeviceTx, DispatchDeviceOnline, UserOnlineTx,
     CheckOnline, Validate, PruneOnline, PruneStale, UserOn, DispatchUserOnline
<1>3. CASE GoOffline(c)
  BY <1>3 DEF GoOffline, DelLocal, DelDeviceTx, DispatchDeviceOffline, UserOfflineTx,
     CheckOffline, Validate, PruneOffline, PruneStale, UserOff, DispatchUserOffline,
     AfterOffline
<1>4. CASE RedisError(c)
  <2>1. pc[c] \in ConnSteps \ {"store", "addTx", "live", "delLocal", "delTx", "done", "crashed"}
    BY <1>4 DEF RedisError
  <2>2. OnError(c) \notin {"idle", "crashed"}
    BY <2>1 DEF OnError, ConnSteps, BeforeUserTx, AfterUserTx, BeforeUserTxOff, AfterUserTxOff,
       OfflineSteps, AfterOffline
  <2> QED
    BY <1>4, <2>1, <2>2 DEF RedisError, BrokerOf
<1> QED
  BY <1>1, <1>2, <1>3, <1>4 DEF ConnStep

\* addDevice's transaction and delDevice's are the only steps of a goroutine by which it
\* becomes, or stops being, registered, or that touch its broker's set and count.
LEMMA ConnCounts ==
    ASSUME TypeOK, OwnDevice, NEW c \in Conns, ConnStep(c)
    PROVE  \/ /\ pc[c] = "addTx" /\ pc'[c] = "pubOnline"
              /\ instSet' = [instSet EXCEPT ![instanceOf[c]] = @ \cup {deviceOf[c]}]
              /\ deviceCount' = [deviceCount EXCEPT ![instanceOf[c]] = @ + 1]
           \/ /\ pc[c] = "delTx" /\ pc'[c] = "pubOffline"
              /\ instSet' = [instSet EXCEPT ![instanceOf[c]] = @ \ {deviceOf[c]}]
              /\ deviceCount' = [deviceCount EXCEPT ![instanceOf[c]] = @ - 1]
           \/ /\ Registered(c)' <=> Registered(c)
              /\ TakenOut(c) => TakenOut(c)'
              /\ UNCHANGED <<instSet, deviceCount>>
<1> USE DEF TypeOK, Goto, Actors, redisVars, instanceKey, Registered, TakenOut, AfterUserTx,
        BeforeUserTxOff, AfterUserTxOff, OfflineSteps, AfterOffline
<1>1. CASE NewDevice(c) \/ Heartbeat(c) \/ Leave(c)
  BY <1>1 DEF NewDevice, Heartbeat, Leave
<1>2. CASE AddDeviceTx(c)
  BY <1>2 DEF AddDeviceTx
<1>3. CASE GoOnline(c) /\ ~AddDeviceTx(c)
  BY <1>3 DEF GoOnline, AddLocal, DispatchDeviceOnline, UserOnlineTx,
     CheckOnline, Validate, PruneOnline, PruneStale, UserOn, DispatchUserOnline
<1>4. CASE DelDeviceTx(c)
  BY <1>4, OwnIds DEF DelDeviceTx, BrokerOf, InstanceSetWithout, CountWithout
<1>5. CASE GoOffline(c) /\ ~DelDeviceTx(c)
  BY <1>5 DEF GoOffline, DelLocal, DispatchDeviceOffline, UserOfflineTx,
     CheckOffline, Validate, PruneOffline, PruneStale, UserOff, DispatchUserOffline
<1>6. CASE RedisError(c)
  <2>1. pc'[c] = OnError(c) /\ UNCHANGED <<instSet, deviceCount>>
    BY <1>6 DEF RedisError
  <2>2. pc[c] \in ConnSteps \ {"store", "addTx", "live", "delLocal", "delTx", "done", "crashed"}
    BY <1>6 DEF RedisError
  <2> QED
    BY <2>1, <2>2 DEF OnError, ConnSteps, BeforeUserTx
<1> QED
  BY <1>1, <1>2, <1>3, <1>4, <1>5, <1>6 DEF ConnStep

\* addDevice's Store and delDevice's Delete are the only steps of a goroutine that touch
\* the map, and only these take it into the map, or out.
LEMMA ConnMaps ==
    ASSUME TypeOK, OwnDevice, NEW c \in Conns, ConnStep(c)
    PROVE  \/ /\ pc'[c] = "addTx"
              /\ devices' = [devices EXCEPT ![instanceOf[c]][deviceOf[c]] = c]
           \/ devices' = [devices EXCEPT ![instanceOf[c]][deviceOf[c]] = None]
           \/ (Mapped(c) => Mapped(c)') /\ UNCHANGED devices
<1> USE DEF TypeOK, Goto, Actors, Mapped, Registered, AfterUserTx, BeforeUserTxOff,
        AfterUserTxOff, OfflineSteps
<1>1. CASE NewDevice(c) \/ Heartbeat(c) \/ Leave(c)
  BY <1>1 DEF NewDevice, Heartbeat, Leave
<1>2. CASE AddLocal(c)
  BY <1>2 DEF AddLocal
<1>3. CASE GoOnline(c) /\ ~AddLocal(c)
  BY <1>3 DEF GoOnline, AddDeviceTx, DispatchDeviceOnline, UserOnlineTx,
     CheckOnline, Validate, PruneOnline, PruneStale, UserOn, DispatchUserOnline
<1>4. CASE DelLocal(c)
  BY <1>4, OwnIds DEF DelLocal, BrokerOf
<1>5. CASE GoOffline(c) /\ ~DelLocal(c)
  BY <1>5 DEF GoOffline, DelDeviceTx, DispatchDeviceOffline, UserOfflineTx,
     CheckOffline, Validate, PruneOffline, PruneStale, UserOff, DispatchUserOffline
<1>6. CASE RedisError(c)
  <2>1. pc'[c] = OnError(c) /\ UNCHANGED devices
    BY <1>6 DEF RedisError
  <2>2. pc[c] \in ConnSteps \ {"store", "addTx", "live", "delLocal", "delTx", "done", "crashed"}
    BY <1>6 DEF RedisError
  <2> QED
    BY <2>1, <2>2 DEF OnError, ConnSteps, BeforeUserTx
<1> QED
  BY <1>1, <1>2, <1>3, <1>4, <1>5, <1>6 DEF ConnStep

\* A goroutine announces only its own device, online while it is registered, and
\* accounts for that until it has announced it offline, or has failed to.
LEMMA ConnAnnounces ==
    ASSUME TypeOK, OwnDevice, NEW c \in Conns, ConnStep(c)
    PROVE  /\ \A d \in Devices : deviceEvent'[d] = "online" =>
                deviceEvent[d] = "online" \/ (d = deviceOf[c] /\ Announced(c)')
           /\ Announced(c) => Announced(c)' \/ deviceEvent'[deviceOf[c]] # "online"
<1> USE ConstantsAssumption DEF ConstantsAssumption, TypeOK, Goto, Actors, events, Announced,
        Lost, Registered, AfterUserTx, BeforeUserTxOff
<1>1. CASE NewDevice(c) \/ Heartbeat(c) \/ Leave(c)
  BY <1>1 DEF NewDevice, Heartbeat, Leave
<1>2. CASE DispatchDeviceOnline(c)
  BY <1>2 DEF DispatchDeviceOnline
<1>3. CASE GoOnline(c) /\ ~DispatchDeviceOnline(c)
  BY <1>3 DEF GoOnline, AddLocal, AddDeviceTx, UserOnlineTx,
     CheckOnline, Validate, PruneOnline, PruneStale, UserOn, DispatchUserOnline
<1>4. CASE DispatchDeviceOffline(c)
  BY <1>4, OwnIds DEF DispatchDeviceOffline
<1>5. CASE GoOffline(c) /\ ~DispatchDeviceOffline(c)
  BY <1>5 DEF GoOffline, DelLocal, DelDeviceTx, UserOfflineTx,
     CheckOffline, Validate, PruneOffline, PruneStale, UserOff, DispatchUserOffline
<1>6. CASE RedisError(c)
  <2>1. /\ pc'[c] = OnError(c) /\ UNCHANGED deviceEvent
        /\ c \in leaked \/ pc[c] = "pubOffline" => c \in leaked'
    BY <1>6 DEF RedisError
  <2>2. pc[c] \in ConnSteps \ {"store", "addTx", "live", "delLocal", "delTx", "done", "crashed"}
    BY <1>6 DEF RedisError
  <2> QED
    BY <2>1, <2>2 DEF OnError
<1> QED
  BY <1>1, <1>2, <1>3, <1>4, <1>5, <1>6 DEF ConnStep

\* A session that becomes registered is one more, one that stops being so one less.
LEMMA RegisteredOneMore ==
    ASSUME NEW i \in Instances, NEW c \in Conns, instanceOf[c] = i,
           ~Registered(c), Registered(c)',
           \A e \in Conns \ {c} : pc'[e] = pc[e]
    PROVE  /\ RegisteredAt(i)' = RegisteredAt(i) \cup {c}
           /\ Cardinality(RegisteredAt(i)') = Cardinality(RegisteredAt(i)) + 1
           /\ Cardinality(RegisteredAt(i)) \in Nat
<1>1. RegisteredAt(i)' = RegisteredAt(i) \cup {c} /\ c \notin RegisteredAt(i)
  BY DEF RegisteredAt, Registered
<1>2. IsFiniteSet(RegisteredAt(i))
  BY ConnsFinite, FS_Subset DEF RegisteredAt
<1> QED
  BY <1>1, <1>2, FS_AddElement, FS_CardinalityType

\* A session that has been taken off the books is one less on its broker.
LEMMA RegisteredOneLess ==
    ASSUME NEW i \in Instances, NEW c \in Conns, instanceOf[c] = i,
           Registered(c), ~Registered(c)',
           \A e \in Conns \ {c} : pc'[e] = pc[e]
    PROVE  /\ RegisteredAt(i)' = RegisteredAt(i) \ {c}
           /\ Cardinality(RegisteredAt(i)') = Cardinality(RegisteredAt(i)) - 1
           /\ Cardinality(RegisteredAt(i)) \in Nat
<1>1. RegisteredAt(i)' = RegisteredAt(i) \ {c} /\ c \in RegisteredAt(i)
  BY DEF RegisteredAt, Registered
<1>2. IsFiniteSet(RegisteredAt(i))
  BY ConnsFinite, FS_Subset DEF RegisteredAt
<1> QED
  BY <1>1, <1>2, FS_RemoveElement, FS_CardinalityType

\* The count of a broker stays exact while its sessions come and go.
LEMMA ConnCountExact ==
    ASSUME TypeOK, OwnDevice, DeviceCountExact, NEW c \in Conns, ConnStep(c)
    PROVE  DeviceCountExact'
<1> SUFFICES ASSUME NEW i \in Instances, pc'[i] = "up"
             PROVE  /\ i \in cluster' /\ i \in versioned'
                    /\ deviceCount'[i] = Cardinality(RegisteredAt(i)')
  BY DEF DeviceCountExact
<1>1. pc[i] = "up"
  BY ConnMoves, ConstantsAssumption DEF ConstantsAssumption, Actors
<1>2. /\ i \in cluster' /\ i \in versioned'
      /\ deviceCount[i] = Cardinality(RegisteredAt(i)) /\ deviceCount[i] \in Int
  BY <1>1, ConnMoves DEF DeviceCountExact, TypeOK
<1>3. \A e \in Conns \ {c} : pc'[e] = pc[e]
  BY ConnMoves DEF Actors
<1>4. CASE (Registered(c)' <=> Registered(c)) \/ instanceOf[c] # i
  <2>1. RegisteredAt(i)' = RegisteredAt(i)
    BY <1>3, <1>4 DEF RegisteredAt, Registered
  <2>2. deviceCount'[i] = deviceCount[i]
    BY <1>4, ConnCounts DEF TypeOK, Registered, AfterUserTx
  <2> QED
    BY <1>2, <2>1, <2>2
<1>5. CASE ~Registered(c) /\ Registered(c)' /\ instanceOf[c] = i
  <2>1. deviceCount'[i] = deviceCount[i] + 1
    BY <1>5, ConnCounts DEF TypeOK, Registered, AfterUserTx
  <2> QED
    BY <1>2, <1>3, <1>5, <2>1, RegisteredOneMore
<1>6. CASE Registered(c) /\ ~Registered(c)' /\ instanceOf[c] = i
  <2>1. deviceCount'[i] = deviceCount[i] - 1
    BY <1>6, ConnCounts DEF TypeOK, Registered, AfterUserTx
  <2> QED
    BY <1>2, <1>3, <1>6, <2>1, RegisteredOneLess
<1> QED
  BY <1>4, <1>5, <1>6

\* So does its set name what its sessions account for.
LEMMA ConnSetAccurate ==
    ASSUME TypeOK, OwnDevice, InstanceSetAccurate, NEW c \in Conns, ConnStep(c)
    PROVE  InstanceSetAccurate'
<1> SUFFICES ASSUME NEW i \in Instances, pc'[i] \in {"up", "disposed"}
             PROVE  /\ instSet'[i] \subseteq {deviceOf[e] : e \in RegisteredAt(i)'}
                    /\ pc'[i] = "up" => \A e \in RegisteredAt(i)' :
                         \/ deviceOf[e] \in instSet'[i]
                         \/ \E f \in Conns \ {e} : /\ instanceOf[f] = i
                                                   /\ deviceOf[f] = deviceOf[e]
                                                   /\ TakenOut(f)'
  BY DEF InstanceSetAccurate, TakenOut
<1>1. pc'[i] = pc[i]
  BY ConnMoves, ConstantsAssumption DEF ConstantsAssumption, Actors
<1>2. /\ instSet[i] \subseteq {deviceOf[e] : e \in RegisteredAt(i)}
      /\ pc[i] = "up" => \A e \in RegisteredAt(i) :
           \/ deviceOf[e] \in instSet[i]
           \/ \E f \in Conns \ {e} : /\ instanceOf[f] = i /\ deviceOf[f] = deviceOf[e]
                                     /\ TakenOut(f)
  BY <1>1 DEF InstanceSetAccurate, TakenOut
<1>3. \A e \in Conns \ {c} : (Registered(e)' <=> Registered(e)) /\ (TakenOut(e)' <=> TakenOut(e))
  BY ConnMoves DEF Actors, Registered, TakenOut
<1>4. CASE /\ pc[c] = "addTx" /\ pc'[c] = "pubOnline"
           /\ instSet' = [instSet EXCEPT ![instanceOf[c]] = @ \cup {deviceOf[c]}]
  <2>1. ~TakenOut(c) /\ Registered(c)' /\ ~Registered(c)
    BY <1>4 DEF TakenOut, Registered, AfterUserTx, BeforeUserTxOff, AfterUserTxOff, OfflineSteps
  <2>2. /\ instSet[i] \subseteq instSet'[i]
        /\ instSet'[i] \subseteq
             instSet[i] \cup {d \in Devices : d = deviceOf[c] /\ instanceOf[c] = i}
        /\ instanceOf[c] = i => deviceOf[c] \in instSet'[i]
    BY <1>4, ConstantsAssumption DEF ConstantsAssumption, TypeOK
  <2> QED
    BY <1>1, <1>2, <1>3, <2>1, <2>2 DEF RegisteredAt
<1>5. CASE /\ pc[c] = "delTx" /\ pc'[c] = "pubOffline"
           /\ instSet' = [instSet EXCEPT ![instanceOf[c]] = @ \ {deviceOf[c]}]
  <2>1. TakenOut(c)' /\ ~TakenOut(c) /\ ~Registered(c)' /\ Registered(c)
    BY <1>5 DEF TakenOut, Registered, AfterUserTx, BeforeUserTxOff, AfterUserTxOff, OfflineSteps
  <2>2. instSet'[i] = IF instanceOf[c] = i THEN instSet[i] \ {deviceOf[c]} ELSE instSet[i]
    BY <1>5 DEF TypeOK
  <2> QED
    BY <1>1, <1>2, <1>3, <2>1, <2>2 DEF RegisteredAt
<1>6. CASE /\ Registered(c)' <=> Registered(c)
           /\ TakenOut(c) => TakenOut(c)'
           /\ UNCHANGED instSet
  BY <1>1, <1>2, <1>3, <1>6 DEF RegisteredAt
<1> QED
  BY <1>4, <1>5, <1>6, ConnCounts

\* A session's own steps keep the books.
LEMMA ConnBooks ==
    ASSUME TypeOK, BooksInv, NEW c \in Conns, ConnStep(c)
    PROVE  BooksInv'
<1>1. \A e \in Conns \ {c} : pc'[e] = pc[e]
  BY ConnMoves DEF Actors
<1>2. OwnDevice'
  <2>1. \A e \in Conns : device'[e] = device[e]
    BY ConnMoves
  <2> QED
    BY <2>1 DEF BooksInv, OwnDevice
<1>3. \A i \in Instances : pc'[i] = pc[i]
  BY ConnMoves, ConstantsAssumption DEF ConstantsAssumption, Actors
<1>4. Served'
  BY <1>1, <1>3, ConnMoves, ConstantsAssumption 
  DEF ConstantsAssumption, BooksInv, Served, Listening
<1>5. SetEmptied'
  <2>1. pc[c] \in {"addTx", "delTx"} => Listening(instanceOf[c])
    BY DEF BooksInv, Served
  <2> SUFFICES ASSUME NEW i \in Instances,
                      pc[i] \in {"clearing", "reclear", "starting"} \cup OfflineSteps
               PROVE  instSet'[i] = {}
    BY <1>3 DEF SetEmptied
  <2>2. instSet[i] = {} /\ ~Listening(i)
    BY DEF BooksInv, SetEmptied, Listening, OfflineSteps, BeforeUserTxOff, AfterUserTxOff
  <2> QED
    BY <2>1, <2>2, ConnCounts DEF BooksInv, TypeOK
<1>6. LocalMapSound'
  <2> SUFFICES ASSUME NEW i \in Instances, NEW d \in Devices, NEW e, e = devices'[i][d],
                      e # None
               PROVE  deviceOf[e] = d /\ instanceOf[e] = i /\ Mapped(e)'
    BY DEF LocalMapSound, Mapped
  <2>1. e = devices[i][d] => e \in Conns
    BY DEF TypeOK
  <2>2. CASE e # c \/ instanceOf[c] # i \/ deviceOf[c] # d
    <3>1. e = devices[i][d] /\ e \in Conns
      <4>1. CASE devices' = [devices EXCEPT ![instanceOf[c]][deviceOf[c]] = c]
        BY <2>1, <2>2, <4>1 DEF TypeOK
      <4>2. CASE devices' = [devices EXCEPT ![instanceOf[c]][deviceOf[c]] = None]
        BY <2>1, <2>2, <4>2 DEF TypeOK
      <4>3. CASE UNCHANGED devices
        BY <2>1, <4>3
      <4> QED
        BY <4>1, <4>2, <4>3, ConnMaps DEF BooksInv
    <3>2. deviceOf[e] = d /\ instanceOf[e] = i /\ Mapped(e)
      BY <3>1 DEF BooksInv, LocalMapSound, Mapped
    <3>3. e # c
      BY <2>2, <3>2
    <3> QED
      BY <1>1, <3>1, <3>2, <3>3 DEF Mapped, Registered
  <2>3. CASE e = c /\ instanceOf[c] = i /\ deviceOf[c] = d
    <3>1. CASE pc'[c] = "addTx"
      BY <2>3, <3>1 DEF Mapped
    <3>2. CASE devices' = [devices EXCEPT ![instanceOf[c]][deviceOf[c]] = None]
      BY <2>3, <3>2 DEF TypeOK
    <3>3. CASE (Mapped(c) => Mapped(c)') /\ UNCHANGED devices
      <4>1. c = devices[i][d] /\ c # None
        BY <2>3, <3>3
      <4>2. Mapped(c)
        BY <4>1 DEF BooksInv, LocalMapSound, Mapped
      <4>3. Mapped(c)'
        BY <3>3, <4>2
      <4> QED
        BY <2>3, <4>3 DEF Mapped, Registered
    <3> QED
      BY <3>1, <3>2, <3>3, ConnMaps DEF BooksInv
  <2> QED
    BY <2>2, <2>3
<1>7. LastDeviceEventJustified'
  <2> SUFFICES ASSUME NEW d \in Devices, deviceEvent'[d] = "online"
               PROVE  \E e \in Conns : deviceOf[e] = d /\ Announced(e)'
    BY DEF LastDeviceEventJustified, Announced
  <2>1. CASE d = deviceOf[c] /\ Announced(c)'
    BY <2>1
  <2>2. CASE deviceEvent[d] = "online"
    <3>1. PICK e \in Conns : deviceOf[e] = d /\ Announced(e)
      BY <2>2 DEF BooksInv, LastDeviceEventJustified, Announced
    <3>2. CASE e = c
      BY <3>1, <3>2, ConnAnnounces DEF BooksInv
    <3>3. CASE e # c
      BY <1>1, <3>1, <3>3, ConnMoves DEF Announced, Registered, Lost
    <3> QED
      BY <3>2, <3>3
  <2> QED
    BY <2>1, <2>2, ConnAnnounces DEF BooksInv
<1> QED
  BY <1>4, <1>5, <1>6, <1>7, <1>2, ConnCountExact, ConnSetAccurate DEF BooksInv

\* A broker that boots or is disposed of moves no goroutine, touches no other broker's
\* books, stores nothing in its map and announces nothing online.
LEMMA BrokerStepMoves ==
    ASSUME TypeOK, NEW i \in Instances, BrokerStep(i)
    PROVE  /\ \A a \in Actors \ {i} : pc'[a] = pc[a]
           /\ \A e \in Conns : device'[e] = device[e]
           /\ leaked \subseteq leaked'
           /\ \A d \in Devices : deviceEvent'[d] = "online" => deviceEvent[d] = "online"
           /\ \A j \in Instances, d \in Devices : devices'[j][d] \in {devices[j][d], None}
           /\ \A j \in Instances \ {i} :
                /\ instSet'[j] = instSet[j] /\ deviceCount'[j] = deviceCount[j]
                /\ j \in cluster => j \in cluster'
                /\ j \in versioned => j \in versioned'
<1> USE ConstantsAssumption DEF ConstantsAssumption, TypeOK, Goto, Actors, BrokerOf, redisVars,
        instanceKey, events
<1>1. CASE DelDeviceTx(i) \/ DispatchDeviceOffline(i)
  BY <1>1 DEF DelDeviceTx, DispatchDeviceOffline
<1>2. CASE DelLocal(i)
  <2>1. devices' = [devices EXCEPT ![i][device[i].id] = None]
    BY <1>2 DEF DelLocal
  <2>2. \A j \in Instances, d \in Devices : devices'[j][d] \in {devices[j][d], None}
    BY <2>1
  <2> QED
    BY <1>2, <2>2 DEF DelLocal
<1>3. CASE UserOfflineTx(i) \/ CheckOffline(i) \/ PruneOffline(i) \/ UserOff(i)
             \/ DispatchUserOffline(i)
  BY <1>3 DEF UserOfflineTx, CheckOffline, Validate, PruneOffline, PruneStale, UserOff,
     DispatchUserOffline
<1>4. CASE RedisError(i)
  BY <1>4 DEF RedisError
<1>5. CASE ClearTx(i) \/ StartTx(i) \/ Dispose(i)
  BY <1>5 DEF ClearTx, StartTx, Dispose
<1>6. CASE ClearDevice(i) \/ ClearSkip(i) \/ ClearDone(i)
  BY <1>6 DEF ClearDevice, ClearSkip, ClearDone
<1> QED
  BY <1>1, <1>3, <1>4, <1>5, <1>6, <1>2 DEF BrokerStep, GoOffline, Boot

\* It begins to listen with an empty set and a count of zero, and then only stops.
LEMMA BrokerStepBooks ==
    ASSUME TypeOK, SetEmptied, NEW i \in Instances, BrokerStep(i)
    PROVE  /\ Listening(i) => pc'[i] = "disposed"
           /\ pc'[i] # "down" => instSet'[i] = {}
           /\ pc'[i] = "up" => i \in cluster' /\ i \in versioned' /\ deviceCount'[i] = 0
<1> USE ConstantsAssumption DEF ConstantsAssumption, TypeOK, Goto, Actors, redisVars,
        instanceKey, SetEmptied, Listening, AfterOffline, OfflineSteps, BeforeUserTxOff,
        AfterUserTxOff
<1>1. CASE DelLocal(i) \/ DelDeviceTx(i) \/ DispatchDeviceOffline(i)
  BY <1>1 DEF DelLocal, DelDeviceTx, DispatchDeviceOffline, BrokerOf, InstanceSetWithout
<1>2. CASE UserOfflineTx(i) \/ CheckOffline(i) \/ PruneOffline(i) \/ UserOff(i)
             \/ DispatchUserOffline(i)
  BY <1>2 DEF UserOfflineTx, CheckOffline, Validate, PruneOffline, PruneStale, UserOff,
     DispatchUserOffline
<1>3. CASE RedisError(i)
  <2>1. pc'[i] = OnError(i) /\ UNCHANGED instSet
    BY <1>3 DEF RedisError
  <2>2. /\ pc[i] \in ConnSteps \ {"store", "addTx", "live", "delLocal", "delTx", "done", "crashed"}
        /\ pc[i] \in BrokerSteps
    BY <1>3 DEF RedisError
  <2>3. pc[i] \in OfflineSteps
    BY <2>2 DEF ConnSteps, BrokerSteps, BeforeUserTx, AfterUserTx
  <2>4. OnError(i) \in OfflineSteps \cup {"clearing"}
    BY <2>3, <2>2 DEF OnError
  <2> QED
    BY <2>1, <2>3, <2>4
<1>4. CASE ClearTx(i) \/ StartTx(i) \/ Dispose(i)
  BY <1>4 DEF ClearTx, StartTx, Dispose
<1>5. CASE ClearDevice(i) \/ ClearSkip(i) \/ ClearDone(i)
  BY <1>5 DEF ClearDevice, ClearSkip, ClearDone
<1> QED
  BY <1>1, <1>2, <1>3, <1>4, <1>5 DEF BrokerStep, GoOffline, Boot

\* A broker that does not listen has no sessions at all.
LEMMA NotListening ==
    ASSUME Served, NEW i \in Instances, ~Listening(i)
    PROVE  RegisteredAt(i) = {}
BY DEF Served, RegisteredAt, Registered, AfterUserTx

\* Hence a broker's own steps keep the books, of all brokers.
LEMMA BrokerBooks ==
    ASSUME TypeOK, BooksInv, NEW i \in Instances, BrokerStep(i)
    PROVE  BooksInv'
<1>1. \A e \in Conns : pc'[e] = pc[e] /\ device'[e] = device[e]
  BY BrokerStepMoves, ConstantsAssumption DEF ConstantsAssumption, Actors
<1>2. \A j \in Instances \ {i} : pc'[j] = pc[j]
  BY BrokerStepMoves DEF Actors
<1>3. /\ Listening(i) => pc'[i] = "disposed"
      /\ pc'[i] # "down" => instSet'[i] = {}
      /\ pc'[i] = "up" => i \in cluster' /\ i \in versioned' /\ deviceCount'[i] = 0
  BY BrokerStepBooks DEF BooksInv
<1>4. OwnDevice'
  BY <1>1 DEF BooksInv, OwnDevice
<1>5. Served'
  BY <1>1, <1>2, <1>3, ConstantsAssumption DEF ConstantsAssumption, BooksInv, Served, Listening
<1>6. SetEmptied'
  <2> SUFFICES ASSUME NEW j \in Instances,
                      pc'[j] \in {"clearing", "reclear", "starting"} \cup OfflineSteps
               PROVE  instSet'[j] = {}
    BY DEF SetEmptied
  <2>1. CASE j = i
    BY <1>3, <2>1 DEF OfflineSteps, BeforeUserTxOff, AfterUserTxOff
  <2>2. CASE j # i
    BY <1>2, <2>2, BrokerStepMoves DEF BooksInv, SetEmptied
  <2> QED
    BY <2>1, <2>2
<1>7. \A j \in Instances : RegisteredAt(j)' = RegisteredAt(j)
  BY <1>1 DEF RegisteredAt, Registered
<1>8. ~Listening(i) => RegisteredAt(i) = {}
  BY NotListening DEF BooksInv
<1>9. DeviceCountExact'
  <2> SUFFICES ASSUME NEW j \in Instances, pc'[j] = "up"
               PROVE  /\ j \in cluster' /\ j \in versioned'
                      /\ deviceCount'[j] = Cardinality(RegisteredAt(j)')
    BY DEF DeviceCountExact
  <2>1. CASE j = i
    BY <1>3, <1>7, <1>8, <2>1, FS_EmptySet
  <2>2. CASE j # i
    BY <1>2, <1>7, <2>2, BrokerStepMoves DEF BooksInv, DeviceCountExact
  <2> QED
    BY <2>1, <2>2
<1>10. InstanceSetAccurate'
  <2> SUFFICES ASSUME NEW j \in Instances, pc'[j] \in {"up", "disposed"}
               PROVE  /\ instSet'[j] \subseteq {deviceOf[c] : c \in RegisteredAt(j)}
                      /\ pc'[j] = "up" => \A c \in RegisteredAt(j) :
                           \/ deviceOf[c] \in instSet'[j]
                           \/ \E e \in Conns \ {c} : /\ instanceOf[e] = j
                                                     /\ deviceOf[e] = deviceOf[c]
                                                     /\ TakenOut(e)'
    BY <1>7 DEF InstanceSetAccurate, TakenOut
  <2>1. CASE j = i
    BY <1>3, <1>8, <2>1
  <2>2. CASE j # i
    BY <1>1, <1>2, <2>2, BrokerStepMoves DEF BooksInv, InstanceSetAccurate, TakenOut
  <2> QED
    BY <2>1, <2>2
<1>11. LocalMapSound'
  <2> SUFFICES ASSUME NEW j \in Instances, NEW d \in Devices, NEW e, e = devices'[j][d],
                      e # None
               PROVE  deviceOf[e] = d /\ instanceOf[e] = j /\ Mapped(e)'
    BY DEF LocalMapSound, Mapped
  <2>1. e = devices[j][d]
    BY BrokerStepMoves
  <2>2. e \in Conns
    BY <2>1 DEF TypeOK
  <2>3. deviceOf[e] = d /\ instanceOf[e] = j /\ Mapped(e)
    BY <2>1 DEF BooksInv, LocalMapSound, Mapped
  <2> QED
    BY <1>1, <2>2, <2>3 DEF Mapped, Registered
<1>12. LastDeviceEventJustified'
  BY <1>1, BrokerStepMoves DEF BooksInv, LastDeviceEventJustified, Registered, Lost
<1> QED
  BY <1>4, <1>5, <1>6, <1>9, <1>10, <1>11, <1>12 DEF BooksInv

\* An exit leaves its broker's set and count as they are, which nobody relies on until
\* the next start; its map is gone and its sessions are cut off.
LEMMA ExitBooks ==
    ASSUME TypeOK, BooksInv, NEW i \in Instances, Exit(i)
    PROVE  BooksInv'
<1>1. /\ pc'[i] = "down"
      /\ \A j \in Instances \ {i} : pc'[j] = pc[j]
      /\ \A c \in Conns : pc'[c] = IF instanceOf[c] = i /\ pc[c] \notin {"idle", "done"}
                                     THEN "crashed" ELSE pc[c]
      /\ \A c \in Conns : device'[c] = device[c]
  BY ConstantsAssumption DEF Exit, ConstantsAssumption, TypeOK, Actors
<1>2. UNCHANGED <<cluster, versioned, instSet, deviceCount, deviceEvent, leaked>>
  BY DEF Exit, redisVars, instanceKey, events
<1>3. OwnDevice'
  BY <1>1 DEF BooksInv, OwnDevice
<1>4. Served'
  BY <1>1, ConstantsAssumption DEF ConstantsAssumption, BooksInv, Served, Listening
<1>5. SetEmptied'
  BY <1>1, <1>2 DEF BooksInv, SetEmptied, OfflineSteps, BeforeUserTxOff, AfterUserTxOff
<1>6. \A j \in Instances \ {i} : RegisteredAt(j)' = RegisteredAt(j)
  BY <1>1 DEF RegisteredAt, Registered
<1>7. DeviceCountExact'
  BY <1>1, <1>2, <1>6 DEF BooksInv, DeviceCountExact
<1>8. \A j \in Instances \ {i} : \A e \in Conns : instanceOf[e] = j => pc'[e] = pc[e]
  BY <1>1
<1>9. InstanceSetAccurate'
  <2> SUFFICES ASSUME NEW j \in Instances \ {i}, pc'[j] \in {"up", "disposed"}
               PROVE  /\ instSet'[j] \subseteq {deviceOf[c] : c \in RegisteredAt(j)}
                      /\ pc'[j] = "up" => \A c \in RegisteredAt(j) :
                           \/ deviceOf[c] \in instSet'[j]
                           \/ \E e \in Conns \ {c} : /\ instanceOf[e] = j
                                                     /\ deviceOf[e] = deviceOf[c]
                                                     /\ TakenOut(e)'
    BY <1>1, <1>6 DEF InstanceSetAccurate, TakenOut
  <2> QED
    BY <1>1, <1>2, <1>8 DEF BooksInv, InstanceSetAccurate, TakenOut
<1>10. LocalMapSound'
  <2> SUFFICES ASSUME NEW j \in Instances, NEW d \in Devices, NEW e, e = devices'[j][d],
                      e # None
               PROVE  deviceOf[e] = d /\ instanceOf[e] = j /\ Mapped(e)'
    BY DEF LocalMapSound, Mapped
  <2>1. j # i /\ e = devices[j][d]
    BY DEF Exit, TypeOK
  <2>2. e \in Conns
    BY <2>1 DEF TypeOK
  <2>3. deviceOf[e] = d /\ instanceOf[e] = j /\ Mapped(e)
    BY <2>1 DEF BooksInv, LocalMapSound, Mapped
  <2> QED
    BY <1>8, <2>1, <2>2, <2>3 DEF Mapped, Registered
<1>11. LastDeviceEventJustified'
  <2>1. \A c \in Conns : Announced(c) => Announced(c)'
    BY <1>1, <1>2 DEF Announced, Registered, Lost
  <2> QED
    BY <1>2, <2>1 DEF BooksInv, LastDeviceEventJustified, Announced
<1> QED
  BY <1>3, <1>4, <1>5, <1>7, <1>9, <1>10, <1>11 DEF BooksInv

\* Queries, expiring keys and steps of nobody have no part in the books.
LEMMA OtherBooks ==
    ASSUME TypeOK, BooksInv,
           \A a \in Conns \cup Instances : pc'[a] = pc[a],
           \A c \in Conns : device'[c] = device[c],
           UNCHANGED <<cluster, versioned, instSet, deviceCount, devices, deviceEvent, leaked>>
    PROVE  BooksInv'
<1>1. \A c \in Conns : /\ Registered(c)' <=> Registered(c)
                       /\ TakenOut(c)' <=> TakenOut(c)
                       /\ Announced(c)' <=> Announced(c)
                       /\ Mapped(c)' <=> Mapped(c)
  BY DEF Registered, TakenOut, Announced, Mapped, Lost
<1>2. \A i \in Instances : RegisteredAt(i)' = RegisteredAt(i)
  BY <1>1 DEF RegisteredAt
<1>3. OwnDevice' /\ Served' /\ SetEmptied'
  BY ConstantsAssumption DEF ConstantsAssumption, BooksInv, OwnDevice, Served, SetEmptied, Listening
<1>4. DeviceCountExact'
  BY <1>2 DEF BooksInv, DeviceCountExact
<1>5. InstanceSetAccurate'
  <2> SUFFICES ASSUME NEW i \in Instances, pc'[i] \in {"up", "disposed"}
               PROVE  /\ instSet'[i] \subseteq {deviceOf[c] : c \in RegisteredAt(i)}
                      /\ pc'[i] = "up" => \A c \in RegisteredAt(i) :
                           \/ deviceOf[c] \in instSet'[i]
                           \/ \E e \in Conns \ {c} : /\ instanceOf[e] = i
                                                     /\ deviceOf[e] = deviceOf[c]
                                                     /\ TakenOut(e)'
    BY <1>2 DEF InstanceSetAccurate, TakenOut
  <2> QED
    BY <1>1 DEF BooksInv, InstanceSetAccurate, TakenOut
<1>6. LocalMapSound'
  <2> SUFFICES ASSUME NEW i \in Instances, NEW d \in Devices, NEW e, e = devices[i][d],
                      e # None
               PROVE  deviceOf[e] = d /\ instanceOf[e] = i /\ Mapped(e)'
    BY DEF LocalMapSound, Mapped
  <2>1. e \in Conns /\ deviceOf[e] = d /\ instanceOf[e] = i /\ Mapped(e)
    BY DEF TypeOK, BooksInv, LocalMapSound, Mapped
  <2> QED
    BY <1>1, <2>1
<1>7. LastDeviceEventJustified'
  BY <1>1 DEF BooksInv, LastDeviceEventJustified, Announced
<1> QED
  BY <1>3, <1>4, <1>5, <1>6, <1>7 DEF BooksInv

\* The books are kept by every step.
LEMMA NextBooks == TypeOK /\ BooksInv /\ [Next]_vars => BooksInv'
<1> SUFFICES ASSUME TypeOK, BooksInv, [Next]_vars PROVE BooksInv'
  OBVIOUS
<1>1. CASE UNCHANGED vars
  BY <1>1, OtherBooks DEF vars, redisVars, instanceKey, events
<1>2. CASE Next
  <2>1. ASSUME NEW c \in Conns, ConnStep(c) PROVE BooksInv'
    BY <2>1, ConnBooks
  <2>2. ASSUME NEW i \in Instances, BrokerStep(i) \/ Exit(i) PROVE BooksInv'
    BY <2>2, BrokerBooks, ExitBooks
  <2>3. ASSUME NEW q \in Queries, Query(q) PROVE BooksInv'
    <3>1. /\ \A a \in Conns \cup Instances : pc'[a] = pc[a]
          /\ \A c \in Conns : device'[c] = device[c]
      BY <2>3, ConstantsAssumption DEF ConstantsAssumption, TypeOK, Actors, Goto, Query, QueryUser,
         CheckInfo, PruneInfo, Validate, PruneStale
    <3>2. UNCHANGED <<cluster, versioned, instSet, deviceCount, devices, deviceEvent, leaked>>
      BY <2>3 DEF Query, QueryUser, CheckInfo, PruneInfo, Validate, PruneStale, redisVars,
         instanceKey, events
    <3> QED
      BY <3>1, <3>2, OtherBooks
  <2>4. ASSUME \/ \E d \in Devices : DeviceKeyExpires(d)
               \/ \E u \in Users : UserSetExpires(u)
        PROVE  BooksInv'
    BY <2>4, OtherBooks DEF DeviceKeyExpires, UserSetExpires, instanceKey, events
  <2> QED
    BY <1>2, <2>1, <2>2, <2>3, <2>4 DEF Next, ConnStep, BrokerStep
<1> QED
  BY <1>1, <1>2

\* In every state a broker's books agree with the sessions it serves (addDevice,
\* delDevice, clear, start, dispose).
THEOREM BooksInvariant == Spec => []BooksInv
<1>1. TypeOK /\ BooksInv /\ [Next]_vars => TypeOK' /\ BooksInv'
  BY NextTypeOK, NextBooks
<1> QED
  BY InitTypeOK, InitBooks, <1>1, PTL DEF Spec

\* The device_count of a broker that serves is the number of its registered sessions,
\* however often it crashed, cleared what it left and started (addDevice, delDevice, start).
THEOREM CountIsExact == Spec => []DeviceCountExact
BY BooksInvariant, PTL DEF BooksInv

\* Its device set names devices of its registered sessions only, and misses one only if
\* another session of the device has left (addDevice, delDevice, clear, dispose).
THEOREM SetIsAccurate == Spec => []InstanceSetAccurate
BY BooksInvariant, PTL DEF BooksInv

\* Its Devices map, which HandleEvents, HandleSend and HandleKick look devices up in,
\* never holds the *Device of a session that has deleted its own (addDevice, delDevice).
THEOREM MapIsSound == Spec => []LocalMapSound
BY BooksInvariant, PTL DEF BooksInv

\* A device that was last announced online has a session which has yet to announce it
\* offline, or was cut off (Device.online, Device.offline).
THEOREM DeviceEventHasSession == Spec => []LastDeviceEventJustified
BY BooksInvariant, PTL DEF BooksInv

=============================================================================
