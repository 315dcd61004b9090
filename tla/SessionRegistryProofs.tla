----------------------- MODULE SessionRegistryProofs -----------------------
(***************************************************************************)
(* Proofs about SessionRegistry, for any number of requests, devices,      *)
(* users and brokers, and whatever fails.                                  *)
(***************************************************************************)
EXTENDS SessionRegistry, TLAPS

\* The initial values have their types.
LEMMA InitTypeOK == Init => TypeOK
BY ConstantsAssumption
DEF ConstantsAssumption, Init, TypeOK, UserKeys, Actors, ConnSteps, BrokerSteps,
    QuerySteps, NoHash

\* What NewDevice up to pubUserOn does keeps the types.
LEMMA GoOnlineTypeOK ==
    ASSUME TypeOK, NEW c \in Conns, NewDevice(c) \/ GoOnline(c) \/ Heartbeat(c) \/ Leave(c)
    PROVE  TypeOK'
<1> USE ConstantsAssumption DEF ConstantsAssumption, TypeOK, Goto, Actors, ConnSteps,
        BeforeUserTx, AfterUserTx, BeforeUserTxOff, OfflineSteps, redisVars, deviceKey,
        instanceKey, events, UserKeys
<1>1. CASE NewDevice(c)
  BY <1>1 DEF NewDevice
<1>2. CASE AddLocal(c)
  BY <1>2 DEF AddLocal
<1>3. CASE AddDeviceTx(c)
  BY <1>3 DEF AddDeviceTx
<1>4. CASE DispatchDeviceOnline(c)
  BY <1>4 DEF DispatchDeviceOnline
<1>5. CASE UserOnlineTx(c)
  BY <1>5 DEF UserOnlineTx
<1>6. CASE CheckOnline(c)
  BY <1>6 DEF CheckOnline, Validate, NoneValid, Stale
<1>7. CASE PruneOnline(c)
  BY <1>7 DEF PruneOnline, PruneStale
<1>8. CASE UserOn(c)
  BY <1>8 DEF UserOn
<1>9. CASE DispatchUserOnline(c)
  BY <1>9 DEF DispatchUserOnline
<1>10. CASE Heartbeat(c)
  BY <1>10 DEF Heartbeat
<1>11. CASE Leave(c)
  BY <1>11 DEF Leave
<1> QED
  BY <1>1, <1>2, <1>3, <1>4, <1>5, <1>6, <1>7, <1>8, <1>9, <1>10, <1>11 DEF GoOnline

\* What Device.offline and User.handleDeviceOffline do keeps the types, whether a
\* connection runs them or a booting broker.
LEMMA GoOfflineTypeOK ==
    ASSUME TypeOK, NEW a \in Conns \cup Instances, GoOffline(a)
    PROVE  TypeOK'
<1> USE ConstantsAssumption DEF ConstantsAssumption, TypeOK, Goto, Actors, ConnSteps,
        BrokerSteps, BeforeUserTxOff, AfterUserTxOff, OfflineSteps, AfterOffline, BrokerOf,
        redisVars, deviceKey, instanceKey, events, UserKeys
<1>1. CASE DelLocal(a)
  BY <1>1 DEF DelLocal
<1>2. CASE DelDeviceTx(a)
  BY <1>2 DEF DelDeviceTx, InstanceSetWithout, CountWithout
<1>3. CASE DispatchDeviceOffline(a)
  BY <1>3 DEF DispatchDeviceOffline
<1>4. CASE UserOfflineTx(a)
  BY <1>4 DEF UserOfflineTx, Rest
<1>5. CASE CheckOffline(a)
  BY <1>5 DEF CheckOffline, Validate, NoneValid, Stale
<1>6. CASE PruneOffline(a)
  BY <1>6 DEF PruneOffline, PruneStale
<1>7. CASE UserOff(a)
  BY <1>7 DEF UserOff, OnlineUsersWithout
<1>8. CASE DispatchUserOffline(a)
  BY <1>8 DEF DispatchUserOffline
<1> QED
  BY <1>1, <1>2, <1>3, <1>4, <1>5, <1>6, <1>7, <1>8 DEF GoOffline

\* A Redis error, wherever it strikes, keeps the types.
LEMMA RedisErrorTypeOK ==
    ASSUME TypeOK, NEW a \in Conns \cup Instances, RedisError(a)
    PROVE  TypeOK'
<1> USE ConstantsAssumption DEF ConstantsAssumption, TypeOK, Actors, ConnSteps,
        BrokerSteps, BeforeUserTx, AfterUserTx, BeforeUserTxOff, AfterUserTxOff,
        OfflineSteps, AfterOffline, RedisError
<1>1. a \in Conns => OnError(a) \in ConnSteps
  BY DEF OnError
<1>2. a \in Instances => OnError(a) \in {"clearing"} \cup OfflineSteps
  BY DEF OnError
<1> QED
  BY <1>1, <1>2 DEF Goto, redisVars, deviceKey, instanceKey, events

\* What a broker does from clear to its exit keeps the types.
LEMMA BrokerTypeOK ==
    ASSUME TypeOK, NEW i \in Instances, Boot(i) \/ Dispose(i) \/ Exit(i)
    PROVE  TypeOK'
<1> USE ConstantsAssumption DEF ConstantsAssumption, TypeOK, Goto, Actors, ConnSteps,
        BrokerSteps, BeforeUserTxOff, AfterUserTxOff, OfflineSteps,
        redisVars, deviceKey, instanceKey, events, UserKeys
<1>1. CASE ClearTx(i)
  BY <1>1 DEF ClearTx, Residue
<1>2. CASE ClearDevice(i)
  BY <1>2 DEF ClearDevice, RedisDevice
<1>3. CASE ClearSkip(i)
  BY <1>3 DEF ClearSkip
<1>4. CASE ClearDone(i)
  BY <1>4 DEF ClearDone
<1>5. CASE StartTx(i)
  BY <1>5 DEF StartTx
<1>6. CASE Dispose(i)
  BY <1>6 DEF Dispose
<1>7. CASE Exit(i)
  <2>1. /\ pc' \in [Actors -> ConnSteps \cup BrokerSteps \cup QuerySteps]
        /\ \A a \in Actors : pc'[a] \in {pc[a], IF a \in Conns THEN "crashed" ELSE "down"}
    BY <1>7 DEF Exit
  <2>2. /\ \A c \in Conns : pc'[c] \in ConnSteps
        /\ \A b \in Instances : pc'[b] \in BrokerSteps
        /\ \A q \in Queries : pc'[q] \in QuerySteps
    BY <1>7 DEF Exit
  <2>3. /\ todo' = [todo EXCEPT ![i] = {}]
        /\ \A b \in Instances \ {i} : pc'[b] = pc[b]
    BY <1>7 DEF Exit
  <2>4. /\ seen' \in [Actors -> SUBSET Devices]
        /\ empty' \in [Actors -> BOOLEAN]
        /\ devices' \in [Instances -> [Devices -> Conns \cup {None}]]
        /\ device' \in [Actors -> [id : Devices \cup {None}, uid : UserKeys]]
    BY <1>7 DEF Exit
  <2>5. UNCHANGED <<redisVars, pass, events, leaked>>
    BY <1>7 DEF Exit
  <2> QED
    BY <2>1, <2>2, <2>3, <2>4, <2>5
<1> QED
  BY <1>1, <1>2, <1>4, <1>5, <1>6, <1>7, <1>3 DEF Boot

\* So do queries and expiring keys.
LEMMA OthersTypeOK ==
    ASSUME TypeOK,
           \/ \E q \in Queries : Query(q)
           \/ \E d \in Devices : DeviceKeyExpires(d)
           \/ \E u \in Users : UserSetExpires(u)
    PROVE  TypeOK'
<1> USE ConstantsAssumption DEF ConstantsAssumption, TypeOK, Goto, Actors, QuerySteps,
        redisVars, deviceKey, instanceKey, events, UserKeys
<1>1. ASSUME NEW q \in Queries, QueryUser(q) PROVE TypeOK'
  BY <1>1 DEF QueryUser
<1>2. ASSUME NEW q \in Queries, CheckInfo(q) PROVE TypeOK'
  BY <1>2 DEF CheckInfo, Validate, NoneValid, Stale
<1>3. ASSUME NEW q \in Queries, PruneInfo(q) PROVE TypeOK'
  BY <1>3 DEF PruneInfo, PruneStale
<1>4. ASSUME NEW d \in Devices, DeviceKeyExpires(d) PROVE TypeOK'
  BY <1>4 DEF DeviceKeyExpires, NoHash
<1>5. ASSUME NEW u \in Users, UserSetExpires(u) PROVE TypeOK'
  BY <1>5 DEF UserSetExpires
<1> QED
  BY <1>1, <1>2, <1>3, <1>4, <1>5 DEF Query

\* Every step keeps the types, the stuttering ones too.
LEMMA NextTypeOK == TypeOK /\ [Next]_vars => TypeOK'
<1> SUFFICES ASSUME TypeOK, [Next]_vars PROVE TypeOK'
  OBVIOUS
<1>1. CASE UNCHANGED vars
  BY <1>1 DEF TypeOK, vars, redisVars, deviceKey, instanceKey, events
<1>2. CASE Next
  BY <1>2, GoOnlineTypeOK, GoOfflineTypeOK, RedisErrorTypeOK, BrokerTypeOK, OthersTypeOK
  DEF Next
<1> QED
  BY <1>1, <1>2

\* Every state of every behaviour is well typed; in particular a broker serves only
\* with an empty list of devices to clear (ServiceInstance.clear before start).
THEOREM TypeCorrect == Spec => []TypeOK
BY InitTypeOK, NextTypeOK, PTL DEF Spec

------------------------------------------------------------------------------
(* Presence: the user's set, the online set and the user events.            *)

\* A connection works on the *Device it created (NewDevice).
OwnDevice == \A c \in Conns : device[c] = [id |-> deviceOf[c], uid |-> uidOf[c]]

\* The inductive invariant, on top of TypeOK.
PresenceInv ==
    OwnDevice /\ NoGhostPresence /\ OnlineUsersJustified /\ LastUserEventJustified

\* What a connection's *Device names: its request's device and its token's user.
LEMMA OwnIds ==
    ASSUME OwnDevice, NEW c \in Conns
    PROVE  device[c].id = deviceOf[c] /\ device[c].uid = uidOf[c]
<1>1. device[c] = [id |-> deviceOf[c], uid |-> uidOf[c]]
  BY DEF OwnDevice
<1> QED
  BY <1>1

\* Nobody is present, online or announced at first.
LEMMA InitPresence == Init => PresenceInv
BY ConstantsAssumption
DEF ConstantsAssumption, Init, PresenceInv, OwnDevice, NoGhostPresence, OnlineUsersJustified,
    LastUserEventJustified, UserKeys, Actors

\* A step of goroutine a moves no other connection and forgets no clean-up that failed.
OnlyMoves(a) ==
    /\ \A e \in Conns \ {a} : pc'[e] = pc[e] /\ seen'[e] = seen[e]
    /\ \A e \in Conns : device'[e] = device[e]
    /\ leaked \subseteq leaked'

\* A step of HandleEvents before its offline clean-up moves no other goroutine.
LEMMA OnlineMoves ==
    ASSUME TypeOK, NEW c \in Conns, NewDevice(c) \/ GoOnline(c) \/ Heartbeat(c) \/ Leave(c)
    PROVE  OnlyMoves(c)
<1> USE DEF TypeOK, OnlyMoves, Goto, Actors
<1> QED
  BY DEF GoOnline, NewDevice, AddLocal, AddDeviceTx, DispatchDeviceOnline, UserOnlineTx,
     CheckOnline, Validate, PruneOnline, PruneStale, UserOn, DispatchUserOnline, Heartbeat, Leave

\* Nor does a step of Device.offline or User.handleDeviceOffline.
LEMMA OfflineMoves ==
    ASSUME TypeOK, NEW a \in Conns \cup Instances, GoOffline(a) \/ RedisError(a)
    PROVE  OnlyMoves(a)
<1> USE DEF TypeOK, OnlyMoves, Goto, Actors
<1>1. CASE GoOffline(a)
  BY <1>1 DEF GoOffline, DelLocal, DelDeviceTx, DispatchDeviceOffline, UserOfflineTx,
     CheckOffline, Validate, PruneOffline, PruneStale, UserOff, DispatchUserOffline
<1>2. CASE RedisError(a)
  BY <1>2 DEF RedisError
<1> QED
  BY <1>1, <1>2

\* Nor does a boot or a dispose, which leave every connection where it is.
LEMMA BrokerMoves ==
    ASSUME TypeOK, NEW i \in Instances, Boot(i) \/ Dispose(i)
    PROVE  OnlyMoves(i)
<1> USE ConstantsAssumption DEF ConstantsAssumption, TypeOK, OnlyMoves, Goto, Actors
<1> QED
  BY DEF Boot, ClearTx, ClearDevice, ClearSkip, ClearDone, StartTx, Dispose

\* Nor does GET /info.
LEMMA QueryMoves ==
    ASSUME TypeOK, NEW q \in Queries, Query(q)
    PROVE  OnlyMoves(q)
<1> USE ConstantsAssumption DEF ConstantsAssumption, TypeOK, OnlyMoves, Goto, Actors
<1> QED
  BY DEF Query, QueryUser, CheckInfo, PruneInfo, Validate, PruneStale

\* A step keeps the invariant if what a connection accounted for is gone or accounted
\* for by some connection, and so is what the step adds to the sets and the events.
LEMMA PresenceKept ==
    ASSUME PresenceInv, OwnDevice',
           \A c \in Conns : Holds(c) /\ deviceOf[c] \in userSet'[uidOf[c]] => Holds(c)',
           \A c \in Conns : KeepsOnline(c) /\ uidOf[c] \in onlineUsers' =>
               \E e \in SessionsOf(uidOf[c]) : KeepsOnline(e)',
           \A c \in Conns : KeepsAnnounced(c) /\ userEvent'[uidOf[c]] = "online" =>
               \E e \in SessionsOf(uidOf[c]) : KeepsAnnounced(e)',
           \A u \in Users : \A d \in userSet'[u] :
               d \in userSet[u] \/ \E c \in SessionsOf(u) : deviceOf[c] = d /\ Holds(c)',
           \A u \in onlineUsers' :
               u \in onlineUsers \/ \E c \in SessionsOf(u) : KeepsOnline(c)',
           \A u \in Users : userEvent'[u] = "online" =>
               userEvent[u] = "online" \/ \E c \in SessionsOf(u) : KeepsAnnounced(c)'
    PROVE  PresenceInv'
<1>1. NoGhostPresence'
  BY DEF PresenceInv, NoGhostPresence, SessionsOf
<1>2. OnlineUsersJustified'
  BY DEF PresenceInv, OnlineUsersJustified, SessionsOf
<1>3. LastUserEventJustified'
  BY DEF PresenceInv, LastUserEventJustified, SessionsOf
<1> QED
  BY <1>1, <1>2, <1>3 DEF PresenceInv

\* Going online, a session adds only itself, when it is past handleDeviceOnline's SADD,
\* and from then on stays present until it goes offline.
LEMMA OnlineEffect ==
    ASSUME TypeOK, NEW c \in Conns, NewDevice(c) \/ GoOnline(c) \/ Heartbeat(c) \/ Leave(c)
    PROVE  /\ pc[c] \in {"idle"} \cup BeforeUserTx \cup AfterUserTx
           /\ pc[c] \in AfterUserTx => pc'[c] \in AfterUserTx \cup BeforeUserTxOff
           /\ \A u \in Users : \A d \in userSet'[u] :
                d \in userSet[u] \/ (u = uidOf[c] /\ d = deviceOf[c] /\ pc'[c] \in AfterUserTx)
           /\ \A u \in onlineUsers' :
                u \in onlineUsers \/ (u = uidOf[c] /\ pc'[c] \in AfterUserTx)
           /\ \A u \in Users : userEvent'[u] = "online" =>
                userEvent[u] = "online" \/ (u = uidOf[c] /\ pc'[c] \in AfterUserTx)
<1> USE ConstantsAssumption DEF ConstantsAssumption, TypeOK, Goto, Actors, BeforeUserTx,
        AfterUserTx, BeforeUserTxOff, redisVars, deviceKey, instanceKey, events, UserKeys
<1>1. CASE NewDevice(c)
  BY <1>1 DEF NewDevice
<1>2. CASE AddLocal(c)
  BY <1>2 DEF AddLocal
<1>3. CASE AddDeviceTx(c)
  BY <1>3 DEF AddDeviceTx
<1>4. CASE DispatchDeviceOnline(c)
  BY <1>4 DEF DispatchDeviceOnline
<1>5. CASE UserOnlineTx(c)
  BY <1>5 DEF UserOnlineTx
<1>6. CASE CheckOnline(c)
  BY <1>6 DEF CheckOnline, Validate
<1>7. CASE PruneOnline(c)
  BY <1>7 DEF PruneOnline, PruneStale
<1>8. CASE UserOn(c)
  BY <1>8 DEF UserOn
<1>9. CASE DispatchUserOnline(c)
  BY <1>9 DEF DispatchUserOnline
<1>10. CASE Heartbeat(c)
  BY <1>10 DEF Heartbeat
<1>11. CASE Leave(c)
  BY <1>11 DEF Leave
<1> QED
  BY <1>1, <1>2, <1>3, <1>4, <1>5, <1>6, <1>7, <1>8, <1>9, <1>10, <1>11 DEF GoOnline

\* Hence going online keeps the invariant.
LEMMA OnlinePresence ==
    ASSUME TypeOK, PresenceInv, NEW c \in Conns,
           NewDevice(c) \/ GoOnline(c) \/ Heartbeat(c) \/ Leave(c)
    PROVE  PresenceInv'
<1>1. OnlyMoves(c)
  BY OnlineMoves
<1>2. OwnDevice'
  BY <1>1 DEF OnlyMoves, OwnDevice, PresenceInv
<1>3. ASSUME NEW e \in Conns
      PROVE  /\ Holds(e) => Holds(e)'
             /\ KeepsOnline(e) => KeepsOnline(e)'
             /\ KeepsAnnounced(e) => KeepsAnnounced(e)'
  <2>1. CASE e # c
    BY <1>1, <2>1 DEF OnlyMoves, KeepsAnnounced, KeepsOnline, OwesUserOff, Holds, Present, Lost
  <2>2. CASE e = c
    BY <1>1, <2>2, OnlineEffect DEF OnlyMoves, KeepsAnnounced, KeepsOnline, OwesUserOff, Holds,
       Present, Lost, BeforeUserTx, AfterUserTx, BeforeUserTxOff
  <2> QED
    BY <2>1, <2>2
<1>4. pc'[c] \in AfterUserTx => Holds(c)' /\ KeepsOnline(c)' /\ KeepsAnnounced(c)'
  BY DEF Holds, KeepsOnline, KeepsAnnounced, Present
<1>5. \A e \in Conns : e \in SessionsOf(uidOf[e])
  BY DEF SessionsOf
<1> QED
  BY <1>2, <1>3, <1>4, <1>5, OnlineEffect, PresenceKept

\* Going offline adds nothing, and a connection that accounted for the user goes on to,
\* until it has taken him out; UserOfflineTx is looked at below.
LEMMA OfflineEffect ==
    ASSUME TypeOK, NEW a \in Conns \cup Instances,
           (GoOffline(a) /\ ~UserOfflineTx(a)) \/ RedisError(a),
           a \in Conns => device[a].uid = uidOf[a]
    PROVE  /\ \A u \in Users : userSet'[u] \subseteq userSet[u]
           /\ onlineUsers' \subseteq onlineUsers
           /\ \A u \in Users : userEvent'[u] = "online" => userEvent[u] = "online"
           /\ a \in Conns =>
                /\ Holds(a) => Holds(a)'
                /\ KeepsOnline(a) => KeepsOnline(a)' \/ uidOf[a] \notin onlineUsers'
                /\ KeepsAnnounced(a) =>
                     KeepsAnnounced(a)' \/ userEvent'[uidOf[a]] # "online"
<1> USE ConstantsAssumption DEF ConstantsAssumption, TypeOK, Goto, Actors, AfterUserTx,
        BeforeUserTxOff, AfterOffline, redisVars, deviceKey, instanceKey, events, UserKeys,
        Holds, KeepsOnline, KeepsAnnounced, Present, Lost, OwesUserOff
<1>1. CASE DelLocal(a)
  BY <1>1 DEF DelLocal
<1>2. CASE DelDeviceTx(a)
  BY <1>2 DEF DelDeviceTx
<1>3. CASE DispatchDeviceOffline(a)
  BY <1>3 DEF DispatchDeviceOffline
<1>4. CASE CheckOffline(a)
  BY <1>4 DEF CheckOffline, Validate, NoneValid, Stale
<1>5. CASE PruneOffline(a)
  BY <1>5 DEF PruneOffline, PruneStale
<1>6. CASE UserOff(a)
  BY <1>6 DEF UserOff, OnlineUsersWithout
<1>7. CASE DispatchUserOffline(a)
  BY <1>7 DEF DispatchUserOffline
<1>8. CASE RedisError(a)
  BY <1>8 DEF RedisError, OnError
<1> QED
  BY <1>1, <1>2, <1>3, <1>4, <1>5, <1>6, <1>7, <1>8 DEF GoOffline

\* Hence going offline keeps it, but for UserOfflineTx.
LEMMA OfflinePresence ==
    ASSUME TypeOK, PresenceInv, NEW a \in Conns \cup Instances,
           (GoOffline(a) /\ ~UserOfflineTx(a)) \/ RedisError(a)
    PROVE  PresenceInv'
<1>1. OnlyMoves(a)
  BY OfflineMoves
<1>2. OwnDevice'
  BY <1>1 DEF OnlyMoves, OwnDevice, PresenceInv
<1>3. ASSUME NEW e \in Conns, e # a
      PROVE  /\ Holds(e) => Holds(e)'
             /\ KeepsOnline(e) => KeepsOnline(e)'
             /\ KeepsAnnounced(e) => KeepsAnnounced(e)'
  BY <1>1, <1>3 DEF OnlyMoves, KeepsAnnounced, KeepsOnline, OwesUserOff, Holds, Present, Lost
<1>4. a \in Conns => device[a].uid = uidOf[a]
  BY OwnIds DEF PresenceInv
<1>5. \A e \in Conns : e \in SessionsOf(uidOf[e])
  BY DEF SessionsOf
<1> QED
  BY <1>2, <1>3, <1>4, <1>5, OfflineEffect, PresenceKept

\* The transaction of handleDeviceOffline: the session that takes its device out either
\* leaves a device behind, which another session accounts for, or finds the set empty
\* and owes the user's own going offline.
LEMMA UserOfflineTxPresence ==
    ASSUME TypeOK, PresenceInv, NEW a \in Conns \cup Instances, UserOfflineTx(a)
    PROVE  PresenceInv'
<1> DEFINE u == device[a].uid
           rest == userSet[u] \ {device[a].id}
<1>1. OnlyMoves(a)
  BY OfflineMoves DEF GoOffline
<1>2. OwnDevice'
  BY <1>1 DEF OnlyMoves, OwnDevice, PresenceInv
<1>3. /\ userSet' = [userSet EXCEPT ![u] = rest]
      /\ pc'[a] = "checkOff"
      /\ seen'[a] = rest
      /\ UNCHANGED <<onlineUsers, userEvent>>
  BY DEF UserOfflineTx, Rest, Goto, TypeOK, Actors, events
<1>4. ASSUME NEW e \in Conns, e # a
      PROVE  /\ Holds(e) => Holds(e)'
             /\ KeepsOnline(e) => KeepsOnline(e)'
             /\ KeepsAnnounced(e) => KeepsAnnounced(e)'
  BY <1>1, <1>4 DEF OnlyMoves, KeepsAnnounced, KeepsOnline, OwesUserOff, Holds, Present, Lost
<1>5. CASE a \in Instances
  <2>1. \A e \in Conns : e # a
    BY <1>5, ConstantsAssumption DEF ConstantsAssumption
  <2>2. \A v \in Users : userSet'[v] \subseteq userSet[v]
    BY <1>3 DEF TypeOK, UserKeys
  <2>3. \A e \in Conns : e \in SessionsOf(uidOf[e])
    BY DEF SessionsOf
  <2> QED
    BY <1>2, <1>3, <1>4, <2>1, <2>2, <2>3, PresenceKept
<1>6. CASE a \in Conns
  <2>1. u = uidOf[a] /\ device[a].id = deviceOf[a] /\ u \in Users
    BY <1>6, OwnIds, ConstantsAssumption DEF PresenceInv, ConstantsAssumption
  <2>2. \A v \in Users : userSet'[v] = IF v = u THEN rest ELSE userSet[v]
    BY <1>3 DEF TypeOK, UserKeys
  <2>3. KeepsOnline(a)' \/ \E e \in SessionsOf(u) : KeepsOnline(e)'
    <3>1. CASE rest = {}
      BY <1>3, <3>1 DEF KeepsOnline, OwesUserOff
    <3>2. CASE rest # {}
      <4>1. PICK d \in userSet[u] : d # deviceOf[a]
        BY <2>1, <3>2
      <4>2. PICK e \in SessionsOf(u) : deviceOf[e] = d /\ Holds(e)
        BY <2>1, <4>1 DEF PresenceInv, NoGhostPresence
      <4>3. e # a /\ e \in Conns
        BY <4>1, <4>2 DEF SessionsOf
      <4>4. Holds(e)'
        BY <1>4, <4>2, <4>3
      <4> QED
        BY <4>2, <4>4 DEF KeepsOnline
    <3> QED
      BY <3>1, <3>2
  <2>4. a \in SessionsOf(u) /\ \A e \in Conns : e \in SessionsOf(uidOf[e])
    BY <1>6, <2>1 DEF SessionsOf
  <2>5. \E e \in SessionsOf(u) : KeepsOnline(e)' /\ KeepsAnnounced(e)'
    BY <2>3, <2>4 DEF KeepsAnnounced
  <2>6. \A e \in Conns : Holds(e) /\ deviceOf[e] \in userSet'[uidOf[e]] => Holds(e)'
    BY <1>4, <2>1, <2>2
  <2>7. \A v \in Users : \A d \in userSet'[v] : d \in userSet[v]
    BY <2>2
  <2>8. \A e \in Conns : KeepsOnline(e) => \E f \in SessionsOf(uidOf[e]) : KeepsOnline(f)'
    BY <1>4, <2>1, <2>4, <2>5
  <2>9. \A e \in Conns :
          KeepsAnnounced(e) => \E f \in SessionsOf(uidOf[e]) : KeepsAnnounced(f)'
    BY <1>4, <2>1, <2>4, <2>5
  <2> QED
    BY <1>2, <1>3, <2>6, <2>7, <2>8, <2>9, PresenceKept
<1> QED
  BY <1>5, <1>6

\* A boot, a dispose and a query take part in none of this; a query and an expiry only
\* take devices out of a user's set.
LEMMA BrokerPresence ==
    ASSUME TypeOK, PresenceInv, NEW i \in Instances, Boot(i) \/ Dispose(i)
    PROVE  PresenceInv'
<1>1. OnlyMoves(i)
  BY BrokerMoves
<1>2. UNCHANGED <<userSet, onlineUsers, userEvent>>
  BY DEF Boot, ClearTx, ClearDevice, ClearSkip, ClearDone, StartTx, Dispose, redisVars, events
<1>3. \A e \in Conns : e # i
  BY ConstantsAssumption DEF ConstantsAssumption
<1> QED
  BY <1>1, <1>2, <1>3 DEF OnlyMoves, PresenceInv, OwnDevice, NoGhostPresence,
     OnlineUsersJustified, LastUserEventJustified, SessionsOf,
     KeepsAnnounced, KeepsOnline, OwesUserOff, Holds, Present, Lost

\* Taking devices out of users' sets keeps the invariant.
LEMMA ShrinkPresence ==
    ASSUME PresenceInv, OwnDevice',
           \A e \in Conns : pc'[e] = pc[e] /\ seen'[e] = seen[e],
           UNCHANGED <<onlineUsers, userEvent, leaked>>,
           \A u \in Users : userSet'[u] \subseteq userSet[u]
    PROVE  PresenceInv'
BY DEF PresenceInv, NoGhostPresence, OnlineUsersJustified, LastUserEventJustified,
   SessionsOf, KeepsAnnounced, KeepsOnline, OwesUserOff, Holds, Present, Lost

\* Hence GET /info keeps it.
LEMMA QueryPresence ==
    ASSUME TypeOK, PresenceInv, NEW q \in Queries, Query(q)
    PROVE  PresenceInv'
<1>1. OnlyMoves(q)
  BY QueryMoves
<1>2. \A e \in Conns : e # q
  BY ConstantsAssumption DEF ConstantsAssumption
<1>3. UNCHANGED <<onlineUsers, userEvent, leaked>>
  BY DEF Query, QueryUser, CheckInfo, PruneInfo, Validate, PruneStale, redisVars, events
<1>4. \A u \in Users : userSet'[u] \subseteq userSet[u]
  <2>1. CASE QueryUser(q) \/ CheckInfo(q)
    BY <2>1 DEF QueryUser, CheckInfo, Validate, redisVars
  <2>2. CASE PruneInfo(q)
    BY <2>2 DEF PruneInfo, PruneStale, TypeOK, UserKeys
  <2> QED
    BY <2>1, <2>2 DEF Query
<1> QED
  BY <1>1, <1>2, <1>3, <1>4, ShrinkPresence DEF OnlyMoves, OwnDevice, PresenceInv

\* Hence expiring keys keep it.
LEMMA ExpiryPresence ==
    ASSUME TypeOK, PresenceInv,
           \/ \E d \in Devices : DeviceKeyExpires(d)
           \/ \E u \in Users : UserSetExpires(u)
    PROVE  PresenceInv'
<1>1. \A e \in Conns : pc'[e] = pc[e] /\ seen'[e] = seen[e] /\ device'[e] = device[e]
  BY DEF DeviceKeyExpires, UserSetExpires
<1>2. UNCHANGED <<onlineUsers, userEvent, leaked>>
  BY DEF DeviceKeyExpires, UserSetExpires, events
<1>3. \A u \in Users : userSet'[u] \subseteq userSet[u]
  BY DEF DeviceKeyExpires, UserSetExpires, TypeOK, UserKeys
<1> QED
  BY <1>1, <1>2, <1>3, ShrinkPresence DEF OwnDevice, PresenceInv

\* An exit cuts sessions off: what they accounted for, they now account for as lost.
LEMMA ExitPresence ==
    ASSUME TypeOK, PresenceInv, NEW i \in Instances, Exit(i)
    PROVE  PresenceInv'
<1>1. /\ \A e \in Conns : \/ pc'[e] = "crashed"
                          \/ pc'[e] = pc[e] /\ (instanceOf[e] # i \/ pc[e] \in {"idle", "done"})
      /\ \A e \in Conns : instanceOf[e] # i => seen'[e] = seen[e]
      /\ \A e \in Conns : device'[e] = device[e]
  BY ConstantsAssumption DEF Exit, ConstantsAssumption, TypeOK, Actors, BrokerOf
<1>2. UNCHANGED <<userSet, onlineUsers, userEvent, leaked>>
  BY DEF Exit, redisVars, events
<1>3. ASSUME NEW e \in Conns
      PROVE  /\ Holds(e) => Holds(e)'
             /\ KeepsOnline(e) => KeepsOnline(e)'
             /\ KeepsAnnounced(e) => KeepsAnnounced(e)'
  BY <1>1, <1>2 DEF KeepsAnnounced, KeepsOnline, OwesUserOff, Holds, Present, Lost,
     AfterUserTx, BeforeUserTxOff
<1> QED
  BY <1>1, <1>2, <1>3 DEF PresenceInv, OwnDevice, NoGhostPresence, OnlineUsersJustified,
     LastUserEventJustified, SessionsOf

\* The invariant is inductive, on top of the types.
LEMMA NextPresence == TypeOK /\ PresenceInv /\ [Next]_vars => PresenceInv'
<1> SUFFICES ASSUME TypeOK, PresenceInv, [Next]_vars PROVE PresenceInv'
  OBVIOUS
<1>1. CASE UNCHANGED vars
  BY <1>1 DEF PresenceInv, OwnDevice, NoGhostPresence, OnlineUsersJustified,
     LastUserEventJustified, SessionsOf, KeepsAnnounced, KeepsOnline, OwesUserOff, Holds,
     Present, Lost, vars, redisVars, events
<1>2. CASE Next
  <2>1. ASSUME NEW c \in Conns, NewDevice(c) \/ GoOnline(c) \/ Heartbeat(c) \/ Leave(c)
        PROVE  PresenceInv'
    BY <2>1, OnlinePresence
  <2>2. ASSUME NEW a \in Conns \cup Instances, GoOffline(a) \/ RedisError(a)
        PROVE  PresenceInv'
    BY <2>2, OfflinePresence, UserOfflineTxPresence
  <2>3. ASSUME NEW i \in Instances, Boot(i) \/ Dispose(i) \/ Exit(i)
        PROVE  PresenceInv'
    BY <2>3, BrokerPresence, ExitPresence
  <2>4. ASSUME NEW q \in Queries, Query(q) PROVE PresenceInv'
    BY <2>4, QueryPresence
  <2> QED
    BY <1>2, <2>1, <2>2, <2>3, <2>4, ExpiryPresence DEF Next
<1> QED
  BY <1>1, <1>2

\* In every state what the registry holds of a user, his devices, him being online and
\* the last event, is accounted for by a session of his (HandleEvents, User.*).
THEOREM PresenceInvariant == Spec => []PresenceInv
<1>1. TypeOK /\ PresenceInv /\ [Next]_vars => TypeOK' /\ PresenceInv'
  BY NextTypeOK, NextPresence
<1> QED
  BY InitTypeOK, InitPresence, <1>1, PTL DEF Spec

\* No device stays in its user's set beyond the sessions that put it there, but for
\* crashes and Redis errors (handleDeviceOnline, handleDeviceOffline, validateDeviceSet).
THEOREM PresenceHasSession == Spec => []NoGhostPresence
BY PresenceInvariant, PTL DEF PresenceInv

\* However the sessions of a user leave, one of them finds itself the last and takes
\* the user out of the online set (User.handleDeviceOffline, User.offline).
THEOREM OnlineHasSession == Spec => []OnlineUsersJustified
BY PresenceInvariant, PTL DEF PresenceInv

\* And the last that was published of him is then that he is offline.
THEOREM EventHasSession == Spec => []LastUserEventJustified
BY PresenceInvariant, PTL DEF PresenceInv

=============================================================================
