---------------------------- MODULE UserSetProofs ----------------------------
(***************************************************************************)
(* Proof that SessionRegistry keeps the device of a session that is being  *)
(* served, and whose heartbeats are in time, in its user's set: only       *)
(* User.offline takes it out, or a goroutine that takes it for the device  *)
(* of an earlier session. With crashes, restarts, expiries, Redis errors,  *)
(* late heartbeats of other devices and devices that change hands.         *)
(***************************************************************************)
EXTENDS RegistryBooksProofs

\* The two steps of validateDeviceSet, in each of its callers.
CheckAt == {"check", "checkOff", "checkInfo"}
PruneAt == {"prune", "pruneOff", "pruneInfo"}

Punctual(d) == d \notin SlowDevices

\* The heartbeats, if in time, keep the key.
KeyKept ==
    \A c \in Conns : Punctual(deviceOf[c]) /\ KeepsDeviceKey(c) => deviceOf[c] \in deviceKeys

\* A session of the device is over.
DeviceOver(d) == \E e \in Conns : deviceOf[e] = d /\ IsOver(e)

\* What a broker that does not listen has in its set, or in its list, is of sessions
\* that are over, and so is the device it is taking offline.
ResidueOver ==
    \A i \in Instances :
        /\ ~Listening(i) => \A d \in instSet[i] \cup todo[i] : DeviceOver(d)
        /\ pc[i] \in OfflineSteps => DeviceOver(device[i].id)

\* A goroutine remembers devices only until it has pruned them. Each is the device of a
\* session of the user that was present, and is over if the goroutine is to prune it.
SeenOf(a, d) ==
    \E e \in SessionsOf(device[a].uid) :
        deviceOf[e] = d /\ (IsOver(e) \/ (pc[a] \in CheckAt /\ pc[e] \in AfterUserTx))

SeenOver ==
    \A a \in Actors : /\ seen[a] # {} => pc[a] \in CheckAt \cup PruneAt
                      /\ \A d \in seen[a] : Punctual(d) => SeenOf(a, d)

\* A session whose clean-up was cut short is over.
LeakedOver == \A c \in Conns : c \in leaked => IsOver(c)

\* The inductive invariant, on top of what is already proved (Known).
ListedInv == userSet[None] = {} /\ LeakedOver /\ KeyKept /\ ResidueOver /\ SeenOver

\* What SessionRegistryProofs and RegistryBooksProofs show.
Known == TypeOK /\ PresenceInv /\ BooksInv

\* The initial state serves nobody.
LEMMA InitListed == Init => ListedInv
<1> SUFFICES ASSUME Init PROVE ListedInv
  OBVIOUS
<1> USE ConstantsAssumption DEF ConstantsAssumption, Init, Actors, UserKeys
<1>1. LeakedOver /\ KeyKept
  BY DEF LeakedOver, KeyKept, KeepsDeviceKey, BeforeUserTx, AfterUserTx
<1>2. ResidueOver /\ SeenOver
  BY DEF ResidueOver, SeenOver, OfflineSteps, BeforeUserTxOff, AfterUserTxOff
<1> QED
  BY <1>1, <1>2 DEF ListedInv

\* Where a session is, in three stretches it goes through in order.
Before(c) == pc[c] \in {"idle"} \cup BeforeUserTx

\* It is in exactly one of the three.
LEMMA Stretches ==
    ASSUME TypeOK, NEW c \in Conns
    PROVE  /\ Before(c) \/ pc[c] \in AfterUserTx \/ IsOver(c)
           /\ ~(Before(c) /\ pc[c] \in AfterUserTx)
           /\ ~(Before(c) /\ IsOver(c))
           /\ ~(pc[c] \in AfterUserTx /\ IsOver(c))
BY DEF TypeOK, Before, IsOver, ConnSteps, BeforeUserTx, AfterUserTx, OfflineSteps,
   BeforeUserTxOff, AfterUserTxOff

\* No step goes back in this order.
LEMMA Forward ==
    ASSUME TypeOK, [Next]_vars, NEW c \in Conns
    PROVE  /\ IsOver(c) => IsOver(c)'
           /\ pc[c] \in AfterUserTx => pc'[c] \in AfterUserTx \/ IsOver(c)'
           /\ Before(c) => Before(c)' \/ IsOver(c)' \/ pc'[c] \in AfterUserTx
<1> USE ConstantsAssumption DEF ConstantsAssumption, TypeOK, Goto, Actors, IsOver, Before,
        BeforeUserTx, AfterUserTx, BeforeUserTxOff, AfterUserTxOff, OfflineSteps, AfterOffline
<1>1. CASE NewDevice(c) \/ GoOnline(c) \/ Heartbeat(c) \/ Leave(c)
  BY <1>1 DEF NewDevice, Heartbeat, Leave, GoOnline, AddLocal, AddDeviceTx,
     DispatchDeviceOnline, UserOnlineTx, CheckOnline, Validate, PruneOnline, PruneStale,
     UserOn, DispatchUserOnline
<1>2. CASE GoOffline(c)
  BY <1>2 DEF GoOffline, DelLocal, DelDeviceTx, DispatchDeviceOffline, UserOfflineTx,
     CheckOffline, Validate, PruneOffline, PruneStale, UserOff, DispatchUserOffline
<1>3. ASSUME NEW i \in Instances, Exit(i)
      PROVE  pc'[c] = pc[c] \/ pc'[c] = "crashed"
  BY <1>3 DEF Exit
<1>4. ASSUME NEW e \in Conns \ {c},
             NewDevice(e) \/ GoOnline(e) \/ Heartbeat(e) \/ Leave(e) \/ GoOffline(e)
      PROVE  pc'[c] = pc[c]
  BY <1>4, OnlineMoves, OfflineMoves DEF OnlyMoves
<1>5. ASSUME NEW i \in Instances, GoOffline(i) \/ Boot(i) \/ Dispose(i)
      PROVE  pc'[c] = pc[c]
  BY <1>5, OfflineMoves, BrokerMoves DEF OnlyMoves
<1>6. ASSUME NEW q \in Queries, Query(q)
      PROVE  pc'[c] = pc[c]
  BY <1>6, QueryMoves DEF OnlyMoves
<1>7. ASSUME \/ \E d \in Devices : DeviceKeyExpires(d)
             \/ \E u \in Users : UserSetExpires(u)
             \/ UNCHANGED vars
      PROVE  pc'[c] = pc[c]
  BY <1>7 DEF DeviceKeyExpires, UserSetExpires, vars
<1>8. CASE RedisError(c)
  BY <1>8 DEF RedisError, OnError
<1>9. ASSUME NEW a \in (Conns \cup Instances) \ {c}, RedisError(a)
      PROVE  pc'[c] = pc[c]
  BY <1>9 DEF RedisError
<1> QED
  BY <1>1, <1>2, <1>3, <1>4, <1>5, <1>6, <1>7, <1>8, <1>9 DEF Next

\* What a step does to the device keys and hashes: only NewDevice writes a hash, only an
\* expiry removes a key.
LEMMA KeyEffect ==
    ASSUME TypeOK, [Next]_vars
    PROVE  \/ \E c \in Conns : NewDevice(c)
           \/ \E d \in Devices : DeviceKeyExpires(d)
           \/ /\ deviceKeys \subseteq deviceKeys'
              /\ \A c \in Conns : pc[c] = "idle" => ~KeepsDeviceKey(c)'
<1> USE DEF TypeOK, Goto, Actors, redisVars, deviceKey, KeepsDeviceKey, BeforeUserTx, AfterUserTx
<1>1. ASSUME NEW c \in Conns, GoOnline(c) \/ Heartbeat(c) \/ Leave(c)
      PROVE  deviceKeys \subseteq deviceKeys'
  BY <1>1 DEF GoOnline, AddLocal, AddDeviceTx, DispatchDeviceOnline, UserOnlineTx, CheckOnline,
     Validate, PruneOnline, PruneStale, UserOn, DispatchUserOnline, Heartbeat, Leave
<1>2. ASSUME NEW a \in Conns \cup Instances, GoOffline(a) \/ RedisError(a)
      PROVE  UNCHANGED deviceKey
  BY <1>2 DEF GoOffline, DelLocal, DelDeviceTx, DispatchDeviceOffline, UserOfflineTx,
     CheckOffline, Validate, PruneOffline, PruneStale, UserOff, DispatchUserOffline, RedisError
<1>3. ASSUME NEW i \in Instances, Boot(i) \/ Dispose(i) \/ Exit(i) PROVE UNCHANGED deviceKey
  BY <1>3 DEF Boot, ClearTx, ClearDevice, ClearSkip, ClearDone, StartTx, Dispose, Exit
<1>4. ASSUME NEW q \in Queries, Query(q) PROVE UNCHANGED deviceKey
  BY <1>4 DEF Query, QueryUser, CheckInfo, PruneInfo, Validate, PruneStale
<1>5. ASSUME (\E u \in Users : UserSetExpires(u)) \/ UNCHANGED vars PROVE UNCHANGED deviceKey
  BY <1>5 DEF UserSetExpires, vars
<1>6. (\E c \in Conns : NewDevice(c)) \/ \A c \in Conns : pc[c] = "idle" => ~KeepsDeviceKey(c)'
  <2> SUFFICES ASSUME NEW c \in Conns, pc[c] = "idle", \A e \in Conns : ~NewDevice(e)
               PROVE  ~KeepsDeviceKey(c)'
    OBVIOUS
  <2>1. ASSUME NEW a \in Actors, OnlyMoves(a), a # c PROVE pc'[c] = pc[c]
    BY <2>1 DEF OnlyMoves
  <2>2. ASSUME NEW e \in Conns, GoOnline(e) \/ Heartbeat(e) \/ Leave(e) PROVE pc'[c] = pc[c]
    BY <2>2, <2>1, OnlineMoves DEF GoOnline, AddLocal, AddDeviceTx, DispatchDeviceOnline,
       UserOnlineTx, CheckOnline, PruneOnline, UserOn, DispatchUserOnline, Heartbeat, Leave
  <2>3. ASSUME NEW a \in Conns \cup Instances, GoOffline(a) \/ RedisError(a)
        PROVE  pc'[c] \in {"idle", "done"}
    <3>1. CASE a # c
      BY <2>3, <2>1, <3>1, OfflineMoves
    <3>2. CASE a = c
      <4>1. ~GoOffline(a)
        BY <3>2 DEF GoOffline, DelLocal, DelDeviceTx, DispatchDeviceOffline, UserOfflineTx,
           CheckOffline, PruneOffline, UserOff, DispatchUserOffline
      <4>2. pc'[c] = OnError(c)
        BY <2>3, <3>2, <4>1 DEF RedisError
      <4> QED
        BY <4>2 DEF OnError
    <3> QED
      BY <3>1, <3>2
  <2>4. ASSUME NEW i \in Instances, Boot(i) \/ Dispose(i) \/ Exit(i) PROVE pc'[c] = pc[c]
    <3>1. CASE Exit(i)
      BY <3>1, ConstantsAssumption DEF ConstantsAssumption, Exit
    <3> QED
      BY <2>1, <2>4, <3>1, BrokerMoves, ConstantsAssumption DEF ConstantsAssumption
  <2>5. ASSUME NEW q \in Queries, Query(q) PROVE pc'[c] = pc[c]
    BY <2>1, <2>5, QueryMoves, ConstantsAssumption DEF ConstantsAssumption
  <2>6. ASSUME \/ \E d \in Devices : DeviceKeyExpires(d)
               \/ \E u \in Users : UserSetExpires(u)
               \/ UNCHANGED vars
        PROVE  pc'[c] = pc[c]
    BY <2>6 DEF DeviceKeyExpires, UserSetExpires, vars
  <2> QED
    BY <2>2, <2>3, <2>4, <2>5, <2>6 DEF Next
<1> QED
  BY <1>1, <1>2, <1>3, <1>4, <1>5, <1>6 DEF Next

\* Hence the keys are kept.
LEMMA NextKeys ==
    ASSUME TypeOK, KeyKept, [Next]_vars
    PROVE  KeyKept'
<1> USE ConstantsAssumption DEF ConstantsAssumption, TypeOK, Actors
<1>1. ASSUME NEW c \in Conns, NewDevice(c) PROVE KeyKept'
  <2>1. /\ \A e \in Conns \ {c} : pc'[e] = pc[e]
        /\ deviceKeys' = deviceKeys \cup {deviceOf[c]}
    BY <1>1 DEF NewDevice, Goto
  <2> QED
    BY <2>1 DEF KeyKept, KeepsDeviceKey
<1>2. ASSUME NEW d \in Devices, DeviceKeyExpires(d) PROVE KeyKept'
  <2>1. /\ \A c \in Conns : pc'[c] = pc[c]
        /\ ~Punctual(d) \/ ~\E c \in Conns : deviceOf[c] = d /\ KeepsDeviceKey(c)
        /\ deviceKeys' = deviceKeys \ {d}
    BY <1>2 DEF DeviceKeyExpires, Punctual
  <2> QED
    BY <2>1 DEF KeyKept, KeepsDeviceKey
<1>3. ASSUME /\ deviceKeys \subseteq deviceKeys'
             /\ \A c \in Conns : pc[c] = "idle" => ~KeepsDeviceKey(c)'
      PROVE  KeyKept'
  <2>1. \A c \in Conns : KeepsDeviceKey(c)' => KeepsDeviceKey(c)
    <3> SUFFICES ASSUME NEW c \in Conns, KeepsDeviceKey(c)' PROVE KeepsDeviceKey(c)
      OBVIOUS
    <3>1. ~IsOver(c)'
      BY DEF KeepsDeviceKey, IsOver, BeforeUserTx, AfterUserTx, OfflineSteps, BeforeUserTxOff,
         AfterUserTxOff
    <3>2. ~IsOver(c) /\ pc[c] # "idle"
      BY <1>3, <3>1, Forward
    <3> QED
      BY <3>2, Stretches DEF Before, KeepsDeviceKey
  <2> QED
    BY <1>3, <2>1 DEF KeyKept
<1> QED
  BY <1>1, <1>2, <1>3, KeyEffect

\* Nobody but the broker adds to its list, or, while it does not listen, to its set.
LEMMA OthersResidue ==
    ASSUME TypeOK, OwnDevice, Served, [Next]_vars, NEW i \in Instances,
           ~BrokerStep(i), ~Exit(i)
    PROVE  /\ pc'[i] = pc[i] /\ todo'[i] = todo[i] /\ device'[i] = device[i]
           /\ ~Listening(i) => instSet'[i] \subseteq instSet[i]
<1> USE ConstantsAssumption DEF ConstantsAssumption, TypeOK, Goto, Actors, redisVars
<1>1. ASSUME NEW c \in Conns, ConnStep(c)
      PROVE  /\ pc'[i] = pc[i] /\ todo'[i] = todo[i] /\ device'[i] = device[i]
             /\ ~Listening(i) => instSet'[i] \subseteq instSet[i]
  <2>1. pc'[i] = pc[i]
    BY <1>1, ConnMoves
  <2>2. UNCHANGED <<todo, device>>
    BY <1>1 DEF ConnStep, NewDevice, Heartbeat, Leave, GoOnline, AddLocal, AddDeviceTx,
       DispatchDeviceOnline, UserOnlineTx, CheckOnline, Validate, PruneOnline, PruneStale,
       UserOn, DispatchUserOnline, GoOffline, DelLocal, DelDeviceTx, DispatchDeviceOffline,
       UserOfflineTx, CheckOffline, PruneOffline, UserOff, DispatchUserOffline, RedisError
  <2>3. pc[c] \in {"addTx", "delTx"} => Listening(instanceOf[c])
    BY DEF Served
  <2>4. \/ pc[c] \in {"addTx", "delTx"} /\ \A j \in Instances \ {instanceOf[c]} :
                                            instSet'[j] = instSet[j]
        \/ UNCHANGED instSet
    BY <1>1, ConnCounts
  <2>5. ~Listening(i) => instSet'[i] \subseteq instSet[i]
    BY <2>3, <2>4
  <2> QED
    BY <2>1, <2>2, <2>5
<1>2. ASSUME NEW j \in Instances \ {i}, BrokerStep(j)
      PROVE  /\ pc'[i] = pc[i] /\ todo'[i] = todo[i] /\ device'[i] = device[i]
             /\ instSet'[i] = instSet[i]
  <2>1. pc'[i] = pc[i] /\ instSet'[i] = instSet[i]
    BY <1>2, BrokerStepMoves
  <2>2. todo'[i] = todo[i] /\ device'[i] = device[i]
    BY <1>2 DEF BrokerStep, GoOffline, DelLocal, DelDeviceTx, DispatchDeviceOffline,
       UserOfflineTx, CheckOffline, Validate, PruneOffline, PruneStale, UserOff,
       DispatchUserOffline, RedisError, Boot, ClearTx, ClearDevice, ClearSkip, ClearDone, StartTx,
       Dispose
  <2> QED
    BY <2>1, <2>2
<1>3. ASSUME NEW j \in Instances \ {i}, Exit(j)
      PROVE  /\ pc'[i] = pc[i] /\ todo'[i] = todo[i] /\ device'[i] = device[i]
             /\ instSet'[i] = instSet[i]
  BY <1>3 DEF Exit
<1>4. ASSUME NEW q \in Queries, Query(q)
      PROVE  /\ pc'[i] = pc[i] /\ todo'[i] = todo[i] /\ device'[i] = device[i]
             /\ instSet'[i] = instSet[i]
  BY <1>4 DEF Query, QueryUser, CheckInfo, PruneInfo, Validate, PruneStale
<1>5. ASSUME \/ \E d \in Devices : DeviceKeyExpires(d)
             \/ \E u \in Users : UserSetExpires(u)
             \/ UNCHANGED vars
      PROVE  /\ pc'[i] = pc[i] /\ todo'[i] = todo[i] /\ device'[i] = device[i]
             /\ instSet'[i] = instSet[i]
  BY <1>5 DEF DeviceKeyExpires, UserSetExpires, vars
<1> QED
  BY <1>1, <1>2, <1>3, <1>4, <1>5 DEF Next, ConnStep, BrokerStep

\* The broker itself only moves what its set held to its list, and takes offline what is
\* in its list.
LEMMA OwnResidue ==
    ASSUME TypeOK, NEW i \in Instances, BrokerStep(i)
    PROVE  /\ ~Listening(i)' => /\ ~Listening(i)
                               /\ instSet'[i] \cup todo'[i] \subseteq instSet[i] \cup todo[i]
           /\ pc'[i] \in OfflineSteps =>
                \/ pc[i] \in OfflineSteps /\ device'[i] = device[i]
                \/ \E d \in todo[i] : ~Listening(i) /\ device'[i] = RedisDevice(d)
<1> USE ConstantsAssumption DEF ConstantsAssumption, TypeOK, Goto, Actors, redisVars, Listening,
        AfterOffline, OfflineSteps, BeforeUserTxOff, AfterUserTxOff
<1>1. CASE DelLocal(i) \/ DelDeviceTx(i) \/ DispatchDeviceOffline(i)
  BY <1>1 DEF DelLocal, DelDeviceTx, DispatchDeviceOffline, BrokerOf, InstanceSetWithout
<1>2. CASE UserOfflineTx(i) \/ CheckOffline(i) \/ PruneOffline(i) \/ UserOff(i)
             \/ DispatchUserOffline(i)
  BY <1>2 DEF UserOfflineTx, CheckOffline, Validate, PruneOffline, PruneStale, UserOff,
     DispatchUserOffline
<1>3. CASE RedisError(i)
  <2>1. UNCHANGED <<instSet, todo, device>>
    BY <1>3 DEF RedisError
  <2>2. pc[i] \in OfflineSteps
    BY <1>3 DEF RedisError, ConnSteps, BrokerSteps, BeforeUserTx, AfterUserTx
  <2> QED
    BY <2>1, <2>2
<1>4. CASE ClearTx(i)
  BY <1>4 DEF ClearTx, Residue
<1>5. CASE StartTx(i) \/ Dispose(i)
  BY <1>5 DEF StartTx, Dispose
<1>6. CASE ClearDevice(i) \/ ClearSkip(i) \/ ClearDone(i)
  BY <1>6 DEF ClearDevice, ClearSkip, ClearDone
<1> QED
  BY <1>1, <1>2, <1>3, <1>4, <1>5, <1>6 DEF BrokerStep, GoOffline, Boot

\* Hence what a broker finds of its last run is of sessions that are over, and so is
\* what it takes offline.
LEMMA NextResidue ==
    ASSUME Known, ResidueOver, [Next]_vars
    PROVE  ResidueOver'
<1> SUFFICES ASSUME NEW i \in Instances
             PROVE  /\ ~Listening(i)' => \A d \in instSet'[i] \cup todo'[i] :
                         \E e \in Conns : deviceOf[e] = d /\ IsOver(e)'
                    /\ pc'[i] \in OfflineSteps =>
                         \E e \in Conns : deviceOf[e] = device'[i].id /\ IsOver(e)'
  BY DEF ResidueOver, DeviceOver
<1>1. \A e \in Conns : IsOver(e) => IsOver(e)'
  BY Forward DEF Known
<1>2. /\ ~Listening(i) => \A d \in instSet[i] \cup todo[i] :
           \E e \in Conns : deviceOf[e] = d /\ IsOver(e)'
      /\ pc[i] \in OfflineSteps =>
           \E e \in Conns : deviceOf[e] = device[i].id /\ IsOver(e)'
  BY <1>1 DEF ResidueOver, DeviceOver
<1>3. CASE ~BrokerStep(i) /\ ~Exit(i)
  BY <1>2, <1>3, OthersResidue DEF Known, BooksInv, Listening
<1>4. CASE BrokerStep(i)
  <2>1. ASSUME NEW d \in todo[i], ~Listening(i), device'[i] = RedisDevice(d)
        PROVE  \E e \in Conns : deviceOf[e] = device'[i].id /\ IsOver(e)'
    <3>1. device'[i].id = d
      BY <2>1 DEF RedisDevice
    <3> QED
      BY <1>2, <2>1, <3>1
  <2> QED
    BY <1>2, <1>4, <2>1, OwnResidue DEF Known
<1>5. CASE Exit(i)
  <2>1. /\ todo'[i] = {} /\ instSet'[i] = instSet[i] /\ pc'[i] = "down"
        /\ \A e \in Conns : instanceOf[e] = i /\ pc[e] \notin {"idle", "done"}
                            => pc'[e] = "crashed"
    BY <1>5, ConstantsAssumption
    DEF Exit, Known, TypeOK, Actors, redisVars, ConstantsAssumption
  <2>2. CASE Listening(i)
    <3> SUFFICES ASSUME NEW d \in instSet[i]
                 PROVE  \E e \in Conns : deviceOf[e] = d /\ IsOver(e)'
      BY <2>1 DEF OfflineSteps, BeforeUserTxOff, AfterUserTxOff
    <3>1. PICK e \in RegisteredAt(i) : deviceOf[e] = d
      BY <2>2 DEF Known, BooksInv, InstanceSetAccurate, Listening
    <3>2. e \in Conns /\ pc'[e] = "crashed"
      BY <2>1, <3>1 DEF RegisteredAt, Registered, AfterUserTx
    <3> QED
      BY <3>1, <3>2 DEF IsOver
  <2>3. CASE ~Listening(i)
    BY <1>2, <2>1, <2>3 DEF OfflineSteps, BeforeUserTxOff, AfterUserTxOff
  <2> QED
    BY <2>2, <2>3
<1> QED
  BY <1>3, <1>4, <1>5

\* What a goroutine does of itself, short of an exit.
StepOf(a) ==
    \/ a \in Conns /\ ConnStep(a)
    \/ a \in Instances /\ BrokerStep(a)
    \/ a \in Queries /\ Query(a)

\* It changes the place, the memory and the *Device of no other goroutine.
LEMMA StepsAlone ==
    ASSUME TypeOK, NEW b \in Actors, StepOf(b), NEW a \in Actors \ {b}
    PROVE  seen'[a] = seen[a] /\ pc'[a] = pc[a] /\ device'[a] = device[a]
<1> USE ConstantsAssumption DEF ConstantsAssumption, TypeOK, Goto, Actors
<1>1. CASE b \in Conns /\ (NewDevice(b) \/ GoOnline(b) \/ Heartbeat(b) \/ Leave(b))
  BY <1>1 DEF NewDevice, Heartbeat, Leave, GoOnline, AddLocal, AddDeviceTx,
     DispatchDeviceOnline, UserOnlineTx, CheckOnline, Validate, PruneOnline, PruneStale,
     UserOn, DispatchUserOnline
<1>2. CASE GoOffline(b)
  BY <1>2 DEF GoOffline, DelLocal, DelDeviceTx, DispatchDeviceOffline, UserOfflineTx,
     CheckOffline, Validate, PruneOffline, PruneStale, UserOff, DispatchUserOffline
<1>3. CASE RedisError(b)
  BY <1>3 DEF RedisError
<1>4. CASE b \in Instances /\ (Boot(b) \/ Dispose(b))
  BY <1>4 DEF Boot, ClearTx, ClearDevice, ClearSkip, ClearDone, StartTx, Dispose
<1>5. CASE b \in Queries /\ Query(b)
  BY <1>5 DEF Query, QueryUser, CheckInfo, PruneInfo, Validate, PruneStale
<1> QED
  BY <1>1, <1>2, <1>3, <1>4, <1>5 DEF StepOf, ConnStep, BrokerStep

\* A goroutine's memory is empty after the step, or untouched, or what it just read in
\* the set of its user, or what of it is to be pruned.
SeenStep(a) ==
    \/ seen'[a] = {}
    \/ seen'[a] = seen[a] /\ pc'[a] = pc[a] /\ device'[a] = device[a]
    \/ seen'[a] \subseteq userSet[device'[a].uid] /\ pc'[a] \in CheckAt
    \/ /\ pc[a] \in CheckAt /\ pc'[a] \in PruneAt
       /\ seen'[a] = Stale(seen[a]) /\ device'[a] = device[a]

\* validateDeviceSet narrows what was read to what is stale.
LEMMA ValidateSeen ==
    ASSUME TypeOK, NEW a \in Actors, pc[a] \in CheckAt,
           NEW prune \in PruneAt, NEW last, NEW more, Validate(a, prune, last, more)
    PROVE  SeenStep(a)
BY DEF TypeOK, Validate, SeenStep, Goto

\* What a step does to what its goroutine, or any other, has read.
LEMMA SeenEffect ==
    ASSUME TypeOK, OwnDevice, [Next]_vars, NEW a \in Actors,
           seen[a] # {} => pc[a] \in CheckAt \cup PruneAt
    PROVE  SeenStep(a)
<1> USE ConstantsAssumption DEF ConstantsAssumption, TypeOK, Goto, Actors, CheckAt, PruneAt
<1>1. CASE a \in Conns /\ GoOnline(a)
  <2>1. device[a].uid = uidOf[a]
    BY <1>1, OwnIds
  <2>2. CASE UserOnlineTx(a)
    BY <1>1, <2>1, <2>2 DEF UserOnlineTx, SeenStep, UserKeys
  <2>3. CASE CheckOnline(a)
    BY <2>3, ValidateSeen DEF CheckOnline
  <2>4. CASE PruneOnline(a)
    BY <2>4 DEF PruneOnline, PruneStale, SeenStep
  <2> QED
    BY <1>1, <2>2, <2>3, <2>4 DEF GoOnline, AddLocal, AddDeviceTx, DispatchDeviceOnline,
       UserOn, DispatchUserOnline, SeenStep
<1>2. CASE GoOffline(a)
  <2>1. CASE UserOfflineTx(a)
    BY <2>1 DEF UserOfflineTx, Rest, SeenStep
  <2>2. CASE CheckOffline(a)
    BY <2>2, ValidateSeen DEF CheckOffline
  <2>3. CASE PruneOffline(a)
    BY <2>3 DEF PruneOffline, PruneStale, SeenStep
  <2> QED
    BY <1>2, <2>1, <2>2, <2>3 DEF GoOffline, DelLocal, DelDeviceTx, DispatchDeviceOffline,
       UserOff, DispatchUserOffline, SeenStep
<1>3. CASE a \in Queries /\ Query(a)
  <2>1. CASE QueryUser(a)
    BY <2>1 DEF QueryUser, SeenStep
  <2>2. CASE CheckInfo(a)
    BY <2>2, ValidateSeen DEF CheckInfo
  <2>3. CASE PruneInfo(a)
    BY <2>3 DEF PruneInfo, PruneStale, SeenStep
  <2> QED
    BY <1>3, <2>1, <2>2, <2>3 DEF Query
<1>4. CASE RedisError(a)
  BY <1>4 DEF RedisError, SeenStep
<1>5. CASE a \in Conns /\ (NewDevice(a) \/ Heartbeat(a) \/ Leave(a))
  BY <1>5 DEF NewDevice, Heartbeat, Leave, SeenStep
<1>6. CASE a \in Instances /\ (Boot(a) \/ Dispose(a))
  BY <1>6 DEF Boot, ClearTx, ClearDevice, ClearSkip, ClearDone, StartTx, Dispose, SeenStep
<1>7. ASSUME NEW b \in Actors \ {a}, StepOf(b) PROVE SeenStep(a)
  BY <1>7, StepsAlone DEF SeenStep
<1>8. ASSUME NEW i \in Instances, Exit(i) PROVE SeenStep(a)
  BY <1>8 DEF Exit, BrokerOf, SeenStep
<1>9. CASE \/ \E d \in Devices : DeviceKeyExpires(d)
           \/ \E u \in Users : UserSetExpires(u)
           \/ UNCHANGED vars
  BY <1>9 DEF DeviceKeyExpires, UserSetExpires, vars, SeenStep
<1> QED
  BY <1>1, <1>2, <1>3, <1>4, <1>5, <1>6, <1>7, <1>8, <1>9
  DEF Next, StepOf, ConnStep, BrokerStep

\* Hence what goroutines are to prune is of sessions that are over: while a session is
\* served its device's key is there, and the check finds it.
LEMMA NextSeen ==
    ASSUME Known, ListedInv, [Next]_vars
    PROVE  SeenOver'
<1>1. \A e \in Conns : /\ IsOver(e) => IsOver(e)'
                       /\ pc[e] \in AfterUserTx => pc'[e] \in AfterUserTx \/ IsOver(e)'
  BY Forward DEF Known
<1> SUFFICES ASSUME NEW a \in Actors
             PROVE  /\ seen'[a] # {} => pc'[a] \in CheckAt \cup PruneAt
                    /\ \A d \in seen'[a] : Punctual(d) => \E e \in Conns :
                         /\ uidOf[e] = device'[a].uid /\ deviceOf[e] = d
                         /\ IsOver(e)' \/ (pc'[a] \in CheckAt /\ pc'[e] \in AfterUserTx)
  BY DEF SeenOver, SeenOf, SessionsOf, Punctual
<1>2. /\ seen[a] # {} => pc[a] \in CheckAt \cup PruneAt
      /\ \A d \in seen[a] : Punctual(d) => \E e \in Conns :
           /\ uidOf[e] = device[a].uid /\ deviceOf[e] = d
           /\ IsOver(e) \/ (pc[a] \in CheckAt /\ pc[e] \in AfterUserTx)
  BY DEF ListedInv, SeenOver, SeenOf, SessionsOf
<1>3. CASE seen'[a] = {}
  BY <1>3
<1>4. CASE seen'[a] = seen[a] /\ pc'[a] = pc[a] /\ device'[a] = device[a]
  BY <1>1, <1>2, <1>4
<1>5. CASE seen'[a] \subseteq userSet[device'[a].uid] /\ pc'[a] \in CheckAt
  <2> DEFINE u == device'[a].uid
  <2> SUFFICES ASSUME NEW d \in userSet[u]
               PROVE  \E e \in Conns : /\ uidOf[e] = u /\ deviceOf[e] = d
                                       /\ IsOver(e)' \/ pc'[e] \in AfterUserTx
    BY <1>5
  <2>1. u \in Users
    <3>1. TypeOK'
      BY NextTypeOK DEF Known
    <3>2. u \in UserKeys
      BY <3>1 DEF TypeOK
    <3> QED
      BY <3>2 DEF ListedInv, UserKeys
  <2>2. PICK e \in Conns : uidOf[e] = u /\ deviceOf[e] = d /\ Holds(e)
    BY <2>1 DEF Known, PresenceInv, NoGhostPresence, SessionsOf
  <2>3. IsOver(e) \/ pc[e] \in AfterUserTx
    BY <2>2 DEF Holds, Present, Lost, IsOver, OfflineSteps, ListedInv, LeakedOver
  <2> QED
    BY <1>1, <2>2, <2>3
<1>6. CASE /\ pc[a] \in CheckAt /\ pc'[a] \in PruneAt
           /\ seen'[a] = Stale(seen[a]) /\ device'[a] = device[a]
  <2> SUFFICES ASSUME NEW d \in seen[a], Punctual(d), d \notin deviceKeys
               PROVE  \E e \in Conns : /\ uidOf[e] = device'[a].uid /\ deviceOf[e] = d
                                       /\ IsOver(e)'
    BY <1>6 DEF Stale
  <2>1. PICK e \in Conns : /\ uidOf[e] = device[a].uid /\ deviceOf[e] = d
                           /\ IsOver(e) \/ pc[e] \in AfterUserTx
    BY <1>2
  <2>2. pc[e] \notin AfterUserTx
    BY <2>1 DEF ListedInv, KeyKept, KeepsDeviceKey
  <2> QED
    BY <1>1, <1>6, <2>1, <2>2
<1> QED
  BY <1>2, <1>3, <1>4, <1>5, <1>6, SeenEffect DEF SeenStep, Known, PresenceInv

\* Who may take a device out of a user's set: who prunes what it remembers, who goes
\* offline as this device of this user, User.offline, and the expiry of the whole set.
TakesOut(u, d) ==
    \/ \E a \in Actors : pc[a] \in PruneAt /\ device[a].uid = u /\ d \in seen[a]
    \/ \E a \in Conns \cup Instances : /\ pc[a] \in OfflineSteps
                                      /\ device[a].uid = u /\ device[a].id = d
    \/ \E a \in Conns \cup Instances : UserOff(a) /\ device[a].uid = u
    \/ UserSetExpires(u)

\* Pruning takes out only what the goroutine has read and found stale.
LEMMA PruneTakesOut ==
    ASSUME TypeOK, NEW a \in Actors, pc[a] \in PruneAt, NEW v, v = device[a].uid,
           NEW last, NEW more, PruneStale(a, v, last, more),
           NEW u \in Users, NEW d \in userSet[u]
    PROVE  d \in userSet'[u] \/ TakesOut(u, d)
BY DEF TypeOK, PruneStale, TakesOut

\* Hence whatever leaves a user's set was taken out in one of these ways.
LEMMA UserSetEffect ==
    ASSUME TypeOK, OwnDevice, [Next]_vars, NEW u \in Users, NEW d \in userSet[u]
    PROVE  d \in userSet'[u] \/ TakesOut(u, d)
<1> USE ConstantsAssumption DEF ConstantsAssumption, TypeOK, redisVars, UserKeys, Actors
<1>1. ASSUME NEW c \in Conns, GoOnline(c) PROVE d \in userSet'[u] \/ TakesOut(u, d)
  <2>1. CASE UserOnlineTx(c) \/ UserOn(c)
    <3>1. uidOf[c] \in UserKeys
      OBVIOUS
    <3>2. userSet' = [userSet EXCEPT ![uidOf[c]] = @ \cup {deviceOf[c]}]
      BY <2>1 DEF UserOnlineTx, UserOn
    <3> QED
      BY <3>1, <3>2
  <2>2. CASE PruneOnline(c)
    <3>1. uidOf[c] = device[c].uid
      BY OwnIds
    <3> QED
      BY <2>2, <3>1, PruneTakesOut DEF PruneOnline, PruneAt
  <2> QED
    BY <1>1, <2>1, <2>2 DEF GoOnline, AddLocal, AddDeviceTx, DispatchDeviceOnline,
       CheckOnline, Validate, DispatchUserOnline
<1>2. ASSUME NEW a \in Conns \cup Instances, GoOffline(a)
      PROVE  d \in userSet'[u] \/ TakesOut(u, d)
  <2>1. CASE UserOfflineTx(a)
    <3>1. /\ pc[a] = "userTxOff" /\ device[a] \in [id : Devices \cup {None}, uid : UserKeys]
          /\ userSet' = [userSet EXCEPT ![device[a].uid] = userSet[device[a].uid] \ {device[a].id}]
      BY <2>1 DEF UserOfflineTx, Rest
    <3>2. CASE device[a].uid = u /\ device[a].id = d
      BY <3>1, <3>2 DEF TakesOut, OfflineSteps, BeforeUserTxOff
    <3> QED
      BY <3>1, <3>2
  <2>3. CASE UserOff(a)
    BY <2>3 DEF UserOff, TakesOut
  <2>2. CASE PruneOffline(a)
    BY <2>2, PruneTakesOut DEF PruneOffline, PruneAt
  <2> QED
    BY <1>2, <2>1, <2>2, <2>3 DEF GoOffline, DelLocal, DelDeviceTx, DispatchDeviceOffline,
       CheckOffline, Validate, DispatchUserOffline
<1>3. ASSUME NEW q \in Queries, Query(q) PROVE d \in userSet'[u] \/ TakesOut(u, d)
  <2>1. CASE PruneInfo(q)
    BY <2>1, PruneTakesOut DEF PruneInfo, PruneAt
  <2> QED
    BY <1>3, <2>1 DEF Query, QueryUser, CheckInfo, Validate
<1>4. ASSUME NEW v \in Users, UserSetExpires(v) PROVE d \in userSet'[u] \/ TakesOut(u, d)
  BY <1>4 DEF UserSetExpires, TakesOut
<1>5. ASSUME NEW c \in Conns, NewDevice(c) \/ Heartbeat(c) \/ Leave(c)
      PROVE  d \in userSet'[u]
  BY <1>5 DEF NewDevice, Heartbeat, Leave
<1>6. ASSUME NEW i \in Instances, Boot(i) \/ Dispose(i) \/ Exit(i) PROVE d \in userSet'[u]
  BY <1>6 DEF Boot, ClearTx, ClearDevice, ClearSkip, ClearDone, StartTx, Dispose, Exit
<1>7. ASSUME \/ \E a \in Conns \cup Instances : RedisError(a)
             \/ \E e \in Devices : DeviceKeyExpires(e)
             \/ UNCHANGED vars
      PROVE  d \in userSet'[u]
  BY <1>7 DEF RedisError, DeviceKeyExpires, vars
<1> QED
  BY <1>1, <1>2, <1>3, <1>4, <1>5, <1>6, <1>7 DEF Next

\* The empty string's set stays empty.
LEMMA NextNone ==
    ASSUME TypeOK, userSet[None] = {}, [Next]_vars
    PROVE  userSet'[None] = {}
<1> USE ConstantsAssumption DEF ConstantsAssumption, TypeOK, redisVars, UserKeys
<1>1. ASSUME NEW c \in Conns, NewDevice(c) \/ GoOnline(c) \/ Heartbeat(c) \/ Leave(c)
      PROVE  userSet'[None] = {}
  <2>1. CASE UserOnlineTx(c) \/ UserOn(c)
    <3>1. uidOf[c] \in UserKeys \ {None}
      OBVIOUS
    <3>2. userSet' = [userSet EXCEPT ![uidOf[c]] = @ \cup {deviceOf[c]}]
      BY <2>1 DEF UserOnlineTx, UserOn
    <3> QED
      BY <3>1, <3>2
  <2>2. CASE PruneOnline(c)
    BY <2>2 DEF PruneOnline, PruneStale
  <2> QED
    BY <1>1, <2>1, <2>2 DEF NewDevice, Heartbeat, Leave, GoOnline, AddLocal, AddDeviceTx,
       DispatchDeviceOnline, CheckOnline, Validate, DispatchUserOnline
<1>2. ASSUME NEW a \in Conns \cup Instances, GoOffline(a)
      PROVE  userSet'[None] = {}
  BY <1>2 DEF GoOffline, DelLocal, DelDeviceTx, DispatchDeviceOffline, UserOfflineTx, Rest,
     CheckOffline, Validate, PruneOffline, PruneStale, UserOff, DispatchUserOffline
<1>3. ASSUME NEW i \in Instances, Boot(i) \/ Dispose(i) \/ Exit(i)
      PROVE  userSet'[None] = {}
  BY <1>3 DEF Boot, ClearTx, ClearDevice, ClearSkip, ClearDone, StartTx, Dispose, Exit
<1>4. ASSUME NEW q \in Queries, Query(q) PROVE userSet'[None] = {}
  BY <1>4 DEF Query, QueryUser, CheckInfo, PruneInfo, Validate, PruneStale
<1>5. ASSUME \/ \E d \in Devices : DeviceKeyExpires(d)
             \/ \E u \in Users : UserSetExpires(u)
             \/ UNCHANGED vars
      PROVE  userSet'[None] = {}
  BY <1>5 DEF DeviceKeyExpires, UserSetExpires, vars
<1>6. ASSUME NEW a \in Conns \cup Instances, RedisError(a) PROVE userSet'[None] = {}
  BY <1>6 DEF RedisError
<1> QED
  BY <1>1, <1>2, <1>3, <1>4, <1>5, <1>6 DEF Next

\* A clean-up that fails is one of a session that is over.
LEMMA NextLeaked ==
    ASSUME TypeOK, LeakedOver, [Next]_vars
    PROVE  LeakedOver'
<1> USE ConstantsAssumption DEF ConstantsAssumption, TypeOK
<1> SUFFICES ASSUME NEW c \in Conns, c \in leaked' PROVE IsOver(c)'
  BY DEF LeakedOver
<1>1. c \in leaked \/ IsOver(c)
  <2>1. ASSUME NEW a \in Conns \cup Instances, RedisError(a) PROVE c \in leaked \/ IsOver(c)
    BY <2>1 DEF RedisError, IsOver, OfflineSteps, BeforeUserTxOff, AfterUserTxOff
  <2>2. (\A a \in Conns \cup Instances : ~RedisError(a)) => UNCHANGED leaked
    <3>1. ASSUME NEW e \in Conns, NewDevice(e) \/ GoOnline(e) \/ Heartbeat(e) \/ Leave(e)
          PROVE  UNCHANGED leaked
      BY <3>1 DEF NewDevice, Heartbeat, Leave, GoOnline, AddLocal, AddDeviceTx,
         DispatchDeviceOnline, UserOnlineTx, CheckOnline, Validate, PruneOnline, PruneStale,
         UserOn, DispatchUserOnline
    <3>2. ASSUME NEW a \in Conns \cup Instances, GoOffline(a) PROVE UNCHANGED leaked
      BY <3>2 DEF GoOffline, DelLocal, DelDeviceTx, DispatchDeviceOffline, UserOfflineTx,
         CheckOffline, Validate, PruneOffline, PruneStale, UserOff, DispatchUserOffline
    <3>3. ASSUME NEW i \in Instances, Boot(i) \/ Dispose(i) \/ Exit(i) PROVE UNCHANGED leaked
      BY <3>3 DEF Boot, ClearTx, ClearDevice, ClearSkip, ClearDone, StartTx, Dispose, Exit
    <3>4. ASSUME NEW q \in Queries, Query(q) PROVE UNCHANGED leaked
      BY <3>4 DEF Query, QueryUser, CheckInfo, PruneInfo, Validate, PruneStale
    <3>5. ASSUME \/ \E d \in Devices : DeviceKeyExpires(d)
                 \/ \E u \in Users : UserSetExpires(u)
                 \/ UNCHANGED vars
          PROVE  UNCHANGED leaked
      BY <3>5 DEF DeviceKeyExpires, UserSetExpires, vars
    <3> QED
      BY <3>1, <3>2, <3>3, <3>4, <3>5 DEF Next
  <2> QED
    BY <2>1, <2>2
<1> QED
  BY <1>1, Forward DEF LeakedOver

\* Whoever takes a served session's device out of its user's set takes the whole set, or
\* takes it for a session of the same device, and that one is over; the set itself outlives
\* the session's heartbeats.
LEMMA TakenForOver ==
    ASSUME Known, ListedInv, [Next]_vars, NEW c \in Conns, pc[c] \in AfterUserTx,
           Punctual(deviceOf[c]), LeavesUserSet(c)
    PROVE  \/ \E a \in Conns \cup Instances : UserOff(a) /\ device[a].uid = uidOf[c]
           \/ DeviceOver(deviceOf[c])
<1> DEFINE u == uidOf[c]
           d == deviceOf[c]
<1> USE DEF Known
<1>1. u \in Users /\ d \in userSet[u] /\ d \notin userSet'[u]
  BY ConstantsAssumption DEF ConstantsAssumption, LeavesUserSet, InUserSet
<1>2. TakesOut(u, d)
  BY <1>1, UserSetEffect DEF PresenceInv
<1>3. ASSUME NEW a \in Actors, pc[a] \in PruneAt, device[a].uid = u, d \in seen[a]
      PROVE  DeviceOver(d)
  BY <1>3 DEF ListedInv, SeenOver, SeenOf, SessionsOf, CheckAt, PruneAt, DeviceOver
<1>4. ASSUME NEW a \in Conns \cup Instances, pc[a] \in OfflineSteps, device[a].id = d
      PROVE  DeviceOver(d)
  <2>1. CASE a \in Conns
    <3>1. deviceOf[a] = d
      BY <1>4, <2>1, OwnIds DEF PresenceInv
    <3> QED
      BY <1>4, <2>1, <3>1 DEF DeviceOver, IsOver
  <2>2. CASE a \in Instances
    BY <1>4, <2>2 DEF ListedInv, ResidueOver
  <2> QED
    BY <2>1, <2>2
<1>5. ~UserSetExpires(u)
  BY DEF UserSetExpires, KeepsUserSet, Punctual
<1> QED
  BY <1>2, <1>3, <1>4, <1>5 DEF TakesOut

\* The invariant is inductive: what goroutines prune or take offline is of sessions that
\* are over (validateDeviceSet, handleDeviceOffline, clear).
THEOREM ListedInvariant == Spec => [](Known /\ ListedInv)
<1>1. Known /\ ListedInv /\ [Next]_vars => Known' /\ ListedInv'
  <2> SUFFICES ASSUME Known, ListedInv, [Next]_vars PROVE Known' /\ ListedInv'
    OBVIOUS
  <2>1. Known'
    BY NextTypeOK, NextPresence, NextBooks DEF Known
  <2>2. userSet'[None] = {} /\ LeakedOver' /\ KeyKept'
    BY NextNone, NextLeaked, NextKeys DEF ListedInv, Known
  <2>3. ResidueOver' /\ SeenOver'
    BY NextResidue, NextSeen DEF ListedInv
  <2> QED
    BY <2>1, <2>2, <2>3 DEF ListedInv
<1>2. Init => Known /\ ListedInv
  BY InitTypeOK, InitPresence, InitBooks, InitListed DEF Known
<1> QED
  BY <1>1, <1>2, PTL DEF Spec

\* Once listed, a served session whose heartbeats are in time stays in its user's set,
\* whatever is pruned, restarted or fails around it, until User.offline deletes the set or
\* a session of its own device is over: HandleSend, which finds devices by these sets, then
\* finds it.
THEOREM ServedAreListed == Spec => ServedStayListed
<1>1. Known /\ ListedInv /\ [Next]_vars =>
        [\A c \in Conns :
            pc[c] \in AfterUserTx /\ deviceOf[c] \notin SlowDevices /\ LeavesUserSet(c)
              => \/ \E a \in Conns \cup Instances : UserOff(a) /\ device[a].uid = uidOf[c]
                 \/ \E e \in Conns : deviceOf[e] = deviceOf[c] /\ IsOver(e)]_vars
  BY TakenForOver DEF Punctual, DeviceOver
<1> QED
  BY <1>1, ListedInvariant, PTL DEF Spec, ServedStayListed

=============================================================================
