--------------------------- MODULE SessionRegistry ---------------------------
(***************************************************************************)
(* The bookkeeping an SSE session does in Redis and in its broker's memory *)
(* from HandleEvents' NewDevice to its last handleDeviceOffline, and the   *)
(* bookkeeping a broker does when it boots, is disposed of or crashes.     *)
(*                                                                         *)
(* A connection is one GET /events request and the goroutine serving it.   *)
(* Every Redis transaction (TxPipelined), every single Redis call and      *)
(* every access to the broker's Devices map is one step of the goroutine   *)
(* that makes it: between two steps of one goroutine any other may run.    *)
(* Booting brokers run the same offline code as the connections do         *)
(* (ServiceInstance.clear), hence the actions shared by both.              *)
(***************************************************************************)
EXTENDS Integers, FiniteSets

CONSTANTS
    Conns,        \* the GET /events requests ever made
    Devices,      \* device ids (the MD5 of the device name)
    Users,        \* user ids
    Instances,    \* broker addresses
    Queries,      \* goroutines serving GET /info?uid=
    deviceOf,     \* the device each request names
    uidOf,        \* the user each request's token names
    instanceOf,   \* the broker each request is sent to
    SlowDevices,  \* devices whose heartbeat may come later than the key's TTL
    Crashable,    \* brokers that may exit without Stop and Dispose
    CrashAt,      \* the steps of a broker at which such exits are considered
    Stoppable,    \* brokers that may be sent SIGTERM
    RedisFaults,  \* whether the Redis calls whose errors are only logged may fail
    None          \* the empty string: no device, user or broker

ASSUME ConstantsAssumption ==
    /\ deviceOf \in [Conns -> Devices]
    /\ uidOf \in [Conns -> Users]
    /\ instanceOf \in [Conns -> Instances]
    /\ Conns \cap Instances = {}
    /\ Conns \cap Queries = {}
    /\ Instances \cap Queries = {}
    /\ RedisFaults \in BOOLEAN
    /\ None \notin Devices \cup Users \cup Instances

ASSUME ConnsFinite == IsFiniteSet(Conns)

VARIABLES
    \* Redis
    deviceKeys,   \* the devices whose key sse_device_<id> exists
    deviceHash,   \* the uid and instance_address in it
    instSet,      \* sse_instance_device_set_<address>
    versioned,    \* the brokers whose key sse_instance_<address> has a version
    deviceCount,  \* the device_count in it
    cluster,      \* sse_cluster_instance_set
    userSet,      \* sse_user_device_set_<uid>
    onlineUsers,  \* sse_online_user_set
    \* each broker's memory
    devices,      \* ServiceInstance.Devices: the connection whose *Device is stored
    \* each goroutine
    pc,           \* where it is
    device,       \* the *Device it works on
    seen,         \* the device ids it read from the user's set
    empty,        \* validateDeviceSet found no valid device, stale ones are pruned first
    todo,         \* clear: the device ids not yet visited
    pass,         \* clear is run twice by Start
    \* history
    userEvent,    \* the last of the two user topics a StateChange of the user went to
    deviceEvent,  \* the same for the device topics
    leaked        \* goroutines whose offline clean-up met a Redis error

deviceKey == <<deviceKeys, deviceHash>>
instanceKey == <<versioned, deviceCount>>
redisVars == <<deviceKey, instSet, instanceKey, cluster, userSet, onlineUsers>>
events == <<userEvent, deviceEvent>>
vars == <<redisVars, devices, pc, device, seen, empty, todo, pass, events, leaked>>

Actors == Conns \cup Instances \cup Queries
UserKeys == Users \cup {None}

\* The steps of a connection, in the order HandleEvents takes them.
BeforeUserTx == {"store", "addTx", "pubOnline", "userTx"}
AfterUserTx == {"check", "prune", "userOn", "pubUserOn", "live"}
BeforeUserTxOff == {"delLocal", "delTx", "pubOffline", "userTxOff"}
AfterUserTxOff == {"checkOff", "pruneOff", "userOff", "pubUserOff"}
OfflineSteps == BeforeUserTxOff \cup AfterUserTxOff
ConnSteps == {"idle", "done", "crashed"} \cup BeforeUserTx \cup AfterUserTx \cup OfflineSteps
BrokerSteps == {"down", "clearing", "reclear", "starting", "up", "disposed"} \cup OfflineSteps
QuerySteps == {"idle", "checkInfo", "pruneInfo"}

\* A connection whose heartbeats keep its device key and its user's set alive.
KeepsDeviceKey(c) == pc[c] \in BeforeUserTx \cup AfterUserTx
KeepsUserSet(c) == pc[c] \in AfterUserTx

\* The goroutine has run deviceChannelWG.Add and not yet Done.
InWaitGroup(c) == pc[c] \in {"live"} \cup OfflineSteps

NoHash == [uid |-> None, instance |-> None]

Goto(a, step) == pc' = [pc EXCEPT ![a] = step]

------------------------------------------------------------------------------
(* Going online: NewDevice, Device.online, User.handleDeviceOnline.         *)

\* The broker is listening: engine.Run follows Start and ends with the process.
Listening(i) == pc[i] \in {"up", "disposed"}

NewDevice(c) ==
    /\ pc[c] = "idle"
    /\ Listening(instanceOf[c])
    /\ deviceKeys' = deviceKeys \cup {deviceOf[c]}
    /\ deviceHash' = [deviceHash EXCEPT ![deviceOf[c]] =
                        [uid |-> uidOf[c], instance |-> instanceOf[c]]]
    /\ Goto(c, "store")
    /\ UNCHANGED <<instSet, instanceKey, cluster, userSet, onlineUsers, devices, device,
                   seen, empty, todo, pass, events, leaked>>

\* addDevice: s.Devices.Store
AddLocal(c) ==
    /\ pc[c] = "store"
    /\ devices' = [devices EXCEPT ![instanceOf[c]][deviceOf[c]] = c]
    /\ Goto(c, "addTx")
    /\ UNCHANGED <<redisVars, device, seen, empty, todo, pass, events, leaked>>

\* addDevice: SADD and HINCRBY +1 in one transaction
AddDeviceTx(c) ==
    LET i == instanceOf[c] IN
    /\ pc[c] = "addTx"
    /\ instSet' = [instSet EXCEPT ![i] = @ \cup {deviceOf[c]}]
    /\ deviceCount' = [deviceCount EXCEPT ![i] = @ + 1]
    /\ Goto(c, "pubOnline")
    /\ UNCHANGED <<deviceKey, versioned, cluster, userSet, onlineUsers, devices, device,
                   seen, empty, todo, pass, events, leaked>>

DispatchDeviceOnline(c) ==
    /\ pc[c] = "pubOnline"
    /\ deviceEvent' = [deviceEvent EXCEPT ![deviceOf[c]] = "online"]
    /\ Goto(c, "userTx")
    /\ UNCHANGED <<redisVars, devices, device, seen, empty, todo, pass, userEvent, leaked>>

\* handleDeviceOnline: SMEMBERS and then SADD in one transaction
UserOnlineTx(c) ==
    LET u == uidOf[c] IN
    /\ pc[c] = "userTx"
    /\ seen' = [seen EXCEPT ![c] = userSet[u]]
    /\ userSet' = [userSet EXCEPT ![u] = @ \cup {deviceOf[c]}]
    /\ Goto(c, "check")
    /\ UNCHANGED <<deviceKey, instSet, instanceKey, cluster, onlineUsers, devices, device,
                   empty, todo, pass, events, leaked>>

\* Mutant: the results of the EXISTS pipeline are read with the condition reversed.
StillValid(S) == S \cap deviceKeys

\* validateDeviceSet: the ids whose device key is gone; they are pruned (SREM) if any
Stale(S) == S \ deviceKeys

\* Mutant: the ids read are counted, not the valid ones among them.
NothingRead(S) == S = {}

NoneValid(S) == S = Stale(S)

Validate(a, prune, last, more) ==
    LET stale == Stale(seen[a])
        none == NoneValid(seen[a])
    IN
    /\ seen' = [seen EXCEPT ![a] = stale]
    /\ empty' = [empty EXCEPT ![a] = none /\ stale # {}]
    /\ Goto(a, IF stale # {} THEN prune ELSE IF none THEN last ELSE more)
    /\ UNCHANGED <<redisVars, devices, device, todo, pass, events, leaked>>

PruneStale(a, u, last, more) ==
    /\ userSet' = [userSet EXCEPT ![u] = @ \ seen[a]]
    /\ seen' = [seen EXCEPT ![a] = {}]
    /\ empty' = [empty EXCEPT ![a] = FALSE]
    /\ Goto(a, IF empty[a] THEN last ELSE more)
    /\ UNCHANGED <<deviceKey, instSet, instanceKey, cluster, onlineUsers, devices, device,
                   todo, pass, events, leaked>>

CheckOnline(c) == pc[c] = "check" /\ Validate(c, "prune", "userOn", "live")
PruneOnline(c) == pc[c] = "prune" /\ PruneStale(c, uidOf[c], "userOn", "live")

\* User.online: SADD to both sets in one transaction
UserOn(c) ==
    LET u == uidOf[c] IN
    /\ pc[c] = "userOn"
    /\ userSet' = [userSet EXCEPT ![u] = @ \cup {deviceOf[c]}]
    /\ onlineUsers' = onlineUsers \cup {u}
    /\ Goto(c, "pubUserOn")
    /\ UNCHANGED <<deviceKey, instSet, instanceKey, cluster, devices, device,
                   seen, empty, todo, pass, events, leaked>>

DispatchUserOnline(c) ==
    /\ pc[c] = "pubUserOn"
    /\ userEvent' = [userEvent EXCEPT ![uidOf[c]] = "online"]
    /\ Goto(c, "live")
    /\ UNCHANGED <<redisVars, devices, device, seen, empty, todo, pass, deviceEvent, leaked>>

\* The ticker: Device.touch re-creates a key that expired, with neither uid nor
\* instance_address; User.touch is an EXPIRE and leaves a missing set missing.
Heartbeat(c) ==
    /\ pc[c] = "live"
    /\ deviceKeys' = deviceKeys \cup {deviceOf[c]}
    /\ UNCHANGED <<deviceHash, instSet, instanceKey, cluster, userSet, onlineUsers, devices, pc, device,
                   seen, empty, todo, pass, events, leaked>>

\* Mutant: one of the loop's exits forgets device.offline.
LeaveWithoutOffline(c) ==
    /\ pc[c] = "live"
    /\ Goto(c, "userTxOff")
    /\ UNCHANGED <<redisVars, devices, device, seen, empty, todo, pass, events, leaked>>

\* The event loop ends: a kick, extrude or close instruction, a heartbeat that
\* cannot be written, or the client hanging up.
Leave(c) ==
    /\ pc[c] = "live"
    /\ Goto(c, "delLocal")
    /\ UNCHANGED <<redisVars, devices, device, seen, empty, todo, pass, events, leaked>>

------------------------------------------------------------------------------
(* Going offline: Device.offline and User.handleDeviceOffline, run by the   *)
(* connection's own goroutine, or by a booting broker for a device it finds *)
(* in its instance set.                                                     *)

BrokerOf(a) == IF a \in Conns THEN instanceOf[a] ELSE a
AfterOffline(a) == IF a \in Conns THEN "done" ELSE "clearing"

\* delDevice: s.Devices.Delete, by device id, whoever stored it
DelLocal(a) ==
    /\ pc[a] = "delLocal"
    /\ devices' = [devices EXCEPT ![BrokerOf(a)][device[a].id] = None]
    /\ Goto(a, "delTx")
    /\ UNCHANGED <<redisVars, device, seen, empty, todo, pass, events, leaked>>

\* Mutants: the SREM is dropped; HINCRBY only for a member of the set.
InstanceSetKept(i, d) == instSet[i]
CountIfMember(i, d) == deviceCount[i] - (IF d \in instSet[i] THEN 1 ELSE 0)

InstanceSetWithout(i, d) == instSet[i] \ {d}
CountWithout(i, d) == deviceCount[i] - 1

\* delDevice: SREM and HINCRBY -1 in one transaction
DelDeviceTx(a) ==
    LET i == BrokerOf(a) IN
    /\ pc[a] = "delTx"
    /\ instSet' = [instSet EXCEPT ![i] = InstanceSetWithout(i, device[a].id)]
    /\ deviceCount' = [deviceCount EXCEPT ![i] = CountWithout(i, device[a].id)]
    /\ Goto(a, "pubOffline")
    /\ UNCHANGED <<deviceKey, versioned, cluster, userSet, onlineUsers, devices, device,
                   seen, empty, todo, pass, events, leaked>>

DispatchDeviceOffline(a) ==
    /\ pc[a] = "pubOffline"
    /\ deviceEvent' = [deviceEvent EXCEPT ![device[a].id] = "offline"]
    /\ Goto(a, "userTxOff")
    /\ UNCHANGED <<redisVars, devices, device, seen, empty, todo, pass, userEvent, leaked>>

\* Mutant: the SREM is dropped, so that a session sees itself among the rest.
RestWithItself(u, d) == userSet[u]

Rest(u, d) == userSet[u] \ {d}

\* handleDeviceOffline: SREM and then SMEMBERS in one transaction
UserOfflineTx(a) ==
    LET u == device[a].uid
        rest == Rest(u, device[a].id)
    IN
    /\ pc[a] = "userTxOff"
    /\ userSet' = [userSet EXCEPT ![u] = rest]
    /\ seen' = [seen EXCEPT ![a] = rest]
    /\ Goto(a, "checkOff")
    /\ UNCHANGED <<deviceKey, instSet, instanceKey, cluster, onlineUsers, devices, device,
                   empty, todo, pass, events, leaked>>

CheckOffline(a) ==
    pc[a] = "checkOff" /\ Validate(a, "pruneOff", "userOff", AfterOffline(a))

PruneOffline(a) ==
    pc[a] = "pruneOff" /\ PruneStale(a, device[a].uid, "userOff", AfterOffline(a))

\* Mutant: User.offline leaves the user in the online set.
OnlineUsersKept(u) == onlineUsers

OnlineUsersWithout(u) == onlineUsers \ {u}

\* User.offline: DEL of the user's set and SREM in one transaction
UserOff(a) ==
    LET u == device[a].uid IN
    /\ pc[a] = "userOff"
    /\ userSet' = [userSet EXCEPT ![u] = {}]
    /\ onlineUsers' = OnlineUsersWithout(u)
    /\ Goto(a, "pubUserOff")
    /\ UNCHANGED <<deviceKey, instSet, instanceKey, cluster, devices, device,
                   seen, empty, todo, pass, events, leaked>>

DispatchUserOffline(a) ==
    /\ pc[a] = "pubUserOff"
    /\ userEvent' = [userEvent EXCEPT ![device[a].uid] = "offline"]
    /\ Goto(a, AfterOffline(a))
    /\ UNCHANGED <<redisVars, devices, device, seen, empty, todo, pass, deviceEvent, leaked>>

------------------------------------------------------------------------------
(* A broker's life: Start (clear, then start, which clears again), the      *)
(* graceful Stop and Dispose, and the exits that do neither.                *)

\* Mutant: the set is deleted before it is read.
ResidueDeleted(i) == {}

Residue(i) == instSet[i]

\* clear: the transaction that reads and deletes what the last run left
ClearTx(i) ==
    /\ pc[i] \in {"down", "reclear"}
    /\ todo' = [todo EXCEPT ![i] = Residue(i)]
    /\ pass' = [pass EXCEPT ![i] = IF pc[i] = "down" THEN 1 ELSE 2]
    /\ cluster' = cluster \ {i}
    /\ versioned' = versioned \ {i}
    /\ deviceCount' = [deviceCount EXCEPT ![i] = 0]
    /\ instSet' = [instSet EXCEPT ![i] = {}]
    /\ Goto(i, "clearing")
    /\ UNCHANGED <<deviceKey, userSet, onlineUsers, devices, device, seen, empty,
                   events, leaked>>

\* getRedisDevice; a key that a heartbeat re-created names no user
RedisDevice(d) == [id |-> d, uid |-> deviceHash[d].uid]

\* clear: getRedisDevice of the next id, which is taken offline whatever its
\* instance_address says
ClearDevice(i) ==
    /\ pc[i] = "clearing"
    /\ \E d \in todo[i] \cap deviceKeys :
         /\ todo' = [todo EXCEPT ![i] = @ \ {d}]
         /\ device' = [device EXCEPT ![i] = RedisDevice(d)]
    /\ Goto(i, "delLocal")
    /\ UNCHANGED <<redisVars, devices, seen, empty, pass, events, leaked>>

\* clear: a device whose key is gone, or cannot be read, is skipped
ClearSkip(i) ==
    /\ pc[i] = "clearing"
    /\ \E d \in todo[i] :
         /\ d \notin deviceKeys \/ RedisFaults
         /\ todo' = [todo EXCEPT ![i] = @ \ {d}]
    /\ UNCHANGED <<redisVars, devices, pc, device, seen, empty, pass, events, leaked>>

\* Mutant: clear ends after the first device.
ClearDoneEarly(i) ==
    /\ pc[i] = "clearing"
    /\ device' = [device EXCEPT ![i] = [id |-> None, uid |-> None]]
    /\ Goto(i, IF pass[i] = 1 THEN "reclear" ELSE "starting")
    /\ UNCHANGED <<redisVars, devices, seen, empty, todo, pass, events, leaked>>

ClearDone(i) ==
    /\ pc[i] = "clearing"
    /\ todo[i] = {}
    /\ device' = [device EXCEPT ![i] = [id |-> None, uid |-> None]]
    /\ Goto(i, IF pass[i] = 1 THEN "reclear" ELSE "starting")
    /\ UNCHANGED <<redisVars, devices, seen, empty, todo, pass, events, leaked>>

\* start: HSET of the instance hash and SADD to the cluster in one transaction
StartTx(i) ==
    /\ pc[i] = "starting"
    /\ versioned' = versioned \cup {i}
    /\ deviceCount' = [deviceCount EXCEPT ![i] = 0]
    /\ cluster' = cluster \cup {i}
    /\ Goto(i, "up")
    /\ UNCHANGED <<deviceKey, instSet, userSet, onlineUsers, devices, device, seen, empty,
                   todo, pass, events, leaked>>

\* stop has returned (deviceChannelWG is at zero); dispose runs its transaction.
\* Requests in set-up go on until the Redis client is closed and os.Exit is called.
Dispose(i) ==
    /\ pc[i] = "up"
    /\ i \in Stoppable
    /\ \A c \in Conns : instanceOf[c] = i => ~InWaitGroup(c)
    /\ cluster' = cluster \ {i}
    /\ versioned' = versioned \ {i}
    /\ deviceCount' = [deviceCount EXCEPT ![i] = 0]
    /\ instSet' = [instSet EXCEPT ![i] = {}]
    /\ Goto(i, "disposed")
    /\ UNCHANGED <<deviceKey, userSet, onlineUsers, devices, device, seen, empty,
                   todo, pass, events, leaked>>

\* The process ends: its goroutines stop where they are, its memory is gone.
Exit(i) ==
    /\ \/ pc[i] = "disposed"
       \/ i \in Crashable /\ pc[i] \in CrashAt \ {"down"}
    /\ pc' = [a \in Actors |->
                IF a = i THEN "down"
                ELSE IF a \in Conns /\ instanceOf[a] = i /\ pc[a] \notin {"idle", "done"}
                  THEN "crashed" ELSE pc[a]]
    /\ devices' = [devices EXCEPT ![i] = [d \in Devices |-> None]]
    /\ todo' = [todo EXCEPT ![i] = {}]
    /\ device' = [device EXCEPT ![i] = [id |-> None, uid |-> None]]
    /\ seen' = [a \in Actors |-> IF BrokerOf(a) = i THEN {} ELSE seen[a]]
    /\ empty' = [a \in Actors |-> IF BrokerOf(a) = i THEN FALSE ELSE empty[a]]
    /\ UNCHANGED <<redisVars, pass, events, leaked>>

------------------------------------------------------------------------------
(* GET /info?uid=: getDeviceIds reads the user's set and prunes it.         *)

QueryUser(q) ==
    /\ pc[q] = "idle"
    /\ \E u \in Users :
         /\ device' = [device EXCEPT ![q] = [id |-> None, uid |-> u]]
         /\ seen' = [seen EXCEPT ![q] = userSet[u]]
    /\ Goto(q, "checkInfo")
    /\ UNCHANGED <<redisVars, devices, empty, todo, pass, events, leaked>>

CheckInfo(q) == pc[q] = "checkInfo" /\ Validate(q, "pruneInfo", "idle", "idle")
PruneInfo(q) == pc[q] = "pruneInfo" /\ PruneStale(q, device[q].uid, "idle", "idle")

------------------------------------------------------------------------------
(* Redis itself: keys expire, and calls return errors.                      *)

\* A key written with TTL DeviceUserExistDuration (heartbeat + 5s) outlives its
\* sessions' heartbeats unless these are late by more than the 5s.
DeviceKeyExpires(d) ==
    /\ d \in deviceKeys
    /\ d \in SlowDevices \/ ~\E c \in Conns : deviceOf[c] = d /\ KeepsDeviceKey(c)
    /\ deviceKeys' = deviceKeys \ {d}
    /\ deviceHash' = [deviceHash EXCEPT ![d] = NoHash]
    /\ UNCHANGED <<instSet, instanceKey, cluster, userSet, onlineUsers, devices, pc, device,
                   seen, empty, todo, pass, events, leaked>>

UserSetExpires(u) ==
    /\ userSet[u] # {}
    /\ \A c \in Conns : uidOf[c] = u /\ KeepsUserSet(c) => deviceOf[c] \in SlowDevices
    /\ userSet' = [userSet EXCEPT ![u] = {}]
    /\ UNCHANGED <<deviceKey, instSet, instanceKey, cluster, onlineUsers, devices, pc, device,
                   seen, empty, todo, pass, events, leaked>>

\* Where the code goes on when a Redis call it makes at this step fails. An error
\* of validateDeviceSet's pipeline is returned as "no device". NewDevice's error
\* makes it return nil, which online() dereferences: the request ends there.
\* addDevice's and delDevice's errors are fatal: they are exits of the broker.
OnError(a) ==
    CASE pc[a] = "idle"       -> "done"
      [] pc[a] = "pubOnline"  -> "userTx"
      [] pc[a] = "userTx"     -> "live"
      [] pc[a] = "check"      -> "userOn"
      [] pc[a] = "prune"      -> IF empty[a] THEN "userOn" ELSE "live"
      [] pc[a] = "userOn"     -> "pubUserOn"
      [] pc[a] = "pubUserOn"  -> "live"
      [] pc[a] = "pubOffline" -> "userTxOff"
      [] pc[a] = "userTxOff"  -> AfterOffline(a)
      [] pc[a] = "checkOff"   -> "userOff"
      [] pc[a] = "pruneOff"   -> IF empty[a] THEN "userOff" ELSE AfterOffline(a)
      [] pc[a] = "userOff"    -> "pubUserOff"
      [] pc[a] = "pubUserOff" -> AfterOffline(a)

RedisError(a) ==
    /\ RedisFaults
    /\ pc[a] \in ConnSteps \ {"store", "addTx", "live", "delLocal", "delTx", "done", "crashed"}
    /\ pc[a] = "idle" => Listening(BrokerOf(a))
    /\ Goto(a, OnError(a))
    /\ seen' = [seen EXCEPT ![a] = {}]
    /\ empty' = [empty EXCEPT ![a] = FALSE]
    /\ leaked' = IF pc[a] \in {"pubOffline", "userTxOff", "userOff", "pubUserOff"}
                   THEN leaked \cup {a} ELSE leaked
    /\ UNCHANGED <<redisVars, devices, device, todo, pass, events>>

------------------------------------------------------------------------------
Init ==
    /\ deviceKeys = {}
    /\ deviceHash = [d \in Devices |-> NoHash]
    /\ instSet = [i \in Instances |-> {}]
    /\ versioned = {}
    /\ deviceCount = [i \in Instances |-> 0]
    /\ cluster = {}
    /\ userSet = [u \in UserKeys |-> {}]
    /\ onlineUsers = {}
    /\ devices = [i \in Instances |-> [d \in Devices |-> None]]
    /\ pc = [a \in Actors |-> IF a \in Instances THEN "down" ELSE "idle"]
    /\ device = [a \in Actors |-> IF a \in Conns THEN [id |-> deviceOf[a], uid |-> uidOf[a]]
                                  ELSE [id |-> None, uid |-> None]]
    /\ seen = [a \in Actors |-> {}]
    /\ empty = [a \in Actors |-> FALSE]
    /\ todo = [i \in Instances |-> {}]
    /\ pass = [i \in Instances |-> 1]
    /\ userEvent = [u \in UserKeys |-> "none"]
    /\ deviceEvent = [d \in Devices |-> "none"]
    /\ leaked = {}

SessionsOf(u) == {c \in Conns : uidOf[c] = u}

\* All brokers are up, some sessions are in their event loops, no two of one device, and
\* nothing else has happened: Init and the steps that lead there.
ServedInit(served) ==
    LET on(i, d) == {c \in served : instanceOf[c] = i /\ deviceOf[c] = d}
        hash(c) == [uid |-> uidOf[c], instance |-> instanceOf[c]]
    IN
    /\ devices = [i \in Instances |-> [d \in Devices |->
                    IF on(i, d) = {} THEN None ELSE CHOOSE c \in on(i, d) : TRUE]]
    /\ instSet = [i \in Instances |-> {d \in Devices : on(i, d) # {}}]
    /\ deviceKeys = UNION {instSet[i] : i \in Instances}
    /\ deviceHash = [d \in Devices |->
                       IF d \in deviceKeys
                         THEN hash(CHOOSE c \in served : deviceOf[c] = d) ELSE NoHash]
    /\ versioned = Instances /\ cluster = Instances
    /\ deviceCount = [i \in Instances |-> Cardinality(instSet[i])]
    /\ userSet = [u \in UserKeys |-> {deviceOf[c] : c \in SessionsOf(u) \cap served}]
    /\ onlineUsers = {uidOf[c] : c \in served}
    /\ userEvent = [u \in UserKeys |-> IF u \in onlineUsers THEN "online" ELSE "none"]
    /\ deviceEvent = [d \in Devices |-> IF d \in deviceKeys THEN "online" ELSE "none"]
    /\ pc = [a \in Actors |-> IF a \in Instances THEN "up"
                               ELSE IF a \in served THEN "live" ELSE "idle"]
    /\ device = [a \in Actors |-> IF a \in Conns THEN [id |-> deviceOf[a], uid |-> uidOf[a]]
                                   ELSE [id |-> None, uid |-> None]]
    /\ seen = [a \in Actors |-> {}] /\ empty = [a \in Actors |-> FALSE]
    /\ todo = [i \in Instances |-> {}] /\ pass = [i \in Instances |-> 2]
    /\ leaked = {}

\* What a goroutine does of itself, once started.
GoOnline(c) ==
    \/ AddLocal(c) \/ AddDeviceTx(c) \/ DispatchDeviceOnline(c) \/ UserOnlineTx(c)
    \/ CheckOnline(c) \/ PruneOnline(c) \/ UserOn(c) \/ DispatchUserOnline(c)

GoOffline(a) ==
    \/ DelLocal(a) \/ DelDeviceTx(a) \/ DispatchDeviceOffline(a) \/ UserOfflineTx(a)
    \/ CheckOffline(a) \/ PruneOffline(a) \/ UserOff(a) \/ DispatchUserOffline(a)

Boot(i) == ClearTx(i) \/ ClearDevice(i) \/ ClearSkip(i) \/ ClearDone(i) \/ StartTx(i)

Query(q) == QueryUser(q) \/ CheckInfo(q) \/ PruneInfo(q)

Next ==
    \/ \E c \in Conns : NewDevice(c) \/ GoOnline(c) \/ Heartbeat(c) \/ Leave(c)
    \/ \E a \in Conns \cup Instances : GoOffline(a) \/ RedisError(a)
    \/ \E i \in Instances : Boot(i) \/ Dispose(i) \/ Exit(i)
    \/ \E q \in Queries : Query(q)
    \/ \E d \in Devices : DeviceKeyExpires(d)
    \/ \E u \in Users : UserSetExpires(u)

Spec == Init /\ [][Next]_vars

\* Every goroutine that runs keeps running; clients, crashes, restarts, heartbeats
\* and expiries owe nothing.
Fairness ==
    /\ \A c \in Conns : WF_vars(GoOnline(c))
    /\ \A a \in Conns \cup Instances : WF_vars(GoOffline(a))
    /\ \A i \in Instances : WF_vars(pc[i] # "down" /\ Boot(i))

FairSpec == Spec /\ Fairness

------------------------------------------------------------------------------
(* What the registry promises.                                              *)

\* Every variable has its type, a goroutine is at a step of its own code, and a
\* broker that serves has worked off all of what clear() found (HandleEvents,
\* ServiceInstance.clear).
TypeOK ==
    /\ deviceKeys \subseteq Devices
    /\ deviceHash \in [Devices -> [uid : UserKeys, instance : Instances \cup {None}]]
    /\ instSet \in [Instances -> SUBSET Devices]
    /\ versioned \subseteq Instances
    /\ deviceCount \in [Instances -> Int]
    /\ cluster \subseteq Instances
    /\ userSet \in [UserKeys -> SUBSET Devices]
    /\ onlineUsers \subseteq Users
    /\ devices \in [Instances -> [Devices -> Conns \cup {None}]]
    /\ pc \in [Actors -> ConnSteps \cup BrokerSteps \cup QuerySteps]
    /\ \A c \in Conns : pc[c] \in ConnSteps
    /\ \A i \in Instances : pc[i] \in BrokerSteps
    /\ \A q \in Queries : pc[q] \in QuerySteps
    /\ device \in [Actors -> [id : Devices \cup {None}, uid : UserKeys]]
    /\ seen \in [Actors -> SUBSET Devices]
    /\ empty \in [Actors -> BOOLEAN]
    /\ todo \in [Instances -> SUBSET Devices]
    /\ \A i \in Instances : todo[i] # {} => pc[i] \in {"clearing"} \cup OfflineSteps
    /\ pass \in [Instances -> {1, 2}]
    /\ userEvent \in [UserKeys -> {"none", "online", "offline"}]
    /\ deviceEvent \in [Devices -> {"none", "online", "offline"}]
    /\ leaked \subseteq Actors

\* Between the transaction of addDevice and the transaction of delDevice.
Registered(c) ==
    pc[c] \in {"pubOnline", "userTx", "delLocal", "delTx"} \cup AfterUserTx

RegisteredAt(i) == {c \in Conns : instanceOf[c] = i /\ Registered(c)}

\* Between the SADD of handleDeviceOnline and the SREM of handleDeviceOffline,
\* which it skips if the process exits or Redis fails on it.
Present(c) == pc[c] \in AfterUserTx \cup BeforeUserTxOff
Lost(c) == pc[c] = "crashed" \/ c \in leaked

\* It found no other device of the user and has yet to take him out.
OwesUserOff(c) == pc[c] = "userOff" \/ (pc[c] = "checkOff" /\ seen[c] = {})

\* It accounts for its device in the user's set, for the user in the online set, and
\* for the user having been announced online.
Holds(c) == Present(c) \/ Lost(c)
KeepsOnline(c) == Holds(c) \/ OwesUserOff(c)
KeepsAnnounced(c) == KeepsOnline(c) \/ pc[c] = "pubUserOff"

\* A serving broker is listed, and the device_count GET /info shows is exactly the
\* number of sessions it has registered, across restarts, devices connected twice
\* and clean-ups of sessions that crashed (addDevice, delDevice, clear, start).
DeviceCountExact ==
    \A i \in Instances : pc[i] = "up" =>
        /\ i \in cluster /\ i \in versioned
        /\ deviceCount[i] = Cardinality(RegisteredAt(i))

\* A broker's device set names only devices it has registered sessions of, and it
\* misses the device of a registered session only after another session of the same
\* device on this broker went through delDevice (addDevice, delDevice, dispose).
InstanceSetAccurate ==
    \A i \in Instances : pc[i] \in {"up", "disposed"} =>
        /\ instSet[i] \subseteq {deviceOf[c] : c \in RegisteredAt(i)}
        /\ pc[i] = "up" => \A c \in RegisteredAt(i) :
             \/ deviceOf[c] \in instSet[i]
             \/ \E e \in Conns \ {c} :
                  /\ instanceOf[e] = i /\ deviceOf[e] = deviceOf[c]
                  /\ pc[e] \in (OfflineSteps \ {"delLocal", "delTx"}) \cup {"done"}

\* The broker's Devices map never holds the *Device of a session that is over, of
\* another device or of another broker, so that HandleEvents' look-up of an existing
\* device is never answered with a dead one (addDevice, delDevice, getDevice).
LocalMapSound ==
    \A i \in Instances, d \in Devices : LET c == devices[i][d] IN
        c # None => /\ deviceOf[c] = d /\ instanceOf[c] = i
                    /\ pc[c] = "addTx" \/ (Registered(c) /\ pc[c] # "delTx")

\* A device stays in its user's set only while a session of this user on this device
\* is between its SADD and its SREM, or was cut off by a crash or a Redis error: no
\* interleaving of sessions, prunings and restarts leaves a ghost (User.*).
NoGhostPresence ==
    \A u \in Users : \A d \in userSet[u] :
        \E c \in SessionsOf(u) : deviceOf[c] = d /\ Holds(c)

\* The other way round: once handleDeviceOnline has put a device whose heartbeats are in
\* time into its user's set, it stays there while the session is served, whatever devices
\* are pruned around it. Only User.offline, which deletes the whole set, takes it out, or a
\* goroutine that takes it for the device of an earlier session, which is over
\* (validateDeviceSet, handleDeviceOffline, clear).
IsOver(c) == pc[c] \in OfflineSteps \cup {"done", "crashed"}
InUserSet(c) == deviceOf[c] \in userSet[uidOf[c]]
LeavesUserSet(c) == InUserSet(c) /\ ~InUserSet(c)'

ServedStayListed ==
    [][\A c \in Conns :
          pc[c] \in AfterUserTx /\ deviceOf[c] \notin SlowDevices /\ LeavesUserSet(c)
            => \/ \E a \in Conns \cup Instances : UserOff(a) /\ device[a].uid = uidOf[c]
               \/ \E e \in Conns : deviceOf[e] = deviceOf[c] /\ IsOver(e)]_vars

\* A user stays in sse_online_user_set only while a session of his is present, will
\* take him out, or was cut off: when sessions leave concurrently one of them always
\* finds itself the last (handleDeviceOnline, handleDeviceOffline).
OnlineUsersJustified ==
    \A u \in onlineUsers : \E c \in SessionsOf(u) : KeepsOnline(c)

\* The same of what the callbacks were told: after the last session of a user, the last
\* event published of him is user_offline (User.online, User.offline).
LastUserEventJustified ==
    \A u \in Users : userEvent[u] = "online" => \E c \in SessionsOf(u) : KeepsAnnounced(c)

\* The same of the device events: a device last announced online has a session that
\* has yet to announce it offline (Device.online, Device.offline).
LastDeviceEventJustified ==
    \A d \in Devices : deviceEvent[d] = "online" =>
        \E c \in Conns : /\ deviceOf[c] = d
                         /\ Registered(c) \/ pc[c] = "pubOffline" \/ Lost(c)

UserHasLiveSession(u) == \E c \in SessionsOf(u) : pc[c] = "live"

\* With no Redis error, a user in sse_online_user_set leaves it again unless a session
\* of his stays connected or was cut off by a crash (handleDeviceOffline, User.offline).
UserEventuallyOffline ==
    \A u \in Users : u \in onlineUsers ~>
        \/ u \notin onlineUsers
        \/ UserHasLiveSession(u)
        \/ \E c \in SessionsOf(u) : pc[c] = "crashed"

\* A broker that is always started again takes every device its crashed sessions left
\* in its set out of the user's set, while the device's key still names the user and
\* no session of the device has come back in between (clear).
ActiveDevice(d) == \E c \in Conns : deviceOf[c] = d /\ pc[c] \notin {"idle", "done", "crashed"}

RestartForgets ==
    \A i \in Instances : []<>(pc[i] # "down") =>
        \A d \in Devices : \A u \in Users :
            (pc[i] = "down" /\ d \in instSet[i] /\ deviceHash[d].uid = u)
                ~> (d \notin userSet[u] \/ deviceHash[d].uid # u \/ ActiveDevice(d))

------------------------------------------------------------------------------
(* What the documentation and the comments say, and the code does not do.   *)

\* README.md:231: user_offline is published when the last device of the user
\* disconnected: no session that is being served is then left (User.offline).
UserOfflineMeansNoDevice ==
    \A u \in Users : userEvent[u] = "offline" => ~UserHasLiveSession(u)

\* sse_instance.go:106, clear removes what this broker's last run left behind: a broker
\* that serves has left no user online of whom nothing but a session cut off by its own
\* last exit is known (clear).
ClearRemovesOnlineUsers ==
    \A u \in onlineUsers :
        (\A c \in SessionsOf(u) : pc[c] \in {"idle", "done", "crashed"})
            => \E c \in SessionsOf(u) : pc[c] = "crashed" /\ pc[instanceOf[c]] # "up"

=============================================================================
