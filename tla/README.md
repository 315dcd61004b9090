# go-sse-broker in TLA+

A verification development for go-sse-broker, a server-sent-events broker in Go
whose instances form a cluster through Redis. It holds TLA+ modules translated
from the source, TLC configurations that model-check them on small instances,
and proofs, checked by TLAPS, of the most important invariants for any number of
requests, devices, users and brokers. Line numbers are those of the source
beside this directory (`sse/`, `funcs/`, `main.go`).

## 1. The system

A client opens `GET /events` on some broker with a token (it names the *user*)
and a device name (its MD5 is the *device id*). The goroutine of that request,
here a *connection* or *session*, registers itself in Redis and in the broker's
memory, and then runs an event loop that writes frames and heartbeats until the
client leaves or the session is told to end. `POST /send`, `/kick` and `/info`
may be sent to any broker of the cluster.

| Component | State it keeps | Operations |
|---|---|---|
| Session bookkeeping (`HandleEvents`, `sse_device.go`, `sse_user.go`, `addDevice`/`delDevice`) | Redis: `sse_device_<id>` (hash with TTL), `sse_user_device_set_<uid>` (set with TTL), `sse_online_user_set`, `sse_instance_device_set_<addr>`, `device_count` in `sse_instance_<addr>`; memory: `ServiceInstance.Devices` | `NewDevice`, `online`, `handleDeviceOnline`, `touch`, `offline`, `handleDeviceOffline`, `validateDeviceSet` |
| Broker life cycle (`sse_server.go`, `sse_instance.go`, `main.go`) | Redis: `sse_cluster_instance_set`, `sse_instance_<addr>` | `Start` (`clear`, then `start`, which clears again), `stop`, `Dispose`, exits of the process |
| Instruction channels | memory: `deviceChannels` (device id to an unbuffered channel), `deviceChannelWG` | `Store`, `LoadAndDelete`, `handleInstruction`, the `select` of the event loop, `Range` and `Wait` of `stop` |
| Instance topic | Redis pub/sub `sse_topic_instance_<addr>` | `DispatchInstruction(s)`, `Subscribe` |
| `POST /send` routing | none of its own | collect device ids, send to local sessions, split the others by broker in concurrent batches, publish |
| `POST /kick` | none of its own | the same, one device at a time |
| `GET /info` | none of its own | reads; the query of a user also prunes the user's set |
| Frame ids and frame cache | Redis: `last_frame_id` in the device hash, `sse_frame_cache_<id>` (sorted set with TTL) | `addFrame`, `getCachedFrames`, `delFrameCache` |
| Tokens, request parameters | none | `HandleToken`, `TokenCheck`, `fillParams` |
| Redis wrapper, configuration, logging, static pages | none that matters here | one-line wrappers, files |

The parts interact through Redis (transactions, single calls and pub/sub),
through the two shared maps of a broker and its `WaitGroup`, and through
rendezvous on unbuffered channels. There are no locks and hardly any errors are
handled beyond a log line.

What is hard about it: every goroutine interleaves with every other between two
Redis calls; sessions of the same device share keys, set members and map entries
that are named by device id, whoever wrote them; keys expire; a broker may crash
at any step and cleans up after itself only at its next boot; a Redis error may
cut a clean-up short; a channel's receiver may leave between a sender's look-up
and its send; and a shutdown runs while requests go on arriving.

What makes the parts correct:

- *Presence.* A device in its user's set, a user in the online set and the last
  event published of either are always accounted for by a session; a user without
  sessions goes offline in the end; a restart forgets what a crash left behind.
- *Bookkeeping of a broker.* `device_count` is the number of registered sessions,
  the device set names only their devices, the `Devices` map holds no dead session.
- *Routing.* A frame is sent to each session within reach, to the broker its
  device's key names, and no more often than the device was listed.
- *Channels.* The map of channels holds no dead session's channel, nobody sends on
  a closed channel while the broker serves, the `WaitGroup` counts the sessions, a
  session that stays reachable gets every frame, a shutdown outlasts the sessions
  it found, and no loop starves a sender.
- *Frames.* A client that comes back again and again receives a device's frames in
  order and none twice, under ids that grow until the cache is deleted for another
  user; the cache keeps the newest.

`PROJECT.json` lists, under `hazards`, each place in the code where one of
these could go wrong.

## 2. Modules

| Module | Content |
|---|---|
| `SessionRegistry` | what sessions, booting brokers, crashes, expiries and user queries do to Redis and to the `Devices` maps |
| `MCSessionRegistry` | small instances of it for TLC |
| `SessionRegistryProofs` | its types and presence, proved |
| `RegistryBooksProofs` | the books of its brokers, proved |
| `UserSetProofs` | who takes a device out of its user's set, proved |
| `DeviceChannels` | instructions, event loops and shutdown of one broker |
| `MCDeviceChannels` | small instances of it for TLC |
| `DeviceChannelsProofs`, `DeliveryProofs` | its theorems: channels and shutdown; what a broadcast reaches |
| `SendRouting` | the routing of a `POST /send`, composed with the sessions of SessionRegistry |
| `MCSendRouting` | small instances of it for TLC |
| `SendRoutingProofs` | its types, and what each broker is given, proved |
| `ClusterInfo` | a `GET /info` of the cluster, read while the sessions of SessionRegistry come and go |
| `ApiRequests`, `MCApiRequests` | SessionRegistry, SendRouting and ClusterInfo composed, and their instances for TLC |
| `ClusterInfoProofs` | what a `GET /info` counts, proved |
| `FrameLog` | abstract: what the frames of a device look like from outside |
| `FrameCache` | frame ids, the frame cache and a client that connects again and again; implements FrameLog |
| `MCFrameCache` | small instances of it for TLC |
| `FrameCacheProofs` | its theorems and its refinement of FrameLog |

All of them take the sets of requests, devices, users and brokers as CONSTANTS,
with functions that say which device, user and broker a request names, and state
what they assume of them in a named ASSUME.

### SessionRegistry

One step of the module is one Redis transaction, one Redis call or one access to
the `Devices` map; `pc[a]` says which of them goroutine `a` takes next. The
actors are the connections, the brokers (their boot) and the goroutines of
`GET /info`. `Device.offline` and `User.handleDeviceOffline` are run by a
connection for itself and by a booting broker for a device of its last run, so
that `DelLocal` ... `DispatchUserOffline` take either kind of actor.

| Variables | In the code |
|---|---|
| `deviceKeys`, `deviceHash` | which keys `sse_device_<id>` exist, and their `uid` and `instance_address` (none in a key that a heartbeat re-created after it had expired) |
| `instSet`, `versioned`, `deviceCount`, `cluster` | the set, the hash and the cluster set of a broker; `versioned` is the presence of a `version`, for a hash that has only a `device_count` does not make a broker exist |
| `userSet`, `onlineUsers` | `sse_user_device_set_<uid>`, `sse_online_user_set` |
| `devices` | `ServiceInstance.Devices`, by the connection whose `*Device` is stored |
| `pc`, `device`, `seen`, `empty`, `todo`, `pass` | where each goroutine is and its local values |
| `userEvent`, `deviceEvent`, `leaked` | history: the last event published, and whose clean-up a Redis error cut short |

| Actions, in the order the code takes them | In the code |
|---|---|
| `NewDevice`, `AddLocal`, `AddDeviceTx`, `DispatchDeviceOnline` | `NewDevice`, `Device.online`, `addDevice` |
| `UserOnlineTx`, `CheckOnline`, `PruneOnline`, `UserOn`, `DispatchUserOnline` | `handleDeviceOnline`, `validateDeviceSet`, `User.online` |
| `Heartbeat`, `Leave` | the ticker; all the ways out of the event loop |
| `DelLocal`, `DelDeviceTx`, `DispatchDeviceOffline` | `Device.offline`, `delDevice` |
| `UserOfflineTx`, `CheckOffline`, `PruneOffline`, `UserOff`, `DispatchUserOffline` | `handleDeviceOffline`, `validateDeviceSet`, `User.offline` |
| `ClearTx`, `ClearDevice`, `ClearSkip`, `ClearDone`, `StartTx` | `clear` (run twice), `start` |
| `Dispose`, `Exit` | `dispose` after `stop`; the end of the process, by `os.Exit`, a `log.Fatal` or a crash |
| `QueryUser`, `CheckInfo`, `PruneInfo` | `getUserInfo`, `getDeviceIds` |
| `DeviceKeyExpires`, `UserSetExpires`, `RedisError` | Redis |

Decisions worth knowing:

- `validateDeviceSet` sends its EXISTS commands in one pipeline; the model
  evaluates them in one step, the SREM that follows is a step of its own.
- A key's TTL is the heartbeat interval plus 5 s (`main.go:128`). Keys of
  devices outside `SlowDevices` expire only when no session's heartbeat keeps
  them; the devices in `SlowDevices` are those whose heartbeats may be late by
  more than that, and whose keys may expire at any time.
- A Redis call that returns an error is taken not to have been applied. An error
  in `addDevice`, `delDevice`, `clear`, `start` or `dispose` is a `log.Fatalf`:
  an exit of the broker, hence part of `Exit` of a broker in `Crashable`.
- After `dispose` the Redis client is closed and the process ends; what a
  request in set-up could still do in between is done before `Exit`.
- Each transaction is atomic, which is Redis' promise for a single server. With
  `redis.addrs` naming several servers go-redis splits a transaction by hash
  slot, and `addDevice`, `delDevice`, `clear` and `User.offline` touch several
  slots: that deployment is not covered.
- The extrusion of an older session by a newer one of its device needs no action
  of its own here: `Leave` may be taken at any time. How it comes about, and how
  it fails to, is the subject of DeviceChannels.

### DeviceChannels

One broker. A channel is named by the connection that made it, and a send on it
with the matching receive is one step, `Deliver`, because the channels are
unbuffered. The Redis work of going online and offline is reduced to the
device's key and the `Devices` map. The key names this broker or does not exist: the
extrusion of a session on another broker (handle_events.go:67-73) is only a publish to
that broker's topic, which is here what `RemotePublish` does to this one's, and a
device that another broker serves is not among the targets (`HasAddress`).

| Actions | In the code |
|---|---|
| `Connect`, `NewDevice`, `AddLocal`, `StoreChannel`, `WaitGroupAdd` | `HandleEvents` up to its loop, with the look-up of an existing device and its extrusion |
| `LoadChannel`, `Deliver`, `SendPanics` | `handleInstruction` and the receiving case of the `select` |
| `HangUp`, `ReceivePanics` | the other ways out of the loop |
| `DeleteChannel`, `DeleteLocal`, `WaitGroupDone` | `Device.offline`, `delDevice`, `Done` |
| `RequestArrives`, `EachLocal`, `EachAway`, `SendAway`, `RequestDone` | `HandleSend`, `HandleKick` |
| `RemotePublish`, `Subscribe`, `SubscribeFails`, `Listen`, `Unsubscribe`, `SubscriberPanics` | other brokers, and the goroutine of `subscribeInstanceTopic` |
| `StopBegins`, `StopVisits`, `StopWaits`, `StopReturns`, `StopPanics`, `Dispose`, `Exit` | `handleShutdown`, `stop`, `Dispose` |
| `KeyExpires` | Redis |

`Device.offline` asserts the type `chan Instruction` of a `chan *Instruction`,
so that `ClosedByOffline` closes nothing; the module has it as the code has it.
The order in which `sync.Map.Range` visits, and whether it visits what is stored
while it runs, is left open as its documentation does. The topic is in order; what is
published while the broker has not subscribed yet (`start` does it in a goroutine
that nobody waits for), or no longer is, goes to nobody (`Publish`). That go-redis
drops messages when a blocked subscriber leaves more than a hundred of them unread
is left out. `WaitGroup.Wait` panics when it is woken and finds that another `Add` has
come in between (`StopPanics`); the process then ends without `Dispose`. `SendAway` publishes for one device at a time; the concurrent split by
address and the batches of 250 are in SendRouting. A handler's panic is
recovered by gin without any clean-up, the subscriber's ends the process.

### SendRouting

One `POST /send` on the broker `Self`, while the sessions of SessionRegistry go
on: a step is a step of SessionRegistry (`SessionStep`) or one of the request
(`RequestStep`), which reads the registry's Redis sets and keys and its `Devices`
map and changes none of them.

| Actions | In the code |
|---|---|
| `RequestArrives`, `ReadInstanceSet`, `ReadUserSet`, `Listed` | `getAllDeviceIds`, `collectDeviceIds`, one SMEMBERS per step |
| `EachDevice` | the loop of `HandleSend` over the devices |
| `Split`, `Dispatch` | `splitDeviceWithInstanceAddress` up to `go` and from `wg.Wait`, the reply, and the instructions made per broker |
| `GetAddresses`, `SkipDevice`, `LoadOrStore`, `AppendDevice`, `Store` | `splitDeviceWithInstanceAddressBatch`, a goroutine per `BatchSize` devices |
| `PublishBatch` | `DispatchInstructions`, a pipeline per `BatchSize` instructions, half of them blank |
| `ReadFails`, `GetFails`, `PublishFails` | Redis errors, each of which is only logged |

A Go slice is an array and a length: `append` writes into the array while it has
room, and takes a new one of twice the size when it has none, so that two
goroutines that loaded the same slice may write the same element. This data race
has one of the two ids as its outcome, as all ids have the same length. The HGETs
of a goroutine are one pipeline and one step. SMEMBERS returns any order, and so
does Range over a Go map. `DispatchInstructions` never meets a list of length one,
for each id comes with a blank instruction. Three variables are a history that the
code does not keep, for the properties: how often a device is in `deviceIds`
(`listed`), at which brokers it was then found (`named`, `None` where it has no
address) and to which it was given (`given`). The broker of the request keeps
running; what becomes of an instruction that is handed over or published is the
subject of DeviceChannels.

### ClusterInfo and ApiRequests

`getClusterInfo` is `AskCluster` (SMEMBERS), a `ReadInstance` per broker (HGETALL),
and `Answered`; it sums up `device_count`. `throughout` and `meanwhile` record which
sessions were registered all the while and at some moment of it. `ApiRequests`
composes it with SendRouting: a step is one of a session, of the `POST /send`, or of
the `GET /info`. Both only read what the sessions write, so that one of them at a
time is enough. A Redis error makes the answer 0, or ends the process, and is left out.

### FrameCache and FrameLog

One device and its client. The client opens one connection after the other, on any
broker, each with the id of the last frame it received; a broker learns that a
connection is lost only later, so that older sessions may be in their loops while
newer ones are set up and served. Any loop may be given a frame at any time: which
instruction reaches which session is the subject of the modules above.

| Actions | In the code |
|---|---|
| `Connect`, `DelFrameCache`, `Extrude` | `HandleEvents` up to line 82: the look-up of the existing device, the deletion of the cache if that is another user's, the extrusion |
| `ReadMax`, `NewDevice`, `AddLocal` | `NewDevice` (the counter is read from the cache in one step and written in another), `online` |
| `GetCachedFrames`, `Write`, `EnterLoop` | the replay, and the storing of the channel |
| `NextFrameId`, `AddToCache`, `Write` | `addFrame` (HINCRBY, then ZADD and the trimming in one transaction) and the write to the client |
| `Leave`, `DelLocal` | the ways out of the loop, `offline` |
| `Break`, `KeyExpires` | the network, Redis |

A frame is known by its id, by its place in the order in which frames were cached
(`seq`). Whose frame it is cannot be said: `collectDeviceIds` resolves the user of a
`POST /send` to device ids, and whoever is on the device when the instruction arrives
is given it. Trimming by rank keeps the
greatest ids; frames with the same id are ordered by their text, hence in any order
(`Kept`). An extrusion on the same broker waits for the session's loop; through a
topic it may come late or never. Assumed: `device_frame_cache_size` is positive,
heartbeats are never late by more than the TTL allows for, the cache does not
expire (its TTL is counted in days), Redis calls do not fail, and a client opens
a connection only when it has lost the one before, after that had told it that it
was connected.

FrameLog is the abstract specification: frames are accepted one after the other, and
the client receives some of them, each at most once and in order. With `Lossy`
frames may be skipped; without it only those that have fallen out of the cache, or
while the client has no id to go on from. FrameCache implements the first
(`AtMostOnceInOrder`, with `last <- lastSeq`) and not the second (`FindNoReplay`).

## 3. What is model-checked

Symmetry is used only in `ChannelsShutdown`, whose requests are interchangeable
and which checks no liveness. Deadlock is not checked anywhere: the requests are
finitely many, so that a run in which all are served simply stops; the states in
which a goroutine waits for ever are what the liveness properties look for.

| Run | Instance | Properties |
|---|---|---|
| `RegistryLive` | 3 requests, two of one device and one of another, of one user on one broker that may crash while it serves and is started again | `DeviceCountExact`, `InstanceSetAccurate`, `LocalMapSound`, `NoGhostPresence`, `OnlineUsersJustified`, `LastUserEventJustified`, `LastDeviceEventJustified`; action property `ServedStayListed`; liveness `UserEventuallyOffline`, `RestartForgets` |
| `RegistryCrash` | 3 requests of one device on two brokers, the first of which stops, or crashes at any step, its boot included; heartbeats may be late | `TypeOK`, `DeviceCountExact`, `InstanceSetAccurate`, `LocalMapSound`, `NoGhostPresence`, `OnlineUsersJustified` |
| `RegistryFaults` | 2 requests of two devices of one user, a `GET /info`, any Redis call may fail, one device with late heartbeats | `NoGhostPresence`, `OnlineUsersJustified`, `LastUserEventJustified`, `LastDeviceEventJustified`; action property `ServedStayListed` |
| `ChannelsShutdown` | 3 requests of one device, a broadcast to two, the subscription that may come late, and a shutdown that may come at any time or never | `TypeOK`, `WaitGroupExact`, `NoStaleChannel`, `NoSendOnClosed`, `StopOutlastsSessions`, `SteadyReceives` |
| `ChannelsServed` | 2 requests of one device, a `POST /kick` and an instruction of another broker | liveness `LoopServes` |
| `SendRoutes` | a `POST /send` on one of two brokers: a broadcast, to a user, or to a user and a device, while a device leaves the first broker and comes to the second; or to five devices that two goroutines look up; any of its Redis calls may fail; or, instead, a `GET /info` of the two brokers | `SendTypeOK`, `GivenAsListed`, `GivenWhereNamed`, `SteadyIsSent`, `CountInBounds` |
| `FrameIds` | a client that connects to one broker, to another and to the first again, the third time as another user, in any order; 4 frames, a cache of 2 | `TypeOK`, `CacheHoldsNewest`; action property `IdsIncrease`; refinement `AtMostOnceInOrder` |

*What they show.* In all interleavings of these instances:

- `DeviceCountExact`: although sessions of one device share a member of the
  broker's set, the counter counts sessions, and a boot sets it back after the
  clean-up of the last run's sessions, which the deleted hash no longer counts,
  has driven it below zero (by running `clear` a second time).
- `InstanceSetAccurate`: the set never lists a device without a session; it
  misses a session's device only when another session of the same device on this
  broker has cleaned up since. Such a session is served and gets no broadcast,
  for a broadcast is sent to the members of these sets (handle_send.go:86).
- `LocalMapSound`, `NoStaleChannel`: although entries are deleted by device id,
  whoever stored them, no map keeps an entry of a dead session.
- `NoGhostPresence`, `OnlineUsersJustified`, `LastUserEventJustified`,
  `LastDeviceEventJustified`: whatever Redis holds of, or was last told about, a
  user or a device is accounted for by a session of his that will undo it, or that
  was cut off by a crash or a Redis error. When a user's sessions leave
  concurrently one of them always finds itself the last, because the SREM and the
  SMEMBERS of `handleDeviceOffline` are one transaction.
- `ServedStayListed`: the device of a session that is served, and whose heartbeats are
  in time, leaves its user's set only by `User.offline`, which deletes the whole set
  (`FindUserOffline`), or when an earlier session of the very same device is over: no
  pruning on behalf of another device, no restart and no failed clean-up takes it out.
  An earlier session can: its own SREM removes the device they share, and the EXISTS and
  the SREM of `validateDeviceSet` may lie on either side of the device's return.
- `UserEventuallyOffline`, `RestartForgets`: and it is undone in the end.
- `WaitGroupExact`: `Wait` returns when no session in its loop or its clean-up is
  left, and the counter never goes below zero.
- `NoSendOnClosed`: no send panics before `Dispose`. With the type assertion of
  `Device.offline` as it was meant, one would: the mutant `ClosedBy` shows it.
- `StopOutlastsSessions`: whatever arrives meanwhile, `stop` returns only when the
  sessions it found in their loops have cleaned up.
- `SteadyReceives`: a frame reaches, or is on the broker's topic for, each
  session that was reachable from the beginning of the request to its end, also if
  the `Devices` map has lost it (the way then leads through Redis and the
  broker's own topic, which a shutdown may leave unread), unless it was published
  while the broker was not subscribed.
- `LoopServes`: only a session that leaves keeps a sender waiting.
- `SteadyIsSent`: a session that stays within reach from the first step of the
  request to its last, that is served, is in the sets the request reads, is named
  by its device's key and is not hidden by an older session of the device on the
  request's own broker, is sent the frame, if no Redis call failed and one
  goroutine was enough. With more than one it does not hold: `FindLostUpdate`.
- `GivenAsListed`, `GivenWhereNamed`: whatever the goroutines lose, they duplicate
  nothing and mix up no addresses. A device that two brokers list, because it
  moves while it is read, may be given the frame twice.

- `CountInBounds`: although the counters are read one after the other, a session
  that stays is counted, no session is counted twice, and what else is counted was
  registered at some moment in between.
- `IdsIncrease`, `AtMostOnceInOrder`: a client's ids grow from one frame to the next,
  although `NewDevice` may set the counter back below what an older session has given
  out since, and two sessions may give the same id: only one of the two is the
  client's. As nothing is replayed (`FindNoReplay`), a client never sees the other.
  The ids begin again only after `delFrameCache`: the client's last frame was then not
  cached since (`Remembered`). That may happen to one and the same user (section 4).
- `CacheHoldsNewest`: also with ids given twice the cache is trimmed to its size and
  loses none that is newer than one it keeps.

*Bounds.* The hazards need two sessions that share a device and, for the
user's sets, a second device; a third request lets a session come back while two
others are in between. Two brokers are needed for a device that moves, and one
of them crashing is enough, for brokers share nothing but the Redis state. One
user suffices for the registry, whose users share nothing but `onlineUsers`, of
which each touches his own member. `MaxRemote` bounds the instructions that
other brokers publish; one is enough to occupy the subscriber. `CrashAt` limits
the steps of its broker at which a crash is considered: any step in
`RegistryCrash`; while it serves in `RegistryLive`, for a crash within
`clear` loses the list of devices that `ClearTx` has already deleted, and
`RestartForgets` does not hold of it.

`SendRoutes` has `BatchSize` 3 where the code has 250: five devices of one broker
are the fewest for which two goroutines can append to a shared array with room
left, and with three devices the six instructions fill two pipelines. The requests
of `MCSendRouting` carry bounds of their own: which connections are served at the
beginning (in a state SessionRegistry reaches), which may connect and which may
leave.

`FrameIds` needs a third connection for two older sessions to overlap with a newer
one on the same broker; a cache of 2 frames and 4 of them are enough for frames to be
trimmed, for ids to be given twice, and for ids to begin again twice for one user.
`FindNoReplay` has a client that keeps each connection until its event loop runs
(`Patient`) and frames enough to miss one that is still cached.

*Fairness.* Weak fairness of each goroutine's own steps (`GoOnline`,
`GoOffline`, the rest of a boot that has begun; `HandleInstruction`, `Serve`,
`Request`, `Subscriber`, `Shutdown`): the Go scheduler runs every goroutine that
can run, and Redis answers. Nothing is assumed of clients, operators, crashes,
expiries and heartbeats; that a broker is started again is the premise of
`RestartForgets`, not an assumption.

*Mutants.* Each property of each of these runs is violated when a definition
named in `PROJECT.json` is replaced by the mutant that stands before it.

## 4. Where the code does not do what is said of it

Each has a run that TLC finds violated, with the trace.

| Run | What is said | What happens |
|---|---|---|
| `FindUserOffline` | README.md:231, `user_offline` is published when the last device of the user disconnected | with two connections of one device the first to leave announces the user offline while the other is served; likewise when a session comes online between another's SMEMBERS and DEL |
| `FindClearUsers` | sse_instance.go:106, `clear` removes the residue of the last run | once the device keys have expired the devices are skipped, and their user stays in `sse_online_user_set` for ever |
| `FindStopHangs` | sse_instance.go:168, `stop` closes all connected devices | it blocks for ever on the channel of a session that leaves between `Range`'s load and the send, for the clean-up closes no channel (sse_device.go:138) |
| `FindLostUpdate` | handle_send.go:137, sync.Map makes the concurrent writes safe | `LoadOrStore` and `Store` are two steps: one goroutine overwrites what another appended to the same broker's list, and those devices are sent nothing, while the reply counts them |
| `FindNoReplay` | handle_events.go:100, the cached frames are sent | `TokenCheck` stores the id the client passes as an `int` (handle_jwt.go:79), `HandleEvents` reads it with `GetInt64` (line 53), which is 0 for anything but an `int64`: nothing is ever replayed. With `LastEventId` equal to `lastId` TLC finds `CachedFramesSent` true of two connections on one broker |

Two connections of one device that set up at the same time do not see each other's
channel and are both served, whatever handle_events.go:56 says of extruding the
others: the extrusion (line 57) comes long before the channel is stored (line 122).
`DeviceChannels` and `FrameCache` have it so, and their properties hold nevertheless.

Two exceptions that properties make are behaviours of the models, and of the code:

- `ServedStayListed`: a session crashes and its device's key expires; a `GET /info` reads
  the user's set and finds the device invalid; the device comes back and is served; then
  the SREM (sse_user.go:79) takes it out of the set, and messages to the user miss it.
- `IdsIncrease`: the broker's `Devices` map is asked before Redis who was on the device
  last (handle_events.go:57), and may hold a session of another user that has not noticed
  its end. A user who was served on another broker in between, and now comes to this
  one, loses the frames his own session has cached since, not only the old user's
  (line 62), and his ids start again at 1: he is given an id twice.

The cause of `FindStopHangs`, a send on a channel whose receiver has left, also
blocks the topic's subscriber and API requests for good (sse_instance.go:101).

## 5. What is proved

All theorems hold for every value of the constants that satisfies the assumptions
their modules name: the kinds of actors are disjoint, a request names a device, a
user and a broker, and there are finitely many requests (where something is
counted) and device ids (they are MD5 sums). Any further hypothesis is in the table.

| Module | Theorem | Statement |
|---|---|---|
| `SessionRegistryProofs` | `TypeCorrect` | `Spec => []TypeOK` |
| | `PresenceInvariant` | `Spec => []PresenceInv` |
| | `PresenceHasSession` | `Spec => []NoGhostPresence` |
| | `OnlineHasSession` | `Spec => []OnlineUsersJustified` |
| | `EventHasSession` | `Spec => []LastUserEventJustified` |
| `RegistryBooksProofs` | `BooksInvariant` | `Spec => []BooksInv` |
| | `CountIsExact` | `Spec => []DeviceCountExact` |
| | `SetIsAccurate` | `Spec => []InstanceSetAccurate` |
| | `MapIsSound` | `Spec => []LocalMapSound` |
| | `DeviceEventHasSession` | `Spec => []LastDeviceEventJustified` |
| `UserSetProofs` | `ListedInvariant` | `Spec => [](Known /\ ListedInv)` |
| | `ServedAreListed` | `Spec => ServedStayListed`, an action property |
| `DeviceChannelsProofs` | `ChannelsInvariant` | `Spec => []ChannelsInv` |
| | `ChannelTypes` | `Spec => []TypeOK` |
| | `WaitGroupCounts` | `Spec => []WaitGroupExact` |
| | `NoChannelOutlivesItsLoop` | `Spec => []NoStaleChannel` |
| | `SendsAreSafe` | `Spec => []NoSendOnClosed` |
| | `StopWaitsForSessions` | `Spec => []StopOutlastsSessions` |
| `DeliveryProofs` | `DeliveryInvariant` | `Spec => []DeliveryInv` |
| | `BroadcastReaches` | `Spec => []SteadyReceives` |
| `FrameCacheProofs` | `FrameInvariant` | `Spec => []FrameInv` |
| | `FrameTypes` | `Spec => []TypeOK` |
| | `CacheIsNewest` | `Spec => []CacheHoldsNewest` |
| | `IdsAlwaysIncrease` | `Spec => IdsIncrease`, an action property |
| | `ImplementsLog` | `Spec => AtMostOnceInOrder`: FrameCache implements FrameLog |
| `ClusterInfoProofs` | `InfoInvariant` | `ApiSpec => []InfoInv`, if `BrokersStay` |
| | `InfoCountsRight` | `ApiSpec => []CountInBounds`, if `BrokersStay` |
| `SendRoutingProofs` | `SendInvariant` | `ApiSpec => [](TypeOK /\ SendInv)` |
| | `SendTypeCorrect` | `ApiSpec => []SendTypeOK` |
| | `GivenRightly` | `ApiSpec => []GivenWhereNamed` |
| | `GivenNoMoreThanListed` | `ApiSpec => []GivenAsListed` |
| | `SteadyAreSent` | `ApiSpec => []SteadyIsSent` |

### Presence (`SessionRegistryProofs`)

With crashes, restarts, expiries and Redis errors. `TypeOK` is inductive by itself.
The three others are not inductive one by one:
that `UserOff` may take the user out needs nothing, but that a session which
finds another device in the set may leave the user online needs that device to
be accounted for (`NoGhostPresence`), and that the sets are changed for the right
user needs `OwnDevice`, that a connection's `*Device` never changes. Their
conjunction `PresenceInv`, on top of `TypeOK`, is inductive. The argument:

- `PresenceKept` reduces a step to what it does to the sessions that account for
  something, and to what it adds to the sets and the events.
- `OnlineEffect`, `OfflineEffect`: going online adds only the session itself,
  once it accounts for it; going offline adds nothing.
- `UserOfflineTxPresence` is the heart: a session that leaves either sees a
  device of another session, which accounts for the user, or an empty set, and
  then owes the user's own going offline.
- `ExitPresence`, `QueryPresence`, `ExpiryPresence`, `BrokerPresence`: a crash
  turns sessions into lost ones, which go on accounting; the others only remove.

### The brokers' books (`RegistryBooksProofs`)

With all of these faults too. A count that is exact while a broker serves is not
inductive: when the broker comes up its count is 0, and so must be the number of its
registered sessions. That needs `Served`, that sessions run only on a broker that
listens, and for the device set `SetEmptied`, that it stays empty from the boot's
transaction on. `ConnCounts`, `ConnMaps` and `ConnAnnounces` say once what a
session's step does to counter and set, to the map and to the events;
`RegisteredOneMore` and `RegisteredOneLess` take it to cardinalities;
`BrokerStepBooks` says the same of a boot, `ExitBooks` of a crash.

### The user's set (`UserSetProofs`)

Without any hypothesis: brokers crash, Redis fails, heartbeats of other devices are
late, devices change hands. `ListedInv` says why no goroutine is about to prune the
device of a session whose heartbeats are in time. Such a session keeps its key
(`KeyKept`), so that what an EXISTS finds stale is the device of an earlier session that
is over by the time of the SREM (`SeenOver`: an id that has been read belongs to a
session that is over, or, before the EXISTS, to one whose key exists). A boot works on
devices of sessions that are over (`ResidueOver`), and so does a goroutine whose
clean-up an error has cut short (`LeakedOver`). `UserSetEffect` lists all that ever leaves a
user's set (`TakesOut`), and `TakenForOver` shows of each of them but `User.offline` that
an earlier session of the device is over.

### Channels and shutdown (`DeviceChannelsProofs`)

`ChannelsInv` adds to the properties that an instruction names a device
(`Addressed`), that nothing is closed before `Dispose` (`Unclosed`, hence
`NoSendOnClosed`), and that a session that was open when the shutdown began is in
the `WaitGroup` or at its end (`OpenEnd`): the `WaitGroup` at zero then says that none
of them is left. `TypeOK` is split in three (`Places`, `Holding`, `DataOK`), each of
which most steps leave alone.

### What a broadcast reaches (`DeliveryProofs`)

`Tracked` says where a frame is on its way to a steady session: still to be visited,
at the sender's look-up or send, received, in the topic, or with the subscriber. The
step that could break it is a send on the channel of another session of the
device, which `SteadyHeld` excludes: for a steady session the channel looked up is
its own. That holds because a steady session stays reachable (`SteadyReached`, with
`KeysKept` for its key), and because an instruction can be told apart from one of
another request (`Labelled`). `Together`, that the process ends for every goroutine at
once, is what makes the goroutines' ends consistent.

### Frames (`FrameCacheProofs`)

`FrameInv` is `TypeOK` with what the cache contains (`CacheOK`, `CacheHoldsNewest`), what
each session holds (`SessionsOK`), and how the client's last frame relates to both
(`ClientOK`): as long as the client's last frame was cached after the cache was deleted
last (`Remembered`), the cache has a frame at least as new, from which the counter of its
next session is read, so that this session's ids are greater (`InStep`). The counter
going back is harmless for that reason only. `delFrameCache` makes `Remembered` false,
and it stays so until the client receives another frame. `WriteGives` then shows what
one write gives the client, and `IdsIncrease` and the refinement follow.

### What a `GET /info` counts (`ClusterInfoProofs`)

`BrokersStay` is that no broker is in `Crashable` or `Stoppable`, as in the run: a broker
that restarts while it is read counts anew, and the sum is then of no use. `InfoInv`
restricts the bounds to the brokers already read (`ReadOf`): of these, the sessions
registered all the while are no more than the sum, those registered at some moment
no fewer. A broker that is read adds as many as are registered with it, by
`CountIsExact`'s invariant, and they are in neither set before (`DisjointConns`).

### What a `POST /send` reaches (`SendRoutingProofs`)

With Redis errors, crashes of other brokers, and any number of goroutines and
devices. `SendInv` has four parts. `RequestOK` and `SplitOK` are the types, and that
goroutines run at `wait` only.

`FoundInv` counts. A device is looked up no more often than it is listed
(`ListedOnce`: the look-ups made and the places still to be looked up, in `ids`,
`remote` or the goroutines' parts, are together no more than `listed`). Of the times
it was found at a broker, each accounts for one place in which it still is
(`Accounted`): with a goroutine that has yet to append it, in the array, in the
instructions, or given. That cannot be said of the lists, for
goroutines overwrite each other's elements and lists: two of them that loaded the same
slice both write to its array, and one that appended to an old slice may have copied
what another copied too. So it is said of each array the broker uses by itself: what
occurs in the array, and what is `Owed` besides, is no more than what was found. A
step of `append` either puts one id into one array, which is one less to be appended,
or makes a copy of an array that already satisfies it (`AppendFound`). When all are
done, only one of a broker's arrays is in its list, and is given (`DispatchFound`).
All this would be lost if two brokers' lists could share an array. They cannot
(`Apart`): an array is made for one broker, the slices loaded, appended to and stored
by whichever goroutine stay with that broker.

`GivenWhereNamed` follows at once, and `GivenAsListed` by `ShorterByOccurrences`: a
sequence in which nothing occurs more often than in another is no longer than that.
A sum over goroutines is the cardinality of a set of places (`Total`), so that these
lemmas need no induction: `TotalExcept` and `TotalOfParts` take such a set
apart, and `ShorterByOccurrences` joins injections, one for each element. The race
thus loses devices, but never misdirects one or gives it twice.

`SteadyInv` follows one session that stays within reach: its device is in a set still
to be read, in `found` or `ids`, in a goroutine's hands or list, in the instructions, or
given (`Tracked`). A list is only sure to keep an id while no second goroutine stores
it, which `Lone` says: what a lone goroutine stores holds what it loaded and one id
more. For two goroutines this is false, see `FindLostUpdate`.

### What is only model-checked

- Liveness: `UserEventuallyOffline`, `RestartForgets`, `LoopServes`. It is out of
  reach of the proof system, and so are fairness and ENABLED.

Every invariant, and every action property, that a passing run checks is proved.

## 6. What is not modelled

- Tokens and request parameters: sequential checks of one request; a request's
  device, user and broker are constants. The one thing of `TokenCheck` that matters
  to others, the type of the last event id, is in FrameCache.
- Formatting, logging, configuration, the one-line Redis wrappers, static pages.
- `GET /info` of a device or a broker, which is one read; the times and the list of
  devices in a user's answer, and the number of users in a cluster's.
- In FrameCache, late heartbeats and Redis errors: HINCRBY on a key that has expired,
  or that a heartbeat has re-created, begins at 1 again (sse_device.go:179), and an
  error gives the frame an id that the next one is given too (line 181).
- go-redis' buffer of messages for a blocked subscriber, and transactions of a Redis
  cluster (see SessionRegistry).

## 7. Plan

The most important behaviour first; 1 to 7 are done.

1. `SessionRegistry`, its runs, and the proofs of its types and of presence.
2. `DeviceChannels` and its runs.
3. `SendRouting` and its runs, composed with SessionRegistry.
4. `FrameCache` and its runs, and its refinement of `FrameLog`.
5. `ClusterInfo`, composed with the above in `ApiRequests`.
6. Proofs: the books of the brokers, the user's set, the channels, what a broadcast
   reaches, the frame cache with its refinement, and the cluster's count.
7. Proofs: what a `POST /send` gives to which broker, and how often.
8. Left: `CountInBounds` with brokers that restart, and `UserOfflineMeansNoDevice` over
   two brokers, one of which clears a device that is served by the other, if forms of
   them can be found that then hold.
