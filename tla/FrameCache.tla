------------------------------ MODULE FrameCache ------------------------------
(***************************************************************************)
(* The frames of one device: the counter last_frame_id in its Redis hash,  *)
(* the sorted set sse_frame_cache_<id>, and a client that connects again   *)
(* and again, to any broker, while older sessions of the device may not    *)
(* have noticed that it is gone.                                           *)
(*                                                                         *)
(* One step is one Redis call or transaction, or one write to a client.    *)
(* Any loop may be given a frame, or told to end, at any time: which of    *)
(* them an instruction reaches, and when, is the subject of DeviceChannels *)
(* and SendRouting. An extrusion through a topic may come late or never.   *)
(***************************************************************************)
EXTENDS Integers, FiniteSets

CONSTANTS
    Conns,       \* the client's GET /events requests
    Users,
    Instances,
    uidOf,       \* the user whose token a request carries
    instanceOf,  \* the broker it is sent to
    CacheSize,   \* sse.device_frame_cache_size, taken to be positive
    Patient,     \* whether the client keeps each connection until its event loop runs
    MaxFrames,   \* bound: the frames accepted in all
    None

ASSUME FrameAssumption ==
    /\ uidOf \in [Conns -> Users]
    /\ instanceOf \in [Conns -> Instances]
    /\ CacheSize \in Nat \ {0} /\ MaxFrames \in Nat /\ Patient \in BOOLEAN
    /\ IsFiniteSet(Conns)
    /\ None \notin Conns \cup Users \cup Instances

VARIABLES
    key,         \* uid, instance_address and last_frame_id of the device's hash
    cache,       \* the frames in the sorted set; the score is the id
    devices,     \* each broker's ServiceInstance.Devices entry of the device
    channel,     \* each broker's deviceChannels entry of the device
    pc,          \* where the goroutine of each request is
    num,         \* the frame id it read or was given last: Device.LastFrameId
    out,         \* the frames it has yet to write
    \* the client
    current,     \* the request whose response it reads
    lastId,      \* the id of the last frame it has received
    \* history
    sent,        \* the number of frames accepted
    lastSeq,     \* which of them the client has received last
    added        \* the frames cached since the cache was deleted last

redisVars == <<key, cache>>
brokerVars == <<devices, channel>>
client == <<current, lastId, lastSeq>>
vars == <<redisVars, brokerVars, pc, num, out, client, sent, added>>

\* seq is its place in the order of acceptance.
Frame == [id : Nat, seq : Nat]

SetUp == {"delCache", "extrude", "readMax", "newDevice", "addLocal"}
InLoop == {"loop", "cacheTx", "write"}
Serving == {"getCached", "replay"} \cup InLoop
Steps == SetUp \cup Serving \cup {"idle", "delLocal", "done"}

NoKey == [uid |-> None, instance |-> None, last |-> 0]

Goto(c, step) == pc' = [pc EXCEPT ![c] = step]

------------------------------------------------------------------------------
(* HandleEvents up to the event loop.                                       *)

\* getDevice, and getRedisDevice if there is none: the user of the existing device
Existing(i) == IF devices[i] # None THEN uidOf[devices[i]] ELSE key.uid
Exists(i) == devices[i] # None \/ key # NoKey

\* The client opens a connection when it has none.
Connect(c) ==
    LET i == instanceOf[c] IN
    /\ pc[c] = "idle"
    /\ current = None
    /\ current' = c
    /\ Goto(c, CASE ~Exists(i) -> "readMax"
                 [] Exists(i) /\ Existing(i) # uidOf[c] -> "delCache"
                 [] OTHER -> "extrude")
    /\ UNCHANGED <<redisVars, brokerVars, num, out, lastId, lastSeq, sent, added>>

\* delFrameCache
DelFrameCache(c) ==
    /\ pc[c] = "delCache"
    /\ cache' = {}
    /\ added' = {}
    /\ Goto(c, "extrude")
    /\ UNCHANGED <<key, brokerVars, num, out, client, sent>>

\* The existing session is told to end, and has received that when it is on this broker.
Extrude(c) ==
    LET i == instanceOf[c]
        s == channel[i]
        local == devices[i] # None \/ key.instance = i
    IN
    /\ pc[c] = "extrude"
    /\ IF local /\ s # None
         THEN pc[s] = "loop" /\ pc' = [pc EXCEPT ![s] = "delLocal", ![c] = "readMax"]
         ELSE Goto(c, "readMax")
    /\ UNCHANGED <<redisVars, brokerVars, num, out, client, sent, added>>

\* Mutant: the counter starts at 0 whatever is cached.
FromZero == 0

\* NewDevice: ZREVRANGE 0 0 WITHSCORES
MaxScore == IF cache = {} THEN 0 ELSE (CHOOSE f \in cache : \A g \in cache : g.id <= f.id).id

ReadMax(c) ==
    /\ pc[c] = "readMax"
    /\ num' = [num EXCEPT ![c] = MaxScore]
    /\ Goto(c, "newDevice")
    /\ UNCHANGED <<redisVars, brokerVars, out, client, sent, added>>

\* NewDevice: the HSET
NewDevice(c) ==
    /\ pc[c] = "newDevice"
    /\ key' = [uid |-> uidOf[c], instance |-> instanceOf[c], last |-> num[c]]
    /\ Goto(c, "addLocal")
    /\ UNCHANGED <<cache, brokerVars, num, out, client, sent, added>>

\* online, up to the flushed "connected" event by which the client knows it is served
AddLocal(c) ==
    /\ pc[c] = "addLocal"
    /\ devices' = [devices EXCEPT ![instanceOf[c]] = c]
    /\ Goto(c, "getCached")
    /\ UNCHANGED <<redisVars, channel, num, out, client, sent, added>>

\* TokenCheck stores the id the client passes as an int; GetInt64 asserts an int64 and
\* returns 0 for anything else.
LastEventId == 0

\* Mutant: the test lastEventId > 0 is dropped.
ReplayedAlways == {f \in cache : f.id >= LastEventId + 1}

\* getCachedFrames: ZRANGEBYSCORE lastEventId+1 +inf
Replayed == IF LastEventId > 0 THEN {f \in cache : f.id >= LastEventId + 1} ELSE {}

GetCachedFrames(c) ==
    /\ pc[c] = "getCached"
    /\ out' = [out EXCEPT ![c] = Replayed]
    /\ Goto(c, "replay")
    /\ UNCHANGED <<redisVars, brokerVars, num, client, sent, added>>

\* The replay is over, the channel is stored.
EnterLoop(c) ==
    /\ pc[c] = "replay" /\ out[c] = {}
    /\ channel' = [channel EXCEPT ![instanceOf[c]] = c]
    /\ Goto(c, "loop")
    /\ UNCHANGED <<redisVars, devices, num, out, client, sent, added>>

------------------------------------------------------------------------------
(* The event loop.                                                          *)

\* addFrame: HINCRBY
NextFrameId(c) ==
    /\ pc[c] = "loop"
    /\ sent + Cardinality({e \in Conns : pc[e] = "cacheTx"}) < MaxFrames
    /\ key' = [key EXCEPT !.last = @ + 1]
    /\ num' = [num EXCEPT ![c] = key.last + 1]
    /\ Goto(c, "cacheTx")
    /\ UNCHANGED <<cache, brokerVars, out, client, sent, added>>

\* Mutant: the frames of rank 0 to -size go, one too many.
KeptBut1(S) == {T \in SUBSET S : /\ Cardinality(T) < CacheSize
                                 /\ \A g \in S \ T : \A f \in T : g.id <= f.id
                                 /\ Cardinality(T) = CacheSize - 1 \/ T = S}

\* ZREMRANGEBYRANK 0 -(size+1): what it keeps; frames of one id go in any order.
Kept(S) == {T \in SUBSET S : /\ Cardinality(T) <= CacheSize
                             /\ \A g \in S \ T : \A f \in T : g.id <= f.id
                             /\ Cardinality(T) = CacheSize \/ T = S}

\* addFrame: ZADD and the trimming in one transaction
AddToCache(c) ==
    LET frame == [id |-> num[c], seq |-> sent + 1] IN
    /\ pc[c] = "cacheTx"
    /\ cache' \in Kept(cache \cup {frame})
    /\ added' = added \cup {frame}
    /\ sent' = sent + 1
    /\ out' = [out EXCEPT ![c] = {frame}]
    /\ Goto(c, "write")
    /\ UNCHANGED <<key, brokerVars, num, client>>

\* Mutant: the handler returns after a frame.
AfterFrameReturn == "done"

AfterFrame == "loop"

\* The next frame goes to the client, if it still reads this response.
Write(c) ==
    /\ \E f \in out[c] :
         /\ \A g \in out[c] : f.id <= g.id
         /\ out' = [out EXCEPT ![c] = @ \ {f}]
         /\ IF current = c
              THEN lastId' = f.id /\ lastSeq' = f.seq
              ELSE UNCHANGED <<lastId, lastSeq>>
    /\ Goto(c, IF pc[c] = "write" THEN AfterFrame ELSE pc[c])
    /\ UNCHANGED <<redisVars, brokerVars, num, current, sent, added>>

\* An instruction other than a frame, a heartbeat that cannot be written, CloseNotify
Leave(c) ==
    /\ pc[c] = "loop"
    /\ Goto(c, "delLocal")
    /\ UNCHANGED <<redisVars, brokerVars, num, out, client, sent, added>>

\* offline, which deletes both entries whoever stored them, and the end of the response
DelLocal(c) ==
    /\ pc[c] = "delLocal"
    /\ devices' = [devices EXCEPT ![instanceOf[c]] = None]
    /\ channel' = [channel EXCEPT ![instanceOf[c]] = None]
    /\ current' = IF current = c THEN None ELSE current
    /\ Goto(c, "done")
    /\ UNCHANGED <<redisVars, num, out, lastId, lastSeq, sent, added>>

------------------------------------------------------------------------------
(* The network and Redis.                                                   *)

\* The client loses, or closes, a connection whose "connected" event it has seen; the
\* broker does not know yet.
Break ==
    /\ current # None
    /\ pc[current] \in (IF Patient THEN InLoop ELSE Serving) \cup {"delLocal"}
    /\ current' = None
    /\ UNCHANGED <<redisVars, brokerVars, pc, num, out, lastId, lastSeq, sent, added>>

\* Heartbeats, here never late, keep the key; the cache lives for a week.
KeyExpires ==
    /\ key # NoKey
    /\ \A c \in Conns : pc[c] \notin {"addLocal"} \cup Serving
    /\ key' = NoKey
    /\ UNCHANGED <<cache, brokerVars, pc, num, out, client, sent, added>>

------------------------------------------------------------------------------
Init ==
    /\ key = NoKey
    /\ cache = {}
    /\ devices = [i \in Instances |-> None]
    /\ channel = [i \in Instances |-> None]
    /\ pc = [c \in Conns |-> "idle"]
    /\ num = [c \in Conns |-> 0]
    /\ out = [c \in Conns |-> {}]
    /\ current = None
    /\ lastId = 0
    /\ sent = 0 /\ lastSeq = 0
    /\ added = {}

Next ==
    \/ \E c \in Conns :
         \/ Connect(c) \/ DelFrameCache(c) \/ Extrude(c) \/ ReadMax(c) \/ NewDevice(c)
         \/ AddLocal(c) \/ GetCachedFrames(c) \/ EnterLoop(c)
         \/ NextFrameId(c) \/ AddToCache(c) \/ Write(c) \/ Leave(c) \/ DelLocal(c)
    \/ Break \/ KeyExpires

Spec == Init /\ [][Next]_vars

------------------------------------------------------------------------------
(* What the frames of a device are promised.                                *)

\* Every variable has its type, and the client reads the response of a request that is
\* being served (HandleEvents).
TypeOK ==
    /\ key \in [uid : Users \cup {None}, instance : Instances \cup {None}, last : Nat]
    /\ cache \subseteq Frame /\ added \subseteq Frame
    /\ devices \in [Instances -> Conns \cup {None}]
    /\ channel \in [Instances -> Conns \cup {None}]
    /\ pc \in [Conns -> Steps]
    /\ num \in [Conns -> Nat]
    /\ out \in [Conns -> SUBSET Frame]
    /\ current \in Conns \cup {None}
    /\ current # None => pc[current] \notin {"idle", "done"}
    /\ lastId \in Nat /\ lastSeq \in Nat /\ sent \in 0 .. MaxFrames

\* The cache never holds more than its size, and holds less, or lacks a frame that is
\* newer by id than one it holds, only if nothing was ever trimmed: also when two
\* sessions of the device add frames at once and give an id twice (addFrame).
CacheHoldsNewest ==
    /\ cache \subseteq added /\ Cardinality(cache) <= CacheSize
    /\ \A f \in added \ cache : /\ Cardinality(cache) = CacheSize
                                /\ \A g \in cache : f.id <= g.id

\* The frame the client received last was cached after the cache was deleted last.
Remembered == \E f \in added : f.seq = lastSeq

\* Each frame the client receives has a greater id than the one before, on whichever
\* broker, as whichever user, and although NewDevice writes back a counter it has read
\* earlier while an older session counts on; unless the cache, from which the counter
\* starts, was deleted in between (NewDevice, addFrame, delFrameCache). That is what
\* lastEventId relies on.
IdsIncrease ==
    [][\A c \in Conns : Write(c) /\ current = c /\ Remembered => lastId' > lastId]_vars

Delivered == INSTANCE FrameLog WITH Lossy <- TRUE, last <- lastSeq
Promised == INSTANCE FrameLog WITH Lossy <- FALSE, last <- lastSeq

\* However often the client comes back it receives each frame at most once, and in the
\* order in which they were accepted (HandleEvents, getCachedFrames, addFrame).
AtMostOnceInOrder == Delivered!Spec

------------------------------------------------------------------------------
(* What the comments say, and the code does not do.                         *)

\* handle_events.go:100, the cached frames are sent: a client that comes back with the id
\* of the last frame it received gets all that came after it and is still cached.
CachedFramesSent == Promised!Spec

=============================================================================
