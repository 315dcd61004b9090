--------------------------- MODULE DeviceChannels ---------------------------
(***************************************************************************)
(* How instructions reach the sessions of one broker, and how it shuts     *)
(* down: the map deviceChannels of unbuffered channels, the goroutines     *)
(* that send on them (API requests, connecting devices that extrude, the   *)
(* subscriber of the broker's topic, the shutdown), the event loops that   *)
(* receive, and the WaitGroup that shutdown waits on.                      *)
(*                                                                         *)
(* A channel is named by the connection that made it. Its sender and the   *)
(* event loop act in one step (a rendezvous): nobody is buffered for.      *)
(***************************************************************************)
EXTENDS Integers, Sequences, FiniteSets

CONSTANTS
    Conns,       \* GET /events requests
    Devices,     \* device ids
    deviceOf,    \* the device each of these requests names
    Reqs,        \* POST /send and /kick requests served by this broker
    command,     \* what each of them makes sessions do: "frame" or "kick"
    targets,     \* the devices each of them is for
    Sub,         \* the goroutine subscribed to the broker's topic
    Stopper,     \* the goroutine of handleShutdown
    MaxRemote,   \* bound: instructions other brokers publish for this one
    Stoppable,   \* whether the broker may be sent SIGTERM
    None

ASSUME ChannelsAssumption ==
    /\ deviceOf \in [Conns -> Devices]
    /\ command \in [Reqs -> {"frame", "kick"}]
    /\ targets \in [Reqs -> SUBSET Devices]
    /\ Conns \cap Reqs = {}
    /\ {Sub, Stopper} \cap (Conns \cup Reqs) = {} /\ Sub # Stopper
    /\ None \notin Conns \cup Devices \cup Reqs
    /\ IsFiniteSet(Conns)
    /\ MaxRemote \in Nat /\ Stoppable \in BOOLEAN

VARIABLES
    keys,       \* devices whose Redis key exists; it names this broker
    devices,    \* ServiceInstance.Devices
    channels,   \* deviceChannels: the connection whose channel is stored
    closed,     \* channels that were closed
    wg,         \* deviceChannelWG
    topic,      \* published to the broker's topic, not yet handled
    remote,     \* number of instructions other brokers have published
    cancelled,  \* TopicCancel was called
    pc,         \* where each goroutine is
    ins,        \* the instruction each goroutine is handling, and the request behind it
    chan,       \* the channel it loaded for it
    todo,       \* the devices a request or the shutdown has yet to visit
    away,       \* the devices a POST /send found no *Device for
    received,   \* history: <<connection, request>>, the frames delivered
    steady,     \* history: the connections reachable ever since a request began
    open        \* history: the connections in their loops or clean-ups when stop began

registered == <<keys, devices>>
sessions == <<channels, closed, wg>>
bus == <<topic, remote, cancelled>>
handling == <<ins, chan>>
unserved == <<todo, away>>
history == <<received, steady, open>>
vars == <<registered, sessions, bus, pc, handling, unserved, history>>

Actors == Conns \cup Reqs \cup {Sub, Stopper}

\* idle and done aside: before the event loop, in it, and after it
SetUp == {"load", "send", "newDevice", "addLocal", "store", "wgAdd"}
WindUp == {"delChannel", "delLocal", "wgDone"}
InWaitGroup(c) == pc[c] \in {"loop", "panicked"} \cup WindUp

Instruction(d, do, r) == [device |-> d, command |-> do, from |-> r]
NoInstruction == Instruction(None, None, None)

Goto(a, step) == pc' = [pc EXCEPT ![a] = step]

\* In its loop and the one that an instruction for its device is sent to.
Reachable(c) == pc[c] = "loop" /\ channels[deviceOf[c]] = c

------------------------------------------------------------------------------
(* handleInstruction: Load, then a send that blocks until it is received.   *)

\* Where a goroutine goes when handleInstruction returns.
Return(a) ==
    CASE a \in Conns -> "newDevice"
      [] a \in Reqs -> "each"
      [] a = Sub -> "listen"
      [] a = Stopper -> "range"

\* Mutant: the second result of deviceChannels.Load is ignored.
FoundOrNot(c) == TRUE

Found(c) == c # None

LoadChannel(a) ==
    LET c == channels[ins[a].device] IN
    /\ pc[a] = "load"
    /\ IF Found(c)
         THEN Goto(a, "send") /\ chan' = [chan EXCEPT ![a] = c] /\ UNCHANGED ins
         ELSE Goto(a, Return(a)) /\ ins' = [ins EXCEPT ![a] = NoInstruction] /\ UNCHANGED chan
    /\ UNCHANGED <<registered, sessions, bus, unserved, history>>

\* Mutant: the handler returns after a frame.
AfterFrameReturn == "panicked"

AfterFrame == "loop"

\* The event loop receives: a frame is written and the loop goes on, any other
\* command of an instruction ends it.
Deliver(a) ==
    LET c == chan[a]
        frame == ins[a].command = "frame"
    IN
    /\ pc[a] = "send"
    /\ c \notin closed
    /\ pc[c] = "loop"
    /\ pc' = [pc EXCEPT ![a] = Return(a), ![c] = IF frame THEN AfterFrame ELSE "delChannel"]
    /\ chan' = [chan EXCEPT ![a] = None]
    /\ ins' = [ins EXCEPT ![a] = NoInstruction]
    /\ received' = received \cup (IF frame THEN {<<c, ins[a].from>>} ELSE {})
    /\ steady' = IF frame THEN steady ELSE [r \in Reqs |-> steady[r] \ {c}]
    /\ UNCHANGED <<registered, sessions, bus, unserved, open>>

\* A send on a closed channel panics, and so does a handler that receives from one:
\* it reads the Command of nil. gin recovers a handler's panic, and nothing is cleaned up.
SendPanics(a) ==
    /\ a \in Conns \cup Reqs
    /\ pc[a] = "send" /\ chan[a] \in closed
    /\ Goto(a, IF a \in Reqs THEN "failed" ELSE "done")
    /\ UNCHANGED <<registered, sessions, bus, handling, unserved, history>>

\* The process ends, and with it all goroutines and all of its memory.
ProcessEnds ==
    /\ pc' = [a \in Actors |-> "exited"]
    /\ devices' = [d \in Devices |-> None]
    /\ channels' = [d \in Devices |-> None]
    /\ wg' = 0
    /\ UNCHANGED <<keys, closed, bus, handling, unserved, history>>

\* Nobody recovers the panic of the subscriber.
SubscriberPanics == pc[Sub] = "send" /\ chan[Sub] \in closed /\ ProcessEnds

------------------------------------------------------------------------------
(* HandleEvents                                                             *)

\* getRedisDevice finds the device.
InRedis(d) == d \in keys

\* The device is looked for in memory, then in Redis; if found it is extruded.
Connect(c) ==
    LET d == deviceOf[c] IN
    /\ pc[c] = "idle"
    /\ IF devices[d] # None \/ InRedis(d)
         THEN /\ ins' = [ins EXCEPT ![c] = Instruction(d, "extrude", None)]
              /\ Goto(c, "load")
         ELSE /\ UNCHANGED ins
              /\ Goto(c, "newDevice")
    /\ UNCHANGED <<registered, sessions, bus, chan, unserved, history>>

NewDevice(c) ==
    /\ pc[c] = "newDevice"
    /\ keys' = keys \cup {deviceOf[c]}
    /\ Goto(c, "addLocal")
    /\ UNCHANGED <<devices, sessions, bus, handling, unserved, history>>

AddLocal(c) ==
    /\ pc[c] = "addLocal"
    /\ devices' = [devices EXCEPT ![deviceOf[c]] = c]
    /\ Goto(c, "store")
    /\ UNCHANGED <<keys, sessions, bus, handling, unserved, history>>

\* deviceChannels.Store: it replaces the channel of another session of the device
StoreChannel(c) ==
    /\ pc[c] = "store"
    /\ channels' = [channels EXCEPT ![deviceOf[c]] = c]
    /\ steady' = [r \in Reqs |-> steady[r] \ {channels[deviceOf[c]]}]
    /\ Goto(c, "wgAdd")
    /\ UNCHANGED <<registered, closed, wg, bus, handling, unserved, received, open>>

WaitGroupAdd(c) ==
    /\ pc[c] = "wgAdd"
    /\ wg' = wg + 1
    /\ Goto(c, "loop")
    /\ UNCHANGED <<registered, channels, closed, bus, handling, unserved, history>>

\* CloseNotify, or a heartbeat that cannot be written
HangUp(c) ==
    /\ pc[c] = "loop"
    /\ Goto(c, "delChannel")
    /\ steady' = [r \in Reqs |-> steady[r] \ {c}]
    /\ UNCHANGED <<registered, sessions, bus, handling, unserved, received, open>>

ReceivePanics(c) ==
    /\ pc[c] = "loop"
    /\ c \in closed
    /\ Goto(c, "panicked")
    /\ steady' = [r \in Reqs |-> steady[r] \ {c}]
    /\ UNCHANGED <<registered, sessions, bus, handling, unserved, received, open>>

\* Mutant: the type assertion succeeds, and the channel is closed.
ClosedBy(d) == closed \cup ({channels[d]} \ {None})

\* Device.offline asserts a chan Instruction, and what was stored is a chan
\* *Instruction: nothing is closed.
ClosedByOffline(d) == closed

\* Mutant: Load instead of LoadAndDelete.
ChannelsKept(d) == channels

ChannelsWithout(d) == [channels EXCEPT ![d] = None]

\* Device.offline: LoadAndDelete, by device id, whoever stored it
DeleteChannel(c) ==
    LET d == deviceOf[c] IN
    /\ pc[c] = "delChannel"
    /\ channels' = ChannelsWithout(d)
    /\ closed' = ClosedByOffline(d)
    /\ steady' = [r \in Reqs |-> steady[r] \ {channels[d]}]
    /\ Goto(c, "delLocal")
    /\ UNCHANGED <<registered, wg, bus, handling, unserved, received, open>>

\* Mutant: a return without deviceChannelWG.Done.
ReturnAtOnce == "done"

DoneFirst == "wgDone"

\* delDevice: s.Devices.Delete
DeleteLocal(c) ==
    /\ pc[c] = "delLocal"
    /\ devices' = [devices EXCEPT ![deviceOf[c]] = None]
    /\ Goto(c, DoneFirst)
    /\ UNCHANGED <<keys, sessions, bus, handling, unserved, history>>

\* The last one wakes stop.
WaitGroupDone(c) ==
    /\ pc[c] = "wgDone"
    /\ wg' = wg - 1
    /\ pc' = [pc EXCEPT ![c] = "done",
                        ![Stopper] = IF @ = "wait" /\ wg = 1 THEN "woken" ELSE @]
    /\ UNCHANGED <<registered, channels, closed, bus, handling, unserved, history>>

------------------------------------------------------------------------------
(* POST /send and /kick, the broker's topic, and Redis.                     *)

\* The goroutine of start has subscribed and not closed its pubsub.
Subscribed == pc[Sub] \in {"listen", "load", "send"}

\* Redis hands a message to who is subscribed at that moment, or to nobody: no session
\* of its device was then within the request's reach all the while.
Publish(i) ==
    IF Subscribed
      THEN topic' = Append(topic, i) /\ UNCHANGED steady
      ELSE /\ steady' = [r \in Reqs |-> {c \in steady[r] : i.from = r => deviceOf[c] # i.device}]
           /\ UNCHANGED topic

RequestArrives(r) ==
    /\ pc[r] = "idle"
    /\ todo' = [todo EXCEPT ![r] = targets[r]]
    /\ steady' = [steady EXCEPT ![r] = {c \in Conns : Reachable(c)}]
    /\ Goto(r, "each")
    /\ UNCHANGED <<registered, sessions, bus, handling, away, received, open>>

\* A device of this broker: its instruction is handled here and now.
EachLocal(r) ==
    /\ pc[r] = "each"
    /\ \E d \in todo[r] :
         /\ devices[d] # None
         /\ todo' = [todo EXCEPT ![r] = @ \ {d}]
         /\ ins' = [ins EXCEPT ![r] = Instruction(d, command[r], r)]
    /\ Goto(r, "load")
    /\ UNCHANGED <<registered, sessions, bus, chan, away, history>>

\* Any other: /kick publishes to the broker its key names, /send does when all of the
\* local ones are served.
EachAway(r) ==
    /\ pc[r] = "each"
    /\ \E d \in todo[r] :
         /\ devices[d] = None
         /\ todo' = [todo EXCEPT ![r] = @ \ {d}]
         /\ IF command[r] = "frame"
              THEN away' = [away EXCEPT ![r] = @ \cup {d}] /\ UNCHANGED <<topic, steady>>
              ELSE /\ UNCHANGED away
                   /\ IF InRedis(d) THEN Publish(Instruction(d, "kick", r))
                                    ELSE UNCHANGED <<topic, steady>>
    /\ UNCHANGED <<registered, sessions, remote, cancelled, handling, pc, received, open>>

\* Mutant: the address in the device's key is not found.
NoAddress(d) == FALSE

HasAddress(d) == d \in keys

\* splitDeviceWithInstanceAddress and DispatchInstructions, one device at a time
SendAway(r) ==
    /\ pc[r] = "each" /\ todo[r] = {}
    /\ \E d \in away[r] :
         /\ away' = [away EXCEPT ![r] = @ \ {d}]
         /\ IF HasAddress(d) THEN Publish(Instruction(d, "frame", r))
                             ELSE UNCHANGED <<topic, steady>>
    /\ UNCHANGED <<registered, sessions, remote, cancelled, handling, todo, pc, received, open>>

\* Mutant: POST /send returns after the first device it served.
RequestDoneEarly(r) ==
    /\ pc[r] = "each"
    /\ Goto(r, "done")
    /\ UNCHANGED <<registered, sessions, bus, handling, unserved, history>>

RequestDone(r) ==
    /\ pc[r] = "each" /\ todo[r] = {} /\ away[r] = {}
    /\ Goto(r, "done")
    /\ UNCHANGED <<registered, sessions, bus, handling, unserved, history>>

\* Another broker publishes for a device whose key names, or named, this one.
RemotePublish ==
    /\ remote < MaxRemote
    /\ remote' = remote + 1
    /\ \E d \in Devices, do \in {"frame", "kick", "extrude"} :
         Publish(Instruction(d, do, None))
    /\ UNCHANGED <<registered, sessions, cancelled, pc, handling, unserved, received, open>>

\* start runs it in a goroutine of its own, which requests do not wait for.
Subscribe ==
    /\ pc[Sub] = "subscribe"
    /\ Goto(Sub, "listen")
    /\ UNCHANGED <<registered, sessions, bus, handling, unserved, history>>

\* A Redis error, or stop's cancel before the confirmation, is fatal.
SubscribeFails == pc[Sub] = "subscribe" /\ ProcessEnds

\* The subscriber handles one message at a time, in its own goroutine.
Listen ==
    /\ pc[Sub] = "listen"
    /\ topic # <<>>
    /\ ins' = [ins EXCEPT ![Sub] = Head(topic)]
    /\ topic' = Tail(topic)
    /\ Goto(Sub, "load")
    /\ UNCHANGED <<registered, sessions, remote, cancelled, chan, unserved, history>>

Unsubscribe ==
    /\ pc[Sub] = "listen"
    /\ cancelled
    /\ Goto(Sub, "done")
    /\ UNCHANGED <<registered, sessions, bus, handling, unserved, history>>

\* The key outlives its sessions by its TTL; their heartbeats keep it.
KeyExpires(d) ==
    /\ d \in keys
    /\ ~\E c \in Conns : deviceOf[c] = d /\ pc[c] \in {"addLocal", "store", "wgAdd", "loop"}
    /\ keys' = keys \ {d}
    /\ UNCHANGED <<devices, sessions, bus, handling, unserved, pc, history>>

------------------------------------------------------------------------------
(* handleShutdown: stop and Dispose.                                        *)

\* deviceChannels.Range visits the keys stored when it starts, and may or may not
\* visit those stored while it runs.
StopBegins ==
    /\ pc[Stopper] = "serving" /\ Stoppable
    /\ cancelled' = TRUE
    /\ \E D \in SUBSET Devices :
         /\ {d \in Devices : channels[d] # None} \subseteq D
         /\ todo' = [todo EXCEPT ![Stopper] = D]
    /\ open' = {c \in Conns : InWaitGroup(c)}
    /\ Goto(Stopper, "range")
    /\ UNCHANGED <<registered, sessions, topic, remote, handling, away, received, steady>>

StopVisits ==
    /\ pc[Stopper] = "range"
    /\ \E d \in todo[Stopper] :
         /\ todo' = [todo EXCEPT ![Stopper] = @ \ {d}]
         /\ IF channels[d] = None
              THEN UNCHANGED <<handling, pc>>
              ELSE /\ ins' = [ins EXCEPT ![Stopper] = Instruction(d, "close", None)]
                   /\ chan' = [chan EXCEPT ![Stopper] = channels[d]]
                   /\ Goto(Stopper, "send")
    /\ UNCHANGED <<registered, sessions, bus, away, history>>

StopWaits ==
    /\ pc[Stopper] = "range" /\ todo[Stopper] = {}
    /\ Goto(Stopper, IF wg = 0 THEN "dispose" ELSE "wait")
    /\ UNCHANGED <<registered, sessions, bus, handling, unserved, history>>

\* Mutant: stop does not wait.
StopReturnsAtOnce == pc[Stopper] \in {"wait", "woken"}

StopReturnsWhen == pc[Stopper] = "woken" /\ wg = 0

StopReturns ==
    /\ StopReturnsWhen
    /\ Goto(Stopper, "dispose")
    /\ UNCHANGED <<registered, sessions, bus, handling, unserved, history>>

\* Wait has been woken by the last Done, and panics for there is another Add since.
StopPanics == pc[Stopper] = "woken" /\ wg # 0 /\ ProcessEnds

\* Dispose closes the channels that are left over.
Dispose ==
    /\ pc[Stopper] = "dispose"
    /\ closed' = closed \cup ({channels[d] : d \in Devices} \ {None})
    /\ Goto(Stopper, "disposed")
    /\ UNCHANGED <<registered, channels, wg, bus, handling, unserved, history>>

\* os.Exit; until then the other goroutines go on.
Exit == pc[Stopper] = "disposed" /\ ProcessEnds

------------------------------------------------------------------------------
Init ==
    /\ keys = {}
    /\ devices = [d \in Devices |-> None]
    /\ channels = [d \in Devices |-> None]
    /\ closed = {}
    /\ wg = 0
    /\ topic = <<>>
    /\ remote = 0
    /\ cancelled = FALSE
    /\ pc = [a \in Actors |-> CASE a = Sub -> "subscribe" [] a = Stopper -> "serving"
                               [] OTHER -> "idle"]
    /\ ins = [a \in Actors |-> NoInstruction]
    /\ chan = [a \in Actors |-> None]
    /\ todo = [a \in Reqs \cup {Stopper} |-> {}]
    /\ away = [r \in Reqs |-> {}]
    /\ received = {}
    /\ steady = [r \in Reqs |-> {}]
    /\ open = {}

HandleInstruction(a) == LoadChannel(a) \/ Deliver(a) \/ SendPanics(a)

Serve(c) ==
    \/ NewDevice(c) \/ AddLocal(c) \/ StoreChannel(c) \/ WaitGroupAdd(c) \/ ReceivePanics(c)
    \/ DeleteChannel(c) \/ DeleteLocal(c) \/ WaitGroupDone(c)

Request(r) == EachLocal(r) \/ EachAway(r) \/ SendAway(r) \/ RequestDone(r)

Subscriber == Subscribe \/ Listen \/ Unsubscribe \/ SubscriberPanics

Shutdown == StopVisits \/ StopWaits \/ StopReturns \/ StopPanics \/ Dispose \/ Exit

Next ==
    \/ \E a \in Actors : HandleInstruction(a)
    \/ \E c \in Conns : Connect(c) \/ Serve(c) \/ HangUp(c)
    \/ \E r \in Reqs : RequestArrives(r) \/ Request(r)
    \/ RemotePublish \/ SubscribeFails \/ Subscriber
    \/ \E d \in Devices : KeyExpires(d)
    \/ StopBegins \/ Shutdown

Spec == Init /\ [][Next]_vars

\* Every goroutine that can run does, in the end; clients, operators, other brokers
\* and expiries owe nothing.
Fairness ==
    /\ \A a \in Actors : WF_vars(HandleInstruction(a))
    /\ \A c \in Conns : WF_vars(Serve(c))
    /\ \A r \in Reqs : WF_vars(Request(r))
    /\ WF_vars(Subscriber) /\ WF_vars(Shutdown)

FairSpec == Spec /\ Fairness

------------------------------------------------------------------------------
(* What the channels promise.                                               *)

\* Every variable has its type, and a goroutine holds a channel only while it is at a
\* send (handleInstruction, HandleEvents, HandleSend, HandleKick, stop).
InstructionType == [device : Devices \cup {None}, from : Reqs \cup {None},
                    command : {"frame", "kick", "extrude", "close", None}]

TypeOK ==
    /\ keys \subseteq Devices
    /\ devices \in [Devices -> Conns \cup {None}]
    /\ channels \in [Devices -> Conns \cup {None}]
    /\ closed \subseteq Conns
    /\ wg \in Nat
    /\ topic \in Seq(InstructionType)
    /\ remote \in 0..MaxRemote
    /\ cancelled \in BOOLEAN
    /\ DOMAIN pc = Actors
    /\ \A c \in Conns : pc[c] \in SetUp \cup WindUp \cup {"idle", "loop", "panicked", "done", "exited"}
    /\ \A r \in Reqs : pc[r] \in {"idle", "each", "load", "send", "done", "failed", "exited"}
    /\ pc[Sub] \in {"subscribe", "listen", "load", "send", "done", "exited"}
    /\ pc[Stopper] \in {"serving", "range", "send", "wait", "woken", "dispose", "disposed", "exited"}
    /\ ins \in [Actors -> InstructionType]
    /\ chan \in [Actors -> Conns \cup {None}]
    /\ \A a \in Actors : pc[a] = "send" => chan[a] # None
    /\ todo \in [Reqs \cup {Stopper} -> SUBSET Devices]
    /\ away \in [Reqs -> SUBSET Devices]
    /\ received \subseteq Conns \X (Reqs \cup {None})
    /\ steady \in [Reqs -> SUBSET Conns]
    /\ open \subseteq Conns

\* The WaitGroup counts the sessions between Add and Done, so that it never goes below
\* zero, which would panic (deviceChannelWG in HandleEvents).
WaitGroupExact == wg = Cardinality({c \in Conns : InWaitGroup(c)})

\* However many requests are set up while it runs, stop returns, and the broker's keys are
\* deleted, only when each session it found in its loop or its clean-up has finished with
\* Redis (stop, HandleEvents).
StopOutlastsSessions ==
    pc[Stopper] \in {"dispose", "disposed"} => \A c \in open : ~InWaitGroup(c)

\* Although Device.offline deletes by device id, the map never keeps the channel of a
\* session that is past its LoadAndDelete (HandleEvents, Device.offline).
NoStaleChannel ==
    \A d \in Devices : LET c == channels[d] IN
        c # None => deviceOf[c] = d /\ pc[c] \in {"wgAdd", "loop", "panicked", "delChannel"}

\* While the broker serves no goroutine is about to send on a closed channel, which
\* would panic (Device.offline, handleInstruction, stop).
NoSendOnClosed ==
    pc[Stopper] \in {"serving", "range", "send", "wait", "woken", "dispose"} =>
        \A a \in Actors : pc[a] = "send" => chan[a] \notin closed

\* A frame of a finished POST /send was received by, or is on its way through the
\* topic (left unread by a shutdown) to, every session that was in its loop all the while,
\* however the look-up of its *Device went (HandleSend, handleInstruction, Subscribe).
OnItsWay(c, r) ==
    LET mine(i) == i.device = deviceOf[c] /\ i.from = r IN
    \/ \E k \in 1..Len(topic) : mine(topic[k])
    \/ pc[Sub] \in {"load", "send"} /\ mine(ins[Sub])

SteadyReceives ==
    \A r \in Reqs : pc[r] = "done" /\ command[r] = "frame" =>
        \A c \in steady[r] :
            deviceOf[c] \in targets[r] => <<c, r>> \in received \/ OnItsWay(c, r)

\* A request that found a session in its event loop is served, or the session leaves:
\* a loop never starves a sender (HandleEvents' select, handleInstruction).
LoopServes ==
    \A a \in Actors : \A c \in Conns :
        (pc[a] = "send" /\ chan[a] = c) ~> (pc[a] # "send" \/ pc[c] \in WindUp \cup {"done"})

------------------------------------------------------------------------------
(* What the documentation and the comments say, and the code does not do.   *)

\* sse_instance.go:168, stop closes all devices connected to this broker: it gets
\* through them (stop, Device.offline).
StopAsksAll == pc[Stopper] = "range" ~> pc[Stopper] \notin {"range", "send"}

=============================================================================
