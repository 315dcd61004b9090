------------------------- MODULE DeviceChannelsProofs -------------------------
(***************************************************************************)
(* Proofs about DeviceChannels for any number of sessions, devices and     *)
(* requests: the types, who holds which channel, what the WaitGroup counts *)
(* and what stop waits for.                                                *)
(***************************************************************************)
EXTENDS DeviceChannels, FiniteSetTheorems, TLAPS

\* Who is about to load a channel has a device to load it for.
Addressed ==
    /\ \A a \in Actors : pc[a] = "load" => ins[a].device \in Devices
    /\ \A k \in 1..Len(topic) : topic[k].device \in Devices

\* Nothing is closed before Dispose; sessions that were open end for good.
Unclosed == pc[Stopper] \notin {"disposed", "exited"} => closed = {}
OpenEnd == \A c \in open : InWaitGroup(c) \/ pc[c] \in {"done", "exited"}

\* The sessions that the WaitGroup counts.
Waiting == {c \in Conns : InWaitGroup(c)}

\* The inductive invariant: what the runs check of the channels, and what it rests on.
ChannelsInv ==
    /\ TypeOK /\ Addressed
    /\ WaitGroupExact /\ NoStaleChannel
    /\ Unclosed /\ OpenEnd /\ StopOutlastsSessions

\* Where a goroutine goes on after an instruction.
LEMMA Returns ==
    /\ \A c \in Conns : Return(c) = "newDevice"
    /\ \A r \in Reqs : Return(r) = "each"
    /\ Return(Sub) = "listen" /\ Return(Stopper) = "range"
BY ChannelsAssumption DEF ChannelsAssumption, Return

\* No instruction but that of nobody is for no device.
LEMMA InstructionTypes ==
    /\ NoInstruction \in InstructionType
    /\ \A d \in Devices, do \in {"frame", "kick", "extrude", "close"}, r \in Reqs \cup {None} :
         /\ Instruction(d, do, r) \in InstructionType
         /\ Instruction(d, do, r).device = d
         /\ Instruction(d, do, r).command = do
         /\ Instruction(d, do, r).from = r
BY DEF NoInstruction, Instruction, InstructionType

\* The broker starts with nothing.
LEMMA InitChannels == Init => ChannelsInv
<1> SUFFICES ASSUME Init PROVE ChannelsInv
  OBVIOUS
<1> USE ChannelsAssumption, InstructionTypes DEF ChannelsAssumption, Init, Actors
<1>1. /\ DOMAIN pc = Actors /\ pc[Sub] = "subscribe" /\ pc[Stopper] = "serving"
      /\ \A a \in Conns \cup Reqs : pc[a] = "idle"
  OBVIOUS
<1>2. topic \in Seq(InstructionType) /\ wg \in Nat /\ remote \in 0..MaxRemote
  OBVIOUS
<1>3. TypeOK
  BY <1>1, <1>2 DEF TypeOK
<1>4. Addressed /\ NoStaleChannel /\ Unclosed /\ OpenEnd /\ StopOutlastsSessions
  BY DEF Addressed, NoStaleChannel, Unclosed, OpenEnd, StopOutlastsSessions
<1>5. Waiting = {}
  BY DEF Waiting, InWaitGroup, WindUp
<1>6. WaitGroupExact
  BY <1>5, FS_EmptySet DEF WaitGroupExact, Waiting
<1> QED
  BY <1>3, <1>4, <1>6 DEF ChannelsInv

\* The end of the process keeps the types.
LEMMA EndTypeOK == TypeOK /\ ProcessEnds => TypeOK'
BY ChannelsAssumption
DEF ChannelsAssumption, TypeOK, ProcessEnds, Actors, bus, handling, unserved, history

\* The places of each kind of goroutine.
PlacesOf(a) ==
    CASE a \in Conns   -> SetUp \cup WindUp \cup {"idle", "loop", "panicked", "done", "exited"}
      [] a \in Reqs    -> {"idle", "each", "load", "send", "done", "failed", "exited"}
      [] a = Sub       -> {"subscribe", "listen", "load", "send", "done", "exited"}
      [] a = Stopper   -> {"serving", "range", "send", "wait", "woken", "dispose", "disposed",
                           "exited"}

\* TypeOK in three parts: the places, the channels held at sends, and the data.
Places == DOMAIN pc = Actors /\ \A a \in Actors : pc[a] \in PlacesOf(a)
Holding == \A a \in Actors : pc[a] = "send" => chan[a] # None
DataOK ==
    /\ keys \subseteq Devices
    /\ devices \in [Devices -> Conns \cup {None}]
    /\ channels \in [Devices -> Conns \cup {None}]
    /\ closed \subseteq Conns /\ wg \in Nat
    /\ topic \in Seq(InstructionType) /\ remote \in 0..MaxRemote /\ cancelled \in BOOLEAN
    /\ ins \in [Actors -> InstructionType] /\ chan \in [Actors -> Conns \cup {None}]
    /\ todo \in [Reqs \cup {Stopper} -> SUBSET Devices] /\ away \in [Reqs -> SUBSET Devices]
    /\ received \subseteq Conns \X (Reqs \cup {None})
    /\ steady \in [Reqs -> SUBSET Conns] /\ open \subseteq Conns

\* The kinds of actors are disjoint, so that each has the places of its own kind.
LEMMA KindsOfActors ==
    /\ \A c \in Conns : PlacesOf(c) = SetUp \cup WindUp \cup
                                        {"idle", "loop", "panicked", "done", "exited"}
    /\ \A r \in Reqs : PlacesOf(r) =
         {"idle", "each", "load", "send", "done", "failed", "exited"}
    /\ PlacesOf(Sub) = {"subscribe", "listen", "load", "send", "done", "exited"}
    /\ PlacesOf(Stopper) = {"serving", "range", "send", "wait", "woken", "dispose", "disposed",
                            "exited"}
BY ChannelsAssumption DEF ChannelsAssumption, PlacesOf

\* The three parts are TypeOK, now and after a step.
LEMMA TypeParts == TypeOK <=> Places /\ Holding /\ DataOK
BY KindsOfActors DEF TypeOK, Places, Holding, DataOK, Actors

LEMMA TypePartsPrimed == Places' /\ Holding' /\ DataOK' => TypeOK'
<1>1. /\ \A c \in Conns : PlacesOf(c)' = PlacesOf(c)
      /\ \A r \in Reqs : PlacesOf(r)' = PlacesOf(r)
  BY DEF PlacesOf
<1> QED
  BY KindsOfActors DEF TypeOK, Places, Holding, DataOK, Actors

\* One goroutine moves to a place of its kind.
LEMMA MoveOK ==
    ASSUME Places, NEW a \in Actors, NEW x \in PlacesOf(a), pc' = [pc EXCEPT ![a] = x]
    PROVE  Places' /\ pc'[a] = x /\ \A b \in Actors \ {a} : pc'[b] = pc[b]
BY DEF Places

\* One goroutine moves, to its next place, and not to a send.
LEMMA PlainMove ==
    ASSUME TypeOK, NEW a \in Actors, NEW x \in PlacesOf(a), x # "send",
           pc' = [pc EXCEPT ![a] = x], UNCHANGED chan, DataOK'
    PROVE  TypeOK'
<1>1. Places' /\ pc'[a] = x /\ \A b \in Actors \ {a} : pc'[b] = pc[b]
  BY MoveOK, TypeParts
<1>2. Holding'
  BY <1>1, TypeParts DEF Holding
<1> QED
  BY <1>1, <1>2, TypePartsPrimed

\* handleInstruction keeps the types.
LEMMA LoadTypeOK ==
    ASSUME TypeOK, Addressed, NEW a \in Actors, LoadChannel(a)
    PROVE  TypeOK'
<1> DEFINE c == channels[ins[a].device]
<1>1. /\ pc[a] = "load" /\ c \in Conns \cup {None}
      /\ UNCHANGED <<registered, sessions, bus, unserved, history>>
  BY DEF LoadChannel, Addressed, TypeOK
<1>2. CASE c # None
  <2>1. /\ pc' = [pc EXCEPT ![a] = "send"] /\ chan' = [chan EXCEPT ![a] = c]
        /\ UNCHANGED ins
    BY <1>2 DEF LoadChannel, Found, Goto
  <2>2. "send" \in PlacesOf(a)
    BY <1>1, TypeParts, KindsOfActors DEF Places, Actors, SetUp, WindUp
  <2>3. Places' /\ \A b \in Actors \ {a} : pc'[b] = pc[b]
    BY <2>1, <2>2, MoveOK, TypeParts
  <2> HIDE DEF c
  <2>4. Holding'
    BY <1>2, <2>1, <2>3 DEF Holding, TypeOK
  <2>5. DataOK'
    BY <1>1, <2>1 DEF DataOK, TypeOK, registered, sessions, bus, unserved, history
  <2> QED
    BY <2>3, <2>4, <2>5, TypePartsPrimed
<1>3. CASE c = None
  <2>1. /\ pc' = [pc EXCEPT ![a] = Return(a)] /\ UNCHANGED chan
        /\ ins' = [ins EXCEPT ![a] = NoInstruction]
    BY <1>3 DEF LoadChannel, Found, Goto
  <2>2. Return(a) \in PlacesOf(a) /\ Return(a) # "send"
    BY Returns, KindsOfActors DEF Actors, SetUp, WindUp
  <2>3. DataOK'
    BY <1>1, <2>1, InstructionTypes
    DEF DataOK, TypeOK, registered, sessions, bus, unserved, history
  <2> QED
    BY <2>1, <2>2, <2>3, PlainMove
<1> QED
  BY <1>2, <1>3

\* What a delivery does.
LEMMA DeliverEffect ==
    ASSUME TypeOK, NEW a \in Actors, Deliver(a)
    PROVE  LET c == chan[a] IN
           /\ pc[a] = "send" /\ c \in Conns /\ pc[c] = "loop" /\ c # a
           /\ pc'[a] = Return(a)
           /\ pc'[c] = IF ins[a].command = "frame" THEN "loop" ELSE "delChannel"
           /\ \A b \in Actors \ {a, c} : pc'[b] = pc[b]
           /\ DOMAIN pc' = Actors
           /\ received' = received \cup
                            (IF ins[a].command = "frame" THEN {<<c, ins[a].from>>} ELSE {})
           /\ steady' = IF ins[a].command = "frame" THEN steady
                                                    ELSE [r \in Reqs |-> steady[r] \ {c}]
           /\ chan' = [chan EXCEPT ![a] = None] /\ ins' = [ins EXCEPT ![a] = NoInstruction]
           /\ UNCHANGED <<registered, sessions, bus, unserved, open>>
<1> DEFINE c == chan[a]
<1>1. pc[a] = "send" /\ pc[c] = "loop" /\ c \in Conns /\ c \in Actors
  BY DEF Deliver, TypeOK, Actors
<1>2. pc' = [pc EXCEPT ![a] = Return(a),
                       ![c] = IF ins[a].command = "frame" THEN "loop" ELSE "delChannel"]
  BY DEF Deliver, AfterFrame
<1> HIDE DEF c
<1>3. /\ DOMAIN pc' = Actors /\ pc'[a] = Return(a)
      /\ pc'[c] = IF ins[a].command = "frame" THEN "loop" ELSE "delChannel"
      /\ \A b \in Actors \ {a, c} : pc'[b] = pc[b]
  BY <1>1, <1>2 DEF TypeOK
<1> QED
  BY <1>1, <1>3 DEF Deliver, c

\* A rendezvous moves the sender and the session that receives.
LEMMA DeliverTypeOK ==
    ASSUME TypeOK, NEW a \in Actors, Deliver(a)
    PROVE  TypeOK'
<1> DEFINE c == chan[a]
<1>1. /\ pc[a] = "send" /\ c \in Conns /\ pc[c] = "loop" /\ c # a
      /\ pc'[a] = Return(a) /\ pc'[c] \in {"loop", "delChannel"}
      /\ \A b \in Actors \ {a, c} : pc'[b] = pc[b]
      /\ DOMAIN pc' = Actors
      /\ received' \subseteq received \cup {<<c, ins[a].from>>}
      /\ steady' \in {steady, [r \in Reqs |-> steady[r] \ {c}]}
      /\ chan' = [chan EXCEPT ![a] = None] /\ ins' = [ins EXCEPT ![a] = NoInstruction]
      /\ UNCHANGED <<registered, sessions, bus, unserved, open>>
  BY DeliverEffect
<1>2. Return(a) \in PlacesOf(a) /\ Return(a) # "send"
  BY Returns, KindsOfActors DEF Actors, SetUp, WindUp
<1>3. {"loop", "delChannel"} \subseteq PlacesOf(c)
  BY <1>1, KindsOfActors DEF WindUp
<1>4. \A b \in Actors : pc[b] \in PlacesOf(b)
  BY TypeParts DEF Places
<1> HIDE DEF c
<1>5. Places'
  BY <1>1, <1>2, <1>3, <1>4 DEF Places
<1>6. Holding'
  BY <1>1, <1>2 DEF Holding, TypeOK
<1>7. ins[a].from \in Reqs \cup {None}
  BY DEF TypeOK, InstructionType
<1>8. received' \subseteq Conns \X (Reqs \cup {None}) /\ steady' \in [Reqs -> SUBSET Conns]
  BY <1>1, <1>7 DEF TypeOK
<1>9. DataOK'
  BY <1>1, <1>8, InstructionTypes DEF DataOK, TypeOK, registered, sessions, bus, unserved
<1> QED
  BY <1>5, <1>6, <1>9, TypePartsPrimed

\* A session's steps keep the types.
LEMMA ConnTypeOK ==
    ASSUME TypeOK, WaitGroupExact, NEW c \in Conns, Connect(c) \/ Serve(c) \/ HangUp(c)
    PROVE  TypeOK'
<1> USE DEF registered, sessions, bus, handling, unserved, history
<1>1. c \in Actors /\ deviceOf[c] \in Devices /\ c # Stopper
  BY ChannelsAssumption DEF ChannelsAssumption, Actors
<1>2. {"load", "newDevice", "addLocal", "store", "wgAdd", "loop", "delChannel", "panicked",
       "delLocal", "wgDone", "done"} \subseteq PlacesOf(c)
  BY KindsOfActors DEF SetUp, WindUp
<1>3. DataOK
  BY TypeParts
<1>4. CASE Connect(c)
  <2>1. /\ ins' \in {ins, [ins EXCEPT ![c] = Instruction(deviceOf[c], "extrude", None)]}
        /\ UNCHANGED <<registered, sessions, bus, chan, unserved, history>>
        /\ \E x \in {"load", "newDevice"} : pc' = [pc EXCEPT ![c] = x]
    BY <1>4 DEF Connect, Goto
  <2>2. Instruction(deviceOf[c], "extrude", None) \in InstructionType
    BY <1>1, InstructionTypes
  <2>3. ins' \in [Actors -> InstructionType]
    BY <1>3, <2>1, <2>2 DEF DataOK
  <2>4. DataOK'
    BY <1>3, <2>1, <2>3 DEF DataOK
  <2> QED
    BY <1>1, <1>2, <2>1, <2>4, PlainMove
<1>5. CASE NewDevice(c) \/ AddLocal(c) \/ HangUp(c) \/ ReceivePanics(c)
  <2>1. /\ \E x \in {"addLocal", "store", "delChannel", "panicked"} :
             pc' = [pc EXCEPT ![c] = x]
        /\ UNCHANGED chan
    BY <1>5 DEF NewDevice, AddLocal, HangUp, ReceivePanics, Goto
  <2>2. DataOK'
    BY <1>1, <1>3, <1>5 DEF NewDevice, AddLocal, HangUp, ReceivePanics, DataOK
  <2> QED
    BY <1>1, <1>2, <2>1, <2>2, PlainMove
<1>6. CASE StoreChannel(c) \/ WaitGroupAdd(c)
  <2>1. /\ \E x \in {"wgAdd", "loop"} : pc' = [pc EXCEPT ![c] = x]
        /\ UNCHANGED chan
    BY <1>6 DEF StoreChannel, WaitGroupAdd, Goto
  <2>2. DataOK'
    BY <1>1, <1>3, <1>6 DEF StoreChannel, WaitGroupAdd, DataOK
  <2> QED
    BY <1>1, <1>2, <2>1, <2>2, PlainMove
<1>7. CASE DeleteChannel(c) \/ DeleteLocal(c)
  <2>1. /\ \E x \in {"delLocal", "wgDone"} : pc' = [pc EXCEPT ![c] = x]
        /\ UNCHANGED chan
    BY <1>7 DEF DeleteChannel, DeleteLocal, DoneFirst, Goto
  <2>2. DataOK'
    <3>1. CASE DeleteChannel(c)
      BY <1>1, <1>3, <3>1 DEF DeleteChannel, ChannelsWithout, ClosedByOffline, DataOK
    <3>2. CASE DeleteLocal(c)
      BY <1>1, <1>3, <3>2 DEF DeleteLocal, DataOK
    <3> QED
      BY <1>7, <3>1, <3>2
  <2> QED
    BY <1>1, <1>2, <2>1, <2>2, PlainMove
<1>8. CASE WaitGroupDone(c)
  <2>1. /\ pc[c] = "wgDone" /\ wg' = wg - 1
        /\ UNCHANGED <<registered, channels, closed, bus, handling, unserved, history>>
        /\ pc' = [pc EXCEPT ![c] = "done",
                            ![Stopper] = IF @ = "wait" /\ wg = 1 THEN "woken" ELSE @]
    BY <1>8 DEF WaitGroupDone
  <2>2. wg' \in Nat
    <3>1. IsFiniteSet(Waiting) /\ c \in Waiting
      BY <2>1, FS_Subset, ChannelsAssumption DEF ChannelsAssumption, Waiting, InWaitGroup, WindUp
    <3>2. Cardinality(Waiting) \in Nat \ {0}
      BY <3>1, FS_CardinalityType, FS_EmptySet
    <3> QED
      BY <2>1, <3>2 DEF WaitGroupExact, Waiting
  <2>3. DataOK'
    BY <1>3, <2>1, <2>2 DEF DataOK
  <2>4. /\ DOMAIN pc' = Actors /\ pc'[c] = "done"
        /\ pc'[Stopper] \in {pc[Stopper], "woken"}
        /\ \A b \in Actors \ {c, Stopper} : pc'[b] = pc[b]
    BY <1>1, <2>1 DEF TypeOK, Actors
  <2>5. Places'
    BY <1>2, <2>4, TypeParts, KindsOfActors DEF Places
  <2>6. Holding'
    BY <2>1, <2>4, TypeParts DEF Holding
  <2> QED
    BY <2>3, <2>5, <2>6, TypePartsPrimed
<1> QED
  BY <1>4, <1>5, <1>6, <1>7, <1>8 DEF Serve

\* What a publication does: nobody's instruction is lost but for those it makes unsteady.
LEMMA PublishEffect ==
    ASSUME NEW i, Publish(i), TypeOK
    PROVE  /\ Subscribed => topic' = Append(topic, i) /\ UNCHANGED steady
           /\ ~Subscribed => /\ UNCHANGED topic
                             /\ steady' = [r \in Reqs |-> {c \in steady[r] :
                                             i.from = r => deviceOf[c] # i.device}]
           /\ i \in InstructionType =>
                topic' \in Seq(InstructionType) /\ steady' \in [Reqs -> SUBSET Conns]
<1>1. CASE Subscribed
  <2>1. topic' = Append(topic, i) /\ UNCHANGED steady
    BY <1>1 DEF Publish
  <2>2. topic \in Seq(InstructionType) /\ steady \in [Reqs -> SUBSET Conns]
    BY DEF TypeOK
  <2> QED
    BY <1>1, <2>1, <2>2
<1>2. CASE ~Subscribed
  BY <1>2 DEF Publish, TypeOK
<1> QED
  BY <1>1, <1>2

\* A request's steps keep the types, and so do those of other brokers.
LEMMA RequestTypeOK ==
    ASSUME TypeOK, NEW r \in Reqs, RequestArrives(r) \/ Request(r)
    PROVE  TypeOK'
<1> USE DEF registered, sessions, bus, handling, unserved, history
<1>1. r \in Actors /\ targets[r] \subseteq Devices /\ command[r] \in {"frame", "kick"}
  BY ChannelsAssumption DEF ChannelsAssumption, Actors
<1>2. {"each", "load", "done"} \subseteq PlacesOf(r)
  BY KindsOfActors
<1>3. DataOK
  BY TypeParts
<1>4. CASE RequestArrives(r)
  <2>1. pc' = [pc EXCEPT ![r] = "each"] /\ UNCHANGED chan
    BY <1>4 DEF RequestArrives, Goto
  <2>2. DataOK'
    BY <1>1, <1>3, <1>4 DEF RequestArrives, DataOK
  <2> QED
    BY <1>1, <1>2, <2>1, <2>2, PlainMove
<1>5. CASE EachLocal(r)
  <2>1. PICK d \in todo[r] : /\ todo' = [todo EXCEPT ![r] = @ \ {d}]
                             /\ ins' = [ins EXCEPT ![r] = Instruction(d, command[r], r)]
    BY <1>5 DEF EachLocal
  <2>2. /\ pc' = [pc EXCEPT ![r] = "load"]
        /\ UNCHANGED <<registered, sessions, bus, chan, away, history>>
    BY <1>5 DEF EachLocal, Goto
  <2>3. DataOK'
    BY <1>1, <1>3, <2>1, <2>2, InstructionTypes DEF DataOK
  <2> QED
    BY <1>1, <1>2, <2>2, <2>3, PlainMove
<1>6. CASE EachAway(r)
  <2>1. PICK d \in todo[r] :
          /\ todo' = [todo EXCEPT ![r] = @ \ {d}]
          /\ \/ away' = [away EXCEPT ![r] = @ \cup {d}] /\ UNCHANGED <<topic, steady>>
             \/ UNCHANGED <<away, topic, steady>>
             \/ UNCHANGED away /\ Publish(Instruction(d, "kick", r))
    BY <1>6 DEF EachAway
  <2>2. UNCHANGED <<registered, sessions, remote, cancelled, handling, pc, received, open>>
    BY <1>6 DEF EachAway
  <2>3. d \in Devices
    BY <2>1 DEF TypeOK
  <2>4. topic' \in Seq(InstructionType) /\ steady' \in [Reqs -> SUBSET Conns]
    BY <1>3, <2>1, <2>3, InstructionTypes, PublishEffect DEF DataOK
  <2>5. DataOK'
    BY <1>3, <2>1, <2>2, <2>3, <2>4 DEF DataOK
  <2> QED
    BY <2>2, <2>5, TypeParts, TypePartsPrimed DEF Places, Holding
<1>7. CASE SendAway(r)
  <2>1. PICK d \in away[r] :
          /\ away' = [away EXCEPT ![r] = @ \ {d}]
          /\ UNCHANGED <<topic, steady>> \/ Publish(Instruction(d, "frame", r))
    BY <1>7 DEF SendAway
  <2>2. UNCHANGED <<registered, sessions, remote, cancelled, handling, todo, pc, received, open>>
    BY <1>7 DEF SendAway
  <2>3. d \in Devices
    BY <2>1 DEF TypeOK
  <2>4. topic' \in Seq(InstructionType) /\ steady' \in [Reqs -> SUBSET Conns]
    BY <1>3, <2>1, <2>3, InstructionTypes, PublishEffect DEF DataOK
  <2>5. DataOK'
    BY <1>3, <2>1, <2>2, <2>4 DEF DataOK
  <2> QED
    BY <2>2, <2>5, TypeParts, TypePartsPrimed DEF Places, Holding
<1>8. CASE RequestDone(r)
  <2>1. pc' = [pc EXCEPT ![r] = "done"] /\ UNCHANGED chan
    BY <1>8 DEF RequestDone, Goto
  <2>2. DataOK'
    BY <1>3, <1>8 DEF RequestDone, DataOK
  <2> QED
    BY <1>1, <1>2, <2>1, <2>2, PlainMove
<1> QED
  BY <1>4, <1>5, <1>6, <1>7, <1>8 DEF Request

\* Another broker publishes an instruction for one of the devices, or for nobody here.
LEMMA RemoteTypeOK == TypeOK /\ RemotePublish => TypeOK'
<1> SUFFICES ASSUME TypeOK, RemotePublish PROVE TypeOK'
  OBVIOUS
<1> USE DEF registered, sessions, bus, handling, unserved, history
<1>1. PICK d \in Devices, do \in {"frame", "kick", "extrude"} : Publish(Instruction(d, do, None))
  BY DEF RemotePublish
<1>2. Instruction(d, do, None) \in InstructionType
  BY InstructionTypes
<1>3. topic' \in Seq(InstructionType) /\ steady' \in [Reqs -> SUBSET Conns]
  BY <1>1, <1>2, PublishEffect
<1>4. remote' \in 0..MaxRemote
  BY ChannelsAssumption DEF ChannelsAssumption, RemotePublish, TypeOK
<1>5. DataOK'
  BY <1>3, <1>4, TypeParts DEF RemotePublish, DataOK
<1> QED
  BY <1>5, TypeParts, TypePartsPrimed DEF RemotePublish, Places, Holding

\* The subscriber's steps keep the types, the shutdown's do, and an expiry.
LEMMA SubscriberTypeOK ==
    ASSUME TypeOK, SubscribeFails \/ Subscriber
    PROVE  TypeOK'
<1> USE DEF registered, sessions, bus, handling, unserved, history
<1>1. Sub \in Actors /\ {"listen", "load", "done"} \subseteq PlacesOf(Sub) /\ DataOK
  BY KindsOfActors, TypeParts DEF Actors
<1>2. CASE SubscribeFails \/ SubscriberPanics
  BY <1>2, EndTypeOK DEF SubscribeFails, SubscriberPanics
<1>3. CASE Subscribe \/ Unsubscribe
  <2>1. /\ \E x \in {"listen", "done"} : pc' = [pc EXCEPT ![Sub] = x]
        /\ UNCHANGED <<registered, sessions, bus, handling, unserved, history>>
    BY <1>3 DEF Subscribe, Unsubscribe, Goto
  <2>2. DataOK'
    BY <1>1, <2>1 DEF DataOK
  <2> QED
    BY <1>1, <2>1, <2>2, PlainMove
<1>4. CASE Listen
  <2>1. /\ topic # <<>> /\ topic' = Tail(topic)
        /\ ins' = [ins EXCEPT ![Sub] = Head(topic)] /\ pc' = [pc EXCEPT ![Sub] = "load"]
        /\ UNCHANGED <<registered, sessions, remote, cancelled, chan, unserved, history>>
    BY <1>4 DEF Listen, Goto
  <2>2. topic' \in Seq(InstructionType) /\ Head(topic) \in InstructionType
    BY <1>1, <2>1 DEF DataOK
  <2>3. ins' \in [Actors -> InstructionType]
    BY <1>1, <2>1, <2>2 DEF DataOK
  <2>4. DataOK'
    BY <1>1, <2>1, <2>2, <2>3 DEF DataOK
  <2> QED
    BY <1>1, <2>1, <2>4, PlainMove
<1> QED
  BY <1>2, <1>3, <1>4 DEF Subscriber

\* The goroutine that shuts down keeps the types.
LEMMA ShutdownTypeOK ==
    ASSUME TypeOK, StopBegins \/ Shutdown
    PROVE  TypeOK'
<1> USE DEF registered, sessions, bus, handling, unserved, history
<1>1. /\ Stopper \in Actors /\ DataOK
      /\ {"range", "wait", "dispose", "disposed", "send"} \subseteq PlacesOf(Stopper)
  BY KindsOfActors, TypeParts DEF Actors
<1>2. CASE StopPanics \/ Exit
  BY <1>2, EndTypeOK DEF StopPanics, Exit
<1>3. CASE StopBegins
  <2>1. /\ pc' = [pc EXCEPT ![Stopper] = "range"] /\ UNCHANGED chan
        /\ \E D \in SUBSET Devices : todo' = [todo EXCEPT ![Stopper] = D]
    BY <1>3 DEF StopBegins, Goto
  <2>2. DataOK'
    BY <1>1, <1>3, <2>1 DEF StopBegins, DataOK
  <2> QED
    BY <1>1, <2>1, <2>2, PlainMove
<1>4. CASE StopVisits
  <2>1. PICK d \in todo[Stopper] :
          /\ todo' = [todo EXCEPT ![Stopper] = @ \ {d}]
          /\ IF channels[d] = None
               THEN UNCHANGED <<handling, pc>>
               ELSE /\ ins' = [ins EXCEPT ![Stopper] = Instruction(d, "close", None)]
                    /\ chan' = [chan EXCEPT ![Stopper] = channels[d]]
                    /\ pc' = [pc EXCEPT ![Stopper] = "send"]
    BY <1>4 DEF StopVisits, Goto
  <2>2. UNCHANGED <<registered, sessions, bus, away, history>>
    BY <1>4 DEF StopVisits
  <2>3. d \in Devices /\ channels[d] \in Conns \cup {None}
    BY <1>1, <2>1 DEF DataOK
  <2>4. Instruction(d, "close", None) \in InstructionType
    BY <2>3, InstructionTypes
  <2>5. ins' \in [Actors -> InstructionType] /\ chan' \in [Actors -> Conns \cup {None}]
    BY <1>1, <2>1, <2>3, <2>4 DEF DataOK
  <2>6. DataOK'
    BY <1>1, <2>1, <2>2, <2>5 DEF DataOK
  <2>7. Places'
    BY <1>1, <2>1, TypeParts DEF Places
  <2>8. Holding'
    BY <1>1, <2>1, TypeParts DEF Holding, Places, DataOK
  <2> QED
    BY <2>6, <2>7, <2>8, TypePartsPrimed
<1>5. CASE StopWaits \/ StopReturns
  <2>1. /\ \E x \in {"wait", "dispose"} : pc' = [pc EXCEPT ![Stopper] = x]
        /\ UNCHANGED <<registered, sessions, bus, handling, unserved, history>>
    BY <1>5 DEF StopWaits, StopReturns, Goto
  <2>2. DataOK'
    BY <1>1, <2>1 DEF DataOK
  <2> QED
    BY <1>1, <2>1, <2>2, PlainMove
<1>6. CASE Dispose
  <2>1. pc' = [pc EXCEPT ![Stopper] = "disposed"] /\ UNCHANGED chan
    BY <1>6 DEF Dispose, Goto
  <2>2. DataOK'
    BY <1>1, <1>6 DEF Dispose, DataOK
  <2> QED
    BY <1>1, <2>1, <2>2, PlainMove
<1> QED
  BY <1>2, <1>3, <1>4, <1>5, <1>6 DEF Shutdown

\* Every step keeps the types.
LEMMA NextTypeOK ==
    ASSUME TypeOK, Addressed, WaitGroupExact, [Next]_vars
    PROVE  TypeOK'
<1>1. ASSUME NEW a \in Actors, SendPanics(a) PROVE TypeOK'
  <2>1. /\ pc' = [pc EXCEPT ![a] = IF a \in Reqs THEN "failed" ELSE "done"]
        /\ a \in Conns \cup Reqs
        /\ UNCHANGED <<registered, sessions, bus, handling, unserved, history>>
    BY <1>1 DEF SendPanics, Goto
  <2>2. DataOK'
    BY <2>1, TypeParts DEF DataOK, registered, sessions, bus, handling, unserved, history
  <2>3. (IF a \in Reqs THEN "failed" ELSE "done") \in PlacesOf(a) \ {"send"}
    BY <2>1, KindsOfActors
  <2> QED
    BY <2>1, <2>2, <2>3, PlainMove DEF handling
<1>2. ASSUME NEW d \in Devices, KeyExpires(d) PROVE TypeOK'
  <2>1. DataOK'
    BY <1>2, TypeParts DEF KeyExpires, DataOK, sessions, bus, handling, unserved, history
  <2> QED
    BY <1>2, <2>1, TypeParts, TypePartsPrimed DEF KeyExpires, Places, Holding, handling
<1>3. CASE UNCHANGED vars
  <2>1. Places' /\ Holding' /\ DataOK'
    BY <1>3, TypeParts DEF vars, registered, sessions, bus, handling, unserved, history, Places,
       Holding, DataOK
  <2> QED
    BY <2>1, TypePartsPrimed
<1> QED
  BY <1>1, <1>2, <1>3, LoadTypeOK, DeliverTypeOK, ConnTypeOK, RequestTypeOK, RemoteTypeOK,
     SubscriberTypeOK, ShutdownTypeOK DEF Next, HandleInstruction

------------------------------------------------------------------------------
(* Who holds which channel, and what the WaitGroup counts.                  *)

\* A session comes to its event loop, stays in it or leaves it.
SessionMove(c) ==
    /\ \A b \in Conns \ {c} : pc'[b] = pc[b]
    /\ UNCHANGED <<closed, open>>
    /\ \/ /\ pc[c] = "newDevice" /\ pc'[c] = "addLocal" /\ UNCHANGED <<channels, wg>>
          /\ deviceOf[c] \in keys'
       \/ /\ pc[c] = "addLocal" /\ pc'[c] = "store" /\ UNCHANGED <<channels, wg>>
       \/ /\ pc[c] = "store" /\ pc'[c] = "wgAdd" /\ UNCHANGED wg
          /\ channels' = [channels EXCEPT ![deviceOf[c]] = c]
       \/ /\ pc[c] = "wgAdd" /\ pc'[c] = "loop" /\ wg' = wg + 1 /\ UNCHANGED channels
       \/ /\ pc[c] = "loop" /\ pc'[c] \in {"loop", "delChannel", "panicked"}
          /\ UNCHANGED <<channels, wg>>
       \/ /\ pc[c] = "delChannel" /\ pc'[c] = "delLocal" /\ UNCHANGED wg
          /\ channels' = [channels EXCEPT ![deviceOf[c]] = None]
       \/ /\ pc[c] = "delLocal" /\ pc'[c] = "wgDone" /\ UNCHANGED <<channels, wg>>
       \/ /\ pc[c] = "wgDone" /\ pc'[c] = "done" /\ wg' = wg - 1 /\ UNCHANGED channels

\* No session moves but before its set-up, and nothing of the map or the count changes.
Aside ==
    /\ UNCHANGED <<channels, wg>>
    /\ UNCHANGED open \/ StopBegins
    /\ \A c \in Conns : \/ pc'[c] = pc[c]
                        \/ /\ pc[c] \in {"idle", "load", "send"}
                           /\ pc'[c] \in {"load", "send", "newDevice", "done"}

\* A delivery moves the session that receives, and maybe one that extrudes.
Received(c) ==
    /\ pc[c] = "loop" /\ pc'[c] \in {"loop", "delChannel"}
    /\ UNCHANGED <<channels, wg, closed, open>>
    /\ \A b \in Conns \ {c} : \/ pc'[b] = pc[b]
                              \/ pc[b] = "send" /\ pc'[b] = "newDevice"

\* What a session's own steps are.
LEMMA ServeMoves ==
    ASSUME TypeOK, NEW c \in Conns, Serve(c) \/ HangUp(c)
    PROVE  /\ SessionMove(c)
           /\ \A b \in Actors \ {c, Stopper} : pc'[b] = pc[b]
           /\ pc'[Stopper] \in {pc[Stopper], "woken"}
           /\ pc'[Stopper] # pc[Stopper] => pc[Stopper] = "wait"
<1> USE DEF registered, sessions, bus, handling, unserved, history
<1> DEFINE Others == \A b \in Actors \ {c} : pc'[b] = pc[b]
<1>1. c \in Actors /\ c # Stopper /\ Conns \subseteq Actors /\ Stopper \notin Conns
  BY ChannelsAssumption DEF ChannelsAssumption, Actors
<1>2. ASSUME NEW x, pc' = [pc EXCEPT ![c] = x] PROVE pc'[c] = x /\ Others
  BY <1>1, <1>2 DEF TypeOK
<1>3. ASSUME Others
      PROVE  /\ \A b \in Conns \ {c} : pc'[b] = pc[b]
             /\ \A b \in Actors \ {c, Stopper} : pc'[b] = pc[b]
             /\ pc'[Stopper] = pc[Stopper]
  BY <1>1, <1>3, ChannelsAssumption DEF ChannelsAssumption, Actors
<1> HIDE DEF Others
<1>4. ASSUME SessionMove(c), Others
      PROVE  /\ SessionMove(c)
             /\ \A b \in Actors \ {c, Stopper} : pc'[b] = pc[b]
             /\ pc'[Stopper] \in {pc[Stopper], "woken"}
             /\ pc'[Stopper] # pc[Stopper] => pc[Stopper] = "wait"
  BY <1>3, <1>4
<1>5. CASE NewDevice(c)
  <2>1. pc[c] = "newDevice" /\ pc'[c] = "addLocal" /\ Others
    BY <1>2, <1>5 DEF NewDevice, Goto
  <2> QED
    BY <1>3, <1>4, <1>5, <2>1 DEF NewDevice, SessionMove
<1>6. CASE AddLocal(c)
  <2>1. pc[c] = "addLocal" /\ pc'[c] = "store" /\ Others
    BY <1>2, <1>6 DEF AddLocal, Goto
  <2> QED
    BY <1>3, <1>4, <1>6, <2>1 DEF AddLocal, SessionMove
<1>7. CASE StoreChannel(c)
  <2>1. pc[c] = "store" /\ pc'[c] = "wgAdd" /\ Others
    BY <1>2, <1>7 DEF StoreChannel, Goto
  <2> QED
    BY <1>3, <1>4, <1>7, <2>1 DEF StoreChannel, SessionMove
<1>8. CASE WaitGroupAdd(c)
  <2>1. pc[c] = "wgAdd" /\ pc'[c] = "loop" /\ Others
    BY <1>2, <1>8 DEF WaitGroupAdd, Goto
  <2> QED
    BY <1>3, <1>4, <1>8, <2>1 DEF WaitGroupAdd, SessionMove
<1>9. CASE ReceivePanics(c) \/ HangUp(c)
  <2>1. pc[c] = "loop" /\ pc'[c] \in {"panicked", "delChannel"} /\ Others
    BY <1>2, <1>9 DEF ReceivePanics, HangUp, Goto
  <2> QED
    BY <1>3, <1>4, <1>9, <2>1 DEF ReceivePanics, HangUp, SessionMove
<1>10. CASE DeleteChannel(c)
  <2>1. pc[c] = "delChannel" /\ pc'[c] = "delLocal" /\ Others
    BY <1>2, <1>10 DEF DeleteChannel, Goto
  <2> QED
    BY <1>3, <1>4, <1>10, <2>1
    DEF DeleteChannel, ChannelsWithout, ClosedByOffline, SessionMove
<1>11. CASE DeleteLocal(c)
  <2>1. pc[c] = "delLocal" /\ pc'[c] = "wgDone" /\ Others
    BY <1>2, <1>11 DEF DeleteLocal, DoneFirst, Goto
  <2> QED
    BY <1>3, <1>4, <1>11, <2>1 DEF DeleteLocal, SessionMove
<1>12. CASE WaitGroupDone(c)
  <2>1. /\ pc[c] = "wgDone" /\ pc'[c] = "done"
        /\ \A b \in Actors \ {c, Stopper} : pc'[b] = pc[b]
        /\ pc'[Stopper] \in {pc[Stopper], "woken"}
        /\ pc'[Stopper] # pc[Stopper] => pc[Stopper] = "wait"
    BY <1>1, <1>12 DEF WaitGroupDone, TypeOK, Actors
  <2>2. \A b \in Conns \ {c} : pc'[b] = pc[b]
    BY <1>1, <2>1
  <2> QED
    BY <1>12, <2>1, <2>2 DEF WaitGroupDone, SessionMove
<1> QED
  BY <1>5, <1>6, <1>7, <1>8, <1>9, <1>10, <1>11, <1>12 DEF Serve

\* What all steps do to the sessions.
LEMMA StepKinds ==
    ASSUME TypeOK, [Next]_vars
    PROVE  \/ ProcessEnds
           \/ \E c \in Conns : SessionMove(c)
           \/ \E c \in Conns : Received(c)
           \/ Aside
<1> USE DEF registered, sessions, bus, handling, unserved, history, Goto
<1>1. /\ Conns \subseteq Actors /\ Sub \notin Conns /\ Stopper \notin Conns
      /\ Conns \cap Reqs = {} /\ DOMAIN pc = Actors
  BY ChannelsAssumption DEF ChannelsAssumption, Actors, TypeOK
<1>2. ASSUME NEW a \in Actors, LoadChannel(a) \/ SendPanics(a) PROVE Aside
  <2>1. /\ pc[a] \in {"load", "send"} /\ UNCHANGED <<channels, wg, open>>
        /\ pc' \in {[pc EXCEPT ![a] = "send"], [pc EXCEPT ![a] = Return(a)],
                    [pc EXCEPT ![a] = IF a \in Reqs THEN "failed" ELSE "done"]}
    BY <1>2 DEF LoadChannel, SendPanics
  <2> QED
    BY <1>1, <2>1, Returns DEF Aside
<1>3. ASSUME NEW a \in Actors, Deliver(a) PROVE Received(chan[a])
  BY <1>1, <1>3, DeliverEffect, Returns, TypeParts, KindsOfActors DEF Received
<1>4. ASSUME NEW a \in Actors, Deliver(a) PROVE chan[a] \in Conns
  BY <1>4, DeliverEffect
<1>5. ASSUME NEW c \in Conns, Connect(c) PROVE Aside
  BY <1>1, <1>5 DEF Connect, Aside
<1>6. ASSUME NEW r \in Reqs, RequestArrives(r) \/ Request(r) PROVE Aside
  BY <1>1, <1>6
  DEF RequestArrives, Request, EachLocal, EachAway, SendAway, RequestDone, Aside
<1>7. CASE RemotePublish \/ \E d \in Devices : KeyExpires(d)
  BY <1>7 DEF RemotePublish, KeyExpires, Aside
<1>8. CASE SubscribeFails \/ Subscriber
  BY <1>1, <1>8
  DEF SubscribeFails, Subscriber, Subscribe, Listen, Unsubscribe, SubscriberPanics, Aside
<1>9. CASE StopBegins \/ Shutdown
  BY <1>1, <1>9 DEF StopBegins, Shutdown, StopVisits, StopWaits, StopReturns, StopPanics,
                    Dispose, Exit, Aside
<1>10. CASE UNCHANGED vars
  BY <1>10 DEF vars, Aside
<1> QED
  BY <1>2, <1>3, <1>4, <1>5, <1>6, <1>7, <1>8, <1>9, <1>10, ServeMoves
  DEF Next, HandleInstruction

\* Whom the WaitGroup counts, in the next state.
LEMMA WaitingNext ==
    ASSUME TypeOK, WaitGroupExact, [Next]_vars
    PROVE  WaitGroupExact'
<1>1. IsFiniteSet(Waiting)
  BY FS_Subset, ChannelsAssumption DEF ChannelsAssumption, Waiting
<1>2. wg = Cardinality(Waiting)
  BY DEF WaitGroupExact, Waiting
<1> SUFFICES wg' = Cardinality(Waiting')
  BY DEF WaitGroupExact, Waiting
<1>3. CASE ProcessEnds
  <2>1. wg' = 0 /\ \A c \in Conns : pc'[c] = "exited"
    BY <1>3 DEF ProcessEnds, Actors
  <2>2. Waiting' = {}
    BY <2>1 DEF Waiting, InWaitGroup, WindUp
  <2> QED
    BY <2>1, <2>2, FS_EmptySet
<1>4. ASSUME NEW c \in Conns, SessionMove(c) PROVE wg' = Cardinality(Waiting')
  <2>1. CASE pc[c] = "wgAdd"
    <3>1. c \notin Waiting /\ Waiting' = Waiting \cup {c} /\ wg' = wg + 1
      BY <1>4, <2>1 DEF SessionMove, Waiting, InWaitGroup, WindUp
    <3> QED
      BY <1>1, <1>2, <3>1, FS_AddElement
  <2>2. CASE pc[c] = "wgDone"
    <3>1. c \in Waiting /\ Waiting' = Waiting \ {c} /\ wg' = wg - 1
      BY <1>4, <2>2 DEF SessionMove, Waiting, InWaitGroup, WindUp
    <3> QED
      BY <1>1, <1>2, <3>1, FS_RemoveElement
  <2>3. CASE pc[c] \notin {"wgAdd", "wgDone"}
    <3>1. Waiting' = Waiting /\ wg' = wg
      BY <1>4, <2>3 DEF SessionMove, Waiting, InWaitGroup, WindUp
    <3> QED
      BY <1>2, <3>1
  <2> QED
    BY <2>1, <2>2, <2>3
<1>5. ASSUME NEW c \in Conns, Received(c) PROVE wg' = Cardinality(Waiting')
  <2>1. Waiting' = Waiting /\ wg' = wg
    BY <1>5 DEF Received, Waiting, InWaitGroup, WindUp
  <2> QED
    BY <1>2, <2>1
<1>6. CASE Aside
  <2>1. Waiting' = Waiting /\ wg' = wg
    BY <1>6 DEF Aside, Waiting, InWaitGroup, WindUp
  <2> QED
    BY <1>2, <2>1
<1> QED
  BY <1>3, <1>4, <1>5, <1>6, StepKinds

\* No step leaves a stale channel.
LEMMA NoStaleNext ==
    ASSUME TypeOK, NoStaleChannel, [Next]_vars
    PROVE  NoStaleChannel'
<1>1. channels \in [Devices -> Conns \cup {None}] /\ None \notin Conns
      /\ deviceOf \in [Conns -> Devices]
  BY ChannelsAssumption DEF ChannelsAssumption, TypeOK
<1>2. CASE ProcessEnds
  BY <1>2 DEF ProcessEnds, NoStaleChannel
<1>3. ASSUME NEW c \in Conns, SessionMove(c) PROVE NoStaleChannel'
  <2> SUFFICES ASSUME NEW d \in Devices, channels'[d] # None
               PROVE  /\ deviceOf[channels'[d]] = d
                      /\ pc'[channels'[d]] \in {"wgAdd", "loop", "panicked", "delChannel"}
    BY DEF NoStaleChannel
  <2>1. CASE channels' = [channels EXCEPT ![deviceOf[c]] = c] /\ pc'[c] = "wgAdd"
    <3>1. CASE d = deviceOf[c]
      BY <1>1, <2>1, <3>1
    <3>2. CASE d # deviceOf[c]
      BY <1>1, <1>3, <2>1, <3>2 DEF NoStaleChannel, SessionMove
    <3> QED
      BY <3>1, <3>2
  <2>2. CASE channels' = [channels EXCEPT ![deviceOf[c]] = None]
    <3>1. d # deviceOf[c] /\ channels'[d] = channels[d]
      BY <1>1, <2>2
    <3> QED
      BY <1>1, <1>3, <3>1 DEF NoStaleChannel, SessionMove
  <2>3. CASE channels' = channels /\ pc[c] \notin {"delChannel", "panicked"}
    BY <1>1, <1>3, <2>3 DEF NoStaleChannel, SessionMove
  <2> QED
    BY <1>3, <2>1, <2>2, <2>3 DEF SessionMove
<1>4. ASSUME NEW c \in Conns, Received(c) PROVE NoStaleChannel'
  BY <1>1, <1>4 DEF Received, NoStaleChannel
<1>5. CASE Aside
  BY <1>1, <1>5 DEF Aside, NoStaleChannel
<1> QED
  BY <1>2, <1>3, <1>4, <1>5, StepKinds

\* Every instruction on its way, or being looked up, has a device.
LEMMA AddressedNext ==
    ASSUME TypeOK, Addressed, [Next]_vars
    PROVE  Addressed'
<1> USE DEF registered, sessions, bus, handling, unserved, history, Goto
<1> DEFINE Sent(t) == \A k \in 1..Len(t) : t[k].device \in Devices
           Loading == \A a \in Actors : pc[a] = "load" => ins[a].device \in Devices
<1>1. /\ Conns \subseteq Actors /\ Reqs \subseteq Actors /\ Sub \in Actors /\ Stopper \in Actors
      /\ Sub # Stopper /\ deviceOf \in [Conns -> Devices]
  BY ChannelsAssumption DEF ChannelsAssumption, Actors
<1>2. /\ DOMAIN pc = Actors /\ DOMAIN ins = Actors /\ topic \in Seq(InstructionType)
      /\ ins \in [Actors -> InstructionType]
  BY DEF TypeOK
<1>3. Sent(topic) /\ Loading
  BY DEF Addressed
<1>4. ASSUME Sent(topic'), Loading' PROVE Addressed'
  BY <1>4 DEF Addressed
<1>5. ASSUME NEW i, i.device \in Devices, Publish(i) PROVE Sent(topic')
  <2>1. CASE Subscribed
    <3>1. topic' = Append(topic, i)
      BY <1>5, <2>1, PublishEffect
    <3> QED
      BY <1>2, <1>3, <1>5, <3>1
  <2>2. CASE ~Subscribed
    <3>1. UNCHANGED topic
      BY <1>5, <2>2, PublishEffect
    <3> QED
      BY <1>3, <3>1
  <2> QED
    BY <2>1, <2>2
<1>6. ASSUME NEW a \in Actors, NEW x, x # "load", pc' = [pc EXCEPT ![a] = x],
             \/ UNCHANGED ins \/ \E i : ins' = [ins EXCEPT ![a] = i]
      PROVE  Loading'
  BY <1>2, <1>3, <1>6
<1>7. ASSUME NEW a \in Actors, NEW i, i.device \in Devices, pc' = [pc EXCEPT ![a] = "load"],
             ins' = [ins EXCEPT ![a] = i]
      PROVE  Loading'
  BY <1>2, <1>3, <1>7
<1>8. ASSUME UNCHANGED topic, Loading' PROVE Addressed'
  BY <1>3, <1>8 DEF Addressed
<1>9. ASSUME UNCHANGED <<pc, ins>>, Sent(topic') PROVE Addressed'
  BY <1>3, <1>9 DEF Addressed
<1> HIDE DEF Sent, Loading
<1>10. CASE ProcessEnds
  <2>1. \A a \in Actors : pc'[a] = "exited"
    BY <1>10 DEF ProcessEnds
  <2> QED
    BY <1>8, <1>10, <2>1 DEF ProcessEnds, Loading
<1>11. ASSUME NEW a \in Actors, LoadChannel(a) \/ SendPanics(a) PROVE Addressed'
  <2>1. Return(a) # "load"
    BY Returns DEF Actors
  <2>2. /\ \E x \in {"send", Return(a), "failed", "done"} : pc' = [pc EXCEPT ![a] = x]
        /\ \/ UNCHANGED ins \/ \E i : ins' = [ins EXCEPT ![a] = i]
        /\ UNCHANGED topic
    BY <1>11 DEF LoadChannel, SendPanics
  <2> QED
    BY <1>6, <1>8, <2>1, <2>2
<1>12. ASSUME NEW a \in Actors, Deliver(a) PROVE Addressed'
  <2>1. Return(a) # "load"
    BY Returns DEF Actors
  <2>2. Loading'
    BY <1>2, <1>3, <1>12, <2>1, DeliverEffect DEF Loading
  <2> QED
    BY <1>8, <1>12, <2>2, DeliverEffect
<1>13. ASSUME NEW c \in Conns, Connect(c) PROVE Addressed'
  <2>1. Instruction(deviceOf[c], "extrude", None).device \in Devices
    BY <1>1, InstructionTypes
  <2>2. /\ \/ pc' = [pc EXCEPT ![c] = "newDevice"] /\ UNCHANGED ins
           \/ /\ pc' = [pc EXCEPT ![c] = "load"]
              /\ ins' = [ins EXCEPT ![c] = Instruction(deviceOf[c], "extrude", None)]
        /\ UNCHANGED topic
    BY <1>13 DEF Connect
  <2> QED
    BY <1>1, <1>6, <1>7, <1>8, <2>1, <2>2
<1>14. ASSUME NEW c \in Conns, Serve(c) \/ HangUp(c) PROVE Addressed'
  <2>1. UNCHANGED <<ins, topic>>
    BY <1>14 DEF Serve, HangUp, NewDevice, AddLocal, StoreChannel, WaitGroupAdd, ReceivePanics,
                 DeleteChannel, DeleteLocal, WaitGroupDone
  <2>2. \A a \in Actors : pc'[a] = "load" => pc[a] = "load"
    BY <1>14, ServeMoves DEF SessionMove
  <2> QED
    BY <1>3, <1>8, <2>1, <2>2 DEF Loading
<1>15. ASSUME NEW r \in Reqs, RequestArrives(r) \/ RequestDone(r) PROVE Addressed'
  <2>1. /\ \E x \in {"each", "done"} : pc' = [pc EXCEPT ![r] = x]
        /\ UNCHANGED <<ins, topic>>
    BY <1>15 DEF RequestArrives, RequestDone
  <2> QED
    BY <1>1, <1>6, <1>8, <2>1
<1>16. ASSUME NEW r \in Reqs, EachLocal(r) PROVE Addressed'
  <2>1. PICK d \in todo[r] : ins' = [ins EXCEPT ![r] = Instruction(d, command[r], r)]
    BY <1>16 DEF EachLocal
  <2>2. d \in Devices /\ command[r] \in {"frame", "kick"}
    BY <2>1, ChannelsAssumption DEF ChannelsAssumption, TypeOK
  <2>3. Instruction(d, command[r], r).device \in Devices
    BY <2>2, InstructionTypes
  <2>4. pc' = [pc EXCEPT ![r] = "load"] /\ UNCHANGED topic
    BY <1>16 DEF EachLocal
  <2> QED
    BY <1>1, <1>7, <1>8, <2>1, <2>3, <2>4
<1>17. ASSUME NEW r \in Reqs, EachAway(r) \/ SendAway(r) PROVE Addressed'
  <2>1. PICK d \in todo[r] \cup away[r] :
          UNCHANGED topic \/ \E do \in {"kick", "frame"} : Publish(Instruction(d, do, r))
    BY <1>17 DEF EachAway, SendAway
  <2>2. d \in Devices /\ UNCHANGED <<pc, ins>>
    BY <1>17, <2>1 DEF EachAway, SendAway, TypeOK
  <2>3. \A do \in {"kick", "frame"} : Instruction(d, do, r).device \in Devices
    BY <2>2, InstructionTypes
  <2>4. Sent(topic')
    BY <1>3, <1>5, <2>1, <2>3
  <2> QED
    BY <1>9, <2>2, <2>4
<1>18. CASE RemotePublish
  <2>1. PICK d \in Devices, do \in {"frame", "kick", "extrude"} : Publish(Instruction(d, do, None))
    BY <1>18 DEF RemotePublish
  <2>2. Instruction(d, do, None).device \in Devices
    BY InstructionTypes
  <2>3. Sent(topic')
    BY <1>5, <2>1, <2>2
  <2> QED
    BY <1>9, <1>18, <2>3 DEF RemotePublish
<1>19. CASE Subscribe \/ Unsubscribe
  <2>1. /\ \E x \in {"listen", "done"} : pc' = [pc EXCEPT ![Sub] = x]
        /\ UNCHANGED <<ins, topic>>
    BY <1>19 DEF Subscribe, Unsubscribe
  <2> QED
    BY <1>1, <1>6, <1>8, <2>1
<1>20. CASE Listen
  <2>1. /\ topic # <<>> /\ topic' = Tail(topic) /\ pc' = [pc EXCEPT ![Sub] = "load"]
        /\ ins' = [ins EXCEPT ![Sub] = Head(topic)]
    BY <1>20 DEF Listen
  <2>2. Sent(topic') /\ Head(topic).device \in Devices
    BY <1>2, <1>3, <2>1 DEF Sent
  <2> QED
    BY <1>1, <1>4, <1>7, <2>1, <2>2
<1>21. CASE StopBegins \/ StopWaits \/ StopReturns \/ Dispose
  <2>1. /\ \E x \in {"range", "wait", "dispose", "disposed"} : pc' = [pc EXCEPT ![Stopper] = x]
        /\ UNCHANGED <<ins, topic>>
    BY <1>21 DEF StopBegins, StopWaits, StopReturns, Dispose
  <2> QED
    BY <1>1, <1>6, <1>8, <2>1
<1>22. CASE StopVisits
  <2>1. /\ \/ UNCHANGED <<ins, pc>>
           \/ /\ pc' = [pc EXCEPT ![Stopper] = "send"]
              /\ \E i : ins' = [ins EXCEPT ![Stopper] = i]
        /\ UNCHANGED topic
    BY <1>22 DEF StopVisits
  <2>2. CASE UNCHANGED <<ins, pc>>
    BY <1>3, <1>8, <2>1, <2>2 DEF Loading
  <2> QED
    BY <1>1, <1>6, <1>8, <2>1, <2>2
<1>23. CASE (\E d \in Devices : KeyExpires(d)) \/ UNCHANGED vars
  <2>1. UNCHANGED <<pc, ins, topic>>
    BY <1>23 DEF KeyExpires, vars
  <2> QED
    BY <1>3, <1>9, <2>1
<1> QED
  BY <1>10, <1>11, <1>12, <1>13, <1>14, <1>15, <1>16, <1>17, <1>18, <1>19, <1>20, <1>21, <1>22,
     <1>23
  DEF Next, HandleInstruction, Request, SubscribeFails, Subscriber, SubscriberPanics, Shutdown,
      StopPanics, Exit

\* Nothing is closed while the broker serves.
LEMMA UnclosedNext ==
    ASSUME TypeOK, Unclosed, [Next]_vars
    PROVE  Unclosed'
<1> USE DEF registered, sessions, bus, handling, unserved, history
<1>1. /\ Stopper \in Actors /\ Stopper \notin Conns \cup Reqs \cup {Sub} /\ DOMAIN pc = Actors
  BY ChannelsAssumption DEF ChannelsAssumption, Actors, TypeOK
<1>2. CASE ProcessEnds
  BY <1>1, <1>2 DEF ProcessEnds, Unclosed
<1>3. CASE Dispose
  BY <1>1, <1>3 DEF Dispose, Unclosed, Goto
<1>4. CASE UNCHANGED closed /\ (pc[Stopper] \in {"disposed", "exited"} =>
                                  pc'[Stopper] \in {"disposed", "exited"})
  BY <1>4 DEF Unclosed
<1>5. ASSUME NEW c \in Conns, Serve(c) \/ HangUp(c) PROVE Unclosed'
  BY <1>4, <1>5, ServeMoves DEF SessionMove
<1>6. ASSUME NEW a \in Actors, Deliver(a) PROVE Unclosed'
  BY <1>1, <1>4, <1>6, DeliverEffect
<1>7. ASSUME NEW a \in Actors, LoadChannel(a) \/ SendPanics(a) PROVE Unclosed'
  <2>1. /\ UNCHANGED closed /\ pc[a] \in {"load", "send"}
        /\ \E x : pc' = [pc EXCEPT ![a] = x]
    BY <1>7 DEF LoadChannel, SendPanics, Goto
  <2> QED
    BY <1>1, <1>4, <2>1
<1>8. ASSUME NEW a \in Conns \cup Reqs,
             Connect(a) \/ RequestArrives(a) \/ Request(a)
      PROVE  Unclosed'
  <2>1. /\ UNCHANGED closed
        /\ UNCHANGED pc \/ \E x : pc' = [pc EXCEPT ![a] = x]
    BY <1>8 DEF Connect, RequestArrives, Request, EachLocal, EachAway, SendAway, RequestDone, Goto
  <2> QED
    BY <1>1, <1>4, <2>1
<1>9. CASE Subscribe \/ Listen \/ Unsubscribe
  <2>1. UNCHANGED closed /\ \E x : pc' = [pc EXCEPT ![Sub] = x]
    BY <1>9 DEF Subscribe, Listen, Unsubscribe, Goto
  <2> QED
    BY <1>1, <1>4, <2>1
<1>10. CASE RemotePublish \/ (\E d \in Devices : KeyExpires(d)) \/ UNCHANGED vars
  BY <1>4, <1>10 DEF RemotePublish, KeyExpires, vars
<1>11. CASE StopBegins \/ StopVisits \/ StopWaits \/ StopReturns
  BY <1>4, <1>11 DEF StopBegins, StopVisits, StopWaits, StopReturns, StopReturnsWhen
<1> QED
  BY <1>2, <1>3, <1>5, <1>6, <1>7, <1>8, <1>9, <1>10, <1>11
  DEF Next, HandleInstruction, Subscriber, SubscribeFails, SubscriberPanics, Shutdown,
      StopPanics, Exit

\* A session that was open when stop began ends, and never comes back to its loop.
LEMMA OpenNext ==
    ASSUME TypeOK, OpenEnd, [Next]_vars
    PROVE  /\ OpenEnd'
           /\ \/ StopBegins
              \/ UNCHANGED open /\ \A c \in open : InWaitGroup(c)' => InWaitGroup(c)
<1>1. /\ open \subseteq Conns /\ Conns \subseteq Actors
      /\ Stopper \in Actors /\ Stopper \notin Conns /\ DOMAIN pc = Actors
  BY ChannelsAssumption DEF ChannelsAssumption, Actors, TypeOK
<1>2. CASE ProcessEnds
  <2>1. (\A c \in Conns : pc'[c] = "exited") /\ UNCHANGED open
    BY <1>1, <1>2 DEF ProcessEnds, history
  <2> QED
    BY <1>1, <2>1 DEF OpenEnd, InWaitGroup, WindUp
<1>3. ASSUME NEW c \in Conns, SessionMove(c)
      PROVE  OpenEnd' /\ UNCHANGED open /\ \A b \in open : InWaitGroup(b)' => InWaitGroup(b)
  BY <1>1, <1>3 DEF SessionMove, OpenEnd, InWaitGroup, WindUp
<1>4. ASSUME NEW c \in Conns, Received(c)
      PROVE  OpenEnd' /\ UNCHANGED open /\ \A b \in open : InWaitGroup(b)' => InWaitGroup(b)
  BY <1>1, <1>4 DEF Received, OpenEnd, InWaitGroup, WindUp
<1>5. CASE Aside /\ UNCHANGED open
  BY <1>1, <1>5 DEF Aside, OpenEnd, InWaitGroup, WindUp
<1>6. CASE StopBegins
  <2>1. open' = Waiting /\ \A c \in Conns : pc'[c] = pc[c]
    BY <1>1, <1>6 DEF StopBegins, Waiting, Goto
  <2>2. OpenEnd'
    BY <2>1 DEF Waiting, OpenEnd, InWaitGroup
  <2> QED
    BY <1>6, <2>2
<1> QED
  BY <1>2, <1>3, <1>4, <1>5, <1>6, StepKinds DEF Aside

\* The shutdown comes to Dispose only when the WaitGroup is at zero.
LEMMA DisposeNext ==
    ASSUME TypeOK, [Next]_vars, pc'[Stopper] \in {"dispose", "disposed"}
    PROVE  \/ pc[Stopper] \in {"dispose", "disposed"} /\ ~StopBegins
           \/ wg = 0 /\ UNCHANGED open /\ \A c \in Conns : pc'[c] = pc[c]
<1> USE DEF registered, sessions, bus, handling, unserved, history
<1>1. /\ Stopper \in Actors /\ Stopper \notin Conns \cup Reqs \cup {Sub} /\ DOMAIN pc = Actors
      /\ Conns \subseteq Actors
  BY ChannelsAssumption DEF ChannelsAssumption, Actors, TypeOK
<1>2. CASE ProcessEnds
  BY <1>1, <1>2 DEF ProcessEnds
<1>3. ~StopBegins
  BY <1>1 DEF StopBegins, Goto
<1>4. CASE StopWaits \/ StopReturns
  BY <1>1, <1>4 DEF StopWaits, StopReturns, StopReturnsWhen, Goto
<1>5. CASE StopVisits \/ Dispose
  BY <1>1, <1>3, <1>5 DEF StopVisits, Dispose, Goto
<1>6. ASSUME NEW c \in Conns, Serve(c) \/ HangUp(c) PROVE pc'[Stopper] = pc[Stopper]
  BY <1>6, ServeMoves
<1>7. ASSUME NEW a \in Actors, Deliver(a) PROVE pc'[Stopper] = pc[Stopper]
  BY <1>1, <1>7, DeliverEffect, Returns
<1>8. ASSUME NEW a \in Actors, LoadChannel(a) \/ SendPanics(a) PROVE pc'[Stopper] = pc[Stopper]
  <2>1. \E x \in {"send", Return(a), "failed", "done"} : pc' = [pc EXCEPT ![a] = x]
    BY <1>8 DEF LoadChannel, SendPanics, Goto
  <2> QED
    BY <1>1, <2>1, Returns
<1>9. ASSUME NEW a \in Conns \cup Reqs, Connect(a) \/ RequestArrives(a) \/ Request(a)
      PROVE  pc'[Stopper] = pc[Stopper]
  <2>1. UNCHANGED pc \/ \E x : pc' = [pc EXCEPT ![a] = x]
    BY <1>9 DEF Connect, RequestArrives, Request, EachLocal, EachAway, SendAway, RequestDone, Goto
  <2> QED
    BY <1>1, <2>1
<1>10. CASE Subscribe \/ Listen \/ Unsubscribe
  <2>1. \E x : pc' = [pc EXCEPT ![Sub] = x]
    BY <1>10 DEF Subscribe, Listen, Unsubscribe, Goto
  <2> QED
    BY <1>1, <1>3, <2>1
<1>11. CASE RemotePublish \/ (\E d \in Devices : KeyExpires(d)) \/ UNCHANGED vars
  BY <1>3, <1>11 DEF RemotePublish, KeyExpires, vars
<1> QED
  BY <1>2, <1>3, <1>4, <1>5, <1>6, <1>7, <1>8, <1>9, <1>10, <1>11
  DEF Next, HandleInstruction, Subscriber, SubscribeFails, SubscriberPanics, Shutdown,
      StopPanics, Exit

\* Every step keeps the invariant.
LEMMA NextChannels == ChannelsInv /\ [Next]_vars => ChannelsInv'
<1> SUFFICES ASSUME ChannelsInv, [Next]_vars PROVE ChannelsInv'
  OBVIOUS
<1> USE DEF ChannelsInv
<1>1. TypeOK' /\ Addressed' /\ WaitGroupExact' /\ NoStaleChannel' /\ Unclosed' /\ OpenEnd'
  BY NextTypeOK, AddressedNext, WaitingNext, NoStaleNext, UnclosedNext, OpenNext
<1>2. StopOutlastsSessions'
  <2> SUFFICES ASSUME pc'[Stopper] \in {"dispose", "disposed"}, NEW c \in open'
               PROVE  ~InWaitGroup(c)'
    BY DEF StopOutlastsSessions
  <2>1. CASE pc[Stopper] \in {"dispose", "disposed"} /\ ~StopBegins
    BY <2>1, OpenNext DEF StopOutlastsSessions
  <2>2. CASE wg = 0 /\ UNCHANGED open /\ \A b \in Conns : pc'[b] = pc[b]
    <3>1. IsFiniteSet(Waiting)
      BY FS_Subset, ChannelsAssumption DEF ChannelsAssumption, Waiting
    <3>2. Waiting = {}
      BY <2>2, <3>1, FS_EmptySet DEF WaitGroupExact, Waiting
    <3>3. c \in Conns
      BY <1>1 DEF TypeOK
    <3> QED
      BY <2>2, <3>2, <3>3 DEF Waiting, InWaitGroup
  <2> QED
    BY <2>1, <2>2, DisposeNext
<1> QED
  BY <1>1, <1>2

\* Sessions, channels and the WaitGroup agree in every state, and stop with them.
THEOREM ChannelsInvariant == Spec => []ChannelsInv
BY InitChannels, NextChannels, PTL DEF Spec

\* All variables keep their types, and a goroutine at a send holds a channel.
THEOREM ChannelTypes == Spec => []TypeOK
<1>1. ChannelsInv => TypeOK
  BY DEF ChannelsInv
<1> QED
  BY <1>1, ChannelsInvariant, PTL

\* deviceChannelWG counts the sessions between its Add and its Done, however they end.
THEOREM WaitGroupCounts == Spec => []WaitGroupExact
<1>1. ChannelsInv => WaitGroupExact
  BY DEF ChannelsInv
<1> QED
  BY <1>1, ChannelsInvariant, PTL

\* The map holds no channel that nobody will receive from any more.
THEOREM NoChannelOutlivesItsLoop == Spec => []NoStaleChannel
<1>1. ChannelsInv => NoStaleChannel
  BY DEF ChannelsInv
<1> QED
  BY <1>1, ChannelsInvariant, PTL

\* While the broker serves, no send can panic: nothing is closed.
THEOREM SendsAreSafe == Spec => []NoSendOnClosed
<1>1. ChannelsInv => NoSendOnClosed
  BY DEF ChannelsInv, Unclosed, NoSendOnClosed
<1> QED
  BY <1>1, ChannelsInvariant, PTL

\* stop returns only when all sessions that were open when it began have wound up.
THEOREM StopWaitsForSessions == Spec => []StopOutlastsSessions
<1>1. ChannelsInv => StopOutlastsSessions
  BY DEF ChannelsInv
<1> QED
  BY <1>1, ChannelsInvariant, PTL

=============================================================================
