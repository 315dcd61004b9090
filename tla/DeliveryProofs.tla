---------------------------- MODULE DeliveryProofs ----------------------------
(***************************************************************************)
(* Proofs about DeviceChannels for any number of sessions, devices and     *)
(* requests: a broadcast reaches every session that is steadily served.    *)
(***************************************************************************)
EXTENDS DeviceChannelsProofs

\* The key of a session's device outlives its heartbeats.
KeysKept ==
    \A c \in Conns :
        pc[c] \in {"addLocal", "store", "wgAdd", "loop"} => deviceOf[c] \in keys

\* The process ends for all goroutines at once.
Together == \A a, b \in Actors : pc[a] = "exited" => pc[b] = "exited"

\* While a request goes on, what has been steady since it began can be reached.
SteadyReached == \A r \in Reqs : pc[r] # "exited" => \A c \in steady[r] : Reachable(c)

\* An instruction of a request carries its command, and the request has begun.
Of(i) == i.from \in Reqs => i.command = command[i.from] /\ pc[i.from] # "idle"

Labelled ==
    /\ \A r \in Reqs : away[r] # {} => command[r] = "frame"
    /\ \A k \in 1..Len(topic) : Of(topic[k])
    /\ pc[Sub] \in {"load", "send"} => Of(ins[Sub])
    /\ \A r \in Reqs : pc[r] \in {"load", "send"} =>
         ins[r].from = r /\ ins[r].command = command[r]

\* A request's instruction at its send is for the session that is steady.
SteadyHeld ==
    \A a \in Reqs \cup {Sub} : pc[a] = "send" =>
        \A r \in Reqs : \A c \in steady[r] :
            ins[a].from = r /\ ins[a].device = deviceOf[c] => chan[a] = c

\* A steady session of a frame's target is still to be visited, being visited, or served.
Track(c, r) ==
    \/ pc[r] # "done" /\ deviceOf[c] \in todo[r] \cup away[r]
    \/ pc[r] \in {"load", "send"} /\ ins[r].device = deviceOf[c]
    \/ <<c, r>> \in received
    \/ OnItsWay(c, r)

Tracked ==
    \A r \in Reqs : command[r] = "frame" /\ pc[r] \in {"each", "load", "send", "done"} =>
        \A c \in steady[r] : deviceOf[c] \in targets[r] => Track(c, r)

\* All of it, and who holds which channel.
DeliveryInv ==
    /\ ChannelsInv /\ Together /\ KeysKept
    /\ SteadyReached /\ Labelled /\ SteadyHeld /\ Tracked

------------------------------------------------------------------------------
\* The process ends for every goroutine, or for none.
LEMMA TogetherNext ==
    ASSUME TypeOK, Together, [Next]_vars
    PROVE  /\ Together'
           /\ \/ ProcessEnds
              \/ \A a \in Actors : pc'[a] = "exited" <=> pc[a] = "exited"
<1> USE DEF registered, sessions, bus, handling, unserved, history
<1> DEFINE Same == \A a \in Actors : pc'[a] = "exited" <=> pc[a] = "exited"
<1>1. /\ Sub \in Actors /\ Stopper \in Actors /\ DOMAIN pc = Actors
      /\ Conns \subseteq Actors /\ Reqs \subseteq Actors
  BY DEF Actors, TypeOK
<1>2. CASE ProcessEnds
  <2>1. \A a \in Actors : pc'[a] = "exited"
    BY <1>2 DEF ProcessEnds
  <2> QED
    BY <1>2, <2>1 DEF Together
<1>3. ASSUME Same PROVE Together'
  BY <1>3 DEF Together
<1>4. ASSUME NEW a \in Actors, NEW x, pc[a] # "exited", x # "exited",
             pc' = [pc EXCEPT ![a] = x]
      PROVE  Same
  BY <1>1, <1>4
<1> HIDE DEF Same
<1>5. ASSUME NEW c \in Conns, Serve(c) \/ HangUp(c) PROVE Same
  <2>1. pc[c] # "exited" /\ pc'[c] # "exited"
    BY <1>5, ServeMoves DEF SessionMove
  <2>2. pc[Stopper] # "exited" <=> pc'[Stopper] # "exited"
    BY <1>5, ServeMoves
  <2> QED
    BY <1>5, <2>1, <2>2, ServeMoves DEF Same
<1>6. ASSUME NEW a \in Actors, Deliver(a) PROVE Same
  BY <1>6, DeliverEffect, Returns DEF Same, Actors
<1>7. ASSUME NEW a \in Actors, LoadChannel(a) \/ SendPanics(a) PROVE Same
  <2>1. /\ pc[a] \in {"load", "send"}
        /\ \E x \in {"send", Return(a), "failed", "done"} : pc' = [pc EXCEPT ![a] = x]
    BY <1>7 DEF LoadChannel, SendPanics, Goto
  <2>2. Return(a) # "exited"
    BY Returns DEF Actors
  <2> QED
    BY <1>4, <2>1, <2>2
<1>8. ASSUME NEW c \in Conns, Connect(c) PROVE Same
  <2>1. /\ pc[c] = "idle"
        /\ \E x \in {"load", "newDevice"} : pc' = [pc EXCEPT ![c] = x]
    BY <1>8 DEF Connect, Goto
  <2> QED
    BY <1>1, <1>4, <2>1
<1>9. ASSUME NEW r \in Reqs, RequestArrives(r) \/ EachLocal(r) \/ RequestDone(r) PROVE Same
  <2>1. /\ pc[r] \in {"idle", "each"}
        /\ \E x \in {"each", "load", "done"} : pc' = [pc EXCEPT ![r] = x]
    BY <1>9 DEF RequestArrives, EachLocal, RequestDone, Goto
  <2> QED
    BY <1>1, <1>4, <2>1
<1>10. ASSUME NEW r \in Reqs, EachAway(r) \/ SendAway(r) PROVE Same
  BY <1>10 DEF EachAway, SendAway, Same
<1>11. CASE RemotePublish \/ (\E d \in Devices : KeyExpires(d)) \/ UNCHANGED vars
  BY <1>3, <1>11 DEF RemotePublish, KeyExpires, vars, Same
<1>12. CASE Subscribe \/ Listen \/ Unsubscribe
  <2>1. /\ pc[Sub] \in {"subscribe", "listen"}
        /\ \E x \in {"listen", "load", "done"} : pc' = [pc EXCEPT ![Sub] = x]
    BY <1>12 DEF Subscribe, Listen, Unsubscribe, Goto
  <2> QED
    BY <1>1, <1>3, <1>4, <2>1
<1>13. CASE StopBegins \/ StopVisits \/ StopWaits \/ StopReturns \/ Dispose
  <2>1. /\ pc[Stopper] \in {"serving", "range", "woken", "dispose"}
        /\ \/ UNCHANGED pc
           \/ \E x \in {"range", "send", "wait", "dispose", "disposed"} :
                pc' = [pc EXCEPT ![Stopper] = x]
    BY <1>13
    DEF StopBegins, StopVisits, StopWaits, StopReturns, StopReturnsWhen, Dispose, Goto
  <2>2. CASE UNCHANGED pc
    BY <1>3, <2>2 DEF Same
  <2> QED
    BY <1>1, <1>3, <1>4, <2>1, <2>2
<1> QED
  BY <1>2, <1>3, <1>5, <1>6, <1>7, <1>8, <1>9, <1>10, <1>11, <1>12, <1>13
  DEF Next, HandleInstruction, Request, Subscriber, SubscribeFails, SubscriberPanics, Shutdown,
      StopPanics, Exit, Same

\* A key is kept while its device has a session that is being set up or served.
LEMMA KeysKeptNext ==
    ASSUME TypeOK, KeysKept, [Next]_vars
    PROVE  KeysKept'
<1> USE DEF registered, sessions, bus, handling, unserved, history
<1>1. deviceOf \in [Conns -> Devices]
  BY ChannelsAssumption DEF ChannelsAssumption
<1>2. ASSUME NEW d \in Devices, KeyExpires(d) PROVE KeysKept'
  BY <1>2 DEF KeyExpires, KeysKept
<1>3. keys \subseteq keys' \/ \E d \in Devices : KeyExpires(d)
  BY DEF Next, HandleInstruction, LoadChannel, Deliver, SendPanics, Connect, Serve, NewDevice,
         AddLocal, StoreChannel, WaitGroupAdd, ReceivePanics, DeleteChannel, DeleteLocal,
         WaitGroupDone, HangUp, RequestArrives, Request, EachLocal, EachAway, SendAway,
         RequestDone, RemotePublish, SubscribeFails, Subscriber, Subscribe, Listen, Unsubscribe,
         SubscriberPanics, StopBegins, Shutdown, StopVisits, StopWaits, StopReturns, StopPanics,
         Dispose, Exit, ProcessEnds, vars
<1>4. CASE ProcessEnds
  BY <1>4 DEF ProcessEnds, KeysKept, Actors
<1>5. ASSUME keys \subseteq keys', NEW c \in Conns, SessionMove(c) PROVE KeysKept'
  BY <1>5 DEF SessionMove, KeysKept
<1>6. ASSUME keys \subseteq keys', NEW c \in Conns, Received(c) PROVE KeysKept'
  BY <1>6 DEF Received, KeysKept
<1>7. CASE keys \subseteq keys' /\ Aside
  BY <1>7 DEF Aside, KeysKept
<1> QED
  BY <1>2, <1>3, <1>4, <1>5, <1>6, <1>7, StepKinds

\* What a request or the subscriber holds stays as it is.
Quiet(a) == pc'[a] = pc[a] /\ ins'[a] = ins[a] /\ chan'[a] = chan[a]

\* A step of none of them.
Elsewhere ==
    /\ \A a \in Reqs \cup {Sub} : Quiet(a)
    /\ \A r \in Reqs : todo'[r] = todo[r] /\ away'[r] = away[r] /\ steady'[r] \subseteq steady[r]
    /\ UNCHANGED topic /\ received \subseteq received'

\* What a look-up does.
LEMMA LoadEffect ==
    ASSUME TypeOK, Addressed, NEW a \in Actors, LoadChannel(a)
    PROVE  LET c == channels[ins[a].device] IN
           /\ pc[a] = "load" /\ c \in Conns \cup {None}
           /\ c # None => pc'[a] = "send" /\ chan'[a] = c /\ ins'[a] = ins[a]
           /\ c = None => pc'[a] = Return(a)
           /\ \A b \in Actors \ {a} : Quiet(b)
           /\ UNCHANGED <<channels, topic, todo, away, received, steady>>
<1> DEFINE c == channels[ins[a].device]
<1>1. DOMAIN pc = Actors /\ DOMAIN ins = Actors /\ DOMAIN chan = Actors
  BY DEF TypeOK
<1>2. /\ pc[a] = "load" /\ c \in Conns \cup {None}
      /\ UNCHANGED <<channels, topic, todo, away, received, steady>>
  BY DEF LoadChannel, Addressed, TypeOK, sessions, bus, unserved, history
<1>3. CASE c # None
  <2>1. /\ pc' = [pc EXCEPT ![a] = "send"] /\ chan' = [chan EXCEPT ![a] = c] /\ UNCHANGED ins
    BY <1>3 DEF LoadChannel, Found, Goto
  <2> HIDE DEF c
  <2>2. pc'[a] = "send" /\ chan'[a] = c /\ ins'[a] = ins[a] /\ \A b \in Actors \ {a} : Quiet(b)
    BY <1>1, <2>1 DEF Quiet
  <2> QED
    BY <1>2, <1>3, <2>2 DEF c
<1>4. CASE c = None
  <2>1. /\ pc' = [pc EXCEPT ![a] = Return(a)] /\ ins' = [ins EXCEPT ![a] = NoInstruction]
        /\ UNCHANGED chan
    BY <1>4 DEF LoadChannel, Found, Goto
  <2> HIDE DEF c
  <2>2. pc'[a] = Return(a) /\ \A b \in Actors \ {a} : Quiet(b)
    BY <1>1, <2>1 DEF Quiet
  <2> QED
    BY <1>2, <1>4, <2>2 DEF c
<1> QED
  BY <1>3, <1>4

\* What a delivery leaves alone.
LEMMA DeliverQuiet ==
    ASSUME TypeOK, NEW a \in Actors, Deliver(a)
    PROVE  /\ \A b \in (Reqs \cup {Sub}) \ {a} : Quiet(b)
           /\ \A r \in Reqs : steady'[r] \subseteq steady[r]
           /\ UNCHANGED <<channels, topic, todo, away>> /\ received \subseteq received'
<1>1. /\ Reqs \cup {Sub} \subseteq Actors /\ Conns \cap (Reqs \cup {Sub}) = {}
      /\ DOMAIN ins = Actors /\ DOMAIN chan = Actors
  BY ChannelsAssumption DEF ChannelsAssumption, Actors, TypeOK
<1>2. /\ chan[a] \in Conns
      /\ \A b \in Actors \ {a, chan[a]} : pc'[b] = pc[b]
      /\ received \subseteq received'
      /\ steady' \in {steady, [r \in Reqs |-> steady[r] \ {chan[a]}]}
      /\ \E x : chan' = [chan EXCEPT ![a] = x]
      /\ \E x : ins' = [ins EXCEPT ![a] = x]
      /\ UNCHANGED <<channels, topic, todo, away>>
  BY DeliverEffect DEF sessions, bus, unserved
<1>3. \A b \in (Reqs \cup {Sub}) \ {a} : Quiet(b)
  BY <1>1, <1>2 DEF Quiet
<1> QED
  BY <1>2, <1>3

\* What is not a step of a request or the subscriber happens elsewhere.
LEMMA DeliveryKinds ==
    ASSUME TypeOK, Addressed, [Next]_vars
    PROVE  \/ ProcessEnds
           \/ \E a \in Reqs \cup {Sub} : LoadChannel(a) \/ Deliver(a)
           \/ \E r \in Reqs : SendPanics(r) \/ RequestArrives(r) \/ Request(r)
           \/ RemotePublish \/ Subscribe \/ Listen \/ Unsubscribe
           \/ Elsewhere
<1> USE DEF registered, sessions, bus, handling, unserved, history
<1>1. /\ Reqs \cup {Sub} \subseteq Actors /\ (Conns \cup {Stopper}) \cap (Reqs \cup {Sub}) = {}
      /\ Actors = Conns \cup {Stopper} \cup Reqs \cup {Sub}
      /\ DOMAIN pc = Actors /\ DOMAIN ins = Actors /\ DOMAIN chan = Actors
      /\ DOMAIN todo = Reqs \cup {Stopper}
  BY ChannelsAssumption DEF ChannelsAssumption, Actors, TypeOK
<1>2. ASSUME NEW a \in Conns \cup {Stopper},
             UNCHANGED pc \/ \E x : pc' = [pc EXCEPT ![a] = x],
             UNCHANGED ins \/ \E x : ins' = [ins EXCEPT ![a] = x],
             UNCHANGED chan \/ \E x : chan' = [chan EXCEPT ![a] = x]
      PROVE  \A b \in Reqs \cup {Sub} : Quiet(b)
  BY <1>1, <1>2 DEF Quiet
<1>3. ASSUME NEW a \in Conns \cup {Stopper}, LoadChannel(a) \/ Deliver(a) PROVE Elsewhere
  <2>1. CASE LoadChannel(a)
    BY <1>1, <2>1, LoadEffect DEF Elsewhere
  <2>2. CASE Deliver(a)
    BY <1>1, <2>2, DeliverQuiet DEF Elsewhere
  <2> QED
    BY <1>3, <2>1, <2>2
<1>4. ASSUME NEW c \in Conns, SendPanics(c) \/ Connect(c) PROVE Elsewhere
  <2>1. /\ \E x : pc' = [pc EXCEPT ![c] = x]
        /\ UNCHANGED ins \/ \E x : ins' = [ins EXCEPT ![c] = x]
        /\ UNCHANGED <<chan, topic, todo, away, steady, received>>
    BY <1>4 DEF SendPanics, Connect, Goto
  <2> QED
    BY <1>2, <2>1 DEF Elsewhere
<1>5. ASSUME NEW c \in Conns, Serve(c) \/ HangUp(c) PROVE Elsewhere
  <2>1. /\ UNCHANGED <<ins, chan, topic, todo, away, received>>
        /\ UNCHANGED steady \/ \E x : steady' = [r \in Reqs |-> steady[r] \ {x}]
    BY <1>5 DEF Serve, HangUp, NewDevice, AddLocal, StoreChannel, WaitGroupAdd, ReceivePanics,
                DeleteChannel, DeleteLocal, WaitGroupDone
  <2>2. \A b \in Reqs \cup {Sub} : pc'[b] = pc[b]
    BY <1>1, <1>5, ServeMoves
  <2> QED
    BY <2>1, <2>2 DEF Elsewhere, Quiet
<1>6. ASSUME NEW d \in Devices, KeyExpires(d) PROVE Elsewhere
  BY <1>6 DEF KeyExpires, Elsewhere, Quiet
<1>7. CASE StopBegins \/ StopVisits \/ StopWaits \/ StopReturns \/ Dispose
  <2>1. /\ UNCHANGED pc \/ \E x : pc' = [pc EXCEPT ![Stopper] = x]
        /\ UNCHANGED ins \/ \E x : ins' = [ins EXCEPT ![Stopper] = x]
        /\ UNCHANGED chan \/ \E x : chan' = [chan EXCEPT ![Stopper] = x]
    BY <1>7 DEF StopBegins, StopVisits, StopWaits, StopReturns, Dispose, Goto
  <2>2. /\ UNCHANGED todo \/ \E x : todo' = [todo EXCEPT ![Stopper] = x]
        /\ UNCHANGED <<topic, away, steady, received>>
    BY <1>7 DEF StopBegins, StopVisits, StopWaits, StopReturns, Dispose
  <2>3. \A r \in Reqs : todo'[r] = todo[r]
    BY <1>1, <2>2
  <2> QED
    BY <1>2, <2>1, <2>2, <2>3 DEF Elsewhere
<1>8. CASE UNCHANGED vars
  BY <1>8 DEF vars, Elsewhere, Quiet
<1>9. ASSUME NEW a \in {Sub, Stopper} PROVE ~SendPanics(a)
  BY ChannelsAssumption DEF ChannelsAssumption, SendPanics
<1> QED
  BY <1>1, <1>3, <1>4, <1>5, <1>6, <1>7, <1>8, <1>9
  DEF Next, HandleInstruction, Subscriber, SubscribeFails, SubscriberPanics, Shutdown,
      StopPanics, Exit

\* A step that leaves the channels alone takes no session out of its loop.
LEMMA AsideReaches ==
    ASSUME Aside, NEW c \in Conns, Reachable(c)
    PROVE  Reachable(c)'
BY DEF Aside, Reachable

\* What stays steady can still be reached.
LEMMA SteadyNext ==
    ASSUME TypeOK, [Next]_vars
    PROVE  \/ ProcessEnds
           \/ \E r \in Reqs : RequestArrives(r)
           \/ \A r \in Reqs : /\ steady'[r] \subseteq steady[r]
                              /\ \A c \in steady'[r] : Reachable(c) => Reachable(c)'
<1> USE DEF registered, sessions, bus, handling, unserved, history
<1> DEFINE Kept == \A r \in Reqs : /\ steady'[r] \subseteq steady[r]
                                   /\ \A c \in steady'[r] : Reachable(c) => Reachable(c)'
<1>1. /\ deviceOf \in [Conns -> Devices] /\ channels \in [Devices -> Conns \cup {None}]
      /\ steady \in [Reqs -> SUBSET Conns] /\ Conns \subseteq Actors
      /\ DOMAIN pc = Actors /\ Conns \cap (Reqs \cup {Sub, Stopper}) = {}
  BY ChannelsAssumption DEF ChannelsAssumption, TypeOK, Actors
<1>2. ASSUME NEW c \in Conns, Serve(c) \/ HangUp(c) PROVE Kept
  <2>1. SessionMove(c)
    BY <1>2, ServeMoves
  <2>2. CASE StoreChannel(c)
    <3>1. /\ \A r \in Reqs : steady'[r] = steady[r] \ {channels[deviceOf[c]]}
          /\ channels' = [channels EXCEPT ![deviceOf[c]] = c] /\ pc[c] = "store"
      BY <2>2 DEF StoreChannel
    <3> QED
      BY <1>1, <2>1, <3>1 DEF SessionMove, Reachable
  <2>3. CASE DeleteChannel(c)
    <3>1. /\ \A r \in Reqs : steady'[r] = steady[r] \ {channels[deviceOf[c]]}
          /\ channels' = [channels EXCEPT ![deviceOf[c]] = None] /\ pc[c] = "delChannel"
      BY <2>3 DEF DeleteChannel, ChannelsWithout
    <3> QED
      BY <1>1, <2>1, <3>1 DEF SessionMove, Reachable
  <2>4. CASE HangUp(c) \/ ReceivePanics(c)
    <3>1. (\A r \in Reqs : steady'[r] = steady[r] \ {c}) /\ UNCHANGED channels
      BY <2>4 DEF HangUp, ReceivePanics
    <3> QED
      BY <1>1, <2>1, <3>1 DEF SessionMove, Reachable
  <2>5. CASE NewDevice(c) \/ AddLocal(c) \/ WaitGroupAdd(c) \/ DeleteLocal(c) \/ WaitGroupDone(c)
    <3>1. UNCHANGED <<steady, channels>> /\ pc[c] # "loop"
      BY <2>5 DEF NewDevice, AddLocal, WaitGroupAdd, DeleteLocal, WaitGroupDone
    <3> QED
      BY <1>1, <2>1, <3>1 DEF SessionMove, Reachable
  <2> QED
    BY <1>2, <2>2, <2>3, <2>4, <2>5 DEF Serve
<1>3. ASSUME NEW a \in Actors, Deliver(a) PROVE Kept
  <2>1. Received(chan[a]) /\ chan[a] \in Conns
    BY <1>1, <1>3, DeliverEffect, Returns, TypeParts, KindsOfActors DEF Received, Actors
  <2>2. CASE ins[a].command = "frame"
    <3>1. UNCHANGED steady /\ pc'[chan[a]] = "loop"
      BY <1>3, <2>2, DeliverEffect
    <3> QED
      BY <1>1, <2>1, <3>1 DEF Received, Reachable
  <2>3. CASE ins[a].command # "frame"
    <3>1. \A r \in Reqs : steady'[r] = steady[r] \ {chan[a]}
      BY <1>3, <2>3, DeliverEffect
    <3> QED
      BY <1>1, <2>1, <3>1 DEF Received, Reachable
  <2> QED
    BY <2>2, <2>3
<1>4. ASSUME Aside, \A r \in Reqs : steady'[r] \subseteq steady[r] PROVE Kept
  BY <1>1, <1>4, AsideReaches
<1>5. ASSUME NEW i, Publish(i) PROVE \A r \in Reqs : steady'[r] \subseteq steady[r]
  BY <1>5 DEF Publish
<1> HIDE DEF Kept
<1>6. ASSUME NEW a \in Actors, LoadChannel(a) \/ SendPanics(a) PROVE Kept
  <2>1. UNCHANGED steady /\ Aside
    <3>1. /\ pc[a] \in {"load", "send"} /\ UNCHANGED <<channels, wg, open, steady>>
          /\ \E x \in {"send", Return(a), "failed", "done"} : pc' = [pc EXCEPT ![a] = x]
          /\ a \in Conns => \E x \in {"send", Return(a), "done"} : pc' = [pc EXCEPT ![a] = x]
      BY <1>1, <1>6 DEF LoadChannel, SendPanics, Goto
    <3> QED
      BY <1>1, <3>1, Returns DEF Aside
  <2> QED
    BY <1>4, <2>1
<1>7. ASSUME NEW c \in Conns, Connect(c) PROVE Kept
  <2>1. Aside /\ UNCHANGED steady
    BY <1>1, <1>7 DEF Connect, Aside, Goto
  <2> QED
    BY <1>4, <2>1
<1>8. ASSUME NEW r \in Reqs, Request(r) PROVE Kept
  <2>1. Aside
    BY <1>1, <1>8 DEF Request, EachLocal, EachAway, SendAway, RequestDone, Aside, Goto
  <2>2. UNCHANGED steady \/ \E i : Publish(i)
    BY <1>8 DEF Request, EachLocal, EachAway, SendAway, RequestDone
  <2> QED
    BY <1>4, <1>5, <2>1, <2>2
<1>9. CASE RemotePublish
  <2>1. Aside /\ \E i : Publish(i)
    BY <1>9 DEF RemotePublish, Aside
  <2> QED
    BY <1>4, <1>5, <2>1 DEF Kept
<1>10. CASE Subscribe \/ Listen \/ Unsubscribe
  <2>1. Aside /\ UNCHANGED steady
    BY <1>1, <1>10 DEF Subscribe, Listen, Unsubscribe, Aside, Goto
  <2> QED
    BY <1>4, <2>1 DEF Kept
<1>11. CASE StopBegins \/ StopVisits \/ StopWaits \/ StopReturns \/ Dispose
  <2>1. Aside /\ UNCHANGED steady
    BY <1>1, <1>11
    DEF StopBegins, StopVisits, StopWaits, StopReturns, Dispose, Aside, Goto
  <2> QED
    BY <1>4, <2>1 DEF Kept
<1>12. CASE (\E d \in Devices : KeyExpires(d)) \/ UNCHANGED vars
  <2>1. Aside /\ UNCHANGED steady
    BY <1>12 DEF KeyExpires, vars, Aside
  <2> QED
    BY <1>4, <2>1 DEF Kept
<1> QED
  BY <1>2, <1>3, <1>6, <1>7, <1>8, <1>9, <1>10, <1>11, <1>12
  DEF Next, HandleInstruction, Subscriber, SubscribeFails, SubscriberPanics, Shutdown,
      StopPanics, Exit, Kept

\* What a request counts as steady can be reached, in the next state.
LEMMA SteadyReachedNext ==
    ASSUME TypeOK, Together, SteadyReached, [Next]_vars
    PROVE  SteadyReached'
<1>1. /\ Reqs \subseteq Actors /\ Conns \cap Reqs = {} /\ DOMAIN pc = Actors
      /\ DOMAIN steady = Reqs
  BY ChannelsAssumption DEF ChannelsAssumption, Actors, TypeOK
<1>2. CASE ProcessEnds
  BY <1>1, <1>2 DEF ProcessEnds, SteadyReached
<1>3. CASE ~ProcessEnds
  <2>1. \A a \in Actors : pc'[a] = "exited" <=> pc[a] = "exited"
    BY <1>3, TogetherNext
  <2>2. ASSUME NEW r \in Reqs, RequestArrives(r) PROVE SteadyReached'
    <3>1. /\ steady' = [steady EXCEPT ![r] = {c \in Conns : Reachable(c)}]
          /\ UNCHANGED channels /\ \A c \in Conns : pc'[c] = pc[c]
      BY <1>1, <2>2 DEF RequestArrives, Goto, sessions
    <3>2. \A c \in Conns : Reachable(c) => Reachable(c)'
      BY <3>1 DEF Reachable
    <3>3. \A q \in Reqs : pc[q] # "exited" => \A c \in steady[q] : c \in Conns /\ Reachable(c)
      BY DEF SteadyReached, TypeOK
    <3>4. \A q \in Reqs : pc[q] # "exited" =>
            \A c \in steady'[q] : c \in Conns /\ Reachable(c)
      BY <1>1, <3>1, <3>3
    <3> QED
      BY <1>1, <2>1, <3>2, <3>4 DEF SteadyReached
  <2>3. CASE \A r \in Reqs : /\ steady'[r] \subseteq steady[r]
                             /\ \A c \in steady'[r] : Reachable(c) => Reachable(c)'
    BY <1>1, <2>1, <2>3 DEF SteadyReached
  <2> QED
    BY <1>3, <2>2, <2>3, SteadyNext
<1> QED
  BY <1>2, <1>3

\* What a request's own steps do, its publications aside.
LEMMA RequestEffect ==
    ASSUME TypeOK, NEW r \in Reqs,
           SendPanics(r) \/ RequestArrives(r) \/ EachLocal(r) \/ RequestDone(r)
    PROVE  /\ \A a \in (Reqs \cup {Sub}) \ {r} : Quiet(a)
           /\ \A q \in Reqs \ {r} : todo'[q] = todo[q] /\ steady'[q] = steady[q]
           /\ UNCHANGED <<channels, topic, away, received>>
           /\ \/ SendPanics(r) /\ pc'[r] = "failed" /\ UNCHANGED steady
              \/ /\ RequestArrives(r) /\ pc[r] = "idle" /\ pc'[r] = "each"
                 /\ todo'[r] = targets[r] /\ steady'[r] = {c \in Conns : Reachable(c)}
              \/ /\ EachLocal(r) /\ pc[r] = "each" /\ pc'[r] = "load" /\ UNCHANGED steady
                 /\ \E d \in todo[r] : /\ todo'[r] = todo[r] \ {d}
                                       /\ ins'[r] = Instruction(d, command[r], r)
              \/ /\ RequestDone(r) /\ pc[r] = "each" /\ pc'[r] = "done" /\ UNCHANGED steady
                 /\ todo[r] = {} /\ away[r] = {}
<1> USE DEF registered, sessions, bus, handling, unserved, history, Quiet, Goto
<1>1. /\ Reqs \cup {Sub} \subseteq Actors /\ DOMAIN pc = Actors /\ DOMAIN ins = Actors
      /\ DOMAIN todo = Reqs \cup {Stopper} /\ DOMAIN steady = Reqs
  BY DEF TypeOK, Actors
<1>2. CASE SendPanics(r)
  BY <1>1, <1>2 DEF SendPanics
<1>3. CASE RequestArrives(r)
  BY <1>1, <1>3 DEF RequestArrives
<1>4. CASE EachLocal(r)
  BY <1>1, <1>4 DEF EachLocal
<1>5. CASE RequestDone(r)
  BY <1>1, <1>5 DEF RequestDone
<1> QED
  BY <1>2, <1>3, <1>4, <1>5

\* What a request does for a device that is not here: it puts it aside, or publishes.
LEMMA AwayEffect ==
    ASSUME TypeOK, Labelled, NEW r \in Reqs, EachAway(r) \/ SendAway(r)
    PROVE  /\ pc[r] = "each" /\ \A a \in Reqs \cup {Sub} : Quiet(a)
           /\ UNCHANGED <<pc, channels, received>>
           /\ \A q \in Reqs \ {r} : todo'[q] = todo[q] /\ away'[q] = away[q]
           /\ away'[r] # {} => command[r] = "frame"
           /\ \E d \in Devices :
                \/ /\ UNCHANGED <<topic, steady>>
                   /\ command[r] = "frame" =>
                        \/ todo'[r] \cup away'[r] = todo[r] \cup away[r]
                        \/ d \notin keys /\ todo[r] \cup away[r] \subseteq
                                              todo'[r] \cup away'[r] \cup {d}
                \/ /\ Publish(Instruction(d, command[r], r))
                   /\ todo[r] \cup away[r] \subseteq todo'[r] \cup away'[r] \cup {d}
<1> USE DEF registered, sessions, bus, handling, unserved, history
<1>1. /\ DOMAIN todo = Reqs \cup {Stopper} /\ DOMAIN away = Reqs
      /\ todo[r] \subseteq Devices /\ away[r] \subseteq Devices
      /\ command[r] \in {"frame", "kick"}
  BY ChannelsAssumption DEF ChannelsAssumption, TypeOK
<1>2. away[r] # {} => command[r] = "frame"
  BY DEF Labelled
<1>3. /\ pc[r] = "each" /\ UNCHANGED <<pc, channels, received>>
      /\ \A a \in Reqs \cup {Sub} : Quiet(a)
  BY DEF EachAway, SendAway, Quiet
<1>4. CASE EachAway(r)
  <2>1. PICK d \in todo[r] :
          /\ todo' = [todo EXCEPT ![r] = @ \ {d}]
          /\ IF command[r] = "frame"
               THEN away' = [away EXCEPT ![r] = @ \cup {d}] /\ UNCHANGED <<topic, steady>>
               ELSE /\ UNCHANGED away
                    /\ IF InRedis(d) THEN Publish(Instruction(d, "kick", r))
                                     ELSE UNCHANGED <<topic, steady>>
    BY <1>4 DEF EachAway
  <2>2. CASE command[r] = "frame"
    <3>1. /\ todo'[r] = todo[r] \ {d} /\ away'[r] = away[r] \cup {d}
          /\ \A q \in Reqs \ {r} : todo'[q] = todo[q] /\ away'[q] = away[q]
          /\ UNCHANGED <<topic, steady>>
      BY <1>1, <2>1, <2>2
    <3>2. todo'[r] \cup away'[r] = todo[r] \cup away[r] /\ d \in Devices
      BY <1>1, <3>1
    <3> QED
      BY <1>3, <2>2, <3>1, <3>2
  <2>3. CASE command[r] = "kick"
    <3>1. /\ todo'[r] = todo[r] \ {d} /\ UNCHANGED away
          /\ \A q \in Reqs \ {r} : todo'[q] = todo[q]
          /\ Publish(Instruction(d, command[r], r)) \/ UNCHANGED <<topic, steady>>
          /\ d \in Devices
      BY <1>1, <2>1, <2>3
    <3>2. todo[r] \cup away[r] \subseteq todo'[r] \cup away'[r] \cup {d}
      BY <3>1
    <3> QED
      BY <1>2, <1>3, <2>3, <3>1, <3>2
  <2> QED
    BY <1>1, <2>2, <2>3
<1>5. CASE SendAway(r)
  <2>1. PICK d \in away[r] :
          /\ away' = [away EXCEPT ![r] = @ \ {d}]
          /\ IF HasAddress(d) THEN Publish(Instruction(d, "frame", r))
                              ELSE UNCHANGED <<topic, steady>>
    BY <1>5 DEF SendAway
  <2>2. /\ away'[r] = away[r] \ {d} /\ UNCHANGED todo /\ d \in Devices
        /\ \A q \in Reqs \ {r} : away'[q] = away[q]
        /\ command[r] = "frame"
        /\ \/ Publish(Instruction(d, command[r], r))
           \/ d \notin keys /\ UNCHANGED <<topic, steady>>
    BY <1>1, <1>2, <1>5, <2>1 DEF SendAway, HasAddress
  <2>3. todo[r] \cup away[r] \subseteq todo'[r] \cup away'[r] \cup {d}
    BY <2>2
  <2> QED
    BY <1>3, <2>2, <2>3
<1> QED
  BY <1>4, <1>5

\* What the subscriber's steps between two instructions do.
LEMMA ListenEffect ==
    ASSUME TypeOK, Subscribe \/ Listen \/ Unsubscribe
    PROVE  /\ \A r \in Reqs : Quiet(r)
           /\ pc[Sub] \in {"subscribe", "listen"}
           /\ UNCHANGED <<channels, todo, away, received, steady>>
           /\ \/ UNCHANGED topic /\ pc'[Sub] \notin {"load", "send"}
              \/ /\ topic # <<>> /\ topic' = Tail(topic)
                 /\ pc'[Sub] = "load" /\ ins'[Sub] = Head(topic)
<1> USE DEF registered, sessions, bus, handling, unserved, history, Quiet, Goto
<1>1. /\ Reqs \cup {Sub} \subseteq Actors /\ DOMAIN pc = Actors /\ DOMAIN ins = Actors
      /\ Sub \notin Reqs
  BY ChannelsAssumption DEF ChannelsAssumption, TypeOK, Actors
<1>2. CASE Subscribe \/ Unsubscribe
  BY <1>1, <1>2 DEF Subscribe, Unsubscribe
<1>3. CASE Listen
  BY <1>1, <1>3 DEF Listen
<1> QED
  BY <1>2, <1>3

\* A request that has begun stays so.
LEMMA BegunNext ==
    ASSUME TypeOK, Addressed, Labelled, [Next]_vars
    PROVE  \A q \in Reqs : pc[q] # "idle" => pc'[q] # "idle"
<1> SUFFICES ASSUME NEW q \in Reqs, pc[q] # "idle" PROVE pc'[q] # "idle"
  OBVIOUS
<1>1. q \in Actors /\ q \notin {Sub} \cup Conns /\ Reqs \cup {Sub} \subseteq Actors
  BY ChannelsAssumption DEF ChannelsAssumption, Actors
<1>2. CASE ProcessEnds
  BY <1>1, <1>2 DEF ProcessEnds
<1>3. ASSUME NEW a \in Reqs \cup {Sub}, LoadChannel(a) PROVE pc'[q] # "idle"
  BY <1>1, <1>3, LoadEffect, Returns DEF Quiet
<1>4. ASSUME NEW a \in Reqs \cup {Sub}, Deliver(a) PROVE pc'[q] # "idle"
  BY <1>1, <1>4, DeliverEffect, DeliverQuiet, Returns DEF Quiet
<1>5. ASSUME NEW r \in Reqs, SendPanics(r) \/ RequestArrives(r) \/ EachLocal(r) \/ RequestDone(r)
      PROVE  pc'[q] # "idle"
  BY <1>1, <1>5, RequestEffect DEF Quiet
<1>6. ASSUME NEW r \in Reqs, EachAway(r) \/ SendAway(r) PROVE pc'[q] # "idle"
  BY <1>1, <1>6, AwayEffect
<1>7. CASE RemotePublish
  BY <1>7 DEF RemotePublish
<1>8. CASE Subscribe \/ Listen \/ Unsubscribe
  BY <1>8, ListenEffect DEF Quiet
<1>9. CASE Elsewhere
  BY <1>9 DEF Elsewhere, Quiet
<1> QED
  BY <1>2, <1>3, <1>4, <1>5, <1>6, <1>7, <1>8, <1>9, DeliveryKinds DEF Request

\* Instructions keep the request and the command they were made with.
LEMMA LabelledNext ==
    ASSUME TypeOK, Addressed, Labelled, [Next]_vars
    PROVE  Labelled'
<1> DEFINE Sure(i) == i.from \in Reqs => i.command = command[i.from] /\ pc'[i.from] # "idle"
           Aways == \A r \in Reqs : away'[r] # {} => command[r] = "frame"
           Sent == \A k \in 1..Len(topic') : Sure(topic'[k])
           BySub == pc'[Sub] \in {"load", "send"} => Sure(ins'[Sub])
           ByReqs == \A r \in Reqs : pc'[r] \in {"load", "send"} =>
                       ins'[r].from = r /\ ins'[r].command = command[r]
<1> SUFFICES Aways /\ Sent /\ BySub /\ ByReqs
  BY DEF Labelled, Of
<1>1. /\ Reqs \cup {Sub} \subseteq Actors /\ Sub \notin Reqs /\ Conns \cap (Reqs \cup {Sub}) = {}
      /\ topic \in Seq(InstructionType) /\ None \notin Reqs
      /\ \A r \in Reqs : command[r] \in {"frame", "kick"}
  BY ChannelsAssumption DEF ChannelsAssumption, Actors, TypeOK
<1>2. ASSUME NEW i, Of(i) PROVE Sure(i)
  BY <1>2, BegunNext DEF Of
<1>3. ASSUME UNCHANGED topic PROVE Sent
  BY <1>2, <1>3 DEF Labelled
<1>4. ASSUME Quiet(Sub) PROVE BySub
  BY <1>2, <1>4 DEF Labelled, Quiet
<1>5. ASSUME UNCHANGED away PROVE Aways
  BY <1>5 DEF Labelled
<1>6. ASSUME NEW a, \A r \in Reqs \ {a} : Quiet(r),
             a \in Reqs => \/ pc'[a] \notin {"load", "send"}
                           \/ ins'[a].from = a /\ ins'[a].command = command[a]
      PROVE  ByReqs
  BY <1>6 DEF Labelled, Quiet
<1>7. ASSUME NEW d, NEW do, NEW r \in Reqs \cup {None}, Publish(Instruction(d, do, r)),
             r \in Reqs => do = command[r] /\ pc'[r] # "idle"
      PROVE  Sent
  <2>1. CASE Subscribed
    <3>1. topic' = Append(topic, Instruction(d, do, r))
      BY <1>7, <2>1, PublishEffect
    <3>2. Sure(Instruction(d, do, r))
      BY <1>1, <1>7 DEF Instruction
    <3>3. \A k \in 1..Len(topic) : Sure(topic[k])
      BY <1>2 DEF Labelled
    <3> HIDE DEF Sure
    <3> QED
      BY <1>1, <3>1, <3>2, <3>3
  <2>2. CASE ~Subscribed
    BY <1>3, <1>7, <2>2, PublishEffect
  <2> QED
    BY <2>1, <2>2
<1> HIDE DEF Sure, Aways, Sent, BySub, ByReqs
<1>8. CASE ProcessEnds
  <2>1. \A a \in Reqs \cup {Sub} : pc'[a] = "exited"
    BY <1>1, <1>8 DEF ProcessEnds
  <2>2. UNCHANGED <<topic, away>>
    BY <1>8 DEF ProcessEnds, bus, unserved
  <2> QED
    BY <1>3, <1>5, <2>1, <2>2 DEF BySub, ByReqs
<1>9. ASSUME NEW a \in Reqs \cup {Sub}, LoadChannel(a) \/ Deliver(a)
      PROVE  Aways /\ Sent /\ BySub /\ ByReqs
  <2>1. /\ UNCHANGED <<topic, away>> /\ \A b \in (Reqs \cup {Sub}) \ {a} : Quiet(b)
        /\ \/ pc'[a] = Return(a)
           \/ pc[a] = "load" /\ pc'[a] = "send" /\ ins'[a] = ins[a]
    BY <1>1, <1>9, LoadEffect, DeliverEffect, DeliverQuiet
  <2>2. Return(a) \notin {"load", "send"}
    BY Returns
  <2>3. BySub
    <3>1. CASE a = Sub
      BY <1>2, <2>1, <2>2, <3>1 DEF BySub, Labelled
    <3>2. CASE a # Sub
      BY <1>4, <2>1, <3>2
    <3> QED
      BY <3>1, <3>2
  <2>4. ByReqs
    BY <1>6, <2>1, <2>2 DEF Labelled
  <2> QED
    BY <1>3, <1>5, <2>1, <2>3, <2>4
<1>10. ASSUME NEW r \in Reqs, SendPanics(r) \/ RequestArrives(r) \/ EachLocal(r) \/ RequestDone(r)
       PROVE  Aways /\ Sent /\ BySub /\ ByReqs
  <2>1. /\ UNCHANGED <<topic, away>> /\ \A a \in (Reqs \cup {Sub}) \ {r} : Quiet(a)
        /\ \/ pc'[r] \notin {"load", "send"}
           \/ \E d : ins'[r] = Instruction(d, command[r], r)
    BY <1>10, RequestEffect
  <2>2. \A d : /\ Instruction(d, command[r], r).from = r
               /\ Instruction(d, command[r], r).command = command[r]
    BY DEF Instruction
  <2>3. ByReqs
    BY <1>6, <2>1, <2>2
  <2> QED
    BY <1>1, <1>3, <1>4, <1>5, <2>1, <2>3
<1>11. ASSUME NEW r \in Reqs, EachAway(r) \/ SendAway(r)
       PROVE  Aways /\ Sent /\ BySub /\ ByReqs
  <2>1. /\ pc[r] = "each" /\ pc'[r] = "each" /\ \A a \in Reqs \cup {Sub} : Quiet(a)
        /\ \A q \in Reqs \ {r} : away'[q] = away[q]
        /\ away'[r] # {} => command[r] = "frame"
        /\ UNCHANGED topic \/ \E d \in Devices : Publish(Instruction(d, command[r], r))
    BY <1>11, AwayEffect DEF Quiet
  <2>2. Aways
    BY <2>1 DEF Aways, Labelled
  <2>3. Sent
    BY <1>3, <1>7, <2>1
  <2>4. ByReqs
    BY <1>1, <1>6, <2>1 DEF Labelled, Quiet
  <2> QED
    BY <1>4, <2>1, <2>2, <2>3, <2>4
<1>12. CASE RemotePublish
  <2>1. PICK d \in Devices, do \in {"frame", "kick", "extrude"} : Publish(Instruction(d, do, None))
    BY <1>12 DEF RemotePublish
  <2>2. UNCHANGED away /\ \A a \in Reqs \cup {Sub} : Quiet(a)
    BY <1>12 DEF RemotePublish, unserved, handling, Quiet
  <2>3. Sent
    BY <1>1, <1>7, <2>1
  <2> QED
    BY <1>1, <1>4, <1>5, <1>6, <2>2, <2>3
<1>13. CASE Subscribe \/ Listen \/ Unsubscribe
  <2>1. UNCHANGED away /\ \A r \in Reqs : Quiet(r)
    BY <1>13, ListenEffect
  <2>2. CASE UNCHANGED topic /\ pc'[Sub] \notin {"load", "send"}
    BY <1>1, <1>3, <1>5, <1>6, <2>1, <2>2 DEF BySub
  <2>3. CASE topic # <<>> /\ topic' = Tail(topic) /\ ins'[Sub] = Head(topic)
    <3>1. \A k \in 1..Len(topic) : Sure(topic[k])
      BY <1>2 DEF Labelled
    <3>2. Sure(Head(topic)) /\ Sent
      BY <1>1, <2>3, <3>1 DEF Sent
    <3> QED
      BY <1>1, <1>5, <1>6, <2>1, <2>3, <3>2 DEF BySub
  <2> QED
    BY <1>13, <2>2, <2>3, ListenEffect
<1>14. CASE Elsewhere
  BY <1>1, <1>3, <1>4, <1>6, <1>14 DEF Elsewhere, Aways, Labelled
<1> QED
  BY <1>8, <1>9, <1>10, <1>11, <1>12, <1>13, <1>14, DeliveryKinds DEF Request

\* The session that is steady is the one that an instruction is sent to.
LEMMA SteadyHeldNext ==
    ASSUME TypeOK, Addressed, Together, SteadyReached, Labelled, SteadyHeld, [Next]_vars
    PROVE  SteadyHeld'
<1>1. /\ Reqs \cup {Sub} \subseteq Actors /\ Sub \notin Reqs /\ None \notin Conns
  BY ChannelsAssumption DEF ChannelsAssumption, Actors
<1> SUFFICES ASSUME NEW a \in Reqs \cup {Sub}, pc'[a] = "send", NEW r \in Reqs,
                    NEW c \in steady'[r], ins'[a].from = r, ins'[a].device = deviceOf[c]
             PROVE  chan'[a] = c
  BY DEF SteadyHeld
<1>2. ASSUME Quiet(a), c \in steady[r] PROVE chan'[a] = c
  BY <1>2 DEF Quiet, SteadyHeld
<1>3. CASE ProcessEnds
  BY <1>1, <1>3 DEF ProcessEnds
<1>4. ASSUME NEW b \in Reqs \cup {Sub}, LoadChannel(b) PROVE chan'[a] = c
  <2>1. CASE b = a
    <3>1. channels[ins[a].device] # None
      BY <1>1, <1>4, <2>1, LoadEffect, Returns
    <3>2. /\ chan'[a] = channels[ins[a].device] /\ ins'[a] = ins[a] /\ UNCHANGED steady
          /\ pc[a] = "load"
      BY <1>1, <1>4, <2>1, <3>1, LoadEffect
    <3>3. pc[r] # "exited"
      BY <1>1, <3>2 DEF Together
    <3> QED
      BY <3>2, <3>3 DEF SteadyReached, Reachable
  <2>2. CASE b # a
    BY <1>1, <1>2, <1>4, <2>2, LoadEffect
  <2> QED
    BY <2>1, <2>2
<1>5. ASSUME NEW b \in Reqs \cup {Sub}, Deliver(b) PROVE chan'[a] = c
  BY <1>1, <1>2, <1>5, DeliverEffect, DeliverQuiet, Returns
<1>6. ASSUME NEW q \in Reqs, SendPanics(q) \/ RequestArrives(q) \/ EachLocal(q) \/ RequestDone(q)
      PROVE  chan'[a] = c
  <2>1. a # q /\ Quiet(a)
    BY <1>6, RequestEffect
  <2>2. CASE r = q
    <3>1. /\ pc[a] = "send" /\ ins[a].from = r
          /\ \/ (RequestArrives(q) /\ pc[q] = "idle") \/ UNCHANGED steady
      BY <1>6, <2>1, RequestEffect DEF Quiet
    <3>2. pc[r] # "idle"
      BY <2>1, <2>2, <3>1 DEF Labelled, Of
    <3> QED
      BY <1>2, <2>1, <2>2, <3>1, <3>2
  <2>3. CASE r # q
    BY <1>2, <1>6, <2>1, <2>3, RequestEffect
  <2> QED
    BY <2>2, <2>3
<1>7. ASSUME NEW q \in Reqs, EachAway(q) \/ SendAway(q) PROVE chan'[a] = c
  <2>1. Quiet(a) /\ (UNCHANGED steady \/ \E i : Publish(i))
    BY <1>7, AwayEffect
  <2>2. c \in steady[r]
    BY <2>1 DEF Publish
  <2> QED
    BY <1>2, <2>1, <2>2
<1>8. CASE RemotePublish
  <2>1. Quiet(a) /\ \E i : Publish(i)
    BY <1>8 DEF RemotePublish, handling, Quiet
  <2>2. c \in steady[r]
    BY <2>1 DEF Publish
  <2> QED
    BY <1>2, <2>1, <2>2
<1>9. CASE Subscribe \/ Listen \/ Unsubscribe
  BY <1>2, <1>9, ListenEffect
<1>10. CASE Elsewhere
  BY <1>2, <1>10 DEF Elsewhere
<1> QED
  BY <1>3, <1>4, <1>5, <1>6, <1>7, <1>8, <1>9, <1>10, DeliveryKinds DEF Request

\* What is on its way stays so, when nobody takes it from the topic.
LEMMA OnItsWayStays ==
    ASSUME NEW c, NEW r, OnItsWay(c, r), Quiet(Sub), topic \in Seq(InstructionType),
           topic' = topic \/ \E i : topic' = Append(topic, i)
    PROVE  OnItsWay(c, r)'
<1> DEFINE mine(i) == i.device = deviceOf[c] /\ i.from = r
<1>1. CASE \E k \in 1..Len(topic) : mine(topic[k])
  <2>1. PICK k \in 1..Len(topic) : mine(topic[k])
    BY <1>1
  <2>2. k \in 1..Len(topic') /\ topic'[k] = topic[k]
    BY <2>1
  <2> QED
    BY <2>1, <2>2 DEF OnItsWay
<1>2. CASE pc[Sub] \in {"load", "send"} /\ mine(ins[Sub])
  BY <1>2 DEF OnItsWay, Quiet
<1> QED
  BY <1>1, <1>2 DEF OnItsWay

\* A session that is tracked stays so, when neither the request nor the subscriber moves.
LEMMA TrackStays ==
    ASSUME NEW c, NEW r, Track(c, r), Quiet(r), Quiet(Sub), topic \in Seq(InstructionType),
           topic' = topic \/ \E i : topic' = Append(topic, i),
           todo[r] \cup away[r] \subseteq todo'[r] \cup away'[r], received \subseteq received'
    PROVE  Track(c, r)'
BY OnItsWayStays DEF Track, Quiet

\* What has just been published is on its way.
LEMMA PublishedOnItsWay ==
    ASSUME TypeOK, NEW r \in Reqs, NEW d, NEW do, Publish(Instruction(d, do, r)),
           NEW c \in steady'[r], deviceOf[c] = d
    PROVE  OnItsWay(c, r)'
<1> DEFINE i == Instruction(d, do, r)
<1>1. i.device = d /\ i.from = r
  BY DEF Instruction
<1> HIDE DEF i
<1>2. Subscribed
  BY <1>1 DEF Publish, i
<1>3. topic' = Append(topic, i) /\ topic \in Seq(InstructionType)
  BY <1>2, PublishEffect DEF i, TypeOK
<1>4. Len(topic') \in 1..Len(topic') /\ topic'[Len(topic')] = i
  BY <1>3
<1> QED
  BY <1>1, <1>4 DEF OnItsWay

\* Every step keeps track of the sessions a broadcast is for.
LEMMA TrackedNext ==
    ASSUME TypeOK, Addressed, Together, KeysKept, SteadyReached, Labelled, SteadyHeld, Tracked,
           [Next]_vars
    PROVE  Tracked'
<1>1. /\ Reqs \cup {Sub} \subseteq Actors /\ Sub \notin Reqs /\ None \notin Conns
      /\ topic \in Seq(InstructionType)
      /\ steady \in [Reqs -> SUBSET Conns]
  BY ChannelsAssumption DEF ChannelsAssumption, Actors, TypeOK
<1> DEFINE Going == {"each", "load", "send", "done"}
<1> SUFFICES ASSUME NEW r \in Reqs, command[r] = "frame", pc'[r] \in Going,
                    NEW c \in steady'[r], deviceOf[c] \in targets[r]
             PROVE  Track(c, r)'
  BY DEF Tracked
<1>2. ASSUME pc[r] \in Going, c \in steady[r] PROVE Track(c, r)
  BY <1>2 DEF Tracked
<1>3. ASSUME pc[r] \in Going, c \in steady[r] PROVE c \in Conns /\ Reachable(c)
  BY <1>1, <1>3 DEF SteadyReached
<1>4. ASSUME Quiet(r), Quiet(Sub), c \in steady[r],
             topic' = topic \/ \E i : topic' = Append(topic, i),
             todo[r] \cup away[r] \subseteq todo'[r] \cup away'[r], received \subseteq received'
      PROVE  Track(c, r)'
  <2>1. Track(c, r)
    BY <1>2, <1>4 DEF Quiet
  <2> QED
    BY <1>1, <1>4, <2>1, TrackStays
<1>5. CASE ProcessEnds
  BY <1>1, <1>5 DEF ProcessEnds
<1>6. ASSUME NEW a \in Reqs \cup {Sub}, LoadChannel(a) PROVE Track(c, r)'
  <2>1. /\ UNCHANGED <<topic, todo, away, received, steady>>
        /\ \A b \in (Reqs \cup {Sub}) \ {a} : Quiet(b)
        /\ pc[a] = "load" /\ a \in Actors
    BY <1>1, <1>6, LoadEffect
  <2>2. pc[r] \in Going /\ c \in steady[r]
    BY <2>1 DEF Quiet
  <2>3. Track(c, r) /\ Reachable(c)
    BY <1>2, <1>3, <2>2
  <2>4. CASE ins[a].device = deviceOf[c]
    <3>1. pc'[a] = "send" /\ ins'[a] = ins[a]
      BY <1>1, <1>3, <1>6, <2>2, <2>3, <2>4, LoadEffect DEF Reachable
    <3>2. CASE a = Sub
      BY <1>1, <2>1, <2>3, <3>1, <3>2 DEF Track, OnItsWay, Quiet
    <3>3. CASE a # Sub
      <4>1. Quiet(Sub)
        BY <2>1, <3>3
      <4>2. OnItsWay(c, r) => OnItsWay(c, r)'
        BY <1>1, <2>1, <4>1, OnItsWayStays
      <4> QED
        BY <1>1, <2>1, <2>3, <3>1, <3>3, <4>2 DEF Track, Quiet
    <3> QED
      BY <3>2, <3>3
  <2>5. CASE ins[a].device # deviceOf[c]
    <3>1. CASE a = Sub
      <4>1. OnItsWay(c, r) => OnItsWay(c, r)'
        BY <2>1, <2>5, <3>1 DEF OnItsWay
      <4> QED
        BY <1>1, <2>1, <2>3, <3>1, <4>1 DEF Track, Quiet
    <3>2. CASE a # Sub
      <4>1. Quiet(Sub)
        BY <2>1, <3>2
      <4>2. OnItsWay(c, r) => OnItsWay(c, r)'
        BY <1>1, <2>1, <4>1, OnItsWayStays
      <4>3. a = r => pc'[r] # "done"
        BY <1>1, <1>6, LoadEffect, Returns
      <4> QED
        BY <1>1, <2>1, <2>3, <2>5, <3>2, <4>2, <4>3 DEF Track, Quiet
    <3> QED
      BY <3>1, <3>2
  <2> QED
    BY <2>4, <2>5
<1>7. ASSUME NEW a \in Reqs \cup {Sub}, Deliver(a) PROVE Track(c, r)'
  <2>1. /\ UNCHANGED <<topic, todo, away>> /\ received \subseteq received'
        /\ \A b \in (Reqs \cup {Sub}) \ {a} : Quiet(b)
        /\ pc[a] = "send" /\ a \in Actors /\ c \in steady[r]
        /\ ins[a].command = "frame" => <<chan[a], ins[a].from>> \in received'
        /\ pc'[a] = Return(a)
    BY <1>1, <1>7, DeliverEffect, DeliverQuiet
  <2>2. pc[r] \in Going
    BY <2>1 DEF Quiet
  <2>3. Track(c, r)
    BY <1>2, <2>1, <2>2
  <2>4. CASE ins[a].device = deviceOf[c] /\ ins[a].from = r
    <3>1. chan[a] = c
      BY <2>1, <2>4 DEF SteadyHeld
    <3>2. ins[a].command = "frame"
      BY <2>1, <2>4 DEF Labelled, Of
    <3> QED
      BY <2>1, <2>4, <3>1, <3>2 DEF Track
  <2>5. CASE ~(ins[a].device = deviceOf[c] /\ ins[a].from = r)
    <3>1. CASE a = Sub
      <4>1. OnItsWay(c, r) => OnItsWay(c, r)'
        BY <2>1, <2>5, <3>1 DEF OnItsWay
      <4> QED
        BY <1>1, <2>1, <2>3, <3>1, <4>1 DEF Track, Quiet
    <3>2. CASE a # Sub
      <4>1. Quiet(Sub)
        BY <2>1, <3>2
      <4>2. OnItsWay(c, r) => OnItsWay(c, r)'
        BY <1>1, <2>1, <4>1, OnItsWayStays
      <4>3. a = r => pc'[r] # "done" /\ ins[r].from = r
        BY <1>1, <2>1, Returns DEF Labelled
      <4> QED
        BY <1>1, <2>1, <2>3, <2>5, <3>2, <4>2, <4>3 DEF Track, Quiet
    <3> QED
      BY <3>1, <3>2
  <2> QED
    BY <2>4, <2>5
<1>8. ASSUME NEW q \in Reqs, SendPanics(q) \/ RequestArrives(q) \/ EachLocal(q) \/ RequestDone(q)
      PROVE  Track(c, r)'
  <2>1. /\ \A a \in (Reqs \cup {Sub}) \ {q} : Quiet(a)
        /\ UNCHANGED <<topic, away, received>>
    BY <1>8, RequestEffect
  <2>2. CASE q # r
    <3>1. todo'[r] = todo[r] /\ steady'[r] = steady[r]
      BY <1>8, <2>2, RequestEffect
    <3> QED
      BY <1>1, <1>4, <2>1, <2>2, <3>1
  <2>3. CASE q = r
    <3>1. Quiet(Sub)
      BY <1>1, <2>1
    <3>2. OnItsWay(c, r) => OnItsWay(c, r)'
      BY <1>1, <2>1, <3>1, OnItsWayStays
    <3>3. CASE todo'[r] = targets[r] /\ pc'[r] = "each"
      BY <3>3 DEF Track
    <3>4. CASE /\ pc[r] = "each" /\ pc'[r] = "load" /\ UNCHANGED steady
               /\ \E d \in todo[r] : /\ todo'[r] = todo[r] \ {d}
                                     /\ ins'[r] = Instruction(d, command[r], r)
      <4>1. Track(c, r)
        BY <1>2, <3>4
      <4>2. \A d : Instruction(d, command[r], r).device = d
        BY DEF Instruction
      <4> QED
        BY <2>1, <3>2, <3>4, <4>1, <4>2 DEF Track
    <3>5. CASE /\ pc[r] = "each" /\ UNCHANGED steady /\ todo[r] = {} /\ away[r] = {}
      <4>1. Track(c, r)
        BY <1>2, <3>5
      <4> QED
        BY <2>1, <3>2, <3>5, <4>1 DEF Track
    <3> QED
      BY <1>8, <2>3, <3>3, <3>4, <3>5, RequestEffect
  <2> QED
    BY <2>2, <2>3
<1>9. ASSUME NEW q \in Reqs, EachAway(q) \/ SendAway(q) PROVE Track(c, r)'
  <2>1. /\ pc[q] = "each" /\ Quiet(r) /\ Quiet(Sub) /\ UNCHANGED received
        /\ \A p \in Reqs \ {q} : todo'[p] = todo[p] /\ away'[p] = away[p]
    BY <1>9, AwayEffect
  <2>2. PICK d \in Devices :
          \/ /\ UNCHANGED <<topic, steady>>
             /\ command[q] = "frame" =>
                  \/ todo'[q] \cup away'[q] = todo[q] \cup away[q]
                  \/ d \notin keys /\ todo[q] \cup away[q] \subseteq
                                        todo'[q] \cup away'[q] \cup {d}
          \/ /\ Publish(Instruction(d, command[q], q))
             /\ todo[q] \cup away[q] \subseteq todo'[q] \cup away'[q] \cup {d}
    BY <1>9, AwayEffect
  <2>3. /\ c \in steady[r] /\ pc[r] \in Going
        /\ topic' = topic \/ \E i : topic' = Append(topic, i)
    BY <2>1, <2>2 DEF Publish, Quiet
  <2>4. CASE q # r \/ todo[r] \cup away[r] \subseteq todo'[r] \cup away'[r]
    <3>1. todo[r] \cup away[r] \subseteq todo'[r] \cup away'[r]
      BY <2>1, <2>4
    <3> QED
      BY <1>4, <2>1, <2>3, <3>1
  <2>5. CASE q = r /\ d = deviceOf[c] /\ Publish(Instruction(d, command[q], q))
    <3>1. OnItsWay(c, r)'
      BY <2>5, PublishedOnItsWay
    <3> QED
      BY <3>1 DEF Track
  <2>6. CASE q = r /\ d # deviceOf[c] /\ todo[r] \cup away[r] \subseteq
                                            todo'[r] \cup away'[r] \cup {d}
    <3>1. Track(c, r)
      BY <1>2, <2>3
    <3>2. OnItsWay(c, r) => OnItsWay(c, r)'
      BY <1>1, <2>1, <2>3, OnItsWayStays
    <3> QED
      BY <2>1, <2>6, <3>1, <3>2 DEF Track, Quiet
  <2>7. d \notin keys => d # deviceOf[c]
    BY <1>3, <2>3 DEF Reachable, KeysKept
  <2> QED
    BY <2>2, <2>4, <2>5, <2>6, <2>7
<1>10. CASE RemotePublish
  <2>1. PICK i : Publish(i)
    BY <1>10 DEF RemotePublish
  <2>2. /\ Quiet(r) /\ Quiet(Sub) /\ UNCHANGED <<todo, away, received>>
    BY <1>10 DEF RemotePublish, handling, unserved, Quiet
  <2>3. c \in steady[r] /\ (topic' = topic \/ topic' = Append(topic, i))
    BY <2>1 DEF Publish
  <2> QED
    BY <1>4, <2>2, <2>3
<1>11. CASE Subscribe \/ Listen \/ Unsubscribe
  <2>1. /\ Quiet(r) /\ pc[Sub] \in {"subscribe", "listen"}
        /\ UNCHANGED <<todo, away, received, steady>>
    BY <1>11, ListenEffect
  <2>2. Track(c, r)
    BY <1>2, <2>1 DEF Quiet
  <2>3. CASE UNCHANGED topic
    <3>1. OnItsWay(c, r) => OnItsWay(c, r)'
      BY <2>1, <2>3 DEF OnItsWay
    <3> QED
      BY <2>1, <2>2, <3>1 DEF Track, Quiet
  <2>4. CASE /\ topic # <<>> /\ topic' = Tail(topic)
             /\ pc'[Sub] = "load" /\ ins'[Sub] = Head(topic)
    <3>1. OnItsWay(c, r) => OnItsWay(c, r)'
      <4>1. SUFFICES ASSUME OnItsWay(c, r) PROVE OnItsWay(c, r)'
        OBVIOUS
      <4>2. PICK k \in 1..Len(topic) : topic[k].device = deviceOf[c] /\ topic[k].from = r
        BY <2>1, <4>1 DEF OnItsWay
      <4>3. CASE k = 1
        BY <1>1, <2>4, <4>2, <4>3 DEF OnItsWay
      <4>4. CASE k # 1
        <5>1. k - 1 \in 1..Len(topic') /\ topic'[k - 1] = topic[k]
          BY <1>1, <2>4, <4>2, <4>4
        <5> QED
          BY <4>2, <5>1 DEF OnItsWay
      <4> QED
        BY <4>3, <4>4
    <3> QED
      BY <2>1, <2>2, <3>1 DEF Track, Quiet
  <2> QED
    BY <1>11, <2>3, <2>4, ListenEffect
<1>12. CASE Elsewhere
  <2>1. /\ Quiet(r) /\ Quiet(Sub) /\ c \in steady[r] /\ UNCHANGED topic
        /\ todo'[r] = todo[r] /\ away'[r] = away[r] /\ received \subseteq received'
    BY <1>12 DEF Elsewhere
  <2> QED
    BY <1>4, <2>1
<1> QED
  BY <1>5, <1>6, <1>7, <1>8, <1>9, <1>10, <1>11, <1>12, DeliveryKinds DEF Request

\* The broker starts with no instruction and no request.
LEMMA InitDelivery == Init => DeliveryInv
<1> SUFFICES ASSUME Init PROVE DeliveryInv
  OBVIOUS
<1>1. /\ pc[Sub] = "subscribe" /\ pc[Stopper] = "serving"
      /\ \A a \in Conns \cup Reqs : pc[a] = "idle"
      /\ \A r \in Reqs : away[r] = {} /\ steady[r] = {}
      /\ topic = <<>>
  BY ChannelsAssumption DEF ChannelsAssumption, Init, Actors
<1>2. Together /\ KeysKept /\ SteadyReached
  BY <1>1 DEF Together, KeysKept, SteadyReached, Actors
<1>3. Labelled /\ SteadyHeld /\ Tracked
  BY <1>1 DEF Labelled, SteadyHeld, Tracked
<1> QED
  BY <1>2, <1>3, InitChannels DEF DeliveryInv

\* Every step keeps the invariant of the deliveries.
LEMMA NextDelivery == DeliveryInv /\ [Next]_vars => DeliveryInv'
<1> SUFFICES ASSUME DeliveryInv, [Next]_vars PROVE DeliveryInv'
  OBVIOUS
<1>1. ChannelsInv /\ TypeOK /\ Addressed
  BY DEF DeliveryInv, ChannelsInv
<1> QED
  BY <1>1, NextChannels, TogetherNext, KeysKeptNext, SteadyReachedNext, LabelledNext,
     SteadyHeldNext, TrackedNext DEF DeliveryInv

\* Between its beginning and its end a broadcast keeps track of every session it can reach.
THEOREM DeliveryInvariant == Spec => []DeliveryInv
BY InitDelivery, NextDelivery, PTL DEF Spec

\* A finished POST /send was received by, or is on its way to, every session of its
\* targets that was in its event loop all the while.
THEOREM BroadcastReaches == Spec => []SteadyReceives
<1>1. DeliveryInv => SteadyReceives
  BY DEF DeliveryInv, Tracked, Track, SteadyReceives
<1> QED
  BY <1>1, DeliveryInvariant, PTL

=============================================================================
