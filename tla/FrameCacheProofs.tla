--------------------------- MODULE FrameCacheProofs ---------------------------
(***************************************************************************)
(* Proofs that FrameCache keeps its promises for any number of requests,   *)
(* users, brokers and frames and any size of the cache: what the cache     *)
(* holds, that the ids a client is given increase while the cache stands,  *)
(* and that FrameLog is implemented.                                       *)
(***************************************************************************)
EXTENDS FrameCache, FiniteSetTheorems, TLAPS

\* Some frame of the cache has the greatest id, and the bound on the frames holds.
CacheOK ==
    /\ IsFiniteSet(cache)
    /\ cache # {} => \E f \in cache : \A g \in cache : g.id <= f.id
    /\ \A f \in added : f.seq <= sent
    /\ sent + Cardinality({e \in Conns : pc[e] = "cacheTx"}) <= MaxFrames

\* Where the goroutines are: the client waits for the one that sets a session up; the key
\* is kept while it is needed; the frame to be written is the one just accepted.
SessionsOK ==
    /\ \A c \in Conns : pc[c] \in SetUp => current = c
    /\ \A c \in Conns : pc[c] \in {"addLocal"} \cup Serving => key # NoKey
    /\ \A c \in Conns :
         IF pc[c] = "write"
           THEN \E f \in Frame : /\ out[c] = {f}
                                 /\ f.id = num[c] /\ f.seq <= sent
           ELSE out[c] = {}

\* The counter of the client's current session, and the frame it is about to write.
InStep(c) ==
    /\ pc[c] = "newDevice" /\ Remembered => lastId <= num[c]
    /\ pc[c] \in {"addLocal"} \cup Serving /\ Remembered => lastId <= key.last
    /\ pc[c] \in {"cacheTx", "write"} => num[c] <= key.last
    /\ pc[c] \in {"cacheTx", "write"} /\ Remembered => lastId < num[c]
    /\ pc[c] = "write" => \A f \in out[c] : lastSeq < f.seq
    /\ pc[c] = "write" => \E g \in cache : num[c] <= g.id

\* The client's last frame against what its current session will write: while that frame
\* is remembered, the cache holds one at least as new, from which the counter was read.
ClientOK ==
    /\ lastSeq <= sent
    /\ Remembered => \E g \in cache : lastId <= g.id
    /\ \A c \in Conns : current = c => InStep(c)

\* The inductive invariant.
FrameInv == TypeOK /\ CacheOK /\ CacheHoldsNewest /\ SessionsOK /\ ClientOK

\* The highest id of a cache that is not empty, and of no cache a lower one.
LEMMA MaxIsHighest ==
    ASSUME TypeOK, CacheOK
    PROVE  MaxScore \in Nat /\ \A g \in cache : g.id <= MaxScore
<1>1. CASE cache = {}
  BY <1>1 DEF MaxScore
<1>2. CASE cache # {}
  <2> DEFINE m == CHOOSE f \in cache : \A g \in cache : g.id <= f.id
  <2>1. m \in cache /\ \A g \in cache : g.id <= m.id
    BY <1>2 DEF CacheOK
  <2> QED
    BY <1>2, <2>1 DEF MaxScore, TypeOK, Frame
<1> QED
  BY <1>1, <1>2

\* Nothing is cached at first.
LEMMA InitFrames == Init => FrameInv
<1> SUFFICES ASSUME Init PROVE FrameInv
  OBVIOUS
<1> USE FrameAssumption DEF FrameAssumption, Init
<1>1. TypeOK
  BY DEF TypeOK, NoKey, Steps, SetUp, Serving, InLoop
<1>2. {e \in Conns : pc[e] = "cacheTx"} = {}
  OBVIOUS
<1>3. CacheOK /\ CacheHoldsNewest
  BY <1>2, FS_EmptySet DEF CacheOK, CacheHoldsNewest
<1>4. SessionsOK /\ ClientOK
  BY DEF SessionsOK, ClientOK, InStep, Remembered, SetUp, Serving, InLoop
<1> QED
  BY <1>1, <1>3, <1>4 DEF FrameInv

\* What AddToCache's trimming keeps of a set with a newest frame: it ends with that
\* frame, and holds no more than the size.
LEMMA KeptKeepsNewest ==
    ASSUME NEW S \in SUBSET Frame, IsFiniteSet(S), NEW T \in Kept(S),
           NEW m \in S, \A g \in S : g.id <= m.id
    PROVE  /\ T \subseteq S /\ IsFiniteSet(T) /\ Cardinality(T) <= CacheSize
           /\ \E f \in T : m.id <= f.id
           /\ \A g \in S \ T : Cardinality(T) = CacheSize /\ \A f \in T : g.id <= f.id
<1>1. /\ T \subseteq S /\ Cardinality(T) <= CacheSize
      /\ \A g \in S \ T : \A f \in T : g.id <= f.id
      /\ Cardinality(T) = CacheSize \/ T = S
  BY DEF Kept
<1>2. IsFiniteSet(T)
  BY <1>1, FS_Subset
<1>3. T # {}
  BY <1>1, FS_EmptySet, FrameAssumption DEF FrameAssumption
<1>4. \E f \in T : m.id <= f.id
  <2>1. CASE m \in T
    BY <2>1 DEF Frame
  <2>2. CASE m \notin T
    BY <1>1, <1>3, <2>2
  <2> QED
    BY <2>1, <2>2
<1> QED
  BY <1>1, <1>2, <1>4

\* The step that accepts a frame: it becomes the newest of those accepted, and what the
\* cache loses is older than all that it keeps.
LEMMA AddEffect ==
    ASSUME FrameInv, NEW c \in Conns, AddToCache(c)
    PROVE  LET frame == [id |-> num[c], seq |-> sent + 1] IN
           /\ frame \in Frame /\ frame \notin added
           /\ added' = added \cup {frame}
           /\ cache' \subseteq cache \cup {frame}
           /\ IsFiniteSet(cache') /\ Cardinality(cache') <= CacheSize
           /\ \A g \in (cache \cup {frame}) \ cache' :
                Cardinality(cache') = CacheSize /\ \A f \in cache' : g.id <= f.id
           /\ \E f \in cache' : \A g \in cache \cup {frame} : g.id <= f.id
<1> DEFINE frame == [id |-> num[c], seq |-> sent + 1]
           S == cache \cup {frame}
<1> USE DEF FrameInv, TypeOK
<1>1. frame \in Frame
  BY FrameAssumption DEF FrameAssumption, Frame
<1>2. frame \notin added
  BY DEF CacheOK, Frame
<1>3. S \in SUBSET Frame /\ IsFiniteSet(S)
  BY <1>1, FS_AddElement DEF CacheOK
<1>4. PICK m \in S : \A g \in S : g.id <= m.id
  <2>1. CASE cache = {}
    BY <1>1, <2>1 DEF Frame
  <2>2. CASE cache # {}
    <3>1. PICK f \in cache : \A g \in cache : g.id <= f.id
      BY <2>2 DEF CacheOK
    <3>2. f.id \in Nat /\ frame.id \in Nat /\ \A g \in cache : g.id \in Nat
      BY <1>1, <3>1 DEF Frame
    <3>3. CASE f.id <= frame.id
      BY <3>1, <3>2, <3>3
    <3>4. CASE frame.id <= f.id
      BY <3>1, <3>2, <3>4
    <3> QED
      BY <3>2, <3>3, <3>4
  <2> QED
    BY <2>1, <2>2
<1>5. cache' \in Kept(S) /\ added' = added \cup {frame}
  BY DEF AddToCache
<1>6. /\ cache' \subseteq S /\ IsFiniteSet(cache') /\ Cardinality(cache') <= CacheSize
      /\ \E f \in cache' : m.id <= f.id
      /\ \A g \in S \ cache' : Cardinality(cache') = CacheSize /\ \A f \in cache' : g.id <= f.id
  BY <1>3, <1>4, <1>5, KeptKeepsNewest
<1>7. \E f \in cache' : \A g \in S : g.id <= f.id
  <2>1. PICK f \in cache' : m.id <= f.id
    BY <1>6
  <2>2. f \in Frame /\ m \in Frame /\ \A g \in S : g \in Frame
    BY <1>3, <1>4, <1>6, <2>1
  <2> QED
    BY <1>4, <2>1, <2>2 DEF Frame
<1> QED
  BY <1>1, <1>2, <1>5, <1>6, <1>7

\* What HandleEvents does before its event loop, and the rest of what a request does.
StepOf(c) ==
    \/ Connect(c) \/ DelFrameCache(c) \/ Extrude(c) \/ ReadMax(c) \/ NewDevice(c)
    \/ AddLocal(c) \/ GetCachedFrames(c) \/ EnterLoop(c)
    \/ NextFrameId(c) \/ AddToCache(c) \/ Write(c) \/ Leave(c) \/ DelLocal(c)

\* Only a session in its loop is given an id, and only accepting the frame ends that.
LEMMA InFlight ==
    ASSUME FrameInv, [Next]_vars, NEW c \in Conns
    PROVE  /\ pc'[c] = "cacheTx" => pc[c] = "cacheTx" \/ NextFrameId(c)
           /\ pc[c] = "cacheTx" => pc'[c] = "cacheTx" \/ AddToCache(c)
           /\ AddToCache(c) => pc'[c] = "write"
<1> USE DEF FrameInv, TypeOK, Goto
<1>1. ASSUME NEW e \in Conns, StepOf(e), ~Extrude(e), ~Write(e), e # c
      PROVE  pc'[c] = pc[c]
  BY <1>1 DEF StepOf, Connect, DelFrameCache, ReadMax, NewDevice, AddLocal, GetCachedFrames,
     EnterLoop, NextFrameId, AddToCache, Leave, DelLocal
<1>2. ASSUME NEW e \in Conns, Extrude(e)
      PROVE  pc'[c] = pc[c] \/ (pc[c] \in {"loop", "extrude"} /\ pc'[c] \in {"delLocal", "readMax"})
  BY <1>2 DEF Extrude
<1>3. ASSUME NEW e \in Conns, Write(e)
      PROVE  pc'[c] = pc[c] \/ (pc[c] = "write" /\ pc'[c] = "loop")
  BY <1>3 DEF Write, AfterFrame
<1>4. ASSUME StepOf(c), ~Extrude(c), ~Write(c)
      PROVE  /\ pc'[c] = "cacheTx" <=> NextFrameId(c)
             /\ pc[c] = "cacheTx" <=> AddToCache(c)
             /\ AddToCache(c) => pc'[c] = "write"
  BY <1>4 DEF StepOf, Connect, DelFrameCache, ReadMax, NewDevice, AddLocal, GetCachedFrames,
     EnterLoop, NextFrameId, AddToCache, Leave, DelLocal
<1>5. CASE Break \/ KeyExpires \/ UNCHANGED vars
  BY <1>5 DEF Break, KeyExpires, vars, AddToCache
<1> QED
  BY <1>1, <1>2, <1>3, <1>4, <1>5 DEF Next, StepOf, AddToCache

\* Every step keeps the types, the client's own among them.
LEMMA NextTypeOK == FrameInv /\ [Next]_vars => TypeOK'
<1> SUFFICES ASSUME FrameInv, [Next]_vars PROVE TypeOK'
  OBVIOUS
<1> USE FrameAssumption DEF FrameAssumption, FrameInv, TypeOK, Goto, redisVars, brokerVars,
        client, Steps, SetUp, Serving, InLoop
<1>1. ASSUME NEW c \in Conns, Connect(c) PROVE TypeOK'
  BY <1>1 DEF Connect
<1>2. ASSUME NEW c \in Conns, DelFrameCache(c) PROVE TypeOK'
  BY <1>2 DEF DelFrameCache
<1>3. ASSUME NEW c \in Conns, Extrude(c) PROVE TypeOK'
  <2>1. /\ pc' \in [Conns -> Steps]
        /\ \A e \in Conns : pc[e] \notin {"idle", "done"} => pc'[e] \notin {"idle", "done"}
    BY <1>3 DEF Extrude
  <2>2. UNCHANGED <<redisVars, brokerVars, num, out, client, sent, added>>
    BY <1>3 DEF Extrude
  <2> QED
    BY <2>1, <2>2
<1>4. ASSUME NEW c \in Conns, ReadMax(c) PROVE TypeOK'
  BY <1>4, MaxIsHighest DEF ReadMax
<1>5. ASSUME NEW c \in Conns, NewDevice(c) PROVE TypeOK'
  BY <1>5 DEF NewDevice
<1>6. ASSUME NEW c \in Conns, AddLocal(c) \/ EnterLoop(c) \/ Leave(c) PROVE TypeOK'
  BY <1>6 DEF AddLocal, EnterLoop, Leave
<1>7. ASSUME NEW c \in Conns, GetCachedFrames(c) PROVE TypeOK'
  BY <1>7 DEF GetCachedFrames, Replayed, LastEventId
<1>8. ASSUME NEW c \in Conns, NextFrameId(c) PROVE TypeOK'
  BY <1>8 DEF NextFrameId
<1>9. ASSUME NEW c \in Conns, AddToCache(c) PROVE TypeOK'
  <2> DEFINE frame == [id |-> num[c], seq |-> sent + 1]
  <2>1. frame \in Frame /\ cache' \subseteq Frame /\ added' \subseteq Frame
    BY <1>9, AddEffect
  <2>2. sent' \in 0 .. MaxFrames
    <3>1. Cardinality({e \in Conns : pc[e] = "cacheTx"}) \in Nat \ {0}
      <4>1. IsFiniteSet({e \in Conns : pc[e] = "cacheTx"})
        BY FS_Subset
      <4>2. c \in {e \in Conns : pc[e] = "cacheTx"}
        BY <1>9 DEF AddToCache
      <4> QED
        BY <4>1, <4>2, FS_CardinalityType, FS_EmptySet
    <3> QED
      BY <1>9, <3>1 DEF AddToCache, CacheOK
  <2>3. /\ out' \in [Conns -> SUBSET Frame] /\ pc' \in [Conns -> Steps]
        /\ UNCHANGED <<key, brokerVars, num, client>>
        /\ \A e \in Conns : pc[e] \notin {"idle", "done"} => pc'[e] \notin {"idle", "done"}
    BY <1>9, <2>1 DEF AddToCache
  <2> QED
    BY <2>1, <2>2, <2>3
<1>10. ASSUME NEW c \in Conns, Write(c) PROVE TypeOK'
  <2>1. PICK f \in out[c] : /\ out' = [out EXCEPT ![c] = @ \ {f}]
                            /\ IF current = c
                                 THEN lastId' = f.id /\ lastSeq' = f.seq
                                 ELSE UNCHANGED <<lastId, lastSeq>>
    BY <1>10 DEF Write
  <2>2. lastId' \in Nat /\ lastSeq' \in Nat
    BY <2>1 DEF Frame
  <2>3. /\ pc' \in [Conns -> Steps]
        /\ \A e \in Conns : pc[e] \notin {"idle", "done"} => pc'[e] \notin {"idle", "done"}
        /\ UNCHANGED <<redisVars, brokerVars, num, current, sent, added>>
    BY <1>10 DEF Write, AfterFrame
  <2> QED
    BY <2>1, <2>2, <2>3
<1>11. ASSUME NEW c \in Conns, DelLocal(c) PROVE TypeOK'
  BY <1>11 DEF DelLocal
<1>12. CASE Break \/ KeyExpires \/ UNCHANGED vars
  BY <1>12 DEF Break, KeyExpires, vars, NoKey
<1> QED
  BY <1>1, <1>2, <1>3, <1>4, <1>5, <1>6, <1>7, <1>8, <1>9, <1>10, <1>11, <1>12 DEF Next

\* Only accepting a frame and deleting the cache change what is cached.
LEMMA CacheEffect ==
    ASSUME [Next]_vars
    PROVE  \/ \E c \in Conns : AddToCache(c)
           \/ cache' = {} /\ added' = {} /\ UNCHANGED sent
           \/ UNCHANGED <<cache, added, sent>>
<1> USE DEF redisVars
<1>1. ASSUME NEW c \in Conns, StepOf(c)
      PROVE  \/ AddToCache(c)
             \/ cache' = {} /\ added' = {} /\ UNCHANGED sent
             \/ UNCHANGED <<cache, added, sent>>
  BY <1>1 DEF StepOf, Connect, DelFrameCache, Extrude, ReadMax, NewDevice, AddLocal,
     GetCachedFrames, EnterLoop, NextFrameId, Write, Leave, DelLocal
<1>2. CASE Break \/ KeyExpires \/ UNCHANGED vars
  BY <1>2 DEF Break, KeyExpires, vars
<1> QED
  BY <1>1, <1>2 DEF Next, StepOf

\* Of one element more, or one less, the number is one more, or one less, at most.
LEMMA OneMore ==
    ASSUME NEW S, IsFiniteSet(S), NEW x, NEW T, T \subseteq S \cup {x}
    PROVE  Cardinality(T) <= Cardinality(S) + 1
<1>1. Cardinality(S) \in Nat
  BY FS_CardinalityType
<1>2. /\ IsFiniteSet(S \cup {x})
      /\ Cardinality(S \cup {x}) \in {Cardinality(S), Cardinality(S) + 1}
  BY FS_AddElement
<1>3. Cardinality(T) <= Cardinality(S \cup {x}) /\ IsFiniteSet(T)
  BY <1>2, FS_Subset
<1>4. Cardinality(T) \in Nat
  BY <1>3, FS_CardinalityType
<1> QED
  BY <1>1, <1>2, <1>3, <1>4

\* A set without one of its elements, or with even less of them, is smaller.
LEMMA OneLess ==
    ASSUME NEW S, IsFiniteSet(S), NEW x \in S, NEW T, T \subseteq S \ {x}
    PROVE  Cardinality(T) <= Cardinality(S) - 1
<1>1. IsFiniteSet(S \ {x}) /\ Cardinality(S \ {x}) = Cardinality(S) - 1
  BY FS_RemoveElement
<1>2. Cardinality(T) <= Cardinality(S \ {x})
  BY <1>1, FS_Subset
<1> QED
  BY <1>1, <1>2

\* The frames in flight stay within the bound.
LEMMA NextBound ==
    ASSUME FrameInv, [Next]_vars
    PROVE  sent' + Cardinality({e \in Conns : pc'[e] = "cacheTx"}) <= MaxFrames
<1> DEFINE F == {e \in Conns : pc[e] = "cacheTx"}
           G == {e \in Conns : pc'[e] = "cacheTx"}
<1> USE DEF FrameInv, TypeOK
<1>1. /\ IsFiniteSet(F) /\ IsFiniteSet(G)
      /\ Cardinality(F) \in Nat /\ Cardinality(G) \in Nat
      /\ sent + Cardinality(F) <= MaxFrames
      /\ sent \in Nat /\ MaxFrames \in Nat
  BY FS_Subset, FS_CardinalityType, FrameAssumption DEF FrameAssumption, CacheOK
<1>2. ASSUME NEW c \in Conns, AddToCache(c)
      PROVE  sent' + Cardinality(G) <= MaxFrames
  <2>1. c \in F /\ G \subseteq F \ {c}
    <3>1. \A e \in Conns \ {c} : pc'[e] = pc[e]
      BY <1>2 DEF AddToCache, Goto
    <3> QED
      BY <1>2, <3>1, InFlight DEF AddToCache
  <2>2. Cardinality(G) <= Cardinality(F) - 1
    <3> HIDE DEF F, G
    <3> QED
      BY <1>1, <2>1, OneLess
  <2>3. sent' = sent + 1
    BY <1>2 DEF AddToCache
  <2> HIDE DEF F, G
  <2> QED
    BY <1>1, <2>2, <2>3
<1>3. ASSUME NEW c \in Conns, NextFrameId(c)
      PROVE  sent' + Cardinality(G) <= MaxFrames
  <2>1. G \subseteq F \cup {c}
    BY <1>3 DEF NextFrameId, Goto
  <2>2. Cardinality(G) <= Cardinality(F) + 1
    <3> HIDE DEF F, G
    <3> QED
      BY <1>1, <2>1, OneMore
  <2>3. sent' = sent /\ sent + Cardinality(F) < MaxFrames
    BY <1>3 DEF NextFrameId
  <2> HIDE DEF F, G
  <2> QED
    BY <1>1, <2>2, <2>3
<1>4. ASSUME \A c \in Conns : ~AddToCache(c) /\ ~NextFrameId(c)
      PROVE  sent' + Cardinality(G) <= MaxFrames
  <2>1. G \subseteq F
    BY <1>4, InFlight
  <2>2. Cardinality(G) <= Cardinality(F)
    BY <1>1, <2>1, FS_Subset
  <2>3. sent' = sent
    BY <1>4, CacheEffect
  <2> HIDE DEF F, G
  <2> QED
    BY <1>1, <2>2, <2>3
<1> QED
  BY <1>2, <1>3, <1>4

\* Hence the cache keeps its size, and what it lacks is older than what it holds.
LEMMA NextCache == FrameInv /\ [Next]_vars => CacheOK' /\ CacheHoldsNewest'
<1> SUFFICES ASSUME FrameInv, [Next]_vars PROVE CacheOK' /\ CacheHoldsNewest'
  OBVIOUS
<1>1. sent' + Cardinality({e \in Conns : pc'[e] = "cacheTx"}) <= MaxFrames
  BY NextBound
<1>2. CASE UNCHANGED <<cache, added, sent>>
  BY <1>1, <1>2 DEF FrameInv, CacheOK, CacheHoldsNewest
<1>3. CASE cache' = {} /\ added' = {} /\ UNCHANGED sent
  BY <1>1, <1>3, FS_EmptySet, FrameAssumption
  DEF FrameAssumption, CacheOK, CacheHoldsNewest
<1>4. ASSUME NEW c \in Conns, AddToCache(c) PROVE CacheOK' /\ CacheHoldsNewest'
  <2> DEFINE frame == [id |-> num[c], seq |-> sent + 1]
             S == cache \cup {frame}
  <2>1. /\ frame \in Frame /\ frame \notin added
        /\ added' = added \cup {frame} /\ cache' \subseteq S
        /\ IsFiniteSet(cache') /\ Cardinality(cache') <= CacheSize
        /\ \A g \in S \ cache' : /\ Cardinality(cache') = CacheSize
                                 /\ \A f \in cache' : g.id <= f.id
        /\ \E f \in cache' : \A g \in S : g.id <= f.id
    BY <1>4, AddEffect
  <2>2. sent' = sent + 1 /\ sent \in Nat
    BY <1>4 DEF AddToCache, FrameInv, TypeOK
  <2>3. \A f \in added' : f.seq <= sent'
    BY <2>1, <2>2 DEF FrameInv, CacheOK, TypeOK, Frame
  <2>4. CacheOK'
    BY <1>1, <2>1, <2>3 DEF CacheOK
  <2>5. \A f \in added \ cache : f.id \in Nat /\ \A g \in cache : f.id <= g.id /\ g.id \in Nat
    BY DEF FrameInv, CacheHoldsNewest, TypeOK, Frame
  <2>6. ASSUME NEW f \in added' \ cache'
        PROVE  Cardinality(cache') = CacheSize /\ \A g \in cache' : f.id <= g.id
    <3>1. CASE f \in S
      BY <2>1, <2>6, <3>1
    <3>2. CASE f \notin S
      <4>1. f \in added \ cache /\ Cardinality(cache) = CacheSize
        BY <2>1, <2>6, <3>2 DEF FrameInv, CacheHoldsNewest
      <4>2. frame \notin cache
        BY <2>1 DEF FrameInv, CacheHoldsNewest
      <4>3. Cardinality(S) = Cardinality(cache) + 1 /\ Cardinality(cache) \in Nat
        BY <4>2, FS_AddElement, FS_CardinalityType DEF FrameInv, CacheOK
      <4>4. PICK x \in S : x \notin cache'
        <5> SUFFICES cache' # S
          BY <2>1
        <5> HIDE DEF S
        <5> QED
          BY <2>1, <4>1, <4>3, FrameAssumption DEF FrameAssumption
      <4>5. Cardinality(cache') = CacheSize /\ \A g \in cache' : x.id <= g.id
        BY <2>1, <4>4
      <4>6. ASSUME NEW g \in cache' PROVE f.id <= g.id
        <5>1. CASE g \in cache
          BY <2>5, <4>1, <5>1
        <5>2. CASE g \notin cache
          <6>1. g = frame /\ x \in cache
            BY <2>1, <4>4, <4>6, <5>2
          <6>2. f.id <= x.id /\ x.id <= g.id /\ f.id \in Nat /\ x.id \in Nat /\ g.id \in Nat
            BY <2>1, <2>5, <4>1, <4>5, <4>6, <6>1 DEF Frame
          <6> QED
            BY <6>2
        <5> QED
          BY <5>1, <5>2
      <4> QED
        BY <4>5, <4>6
    <3> QED
      BY <3>1, <3>2
  <2>7. cache' \subseteq added'
    BY <2>1 DEF FrameInv, CacheHoldsNewest
  <2> QED
    BY <2>1, <2>4, <2>6, <2>7 DEF CacheHoldsNewest
<1> QED
  BY <1>2, <1>3, <1>4, CacheEffect

\* The client waits for the session that is set up, which then finds its key.
LEMMA NextSessions == FrameInv /\ [Next]_vars => SessionsOK'
<1> SUFFICES ASSUME FrameInv, [Next]_vars PROVE SessionsOK'
  OBVIOUS
<1> USE FrameAssumption DEF FrameAssumption, FrameInv, TypeOK, SessionsOK, Goto, redisVars,
        brokerVars, client, SetUp, Serving, InLoop
<1>1. ASSUME NEW c \in Conns, Connect(c) \/ DelFrameCache(c) \/ ReadMax(c) PROVE SessionsOK'
  BY <1>1 DEF Connect, DelFrameCache, ReadMax
<1>2. ASSUME NEW c \in Conns, Extrude(c) PROVE SessionsOK'
  <2>1. \A e \in Conns : \/ pc'[e] = pc[e]
                         \/ pc[e] = "extrude" /\ pc'[e] = "readMax"
                         \/ pc[e] = "loop" /\ pc'[e] = "delLocal"
    BY <1>2 DEF Extrude
  <2>2. UNCHANGED <<redisVars, brokerVars, num, out, client, sent, added>>
    BY <1>2 DEF Extrude
  <2> QED
    BY <2>1, <2>2
<1>3. ASSUME NEW c \in Conns, NewDevice(c) PROVE SessionsOK'
  BY <1>3 DEF NewDevice, NoKey
<1>4. ASSUME NEW c \in Conns, AddLocal(c) \/ EnterLoop(c) \/ Leave(c) PROVE SessionsOK'
  BY <1>4 DEF AddLocal, EnterLoop, Leave
<1>5. ASSUME NEW c \in Conns, GetCachedFrames(c) PROVE SessionsOK'
  BY <1>5 DEF GetCachedFrames, Replayed, LastEventId
<1>6. ASSUME NEW c \in Conns, NextFrameId(c) PROVE SessionsOK'
  <2>1. key # NoKey /\ key' = [key EXCEPT !.last = @ + 1] /\ key.last \in Nat
    BY <1>6 DEF NextFrameId
  <2>2. key'.last # 0
    BY <2>1
  <2>3. key' # NoKey
    BY <2>2 DEF NoKey
  <2>4. /\ pc[c] = "loop" /\ pc' = [pc EXCEPT ![c] = "cacheTx"]
        /\ UNCHANGED <<devices, current, out, sent>>
        /\ num' = [num EXCEPT ![c] = key.last + 1]
    BY <1>6 DEF NextFrameId
  <2>5. \A b \in Conns : pc[b] = "write" => pc'[b] = "write" /\ num'[b] = num[b]
    BY <2>4
  <2> HIDE DEF TypeOK
  <2> QED
    BY <2>3, <2>4, <2>5 DEF TypeOK
<1>7. ASSUME NEW c \in Conns, AddToCache(c) PROVE SessionsOK'
  <2> DEFINE frame == [id |-> num[c], seq |-> sent + 1]
  <2>1. frame \in Frame
    BY <1>7, AddEffect
  <2>2. /\ sent' = sent + 1 /\ pc[c] = "cacheTx"
        /\ out' = [out EXCEPT ![c] = {frame}] /\ pc' = [pc EXCEPT ![c] = "write"]
        /\ UNCHANGED <<key, brokerVars, num, client>>
    BY <1>7 DEF AddToCache
  <2>3. frame.seq <= sent' /\ frame.id = num'[c]
    BY <2>2
  <2>4. out'[c] = {frame} /\ pc'[c] = "write"
    BY <2>2
  <2>5. ASSUME NEW e \in Conns \ {c}
        PROVE  IF pc'[e] = "write"
                 THEN \E f \in Frame : /\ out'[e] = {f}
                                       /\ f.id = num'[e] /\ f.seq <= sent'
                 ELSE out'[e] = {}
    BY <2>2 DEF Frame
  <2> HIDE DEF frame
  <2>6. \A e \in Conns :
          IF pc'[e] = "write"
            THEN \E f \in Frame : /\ out'[e] = {f}
                                  /\ f.id = num'[e] /\ f.seq <= sent'
            ELSE out'[e] = {}
    BY <2>1, <2>3, <2>4, <2>5
  <2> QED
    BY <2>2, <2>6
<1>8. ASSUME NEW c \in Conns, Write(c) PROVE SessionsOK'
  <2>1. PICK f \in Frame : pc[c] = "write" /\ out[c] = {f}
    BY <1>8 DEF Write
  <2>2. pc' = [pc EXCEPT ![c] = "loop"] /\ out' = [out EXCEPT ![c] = {}]
    BY <1>8, <2>1 DEF Write, AfterFrame
  <2>3. UNCHANGED <<redisVars, brokerVars, num, current, sent, added>>
    BY <1>8 DEF Write
  <2> QED
    BY <2>1, <2>2, <2>3
<1>9. ASSUME NEW c \in Conns, DelLocal(c) PROVE SessionsOK'
  BY <1>9 DEF DelLocal
<1>10. CASE Break \/ KeyExpires \/ UNCHANGED vars
  BY <1>10 DEF Break, KeyExpires, vars
<1> QED
  BY <1>1, <1>2, <1>3, <1>4, <1>5, <1>6, <1>7, <1>8, <1>9, <1>10 DEF Next

\* What the client's session gives it next is newer than what the client has: the cache
\* is the witness across sessions, the counter within one.
LEMMA NextClient == FrameInv /\ [Next]_vars => ClientOK'
<1> SUFFICES ASSUME FrameInv, [Next]_vars PROVE ClientOK'
  OBVIOUS
<1> USE FrameAssumption DEF FrameAssumption, FrameInv, TypeOK, ClientOK, Goto, redisVars,
        brokerVars, client, SetUp, Serving, InLoop, InStep, Remembered
<1>1. ASSUME NEW c \in Conns, Connect(c) PROVE ClientOK'
  <2>1. /\ current' = c /\ pc'[c] \in {"readMax", "delCache", "extrude"}
        /\ UNCHANGED <<redisVars, brokerVars, num, out, lastId, lastSeq, sent, added>>
    BY <1>1 DEF Connect
  <2> QED
    BY <2>1
<1>2. ASSUME NEW c \in Conns, DelFrameCache(c) PROVE ClientOK'
  <2>1. current = c
    BY <1>2 DEF DelFrameCache, SessionsOK
  <2> QED
    BY <1>2, <2>1 DEF DelFrameCache
<1>3. ASSUME NEW c \in Conns, Extrude(c) PROVE ClientOK'
  <2>1. \A e \in Conns : \/ pc'[e] = pc[e]
                         \/ pc'[e] \in {"readMax", "delLocal"}
    BY <1>3 DEF Extrude
  <2>2. UNCHANGED <<redisVars, brokerVars, num, out, client, sent, added>>
    BY <1>3 DEF Extrude
  <2> QED
    BY <2>1, <2>2
<1>4. ASSUME NEW c \in Conns, ReadMax(c) PROVE ClientOK'
  <2>1. Remembered => lastId <= MaxScore
    BY MaxIsHighest DEF Frame
  <2>2. num' = [num EXCEPT ![c] = MaxScore] /\ pc' = [pc EXCEPT ![c] = "newDevice"]
        /\ UNCHANGED <<redisVars, brokerVars, out, client, sent, added>>
    BY <1>4 DEF ReadMax
  <2> QED
    BY <2>1, <2>2
<1>5. ASSUME NEW c \in Conns, NewDevice(c) PROVE ClientOK'
  <2>1. current = c /\ (Remembered => lastId <= num[c])
    BY <1>5 DEF NewDevice, SessionsOK
  <2>2. key'.last = num[c] /\ pc'[c] = "addLocal"
        /\ UNCHANGED <<cache, brokerVars, num, out, client, sent, added>>
    BY <1>5 DEF NewDevice
  <2> QED
    BY <2>1, <2>2
<1>6. ASSUME NEW c \in Conns, AddLocal(c) \/ EnterLoop(c) \/ Leave(c) PROVE ClientOK'
  BY <1>6 DEF AddLocal, EnterLoop, Leave
<1>7. ASSUME NEW c \in Conns, GetCachedFrames(c) PROVE ClientOK'
  BY <1>7 DEF GetCachedFrames
<1>8. ASSUME NEW c \in Conns, NextFrameId(c) PROVE ClientOK'
  <2>1. /\ pc[c] = "loop" /\ pc' = [pc EXCEPT ![c] = "cacheTx"]
        /\ num' = [num EXCEPT ![c] = key.last + 1]
        /\ UNCHANGED <<cache, brokerVars, out, client, sent, added>>
    BY <1>8 DEF NextFrameId
  <2>2. key'.last = key.last + 1 /\ key.last \in Nat
    BY <1>8 DEF NextFrameId
  <2> QED
    BY <2>1, <2>2
<1>9. ASSUME NEW c \in Conns, AddToCache(c) PROVE ClientOK'
  <2> DEFINE frame == [id |-> num[c], seq |-> sent + 1]
  <2>1. /\ cache \subseteq Frame /\ cache' \subseteq cache \cup {frame} /\ frame \in Frame
        /\ \E f \in cache' : \A g \in cache \cup {frame} : g.id <= f.id
    BY <1>9, AddEffect
  <2>2. PICK f \in cache' : f \in Frame /\ num[c] <= f.id /\ \A g \in cache : g.id <= f.id
    BY <2>1
  <2>3. \A k \in Nat : (\E g \in cache : k <= g.id) => \E g \in cache' : k <= g.id
    BY <2>1, <2>2 DEF Frame
  <2>4. /\ sent' = sent + 1 /\ pc[c] = "cacheTx"
        /\ out' = [out EXCEPT ![c] = {frame}] /\ pc' = [pc EXCEPT ![c] = "write"]
        /\ UNCHANGED <<key, brokerVars, num, client>>
    BY <1>9 DEF AddToCache
  <2>5. out'[c] = {frame} /\ pc'[c] = "write" /\ frame.seq = sent + 1
    BY <2>4
  <2>6. Remembered' => Remembered
    <3>1. added' = added \cup {frame} /\ frame.seq = sent + 1 /\ lastSeq' = lastSeq
      BY <1>9 DEF AddToCache
    <3> QED
      BY <3>1
  <2> HIDE DEF Remembered
  <2>7. lastSeq' <= sent' /\ (Remembered' => \E g \in cache' : lastId' <= g.id)
    BY <2>3, <2>4, <2>6
  <2>8. current' = c =>
          /\ Remembered' => lastId' <= key'.last /\ lastId' < num'[c]
          /\ num'[c] <= key'.last
          /\ \A g \in out'[c] : lastSeq' < g.seq
          /\ \E g \in cache' : num'[c] <= g.id
    BY <2>2, <2>4, <2>5, <2>6
  <2>9. ASSUME NEW e \in Conns \ {c}, current' = e
        PROVE  InStep(e)'
    BY <2>3, <2>4, <2>9, <2>6
  <2> QED
    BY <2>5, <2>7, <2>8, <2>9
<1>10. ASSUME NEW c \in Conns, Write(c) PROVE ClientOK'
  <2>1. PICK f \in Frame : /\ pc[c] = "write" /\ out[c] = {f}
                           /\ f.id = num[c] /\ f.seq <= sent
    BY <1>10 DEF Write, SessionsOK
  <2>2. /\ pc' = [pc EXCEPT ![c] = "loop"] /\ out' = [out EXCEPT ![c] = {}]
        /\ UNCHANGED <<redisVars, brokerVars, num, current, sent, added>>
        /\ IF current = c THEN lastId' = f.id /\ lastSeq' = f.seq
                          ELSE UNCHANGED <<lastId, lastSeq>>
    BY <1>10, <2>1 DEF Write, AfterFrame
  <2>3. CASE current = c
    BY <2>1, <2>2, <2>3
  <2>4. CASE current # c
    BY <2>2, <2>4
  <2> QED
    BY <2>3, <2>4
<1>11. ASSUME NEW c \in Conns, DelLocal(c) PROVE ClientOK'
  BY <1>11 DEF DelLocal
<1>12. CASE Break \/ KeyExpires \/ UNCHANGED vars
  BY <1>12 DEF Break, KeyExpires, vars
<1> QED
  BY <1>1, <1>2, <1>3, <1>4, <1>5, <1>6, <1>7, <1>8, <1>9, <1>10, <1>11, <1>12 DEF Next

\* The invariant is inductive.
THEOREM FrameInvariant == Spec => []FrameInv
<1>1. FrameInv /\ [Next]_vars => FrameInv'
  BY NextTypeOK, NextCache, NextSessions, NextClient DEF FrameInv
<1> QED
  BY InitFrames, <1>1, PTL DEF Spec

\* Every variable keeps its type.
THEOREM FrameTypes == Spec => []TypeOK
BY FrameInvariant, PTL DEF FrameInv

\* The cache holds the newest frames up to its size, whatever sessions add at once and
\* whatever ids they give (addFrame, delFrameCache).
THEOREM CacheIsNewest == Spec => []CacheHoldsNewest
BY FrameInvariant, PTL DEF FrameInv

\* What a write to the client's response gives it.
LEMMA WriteGives ==
    ASSUME FrameInv, NEW c \in Conns, Write(c), current = c
    PROVE  \E f \in Frame : /\ out[c] = {f} /\ lastId' = f.id /\ lastSeq' = f.seq
                            /\ (Remembered => lastId < f.id)
                            /\ lastSeq < f.seq /\ f.seq <= sent
<1>1. PICK f \in Frame : /\ pc[c] = "write" /\ out[c] = {f}
                         /\ f.id = num[c] /\ f.seq <= sent
  BY DEF Write, FrameInv, SessionsOK
<1>2. lastId' = f.id /\ lastSeq' = f.seq
  BY <1>1 DEF Write
<1> QED
  BY <1>1, <1>2 DEF FrameInv, ClientOK, InStep

\* As long as the cache is not deleted a client is never given an id that is not greater
\* than the one before, on whichever broker and as whichever user it connects again
\* (NewDevice, addFrame).
THEOREM IdsAlwaysIncrease == Spec => IdsIncrease
<1>1. FrameInv /\ [Next]_vars =>
        [\A c \in Conns : Write(c) /\ current = c /\ Remembered => lastId' > lastId]_vars
  BY WriteGives DEF FrameInv, TypeOK, Frame
<1> QED
  BY FrameInvariant, <1>1, PTL DEF Spec, IdsIncrease

\* FrameCache implements FrameLog for a client that may miss frames: accepting a frame is
\* Accept, a write to the client is Receive, and all else leaves the log alone.
THEOREM ImplementsLog == Spec => AtMostOnceInOrder
<1>1. Init => Delivered!Init
  BY DEF Init, Delivered!Init
<1>2. FrameInv /\ [Next]_vars => [Delivered!Next]_<<sent, lastSeq>>
  <2> SUFFICES ASSUME FrameInv, [Next]_vars
               PROVE  Delivered!Next \/ UNCHANGED <<sent, lastSeq>>
    OBVIOUS
  <2> USE DEF redisVars, client
  <2>1. ASSUME NEW c \in Conns, AddToCache(c) PROVE Delivered!Accept
    BY <2>1 DEF AddToCache, Delivered!Accept
  <2>2. ASSUME NEW c \in Conns, Write(c), current = c PROVE Delivered!Receive
    <3>1. sent' = sent
      BY <2>2 DEF Write
    <3>2. lastSeq' \in lastSeq + 1 .. sent
      BY <2>2, WriteGives DEF FrameInv, TypeOK, Frame
    <3> QED
      BY <3>1, <3>2 DEF Delivered!Receive, Delivered!MaySkip
  <2>3. ASSUME NEW c \in Conns, StepOf(c), ~AddToCache(c), ~(Write(c) /\ current = c)
        PROVE  UNCHANGED <<sent, lastSeq>>
    BY <2>3 DEF StepOf, Connect, DelFrameCache, Extrude, ReadMax, NewDevice, AddLocal,
       GetCachedFrames, EnterLoop, NextFrameId, Write, Leave, DelLocal
  <2>4. CASE Break \/ KeyExpires \/ UNCHANGED vars
    BY <2>4 DEF Break, KeyExpires, vars
  <2> QED
    BY <2>1, <2>2, <2>3, <2>4 DEF Next, StepOf, Delivered!Next
<1> QED
  BY <1>1, <1>2, FrameInvariant, PTL DEF Spec, AtMostOnceInOrder, Delivered!Spec

=============================================================================
