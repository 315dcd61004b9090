--------------------------- MODULE SendRoutingProofs ---------------------------
(***************************************************************************)
(* Proofs about SendRouting within ApiRequests, for any number of sessions, *)
(* devices and brokers: where a POST /send goes, and whom it reaches.      *)
(***************************************************************************)
EXTENDS ClusterInfoProofs, FunctionTheorems, SequenceTheorems

\* What the goroutines of splitDeviceWithInstanceAddress work with.
Pairs == [id : Devices, address : Instances \cup {None}]
Slices == [array : Nat, len : Int]
Goroutines == [at : {"get", "load", "append", "store", "done"}, ids : Seq(Devices),
               todo : Seq(Pairs), val : Slices]
Element == Devices \cup {None}

\* A slice lies within its array, or is empty and has none.
InArray(arrays, s) ==
    IF s.array = NoArray THEN s.len \in {-1, 0}
      ELSE s.array <= Len(arrays) /\ s.len \in 1 .. Len(arrays[s.array])

Within(s) == InArray(array, s)

\* The goroutine has loaded a list, whose broker is Target.
Loaded(b) == batch[b].at \in {"append", "store"}
Target(b) == Head(batch[b].todo).address

\* A goroutine's place and what it has left to do.
GoroutineOK(b) ==
    /\ Len(batch[b].ids) <= BatchSize
    /\ IF batch[b].at = "get" THEN batch[b].ids # <<>> ELSE batch[b].ids = <<>>
    /\ batch[b].at \in {"load", "append", "store"} <=> batch[b].todo # <<>>
    /\ Loaded(b) => Target(b) # None /\ Within(batch[b].val) /\ batch[b].val.len >= 0
    /\ batch[b].at = "store" => batch[b].val.array # NoArray

\* The variables of the request that are not those of its split have their types.
RequestOK ==
    /\ params \in Requests /\ at \in {"idle", "collect", "each", "wait", "replied"}
    /\ found \subseteq Devices /\ ids \in Seq(Devices) /\ remote \in Seq(Devices)
    /\ listed \in [Devices -> Nat]
    /\ named \in [Devices -> Seq(Instances \cup {None})] /\ given \in [Devices -> Seq(Instances)]
    /\ steady \subseteq Conns /\ failed \in BOOLEAN

\* The request reads brokers' sets or users' sets, its split runs at "wait" only, and
\* lists are slices of the arrays.
SplitOK ==
    /\ reading \subseteq IF SendAll THEN Instances ELSE Users
    /\ batch \in Seq(Goroutines) /\ array \in Seq(Seq(Element))
    /\ lists \in [Instances -> Slices] /\ \A i \in Instances : Within(lists[i])
    /\ sending \in [Instances -> Seq(Element)]
    /\ at \in {"idle", "collect", "each"} => batch = <<>>
    /\ \A b \in DOMAIN batch : GoroutineOK(b) /\ (at # "wait" => batch[b].at = "done")

\* The list of the broker, or a goroutine about to change that list, has the array.
Uses(i, a) ==
    \/ lists[i].array = a
    \/ \E b \in DOMAIN batch : Loaded(b) /\ Target(b) = i /\ batch[b].val.array = a

\* No two brokers' lists share an array.
Apart ==
    \A a \in 1 .. Len(array) : \A i, j \in Instances : Uses(i, a) /\ Uses(j, a) => i = j

\* How often an element is in several sequences together: its places, counted.
Places(f, x) == UNION {{b} \X {k \in DOMAIN f[b] : f[b][k] = x} : b \in DOMAIN f}
Total(f, x) == Cardinality(Places(f, x))

\* What goroutines have yet to look up, and the pairs they have yet to append.
Unread(gs) == [b \in DOMAIN gs |-> gs[b].ids]
Undone(gs) == [b \in DOMAIN gs |-> IF gs[b].at = "store" THEN Tail(gs[b].todo) ELSE gs[b].todo]

\* How often the broker has been given the device, or is still to have it appended.
Pair(d, i) == [id |-> d, address |-> i]
Owed(d, i) == Total(Undone(batch), Pair(d, i)) + Occurrences(i, given[d])

\* Each time the device is in the instructions or in an array of the broker, or on its way
\* there, it has been found there once.
Accounted(d, i) ==
    /\ Occurrences(d, sending[i]) + Occurrences(i, given[d]) <= Occurrences(i, named[d])
    /\ at # "replied" =>
         /\ sending[i] = <<>>
         /\ Owed(d, i) <= Occurrences(i, named[d])
         /\ \A a \in 1 .. Len(array) : Uses(i, a) =>
              Occurrences(d, array[a]) + Owed(d, i) <= Occurrences(i, named[d])

\* Each look-up of the device, made or still to be made, is for one of its places in deviceIds.
ListedOnce(d) ==
    /\ at \in {"idle", "collect"} => remote = <<>> /\ listed[d] = 0
    /\ Len(named[d]) + (IF at = "each" THEN Occurrences(d, ids) + Occurrences(d, remote)
                         ELSE Total(Unread(batch), d)) <= listed[d]

\* No address is taken for another device's, or twice.
FoundInv == Apart /\ \A d \in Devices : ListedOnce(d) /\ \A i \in Instances : Accounted(d, i)

\* What is steady can be found.
Steadily ==
    /\ at = "idle" => steady = {}
    /\ \A c \in steady : WithinReach(c)
    /\ at = "collect" /\ ~SendAll => params.names \subseteq found

\* A lone goroutine's slice is the list it loaded, and holds one id more when it is stored.
Lone ==
    \A b \in DOMAIN batch : Len(batch) = 1 =>
        /\ batch[b].at = "append" => batch[b].val = lists[Target(b)]
        /\ batch[b].at = "store" => ToSet(Elements(lists[Target(b)]))
                                      \cup {Head(batch[b].todo).id}
                                        \subseteq ToSet(Elements(batch[b].val))

\* While its request goes on, the device is in the hands of a goroutine.
InSplit(d, i) ==
    \/ \E b \in DOMAIN batch : \/ d \in ToSet(batch[b].ids)
                               \/ [id |-> d, address |-> i] \in ToSet(batch[b].todo)
    \/ d \in ToSet(Elements(lists[i]))

Track(d, i, u) ==
    CASE at = "collect" /\ SendAll  -> i \in reading \/ d \in ToSet(ids)
      [] at = "collect" /\ ~SendAll -> u \in reading \/ d \in found
      [] at = "each"    -> d \in ToSet(ids) \cup ToSet(remote) \/ i \in ToSet(given[d])
      [] at = "wait"    -> Len(batch) <= 1 => InSplit(d, i) \/ i \in ToSet(given[d])
      [] at = "replied" -> Len(batch) <= 1 => d \in ToSet(sending[i]) \/ i \in ToSet(given[d])

Tracked ==
    ~failed => \A c \in steady : Track(deviceOf[c], instanceOf[c], uidOf[c])

SteadyInv == Steadily /\ Lone /\ Tracked

\* The inductive invariant of the request.
SendInv == RequestOK /\ SplitOK /\ FoundInv /\ SteadyInv

------------------------------------------------------------------------------
(* Sequences.                                                               *)

\* The elements of a sequence without its first.
LEMMA TailElements ==
    ASSUME NEW S, NEW s \in Seq(S), s # <<>>
    PROVE  /\ Head(s) \in S /\ Tail(s) \in Seq(S) /\ Head(s) = s[1]
           /\ ToSet(s) = {Head(s)} \cup ToSet(Tail(s))
<1>1. /\ Len(s) \in Nat \ {0} /\ DOMAIN s = 1 .. Len(s) /\ Head(s) \in S
      /\ Tail(s) \in Seq(S) /\ Len(Tail(s)) = Len(s) - 1
      /\ \A i \in 1 .. Len(Tail(s)) : Tail(s)[i] = s[i + 1]
  BY HeadTailProperties, EmptySeq, LenProperties
<1>2. DOMAIN Tail(s) = 1 .. Len(s) - 1 /\ Head(s) = s[1]
  BY <1>1, LenProperties
<1>3. ToSet(s) \subseteq {Head(s)} \cup ToSet(Tail(s))
  <2> SUFFICES ASSUME NEW i \in 1 .. Len(s) PROVE s[i] \in {Head(s)} \cup ToSet(Tail(s))
    BY <1>1 DEF ToSet
  <2>1. CASE i = 1
    BY <1>2, <2>1
  <2>2. CASE i # 1
    <3>1. i - 1 \in 1 .. Len(s) - 1 /\ (i - 1) + 1 = i
      BY <1>1, <2>2
    <3> QED
      BY <1>1, <1>2, <3>1 DEF ToSet
  <2> QED
    BY <2>1, <2>2
<1>4. {Head(s)} \cup ToSet(Tail(s)) \subseteq ToSet(s)
  <2>1. \A i \in 1 .. Len(s) - 1 : Tail(s)[i] = s[i + 1] /\ i + 1 \in 1 .. Len(s)
    BY <1>1
  <2> QED
    BY <1>1, <1>2, <2>1 DEF ToSet
<1> QED
  BY <1>1, <1>2, <1>3, <1>4

\* The elements of two sequences, one after the other.
LEMMA ConcatElements ==
    ASSUME NEW S, NEW s \in Seq(S), NEW t \in Seq(S)
    PROVE  /\ s \o t \in Seq(S) /\ Len(s \o t) = Len(s) + Len(t)
           /\ ToSet(s \o t) = ToSet(s) \cup ToSet(t)
<1>1. /\ s \o t \in Seq(S) /\ Len(s \o t) = Len(s) + Len(t)
      /\ Len(s) \in Nat /\ DOMAIN s = 1 .. Len(s)
      /\ Len(t) \in Nat /\ DOMAIN t = 1 .. Len(t)
  BY ConcatProperties, LenProperties
<1>2. DOMAIN (s \o t) = 1 .. Len(s) + Len(t)
  BY <1>1, LenProperties
<1>3. \A i \in 1 .. Len(s) + Len(t) :
        (s \o t)[i] = IF i <= Len(s) THEN s[i] ELSE t[i - Len(s)]
  BY ConcatProperties
<1>4. ASSUME NEW i \in 1 .. Len(s) + Len(t) PROVE (s \o t)[i] \in ToSet(s) \cup ToSet(t)
  BY <1>1, <1>3 DEF ToSet
<1>5. ASSUME NEW i \in 1 .. Len(s) PROVE s[i] \in ToSet(s \o t)
  BY <1>1, <1>2, <1>3 DEF ToSet
<1>6. ASSUME NEW i \in 1 .. Len(t) PROVE t[i] \in ToSet(s \o t)
  <2>1. i + Len(s) \in 1 .. Len(s) + Len(t) /\ ~(i + Len(s) <= Len(s)) /\ (i + Len(s)) - Len(s) = i
    BY <1>1
  <2> QED
    BY <1>2, <1>3, <2>1 DEF ToSet
<1>7. ToSet(s \o t) \subseteq ToSet(s) \cup ToSet(t)
  BY <1>2, <1>4 DEF ToSet
<1>8. ToSet(s) \subseteq ToSet(s \o t) /\ ToSet(t) \subseteq ToSet(s \o t)
  BY <1>1, <1>5, <1>6 DEF ToSet
<1> QED
  BY <1>1, <1>7, <1>8

\* A sequence with one element more.
LEMMA AppendElements ==
    ASSUME NEW S, NEW s \in Seq(S), NEW x \in S
    PROVE  Append(s, x) \in Seq(S) /\ ToSet(Append(s, x)) = ToSet(s) \cup {x}
<1>1. <<x>> \in Seq(S) /\ Append(s, x) = s \o <<x>>
  BY AppendIsConcat
<1>2. ToSet(<<x>>) = {x}
  BY DEF ToSet
<1> DEFINE t == <<x>>
<1>3. t \in Seq(S)
  BY <1>1
<1> HIDE DEF t
<1>4. s \o t \in Seq(S) /\ ToSet(s \o t) = ToSet(s) \cup ToSet(t)
  BY <1>3, ConcatElements
<1> QED
  BY <1>1, <1>2, <1>4 DEF t

\* The elements of a sequence are of its type.
LEMMA ElementTypes ==
    ASSUME NEW S, NEW s \in Seq(S)
    PROVE  ToSet(s) \subseteq S
BY LenProperties DEF ToSet

\* A part of a sequence that begins within it.
LEMMA PartElements ==
    ASSUME NEW S, NEW s \in Seq(S), NEW i \in Nat, i <= Len(s)
    PROVE  /\ Part(s, i) \in Seq(S) /\ Len(Part(s, i)) <= BatchSize
           /\ Part(s, i) = <<>> => Len(s) = i
           /\ ToSet(Part(s, i)) \subseteq ToSet(s)
<1> DEFINE n == IF i + BatchSize > Len(s) THEN Len(s) ELSE i + BatchSize
           p == Part(s, i)
<1>1. /\ BatchSize \in Nat \ {0} /\ Len(s) \in Nat /\ DOMAIN s = 1 .. Len(s)
      /\ \A k \in 1 .. Len(s) : s[k] \in S
  BY SendAssumption, LenProperties DEF SendAssumption
<1>2. n \in Nat /\ i <= n /\ n <= Len(s) /\ n - i <= BatchSize /\ (n = i => Len(s) = i)
  <2> DEFINE l == Len(s)
  <2>1. l \in Nat /\ i <= l /\ BatchSize \in Nat /\ BatchSize # 0
    BY <1>1
  <2>2. n = IF i + BatchSize > l THEN l ELSE i + BatchSize
    OBVIOUS
  <2> HIDE DEF l, n
  <2>3. CASE i + BatchSize > l
    <3>1. n = l /\ l - i <= BatchSize
      BY <2>1, <2>2, <2>3
    <3> QED
      BY <2>1, <3>1 DEF l
  <2>4. CASE ~(i + BatchSize > l)
    <3>1. n = i + BatchSize
      BY <2>2, <2>4
    <3> QED
      BY <2>1, <2>4, <3>1 DEF l
  <2> QED
    BY <2>3, <2>4
<1>3. p = SubSeq(s, i + 1, n)
  BY DEF Part
<1> HIDE DEF n, p
<1>4. \A k \in (i + 1) .. n : s[k] \in S
  <2> TAKE k \in (i + 1) .. n
  <2> DEFINE l == Len(s)
  <2>3. l \in Nat /\ n \in Nat /\ n <= l
    BY <1>1, <1>2
  <2> HIDE DEF l
  <2>1. k \in 1 .. Len(s)
    <3>1. k \in 1 .. l
      BY <2>3
    <3> QED
      BY <3>1 DEF l
  <2>2. \A j \in 1 .. Len(s) : s[j] \in S
    BY <1>1
  <2> HIDE DEF n
  <2> QED
    BY <2>1, <2>2
<1>5. /\ p \in Seq(S) /\ Len(p) = IF i + 1 <= n THEN n - (i + 1) + 1 ELSE 0
      /\ \A k \in 1 .. n - (i + 1) + 1 : p[k] = s[i + 1 + k - 1]
  <2>1. i + 1 \in Int /\ n \in Int
    BY <1>2
  <2> QED
    BY <1>3, <1>4, <2>1, SubSeqProperties
<1>6. Len(p) = n - i /\ \A k \in 1 .. n - i : p[k] = s[i + k] /\ i + k \in 1 .. Len(s)
  BY <1>2, <1>5
<1>7. DOMAIN p = 1 .. n - i
  BY <1>5, <1>6, LenProperties
<1>8. p = <<>> => n = i
  BY <1>5, <1>6, <1>2, EmptySeq
<1>9. ToSet(p) \subseteq ToSet(s)
  BY <1>1, <1>6, <1>7 DEF ToSet
<1> QED
  BY <1>2, <1>5, <1>6, <1>8, <1>9 DEF p

\* The first part of a sequence, and what comes after it.
LEMMA FirstPart ==
    ASSUME NEW S, NEW s \in Seq(S)
    PROVE  /\ Part(s, 0) \in Seq(S) /\ After(s) \in Seq(S)
           /\ ToSet(s) = ToSet(Part(s, 0)) \cup ToSet(After(s))
           /\ Len(s) <= BatchSize => Part(s, 0) = s
           /\ s = Part(s, 0) \o After(s)
<1>1. BatchSize \in Nat \ {0} /\ Len(s) \in Nat
  BY SendAssumption, LenProperties DEF SendAssumption
<1>2. SubSeq(s, 1, Len(s)) = s
  BY SubSeqFull
<1>3. CASE Len(s) <= BatchSize
  <2>1. Part(s, 0) = s
    <3>1. 0 + BatchSize > Len(s) \/ 0 + BatchSize = Len(s)
      BY <1>1, <1>3
    <3>2. (IF 0 + BatchSize > Len(s) THEN Len(s) ELSE 0 + BatchSize) = Len(s) /\ 0 + 1 = 1
      BY <3>1
    <3> QED
      BY <1>2, <3>2 DEF Part
  <2>2. After(s) = <<>>
    BY <1>1, <1>3, SubSeqEmpty DEF After
  <2>3. ToSet(<<>>) = {} /\ s = s \o <<>>
    BY ConcatEmptySeq DEF ToSet
  <2> QED
    BY <2>1, <2>2, <2>3
<1>4. CASE Len(s) > BatchSize
  <2>1. Part(s, 0) = SubSeq(s, 1, BatchSize)
    BY <1>1, <1>4 DEF Part
  <2>2. SubSeq(s, 1, BatchSize) \o SubSeq(s, BatchSize + 1, Len(s)) = SubSeq(s, 1, Len(s))
    <3>1. /\ 1 \in 1 .. Len(s) + 1 /\ BatchSize \in 1 - 1 .. Len(s)
          /\ Len(s) \in BatchSize .. Len(s)
      BY <1>1, <1>4
    <3> QED
      BY <3>1, ConcatAdjacentSubSeq
  <2>3. SubSeq(s, 1, BatchSize) \in Seq(S) /\ SubSeq(s, BatchSize + 1, Len(s)) \in Seq(S)
    <3>1. \A k \in 1 .. BatchSize : s[k] \in S
      BY <1>1, <1>4, LenProperties
    <3>2. \A k \in BatchSize + 1 .. Len(s) : s[k] \in S
      BY <1>1, <1>4, LenProperties
    <3>3. /\ 1 \in Int /\ BatchSize \in Int /\ BatchSize + 1 \in Int /\ Len(s) \in Int
      BY <1>1
    <3>4. SubSeq(s, 1, BatchSize) \in Seq(S)
      BY <3>1, <3>3, SubSeqProperties
    <3>5. SubSeq(s, BatchSize + 1, Len(s)) \in Seq(S)
      BY <3>2, <3>3, SubSeqProperties
    <3> QED
      BY <3>4, <3>5
  <2> DEFINE a == SubSeq(s, 1, BatchSize)
             b == SubSeq(s, BatchSize + 1, Len(s))
  <2>4. a \in Seq(S) /\ b \in Seq(S) /\ a \o b = s
    BY <1>2, <2>2, <2>3
  <2> HIDE DEF a, b
  <2>5. ToSet(s) = ToSet(a) \cup ToSet(b)
    BY <2>4, ConcatElements
  <2>6. ~(Len(s) <= BatchSize)
    BY <1>1, <1>4
  <2>7. Part(s, 0) = a /\ After(s) = b
    BY <2>1 DEF After, a, b
  <2> QED
    BY <2>4, <2>5, <2>6, <2>7
<1>5. Len(s) <= BatchSize \/ Len(s) > BatchSize
  BY <1>1
<1> QED
  BY <1>3, <1>4, <1>5

\* A list of a set holds its elements.
LEMMA ListOfSet ==
    ASSUME NEW S, IsFiniteSet(S), NEW f \in SetToSeqs(S)
    PROVE  f \in Seq(S) /\ ToSet(f) = S
<1> DEFINE n == Cardinality(S)
<1>1. n \in Nat /\ IsFiniteSet(1 .. n) /\ Cardinality(1 .. n) = n
  BY FS_CardinalityType, FS_Interval
<1>2. f \in [1 .. n -> S] /\ \A i, j \in 1 .. n : i # j => f[i] # f[j]
  BY DEF SetToSeqs
<1>3. f \in Seq(S) /\ DOMAIN f = 1 .. n
  BY <1>1, <1>2
<1> HIDE DEF n
<1>4. f \in Injection(1 .. n, S)
  BY <1>2 DEF Injection, IsInjective
<1>5. f \in Surjection(1 .. n, S)
  BY <1>1, <1>4, FS_Injection DEF n
<1> QED
  BY <1>3, <1>5 DEF Surjection, ToSet

------------------------------------------------------------------------------
(* How often an element is in a sequence, or in several.                    *)

\* Where an element is in a sequence.
Where(d, s) == {k \in DOMAIN s : s[k] = d}

\* The numbers up to one.
LEMMA IntervalCount ==
    ASSUME NEW n \in Nat
    PROVE  IsFiniteSet(1 .. n) /\ Cardinality(1 .. n) = n
<1>1. IsFiniteSet(1 .. n) /\ Cardinality(1 .. n) = IF 1 > n THEN 0 ELSE n - 1 + 1
  BY FS_Interval
<1> QED
  BY <1>1

\* How often an element occurs is a number, not zero where it is an element.
LEMMA OccurrencesInNat ==
    ASSUME NEW S, NEW s \in Seq(S), NEW d
    PROVE  /\ IsFiniteSet(Where(d, s)) /\ Occurrences(d, s) = Cardinality(Where(d, s))
           /\ Where(d, s) \subseteq 1 .. Len(s)
           /\ Occurrences(d, s) \in Nat /\ Occurrences(d, s) <= Len(s)
           /\ Occurrences(d, s) = 0 <=> d \notin ToSet(s)
<1>1. /\ IsFiniteSet(1 .. Len(s)) /\ Cardinality(1 .. Len(s)) = Len(s)
      /\ DOMAIN s = 1 .. Len(s) /\ Len(s) \in Nat
  BY LenProperties, IntervalCount
<1>2. Where(d, s) \in SUBSET (1 .. Len(s))
  BY <1>1 DEF Where
<1>3. IsFiniteSet(Where(d, s)) /\ Cardinality(Where(d, s)) <= Len(s)
  BY <1>1, <1>2, FS_Subset
<1>4. Occurrences(d, s) = Cardinality(Where(d, s))
  BY DEF Occurrences, Where
<1>5. Cardinality(Where(d, s)) \in Nat /\ (Cardinality(Where(d, s)) = 0 <=> Where(d, s) = {})
  BY <1>3, FS_CardinalityType, FS_EmptySet
<1>6. Where(d, s) = {} <=> d \notin ToSet(s)
  BY DEF Where, ToSet
<1> QED
  BY <1>2, <1>3, <1>4, <1>5, <1>6

\* Nothing is in the empty sequence.
LEMMA OccurrencesInEmpty == ASSUME NEW d PROVE Occurrences(d, <<>>) = 0
<1>1. {k \in DOMAIN <<>> : <<>>[k] = d} = {}
  OBVIOUS
<1> QED
  BY <1>1, FS_EmptySet DEF Occurrences

\* The same element, several times.
LEMMA TimesTypes ==
    ASSUME NEW S, NEW x \in S, NEW n \in Nat
    PROVE  /\ Times(n, x) \in Seq(S) /\ Len(Times(n, x)) = n
           /\ ToSet(Times(n, x)) \subseteq {x}
<1> DEFINE t == Times(n, x)
<1>1. t \in [1 .. n -> S] /\ \A k \in 1 .. n : t[k] = x
  BY DEF Times
<1>2. t \in Seq(S) /\ DOMAIN t = 1 .. n /\ Len(t) = n
  BY <1>1
<1> HIDE DEF t
<1>3. ToSet(t) \subseteq {x}
  BY <1>1, <1>2 DEF ToSet
<1> QED
  BY <1>2, <1>3 DEF t

\* It occurs that often, and no other does.
LEMMA OccurrencesInTimes ==
    ASSUME NEW x, NEW n \in Nat, NEW d
    PROVE  Occurrences(d, Times(n, x)) = IF d = x THEN n ELSE 0
<1> DEFINE t == Times(n, x)
<1>1. t \in Seq({x}) /\ Len(t) = n /\ ToSet(t) \subseteq {x}
  BY TimesTypes
<1>2. \A k \in 1 .. n : t[k] = x
  BY DEF Times
<1> HIDE DEF t
<1>3. DOMAIN t = 1 .. n
  BY <1>1, LenProperties
<1>4. CASE d = x
  <2>1. Where(d, t) = 1 .. n
    BY <1>2, <1>3, <1>4 DEF Where
  <2>2. Occurrences(d, t) = n
    BY <1>1, <2>1, IntervalCount, OccurrencesInNat
  <2> QED
    BY <1>4, <2>2 DEF t
<1>5. CASE d # x
  BY <1>1, <1>5, OccurrencesInNat DEF t
<1> QED
  BY <1>4, <1>5

\* One sequence after the other.
LEMMA OccurrencesInConcat ==
    ASSUME NEW S, NEW s \in Seq(S), NEW t \in Seq(S), NEW d
    PROVE  Occurrences(d, s \o t) = Occurrences(d, s) + Occurrences(d, t)
<1> DEFINE l == Len(s)
           n == Len(t)
           u == s \o t
           A == Where(d, s)
           B == Where(d, t)
           f == [k \in B |-> l + k]
           C == {k \in l + 1 .. l + n : u[k] = d}
<1>1. /\ l \in Nat /\ n \in Nat /\ u \in Seq(S) /\ Len(u) = l + n
      /\ DOMAIN s = 1 .. l /\ DOMAIN t = 1 .. n /\ DOMAIN u = 1 .. l + n
      /\ \A k \in 1 .. l + n : u[k] = IF k <= l THEN s[k] ELSE t[k - l]
  BY ConcatProperties, LenProperties
<1>2. /\ IsFiniteSet(A) /\ IsFiniteSet(B)
      /\ Occurrences(d, s) = Cardinality(A) /\ Occurrences(d, t) = Cardinality(B)
      /\ Occurrences(d, u) = Cardinality(Where(d, u))
      /\ Cardinality(A) \in Nat /\ Cardinality(B) \in Nat
  BY <1>1, OccurrencesInNat, FS_CardinalityType
<1> HIDE DEF l, n, u
<1>3. \A k \in 1 .. l : k \in 1 .. l + n /\ k <= l /\ k \notin l + 1 .. l + n
  BY <1>1
<1>4. \A k \in l + 1 .. l + n : k \in 1 .. l + n /\ ~(k <= l) /\ k - l \in 1 .. n /\ l + (k - l) = k
  BY <1>1
<1>5. \A k \in 1 .. n : l + k \in l + 1 .. l + n /\ (l + k) - l = k
  BY <1>1
<1>6. \A k \in 1 .. l + n : k \in 1 .. l \/ k \in l + 1 .. l + n
  BY <1>1
<1>7. Where(d, u) = A \cup C
  <2>1. \A k \in 1 .. l : u[k] = s[k] /\ k \in 1 .. l + n
    BY <1>1, <1>3
  <2> QED
    BY <1>1, <1>4, <1>6, <2>1 DEF Where
<1>8. A \cap C = {}
  BY <1>1, <1>3 DEF Where
<1>9. \A k \in 1 .. n : u[l + k] = t[k]
  BY <1>1, <1>4, <1>5
<1>10. f \in Bijection(B, C)
  <2>1. f \in [B -> C]
    BY <1>1, <1>5, <1>9 DEF Where
  <2>2. \A a, b \in B : f[a] = f[b] => a = b
    <3>1. \A a, b \in 1 .. n : l + a = l + b => a = b
      BY <1>1
    <3> QED
      BY <1>1, <3>1 DEF Where
  <2>3. \A c \in C : \E b \in B : f[b] = c
    <3> TAKE c \in C
    <3>1. c - l \in 1 .. n /\ l + (c - l) = c /\ u[c] = d
      BY <1>4
    <3>2. t[c - l] = d
      BY <1>9, <3>1
    <3>3. c - l \in B
      BY <1>1, <3>1, <3>2 DEF Where
    <3> QED
      BY <3>1, <3>3
  <2> HIDE DEF f, B, C
  <2> QED
    BY <2>1, <2>2, <2>3, Fun_IsBij
<1>11. IsFiniteSet(C) /\ Cardinality(C) = Cardinality(B)
  <2> HIDE DEF f, B, C
  <2>1. ExistsBijection(B, C)
    BY <1>10 DEF ExistsBijection
  <2> QED
    BY <1>2, <2>1, FS_Bijection
<1> HIDE DEF A, B, C
<1>12. Cardinality(A \cup C) = Cardinality(A) + Cardinality(C) - Cardinality(A \cap C)
  BY <1>2, <1>11, FS_Union
<1>13. Cardinality(A \cap C) = 0
  BY <1>8, FS_EmptySet
<1>14. Occurrences(d, u) = Cardinality(A) + Cardinality(B)
  BY <1>2, <1>7, <1>11, <1>12, <1>13
<1> QED
  BY <1>2, <1>14 DEF u

\* One element more.
LEMMA OccurrencesInAppend ==
    ASSUME NEW S, NEW s \in Seq(S), NEW x \in S, NEW d
    PROVE  Occurrences(d, Append(s, x)) = Occurrences(d, s) + (IF d = x THEN 1 ELSE 0)
<1>1. Append(s, x) = s \o <<x>>
  BY AppendIsConcat
<1>2. <<x>> = Times(1, x)
  BY DEF Times
<1>3. Times(1, x) \in Seq(S) /\ Occurrences(d, Times(1, x)) = IF d = x THEN 1 ELSE 0
  BY TimesTypes, OccurrencesInTimes
<1>4. Occurrences(d, s \o Times(1, x)) = Occurrences(d, s) + Occurrences(d, Times(1, x))
  BY <1>3, OccurrencesInConcat
<1> QED
  BY <1>1, <1>2, <1>3, <1>4

\* One element less.
LEMMA OccurrencesInTail ==
    ASSUME NEW S, NEW s \in Seq(S), s # <<>>, NEW d
    PROVE  Occurrences(d, s) = Occurrences(d, Tail(s)) + (IF d = Head(s) THEN 1 ELSE 0)
<1>1. /\ Head(s) \in S /\ Tail(s) \in Seq(S) /\ Len(s) \in Nat \ {0}
      /\ Tail(s) = SubSeq(s, 2, Len(s)) /\ s = SubSeq(s, 1, Len(s))
  BY HeadTailProperties, TailIsSubSeq, SubSeqFull, EmptySeq
<1>2. 1 \in 1 .. Len(s) /\ Len(s) \in 1 .. Len(s)
  BY <1>1
<1>3. Head(s) = s[1]
  BY <1>1, <1>2, HeadTailOfSubSeq
<1>4. s = <<Head(s)>> \o Tail(s)
  <2>1. SubSeq(s, 1, Len(s)) = <<s[1]>> \o SubSeq(s, 1 + 1, Len(s))
    BY <1>2, SubSeqRecursiveFirst
  <2> QED
    BY <1>1, <1>3, <2>1
<1> DEFINE a == Times(1, Head(s))
           t == Tail(s)
<1>5. a = <<Head(s)>> /\ a \o t = s
  BY <1>4 DEF Times
<1>6. a \in Seq(S) /\ t \in Seq(S) /\ Occurrences(d, a) = IF d = Head(s) THEN 1 ELSE 0
  BY <1>1, TimesTypes, OccurrencesInTimes
<1> HIDE DEF a, t
<1>7. Occurrences(d, s) = Occurrences(d, a) + Occurrences(d, t) /\ Occurrences(d, t) \in Nat
  <2>1. Occurrences(d, a \o t) = Occurrences(d, a) + Occurrences(d, t)
    BY <1>6, OccurrencesInConcat
  <2>2. Occurrences(d, t) \in Nat
    BY <1>6, OccurrencesInNat
  <2> QED
    BY <1>5, <2>1, <2>2
<1>8. Occurrences(d, s) = Occurrences(d, t) + (IF d = Head(s) THEN 1 ELSE 0)
  BY <1>6, <1>7
<1> QED
  BY <1>8 DEF t

\* The first part of a sequence holds no more than all of it.
LEMMA OccurrencesInFirst ==
    ASSUME NEW S, NEW s \in Seq(S), NEW n \in 1 .. Len(s), NEW d
    PROVE  Occurrences(d, SubSeq(s, 1, n)) <= Occurrences(d, s)
<1> DEFINE l == Len(s)
<1>1. l \in Nat /\ SubSeq(s, 1, l) = s /\ \A k \in 1 .. l : s[k] \in S
  BY LenProperties, SubSeqFull
<1>2. 1 \in 1 .. l + 1 /\ n \in 1 - 1 .. l /\ l \in n .. l
  BY <1>1
<1>3. SubSeq(s, 1, n) \o SubSeq(s, n + 1, l) = SubSeq(s, 1, l)
  BY <1>2, ConcatAdjacentSubSeq
<1>4. SubSeq(s, 1, n) \in Seq(S) /\ SubSeq(s, n + 1, l) \in Seq(S)
  <2>1. n \in Int /\ n + 1 \in Int /\ l \in Int
    BY <1>1
  <2>2. (\A k \in 1 .. n : k \in 1 .. l) /\ (\A k \in n + 1 .. l : k \in 1 .. l)
    BY <1>1, <1>2
  <2>3. SubSeq(s, 1, n) \in Seq(S)
    BY <1>1, <2>1, <2>2, SubSeqProperties
  <2>4. SubSeq(s, n + 1, l) \in Seq(S)
    BY <1>1, <2>1, <2>2, SubSeqProperties
  <2> QED
    BY <2>3, <2>4
<1> DEFINE a == SubSeq(s, 1, n)
           b == SubSeq(s, n + 1, l)
<1>5. a \in Seq(S) /\ b \in Seq(S) /\ a \o b = s
  BY <1>1, <1>3, <1>4
<1> HIDE DEF a, b
<1>6. Occurrences(d, s) = Occurrences(d, a) + Occurrences(d, b)
  BY <1>5, OccurrencesInConcat
<1>7. Occurrences(d, a) \in Nat /\ Occurrences(d, b) \in Nat
  BY <1>5, OccurrencesInNat
<1>8. Occurrences(d, a) <= Occurrences(d, s)
  BY <1>6, <1>7
<1> QED
  BY <1>8 DEF a

\* One element replaced.
LEMMA OccurrencesInExcept ==
    ASSUME NEW S, NEW s \in Seq(S), NEW k \in 1 .. Len(s), NEW x \in S, NEW d
    PROVE  Occurrences(d, [s EXCEPT ![k] = x]) <= Occurrences(d, s) + (IF d = x THEN 1 ELSE 0)
<1> DEFINE t == [s EXCEPT ![k] = x]
<1>1. /\ t \in Seq(S) /\ Len(t) = Len(s)
      /\ \A j \in 1 .. Len(s) : t[j] = IF j = k THEN x ELSE s[j]
  BY ExceptSeq
<1> HIDE DEF t
<1>2. /\ Occurrences(d, s) = Cardinality(Where(d, s)) /\ IsFiniteSet(Where(d, s))
      /\ Occurrences(d, t) = Cardinality(Where(d, t)) /\ IsFiniteSet(Where(d, t))
      /\ Occurrences(d, s) \in Nat /\ Occurrences(d, t) \in Nat
      /\ DOMAIN s = 1 .. Len(s) /\ DOMAIN t = 1 .. Len(s)
  BY <1>1, OccurrencesInNat, LenProperties
<1>3. CASE d = x
  <2>1. Where(d, t) \in SUBSET (Where(d, s) \cup {k})
    BY <1>1, <1>2 DEF Where
  <2>2. /\ IsFiniteSet(Where(d, s) \cup {k})
        /\ Cardinality(Where(d, s) \cup {k}) =
             IF k \in Where(d, s) THEN Cardinality(Where(d, s)) ELSE Cardinality(Where(d, s)) + 1
    BY <1>2, FS_AddElement
  <2>3. Cardinality(Where(d, t)) <= Cardinality(Where(d, s) \cup {k})
    BY <2>1, <2>2, FS_Subset
  <2> QED
    BY <1>2, <1>3, <2>2, <2>3 DEF t
<1>4. CASE d # x
  <2>1. Where(d, t) \in SUBSET Where(d, s)
    BY <1>1, <1>2, <1>4 DEF Where
  <2>2. Cardinality(Where(d, t)) <= Cardinality(Where(d, s))
    BY <1>2, <2>1, FS_Subset
  <2> QED
    BY <1>2, <1>4, <2>2 DEF t
<1> QED
  BY <1>3, <1>4
\* A sequence that has each element no more often than another is no longer.
LEMMA ShorterByOccurrences ==
    ASSUME NEW S, NEW s \in Seq(S), NEW t \in Seq(S),
           \A x \in S : Occurrences(x, s) <= Occurrences(x, t)
    PROVE  Len(s) <= Len(t)
<1> DEFINE Into(x) == Injection(Where(x, s), Where(x, t))
           f == [x \in S |-> CHOOSE g \in Into(x) : TRUE]
           h == [k \in 1 .. Len(s) |-> f[s[k]][k]]
<1>1. /\ DOMAIN s = 1 .. Len(s) /\ Len(s) \in Nat /\ \A k \in 1 .. Len(s) : s[k] \in S
      /\ DOMAIN t = 1 .. Len(t) /\ Len(t) \in Nat
  BY LenProperties
<1>2. ASSUME NEW x \in S PROVE f[x] \in Into(x)
  <2> DEFINE A == Where(x, s)
             B == Where(x, t)
  <2>1. /\ IsFiniteSet(A) /\ IsFiniteSet(B)
        /\ Cardinality(A) \in Nat /\ Cardinality(B) \in Nat
        /\ Cardinality(A) <= Cardinality(B)
    BY OccurrencesInNat
  <2> HIDE DEF A, B
  <2> DEFINE m == Cardinality(A)
             n == Cardinality(B)
  <2>2. PICK a \in Bijection(1 .. m, A) : TRUE
    BY <2>1, FS_CardinalityType DEF ExistsBijection
  <2>3. PICK b \in Bijection(1 .. n, B) : TRUE
    BY <2>1, FS_CardinalityType DEF ExistsBijection
  <2> HIDE DEF m, n
  <2> DEFINE c == Inverse(a, 1 .. m, A)
  <2>4. c \in Injection(A, 1 .. m)
    BY <2>2, Fun_BijInverse, Fun_BijectionProperties
  <2> HIDE DEF c
  <2>5. b \in [1 .. n -> B] /\ \A i, j \in 1 .. n : b[i] = b[j] => i = j
    BY <2>3, Fun_BijectionProperties
  <2> DEFINE g == [k \in A |-> b[c[k]]]
  <2>6. c \in [A -> 1 .. m] /\ \A i, j \in A : c[i] = c[j] => i = j
    BY <2>4, Fun_InjectionProperties
  <2>7. \A k \in A : c[k] \in 1 .. n
    <3>1. \A k \in 1 .. m : k \in 1 .. n
      BY <2>1 DEF m, n
    <3> QED
      BY <2>6, <3>1
  <2>8. g \in [A -> B]
    BY <2>5, <2>7
  <2>9. \A i, j \in A : g[i] = g[j] => i = j
    BY <2>5, <2>6, <2>7
  <2> HIDE DEF g
  <2>10. g \in Injection(A, B)
    BY <2>8, <2>9, Fun_IsInj
  <2> QED
    BY <2>10 DEF A, B
<1> HIDE DEF f
<1>3. ASSUME NEW x \in S
      PROVE  f[x] \in [Where(x, s) -> Where(x, t)]
             /\ \A i, j \in Where(x, s) : f[x][i] = f[x][j] => i = j
  BY <1>2, Fun_InjectionProperties
<1>4. ASSUME NEW k \in 1 .. Len(s) PROVE h[k] \in 1 .. Len(t) /\ t[h[k]] = s[k]
  <2>1. k \in Where(s[k], s) /\ s[k] \in S
    BY <1>1 DEF Where
  <2>2. f[s[k]][k] \in Where(s[k], t)
    BY <1>3, <2>1
  <2> QED
    BY <1>1, <2>2 DEF Where
<1>5. ASSUME NEW i \in 1 .. Len(s), NEW j \in 1 .. Len(s), h[i] = h[j] PROVE i = j
  <2>1. s[i] = s[j]
    BY <1>4, <1>5
  <2>2. i \in Where(s[i], s) /\ j \in Where(s[i], s) /\ s[i] \in S
    BY <1>1, <2>1 DEF Where
  <2> QED
    BY <1>3, <1>5, <2>1, <2>2
<1>6. h \in Injection(1 .. Len(s), 1 .. Len(t))
  <2>1. h \in [1 .. Len(s) -> 1 .. Len(t)]
    BY <1>4
  <2> HIDE DEF h
  <2> QED
    BY <1>5, <2>1, Fun_IsInj
<1>7. /\ IsFiniteSet(1 .. Len(t)) /\ Cardinality(1 .. Len(t)) = Len(t)
      /\ Cardinality(1 .. Len(s)) = Len(s)
  BY <1>1, IntervalCount
<1> HIDE DEF h
<1> QED
  BY <1>6, <1>7, FS_Injection

\* The places of an element in one of several sequences.
Row(f, b, x) == {b} \X Where(x, f[b])

\* They are as many as the element occurs in that sequence.
LEMMA RowCount ==
    ASSUME NEW S, NEW D, NEW f \in [D -> Seq(S)], NEW b \in D, NEW x
    PROVE  IsFiniteSet(Row(f, b, x)) /\ Cardinality(Row(f, b, x)) = Occurrences(x, f[b])
<1> DEFINE A == Where(x, f[b])
           g == [k \in A |-> <<b, k>>]
<1>1. IsFiniteSet(A) /\ Occurrences(x, f[b]) = Cardinality(A)
  BY OccurrencesInNat
<1> HIDE DEF A
<1>2. g \in [A -> {b} \X A] /\ \A i, j \in A : g[i] = g[j] => i = j
  OBVIOUS
<1>3. \A p \in {b} \X A : \E k \in A : g[k] = p
  OBVIOUS
<1> HIDE DEF g
<1>4. g \in Bijection(A, {b} \X A)
  BY <1>2, <1>3, Fun_IsBij
<1>5. IsFiniteSet({b} \X A) /\ Cardinality({b} \X A) = Cardinality(A)
  <2>1. ExistsBijection(A, {b} \X A)
    BY <1>4 DEF ExistsBijection
  <2> QED
    BY <1>1, <2>1, FS_Bijection
<1> QED
  BY <1>1, <1>5 DEF Row, A

\* The places in several sequences are finitely many.
LEMMA PlacesFinite ==
    ASSUME NEW S, NEW D, IsFiniteSet(D), NEW f \in [D -> Seq(S)], NEW x
    PROVE  /\ IsFiniteSet(Places(f, x)) /\ Total(f, x) \in Nat
           /\ \A p : p \in Places(f, x) <=> \E b \in D : p \in Row(f, b, x)
<1> DEFINE rows == {Row(f, b, x) : b \in D}
           g == [b \in D |-> Row(f, b, x)]
<1>1. Places(f, x) = UNION rows
  BY DEF Places, Row, Where
<1>2. g \in [D -> rows] /\ \A r \in rows : \E b \in D : g[b] = r
  OBVIOUS
<1>3. \A r \in rows : IsFiniteSet(r)
  BY RowCount
<1>4. \A p : p \in UNION rows <=> \E b \in D : p \in Row(f, b, x)
  OBVIOUS
<1> HIDE DEF g, rows
<1>5. IsFiniteSet(rows)
  <2>1. g \in Surjection(D, rows)
    BY <1>2, Fun_IsSurj
  <2> QED
    BY <2>1, FS_Surjection
<1>6. IsFiniteSet(Places(f, x))
  BY <1>1, <1>3, <1>5, FS_UNION
<1> QED
  BY <1>1, <1>4, <1>6, FS_CardinalityType DEF Total

\* Several sequences, and a difference in one of them.
Sequences(D, S) == [D -> Seq(S)]
OnlyAt(b, D, f, g) == \A k \in D : k # b => g[k] = f[k]

\* One of several sequences replaced.
LEMMA TotalExcept ==
    ASSUME NEW S, NEW D, IsFiniteSet(D), NEW b \in D, NEW x,
           NEW f, NEW g, f \in Sequences(D, S), g \in Sequences(D, S), OnlyAt(b, D, f, g)
    PROVE  /\ Total(g, x) + Occurrences(x, f[b]) = Total(f, x) + Occurrences(x, g[b])
           /\ Total(f, x) \in Nat /\ Total(g, x) \in Nat
<1> DEFINE F == Places(f, x)
           G == Places(g, x)
           P == Row(f, b, x)
           Q == Row(g, b, x)
<1>0. f \in [D -> Seq(S)] /\ g \in [D -> Seq(S)] /\ \A k \in D : k # b => g[k] = f[k]
  BY DEF Sequences, OnlyAt
<1>1. /\ IsFiniteSet(F) /\ IsFiniteSet(G) /\ Total(f, x) \in Nat /\ Total(g, x) \in Nat
      /\ \A p : p \in F <=> \E k \in D : p \in Row(f, k, x)
      /\ \A p : p \in G <=> \E k \in D : p \in Row(g, k, x)
  BY <1>0, PlacesFinite
<1>2. /\ IsFiniteSet(P) /\ Cardinality(P) = Occurrences(x, f[b])
      /\ IsFiniteSet(Q) /\ Cardinality(Q) = Occurrences(x, g[b])
  <2>1. f \in [D -> Seq(S)]
    BY <1>0
  <2>2. IsFiniteSet(Row(f, b, x)) /\ Cardinality(Row(f, b, x)) = Occurrences(x, f[b])
    BY <2>1, RowCount
  <2>3. g \in [D -> Seq(S)]
    BY <1>0
  <2>4. IsFiniteSet(Row(g, b, x)) /\ Cardinality(Row(g, b, x)) = Occurrences(x, g[b])
    BY <2>3, RowCount
  <2> QED
    BY <2>2, <2>4
<1>3. Cardinality(P) \in Nat /\ Cardinality(Q) \in Nat
  BY <1>2, FS_CardinalityType
<1>4. \A k \in D : k # b => Row(g, k, x) = Row(f, k, x)
  BY <1>0 DEF Row
<1>5. \A k \in D : k # b => Row(f, k, x) \cap P = {} /\ Row(f, k, x) \cap Q = {}
  BY DEF Row
<1> HIDE DEF F, G, P, Q
<1>6. P \subseteq F /\ Q \subseteq G
  BY <1>1 DEF P, Q
<1>7. F \ P = G \ Q
  <2>1. \A p : p \in F /\ p \notin P => p \in G /\ p \notin Q
    BY <1>1, <1>4, <1>5 DEF P
  <2>2. \A p : p \in G /\ p \notin Q => p \in F /\ p \notin P
    BY <1>1, <1>4, <1>5 DEF Q
  <2> QED
    BY <2>1, <2>2
<1>8. /\ F \cap P = P /\ G \cap Q = Q
  BY <1>6
<1>9. /\ Cardinality(F \ P) = Cardinality(F) - Cardinality(F \cap P)
      /\ Cardinality(G \ Q) = Cardinality(G) - Cardinality(G \cap Q)
  BY <1>1, FS_Difference
<1>10. Cardinality(F) = Total(f, x) /\ Cardinality(G) = Total(g, x)
  BY DEF Total, F, G
<1>11. Total(f, x) - Cardinality(P) = Total(g, x) - Cardinality(Q)
  BY <1>7, <1>8, <1>9, <1>10
<1> DEFINE m == Total(f, x)
           n == Total(g, x)
           p == Cardinality(P)
           q == Cardinality(Q)
<1>12. m \in Nat /\ n \in Nat /\ p \in Nat /\ q \in Nat /\ m - p = n - q
  BY <1>1, <1>3, <1>11
<1> HIDE DEF m, n, p, q
<1>13. n + p = m + q
  BY <1>12
<1> QED
  BY <1>2, <1>12, <1>13 DEF m, n, p, q

\* Empty sequences have no element.
LEMMA TotalOfNone ==
    ASSUME NEW D, NEW f, DOMAIN f = D, \A b \in D : f[b] = <<>>, NEW x
    PROVE  Total(f, x) = 0
<1>1. \A b \in D : {k \in DOMAIN f[b] : f[b][k] = x} = {}
  OBVIOUS
<1>2. Places(f, x) = {}
  BY <1>1 DEF Places
<1> QED
  BY <1>2, FS_EmptySet DEF Total

\* The parts of a sequence have no more of an element than all of it.
LEMMA TotalOfParts ==
    ASSUME NEW S, NEW s \in Seq(S), NEW f, NEW x,
           f = [b \in 1 .. Batches(s) |-> Part(s, (b - 1) * BatchSize)]
    PROVE  Total(f, x) <= Occurrences(x, s)
<1> DEFINE l == Len(s)
           n == BatchSize
           D == 1 .. Batches(s)
           P == Places(f, x)
           g == [p \in P |-> (p[1] - 1) * n + p[2]]
<1>1. /\ l \in Nat /\ n \in Nat \ {0} /\ DOMAIN s = 1 .. l
      /\ \A k \in 1 .. l : s[k] \in S
  BY SendAssumption, LenProperties
<1>2. Batches(s) \in Nat
  BY <1>1 DEF Batches
<1>3. ASSUME NEW b \in D
      PROVE  /\ (b - 1) * n \in Nat
             /\ f[b] \in Seq(S) /\ DOMAIN f[b] \subseteq 1 .. n
             /\ \A k \in DOMAIN f[b] : (b - 1) * n + k \in 1 .. l /\ f[b][k] = s[(b - 1) * n + k]
  <2> DEFINE o == (b - 1) * n
             e == IF o + n > l THEN l ELSE o + n
  <2>1. o \in Nat
    <3>1. b - 1 \in Nat
      BY <1>2
    <3> QED
      BY <1>1, <3>1
  <2>2. f[b] = Part(s, o)
    OBVIOUS
  <2>3. Part(s, o) = SubSeq(s, o + 1, e)
    BY DEF Part
  <2> HIDE DEF l, n, o
  <2>4. e \in Int /\ e <= l /\ e <= o + n /\ \A k \in o + 1 .. e : k \in 1 .. l
    BY <1>1, <2>1
  <2>5. \A k \in 1 .. e - o : o + k \in o + 1 .. e /\ (o + 1) + k - 1 = o + k /\ k \in 1 .. n
    BY <1>1, <2>1, <2>4
  <2> HIDE DEF e
  <2> DEFINE u == SubSeq(s, o + 1, e)
  <2>6. u \in Seq(S) /\ DOMAIN u = 1 .. Len(u)
    <3>1. o + 1 \in Int /\ \A k \in o + 1 .. e : s[k] \in S
      BY <1>1, <2>1, <2>4 DEF l
    <3>2. u \in Seq(S)
      BY <2>4, <3>1, SubSeqProperties
    <3> HIDE DEF u
    <3> QED
      BY <3>2, LenProperties
  <2>7. /\ Len(u) = IF o + 1 <= e THEN e - (o + 1) + 1 ELSE 0
        /\ \A k \in 1 .. e - (o + 1) + 1 : u[k] = s[(o + 1) + k - 1]
    <3>1. o + 1 \in Int /\ \A k \in o + 1 .. e : s[k] \in S
      BY <1>1, <2>1, <2>4 DEF l
    <3> QED
      BY <2>4, <3>1, SubSeqProperties
  <2> HIDE DEF u
  <2>8. \A k \in 1 .. Len(u) : k \in 1 .. e - o /\ k \in 1 .. e - (o + 1) + 1
    BY <2>1, <2>4, <2>7
  <2>9. \A k \in DOMAIN u : o + k \in 1 .. l /\ k \in 1 .. n /\ u[k] = s[o + k]
    BY <2>4, <2>5, <2>6, <2>7, <2>8
  <2> QED
    BY <2>1, <2>2, <2>3, <2>6, <2>9 DEF l, n, o, u
<1>4. f \in [D -> Seq(S)] /\ IsFiniteSet(D)
  <2>1. \A b \in D : f[b] \in Seq(S)
    BY <1>3
  <2> QED
    BY <1>2, <2>1, IntervalCount
<1>5. IsFiniteSet(P) /\ Total(f, x) = Cardinality(P) /\ Cardinality(P) \in Nat
  BY <1>4, PlacesFinite, FS_CardinalityType DEF Total
<1>6. ASSUME NEW p \in P
      PROVE  /\ p[1] \in D /\ p[2] \in DOMAIN f[p[1]] /\ p[2] \in 1 .. n
             /\ p = <<p[1], p[2]>> /\ f[p[1]][p[2]] = x
  <2>1. PICK b \in D : p \in {b} \X {k \in DOMAIN f[b] : f[b][k] = x}
    BY <1>4 DEF Places
  <2>2. p[1] = b /\ p[2] \in DOMAIN f[b] /\ f[b][p[2]] = x /\ p = <<p[1], p[2]>>
    BY <2>1
  <2> HIDE DEF P
  <2> QED
    BY <1>3, <2>2
<1> HIDE DEF P, D, l, n
<1>7. g \in [P -> Where(x, s)]
  <2>1. ASSUME NEW p \in P PROVE (p[1] - 1) * n + p[2] \in Where(x, s)
    <3>1. (p[1] - 1) * n + p[2] \in 1 .. l /\ s[(p[1] - 1) * n + p[2]] = x
      BY <1>3, <1>6
    <3> QED
      BY <1>1, <3>1 DEF Where
  <2> QED
    BY <2>1
<1>8. ASSUME NEW p \in P, NEW q \in P, g[p] = g[q] PROVE p = q
  <2> DEFINE b == p[1]
             c == q[1]
             j == p[2]
             k == q[2]
  <2>1. b \in Nat \ {0} /\ c \in Nat \ {0} /\ j \in 1 .. n /\ k \in 1 .. n
    <3>1. \A y \in D : y \in Nat \ {0}
      BY <1>2 DEF D
    <3>2. b \in D /\ c \in D /\ j \in 1 .. n /\ k \in 1 .. n
      BY <1>6
    <3> QED
      BY <3>1, <3>2
  <2>2. (b - 1) * n + j = (c - 1) * n + k
    BY <1>8
  <2>3. p = <<b, j>> /\ q = <<c, k>>
    BY <1>6
  <2> HIDE DEF b, c, j, k
  <2>4. ASSUME NEW y \in Nat \ {0}, NEW z \in Nat \ {0}, y < z
        PROVE  (y - 1) * n + n <= (z - 1) * n
    <3>1. PICK w \in Nat : z - 1 = (y - 1) + 1 + w
      <4>1. z - y - 1 \in Nat /\ z - 1 = (y - 1) + 1 + (z - y - 1)
        BY <2>4
      <4> QED
        BY <4>1
    <3>2. w * n \in Nat /\ (y - 1) * n \in Int
      BY <1>1
    <3>3. (z - 1) * n = (y - 1) * n + n + w * n
      <4>1. ((y - 1) + 1 + w) * n = (y - 1) * n + n + w * n
        BY <1>1
      <4> QED
        BY <3>1, <4>1
    <3> QED
      BY <1>1, <3>2, <3>3
  <2> DEFINE m == (b - 1) * n
             r == (c - 1) * n
  <2>5. m \in Int /\ r \in Int
    BY <1>1, <2>1
  <2>6. (b < c => m + n <= r) /\ (c < b => r + n <= m)
    BY <2>1, <2>4
  <2>7. m + j = r + k /\ (b = c => m = r)
    BY <2>2
  <2> HIDE DEF m, r
  <2>8. b = c /\ j = k
    BY <1>1, <2>1, <2>5, <2>6, <2>7
  <2> QED
    BY <2>3, <2>8
<1>9. IsFiniteSet(Where(x, s)) /\ Occurrences(x, s) = Cardinality(Where(x, s))
  BY OccurrencesInNat
<1> HIDE DEF g
<1>10. g \in Injection(P, Where(x, s))
  BY <1>7, <1>8, Fun_IsInj
<1> QED
  BY <1>5, <1>9, <1>10, FS_Injection

------------------------------------------------------------------------------
(* Slices and their arrays.                                                 *)

\* Blank instructions.
LEMMA Blanks ==
    ASSUME NEW n \in Nat, NEW s, s = Times(n, None)
    PROVE  s \in Seq(Element) /\ Len(s) = n /\ ToSet(s) \subseteq {None}
BY TimesTypes DEF Element

\* The first n elements of a sequence.
First(s, n) == {s[k] : k \in 1 .. n}

\* Elements, of a slice of any arrays.
ElementsIn(arrays, s) ==
    IF s.array = NoArray THEN <<>> ELSE SubSeq(arrays[s.array], 1, s.len)

\* The elements of a slice are the first of its array.
LEMMA SliceElements ==
    ASSUME NEW arrays \in Seq(Seq(Element)), NEW s \in Slices, InArray(arrays, s),
           NEW e, e = ElementsIn(arrays, s)
    PROVE  /\ e \in Seq(Element)
           /\ s.array = NoArray => e = <<>> /\ ToSet(e) = {}
           /\ s.array # NoArray =>
                /\ s.array \in 1 .. Len(arrays) /\ arrays[s.array] \in Seq(Element)
                /\ s.len \in 1 .. Len(arrays[s.array])
                /\ Len(e) = s.len /\ ToSet(e) = First(arrays[s.array], s.len)
<1>1. CASE s.array = NoArray
  <2>1. e = <<>> /\ <<>> \in Seq(Element)
    BY <1>1 DEF ElementsIn
  <2>2. ToSet(<<>>) = {}
    BY DEF ToSet
  <2> QED
    BY <1>1, <2>1, <2>2
<1>2. CASE s.array # NoArray
  <2> DEFINE t == arrays[s.array]
             n == s.len
  <2>1. s.array \in 1 .. Len(arrays) /\ n \in 1 .. Len(t)
    BY <1>2 DEF InArray, Slices, NoArray
  <2>2. t \in Seq(Element)
    BY <2>1, ElementOfSeq
  <2>3. e = SubSeq(t, 1, n)
    BY <1>2 DEF ElementsIn
  <2> HIDE DEF t, n
  <2>4. /\ Len(t) \in Nat /\ n \in Int /\ 1 <= n /\ n <= Len(t) /\ DOMAIN t = 1 .. Len(t)
        /\ \A k \in 1 .. n : k \in 1 .. Len(t)
    BY <2>1, <2>2, LenProperties
  <2>5. \A k \in 1 .. n : t[k] \in Element
    <3> TAKE k \in 1 .. n
    <3>1. k \in 1 .. Len(t)
      BY <2>4
    <3> QED
      BY <2>2, <3>1, ElementOfSeq
  <2>6. /\ e \in Seq(Element) /\ Len(e) = IF 1 <= n THEN n - 1 + 1 ELSE 0
        /\ \A k \in 1 .. n - 1 + 1 : e[k] = t[1 + k - 1]
    <3>1. 1 \in Int /\ n \in Int
      BY <2>4
    <3> QED
      BY <2>3, <2>5, <3>1, SubSeqProperties
  <2>7. Len(e) = n /\ \A k \in 1 .. n : e[k] = t[k]
    BY <2>4, <2>6
  <2>8. DOMAIN e = 1 .. n
    BY <2>6, <2>7, LenProperties
  <2>9. ToSet(e) = First(t, n)
    BY <2>7, <2>8 DEF ToSet, First
  <2> QED
    BY <1>2, <2>1, <2>2, <2>6, <2>7, <2>9 DEF t, n
<1> QED
  BY <1>1, <1>2

\* What append leaves as it was.
Kept(old, new) ==
    /\ new \in Seq(Seq(Element)) /\ Len(old) <= Len(new)
    /\ \A a \in 1 .. Len(old) : Len(new[a]) = Len(old[a])

\* A slice stays within its array.
LEMMA StillWithin ==
    ASSUME NEW old \in Seq(Seq(Element)), NEW new, Kept(old, new),
           NEW s \in Slices, InArray(old, s)
    PROVE  InArray(new, s)
<1>1. CASE s.array = NoArray
  BY <1>1 DEF InArray
<1>2. CASE s.array # NoArray
  <2>1. Len(old) \in Nat /\ Len(new) \in Nat /\ s.array \in Nat
    BY LenProperties DEF Kept, Slices
  <2>2. s.array \in 1 .. Len(old) /\ s.len \in 1 .. Len(old[s.array])
    BY <1>2, <2>1 DEF InArray, NoArray
  <2>3. Len(new[s.array]) = Len(old[s.array]) /\ s.array <= Len(new)
    BY <2>1, <2>2 DEF Kept
  <2> QED
    BY <1>2, <2>2, <2>3 DEF InArray
<1> QED
  BY <1>1, <1>2

\* append writes behind the slice, or copies it with the element into a new array.
LEMMA Appended ==
    ASSUME array \in Seq(Seq(Element)), NEW s \in Slices, Within(s), s.len >= 0,
           NEW x \in Element, NEW new, new = AppendTo(s, x)
    PROVE  /\ Kept(array, new.array)
           /\ new.in \in 1 .. Len(new.array)
           /\ s.len + 1 \in 1 .. Len(new.array[new.in])
           /\ ToSet(Elements(s)) \cup {x} \subseteq First(new.array[new.in], s.len + 1)
           /\ \A a \in 1 .. Len(array) \ {s.array} : new.array[a] = array[a]
           /\ s.array # NoArray => \A k \in 1 .. s.len :
                                     new.array[s.array][k] = array[s.array][k]
           /\ s.array # NoArray => \A d \in Devices :
                Occurrences(d, new.array[s.array])
                  <= Occurrences(d, array[s.array]) + (IF d = x THEN 1 ELSE 0)
           /\ new.in = s.array \/ /\ new.in = Len(array) + 1
                                  /\ \A d \in Devices :
                                       Occurrences(d, new.array[new.in])
                                         <= Occurrences(d, Elements(s)) + (IF d = x THEN 1 ELSE 0)
           /\ \A a \in 1 .. Len(new.array) : a \in 1 .. Len(array) \/ a = new.in
<1> DEFINE n == s.len
           e == Elements(s)
<1>0. e = ElementsIn(array, s) /\ InArray(array, s)
  BY DEF Elements, ElementsIn, Within
<1>1. Len(array) \in Nat /\ n \in Nat /\ e \in Seq(Element) /\ s.array \in Nat
  BY <1>0, LenProperties, SliceElements DEF Slices
<1>2. \A a \in 1 .. Len(array) : array[a] \in Seq(Element)
  BY ElementOfSeq
<1>3. /\ s.array = NoArray => e = <<>> /\ ToSet(e) = {} /\ n = 0
      /\ s.array # NoArray =>
           /\ s.array \in 1 .. Len(array) /\ n \in 1 .. Len(array[s.array])
           /\ Len(e) = n /\ ToSet(e) = First(array[s.array], n)
  <2>1. s.array = NoArray => n = 0
    BY <1>0, <1>1 DEF InArray
  <2> HIDE DEF e
  <2> QED
    BY <1>0, <2>1, SliceElements
<1>4. CASE s.array # NoArray /\ n < Len(array[s.array])
  <2> DEFINE t == array[s.array]
             u == [t EXCEPT ![n + 1] = x]
  <2>1. new = [array |-> [array EXCEPT ![s.array][n + 1] = x], in |-> s.array]
    BY <1>4 DEF AppendTo
  <2>2. new.in = s.array /\ new.array = [array EXCEPT ![s.array] = u]
    BY <2>1
  <2>3. t \in Seq(Element) /\ n + 1 \in 1 .. Len(t) /\ Len(t) \in Nat /\ n < Len(t)
    BY <1>1, <1>2, <1>3, <1>4, LenProperties
  <2> HIDE DEF t
  <2>4. /\ u \in Seq(Element) /\ Len(u) = Len(t)
        /\ \A j \in 1 .. Len(t) : u[j] = IF j = n + 1 THEN x ELSE t[j]
    BY <2>3, ExceptSeq
  <2> HIDE DEF u, n, e
  <2>5. s.array \in 1 .. Len(array)
    BY <1>3, <1>4
  <2>6. /\ new.array \in Seq(Seq(Element)) /\ Len(new.array) = Len(array)
        /\ \A a \in 1 .. Len(array) :
             new.array[a] = IF a = s.array THEN u ELSE array[a]
    BY <2>2, <2>4, <2>5, ExceptSeq
  <2>7. new.array[s.array] = u
    BY <2>5, <2>6
  <2>8. Kept(array, new.array)
    <3>1. ASSUME NEW a \in 1 .. Len(array) PROVE Len(new.array[a]) = Len(array[a])
      <4>1. CASE a = s.array
        BY <2>4, <2>7, <4>1 DEF t
      <4>2. CASE a # s.array
        BY <2>6, <4>2
      <4> QED
        BY <4>1, <4>2
    <3> QED
      BY <1>1, <2>6, <3>1 DEF Kept
  <2>9. DOMAIN u = 1 .. Len(t) /\ DOMAIN t = 1 .. Len(t)
    BY <2>3, <2>4, LenProperties
  <2>10. \A d \in Devices : Occurrences(d, u) <= Occurrences(d, t) + (IF d = x THEN 1 ELSE 0)
    BY <2>3, OccurrencesInExcept DEF u
  <2>11. \A k \in 1 .. n : u[k] = t[k] /\ k \in 1 .. n + 1
    <3> TAKE k \in 1 .. n
    <3>1. k \in 1 .. Len(t) /\ k # n + 1 /\ k \in 1 .. n + 1
      BY <1>1, <2>3
    <3> QED
      BY <2>4, <3>1
  <2>12. u[n + 1] = x /\ n + 1 \in 1 .. n + 1
    BY <1>1, <2>3, <2>4
  <2>13. ToSet(e) = First(t, n)
    BY <1>3, <1>4 DEF t
  <2>14. ToSet(e) \cup {x} \subseteq First(u, n + 1)
    BY <2>11, <2>12, <2>13 DEF First
  <2>15. /\ new.in \in 1 .. Len(new.array) /\ s.len + 1 \in 1 .. Len(new.array[new.in])
         /\ \A a \in 1 .. Len(new.array) : a \in 1 .. Len(array) \/ a = new.in
    <3>1. Len(new.array[s.array]) = Len(t) /\ Len(new.array) = Len(array)
      BY <2>4, <2>6, <2>7
    <3> QED
      BY <2>2, <2>3, <2>5, <3>1 DEF n
  <2>16. ToSet(Elements(s)) \cup {x} \subseteq First(new.array[new.in], s.len + 1)
    BY <2>2, <2>7, <2>14 DEF n, e
  <2>17. /\ \A a \in 1 .. Len(array) \ {s.array} : new.array[a] = array[a]
         /\ \A k \in 1 .. s.len : new.array[s.array][k] = array[s.array][k]
         /\ \A d \in Devices : Occurrences(d, new.array[s.array])
                                <= Occurrences(d, array[s.array]) + (IF d = x THEN 1 ELSE 0)
    BY <2>6, <2>7, <2>10, <2>11 DEF n, t
  <2> QED
    BY <2>2, <2>8, <2>15, <2>16, <2>17
<1>5. CASE ~(s.array # NoArray /\ n < Len(array[s.array]))
  <2> DEFINE m == IF n = 0 THEN 0 ELSE n - 1
             blank == Times(m, None)
             u == e \o <<x>> \o blank
             l == Len(array)
  <2>1. new.array = Append(array, u) /\ new.in = l + 1
    BY <1>5 DEF AppendTo
  <2>2. m \in Nat
    BY <1>1
  <2> HIDE DEF m
  <2>3. blank \in Seq(Element) /\ Len(blank) = m /\ ToSet(blank) \subseteq {None}
    BY <2>2, Blanks
  <2> DEFINE v == Append(e, x)
  <2>4. /\ v \in Seq(Element) /\ Len(v) = Len(e) + 1 /\ ToSet(v) = ToSet(e) \cup {x}
        /\ v = e \o <<x>> /\ Len(e) \in Nat
    BY <1>1, AppendElements, AppendProperties, AppendIsConcat, LenProperties
  <2> HIDE DEF blank, e, v
  <2>5. u = v \o blank
    BY <2>4
  <2>6. /\ u \in Seq(Element) /\ Len(u) = Len(v) + m
        /\ ToSet(u) = ToSet(v) \cup ToSet(blank)
    <3>1. v \in Seq(Element) /\ blank \in Seq(Element)
      BY <2>3, <2>4
    <3>2. /\ v \o blank \in Seq(Element) /\ Len(v \o blank) = Len(v) + Len(blank)
          /\ ToSet(v \o blank) = ToSet(v) \cup ToSet(blank)
      BY <3>1, ConcatElements
    <3> HIDE DEF u
    <3> QED
      BY <2>3, <2>5, <3>2
  <2>7. \A k \in 1 .. Len(v) : u[k] = v[k]
    <3>1. \A k \in 1 .. Len(v) + Len(blank) :
            (v \o blank)[k] = IF k <= Len(v) THEN v[k] ELSE blank[k - Len(v)]
      BY <2>3, <2>4, ConcatProperties
    <3>2. Len(v) \in Nat /\ Len(blank) \in Nat
      BY <2>2, <2>3, <2>4
    <3> QED
      BY <2>5, <3>1, <3>2
  <2>8. Len(e) = n
    <3>1. CASE s.array = NoArray
      BY <1>3, <3>1
    <3>2. CASE s.array # NoArray
      BY <1>3, <3>2
    <3> QED
      BY <3>1, <3>2
  <2> HIDE DEF u, n
  <2>9. /\ Append(array, u) \in Seq(Seq(Element)) /\ Len(Append(array, u)) = l + 1
        /\ \A a \in 1 .. l + 1 : Append(array, u)[a] = IF a <= l THEN array[a] ELSE u
    BY <2>6, AppendProperties
  <2>10. /\ new.array \in Seq(Seq(Element)) /\ Len(new.array) = l + 1
         /\ \A a \in 1 .. l : new.array[a] = array[a]
         /\ new.array[l + 1] = u
    BY <1>1, <2>1, <2>9
  <2>11. Kept(array, new.array)
    <3>1. \A a \in 1 .. l : Len(new.array[a]) = Len(array[a])
      BY <2>10
    <3>2. l <= Len(new.array)
      BY <1>1, <2>10
    <3> QED
      BY <2>10, <3>1, <3>2 DEF Kept
  <2>12. n + 1 \in 1 .. Len(u)
    BY <1>1, <2>2, <2>4, <2>6, <2>8
  <2>13. DOMAIN v = 1 .. n + 1 /\ Len(v) = n + 1
    BY <2>4, <2>8, LenProperties
  <2>14. ToSet(v) = First(u, n + 1)
    BY <2>7, <2>13 DEF ToSet, First
  <2>15. \A d \in Devices : Occurrences(d, u) <= Occurrences(d, e) + (IF d = x THEN 1 ELSE 0)
    <3> TAKE d \in Devices
    <3>1. Occurrences(d, blank) = 0
      <4>1. d # None
        BY ConstantsAssumption DEF ConstantsAssumption
      <4> QED
        BY <2>2, <4>1, OccurrencesInTimes DEF blank
    <3>2. Occurrences(d, v) = Occurrences(d, e) + (IF d = x THEN 1 ELSE 0)
      BY <1>1, OccurrencesInAppend DEF v
    <3>3. Occurrences(d, u) = Occurrences(d, v) + Occurrences(d, blank)
      BY <2>3, <2>4, <2>5, OccurrencesInConcat
    <3>4. Occurrences(d, e) \in Nat
      BY <1>1, OccurrencesInNat DEF e
    <3> QED
      BY <3>1, <3>2, <3>3, <3>4
  <2>16. s.array # NoArray =>
           s.array \in 1 .. l /\ new.array[s.array] = array[s.array]
    BY <1>3, <2>10
  <2>17. /\ new.in \in 1 .. Len(new.array) /\ s.len + 1 \in 1 .. Len(new.array[new.in])
         /\ \A a \in 1 .. Len(new.array) : a \in 1 .. l \/ a = new.in
    BY <1>1, <2>1, <2>10, <2>12 DEF n
  <2>18. ToSet(Elements(s)) \cup {x} \subseteq First(new.array[new.in], s.len + 1)
    BY <2>1, <2>4, <2>10, <2>14 DEF n, e
  <2>19. /\ \A a \in 1 .. l \ {s.array} : new.array[a] = array[a]
         /\ s.array # NoArray => \A k \in 1 .. s.len :
                                   new.array[s.array][k] = array[s.array][k]
         /\ s.array # NoArray => \A d \in Devices :
              Occurrences(d, new.array[s.array])
                <= Occurrences(d, array[s.array]) + (IF d = x THEN 1 ELSE 0)
    <3>1. s.array # NoArray => \A d \in Devices : Occurrences(d, array[s.array]) \in Nat
      BY <1>2, <2>16, OccurrencesInNat
    <3> QED
      BY <2>10, <2>16, <3>1
  <2>20. new.in = l + 1 /\ \A d \in Devices :
           Occurrences(d, new.array[new.in])
             <= Occurrences(d, Elements(s)) + (IF d = x THEN 1 ELSE 0)
    BY <2>1, <2>10, <2>15 DEF e
  <2>21. new.in = s.array \/ /\ new.in = Len(array) + 1
                             /\ \A d \in Devices :
                                  Occurrences(d, new.array[new.in])
                                    <= Occurrences(d, Elements(s)) + (IF d = x THEN 1 ELSE 0)
    BY <2>20
  <2> QED
    BY <2>11, <2>17, <2>18, <2>19, <2>21
<1> QED
  BY <1>4, <1>5

------------------------------------------------------------------------------
(* Types.                                                                   *)

\* What SendTypeOK says follows.
LEMMA SendTypes == RequestOK /\ SplitOK => SendTypeOK
<1> SUFFICES ASSUME RequestOK, SplitOK PROVE SendTypeOK
  OBVIOUS
<1>1. \A b \in DOMAIN batch :
        /\ batch[b].at \in {"get", "load", "append", "store", "done"}
        /\ Len(batch[b].ids) \in 0 .. BatchSize
        /\ at = "replied" => batch[b].at = "done"
  <2> TAKE b \in DOMAIN batch
  <2>1. batch[b] \in Goroutines
    BY ElementOfSeq, LenProperties DEF SplitOK
  <2>2. batch[b].ids \in Seq(Devices)
    BY <2>1 DEF Goroutines
  <2>3. Len(batch[b].ids) \in Nat /\ BatchSize \in Nat
    BY <2>2, LenProperties, SendAssumption DEF SendAssumption
  <2>4. Len(batch[b].ids) <= BatchSize
    BY DEF SplitOK, GoroutineOK
  <2>5. Len(batch[b].ids) \in 0 .. BatchSize
    BY <2>3, <2>4
  <2>6. batch[b].at \in {"get", "load", "append", "store", "done"}
    BY <2>1 DEF Goroutines
  <2>7. at = "replied" => batch[b].at = "done"
    BY DEF SplitOK
  <2> QED
    BY <2>5, <2>6, <2>7
<1>2. \A i \in Instances :
        lists[i].array # NoArray => lists[i].len \in 1 .. Len(array[lists[i].array])
  BY DEF SplitOK, Within, InArray
<1>3. \A i \in Instances : sending[i] \in Seq(Devices \cup {None})
  BY DEF SplitOK, Element
<1>4. reading \subseteq Instances \cup Users
  BY DEF SplitOK
<1> QED
  BY <1>1, <1>2, <1>3, <1>4 DEF RequestOK, SendTypeOK

\* The goroutines of a split, one by one.
LEMMA GoroutineTypes ==
    ASSUME SplitOK, NEW b \in DOMAIN batch
    PROVE  /\ b \in 1 .. Len(batch) /\ DOMAIN batch = 1 .. Len(batch)
           /\ batch[b] \in Goroutines /\ GoroutineOK(b)
           /\ at # "wait" => batch[b].at = "done"
BY ElementOfSeq, LenProperties DEF SplitOK

\* Before the split there are no goroutines.
LEMMA BeforeSplit ==
    ASSUME SplitOK, at \in {"idle", "collect", "each"}
    PROVE  batch = <<>> /\ DOMAIN batch = {}
BY DEF SplitOK

\* Collecting leaves the split alone.
LEMMA CollectSplit ==
    ASSUME SplitOK, at \in {"idle", "collect", "each"},
           UNCHANGED <<params, splitting, sending>>,
           reading' \subseteq IF SendAll THEN Instances ELSE Users
    PROVE  SplitOK'
<1>1. batch' = <<>> /\ DOMAIN batch' = {}
  BY BeforeSplit DEF splitting
<1> QED
  BY <1>1 DEF SplitOK, SendAll, splitting, Within

\* Collecting the devices and handing frames to the local ones.
LEMMA CollectTypes ==
    ASSUME TypeOK, RequestOK, SplitOK,
           \/ RequestArrives \/ ReadFails \/ Listed \/ EachDevice
           \/ \E i \in Instances : ReadInstanceSet(i)
           \/ \E u \in Users : ReadUserSet(u)
    PROVE  RequestOK' /\ SplitOK'
<1>1. params.uids \subseteq Users /\ params.names \subseteq Devices
  BY SendAssumption DEF SendAssumption, RequestOK
<1>2. /\ cluster \subseteq Instances /\ instSet \in [Instances -> SUBSET Devices]
      /\ \A u \in Users : userSet[u] \subseteq Devices
  BY DEF TypeOK, UserKeys
<1>3. CASE RequestArrives
  <2>1. /\ reading' = IF SendAll THEN cluster ELSE params.uids
        /\ at' = "collect" /\ found' = params.names /\ at = "idle"
        /\ steady' = {c \in Conns : WithinReach(c)}
        /\ UNCHANGED <<params, ids, remote, splitting, sending, outcome>>
    BY <1>3 DEF RequestArrives
  <2>2. SplitOK'
    BY <1>1, <1>2, <2>1, CollectSplit
  <2> QED
    BY <1>1, <2>1, <2>2 DEF RequestOK, outcome
<1>4. CASE ReadFails
  <2>1. SplitOK'
    BY <1>4, CollectSplit DEF ReadFails
  <2>2. <<>> \in Seq(Devices)
    BY EmptySeq
  <2> QED
    BY <1>1, <1>4, <2>1, <2>2 DEF ReadFails, RequestOK
<1>5. CASE Listed
  <2>1. SplitOK'
    BY <1>5, CollectSplit DEF Listed, SplitOK
  <2>2. IsFiniteSet(found)
    <3>1. found \in SUBSET Devices /\ IsFiniteSet(Devices)
      BY SendAssumption DEF SendAssumption, RequestOK
    <3> QED
      BY <3>1, FS_Subset
  <2>3. ids' \in Seq(Devices)
    <3>1. CASE SendAll
      BY <1>5, <3>1 DEF Listed, RequestOK
    <3>2. CASE ~SendAll
      <4>1. ids' \in SetToSeqs(found)
        BY <1>5, <3>2 DEF Listed
      <4>2. ids' \in Seq(found)
        BY <2>2, <4>1, ListOfSet
      <4> QED
        BY <4>2, SeqMonotonic DEF RequestOK
    <3> QED
      BY <3>1, <3>2
  <2>4. listed' \in [Devices -> Nat]
    <3>1. \A d \in Devices : Occurrences(d, ids') \in Nat
      BY <2>3, OccurrencesInNat
    <3> QED
      BY <1>5, <3>1 DEF Listed
  <2> QED
    BY <1>5, <2>1, <2>3, <2>4 DEF Listed, RequestOK
<1>6. CASE EachDevice
  <2> DEFINE d == Head(ids)
  <2>1. /\ at = "each" /\ ids # <<>> /\ ids' = Tail(ids)
        /\ UNCHANGED <<params, at, reading, found, splitting, sending, listed, failed, steady>>
        /\ \/ /\ named' = [named EXCEPT ![d] = Append(@, Self)]
              /\ given' = [given EXCEPT ![d] = Append(@, Self)]
              /\ remote' = remote
           \/ remote' = Append(remote, d) /\ UNCHANGED <<named, given>>
    BY <1>6 DEF EachDevice, RemoteAfterLocal
  <2>2. SplitOK'
    BY <2>1, CollectSplit DEF SplitOK
  <2>3. d \in Devices /\ ids' \in Seq(Devices)
    BY <2>1, TailElements DEF RequestOK
  <2>4. Append(remote, d) \in Seq(Devices)
    BY <2>3, AppendElements DEF RequestOK
  <2>5. Self \in Instances
    BY SendAssumption DEF SendAssumption
  <2> HIDE DEF d
  <2>6. /\ named' \in [Devices -> Seq(Instances \cup {None})]
        /\ given' \in [Devices -> Seq(Instances)]
    <3>1. /\ named \in [Devices -> Seq(Instances \cup {None})]
          /\ given \in [Devices -> Seq(Instances)]
      BY DEF RequestOK
    <3>2. Append(named[d], Self) \in Seq(Instances \cup {None})
      BY <2>3, <2>5, <3>1, AppendElements
    <3>3. Append(given[d], Self) \in Seq(Instances)
      BY <2>3, <2>5, <3>1, AppendElements
    <3> QED
      BY <2>1, <3>1, <3>2, <3>3
  <2>7. remote' \in Seq(Devices)
    BY <2>1, <2>4 DEF RequestOK
  <2> QED
    BY <2>1, <2>2, <2>3, <2>6, <2>7 DEF RequestOK
<1>7. ASSUME NEW i \in Instances, ReadInstanceSet(i) PROVE RequestOK' /\ SplitOK'
  <2>1. SplitOK'
    BY <1>7, CollectSplit DEF ReadInstanceSet, SplitOK
  <2>2. IsFiniteSet(instSet[i]) /\ instSet[i] \subseteq Devices
    <3>1. instSet[i] \in SUBSET Devices /\ IsFiniteSet(Devices)
      BY <1>2, SendAssumption DEF SendAssumption
    <3> QED
      BY <3>1, FS_Subset
  <2>3. PICK members \in SetToSeqs(instSet[i]) : ids' = ids \o members
    BY <1>7 DEF ReadInstanceSet
  <2>4. members \in Seq(Devices)
    BY <2>2, <2>3, ListOfSet, SeqMonotonic
  <2>5. ids' \in Seq(Devices)
    BY <2>3, <2>4, ConcatProperties DEF RequestOK
  <2> QED
    BY <1>7, <2>1, <2>5 DEF ReadInstanceSet, RequestOK, outcome
<1>8. ASSUME NEW u \in Users, ReadUserSet(u) PROVE RequestOK' /\ SplitOK'
  <2>1. SplitOK'
    BY <1>8, CollectSplit DEF ReadUserSet, SplitOK
  <2> QED
    BY <1>2, <1>8, <2>1 DEF ReadUserSet, RequestOK, outcome
<1> QED
  BY <1>3, <1>4, <1>5, <1>6, <1>7, <1>8

\* The split begins as many goroutines as its ids fill batches.
LEMMA Batching ==
    ASSUME NEW S, NEW s \in Seq(S)
    PROVE  /\ Batches(s) \in Nat
           /\ Batches(s) = 0 => s = <<>>
           /\ Batches(s) = 1 => Len(s) <= BatchSize
           /\ \A b \in 1 .. Batches(s) :
                (b - 1) * BatchSize \in Nat /\ (b - 1) * BatchSize < Len(s)
<1> DEFINE l == Len(s)
           B == BatchSize
           q == (l + B - 1) \div B
<1>1. l \in Nat /\ B \in Nat \ {0} /\ Batches(s) = q
  BY LenProperties, SendAssumption DEF SendAssumption, Batches
<1> HIDE DEF l, B
<1>2. q \in Int /\ B * q <= l + B - 1 /\ l + B - 1 < B * q + B
  BY <1>1, Z3
<1> HIDE DEF q
<1>3. q \in Nat
  BY <1>1, <1>2, Z3
<1>4. q = 0 => l = 0
  BY <1>1, <1>2
<1>5. q = 1 => l <= B
  BY <1>1, <1>2
<1>6. ASSUME NEW b \in 1 .. q PROVE (b - 1) * B \in Nat /\ (b - 1) * B < l
  <2>1. b - 1 \in Nat /\ q - b \in Nat /\ b \in Int
    BY <1>3
  <2>2. (q - b) * B \in Nat /\ (b - 1) * B \in Nat
    BY <1>1, <2>1
  <2>3. B * q = (q - b) * B + (b - 1) * B + B
    BY <1>1, <1>2, <2>1
  <2> DEFINE x == (q - b) * B
             y == (b - 1) * B
             z == B * q
  <2>4. x \in Nat /\ y \in Nat /\ z = x + y + B /\ z <= l + B - 1
    BY <1>2, <2>2, <2>3
  <2> HIDE DEF x, y, z
  <2>5. y < l
    BY <1>1, <2>4
  <2> QED
    BY <2>4, <2>5 DEF y
<1>7. l = 0 => s = <<>>
  BY EmptySeq DEF l
<1> QED
  BY <1>1, <1>3, <1>4, <1>5, <1>6, <1>7 DEF l, B

\* The goroutines of a split have what is remote, and nothing else to do.
LEMMA SplitTypes ==
    ASSUME RequestOK, SplitOK, Split
    PROVE  RequestOK' /\ SplitOK'
<1> DEFINE n == Batches(remote)
           G(b) == [at |-> "get", ids |-> Part(remote, (b - 1) * BatchSize),
                    todo |-> <<>>, val |-> NoSlice]
<1>1. /\ at = "each" /\ at' = IF remote = <<>> THEN "replied" ELSE "wait"
      /\ batch' = [b \in 1 .. n |-> G(b)]
      /\ remote' = <<>>
      /\ UNCHANGED <<params, reading, found, ids, array, lists, sending, outcome, steady>>
  BY DEF Split
<1>2. /\ remote \in Seq(Devices) /\ n \in Nat /\ Len(remote) \in Nat
      /\ \A b \in 1 .. n : /\ (b - 1) * BatchSize \in Nat
                           /\ (b - 1) * BatchSize < Len(remote)
  BY Batching, LenProperties DEF RequestOK
<1>3. ASSUME NEW b \in 1 .. n
      PROVE  /\ Part(remote, (b - 1) * BatchSize) \in Seq(Devices)
             /\ Len(Part(remote, (b - 1) * BatchSize)) <= BatchSize
             /\ Part(remote, (b - 1) * BatchSize) # <<>>
  <2> DEFINE i == (b - 1) * BatchSize
  <2>1. i \in Nat /\ i < Len(remote)
    BY <1>2
  <2> HIDE DEF i
  <2>2. i <= Len(remote) /\ Len(remote) # i
    BY <1>2, <2>1
  <2>3. /\ Part(remote, i) \in Seq(Devices) /\ Len(Part(remote, i)) <= BatchSize
        /\ Part(remote, i) # <<>>
    BY <1>2, <2>1, <2>2, PartElements
  <2> QED
    BY <2>3 DEF i
<1>4. \A b \in 1 .. n : G(b) \in Goroutines
  <2>1. <<>> \in Seq(Pairs) /\ NoSlice \in Slices
    BY EmptySeq DEF NoSlice, Slice, NoArray, Slices
  <2> QED
    BY <1>3, <2>1 DEF Goroutines
<1> HIDE DEF n
<1>5. batch' \in Seq(Goroutines) /\ DOMAIN batch' = 1 .. n /\ \A b \in 1 .. n : batch'[b] = G(b)
  <2> HIDE DEF G
  <2>1. batch' \in [1 .. n -> Goroutines]
    BY <1>1, <1>4
  <2> QED
    BY <1>1, <1>2, <2>1
<1>6. \A b \in 1 .. n : GoroutineOK(b)' /\ batch'[b].at = "get"
  BY <1>3, <1>5 DEF GoroutineOK, Loaded
<1>7. remote = <<>> => n = 0
  <2>1. remote = <<>> => Len(remote) = 0
    BY EmptySeq
  <2>2. CASE n # 0
    <3>1. 1 \in 1 .. n
      BY <1>2, <2>2
    <3> QED
      BY <1>2, <2>1, <3>1
  <2> QED
    BY <2>2
<1>8. at' # "wait" => DOMAIN batch' = {}
  BY <1>1, <1>5, <1>7
<1>9. SplitOK'
  <2>1. /\ reading' \subseteq IF SendAll' THEN Instances ELSE Users
        /\ array' \in Seq(Seq(Element)) /\ lists' \in [Instances -> Slices]
        /\ \A i \in Instances : Within(lists[i])'
        /\ sending' \in [Instances -> Seq(Element)]
    BY <1>1 DEF SplitOK, SendAll, Within
  <2>2. at' \notin {"idle", "collect", "each"}
    BY <1>1
  <2> QED
    BY <1>5, <1>6, <1>8, <2>1, <2>2 DEF SplitOK
<1>10. <<>> \in Seq(Devices)
  BY EmptySeq
<1> QED
  BY <1>1, <1>9, <1>10 DEF RequestOK, outcome

\* A step of one goroutine leaves the others as they are.
LEMMA OneGoroutine ==
    ASSUME batch \in Seq(Goroutines), NEW b \in DOMAIN batch, NEW g \in Goroutines
    PROVE  LET new == [batch EXCEPT ![b] = g] IN
           /\ new \in Seq(Goroutines) /\ Len(new) = Len(batch) /\ DOMAIN new = DOMAIN batch
           /\ new[b] = g /\ \A k \in DOMAIN batch : k # b => new[k] = batch[k]
<1> DEFINE new == [batch EXCEPT ![b] = g]
<1>1. b \in 1 .. Len(batch) /\ DOMAIN batch = 1 .. Len(batch)
  BY LenProperties
<1>2. /\ new \in Seq(Goroutines) /\ Len(new) = Len(batch)
      /\ \A k \in 1 .. Len(batch) : new[k] = IF k = b THEN g ELSE batch[k]
  BY <1>1, ExceptSeq
<1> HIDE DEF new
<1>3. DOMAIN new = 1 .. Len(batch)
  BY <1>2, LenProperties
<1>4. /\ new \in Seq(Goroutines) /\ Len(new) = Len(batch) /\ DOMAIN new = DOMAIN batch
      /\ new[b] = g /\ \A k \in DOMAIN batch : k # b => new[k] = batch[k]
  BY <1>1, <1>2, <1>3
<1> QED
  BY <1>4 DEF new

\* Where a goroutine at work takes the request: it waits for it.
LEMMA AtWork ==
    ASSUME SplitOK, NEW b \in DOMAIN batch, batch[b].at # "done"
    PROVE  at = "wait"
BY DEF SplitOK

\* What the split needs of a goroutine's step.
LEMMA GoroutineSplit ==
    ASSUME SplitOK, NEW b \in DOMAIN batch, batch[b].at # "done",
           NEW g \in Goroutines, batch' = [batch EXCEPT ![b] = g],
           Kept(array, array'), UNCHANGED <<params, at, reading, sending>>,
           lists' \in [Instances -> Slices], \A i \in Instances : Within(lists[i])',
           GoroutineOK(b)'
    PROVE  /\ SplitOK' /\ DOMAIN batch' = DOMAIN batch /\ Len(batch') = Len(batch)
           /\ batch'[b] = g /\ \A k \in DOMAIN batch : k # b => batch'[k] = batch[k]
<1>1. /\ batch' \in Seq(Goroutines) /\ DOMAIN batch' = DOMAIN batch
      /\ Len(batch') = Len(batch) /\ batch'[b] = g
      /\ \A k \in DOMAIN batch : k # b => batch'[k] = batch[k]
  BY OneGoroutine DEF SplitOK
<1>2. at = "wait" /\ at' = "wait"
  BY AtWork
<1>3. ASSUME NEW k \in DOMAIN batch PROVE GoroutineOK(k)'
  <2>1. CASE k = b
    BY <2>1
  <2>2. CASE k # b
    <3>1. batch'[k] = batch[k] /\ batch[k] \in Goroutines /\ GoroutineOK(k)
      BY <1>1, <2>2, GoroutineTypes
    <3>2. batch[k].val \in Slices /\ array \in Seq(Seq(Element))
      BY <3>1 DEF Goroutines, SplitOK
    <3>3. InArray(array, batch[k].val) => InArray(array', batch[k].val)
      BY <3>2, StillWithin
    <3> QED
      BY <3>1, <3>3 DEF GoroutineOK, Loaded, Target, Within
  <2> QED
    BY <2>1, <2>2
<1>4. array' \in Seq(Seq(Element))
  BY DEF Kept
<1>5. reading' \subseteq IF SendAll' THEN Instances ELSE Users
  BY DEF SplitOK, SendAll
<1>6. sending' \in [Instances -> Seq(Element)]
  BY DEF SplitOK
<1>7. SplitOK'
  BY <1>1, <1>2, <1>3, <1>4, <1>5, <1>6 DEF SplitOK
<1> QED
  BY <1>1, <1>7

\* Nothing is lost of what is not appended to.
LEMMA KeptSame ==
    ASSUME SplitOK, UNCHANGED array
    PROVE  Kept(array, array')
BY LenProperties DEF Kept, SplitOK

\* The next id.
LEMMA NextIdTypes ==
    ASSUME SplitOK, NEW b \in DOMAIN batch, batch[b].at \in {"load", "append", "store"},
           NEW g, g = NextId(batch[b])
    PROVE  /\ g \in Goroutines /\ g.todo = Tail(batch[b].todo) /\ g.ids = <<>>
           /\ g.at = IF g.todo = <<>> THEN "done" ELSE "load"
           /\ batch[b].todo \in Seq(Pairs) /\ batch[b].todo # <<>>
           /\ Head(batch[b].todo) \in Pairs
<1>1. /\ batch[b] \in Goroutines /\ batch[b].ids = <<>>
      /\ batch[b].todo \in Seq(Pairs) /\ batch[b].todo # <<>>
  BY GoroutineTypes DEF GoroutineOK, Goroutines
<1>2. Tail(batch[b].todo) \in Seq(Pairs) /\ Head(batch[b].todo) \in Pairs
  BY <1>1, TailElements
<1>3. NoSlice \in Slices
  BY DEF NoSlice, Slice, NoArray, Slices
<1> QED
  BY <1>1, <1>2, <1>3 DEF NextId, Goroutines

\* Each id has what its HGET returned.
LEMMA AddressedTypes ==
    ASSUME TypeOK, NEW s \in Seq(Devices), NEW t, t = Addressed(s)
    PROVE  /\ t \in Seq(Pairs) /\ Len(t) = Len(s) /\ DOMAIN t = DOMAIN s
           /\ \A k \in DOMAIN s : t[k] = [id |-> s[k], address |-> AddressOf(s[k])]
           /\ \A d \in Devices : AddressOf(d) \in Instances \cup {None}
<1>1. \A d \in Devices : AddressOf(d) \in Instances \cup {None}
  BY DEF TypeOK, AddressOf
<1>2. Len(s) \in Nat /\ DOMAIN s = 1 .. Len(s) /\ \A k \in 1 .. Len(s) : s[k] \in Devices
  BY LenProperties
<1>3. t = [k \in 1 .. Len(s) |-> [id |-> s[k], address |-> AddressOf(s[k])]]
  BY <1>2 DEF Addressed
<1>4. \A k \in 1 .. Len(s) : [id |-> s[k], address |-> AddressOf(s[k])] \in Pairs
  BY <1>1, <1>2 DEF Pairs
<1>5. t \in [1 .. Len(s) -> Pairs]
  BY <1>3, <1>4
<1>6. t \in Seq(Pairs) /\ DOMAIN t = 1 .. Len(s)
  BY <1>2, <1>5
<1>7. Len(t) = Len(s)
  BY <1>2, <1>6, LenProperties
<1> QED
  BY <1>1, <1>2, <1>3, <1>6, <1>7

\* The pipeline returns the addresses, or an error.
LEMMA GetTypes ==
    ASSUME TypeOK, RequestOK, SplitOK, NEW b \in DOMAIN batch,
           GetAddresses(b) \/ GetFails(b)
    PROVE  RequestOK' /\ SplitOK'
<1> DEFINE g == [at |-> "load", ids |-> <<>>, todo |-> Addressed(batch[b].ids),
                 val |-> NoSlice]
           h == [batch[b] EXCEPT !.at = "done", !.ids = <<>>]
<1>1. batch[b] \in Goroutines /\ GoroutineOK(b) /\ batch[b].at = "get"
  BY GoroutineTypes DEF GetAddresses, GetFails
<1>2. batch[b].ids \in Seq(Devices) /\ batch[b].ids # <<>> /\ batch[b].todo = <<>>
  BY <1>1 DEF Goroutines, GoroutineOK
<1>3. /\ Addressed(batch[b].ids) \in Seq(Pairs) /\ Addressed(batch[b].ids) # <<>>
      /\ \A d \in Devices : AddressOf(d) \in Instances \cup {None}
  <2>1. /\ Addressed(batch[b].ids) \in Seq(Pairs)
        /\ Len(Addressed(batch[b].ids)) = Len(batch[b].ids)
        /\ \A d \in Devices : AddressOf(d) \in Instances \cup {None}
    BY <1>2, AddressedTypes
  <2>2. Len(batch[b].ids) # 0
    BY <1>2, EmptySeq
  <2> QED
    BY <2>1, <2>2, EmptySeq
<1>4. /\ NoSlice \in Slices /\ <<>> \in Seq(Devices)
      /\ Len(<<>>) <= BatchSize
  BY EmptySeq, SendAssumption DEF SendAssumption, NoSlice, Slice, NoArray, Slices
<1>5. Kept(array, array') /\ UNCHANGED <<params, at, reading, array, lists, sending>>
  BY KeptSame DEF GetAddresses, GetFails, collecting
<1>6. lists' \in [Instances -> Slices] /\ \A i \in Instances : Within(lists[i])'
  BY <1>5 DEF SplitOK, Within
<1>7. CASE GetAddresses(b)
  <2>1. batch' = [batch EXCEPT ![b] = g] /\ g \in Goroutines
    BY <1>3, <1>4, <1>7 DEF GetAddresses, Goroutines
  <2>2. batch'[b] = g
    BY <2>1, OneGoroutine DEF SplitOK
  <2>3. GoroutineOK(b)'
    BY <1>3, <1>4, <2>2 DEF GoroutineOK, Loaded
  <2> HIDE DEF g
  <2>4. SplitOK'
    BY <1>1, <1>5, <1>6, <2>1, <2>3, GoroutineSplit
  <2>5. named' \in [Devices -> Seq(Instances \cup {None})]
    <3> DEFINE hits(d) == Times(Occurrences(d, batch[b].ids), AddressOf(d))
    <3>1. named' = [d \in Devices |-> named[d] \o hits(d)]
      BY <1>7 DEF GetAddresses
    <3>2. ASSUME NEW d \in Devices PROVE named[d] \o hits(d) \in Seq(Instances \cup {None})
      <4>1. Occurrences(d, batch[b].ids) \in Nat
        BY <1>2, OccurrencesInNat
      <4>2. AddressOf(d) \in Instances \cup {None}
        BY <1>3
      <4>3. hits(d) \in Seq(Instances \cup {None})
        BY <4>1, <4>2, TimesTypes
      <4> HIDE DEF hits
      <4> QED
        BY <4>3, ConcatProperties DEF RequestOK
    <3> HIDE DEF hits
    <3> QED
      BY <3>1, <3>2
  <2> QED
    BY <1>7, <2>4, <2>5 DEF GetAddresses, collecting, RequestOK
<1>8. CASE GetFails(b)
  <2>1. batch' = [batch EXCEPT ![b] = h] /\ h \in Goroutines
    BY <1>1, <1>4, <1>8 DEF GetFails, Goroutines
  <2>2. batch'[b] = h
    BY <2>1, OneGoroutine DEF SplitOK
  <2>3. GoroutineOK(b)'
    BY <1>1, <1>2, <1>4, <2>2 DEF GoroutineOK, Loaded, Goroutines
  <2> HIDE DEF h
  <2>4. SplitOK'
    BY <1>1, <1>5, <1>6, <2>1, <2>3, GoroutineSplit
  <2> QED
    BY <1>8, <2>4 DEF GetFails, collecting, RequestOK
<1> QED
  BY <1>7, <1>8

\* An id without an address is passed over.
LEMMA SkipTypes ==
    ASSUME RequestOK, SplitOK, NEW b \in DOMAIN batch, SkipDevice(b)
    PROVE  RequestOK' /\ SplitOK'
<1> DEFINE g == NextId(batch[b])
<1>1. /\ batch[b].at = "load" /\ batch' = [batch EXCEPT ![b] = g]
      /\ UNCHANGED <<params, at, reading, array, lists, sending>>
  BY DEF SkipDevice, collecting
<1>2. /\ g \in Goroutines /\ g.ids = <<>> /\ g.at = IF g.todo = <<>> THEN "done" ELSE "load"
  BY <1>1, NextIdTypes
<1> HIDE DEF g
<1>3. batch'[b] = g
  BY <1>1, <1>2, OneGoroutine DEF SplitOK
<1>4. Len(<<>>) <= BatchSize
  BY EmptySeq, SendAssumption DEF SendAssumption
<1>5. GoroutineOK(b)'
  BY <1>2, <1>3, <1>4 DEF GoroutineOK, Loaded
<1>6. lists' \in [Instances -> Slices] /\ \A i \in Instances : Within(lists[i])'
  BY <1>1 DEF SplitOK, Within
<1>7. SplitOK'
  BY <1>1, <1>2, <1>5, <1>6, KeptSame, GoroutineSplit
<1> QED
  BY <1>7 DEF SkipDevice, collecting, outcome, RequestOK

\* What a goroutine is to load or store has an address, which is a broker's.
LEMMA TargetTypes ==
    ASSUME SplitOK, NEW b \in DOMAIN batch, batch[b].at \in {"load", "append", "store"},
           Target(b) # None
    PROVE  Target(b) \in Instances /\ Head(batch[b].todo).id \in Devices
BY NextIdTypes DEF Target, Pairs

\* The list of the broker is loaded, or an empty one stored.
LEMMA LoadTypes ==
    ASSUME RequestOK, SplitOK, NEW b \in DOMAIN batch, LoadOrStore(b)
    PROVE  /\ RequestOK' /\ SplitOK' /\ Target(b) \in Instances
           /\ lists'[Target(b)] = IF lists[Target(b)] = NoSlice THEN Slice(NoArray, 0)
                                                               ELSE lists[Target(b)]
           /\ batch'[b] = [batch[b] EXCEPT !.at = "append", !.val = lists'[Target(b)]]
<1> DEFINE i == Target(b)
           val == IF lists[i] = NoSlice THEN Slice(NoArray, 0) ELSE lists[i]
           g == [batch[b] EXCEPT !.at = "append", !.val = val]
<1>1. /\ batch[b].at = "load" /\ i # None
      /\ lists' = [lists EXCEPT ![i] = val]
      /\ batch' = [batch EXCEPT ![b].at = "append", ![b].val = val]
      /\ UNCHANGED <<params, at, reading, array, sending>>
  BY DEF LoadOrStore, collecting, Target
<1>2. i \in Instances /\ lists \in [Instances -> Slices] /\ Within(lists[i])
  BY <1>1, TargetTypes DEF SplitOK
<1>3. batch[b] \in Goroutines /\ GoroutineOK(b)
  BY GoroutineTypes
<1>4. batch' = [batch EXCEPT ![b] = g]
  BY <1>1
<1>5. val \in Slices /\ Within(val) /\ val.len >= 0
  <2>1. Slice(NoArray, 0) \in Slices /\ Within(Slice(NoArray, 0))
    BY DEF Slice, NoArray, Slices, Within, InArray
  <2>2. CASE lists[i] = NoSlice
    BY <2>1, <2>2 DEF Slice
  <2>3. CASE lists[i] # NoSlice /\ lists[i].array # NoArray
    BY <1>2, <2>3 DEF Within, InArray, Slices
  <2>4. CASE lists[i] # NoSlice /\ lists[i].array = NoArray
    <3>1. lists[i] \in Slices /\ lists[i].len \in {-1, 0}
      BY <1>2, <2>4 DEF Within, InArray
    <3>2. lists[i] = [array |-> lists[i].array, len |-> lists[i].len]
      BY <3>1 DEF Slices
    <3>3. lists[i].len = 0
      BY <2>4, <3>1, <3>2 DEF NoSlice, Slice
    <3> QED
      BY <1>2, <2>4, <3>3
  <2> QED
    BY <2>2, <2>3, <2>4
<1> HIDE DEF val
<1>6. g \in Goroutines
  BY <1>3, <1>5 DEF Goroutines
<1>7. batch'[b] = g
  BY <1>4, <1>6, OneGoroutine DEF SplitOK
<1>8. GoroutineOK(b)'
  BY <1>1, <1>3, <1>5, <1>7 DEF GoroutineOK, Loaded, Target, Within, Goroutines
<1> HIDE DEF g
<1>9. lists' \in [Instances -> Slices] /\ lists'[i] = val
  BY <1>1, <1>2, <1>5
<1>10. ASSUME NEW j \in Instances PROVE Within(lists[j])'
  <2>1. InArray(array, lists[j]) /\ InArray(array, val)
    BY <1>5 DEF SplitOK, Within
  <2>2. lists'[j] = lists[j] \/ lists'[j] = val
    BY <1>1, <1>2
  <2> QED
    BY <1>1, <2>1, <2>2 DEF Within
<1>11. SplitOK'
  BY <1>1, <1>4, <1>6, <1>8, <1>9, <1>10, KeptSame, GoroutineSplit
<1>12. RequestOK'
  BY DEF LoadOrStore, collecting, outcome, RequestOK
<1> QED
  BY <1>2, <1>7, <1>9, <1>11, <1>12 DEF g, val

\* The id is appended to what was loaded.
LEMMA AppendTypes ==
    ASSUME RequestOK, SplitOK, NEW b \in DOMAIN batch, AppendDevice(b),
           NEW new, new = AppendTo(batch[b].val, Head(batch[b].todo).id)
    PROVE  /\ RequestOK' /\ SplitOK' /\ Target(b) \in Instances
           /\ batch[b].val \in Slices /\ Within(batch[b].val) /\ batch[b].val.len >= 0
           /\ Head(batch[b].todo).id \in Devices /\ array' = new.array
           /\ batch'[b] = [batch[b] EXCEPT !.at = "store",
                                           !.val = Slice(new.in, batch[b].val.len + 1)]
<1> DEFINE s == batch[b].val
           x == Head(batch[b].todo).id
           g == [batch[b] EXCEPT !.at = "store", !.val = Slice(new.in, s.len + 1)]
<1>1. /\ batch[b].at = "append" /\ array' = new.array
      /\ batch' = [batch EXCEPT ![b].at = "store", ![b].val = Slice(new.in, s.len + 1)]
      /\ UNCHANGED <<params, at, reading, lists, sending>>
  BY DEF AppendDevice, collecting
<1>2. batch[b] \in Goroutines /\ GoroutineOK(b)
  BY GoroutineTypes
<1>3. s \in Slices /\ Within(s) /\ s.len >= 0 /\ Target(b) # None
  BY <1>1, <1>2 DEF GoroutineOK, Loaded, Goroutines
<1>4. Target(b) \in Instances /\ x \in Devices
  BY <1>1, <1>3, TargetTypes
<1>5. array \in Seq(Seq(Element)) /\ x \in Element
  BY <1>4 DEF SplitOK, Element
<1> HIDE DEF s, x
<1>6. /\ Kept(array, new.array) /\ new.in \in 1 .. Len(new.array)
      /\ s.len + 1 \in 1 .. Len(new.array[new.in])
  <2>1. new = AppendTo(s, x)
    BY DEF s, x
  <2> QED
    BY <1>3, <1>5, <2>1, Appended
<1>7. Slice(new.in, s.len + 1) \in Slices
  BY <1>3, <1>6 DEF Slice, Slices
<1>8. batch' = [batch EXCEPT ![b] = g] /\ g \in Goroutines
  BY <1>1, <1>2, <1>7 DEF Goroutines
<1>9. batch'[b] = g
  BY <1>8, OneGoroutine DEF SplitOK
<1>10. new.in # NoArray /\ new.in <= Len(new.array)
  BY <1>6 DEF NoArray
<1>11. InArray(new.array, Slice(new.in, s.len + 1)) /\ s.len + 1 >= 0
  BY <1>3, <1>6, <1>10 DEF InArray, Slice, Slices
<1>12. GoroutineOK(b)'
  <2>1. /\ batch'[b].at = "store" /\ batch'[b].ids = batch[b].ids
        /\ batch'[b].todo = batch[b].todo /\ batch'[b].val = Slice(new.in, s.len + 1)
    BY <1>2, <1>9 DEF Goroutines
  <2>2. Len(batch[b].ids) <= BatchSize /\ batch[b].ids = <<>> /\ batch[b].todo # <<>>
    BY <1>1, <1>2 DEF GoroutineOK
  <2>3. Within(batch[b].val)' /\ batch'[b].val.len >= 0 /\ batch'[b].val.array # NoArray
    BY <1>1, <1>10, <1>11, <2>1 DEF Within, Slice
  <2> QED
    BY <1>3, <2>1, <2>2, <2>3 DEF GoroutineOK, Loaded, Target
<1>13. lists' \in [Instances -> Slices] /\ Kept(array, array')
  BY <1>1, <1>6 DEF SplitOK
<1>14. ASSUME NEW i \in Instances PROVE Within(lists[i])'
  <2>1. InArray(array, lists[i]) /\ lists[i] \in Slices
    BY DEF SplitOK, Within
  <2>2. InArray(array', lists[i])
    BY <1>5, <1>13, <2>1, StillWithin
  <2> QED
    BY <1>1, <2>2 DEF Within
<1> HIDE DEF g
<1>15. SplitOK'
  BY <1>1, <1>8, <1>12, <1>13, <1>14, GoroutineSplit
<1>16. RequestOK'
  BY DEF AppendDevice, collecting, outcome, RequestOK
<1> QED
  BY <1>1, <1>3, <1>4, <1>9, <1>15, <1>16 DEF s, x, g

\* The list of the broker is replaced.
LEMMA StoreTypes ==
    ASSUME RequestOK, SplitOK, NEW b \in DOMAIN batch, Store(b)
    PROVE  RequestOK' /\ SplitOK' /\ Target(b) \in Instances
<1> DEFINE g == NextId(batch[b])
           i == Target(b)
<1>1. /\ batch[b].at = "store" /\ batch' = [batch EXCEPT ![b] = g]
      /\ lists' = [lists EXCEPT ![i] = batch[b].val]
      /\ UNCHANGED <<params, at, reading, array, sending>>
  BY DEF Store, Target, collecting
<1>2. batch[b] \in Goroutines /\ GoroutineOK(b)
  BY GoroutineTypes
<1>3. batch[b].val \in Slices /\ Within(batch[b].val) /\ i \in Instances
  BY <1>1, <1>2, TargetTypes DEF GoroutineOK, Loaded, Goroutines
<1>4. /\ g \in Goroutines /\ g.ids = <<>> /\ g.at = IF g.todo = <<>> THEN "done" ELSE "load"
  BY <1>1, NextIdTypes
<1> HIDE DEF g, i
<1>5. batch'[b] = g
  BY <1>1, <1>4, OneGoroutine DEF SplitOK
<1>6. Len(<<>>) <= BatchSize
  BY EmptySeq, SendAssumption DEF SendAssumption
<1>7. GoroutineOK(b)'
  BY <1>4, <1>5, <1>6 DEF GoroutineOK, Loaded
<1>8. lists' \in [Instances -> Slices]
  BY <1>1, <1>3 DEF SplitOK
<1>9. ASSUME NEW j \in Instances PROVE Within(lists[j])'
  <2>1. InArray(array, lists[j]) /\ InArray(array, batch[b].val)
    BY <1>3 DEF SplitOK, Within
  <2>2. lists'[j] = lists[j] \/ lists'[j] = batch[b].val
    BY <1>1, <1>3 DEF SplitOK
  <2> QED
    BY <1>1, <2>1, <2>2 DEF Within
<1>10. SplitOK'
  BY <1>1, <1>4, <1>7, <1>8, <1>9, KeptSame, GoroutineSplit
<1>11. RequestOK'
  BY DEF Store, collecting, outcome, RequestOK
<1> QED
  BY <1>3, <1>10, <1>11 DEF i

\* When all goroutines are done, each broker gets blank instructions and then its list.
LEMMA DispatchTypes ==
    ASSUME RequestOK, SplitOK, Dispatch
    PROVE  /\ RequestOK' /\ SplitOK'
           /\ \A i \in Instances :
                ToSet(Elements(lists[i])) \subseteq ToSet(sending'[i])
                /\ ToSet(sending'[i]) \subseteq ToSet(Elements(lists[i])) \cup {None}
<1> DEFINE all(i) == Elements(lists[i])
           blank(i) == Times(Len(all(i)), None)
<1>1. /\ at = "wait" /\ AllDone /\ at' = "replied"
      /\ sending' = [i \in Instances |-> blank(i) \o all(i)]
      /\ UNCHANGED <<params, reading, batch, array, lists>>
  BY DEF Dispatch, collecting, splitting
<1>2. ASSUME NEW i \in Instances
      PROVE  /\ blank(i) \o all(i) \in Seq(Element)
             /\ ToSet(all(i)) \subseteq ToSet(blank(i) \o all(i))
             /\ ToSet(blank(i) \o all(i)) \subseteq ToSet(all(i)) \cup {None}
  <2> DEFINE e == all(i)
             n == Len(e)
             f == blank(i)
  <2>1. /\ lists[i] \in Slices /\ InArray(array, lists[i]) /\ array \in Seq(Seq(Element))
        /\ e = ElementsIn(array, lists[i])
    BY DEF SplitOK, Within, Elements, ElementsIn
  <2> HIDE DEF all
  <2>2. e \in Seq(Element)
    <3> HIDE DEF e
    <3> QED
      BY <2>1, SliceElements
  <2>3. n \in Nat /\ f = Times(n, None)
    BY <2>2, LenProperties
  <2> HIDE DEF blank, n
  <2>4. f \in Seq(Element) /\ ToSet(f) \subseteq {None}
    <3> HIDE DEF f
    <3> QED
      BY <2>3, Blanks
  <2> HIDE DEF e, f
  <2>5. f \o e \in Seq(Element) /\ ToSet(f \o e) = ToSet(f) \cup ToSet(e)
    BY <2>2, <2>4, ConcatElements
  <2> QED
    BY <2>4, <2>5 DEF e, f
<1> HIDE DEF all, blank
<1>3. \A i \in Instances : sending'[i] = blank(i) \o all(i)
  BY <1>1
<1>4. sending' \in [Instances -> Seq(Element)]
  BY <1>1, <1>2
<1>5. \A b \in DOMAIN batch : GoroutineOK(b)' /\ batch'[b].at = "done"
  BY <1>1 DEF AllDone, SplitOK, GoroutineOK, Loaded, Target, Within
<1>6. SplitOK'
  BY <1>1, <1>4, <1>5 DEF SplitOK, SendAll, Within
<1>7. RequestOK'
  BY DEF Dispatch, collecting, outcome, RequestOK
<1> QED
  BY <1>2, <1>3, <1>6, <1>7 DEF all

\* A pipeline publishes the next instructions, or they are lost.
LEMMA PublishTypes ==
    ASSUME RequestOK, SplitOK, NEW i \in Instances, PublishBatch(i) \/ PublishFails(i)
    PROVE  /\ RequestOK' /\ SplitOK'
           /\ sending' = [sending EXCEPT ![i] = After(sending[i])]
           /\ ToSet(sending[i]) = ToSet(Part(sending[i], 0)) \cup ToSet(After(sending[i]))
           /\ After(sending[i]) \in Seq(Element)
<1> DEFINE now == Part(sending[i], 0)
<1>1. /\ sending' = [sending EXCEPT ![i] = After(sending[i])]
      /\ UNCHANGED <<params, at, reading, batch, array, lists>>
  BY DEF PublishBatch, PublishFails, collecting, splitting
<1>2. sending \in [Instances -> Seq(Element)] /\ sending[i] \in Seq(Element)
  BY DEF SplitOK
<1>3. /\ now \in Seq(Element) /\ After(sending[i]) \in Seq(Element)
      /\ ToSet(sending[i]) = ToSet(now) \cup ToSet(After(sending[i]))
  BY <1>2, FirstPart
<1>4. sending' \in [Instances -> Seq(Element)]
  BY <1>1, <1>2, <1>3
<1>5. \A b \in DOMAIN batch : GoroutineOK(b)' /\ batch'[b].at = batch[b].at
  BY <1>1 DEF SplitOK, GoroutineOK, Loaded, Target, Within
<1>6. SplitOK'
  BY <1>1, <1>4, <1>5 DEF SplitOK, SendAll, Within
<1>7. given' \in [Devices -> Seq(Instances)]
  <2> DEFINE more(d) == Times(Occurrences(d, now), i)
  <2>1. given \in [Devices -> Seq(Instances)]
    BY DEF RequestOK
  <2>2. given' = [d \in Devices |-> given[d] \o more(d)] \/ given' = given
    BY DEF PublishBatch, PublishFails
  <2> HIDE DEF now
  <2>3. ASSUME NEW d \in Devices PROVE given[d] \o more(d) \in Seq(Instances)
    <3>1. Occurrences(d, now) \in Nat
      BY <1>3, OccurrencesInNat
    <3>2. more(d) \in Seq(Instances)
      BY <3>1, TimesTypes
    <3> HIDE DEF more
    <3> QED
      BY <2>1, <3>2, ConcatProperties
  <2> HIDE DEF more
  <2> QED
    BY <2>1, <2>2, <2>3
<1>8. RequestOK'
  BY <1>7 DEF PublishBatch, PublishFails, collecting, outcome, RequestOK
<1> QED
  BY <1>1, <1>3, <1>6, <1>8

\* A session's step, or one of a GET /info, leaves all but what is steady as it is.
LEMMA OthersTypes ==
    ASSUME RequestOK, SplitOK, steady' \subseteq steady,
           UNCHANGED <<params, at, collecting, splitting, sending, outcome>>
    PROVE  RequestOK' /\ SplitOK'
<1>1. \A b \in DOMAIN batch : GoroutineOK(b)' /\ batch'[b].at = batch[b].at
  BY DEF SplitOK, GoroutineOK, Loaded, Target, Within, splitting
<1>2. SplitOK'
  BY <1>1 DEF SplitOK, SendAll, Within, splitting, collecting
<1> QED
  BY <1>2 DEF RequestOK, collecting, outcome

\* Every step of the request keeps the types.
LEMMA RequestTypes ==
    ASSUME TypeOK, RequestOK, SplitOK, RequestStep
    PROVE  RequestOK' /\ SplitOK'
<1>1. CASE RequestArrives \/ ReadFails \/ Listed \/ EachDevice
  BY <1>1, CollectTypes
<1>2. CASE Split \/ Dispatch
  BY <1>2, SplitTypes, DispatchTypes
<1>3. ASSUME NEW i \in Instances, ReadInstanceSet(i) \/ PublishBatch(i) \/ PublishFails(i)
      PROVE  RequestOK' /\ SplitOK'
  BY <1>3, CollectTypes, PublishTypes
<1>4. ASSUME NEW u \in Users, ReadUserSet(u) PROVE RequestOK' /\ SplitOK'
  BY <1>4, CollectTypes
<1>5. ASSUME NEW b \in DOMAIN batch,
             \/ GetAddresses(b) \/ GetFails(b) \/ SkipDevice(b)
             \/ LoadOrStore(b) \/ AppendDevice(b) \/ Store(b)
      PROVE  RequestOK' /\ SplitOK'
  BY <1>5, GetTypes, SkipTypes, LoadTypes, AppendTypes, StoreTypes
<1> QED
  BY <1>1, <1>2, <1>3, <1>4, <1>5 DEF RequestStep

------------------------------------------------------------------------------
(* No address is taken for another device's, or twice.                      *)

\* The elements of a slice are in its array, no less often.
LEMMA SliceInArray ==
    ASSUME NEW arrays \in Seq(Seq(Element)), NEW s \in Slices, InArray(arrays, s),
           NEW e, e = ElementsIn(arrays, s), NEW d
    PROVE  /\ Occurrences(d, e) \in Nat
           /\ s.array = NoArray => Occurrences(d, e) = 0
           /\ s.array # NoArray => /\ s.array \in 1 .. Len(arrays)
                                   /\ Occurrences(d, e) <= Occurrences(d, arrays[s.array])
<1>1. e \in Seq(Element) /\ Occurrences(d, e) \in Nat
  BY SliceElements, OccurrencesInNat
<1>2. CASE s.array = NoArray
  BY <1>1, <1>2, OccurrencesInEmpty DEF ElementsIn
<1>3. CASE s.array # NoArray
  <2> DEFINE t == arrays[s.array]
             n == s.len
  <2>1. s.array \in 1 .. Len(arrays) /\ t \in Seq(Element) /\ n \in 1 .. Len(t)
    BY <1>3, SliceElements
  <2>2. e = SubSeq(t, 1, n)
    BY <1>3 DEF ElementsIn
  <2> HIDE DEF t, n
  <2>3. Occurrences(d, SubSeq(t, 1, n)) <= Occurrences(d, t)
    BY <2>1, OccurrencesInFirst
  <2> QED
    BY <1>1, <1>3, <2>1, <2>2, <2>3 DEF t
<1> QED
  BY <1>2, <1>3

\* What goroutines have yet to do is counted.
LEMMA UndoneTypes ==
    ASSUME NEW gs \in Seq(Goroutines),
           \A b \in DOMAIN gs : gs[b].at = "store" => gs[b].todo # <<>>
    PROVE  /\ IsFiniteSet(DOMAIN gs)
           /\ Undone(gs) \in [DOMAIN gs -> Seq(Pairs)] /\ Unread(gs) \in [DOMAIN gs -> Seq(Devices)]
           /\ \A x : Total(Undone(gs), x) \in Nat /\ Total(Unread(gs), x) \in Nat
<1>1. IsFiniteSet(DOMAIN gs) /\ DOMAIN gs = 1 .. Len(gs)
  BY LenProperties, IntervalCount
<1>2. ASSUME NEW b \in DOMAIN gs
      PROVE  /\ gs[b].ids \in Seq(Devices)
             /\ (IF gs[b].at = "store" THEN Tail(gs[b].todo) ELSE gs[b].todo) \in Seq(Pairs)
  <2>1. gs[b] \in Goroutines
    BY <1>1, ElementOfSeq
  <2>2. gs[b].ids \in Seq(Devices) /\ gs[b].todo \in Seq(Pairs)
    BY <2>1 DEF Goroutines
  <2>3. gs[b].at = "store" => Tail(gs[b].todo) \in Seq(Pairs)
    BY <2>2, TailElements
  <2> QED
    BY <2>2, <2>3
<1>3. Undone(gs) \in [DOMAIN gs -> Seq(Pairs)]
  BY <1>2 DEF Undone
<1>4. Unread(gs) \in [DOMAIN gs -> Seq(Devices)]
  BY <1>2 DEF Unread
<1>5. ASSUME NEW x PROVE Total(Undone(gs), x) \in Nat
  BY <1>1, <1>3, PlacesFinite
<1>6. ASSUME NEW x PROVE Total(Unread(gs), x) \in Nat
  BY <1>1, <1>4, PlacesFinite
<1> QED
  BY <1>1, <1>3, <1>4, <1>5, <1>6

\* One goroutine has changed.
LEMMA UndoneExcept ==
    ASSUME SplitOK, SplitOK', NEW b \in DOMAIN batch, DOMAIN batch' = DOMAIN batch,
           \A k \in DOMAIN batch : k # b => batch'[k] = batch[k], NEW x
    PROVE  /\ Total(Undone(batch'), x) + Occurrences(x, Undone(batch)[b])
                = Total(Undone(batch), x) + Occurrences(x, Undone(batch')[b])
           /\ Total(Unread(batch'), x) + Occurrences(x, Unread(batch)[b])
                = Total(Unread(batch), x) + Occurrences(x, Unread(batch')[b])
           /\ Occurrences(x, Undone(batch)[b]) \in Nat /\ Occurrences(x, Undone(batch')[b]) \in Nat
           /\ Occurrences(x, Unread(batch)[b]) \in Nat /\ Occurrences(x, Unread(batch')[b]) \in Nat
           /\ Total(Undone(batch), x) \in Nat /\ Total(Undone(batch'), x) \in Nat
           /\ Total(Unread(batch), x) \in Nat /\ Total(Unread(batch'), x) \in Nat
<1> DEFINE D == DOMAIN batch
           f == Undone(batch)
           g == Undone(batch')
           h == Unread(batch)
           j == Unread(batch')
<1>1. /\ batch \in Seq(Goroutines) /\ batch' \in Seq(Goroutines)
      /\ \A k \in DOMAIN batch : batch[k].at = "store" => batch[k].todo # <<>>
      /\ \A k \in DOMAIN batch' : batch'[k].at = "store" => batch'[k].todo # <<>>
  BY DEF SplitOK, GoroutineOK
<1>2. IsFiniteSet(D) /\ f \in [D -> Seq(Pairs)] /\ h \in [D -> Seq(Devices)]
  BY <1>1, UndoneTypes
<1>3. g \in [D -> Seq(Pairs)] /\ j \in [D -> Seq(Devices)]
  <2>1. g \in [DOMAIN batch' -> Seq(Pairs)] /\ j \in [DOMAIN batch' -> Seq(Devices)]
    BY <1>1, UndoneTypes
  <2> QED
    BY <2>1
<1>4. (\A k \in D : k # b => g[k] = f[k]) /\ (\A k \in D : k # b => j[k] = h[k])
  BY DEF Undone, Unread
<1> HIDE DEF D, f, g, h, j
<1>5. b \in D
  BY DEF D
<1>6. Total(g, x) + Occurrences(x, f[b]) = Total(f, x) + Occurrences(x, g[b])
  <2>1. f \in Sequences(D, Pairs) /\ g \in Sequences(D, Pairs)
    BY <1>2, <1>3 DEF Sequences
  <2>2. OnlyAt(b, D, f, g)
    BY <1>4 DEF OnlyAt
  <2> QED
    BY <1>2, <1>5, <2>1, <2>2, TotalExcept
<1>7. Total(j, x) + Occurrences(x, h[b]) = Total(h, x) + Occurrences(x, j[b])
  <2>1. h \in Sequences(D, Devices) /\ j \in Sequences(D, Devices)
    BY <1>2, <1>3 DEF Sequences
  <2>2. OnlyAt(b, D, h, j)
    BY <1>4 DEF OnlyAt
  <2> QED
    BY <1>2, <1>5, <2>1, <2>2, TotalExcept
<1>8. /\ f[b] \in Seq(Pairs) /\ g[b] \in Seq(Pairs)
      /\ h[b] \in Seq(Devices) /\ j[b] \in Seq(Devices)
  BY <1>2, <1>3, <1>5
<1>9. /\ Occurrences(x, f[b]) \in Nat /\ Occurrences(x, g[b]) \in Nat
      /\ Occurrences(x, h[b]) \in Nat /\ Occurrences(x, j[b]) \in Nat
  BY <1>8, OccurrencesInNat
<1>10. /\ Total(f, x) \in Nat /\ Total(g, x) \in Nat
       /\ Total(h, x) \in Nat /\ Total(j, x) \in Nat
  BY <1>1, UndoneTypes DEF f, g, h, j
<1> QED
  BY <1>6, <1>7, <1>9, <1>10 DEF f, g, h, j

\* What the invariant counts.
LEMMA Counted ==
    ASSUME RequestOK, SplitOK, NEW d \in Devices, NEW i \in Instances
    PROVE  /\ Occurrences(d, sending[i]) \in Nat
           /\ Occurrences(i, given[d]) \in Nat /\ Occurrences(i, named[d]) \in Nat
           /\ Len(named[d]) \in Nat /\ Occurrences(d, ids) \in Nat /\ Occurrences(d, remote) \in Nat
           /\ Total(Undone(batch), Pair(d, i)) \in Nat /\ Total(Unread(batch), d) \in Nat
           /\ Owed(d, i) \in Nat
           /\ Owed(d, i) = Total(Undone(batch), Pair(d, i)) + Occurrences(i, given[d])
           /\ \A a \in 1 .. Len(array) : Occurrences(d, array[a]) \in Nat
           /\ named[d] \in Seq(Instances \cup {None}) /\ given[d] \in Seq(Instances)
<1>1. sending[i] \in Seq(Element) /\ ids \in Seq(Devices) /\ remote \in Seq(Devices)
  BY DEF RequestOK, SplitOK
<1>2. named[d] \in Seq(Instances \cup {None}) /\ given[d] \in Seq(Instances)
  BY DEF RequestOK
<1>3. /\ Occurrences(d, sending[i]) \in Nat
      /\ Occurrences(i, given[d]) \in Nat /\ Occurrences(i, named[d]) \in Nat
      /\ Occurrences(d, ids) \in Nat /\ Occurrences(d, remote) \in Nat
      /\ Len(named[d]) \in Nat
  BY <1>1, <1>2, OccurrencesInNat, LenProperties
<1>4. Total(Undone(batch), Pair(d, i)) \in Nat /\ Total(Unread(batch), d) \in Nat
  <2>1. batch \in Seq(Goroutines) /\ \A k \in DOMAIN batch : batch[k].at = "store"
                                                               => batch[k].todo # <<>>
    BY DEF SplitOK, GoroutineOK
  <2> QED
    BY <2>1, UndoneTypes
<1>5. \A a \in 1 .. Len(array) : Occurrences(d, array[a]) \in Nat
  <2> TAKE a \in 1 .. Len(array)
  <2>1. array[a] \in Seq(Element)
    BY ElementOfSeq DEF SplitOK
  <2> QED
    BY <2>1, OccurrencesInNat
<1> QED
  BY <1>2, <1>3, <1>4, <1>5 DEF Owed

\* Steps after which no array is used that was not before, and no more is to be appended.
LEMMA NoMoreOwed ==
    ASSUME RequestOK, SplitOK, SplitOK', NEW d \in Devices, NEW i \in Instances,
           Accounted(d, i), at # "replied", UNCHANGED <<array, sending, named, given>>,
           Total(Undone(batch'), Pair(d, i)) <= Total(Undone(batch), Pair(d, i)),
           \A a \in 1 .. Len(array) : Uses(i, a)' => Uses(i, a)
    PROVE  Accounted(d, i)'
<1> DEFINE m == Total(Undone(batch), Pair(d, i))
           n == Total(Undone(batch'), Pair(d, i))
           g == Occurrences(i, given[d])
           k == Occurrences(i, named[d])
<1>1. /\ m \in Nat /\ g \in Nat /\ k \in Nat /\ Owed(d, i) = m + g
      /\ \A a \in 1 .. Len(array) : Occurrences(d, array[a]) \in Nat
  BY Counted
<1>2. n \in Nat
  <2>1. /\ batch' \in Seq(Goroutines)
        /\ \A b \in DOMAIN batch' : batch'[b].at = "store" => batch'[b].todo # <<>>
    BY DEF SplitOK, GoroutineOK
  <2> QED
    BY <2>1, UndoneTypes
<1>3. Owed(d, i)' = n + g
  BY DEF Owed
<1>4. n <= m /\ m + g <= k
  BY <1>1 DEF Accounted
<1>5. \A a \in 1 .. Len(array) : Uses(i, a)' => Occurrences(d, array[a]) + (m + g) <= k
  BY <1>1 DEF Accounted
<1> HIDE DEF m, n, g, k
<1>6. n + g <= k
  BY <1>1, <1>2, <1>4
<1>7. \A a \in 1 .. Len(array) : Uses(i, a)' => Occurrences(d, array[a]) + (n + g) <= k
  BY <1>1, <1>2, <1>4, <1>5
<1> QED
  BY <1>3, <1>6, <1>7 DEF Accounted, k

\* Steps after which no array is used that was not before.
LEMMA StillApart ==
    ASSUME FoundInv, UNCHANGED array,
           \A a \in 1 .. Len(array) : \A i \in Instances : Uses(i, a)' => Uses(i, a)
    PROVE  Apart'
BY DEF FoundInv, Apart

\* Steps that leave the request's counts alone.
LEMMA FoundSame ==
    ASSUME FoundInv,
           UNCHANGED <<at, ids, remote, splitting, sending, listed, named, given>>
    PROVE  FoundInv'
<1>1. \A i, a : Uses(i, a)' <=> Uses(i, a)
  BY DEF Uses, Loaded, Target, splitting
<1>2. Apart'
  BY <1>1 DEF FoundInv, Apart, splitting
<1>3. ASSUME NEW d \in Devices PROVE ListedOnce(d)'
  BY DEF FoundInv, ListedOnce, splitting
<1>4. ASSUME NEW d \in Devices, NEW i \in Instances PROVE Accounted(d, i)'
  <2>1. Accounted(d, i)
    BY DEF FoundInv
  <2>2. Owed(d, i)' = Owed(d, i)
    BY DEF Owed, splitting
  <2> QED
    BY <1>1, <2>1, <2>2 DEF Accounted, splitting
<1> QED
  BY <1>2, <1>3, <1>4 DEF FoundInv

\* Collecting, and handing frames to the local sessions.
LEMMA CollectFound ==
    ASSUME RequestOK, RequestOK', SplitOK, SplitOK', FoundInv,
           \/ RequestArrives \/ ReadFails \/ Listed \/ EachDevice
           \/ \E i \in Instances : ReadInstanceSet(i)
           \/ \E u \in Users : ReadUserSet(u)
    PROVE  FoundInv'
<1> DEFINE total(d) == Total(Unread(batch), d)
<1>1. at \in {"idle", "collect", "each"} /\ at' \in {"collect", "each"}
      /\ UNCHANGED <<splitting, sending>>
  BY DEF RequestArrives, ReadFails, Listed, EachDevice, ReadInstanceSet, ReadUserSet, outcome
<1>2. \A i, a : Uses(i, a)' <=> Uses(i, a)
  BY <1>1 DEF Uses, Loaded, Target, splitting
<1>3. Apart'
  BY <1>1, <1>2 DEF FoundInv, Apart, splitting
<1>4. \A d \in Devices : total(d) = 0
  <2>1. DOMAIN Unread(batch) = {}
    BY <1>1, BeforeSplit DEF Unread
  <2> QED
    BY <2>1, TotalOfNone
<1>5. \A d \in Devices : total(d)' = total(d)
  BY <1>1 DEF splitting
<1> HIDE DEF total
<1>6. CASE EachDevice
  <2> DEFINE h == Head(ids)
             hits(d) == Len(named[d])
             here(d) == Occurrences(d, ids)
             there(d) == Occurrences(d, remote)
  <2>1. /\ at = "each" /\ at' = "each" /\ ids # <<>> /\ ids' = Tail(ids)
        /\ UNCHANGED listed
        /\ \/ /\ named' = [named EXCEPT ![h] = Append(@, Self)]
              /\ given' = [given EXCEPT ![h] = Append(@, Self)]
              /\ remote' = remote
           \/ remote' = Append(remote, h) /\ UNCHANGED <<named, given>>
    BY <1>6 DEF EachDevice, RemoteAfterLocal
  <2>2. h \in Devices /\ ids \in Seq(Devices) /\ remote \in Seq(Devices)
    BY <2>1, TailElements DEF RequestOK
  <2>3. /\ named \in [Devices -> Seq(Instances \cup {None})]
        /\ given \in [Devices -> Seq(Instances)]
        /\ Self \in Instances /\ Self \in Instances \cup {None}
    BY SendAssumption DEF SendAssumption, RequestOK
  <2> HIDE DEF h
  <2>4. ASSUME NEW d \in Devices PROVE ListedOnce(d)'
    <3> DEFINE one == IF d = h THEN 1 ELSE 0
    <3>1. /\ hits(d) \in Nat /\ here(d) \in Nat /\ there(d) \in Nat
          /\ hits(d)' \in Nat /\ here(d)' \in Nat /\ there(d)' \in Nat
      <4>1. /\ named[d] \in Seq(Instances \cup {None}) /\ ids' \in Seq(Devices)
            /\ named'[d] \in Seq(Instances \cup {None}) /\ remote' \in Seq(Devices)
        BY DEF RequestOK
      <4> QED
        BY <2>2, <2>3, <4>1, LenProperties, OccurrencesInNat
    <3>2. here(d) = here(d)' + one
      BY <2>1, <2>2, OccurrencesInTail DEF h
    <3>3. \/ hits(d)' = hits(d) + one /\ there(d)' = there(d)
          \/ hits(d)' = hits(d) /\ there(d)' = there(d) + one
      <4>1. CASE named' = [named EXCEPT ![h] = Append(@, Self)] /\ remote' = remote
        <5>1. Len(Append(named[h], Self)) = Len(named[h]) + 1
          BY <2>2, <2>3, AppendProperties
        <5>2. CASE d = h
          <6>1. named'[d] = Append(named[h], Self)
            BY <2>3, <4>1, <5>2
          <6> QED
            BY <4>1, <5>1, <5>2, <6>1
        <5>3. CASE d # h
          <6>1. named'[d] = named[d]
            BY <2>3, <4>1, <5>3
          <6> QED
            BY <3>1, <4>1, <5>3, <6>1
        <5> QED
          BY <5>2, <5>3
      <4>2. CASE remote' = Append(remote, h) /\ UNCHANGED named
        <5>1. there(d)' = there(d) + one
          BY <2>2, <4>2, OccurrencesInAppend
        <5> QED
          BY <4>2, <5>1
      <4> QED
        BY <2>1, <4>1, <4>2
    <3>4. hits(d) + (here(d) + there(d)) <= listed[d] /\ listed[d] \in Nat
      BY <2>1 DEF FoundInv, ListedOnce, RequestOK
    <3>5. one \in {0, 1}
      OBVIOUS
    <3> HIDE DEF hits, here, there, one
    <3>6. hits(d)' + (here(d)' + there(d)') <= listed[d]
      BY <3>1, <3>2, <3>3, <3>4, <3>5
    <3> QED
      BY <2>1, <3>6 DEF ListedOnce, hits, here, there
  <2>5. ASSUME NEW d \in Devices, NEW i \in Instances PROVE Accounted(d, i)'
    <3> DEFINE one == IF d = h /\ named' # named /\ i = Self THEN 1 ELSE 0
               m == Total(Undone(batch), Pair(d, i))
               g == Occurrences(i, given[d])
               k == Occurrences(i, named[d])
               p == Occurrences(d, sending[i])
    <3>1. /\ m \in Nat /\ g \in Nat /\ k \in Nat /\ p \in Nat /\ Owed(d, i) = m + g
          /\ \A a \in 1 .. Len(array) : Occurrences(d, array[a]) \in Nat
      BY Counted
    <3>2. g' = g + one /\ k' = k + one
      <4>1. CASE named' = [named EXCEPT ![h] = Append(@, Self)]
                 /\ given' = [given EXCEPT ![h] = Append(@, Self)] /\ d = h
        <5>1. named'[d] = Append(named[d], Self) /\ given'[d] = Append(given[d], Self)
          BY <2>3, <4>1
        <5>2. named[d] \in Seq(Instances \cup {None}) /\ given[d] \in Seq(Instances)
          BY <2>3
        <5>3. k' = k + (IF i = Self THEN 1 ELSE 0)
          <6> DEFINE B == Instances \cup {None}
          <6>1. Self \in B /\ named[d] \in Seq(B)
            BY <2>3, <5>2
          <6> HIDE DEF B
          <6> QED
            BY <5>1, <6>1, OccurrencesInAppend
        <5>4. g' = g + (IF i = Self THEN 1 ELSE 0)
          BY <2>3, <5>1, <5>2, OccurrencesInAppend
        <5>5. named' # named
          <6>1. Len(Append(named[d], Self)) = Len(named[d]) + 1 /\ Len(named[d]) \in Nat
            BY <2>3, <5>2, AppendProperties, LenProperties
          <6>2. Len(named'[d]) # Len(named[d])
            BY <5>1, <6>1
          <6> QED
            BY <6>2
        <5> QED
          BY <4>1, <5>3, <5>4, <5>5
      <4>2. CASE d # h \/ UNCHANGED <<named, given>>
        <5>1. named'[d] = named[d] /\ given'[d] = given[d]
          BY <2>1, <2>2, <2>3, <4>2
        <5>2. one = 0
          BY <2>1, <4>2
        <5> HIDE DEF one
        <5> QED
          BY <3>1, <5>1, <5>2
      <4> QED
        BY <2>1, <4>1, <4>2
    <3>3. m' = m /\ p' = p /\ array' = array /\ sending' = sending
      BY <1>1 DEF splitting
    <3>4. Owed(d, i)' = m' + g'
      BY DEF Owed
    <3>5. /\ p + g <= k /\ sending[i] = <<>> /\ m + g <= k
          /\ \A a \in 1 .. Len(array) : Uses(i, a) => Occurrences(d, array[a]) + (m + g) <= k
      BY <2>1, <3>1 DEF FoundInv, Accounted
    <3>6. one \in {0, 1}
      OBVIOUS
    <3> HIDE DEF one, m, g, k, p
    <3>7. p + g' <= k' /\ m + g' <= k'
      BY <3>1, <3>2, <3>5, <3>6
    <3>8. \A a \in 1 .. Len(array) : Uses(i, a) => Occurrences(d, array[a]) + (m + g') <= k'
      BY <3>1, <3>2, <3>5, <3>6
    <3> QED
      BY <1>2, <3>3, <3>4, <3>5, <3>7, <3>8 DEF Accounted, m, g, k, p
  <2> QED
    BY <1>3, <2>4, <2>5 DEF FoundInv
<1>7. CASE ~EachDevice
  <2>1. UNCHANGED <<named, given, remote>> /\ at # "each"
    BY <1>7 DEF RequestArrives, ReadFails, Listed, ReadInstanceSet, ReadUserSet, outcome
  <2>2. ASSUME NEW d \in Devices, NEW i \in Instances PROVE Accounted(d, i)'
    <3>1. Accounted(d, i)
      BY DEF FoundInv
    <3>2. Owed(d, i)' = Owed(d, i)
      BY <1>1, <2>1 DEF Owed, splitting
    <3> QED
      BY <1>1, <1>2, <2>1, <3>1, <3>2 DEF Accounted, splitting
  <2>3. ASSUME NEW d \in Devices PROVE ListedOnce(d)'
    <3>1. /\ Len(named[d]) + total(d) <= listed[d] /\ remote = <<>> /\ listed[d] = 0
          /\ Len(named[d]) \in Nat
      BY <1>1, <2>1, LenProperties DEF FoundInv, ListedOnce, total, RequestOK
    <3>2. Len(named[d]) = 0
      BY <1>4, <3>1
    <3>3. CASE Listed
      <4>1. at' = "each" /\ listed'[d] = Occurrences(d, ids')
        BY <3>3 DEF Listed
      <4>2. Occurrences(d, ids') \in Nat /\ Occurrences(d, remote') = 0
        BY <2>1, <3>1, OccurrencesInNat, OccurrencesInEmpty DEF RequestOK
      <4>3. Len(named'[d]) + (Occurrences(d, ids') + Occurrences(d, remote')) <= listed'[d]
        BY <2>1, <3>2, <4>1, <4>2
      <4> QED
        BY <4>1, <4>3 DEF ListedOnce
    <3>4. CASE ~Listed
      <4>1. at' = "collect" /\ listed' = listed
        BY <1>7, <3>4
        DEF RequestArrives, ReadFails, ReadInstanceSet, ReadUserSet, outcome
      <4>2. Len(named'[d]) + total(d)' <= listed'[d]
        BY <1>5, <2>1, <3>1, <4>1
      <4> QED
        BY <2>1, <3>1, <4>1, <4>2 DEF ListedOnce, total
    <3> QED
      BY <3>3, <3>4
  <2> QED
    BY <1>3, <2>2, <2>3 DEF FoundInv
<1> QED
  BY <1>6, <1>7

\* The goroutines of a split begin with their parts of the remote ids, and no pairs.
LEMMA SplitFound ==
    ASSUME RequestOK, RequestOK', SplitOK, SplitOK', FoundInv, Split
    PROVE  FoundInv'
<1>1. /\ at = "each" /\ at' \in {"replied", "wait"} /\ ids = <<>>
      /\ UNCHANGED <<array, lists, sending, listed, named, given>>
      /\ batch' = [b \in 1 .. Batches(remote) |->
                     [at |-> "get", ids |-> Part(remote, (b - 1) * BatchSize),
                      todo |-> <<>>, val |-> NoSlice]]
  BY DEF Split, outcome
<1>2. \A b \in DOMAIN batch' : batch'[b].at = "get" /\ batch'[b].todo = <<>>
  BY <1>1
<1>3. \A a \in 1 .. Len(array) : \A i \in Instances : Uses(i, a)' => Uses(i, a)
  BY <1>1, <1>2 DEF Uses, Loaded
<1>4. Apart'
  BY <1>1, <1>3, StillApart
<1>5. ASSUME NEW d \in Devices PROVE ListedOnce(d)'
  <2> DEFINE f == Unread(batch')
             m == Len(named[d])
             n == Occurrences(d, remote)
             t == Total(f, d)
  <2>1. f = [b \in 1 .. Batches(remote) |-> Part(remote, (b - 1) * BatchSize)]
    BY <1>1 DEF Unread
  <2>2. t <= n
    <3>1. remote \in Seq(Devices)
      BY DEF RequestOK
    <3> HIDE DEF f
    <3> QED
      BY <2>1, <3>1, TotalOfParts
  <2>3. m + (Occurrences(d, ids) + n) <= listed[d]
    BY <1>1 DEF FoundInv, ListedOnce
  <2>4. m \in Nat /\ n \in Nat /\ Occurrences(d, ids) = 0 /\ listed[d] \in Nat
    BY <1>1, OccurrencesInEmpty, OccurrencesInNat, LenProperties DEF RequestOK
  <2>5. t \in Nat
    <3>1. /\ batch' \in Seq(Goroutines)
          /\ \A b \in DOMAIN batch' : batch'[b].at = "store" => batch'[b].todo # <<>>
      BY <1>2 DEF SplitOK
    <3> QED
      BY <3>1, UndoneTypes
  <2> HIDE DEF f, m, n, t
  <2>6. m + t <= listed[d]
    BY <2>2, <2>3, <2>4, <2>5
  <2> QED
    BY <1>1, <2>6 DEF ListedOnce, m, t, f
<1>6. ASSUME NEW d \in Devices, NEW i \in Instances PROVE Accounted(d, i)'
  <2>1. \A b \in DOMAIN batch' : Undone(batch')[b] = <<>>
    BY <1>2 DEF Undone
  <2>2. Total(Undone(batch'), Pair(d, i)) = 0
    BY <2>1, TotalOfNone DEF Undone
  <2>3. Total(Undone(batch'), Pair(d, i)) <= Total(Undone(batch), Pair(d, i))
    BY <2>2, Counted
  <2> QED
    BY <1>1, <1>3, <2>3, NoMoreOwed DEF FoundInv
<1> QED
  BY <1>4, <1>5, <1>6 DEF FoundInv

\* An id has an address as often as it is looked up.
LEMMA AddressedOften ==
    ASSUME NEW s \in Seq(Devices), NEW d \in Devices, NEW i \in Instances
    PROVE  Occurrences(Pair(d, i), Addressed(s)) = IF AddressOf(d) = i THEN Occurrences(d, s) ELSE 0
<1> DEFINE t == Addressed(s)
<1>1. /\ DOMAIN t = DOMAIN s
      /\ \A k \in DOMAIN s : t[k] = [id |-> s[k], address |-> AddressOf(s[k])]
  BY DEF Addressed
<1>2. \A k \in DOMAIN s : t[k] = Pair(d, i) <=> s[k] = d /\ AddressOf(d) = i
  BY <1>1 DEF Pair
<1> HIDE DEF t
<1>3. CASE AddressOf(d) = i
  <2>1. {k \in DOMAIN t : t[k] = Pair(d, i)} = {k \in DOMAIN s : s[k] = d}
    BY <1>1, <1>2, <1>3
  <2> QED
    BY <1>3, <2>1 DEF Occurrences, t
<1>4. CASE AddressOf(d) # i
  <2>1. {k \in DOMAIN t : t[k] = Pair(d, i)} = {}
    BY <1>1, <1>2, <1>4
  <2> QED
    BY <1>4, <2>1, FS_EmptySet DEF Occurrences, t
<1> QED
  BY <1>3, <1>4

\* The pairs a goroutine begins with are found, each once.
LEMMA GetFound ==
    ASSUME RequestOK, RequestOK', SplitOK, SplitOK', TypeOK, FoundInv,
           NEW b \in DOMAIN batch, GetAddresses(b) \/ GetFails(b)
    PROVE  FoundInv'
<1> DEFINE s == batch[b].ids
<1>1. /\ UNCHANGED <<at, array, lists, sending, listed, given>>
      /\ batch[b].at = "get"
  BY DEF GetAddresses, GetFails
<1>2. batch[b] \in Goroutines /\ GoroutineOK(b) /\ at = "wait"
  BY <1>1, GoroutineTypes, AtWork
<1>3. s \in Seq(Devices) /\ batch[b].todo = <<>>
  BY <1>1, <1>2 DEF Goroutines, GoroutineOK
<1>4. DOMAIN batch' = DOMAIN batch /\ \A k \in DOMAIN batch : k # b => batch'[k] = batch[k]
  BY DEF GetAddresses, GetFails
<1>5. /\ batch'[b].at \in {"load", "done"} /\ batch'[b].ids = <<>>
      /\ GetAddresses(b) => batch'[b].todo = Addressed(s)
      /\ GetFails(b) => batch'[b].todo = <<>>
  <2>1. ASSUME GetAddresses(b)
        PROVE  batch'[b].at = "load" /\ batch'[b].ids = <<>> /\ batch'[b].todo = Addressed(s)
    BY <2>1 DEF GetAddresses
  <2>2. ASSUME GetFails(b)
        PROVE  batch'[b].at = "done" /\ batch'[b].ids = <<>> /\ batch'[b].todo = <<>>
    BY <1>2, <1>3, <2>2 DEF GetFails, Goroutines
  <2> QED
    BY <2>1, <2>2
<1>6. \A a \in 1 .. Len(array) : \A i \in Instances : Uses(i, a)' => Uses(i, a)
  BY <1>1, <1>4, <1>5 DEF Uses, Loaded, Target
<1>7. Apart'
  BY <1>1, <1>6, StillApart
<1>8. /\ Undone(batch)[b] = <<>> /\ Undone(batch')[b] = batch'[b].todo
      /\ Unread(batch)[b] = s /\ Unread(batch')[b] = <<>>
  BY <1>1, <1>3, <1>4, <1>5 DEF Undone, Unread
<1> HIDE DEF s
<1>9. ASSUME NEW d \in Devices
      PROVE  /\ Total(Unread(batch'), d) + Occurrences(d, s) = Total(Unread(batch), d)
             /\ Occurrences(d, s) \in Nat
             /\ Total(Unread(batch), d) \in Nat /\ Total(Unread(batch'), d) \in Nat
  <2> DEFINE m == Total(Unread(batch), d)
             n == Total(Unread(batch'), d)
             k == Occurrences(d, s)
  <2>1. n + k = m + Occurrences(d, <<>>) /\ k \in Nat /\ m \in Nat /\ n \in Nat
    BY <1>4, <1>8, UndoneExcept
  <2>2. Occurrences(d, <<>>) = 0
    BY OccurrencesInEmpty
  <2> HIDE DEF m, n, k
  <2>3. n + k = m
    BY <2>1, <2>2
  <2> QED
    BY <2>1, <2>3 DEF m, n, k
<1>10. ASSUME NEW d \in Devices, NEW i \in Instances
       PROVE  /\ Total(Undone(batch'), Pair(d, i)) = Total(Undone(batch), Pair(d, i))
                                                       + Occurrences(Pair(d, i), batch'[b].todo)
              /\ Occurrences(Pair(d, i), batch'[b].todo) \in Nat
  <2> DEFINE m == Total(Undone(batch), Pair(d, i))
             n == Total(Undone(batch'), Pair(d, i))
             k == Occurrences(Pair(d, i), batch'[b].todo)
  <2>1. n + Occurrences(Pair(d, i), <<>>) = m + k /\ k \in Nat /\ m \in Nat /\ n \in Nat
    BY <1>4, <1>8, UndoneExcept
  <2>2. Occurrences(Pair(d, i), <<>>) = 0
    BY OccurrencesInEmpty
  <2> HIDE DEF m, n, k
  <2>3. n = m + k
    BY <2>1, <2>2
  <2> QED
    BY <2>1, <2>3 DEF m, n, k
<1>11. CASE GetAddresses(b)
  <2> DEFINE new(d) == Times(Occurrences(d, s), AddressOf(d))
  <2>1. ASSUME NEW d \in Devices
        PROVE  /\ named'[d] = named[d] \o new(d) /\ named[d] \in Seq(Instances \cup {None})
               /\ new(d) \in Seq(Instances \cup {None}) /\ Len(new(d)) = Occurrences(d, s)
    <3>1. named' = [e \in Devices |-> named[e] \o new(e)]
      BY <1>11 DEF GetAddresses, s
    <3>2. AddressOf(d) \in Instances \cup {None}
      BY <1>3, AddressedTypes
    <3>3. new(d) \in Seq(Instances \cup {None}) /\ Len(new(d)) = Occurrences(d, s)
      BY <1>9, <3>2, TimesTypes
    <3>4. named'[d] = named[d] \o new(d)
      BY <3>1
    <3> QED
      BY <3>3, <3>4 DEF RequestOK
  <2>2. ASSUME NEW d \in Devices PROVE ListedOnce(d)'
    <3> DEFINE k == Occurrences(d, s)
               m == Total(Unread(batch), d)
               n == Total(Unread(batch'), d)
               l == Len(named[d])
    <3>1. k \in Nat /\ m \in Nat /\ n \in Nat /\ n + k = m /\ l \in Nat
      BY <1>9, <2>1, LenProperties
    <3>2. Len(named'[d]) = l + k
      <4> DEFINE t == new(d)
                 B == Instances \cup {None}
      <4>1. t \in Seq(B) /\ named[d] \in Seq(B) /\ Len(t) = k /\ named'[d] = named[d] \o t
        BY <2>1
      <4> HIDE DEF t, B
      <4>2. Len(named[d] \o t) = Len(named[d]) + Len(t)
        BY <4>1, ConcatProperties
      <4> QED
        BY <4>1, <4>2
    <3>3. l + m <= listed[d] /\ listed[d] \in Nat
      BY <1>2 DEF FoundInv, ListedOnce, RequestOK
    <3> HIDE DEF k, m, n, l
    <3>4. (l + k) + n <= listed[d]
      BY <3>1, <3>3
    <3> QED
      BY <1>1, <1>2, <3>2, <3>4 DEF ListedOnce, n
  <2>3. ASSUME NEW d \in Devices, NEW i \in Instances PROVE Accounted(d, i)'
    <3> DEFINE k == IF AddressOf(d) = i THEN Occurrences(d, s) ELSE 0
               m == Total(Undone(batch), Pair(d, i))
               g == Occurrences(i, given[d])
               h == Occurrences(i, named[d])
               p == Occurrences(d, sending[i])
    <3>1. /\ m \in Nat /\ g \in Nat /\ h \in Nat /\ p \in Nat /\ Owed(d, i) = m + g
          /\ \A a \in 1 .. Len(array) : Occurrences(d, array[a]) \in Nat
      BY Counted
    <3>2. k \in Nat /\ Total(Undone(batch'), Pair(d, i)) = m + k
      <4>1. Occurrences(Pair(d, i), batch'[b].todo) = k
        BY <1>3, <1>5, <1>11, AddressedOften
      <4> QED
        BY <1>9, <1>10, <4>1
    <3>3. h' = h + k
      <4> DEFINE t == new(d)
                 B == Instances \cup {None}
      <4>1. t \in Seq(B) /\ named[d] \in Seq(B) /\ named'[d] = named[d] \o t
        BY <2>1
      <4>2. Occurrences(i, t) = k
        BY <1>9, OccurrencesInTimes
      <4> HIDE DEF t, B, k
      <4> QED
        BY <4>1, <4>2, OccurrencesInConcat
    <3>4. Owed(d, i)' = (m + k) + g
      BY <1>1, <3>2 DEF Owed
    <3>5. /\ p + g <= h /\ sending[i] = <<>> /\ m + g <= h
          /\ \A a \in 1 .. Len(array) : Uses(i, a) => Occurrences(d, array[a]) + (m + g) <= h
      BY <1>2, <3>1 DEF FoundInv, Accounted
    <3> HIDE DEF k, m, g, h, p
    <3>6. p + g <= h + k /\ (m + k) + g <= h + k
      BY <3>1, <3>2, <3>5
    <3>7. \A a \in 1 .. Len(array) : Uses(i, a) =>
            Occurrences(d, array[a]) + ((m + k) + g) <= h + k
      BY <3>1, <3>2, <3>5
    <3> QED
      BY <1>1, <1>6, <3>3, <3>4, <3>5, <3>6, <3>7 DEF Accounted, h, g, p
  <2> QED
    BY <1>7, <2>2, <2>3 DEF FoundInv
<1>12. CASE GetFails(b)
  <2>1. UNCHANGED named
    BY <1>12 DEF GetFails
  <2>2. ASSUME NEW d \in Devices PROVE ListedOnce(d)'
    <3> DEFINE k == Occurrences(d, s)
               m == Total(Unread(batch), d)
               n == Total(Unread(batch'), d)
               l == Len(named[d])
    <3>1. k \in Nat /\ m \in Nat /\ n \in Nat /\ n + k = m /\ l \in Nat
      BY <1>9, LenProperties DEF RequestOK
    <3>2. l + m <= listed[d] /\ listed[d] \in Nat
      BY <1>2 DEF FoundInv, ListedOnce, RequestOK
    <3> HIDE DEF k, m, n, l
    <3>3. l + n <= listed[d]
      BY <3>1, <3>2
    <3> QED
      BY <1>1, <1>2, <2>1, <3>3 DEF ListedOnce, l, n
  <2>3. ASSUME NEW d \in Devices, NEW i \in Instances PROVE Accounted(d, i)'
    <3>1. Occurrences(Pair(d, i), batch'[b].todo) = 0
      BY <1>5, <1>12, OccurrencesInEmpty
    <3>2. Total(Undone(batch), Pair(d, i)) \in Nat
      BY Counted
    <3>3. Total(Undone(batch'), Pair(d, i)) <= Total(Undone(batch), Pair(d, i))
      BY <1>10, <3>1, <3>2
    <3> QED
      BY <1>1, <1>2, <1>6, <2>1, <3>3, NoMoreOwed DEF FoundInv
  <2> QED
    BY <1>7, <2>2, <2>3 DEF FoundInv
<1> QED
  BY <1>11, <1>12

\* A goroutine at work on its pairs looks nothing up.
LEMMA StillListed ==
    ASSUME FoundInv, at = "wait", UNCHANGED <<at, listed, named>>,
           DOMAIN batch' = DOMAIN batch, \A k \in DOMAIN batch : batch'[k].ids = batch[k].ids,
           NEW d \in Devices
    PROVE  ListedOnce(d)'
<1>1. Unread(batch') = Unread(batch)
  BY DEF Unread
<1> QED
  BY <1>1 DEF FoundInv, ListedOnce

\* A goroutine that goes on with its next id.
LEMMA NextFound ==
    ASSUME RequestOK, SplitOK, SplitOK', FoundInv, NEW b \in DOMAIN batch,
           batch[b].at \in {"load", "store"}, batch' = [batch EXCEPT ![b] = NextId(batch[b])],
           UNCHANGED <<at, array, sending, listed, named, given>>,
           \A i \in Instances : \/ lists'[i].array = lists[i].array
                                \/ Loaded(b) /\ Target(b) = i
                                   /\ lists'[i].array = batch[b].val.array
    PROVE  FoundInv'
<1> DEFINE g == NextId(batch[b])
           s == batch[b].todo
<1>1. /\ g \in Goroutines /\ g.todo = Tail(s) /\ g.at \in {"done", "load"} /\ g.ids = <<>>
      /\ s \in Seq(Pairs) /\ s # <<>>
  BY NextIdTypes
<1> HIDE DEF g
<1>2. /\ DOMAIN batch' = DOMAIN batch /\ batch'[b] = g
      /\ \A k \in DOMAIN batch : k # b => batch'[k] = batch[k]
  BY DEF g
<1>3. at = "wait" /\ batch[b].ids = <<>>
  BY GoroutineTypes, AtWork DEF GoroutineOK
<1>4. \A a \in 1 .. Len(array) : \A i \in Instances : Uses(i, a)' => Uses(i, a)
  <2> TAKE a \in 1 .. Len(array)
  <2> TAKE i \in Instances
  <2>1. ~Loaded(b)'
    BY <1>1, <1>2 DEF Loaded
  <2>2. ASSUME NEW k \in DOMAIN batch, Loaded(k)', Target(k)' = i, batch'[k].val.array = a
        PROVE  Uses(i, a)
    BY <1>2, <2>1, <2>2 DEF Uses, Loaded, Target
  <2>3. lists'[i].array = a => Uses(i, a)
    BY DEF Uses
  <2> QED
    BY <1>2, <2>2, <2>3 DEF Uses
<1>5. Apart'
  BY <1>4, StillApart
<1>6. \A k \in DOMAIN batch : batch'[k].ids = batch[k].ids
  BY <1>1, <1>2, <1>3
<1>7. \A d \in Devices : ListedOnce(d)'
  BY <1>2, <1>3, <1>6, StillListed
<1>8. Undone(batch')[b] = Tail(s) /\ Undone(batch)[b] \in {s, Tail(s)}
  BY <1>1, <1>2 DEF Undone
<1> HIDE DEF s
<1>9. ASSUME NEW d \in Devices, NEW i \in Instances PROVE Accounted(d, i)'
  <2> DEFINE x == Pair(d, i)
             m == Total(Undone(batch), x)
             n == Total(Undone(batch'), x)
             p == Occurrences(x, Tail(s))
             q == Occurrences(x, Undone(batch)[b])
  <2>1. n + q = m + p /\ m \in Nat /\ n \in Nat /\ p \in Nat /\ q \in Nat
    BY <1>2, <1>8, UndoneExcept
  <2>2. Occurrences(x, s) = p + (IF x = Head(s) THEN 1 ELSE 0)
    BY <1>1, OccurrencesInTail
  <2>3. q = p \/ q = p + (IF x = Head(s) THEN 1 ELSE 0)
    BY <1>8, <2>2
  <2> HIDE DEF x, m, n, p, q
  <2>4. p <= q
    BY <2>1, <2>3
  <2>5. n <= m
    BY <2>1, <2>4
  <2> QED
    BY <1>3, <1>4, <2>5, NoMoreOwed DEF FoundInv, m, n, x
<1> QED
  BY <1>5, <1>7, <1>9 DEF FoundInv

\* What is loaded is the list of the broker.
LEMMA LoadFound ==
    ASSUME RequestOK, SplitOK, SplitOK', FoundInv, NEW b \in DOMAIN batch, LoadOrStore(b)
    PROVE  FoundInv'
<1> DEFINE i == Target(b)
<1>1. /\ i \in Instances
      /\ lists'[i] = IF lists[i] = NoSlice THEN Slice(NoArray, 0) ELSE lists[i]
      /\ batch'[b] = [batch[b] EXCEPT !.at = "append", !.val = lists'[i]]
  BY LoadTypes
<1>2. /\ UNCHANGED <<at, array, sending, listed, named, given>> /\ batch[b].at = "load"
      /\ \A j \in Instances : j # i => lists'[j] = lists[j]
      /\ DOMAIN batch' = DOMAIN batch
      /\ \A k \in DOMAIN batch : k # b => batch'[k] = batch[k]
  BY DEF LoadOrStore, outcome, Target
<1>3. batch[b] \in Goroutines /\ at = "wait"
  BY <1>2, GoroutineTypes, AtWork
<1>4. /\ batch'[b].todo = batch[b].todo /\ batch'[b].ids = batch[b].ids
      /\ batch'[b].val = lists'[i] /\ batch'[b].at = "append"
  BY <1>1, <1>3 DEF Goroutines
<1>5. lists'[i].array = lists[i].array
  BY <1>1 DEF NoSlice, Slice
<1> HIDE DEF i
<1>6. Target(b)' = i
  BY <1>4 DEF Target, i
<1>7. \A a \in 1 .. Len(array) : \A j \in Instances : Uses(j, a)' => Uses(j, a)
  <2> TAKE a \in 1 .. Len(array)
  <2> TAKE j \in Instances
  <2>1. lists'[j].array = lists[j].array
    BY <1>2, <1>5
  <2>2. ASSUME NEW k \in DOMAIN batch, Loaded(k)', Target(k)' = j, batch'[k].val.array = a
        PROVE  Uses(j, a)
    <3>1. CASE k = b
      BY <1>4, <1>5, <1>6, <2>2, <3>1 DEF Uses
    <3>2. CASE k # b
      BY <1>2, <2>2, <3>2 DEF Uses, Loaded, Target
    <3> QED
      BY <3>1, <3>2
  <2> QED
    BY <1>2, <2>1, <2>2 DEF Uses
<1>8. Apart'
  BY <1>2, <1>7, StillApart
<1>9. \A k \in DOMAIN batch : batch'[k].ids = batch[k].ids
  BY <1>2, <1>4
<1>10. \A d \in Devices : ListedOnce(d)'
  BY <1>2, <1>3, <1>9, StillListed
<1>11. Undone(batch') = Undone(batch)
  BY <1>2, <1>4 DEF Undone
<1>12. ASSUME NEW d \in Devices, NEW j \in Instances PROVE Accounted(d, j)'
  <2>1. Total(Undone(batch), Pair(d, j)) \in Nat
    BY Counted
  <2>2. Total(Undone(batch'), Pair(d, j)) <= Total(Undone(batch), Pair(d, j))
    BY <1>11, <2>1
  <2> QED
    BY <1>2, <1>3, <1>7, <2>2, NoMoreOwed DEF FoundInv
<1> QED
  BY <1>8, <1>10, <1>12 DEF FoundInv

\* Appending puts the id into an array of its broker, or into a new one.
LEMMA AppendFound ==
    ASSUME RequestOK, RequestOK', SplitOK, SplitOK', FoundInv, NEW b \in DOMAIN batch,
           AppendDevice(b)
    PROVE  FoundInv'
<1> DEFINE i == Target(b)
           s == batch[b].val
           x == Head(batch[b].todo).id
           new == AppendTo(s, x)
           l == Len(array)
           e == Elements(s)
           left == batch[b].todo
<1>1. /\ i \in Instances /\ s \in Slices /\ Within(s) /\ s.len >= 0 /\ x \in Devices
      /\ array' = new.array
      /\ batch'[b] = [batch[b] EXCEPT !.at = "store", !.val = Slice(new.in, s.len + 1)]
  BY AppendTypes
<1>2. /\ batch[b].at = "append"
      /\ UNCHANGED <<at, lists, sending, listed, named, given>>
      /\ DOMAIN batch' = DOMAIN batch
      /\ \A k \in DOMAIN batch : k # b => batch'[k] = batch[k]
  BY DEF AppendDevice, outcome
<1>3. batch[b] \in Goroutines /\ GoroutineOK(b) /\ array \in Seq(Seq(Element)) /\ at = "wait"
  BY <1>2, GoroutineTypes, AtWork DEF SplitOK
<1>4. /\ batch'[b].todo = left /\ batch'[b].at = "store" /\ batch'[b].ids = batch[b].ids
      /\ batch'[b].val.array = new.in
  BY <1>1, <1>3 DEF Goroutines, Slice
<1>5. left \in Seq(Pairs) /\ left # <<>> /\ Head(left) = Pair(x, i)
  <2>1. left \in Seq(Pairs) /\ left # <<>> /\ Head(left) \in Pairs
    BY <1>2, NextIdTypes
  <2> QED
    BY <2>1 DEF Pairs, Pair, Target
<1>6. e = ElementsIn(array, s) /\ InArray(array, s)
  BY <1>1 DEF Elements, ElementsIn, Within
<1> HIDE DEF x, s, new, e
<1>7. /\ new.in \in 1 .. Len(new.array)
      /\ \A a \in 1 .. l \ {s.array} : new.array[a] = array[a]
      /\ s.array # NoArray => \A d \in Devices :
           Occurrences(d, new.array[s.array])
             <= Occurrences(d, array[s.array]) + (IF d = x THEN 1 ELSE 0)
      /\ new.in = s.array \/ /\ new.in = l + 1
                             /\ \A d \in Devices :
                                  Occurrences(d, new.array[new.in])
                                    <= Occurrences(d, e) + (IF d = x THEN 1 ELSE 0)
      /\ \A a \in 1 .. Len(new.array) : a \in 1 .. l \/ a = new.in
  <2>1. new = AppendTo(s, x) /\ x \in Element
    BY <1>1 DEF new, Element
  <2>2. e = Elements(s)
    BY DEF e
  <2> QED
    <3>1. new.in \in 1 .. Len(new.array)
      BY <1>1, <1>3, <2>1, Appended
    <3>2. \A a \in 1 .. l \ {s.array} : new.array[a] = array[a]
      BY <1>1, <1>3, <2>1, Appended
    <3>3. s.array # NoArray => \A d \in Devices :
            Occurrences(d, new.array[s.array])
              <= Occurrences(d, array[s.array]) + (IF d = x THEN 1 ELSE 0)
      BY <1>1, <1>3, <2>1, Appended
    <3>4. new.in = s.array \/ /\ new.in = l + 1
                              /\ \A d \in Devices :
                                   Occurrences(d, new.array[new.in])
                                     <= Occurrences(d, e) + (IF d = x THEN 1 ELSE 0)
      BY <1>1, <1>3, <2>1, <2>2, Appended
    <3>5. \A a \in 1 .. Len(new.array) : a \in 1 .. l \/ a = new.in
      BY <1>1, <1>3, <2>1, Appended
    <3> QED
      BY <3>1, <3>2, <3>3, <3>4, <3>5
<1>8. ASSUME NEW d \in Devices
      PROVE  /\ Occurrences(d, e) \in Nat /\ (s.array = NoArray => Occurrences(d, e) = 0)
             /\ s.array # NoArray => /\ s.array \in 1 .. l
                                     /\ Occurrences(d, e) <= Occurrences(d, array[s.array])
  BY <1>1, <1>3, <1>6, SliceInArray
<1>9. s.array # NoArray => s.array \in 1 .. l
  BY <1>1, <1>8
<1>10. \A a \in 1 .. l : a = s.array => Uses(i, a)
  BY <1>2 DEF Uses, Loaded, s
<1> HIDE DEF i
<1>11. Target(b)' = i /\ l \in Nat
  BY <1>3, <1>4, LenProperties DEF Target, i
<1>12. \A a \in 1 .. l : \A j \in Instances : Uses(j, a)' => Uses(j, a)
  <2> TAKE a \in 1 .. l
  <2> TAKE j \in Instances
  <2>1. a # l + 1
    BY <1>11
  <2>2. ASSUME NEW k \in DOMAIN batch, Loaded(k)', Target(k)' = j, batch'[k].val.array = a
        PROVE  Uses(j, a)
    <3>1. CASE k = b
      BY <1>4, <1>7, <1>10, <1>11, <2>1, <2>2, <3>1
    <3>2. CASE k # b
      BY <1>2, <2>2, <3>2 DEF Uses, Loaded, Target
    <3> QED
      BY <3>1, <3>2
  <2> QED
    BY <1>2, <2>2 DEF Uses
<1>13. ASSUME NEW a, a = l + 1, NEW j \in Instances, Uses(j, a)' PROVE j = i
  <2>1. lists[j].array # a
    <3>1. lists[j].array = NoArray \/ lists[j].array <= l
      BY DEF SplitOK, Within, InArray
    <3>2. lists[j].array \in Nat
      BY DEF SplitOK, Slices
    <3> QED
      BY <1>11, <1>13, <3>1, <3>2 DEF NoArray
  <2>2. ASSUME NEW k \in DOMAIN batch, k # b, Loaded(k), batch[k].val.array = a
        PROVE  FALSE
    <3>1. batch[k] \in Goroutines /\ GoroutineOK(k)
      BY GoroutineTypes
    <3>2. batch[k].val.array \in Nat /\ Within(batch[k].val)
      BY <2>2, <3>1 DEF GoroutineOK, Goroutines, Slices
    <3>3. batch[k].val.array = NoArray \/ batch[k].val.array <= l
      BY <3>2 DEF Within, InArray
    <3> QED
      BY <1>11, <1>13, <2>2, <3>2, <3>3 DEF NoArray
  <2>3. PICK k \in DOMAIN batch : Loaded(k)' /\ Target(k)' = j /\ batch'[k].val.array = a
    BY <1>2, <1>13, <2>1 DEF Uses
  <2>4. k = b
    BY <1>2, <2>2, <2>3 DEF Loaded
  <2> QED
    BY <1>11, <2>3, <2>4
<1>14. \A a \in 1 .. Len(array') : a \notin 1 .. l =>
         /\ a = new.in /\ a = l + 1
         /\ \A d \in Devices : Occurrences(d, array'[a])
                                 <= Occurrences(d, e) + (IF d = x THEN 1 ELSE 0)
  <2> TAKE a \in 1 .. Len(array')
  <2> HAVE a \notin 1 .. l
  <2>1. a = new.in
    BY <1>1, <1>7
  <2>2. new.in \in Nat /\ new.in # 0
    BY <1>7
  <2>3. new.in # s.array
    BY <1>9, <2>1, <2>2 DEF NoArray
  <2> QED
    BY <1>1, <1>7, <2>1, <2>3
<1>15. Apart'
  <2> SUFFICES ASSUME NEW a \in 1 .. Len(array'), NEW j \in Instances, NEW k \in Instances,
                      Uses(j, a)', Uses(k, a)'
               PROVE  j = k
    BY DEF Apart
  <2>1. CASE a \in 1 .. l
    BY <1>12, <2>1 DEF FoundInv, Apart
  <2>2. CASE a \notin 1 .. l
    BY <1>13, <1>14, <2>2
  <2> QED
    BY <2>1, <2>2
<1>16. \A k \in DOMAIN batch : batch'[k].ids = batch[k].ids
  BY <1>2, <1>4
<1>17. \A d \in Devices : ListedOnce(d)'
  BY <1>2, <1>3, <1>16, StillListed
<1>18. Undone(batch)[b] = left /\ Undone(batch')[b] = Tail(left)
  BY <1>2, <1>4 DEF Undone
<1> HIDE DEF left
<1>19. ASSUME NEW d \in Devices, NEW j \in Instances PROVE Accounted(d, j)'
  <2> DEFINE y == Pair(d, j)
             m == Total(Undone(batch), y)
             n == Total(Undone(batch'), y)
             g == Occurrences(j, given[d])
             h == Occurrences(j, named[d])
             one == IF d = x /\ j = i THEN 1 ELSE 0
             p == Occurrences(y, Tail(left))
  <2>1. /\ m \in Nat /\ g \in Nat /\ h \in Nat /\ Owed(d, j) = m + g
        /\ \A a \in 1 .. l : Occurrences(d, array[a]) \in Nat
    BY Counted
  <2>2. n + one = m /\ n \in Nat
    <3> DEFINE q == Occurrences(y, left)
    <3>1. n + q = m + p /\ n \in Nat /\ p \in Nat /\ q \in Nat
      BY <1>2, <1>18, UndoneExcept
    <3>2. q = p + (IF y = Head(left) THEN 1 ELSE 0)
      BY <1>5, OccurrencesInTail
    <3>3. y = Head(left) <=> d = x /\ j = i
      BY <1>5 DEF Pair
    <3>4. q = p + one
      BY <3>2, <3>3
    <3>5. one \in {0, 1}
      OBVIOUS
    <3> HIDE DEF m, n, p, q, one
    <3> QED
      BY <2>1, <3>1, <3>4, <3>5
  <2>3. Owed(d, j)' = n + g
    BY <1>2 DEF Owed
  <2>4. /\ Occurrences(d, sending[j]) + g <= h /\ sending[j] = <<>> /\ m + g <= h
        /\ \A a \in 1 .. l : Uses(j, a) => Occurrences(d, array[a]) + (m + g) <= h
    BY <1>3, <2>1 DEF FoundInv, Accounted
  <2>5. one \in {0, 1} /\ (j = i => one = IF d = x THEN 1 ELSE 0)
    OBVIOUS
  <2> HIDE DEF y, m, n, g, h, one, p
  <2>6. n + g <= h
    BY <2>1, <2>2, <2>4, <2>5
  <2>7. ASSUME NEW a \in 1 .. Len(array'), Uses(j, a)'
        PROVE  Occurrences(d, array'[a]) + (n + g) <= h
    <3> DEFINE o == Occurrences(d, array'[a])
    <3>1. o \in Nat
      <4>1. array' \in Seq(Seq(Element))
        BY DEF SplitOK
      <4>2. array'[a] \in Seq(Element)
        BY <4>1, ElementOfSeq
      <4> QED
        BY <4>2, OccurrencesInNat
    <3>2. CASE a \in 1 .. l /\ a # s.array
      <4>1. Uses(j, a) /\ o = Occurrences(d, array[a])
        BY <1>1, <1>7, <1>12, <2>7, <3>2
      <4>2. o + (m + g) <= h
        BY <2>4, <3>2, <4>1
      <4> HIDE DEF o
      <4>3. o + (n + g) <= h
        BY <2>1, <2>2, <2>5, <3>1, <4>2
      <4> QED
        BY <4>3 DEF o
    <3>3. CASE a \in 1 .. l /\ a = s.array
      <4> DEFINE r == Occurrences(d, array[a])
      <4>1. Uses(j, a) /\ Uses(i, a) /\ a # NoArray
        BY <1>10, <1>12, <2>7, <3>3 DEF NoArray
      <4>2. j = i
        BY <1>1, <3>3, <4>1 DEF FoundInv, Apart, i
      <4>3. o <= r + one
        BY <1>1, <1>7, <2>5, <3>3, <4>1, <4>2
      <4>4. r + (m + g) <= h /\ r \in Nat
        BY <2>1, <2>4, <3>3, <4>1
      <4> HIDE DEF o, r
      <4>5. o + (n + g) <= h
        BY <2>1, <2>2, <2>5, <3>1, <4>3, <4>4
      <4> QED
        BY <4>5 DEF o
    <3>4. CASE a \notin 1 .. l
      <4> DEFINE r == Occurrences(d, e)
      <4>1. a = l + 1 /\ o <= r + (IF d = x THEN 1 ELSE 0)
        BY <1>14, <3>4
      <4>2. j = i
        BY <1>13, <2>7, <4>1
      <4>3. o <= r + one
        BY <2>5, <4>1, <4>2
      <4>4. r \in Nat /\ r + (m + g) <= h
        <5>1. CASE s.array = NoArray
          <6>1. r = 0
            BY <1>8, <5>1
          <6> HIDE DEF r
          <6> QED
            BY <2>1, <2>4, <6>1
        <5>2. CASE s.array # NoArray
          <6> DEFINE t == Occurrences(d, array[s.array])
          <6>1. s.array \in 1 .. l /\ r <= t /\ r \in Nat
            BY <1>8, <5>2
          <6>2. t \in Nat /\ t + (m + g) <= h
            BY <1>10, <2>1, <2>4, <4>2, <6>1
          <6> HIDE DEF r, t
          <6> QED
            BY <2>1, <6>1, <6>2
        <5> QED
          BY <5>1, <5>2
      <4> HIDE DEF o, r
      <4>5. o + (n + g) <= h
        BY <2>1, <2>2, <2>5, <3>1, <4>3, <4>4
      <4> QED
        BY <4>5 DEF o
    <3> QED
      BY <3>2, <3>3, <3>4
  <2> QED
    BY <1>2, <2>3, <2>4, <2>6, <2>7 DEF Accounted, g, h
<1> QED
  BY <1>15, <1>17, <1>19 DEF FoundInv

\* The instructions dispatched are those in the lists.
LEMMA DispatchFound ==
    ASSUME RequestOK, RequestOK', SplitOK, SplitOK', FoundInv, Dispatch
    PROVE  FoundInv'
<1>1. /\ at = "wait" /\ at' = "replied" /\ UNCHANGED <<splitting, named, given, listed>>
      /\ sending' = [i \in Instances |->
                       Times(Len(Elements(lists[i])), None) \o Elements(lists[i])]
  BY DEF Dispatch, outcome
<1>2. \A a \in 1 .. Len(array) : \A i \in Instances : Uses(i, a)' => Uses(i, a)
  BY <1>1 DEF Uses, Loaded, Target, splitting
<1>3. Apart'
  BY <1>1, <1>2, StillApart DEF splitting
<1>4. ASSUME NEW d \in Devices PROVE ListedOnce(d)'
  BY <1>1 DEF FoundInv, ListedOnce, splitting
<1>5. ASSUME NEW d \in Devices, NEW i \in Instances PROVE Accounted(d, i)'
  <2> DEFINE s == lists[i]
             e == Elements(s)
             n == Occurrences(d, e)
             m == Total(Undone(batch), Pair(d, i))
             g == Occurrences(i, given[d])
             k == Occurrences(i, named[d])
  <2>1. /\ m \in Nat /\ g \in Nat /\ k \in Nat /\ Owed(d, i) = m + g
        /\ \A a \in 1 .. Len(array) : Occurrences(d, array[a]) \in Nat
    BY Counted
  <2>2. /\ s \in Slices /\ InArray(array, s) /\ array \in Seq(Seq(Element))
        /\ e = ElementsIn(array, s)
    BY DEF SplitOK, Within, Elements, ElementsIn
  <2>3. /\ s.array # NoArray => Uses(i, s.array)
        /\ sending'[i] = Times(Len(e), None) \o e
    BY <1>1 DEF Uses
  <2>4. m + g <= k /\ \A a \in 1 .. Len(array) : Uses(i, a) =>
                        Occurrences(d, array[a]) + (m + g) <= k
    BY <1>1, <2>1 DEF FoundInv, Accounted
  <2> HIDE DEF s, e
  <2>5. /\ n \in Nat /\ (s.array = NoArray => n = 0)
        /\ s.array # NoArray => s.array \in 1 .. Len(array) /\ n <= Occurrences(d, array[s.array])
    BY <2>2, SliceInArray
  <2>6. Occurrences(d, sending'[i]) = n
    <3> DEFINE t == Times(Len(e), None)
    <3>1. e \in Seq(Element) /\ Len(e) \in Nat
      BY <2>2, SliceElements, LenProperties
    <3>2. t \in Seq(Element) /\ None # d
      BY <3>1, Blanks, ConstantsAssumption DEF ConstantsAssumption
    <3>3. Occurrences(d, t) = 0
      BY <3>1, <3>2, OccurrencesInTimes
    <3> HIDE DEF t
    <3>4. Occurrences(d, t \o e) = Occurrences(d, t) + n
      BY <3>1, <3>2, OccurrencesInConcat
    <3>5. Occurrences(d, t \o e) = n
      BY <2>5, <3>3, <3>4
    <3> QED
      BY <2>3, <3>5 DEF t
  <2> HIDE DEF n, m, g, k
  <2>7. n + g <= k
    <3>1. CASE s.array = NoArray
      BY <2>1, <2>4, <2>5, <3>1
    <3>2. CASE s.array # NoArray
      <4> DEFINE r == Occurrences(d, array[s.array])
      <4>1. r \in Nat /\ n <= r /\ r + (m + g) <= k
        BY <2>1, <2>3, <2>4, <2>5, <3>2
      <4> HIDE DEF r
      <4> QED
        BY <2>1, <2>5, <4>1
    <3> QED
      BY <3>1, <3>2
  <2> QED
    BY <1>1, <2>6, <2>7 DEF Accounted, g, k
<1> QED
  BY <1>3, <1>4, <1>5 DEF FoundInv

\* What is published is not published again.
LEMMA PublishFound ==
    ASSUME RequestOK, RequestOK', SplitOK, SplitOK', FoundInv, NEW i \in Instances,
           PublishBatch(i) \/ PublishFails(i)
    PROVE  FoundInv'
<1> DEFINE now == Part(sending[i], 0)
           rest == After(sending[i])
<1>1. /\ UNCHANGED <<at, ids, remote, splitting, named, listed>>
      /\ sending[i] # <<>>
  BY DEF PublishBatch, PublishFails, collecting
<1>2. \A a \in 1 .. Len(array) : \A j \in Instances : Uses(j, a)' => Uses(j, a)
  BY <1>1 DEF Uses, Loaded, Target, splitting
<1>3. Apart'
  BY <1>1, <1>2, StillApart DEF splitting
<1>4. ASSUME NEW d \in Devices PROVE ListedOnce(d)'
  BY <1>1 DEF FoundInv, ListedOnce, splitting
<1>5. /\ now \in Seq(Element) /\ rest \in Seq(Element) /\ sending[i] = now \o rest
      /\ sending' = [sending EXCEPT ![i] = rest]
  <2>1. sending[i] \in Seq(Element)
    BY DEF SplitOK
  <2> QED
    BY <2>1, FirstPart, PublishTypes
<1>6. \/ given' = [d \in Devices |-> given[d] \o Times(Occurrences(d, now), i)]
      \/ given' = given
  BY DEF PublishBatch, PublishFails
<1> HIDE DEF now, rest
<1>7. ASSUME NEW d \in Devices, NEW j \in Instances PROVE Accounted(d, j)'
  <2> DEFINE p == Occurrences(d, sending[j])
             q == Occurrences(d, sending'[j])
             g == Occurrences(j, given[d])
             h == Occurrences(j, given'[d])
             k == Occurrences(j, named[d])
             one == Occurrences(d, now)
  <2>1. /\ p \in Nat /\ g \in Nat /\ k \in Nat /\ given[d] \in Seq(Instances)
        /\ sending \in [Instances -> Seq(Element)]
    BY Counted DEF SplitOK
  <2>2. q \in Nat /\ h \in Nat /\ one \in Nat
    <3>1. sending'[j] \in Seq(Element) /\ given'[d] \in Seq(Instances)
      BY DEF SplitOK, RequestOK
    <3> QED
      BY <1>5, <3>1, OccurrencesInNat
  <2>3. p = IF j = i THEN one + q ELSE q
    <3>1. CASE j = i
      <4>1. sending'[j] = rest /\ sending[j] = now \o rest
        BY <1>5, <2>1, <3>1
      <4>2. Occurrences(d, now \o rest) = one + Occurrences(d, rest)
        BY <1>5, OccurrencesInConcat
      <4> QED
        BY <3>1, <4>1, <4>2
    <3>2. CASE j # i
      BY <1>5, <2>1, <3>2
    <3> QED
      BY <3>1, <3>2
  <2>4. h = g \/ h = g + (IF j = i THEN one ELSE 0)
    <3>1. CASE given' = [e \in Devices |-> given[e] \o Times(Occurrences(e, now), i)]
      <4> DEFINE t == Times(one, i)
      <4>1. given'[d] = given[d] \o t
        BY <3>1
      <4>2. t \in Seq(Instances) /\ Occurrences(j, t) = IF j = i THEN one ELSE 0
        BY <2>2, TimesTypes, OccurrencesInTimes
      <4> HIDE DEF t
      <4> QED
        BY <2>1, <4>1, <4>2, OccurrencesInConcat
    <3> QED
      BY <1>6, <3>1
  <2>5. p + g <= k
    BY DEF FoundInv, Accounted
  <2> HIDE DEF p, q, g, h, k, one
  <2>6. q + h <= k
    BY <2>1, <2>2, <2>3, <2>4, <2>5
  <2>7. at' = "replied"
    BY <1>1 DEF FoundInv, Accounted
  <2> QED
    BY <1>1, <2>6, <2>7 DEF Accounted, q, h, k
<1> QED
  BY <1>3, <1>4, <1>7 DEF FoundInv

\* Every step of the request keeps what is known of its addresses.
LEMMA RequestFound ==
    ASSUME TypeOK, RequestOK, RequestOK', SplitOK, SplitOK', FoundInv, RequestStep
    PROVE  FoundInv'
<1>1. CASE RequestArrives \/ ReadFails \/ Listed \/ EachDevice
  BY <1>1, CollectFound
<1>2. CASE Split \/ Dispatch
  BY <1>2, SplitFound, DispatchFound
<1>3. ASSUME NEW i \in Instances, ReadInstanceSet(i) \/ PublishBatch(i) \/ PublishFails(i)
      PROVE  FoundInv'
  BY <1>3, CollectFound, PublishFound
<1>4. ASSUME NEW u \in Users, ReadUserSet(u) PROVE FoundInv'
  BY <1>4, CollectFound
<1>5. ASSUME NEW b \in DOMAIN batch, GetAddresses(b) \/ GetFails(b) PROVE FoundInv'
  BY <1>5, GetFound
<1>6. ASSUME NEW b \in DOMAIN batch, SkipDevice(b) PROVE FoundInv'
  <2>1. /\ batch[b].at = "load" /\ batch' = [batch EXCEPT ![b] = NextId(batch[b])]
        /\ UNCHANGED <<at, array, lists, sending, listed, named, given>>
    BY <1>6 DEF SkipDevice, outcome, splitting
  <2> QED
    BY <2>1, NextFound
<1>7. ASSUME NEW b \in DOMAIN batch, LoadOrStore(b) \/ AppendDevice(b) PROVE FoundInv'
  BY <1>7, LoadFound, AppendFound
<1>8. ASSUME NEW b \in DOMAIN batch, Store(b) PROVE FoundInv'
  <2>1. /\ batch[b].at = "store" /\ batch' = [batch EXCEPT ![b] = NextId(batch[b])]
        /\ UNCHANGED <<at, array, sending, listed, named, given>>
    BY <1>8 DEF Store, outcome
  <2>2. lists' = [lists EXCEPT ![Target(b)] = batch[b].val]
    BY <1>8 DEF Store, Target
  <2>3. lists \in [Instances -> Slices] /\ Loaded(b)
    BY <2>1 DEF SplitOK, Loaded
  <2>4. \A i \in Instances : \/ lists'[i].array = lists[i].array
                             \/ Loaded(b) /\ Target(b) = i
                                /\ lists'[i].array = batch[b].val.array
    BY <2>2, <2>3
  <2> QED
    BY <2>1, <2>4, NextFound
<1> QED
  BY <1>1, <1>2, <1>3, <1>4, <1>5, <1>6, <1>7, <1>8 DEF RequestStep
------------------------------------------------------------------------------
(* Whom the request reaches.                                                *)

\* What is known of a session that is steady.
LEMMA SteadyFacts ==
    ASSUME RequestOK, Steadily, NEW c \in steady
    PROVE  LET d == deviceOf[c]
               i == instanceOf[c]
           IN
           /\ c \in Conns /\ d \in Devices /\ i \in Instances /\ i # None /\ d # None
           /\ uidOf[c] \in Users
           /\ AddressOf(d) = i
           /\ SendAll => i \in cluster /\ d \in instSet[i]
           /\ ~SendAll => d \in params.names
                            \/ (uidOf[c] \in params.uids /\ d \in userSet[uidOf[c]])
           /\ devices[Self][d] = None \/ i = Self
<1>1. c \in Conns /\ WithinReach(c)
  BY DEF RequestOK, Steadily
<1>2. /\ deviceOf[c] \in Devices /\ instanceOf[c] \in Instances /\ uidOf[c] \in Users
      /\ None \notin Devices \cup Instances
  BY <1>1, ConstantsAssumption DEF ConstantsAssumption
<1> QED
  BY <1>1, <1>2 DEF WithinReach, AddressOf

\* What is steady stays so when the sessions take no step.
LEMMA SteadyKept ==
    ASSUME Steadily, UNCHANGED <<vars, params, steady>>, at' = "idle" => at = "idle",
           at' = "collect" /\ ~SendAll => params.names \subseteq found'
    PROVE  Steadily'
<1>1. ASSUME NEW c \in steady PROVE WithinReach(c)'
  BY <1>1 DEF Steadily, WithinReach, SendAll, vars, redisVars, deviceKey
<1>2. SendAll' <=> SendAll
  BY DEF SendAll
<1> QED
  BY <1>1, <1>2 DEF Steadily

\* A step of the sessions takes from what is steady those out of reach.
LEMMA SessionsSteady ==
    ASSUME SteadyInv, SessionStep
    PROVE  SteadyInv'
<1>1. /\ UNCHANGED <<params, at, collecting, splitting, sending, outcome>>
      /\ steady' = {c \in steady : WithinReach(c)'}
  BY DEF SessionStep
<1>2. Steadily'
  BY <1>1 DEF SteadyInv, Steadily, SendAll, collecting
<1>3. Lone'
  BY <1>1 DEF SteadyInv, Lone, Target, Elements, splitting
<1>4. Tracked'
  <2> SUFFICES ASSUME ~failed', NEW c \in steady'
               PROVE  Track(deviceOf[c], instanceOf[c], uidOf[c])'
    BY DEF Tracked
  <2>1. Track(deviceOf[c], instanceOf[c], uidOf[c])
    BY <1>1 DEF SteadyInv, Tracked, outcome
  <2> QED
    BY <1>1, <2>1 DEF Track, InSplit, Elements, SendAll, collecting, splitting, outcome
<1> QED
  BY <1>2, <1>3, <1>4 DEF SteadyInv

\* No steady session is missed by what the request reads, nor in its loop.
LEMMA CollectSteady ==
    ASSUME TypeOK, RequestOK, SplitOK, SteadyInv, UNCHANGED vars,
           \/ RequestArrives \/ ReadFails \/ Listed \/ EachDevice
           \/ \E i \in Instances : ReadInstanceSet(i)
           \/ \E u \in Users : ReadUserSet(u)
    PROVE  SteadyInv'
<1>1. /\ at \in {"idle", "collect", "each"} /\ at' \in {"collect", "each"}
      /\ UNCHANGED <<params, splitting>>
      /\ ~RequestArrives => UNCHANGED steady
  BY DEF RequestArrives, ReadFails, Listed, EachDevice, ReadInstanceSet, ReadUserSet
<1>2. batch' = <<>>
  BY <1>1, BeforeSplit DEF splitting
<1>3. Lone'
  BY <1>2 DEF Lone
<1>4. /\ SendAll' <=> SendAll
      /\ params.names \subseteq Devices
  BY <1>1, SendAssumption DEF SendAssumption, RequestOK, SendAll
<1>5. CASE RequestArrives
  <2>1. /\ at' = "collect" /\ found' = params.names
        /\ reading' = IF SendAll THEN cluster ELSE params.uids
        /\ steady' = {c \in Conns : WithinReach(c)}
    BY <1>5 DEF RequestArrives
  <2>2. ASSUME NEW c \in Conns PROVE WithinReach(c) <=> WithinReach(c)'
    BY <1>1 DEF WithinReach, SendAll, vars, redisVars, deviceKey
  <2>3. Steadily'
    BY <1>1, <2>1, <2>2 DEF Steadily
  <2>4. \A c \in steady' : Track(deviceOf[c], instanceOf[c], uidOf[c])'
    BY <1>4, <2>1 DEF WithinReach, Track
  <2> QED
    BY <1>3, <2>3, <2>4 DEF SteadyInv, Tracked
<1>6. CASE ReadFails
  <2>1. failed' /\ Steadily'
    BY <1>1, <1>6, SteadyKept DEF ReadFails, SteadyInv
  <2> QED
    BY <1>3, <2>1 DEF SteadyInv, Tracked
<1>7. CASE Listed
  <2>1. Steadily' /\ at = "collect" /\ at' = "each" /\ reading = {} /\ UNCHANGED failed
    BY <1>1, <1>7, SteadyKept DEF Listed, SteadyInv
  <2>2. SendAll => ids' = ids
    BY <1>7 DEF Listed
  <2>3. ~SendAll => ToSet(ids') = found
    <3>1. IsFiniteSet(found)
      <4>1. found \in SUBSET Devices /\ IsFiniteSet(Devices)
        BY SendAssumption DEF SendAssumption, RequestOK
      <4> QED
        BY <4>1, FS_Subset
    <3>2. ~SendAll => ids' \in SetToSeqs(found)
      BY <1>7 DEF Listed
    <3> QED
      BY <3>1, <3>2, ListOfSet
  <2>4. ASSUME ~failed, NEW c \in steady
        PROVE  Track(deviceOf[c], instanceOf[c], uidOf[c])'
    <3>1. Track(deviceOf[c], instanceOf[c], uidOf[c])
      BY <2>4 DEF SteadyInv, Tracked
    <3>2. deviceOf[c] \in ToSet(ids')
      BY <2>1, <2>2, <2>3, <3>1 DEF Track
    <3> QED
      BY <2>1, <3>2 DEF Track
  <2> QED
    BY <1>1, <1>3, <1>7, <2>1, <2>4 DEF SteadyInv, Tracked, Listed, RequestArrives
<1>8. CASE EachDevice
  <2> DEFINE h == Head(ids)
  <2>1. /\ at = "each" /\ at' = "each" /\ ids # <<>> /\ ids' = Tail(ids)
        /\ UNCHANGED <<failed, steady>>
        /\ \/ /\ devices[Self][h] # None
              /\ given' = [given EXCEPT ![h] = Append(@, Self)] /\ remote' = remote
           \/ remote' = Append(remote, h) /\ given' = given
    BY <1>8 DEF EachDevice, RemoteAfterLocal
  <2>2. Steadily'
    BY <1>1, <2>1, SteadyKept DEF SteadyInv
  <2>3. ToSet(ids) = {h} \cup ToSet(ids') /\ h \in Devices
    BY <2>1, TailElements DEF RequestOK
  <2> HIDE DEF h
  <2>4. ToSet(Append(remote, h)) = ToSet(remote) \cup {h}
    BY <2>3, AppendElements DEF RequestOK
  <2>5. ASSUME ~failed, NEW c \in steady
        PROVE  Track(deviceOf[c], instanceOf[c], uidOf[c])'
    <3>1. Track(deviceOf[c], instanceOf[c], uidOf[c])
      BY <2>5 DEF SteadyInv, Tracked
    <3>2. /\ deviceOf[c] \in Devices
          /\ devices[Self][deviceOf[c]] = None \/ instanceOf[c] = Self
      BY SteadyFacts DEF SteadyInv
    <3>3. \/ deviceOf[c] \in ToSet(ids) \cup ToSet(remote)
          \/ instanceOf[c] \in ToSet(given[deviceOf[c]])
      BY <2>1, <3>1 DEF Track
    <3>4. CASE given' = given /\ remote' = Append(remote, h)
      <4>1. \/ deviceOf[c] \in ToSet(ids') \cup ToSet(remote')
            \/ instanceOf[c] \in ToSet(given'[deviceOf[c]])
        BY <2>3, <2>4, <3>3, <3>4
      <4> QED
        BY <2>1, <4>1 DEF Track
    <3>5. CASE /\ devices[Self][h] # None /\ remote' = remote
               /\ given' = [given EXCEPT ![h] = Append(@, Self)]
      <4>1. ToSet(given[h]) \cup {Self} = ToSet(given'[h])
        <5>1. given[h] \in Seq(Instances) /\ Self \in Instances
          BY <2>3, SendAssumption DEF SendAssumption, RequestOK
        <5>2. given'[h] = Append(given[h], Self)
          BY <2>3, <3>5 DEF RequestOK
        <5> QED
          BY <5>1, <5>2, AppendElements
      <4>2. deviceOf[c] # h => given'[deviceOf[c]] = given[deviceOf[c]]
        BY <3>2, <3>5 DEF RequestOK
      <4>3. \/ deviceOf[c] \in ToSet(ids') \cup ToSet(remote')
            \/ instanceOf[c] \in ToSet(given'[deviceOf[c]])
        BY <2>3, <3>2, <3>3, <3>5, <4>1, <4>2
      <4> QED
        BY <2>1, <4>3 DEF Track
    <3> QED
      BY <2>1, <3>4, <3>5
  <2> QED
    BY <1>3, <2>1, <2>2, <2>5 DEF SteadyInv, Tracked
<1>9. ASSUME NEW i \in Instances, ReadInstanceSet(i) PROVE SteadyInv'
  <2>1. /\ at = "collect" /\ at' = "collect" /\ SendAll /\ reading' = reading \ {i}
        /\ UNCHANGED <<failed, steady>>
    BY <1>9 DEF ReadInstanceSet, outcome
  <2>2. Steadily'
    BY <1>1, <2>1, SteadyKept DEF SteadyInv
  <2>3. PICK members \in SetToSeqs(instSet[i]) : ids' = ids \o members
    BY <1>9 DEF ReadInstanceSet
  <2>4. IsFiniteSet(instSet[i]) /\ instSet[i] \subseteq Devices
    <3>1. instSet[i] \in SUBSET Devices /\ IsFiniteSet(Devices)
      BY SendAssumption DEF SendAssumption, TypeOK
    <3> QED
      BY <3>1, FS_Subset
  <2>5. members \in Seq(Devices) /\ ToSet(members) = instSet[i]
    BY <2>3, <2>4, ListOfSet, SeqMonotonic
  <2>6. ToSet(ids') = ToSet(ids) \cup instSet[i]
    BY <2>3, <2>5, ConcatElements DEF RequestOK
  <2>7. ASSUME ~failed, NEW c \in steady
        PROVE  Track(deviceOf[c], instanceOf[c], uidOf[c])'
    <3>1. Track(deviceOf[c], instanceOf[c], uidOf[c])
      BY <2>7 DEF SteadyInv, Tracked
    <3>2. deviceOf[c] \in instSet[instanceOf[c]]
      BY <2>1, SteadyFacts DEF SteadyInv
    <3>3. instanceOf[c] \in reading' \/ deviceOf[c] \in ToSet(ids')
      BY <2>1, <2>6, <3>1, <3>2 DEF Track
    <3> QED
      BY <1>4, <2>1, <3>3 DEF Track
  <2> QED
    BY <1>3, <2>1, <2>2, <2>7 DEF SteadyInv, Tracked
<1>10. ASSUME NEW u \in Users, ReadUserSet(u) PROVE SteadyInv'
  <2>1. /\ at = "collect" /\ at' = "collect" /\ ~SendAll /\ reading' = reading \ {u}
        /\ found' = found \cup userSet[u]
        /\ UNCHANGED <<failed, steady>>
    BY <1>10 DEF ReadUserSet, outcome
  <2>2. params.names \subseteq found
    BY <2>1 DEF SteadyInv, Steadily
  <2>3. Steadily'
    BY <1>1, <2>1, <2>2, SteadyKept DEF SteadyInv
  <2>4. ASSUME ~failed, NEW c \in steady
        PROVE  Track(deviceOf[c], instanceOf[c], uidOf[c])'
    <3>1. Track(deviceOf[c], instanceOf[c], uidOf[c])
      BY <2>4 DEF SteadyInv, Tracked
    <3>2. deviceOf[c] \in params.names \/ deviceOf[c] \in userSet[uidOf[c]]
      BY <2>1, SteadyFacts DEF SteadyInv
    <3>3. uidOf[c] \in reading' \/ deviceOf[c] \in found'
      BY <2>1, <2>2, <3>1, <3>2 DEF Track
    <3> QED
      BY <1>4, <2>1, <3>3 DEF Track
  <2> QED
    BY <1>3, <2>1, <2>3, <2>4 DEF SteadyInv, Tracked
<1> QED
  BY <1>5, <1>6, <1>7, <1>8, <1>9, <1>10

\* All that is remote goes into the split.
LEMMA SplitSteady ==
    ASSUME RequestOK, SplitOK, SteadyInv, Split, UNCHANGED vars
    PROVE  SteadyInv'
<1> DEFINE n == Batches(remote)
<1>1. /\ at = "each" /\ ids = <<>> /\ at' = IF remote = <<>> THEN "replied" ELSE "wait"
      /\ batch' = [b \in 1 .. n |->
                     [at |-> "get", ids |-> Part(remote, (b - 1) * BatchSize),
                      todo |-> <<>>, val |-> NoSlice]]
      /\ UNCHANGED <<params, steady, sending, failed, given>>
  BY DEF Split, outcome
<1>2. remote \in Seq(Devices) /\ n \in Nat /\ (n = 0 => remote = <<>>)
      /\ (n = 1 => Len(remote) <= BatchSize)
  BY Batching DEF RequestOK
<1>3. ToSet(<<>>) = {}
  BY DEF ToSet
<1>4. Steadily'
  BY <1>1, SteadyKept DEF SteadyInv
<1> HIDE DEF n
<1>5. DOMAIN batch' = 1 .. n /\ Len(batch') = n
  BY <1>1, <1>2
<1>6. Lone'
  BY <1>1 DEF Lone
<1>7. ASSUME ~failed, NEW c \in steady
      PROVE  Track(deviceOf[c], instanceOf[c], uidOf[c])'
  <2> DEFINE d == deviceOf[c]
             i == instanceOf[c]
  <2>1. Track(deviceOf[c], instanceOf[c], uidOf[c])
    BY <1>7 DEF SteadyInv, Tracked
  <2>2. d \in ToSet(remote) \/ i \in ToSet(given[d])
    BY <1>1, <1>3, <2>1 DEF Track
  <2>3. CASE remote = <<>>
    BY <1>1, <1>3, <2>2, <2>3 DEF Track
  <2>4. CASE remote # <<>> /\ n # 1
    <3>1. ~(Len(batch') <= 1)
      BY <1>2, <1>5, <2>4
    <3> QED
      BY <1>1, <2>4, <3>1 DEF Track
  <2>5. CASE remote # <<>> /\ n = 1
    <3>1. (1 - 1) * BatchSize = 0
      BY SendAssumption DEF SendAssumption
    <3>2. Part(remote, 0) = remote
      BY <1>2, <2>5, FirstPart
    <3>3. 1 \in DOMAIN batch' /\ batch'[1].ids = remote
      BY <1>1, <1>5, <2>5, <3>1, <3>2
    <3>4. InSplit(d, i)' \/ i \in ToSet(given[d])'
      BY <1>1, <2>2, <3>3 DEF InSplit
    <3> QED
      BY <1>1, <2>5, <3>4 DEF Track
  <2> QED
    BY <2>3, <2>4, <2>5
<1> QED
  BY <1>1, <1>4, <1>6, <1>7 DEF SteadyInv, Tracked

\* A goroutine that is alone is the first.
LEMMA Alone ==
    ASSUME SplitOK, NEW b \in DOMAIN batch, Len(batch) <= 1
    PROVE  Len(batch) = 1 /\ b = 1 /\ DOMAIN batch = {b}
<1>1. b \in 1 .. Len(batch) /\ DOMAIN batch = 1 .. Len(batch) /\ Len(batch) \in Nat
  BY LenProperties DEF SplitOK
<1> QED
  BY <1>1

\* What a step of a goroutine that is alone must not lose.
LEMMA GoroutineSteady ==
    ASSUME RequestOK, SplitOK, SplitOK', SteadyInv, UNCHANGED vars,
           NEW b \in DOMAIN batch, batch[b].at # "done",
           UNCHANGED <<params, at, given, steady>>, ~failed' => ~failed,
           Len(batch') = Len(batch), DOMAIN batch' = DOMAIN batch,
           Len(batch) = 1 /\ DOMAIN batch = {b} => Lone',
           \A c \in steady : ~failed' /\ Len(batch) = 1 /\ DOMAIN batch = {b} =>
             (InSplit(deviceOf[c], instanceOf[c]) => InSplit(deviceOf[c], instanceOf[c])')
    PROVE  SteadyInv'
<1>1. at = "wait" /\ at' = "wait"
  BY AtWork
<1>2. Steadily'
  BY <1>1, SteadyKept DEF SteadyInv
<1>3. CASE Len(batch) = 1
  <2>1. DOMAIN batch = {b}
    BY <1>3, Alone
  <2>2. Lone'
    BY <1>3, <2>1
  <2>3. ASSUME ~failed', NEW c \in steady
        PROVE  Track(deviceOf[c], instanceOf[c], uidOf[c])'
    <3>1. Track(deviceOf[c], instanceOf[c], uidOf[c])
      BY <2>3 DEF SteadyInv, Tracked
    <3>2. \/ InSplit(deviceOf[c], instanceOf[c])
          \/ instanceOf[c] \in ToSet(given[deviceOf[c]])
      BY <1>1, <1>3, <3>1 DEF Track
    <3>3. InSplit(deviceOf[c], instanceOf[c]) => InSplit(deviceOf[c], instanceOf[c])'
      BY <1>3, <2>1, <2>3
    <3> QED
      BY <1>1, <3>2, <3>3 DEF Track
  <2> QED
    BY <1>2, <2>2, <2>3 DEF SteadyInv, Tracked
<1>4. CASE Len(batch) # 1
  <2>1. Len(batch) \in Nat /\ ~(Len(batch) <= 1)
    BY <1>4, Alone, LenProperties DEF SplitOK
  <2>2. Lone'
    BY <1>4 DEF Lone
  <2>3. \A c \in steady : Track(deviceOf[c], instanceOf[c], uidOf[c])'
    BY <1>1, <2>1 DEF Track
  <2> QED
    BY <1>2, <2>2, <2>3 DEF SteadyInv, Tracked
<1> QED
  BY <1>3, <1>4

\* A goroutine looks up its devices.
LEMMA GetSteady ==
    ASSUME TypeOK, RequestOK, SplitOK, SteadyInv, UNCHANGED vars, NEW b \in DOMAIN batch,
           GetAddresses(b) \/ GetFails(b)
    PROVE  SteadyInv'
<1>1. /\ batch[b].at = "get" /\ batch[b] \in Goroutines /\ GoroutineOK(b)
      /\ UNCHANGED <<params, at, given, steady, array, lists>>
      /\ failed' \/ (GetAddresses(b) /\ UNCHANGED failed)
  BY GoroutineTypes DEF GetAddresses, GetFails
<1>2. RequestOK' /\ SplitOK' /\ DOMAIN batch' = DOMAIN batch
  BY GetTypes DEF GetAddresses, GetFails
<1>3. Len(batch') = Len(batch)
  <2>1. batch \in Seq(Goroutines) /\ batch' \in Seq(Goroutines)
    BY <1>2 DEF SplitOK
  <2> QED
    BY <1>2, <2>1, LenProperties
<1>4. batch'[b].at \in {"load", "done"}
  BY <1>1 DEF GetAddresses, GetFails, Goroutines
<1>5. DOMAIN batch = {b} => Lone'
  BY <1>2, <1>4 DEF Lone
<1>6. ASSUME ~failed', NEW c \in steady, DOMAIN batch = {b},
             InSplit(deviceOf[c], instanceOf[c])
      PROVE  InSplit(deviceOf[c], instanceOf[c])'
  <2> DEFINE d == deviceOf[c]
             i == instanceOf[c]
             s == batch[b].ids
             t == Addressed(s)
  <2>1. /\ batch' = [batch EXCEPT ![b] = [at |-> "load", ids |-> <<>>, todo |-> t,
                                          val |-> NoSlice]]
    BY <1>1, <1>6 DEF GetAddresses
  <2>2. batch'[b].todo = t
    BY <2>1
  <2>3. AddressOf(d) = i
    BY SteadyFacts DEF SteadyInv
  <2>4. s \in Seq(Devices) /\ batch[b].todo = <<>>
    BY <1>1 DEF GoroutineOK, Goroutines
  <2>5. ToSet(<<>>) = {}
    BY DEF ToSet
  <2>6. d \in ToSet(s) \/ d \in ToSet(Elements(lists[i]))
    BY <1>6, <2>4, <2>5 DEF InSplit
  <2>7. d \in ToSet(s) => [id |-> d, address |-> i] \in ToSet(t)
    <3>1. SUFFICES ASSUME d \in ToSet(s) PROVE [id |-> d, address |-> i] \in ToSet(t)
      OBVIOUS
    <3>2. PICK k \in DOMAIN s : d = s[k]
      BY <3>1 DEF ToSet
    <3>3. DOMAIN t = DOMAIN s /\ t[k] = [id |-> s[k], address |-> AddressOf(s[k])]
      BY DEF Addressed
    <3>4. t[k] = [id |-> d, address |-> i] /\ k \in DOMAIN t
      BY <2>3, <3>2, <3>3
    <3> QED
      BY <3>4 DEF ToSet
  <2>8. ToSet(Elements(lists[i]))' = ToSet(Elements(lists[i]))
    BY <1>1 DEF Elements
  <2> HIDE DEF d, i, s, t
  <2>9. InSplit(d, i)'
    BY <1>2, <2>2, <2>6, <2>7, <2>8 DEF InSplit, d, i
  <2> QED
    BY <2>9 DEF d, i
<1> QED
  BY <1>1, <1>2, <1>3, <1>5, <1>6, GoroutineSteady

\* A goroutine passes over an id whose address is not found.
LEMMA SkipSteady ==
    ASSUME RequestOK, SplitOK, SteadyInv, UNCHANGED vars, NEW b \in DOMAIN batch,
           SkipDevice(b)
    PROVE  SteadyInv'
<1> DEFINE g == NextId(batch[b])
<1>1. /\ batch[b].at = "load" /\ Head(batch[b].todo).address = None
      /\ batch' = [batch EXCEPT ![b] = g]
      /\ UNCHANGED <<params, at, given, steady, failed, array, lists>>
  BY DEF SkipDevice, outcome
<1>2. /\ g.todo = Tail(batch[b].todo) /\ g \in Goroutines /\ g.at \in {"done", "load"}
      /\ batch[b].todo \in Seq(Pairs) /\ batch[b].todo # <<>>
  BY <1>1, NextIdTypes
<1>3. RequestOK' /\ SplitOK'
  BY SkipTypes
<1> HIDE DEF g
<1>4. Len(batch') = Len(batch) /\ DOMAIN batch' = DOMAIN batch /\ batch'[b] = g
  BY <1>1, <1>2, OneGoroutine DEF SplitOK
<1>5. DOMAIN batch = {b} => Lone'
  BY <1>2, <1>4 DEF Lone
<1>6. ToSet(batch[b].todo) = {Head(batch[b].todo)} \cup ToSet(g.todo)
  BY <1>2, TailElements
<1>7. batch[b].ids = <<>> /\ ToSet(<<>>) = {}
  BY <1>1, GoroutineTypes DEF GoroutineOK, ToSet
<1>8. ASSUME NEW c \in steady, DOMAIN batch = {b}, InSplit(deviceOf[c], instanceOf[c])
      PROVE  InSplit(deviceOf[c], instanceOf[c])'
  <2> DEFINE d == deviceOf[c]
             i == instanceOf[c]
             p == [id |-> d, address |-> i]
  <2>1. i # None
    BY SteadyFacts DEF SteadyInv
  <2>2. p # Head(batch[b].todo)
    BY <1>1, <2>1
  <2>3. p \in ToSet(batch[b].todo) \/ d \in ToSet(Elements(lists[i]))
    BY <1>7, <1>8 DEF InSplit
  <2>4. p \in ToSet(batch'[b].todo) \/ d \in ToSet(Elements(lists[i]))
    BY <1>4, <1>6, <2>2, <2>3
  <2>5. ToSet(Elements(lists[i]))' = ToSet(Elements(lists[i]))
    BY <1>1 DEF Elements
  <2> QED
    BY <1>4, <2>4, <2>5 DEF InSplit
<1> QED
  BY <1>1, <1>3, <1>4, <1>5, <1>8, GoroutineSteady

\* Loading a list, or an empty one, changes what none holds.
LEMMA LoadSteady ==
    ASSUME RequestOK, SplitOK, SteadyInv, UNCHANGED vars, NEW b \in DOMAIN batch,
           LoadOrStore(b)
    PROVE  SteadyInv'
<1> DEFINE i == Target(b)
<1>1. /\ RequestOK' /\ SplitOK' /\ i \in Instances
      /\ lists'[i] = IF lists[i] = NoSlice THEN Slice(NoArray, 0) ELSE lists[i]
      /\ batch'[b] = [batch[b] EXCEPT !.at = "append", !.val = lists'[i]]
  BY LoadTypes
<1>2. /\ UNCHANGED <<params, at, given, steady, failed, array>>
      /\ \A j \in Instances : j # i => lists'[j] = lists[j]
      /\ DOMAIN batch' = DOMAIN batch /\ batch[b].at = "load"
  BY DEF LoadOrStore, outcome, Target
<1>3. Len(batch') = Len(batch)
  <2>1. batch \in Seq(Goroutines) /\ batch' \in Seq(Goroutines)
    BY <1>1 DEF SplitOK
  <2> QED
    BY <1>2, <2>1, LenProperties
<1>4. batch[b] \in Goroutines
  BY GoroutineTypes
<1>5. /\ batch'[b].at = "append" /\ batch'[b].val = lists'[i]
      /\ batch'[b].todo = batch[b].todo /\ batch'[b].ids = batch[b].ids
  BY <1>1, <1>4 DEF Goroutines
<1>6. Target(b)' = i
  BY <1>5 DEF Target
<1> HIDE DEF i
<1>7. DOMAIN batch = {b} => Lone'
  BY <1>2, <1>5, <1>6 DEF Lone
<1>8. \A j \in Instances : Elements(lists[j])' = Elements(lists[j])
  <2> TAKE j \in Instances
  <2>1. CASE j = i
    BY <1>1, <1>2, <2>1 DEF Elements, NoSlice, Slice
  <2>2. CASE j # i
    BY <1>2, <2>2 DEF Elements
  <2> QED
    BY <2>1, <2>2
<1>9. ASSUME NEW c \in steady, DOMAIN batch = {b}, InSplit(deviceOf[c], instanceOf[c])
      PROVE  InSplit(deviceOf[c], instanceOf[c])'
  <2>1. instanceOf[c] \in Instances
    BY SteadyFacts DEF SteadyInv
  <2>2. Elements(lists[instanceOf[c]])' = Elements(lists[instanceOf[c]])
    BY <1>8, <2>1
  <2> QED
    BY <1>2, <1>5, <1>9, <2>2 DEF InSplit
<1> QED
  BY <1>1, <1>2, <1>3, <1>7, <1>9, GoroutineSteady

\* What append does not write to is in the slice as before.
LEMMA SameElements ==
    ASSUME NEW old \in Seq(Seq(Element)), NEW new, Kept(old, new),
           NEW s \in Slices, InArray(old, s),
           s.array # NoArray => \A k \in 1 .. s.len : new[s.array][k] = old[s.array][k]
    PROVE  ToSet(ElementsIn(new, s)) = ToSet(ElementsIn(old, s))
<1>1. InArray(new, s) /\ new \in Seq(Seq(Element))
  BY StillWithin DEF Kept
<1>2. CASE s.array = NoArray
  BY <1>1, <1>2, SliceElements
<1>3. CASE s.array # NoArray
  <2>1. /\ ToSet(ElementsIn(new, s)) = First(new[s.array], s.len)
        /\ ToSet(ElementsIn(old, s)) = First(old[s.array], s.len)
    BY <1>1, <1>3, SliceElements
  <2>2. First(new[s.array], s.len) = First(old[s.array], s.len)
    BY <1>3 DEF First
  <2> QED
    BY <2>1, <2>2
<1> QED
  BY <1>2, <1>3

\* A goroutine that is alone appends its id to all that its broker's list holds.
LEMMA AppendSteady ==
    ASSUME RequestOK, SplitOK, FoundInv, SteadyInv, UNCHANGED vars,
           NEW b \in DOMAIN batch, AppendDevice(b)
    PROVE  SteadyInv'
<1> DEFINE i == Target(b)
           s == batch[b].val
           x == Head(batch[b].todo).id
           new == AppendTo(s, x)
           r == Slice(new.in, s.len + 1)
<1>1. /\ RequestOK' /\ SplitOK' /\ i \in Instances /\ s \in Slices /\ Within(s) /\ s.len >= 0
      /\ x \in Devices /\ array' = new.array
      /\ batch'[b] = [batch[b] EXCEPT !.at = "store", !.val = r]
  BY AppendTypes
<1>2. /\ batch[b].at = "append" /\ DOMAIN batch' = DOMAIN batch
      /\ UNCHANGED <<params, at, given, steady, failed, lists>>
  BY DEF AppendDevice, outcome
<1>3. Len(batch') = Len(batch)
  <2>1. batch \in Seq(Goroutines) /\ batch' \in Seq(Goroutines)
    BY <1>1 DEF SplitOK
  <2> QED
    BY <1>2, <2>1, LenProperties
<1>4. batch[b] \in Goroutines /\ array \in Seq(Seq(Element))
  BY GoroutineTypes DEF SplitOK
<1> HIDE DEF new, r
<1>5. /\ batch'[b].at = "store" /\ batch'[b].val = r
      /\ batch'[b].todo = batch[b].todo /\ batch'[b].ids = batch[b].ids
  BY <1>1, <1>4 DEF Goroutines
<1> HIDE DEF x, s
<1>6. new = AppendTo(s, x) /\ x \in Element
  BY <1>1 DEF new, Element
<1>7. /\ Kept(array, new.array) /\ new.in \in 1 .. Len(new.array)
      /\ s.len + 1 \in 1 .. Len(new.array[new.in])
  BY <1>1, <1>4, <1>6, Appended
<1>8. ToSet(Elements(s)) \cup {x} \subseteq First(new.array[new.in], s.len + 1)
  BY <1>1, <1>4, <1>6, Appended
<1>9. \A a \in 1 .. Len(array) \ {s.array} : new.array[a] = array[a]
  BY <1>1, <1>4, <1>6, Appended
<1>10. s.array # NoArray => \A k \in 1 .. s.len : new.array[s.array][k] = array[s.array][k]
  BY <1>1, <1>4, <1>6, Appended
<1>11. ToSet(ElementsIn(new.array, r)) = First(new.array[new.in], s.len + 1)
  <2>1. r.array = new.in /\ r.len = s.len + 1 /\ r \in Slices
    BY <1>1, <1>7 DEF r, Slice, Slices
  <2>2. r.array # NoArray /\ r.array <= Len(new.array)
    BY <1>7, <2>1 DEF NoArray
  <2>3. InArray(new.array, r) /\ new.array \in Seq(Seq(Element))
    BY <1>7, <2>1, <2>2 DEF InArray, Kept
  <2> QED
    BY <2>1, <2>2, <2>3, SliceElements
<1>12. ASSUME DOMAIN batch = {b}, Len(batch) = 1, NEW j \in Instances
       PROVE  ToSet(Elements(lists[j]))' = ToSet(Elements(lists[j]))
  <2> DEFINE t == lists[j]
  <2>1. t \in Slices /\ InArray(array, t) /\ t.array \in Nat
    BY DEF SplitOK, Within, Slices
  <2>2. s = lists[i]
    BY <1>2, <1>12 DEF SteadyInv, Lone, s
  <2>3. ASSUME t.array # NoArray, NEW k \in 1 .. t.len
        PROVE  new.array[t.array][k] = array[t.array][k]
    <3>1. t.array \in 1 .. Len(array)
      BY <1>4, <2>1, <2>3, SliceElements
    <3>2. CASE t.array # s.array
      BY <1>9, <3>1, <3>2
    <3>3. CASE t.array = s.array
      <4>1. Uses(j, t.array) /\ Uses(i, t.array)
        BY <2>2, <3>3 DEF Uses
      <4>2. j = i
        BY <1>1, <3>1, <4>1 DEF FoundInv, Apart
      <4>3. t = s
        BY <2>2, <4>2
      <4> QED
        BY <1>10, <2>3, <3>3, <4>3
    <3> QED
      BY <3>2, <3>3
  <2> HIDE DEF t
  <2>4. ToSet(ElementsIn(new.array, t)) = ToSet(ElementsIn(array, t))
    BY <1>4, <1>7, <2>1, <2>3, SameElements
  <2>5. Elements(lists[j]) = ElementsIn(array, t)
    BY DEF Elements, ElementsIn, t
  <2>6. Elements(lists[j])' = ElementsIn(new.array, t)
    BY <1>1, <1>2 DEF Elements, ElementsIn, t
  <2> QED
    BY <2>4, <2>5, <2>6
<1> HIDE DEF i
<1>13. Target(b)' = i /\ Head(batch'[b].todo).id = x
  BY <1>5 DEF Target, i, x
<1>14. ASSUME DOMAIN batch = {b}, Len(batch) = 1 PROVE Lone'
  <2>1. s = lists[i]
    BY <1>2, <1>14 DEF SteadyInv, Lone, s, i
  <2>2. PICK j \in Instances : j = i
    BY <1>1
  <2>3. ToSet(Elements(lists[j]))' = ToSet(Elements(s))
    BY <1>12, <1>14, <2>1, <2>2
  <2>4. Elements(batch[b].val)' = ElementsIn(new.array, r)
    BY <1>1, <1>5 DEF Elements, ElementsIn
  <2>5. ToSet(Elements(lists[j]))' \cup {x} \subseteq ToSet(Elements(batch[b].val))'
    BY <1>8, <1>11, <2>3, <2>4
  <2>6. Target(b)' = j
    BY <1>13, <2>2
  <2>7. ToSet(Elements(lists[Target(b)]))' = ToSet(Elements(lists[j]))'
    BY <2>6
  <2> QED
    BY <1>2, <1>5, <1>13, <1>14, <2>5, <2>7 DEF Lone
<1>15. ASSUME NEW c \in steady, DOMAIN batch = {b}, Len(batch) = 1,
              InSplit(deviceOf[c], instanceOf[c])
       PROVE  InSplit(deviceOf[c], instanceOf[c])'
  <2>1. instanceOf[c] \in Instances
    BY SteadyFacts DEF SteadyInv
  <2>2. ToSet(Elements(lists[instanceOf[c]]))' = ToSet(Elements(lists[instanceOf[c]]))
    BY <1>12, <1>15, <2>1
  <2> QED
    BY <1>2, <1>5, <1>15, <2>2 DEF InSplit
<1> QED
  BY <1>1, <1>2, <1>3, <1>14, <1>15, GoroutineSteady

\* A goroutine that is alone stores a list with all that was in the one it replaces.
LEMMA StoreSteady ==
    ASSUME RequestOK, SplitOK, SteadyInv, UNCHANGED vars, NEW b \in DOMAIN batch, Store(b)
    PROVE  SteadyInv'
<1> DEFINE g == NextId(batch[b])
           i == Target(b)
           h == Head(batch[b].todo)
<1>1. /\ batch[b].at = "store" /\ batch' = [batch EXCEPT ![b] = g]
      /\ lists' = [lists EXCEPT ![i] = batch[b].val]
      /\ UNCHANGED <<params, at, given, steady, failed, array>>
  BY DEF Store, Target, outcome
<1>2. /\ g.todo = Tail(batch[b].todo) /\ g \in Goroutines /\ g.at \in {"done", "load"}
      /\ batch[b].todo \in Seq(Pairs) /\ batch[b].todo # <<>> /\ h \in Pairs
  BY <1>1, NextIdTypes
<1>3. RequestOK' /\ SplitOK' /\ i \in Instances
  BY StoreTypes
<1> HIDE DEF g
<1>4. Len(batch') = Len(batch) /\ DOMAIN batch' = DOMAIN batch /\ batch'[b] = g
  BY <1>1, <1>2, OneGoroutine DEF SplitOK
<1>5. Lone' \/ DOMAIN batch # {b}
  BY <1>2, <1>4 DEF Lone
<1>6. ToSet(batch[b].todo) = {h} \cup ToSet(g.todo)
  BY <1>2, TailElements
<1>7. batch[b].ids = <<>> /\ ToSet(<<>>) = {}
  BY <1>1, GoroutineTypes DEF GoroutineOK, ToSet
<1>8. ASSUME NEW c \in steady, DOMAIN batch = {b}, Len(batch) = 1,
             InSplit(deviceOf[c], instanceOf[c])
      PROVE  InSplit(deviceOf[c], instanceOf[c])'
  <2> DEFINE d == deviceOf[c]
             j == instanceOf[c]
             p == [id |-> d, address |-> j]
  <2>1. j \in Instances
    BY SteadyFacts DEF SteadyInv
  <2>2. p \in ToSet(batch[b].todo) \/ d \in ToSet(Elements(lists[j]))
    BY <1>7, <1>8 DEF InSplit
  <2>3. ToSet(Elements(lists[i])) \cup {h.id} \subseteq ToSet(Elements(batch[b].val))
    BY <1>1, <1>8 DEF SteadyInv, Lone
  <2>4. CASE j # i
    <3>1. Elements(lists[j])' = Elements(lists[j])
      BY <1>1, <2>1, <2>4 DEF Elements, SplitOK
    <3>2. p # h
      BY <2>4 DEF Target
    <3>3. p \in ToSet(g.todo) \/ d \in ToSet(Elements(lists[j]))
      BY <1>6, <2>2, <3>2
    <3> QED
      BY <1>4, <3>1, <3>3 DEF InSplit
  <2>5. CASE j = i
    <3>1. lists'[j] = batch[b].val
      BY <1>1, <2>1, <2>5 DEF SplitOK
    <3>2. Elements(lists[j])' = Elements(batch[b].val)
      BY <1>1, <3>1 DEF Elements
    <3>3. p = h => d = h.id
      OBVIOUS
    <3>4. p \in ToSet(g.todo) \/ d \in ToSet(Elements(batch[b].val))
      BY <1>6, <2>2, <2>3, <2>5, <3>3
    <3> QED
      BY <1>4, <3>2, <3>4 DEF InSplit
  <2> QED
    BY <2>4, <2>5
<1> QED
  BY <1>1, <1>3, <1>4, <1>5, <1>8, GoroutineSteady

\* When all goroutines are done, the lists hold all that is left to send.
LEMMA DispatchSteady ==
    ASSUME RequestOK, SplitOK, SteadyInv, UNCHANGED vars, Dispatch
    PROVE  SteadyInv'
<1>1. /\ at = "wait" /\ AllDone /\ at' = "replied"
      /\ UNCHANGED <<params, splitting, given, steady, failed>>
  BY DEF Dispatch, outcome
<1>2. Steadily'
  BY <1>1, SteadyKept DEF SteadyInv
<1>3. Lone'
  BY <1>1 DEF SteadyInv, Lone, Target, Elements, splitting
<1>4. ASSUME ~failed, NEW c \in steady
      PROVE  Track(deviceOf[c], instanceOf[c], uidOf[c])'
  <2> DEFINE d == deviceOf[c]
             i == instanceOf[c]
  <2>1. Track(d, i, uidOf[c]) /\ i \in Instances
    BY <1>4, SteadyFacts DEF SteadyInv, Tracked
  <2>2. \A b \in DOMAIN batch : batch[b].ids = <<>> /\ batch[b].todo = <<>>
    BY <1>1 DEF AllDone, SplitOK, GoroutineOK
  <2>3. ToSet(<<>>) = {}
    BY DEF ToSet
  <2>4. Len(batch) <= 1 => d \in ToSet(Elements(lists[i])) \/ i \in ToSet(given[d])
    BY <1>1, <2>1, <2>2, <2>3 DEF Track, InSplit
  <2>5. ToSet(Elements(lists[i])) \subseteq ToSet(sending'[i])
    BY <2>1, DispatchTypes
  <2> QED
    BY <1>1, <2>4, <2>5 DEF Track, splitting
<1> QED
  BY <1>1, <1>2, <1>3, <1>4 DEF SteadyInv, Tracked

\* A pipeline reaches the devices it takes from what is left to send, or a call failed.
LEMMA PublishSteady ==
    ASSUME RequestOK, SplitOK, SteadyInv, UNCHANGED vars, NEW i \in Instances,
           PublishBatch(i) \/ PublishFails(i)
    PROVE  SteadyInv'
<1> DEFINE now == Part(sending[i], 0)
           rest == After(sending[i])
<1>1. /\ UNCHANGED <<params, at, collecting, splitting, steady>>
      /\ failed' \/ /\ UNCHANGED failed
                    /\ given' = [d \in Devices |->
                                    given[d] \o Times(Occurrences(d, now), i)]
  BY DEF PublishBatch, PublishFails
<1>2. /\ sending' = [sending EXCEPT ![i] = rest] /\ now \in Seq(Element)
      /\ ToSet(sending[i]) = ToSet(now) \cup ToSet(rest)
  <2>1. sending[i] \in Seq(Element)
    BY DEF SplitOK
  <2> QED
    BY <2>1, FirstPart, PublishTypes
<1> HIDE DEF now, rest
<1>3. Steadily'
  BY <1>1, SteadyKept DEF SteadyInv, Steadily, collecting
<1>4. Lone'
  BY <1>1 DEF SteadyInv, Lone, Target, Elements, splitting
<1>5. ASSUME ~failed', NEW c \in steady
      PROVE  Track(deviceOf[c], instanceOf[c], uidOf[c])'
  <2> DEFINE d == deviceOf[c]
             j == instanceOf[c]
  <2>1. ~failed /\ given' = [e \in Devices |-> given[e] \o Times(Occurrences(e, now), i)]
    BY <1>1, <1>5
  <2>2. Track(d, j, uidOf[c])
    BY <2>1 DEF SteadyInv, Tracked
  <2>3. d \in Devices /\ j \in Instances
    BY SteadyFacts DEF SteadyInv
  <2> DEFINE n == Occurrences(d, now)
             t == Times(n, i)
  <2>4. n \in Nat /\ (d \in ToSet(now) => n # 0)
    BY <1>2, OccurrencesInNat
  <2>5. t \in Seq(Instances) /\ (n # 0 => i \in ToSet(t))
    <3>1. t \in Seq(Instances) /\ Occurrences(i, t) = n
      BY <2>4, TimesTypes, OccurrencesInTimes
    <3> HIDE DEF t
    <3> QED
      BY <3>1, OccurrencesInNat
  <2>6. given'[d] = given[d] \o t /\ given[d] \in Seq(Instances)
    BY <2>1, <2>3 DEF RequestOK
  <2> HIDE DEF n, t
  <2>7. ToSet(given'[d]) = ToSet(given[d]) \cup ToSet(t)
    BY <2>5, <2>6, ConcatElements
  <2>8. d \in ToSet(sending[j]) => d \in ToSet(sending'[j]) \/ j \in ToSet(given'[d])
    <3>1. CASE j = i
      BY <1>2, <2>3, <2>4, <2>5, <2>7, <3>1 DEF SplitOK
    <3>2. CASE j # i
      BY <1>2, <2>3, <3>2 DEF SplitOK
    <3> QED
      BY <3>1, <3>2
  <2>9. j \in ToSet(given[d]) => j \in ToSet(given'[d])
    BY <2>7
  <2>10. InSplit(d, j)' <=> InSplit(d, j)
    BY <1>1 DEF InSplit, Elements, splitting
  <2>11. UNCHANGED <<params, at, reading, found, ids, remote, batch>>
    BY <1>1 DEF collecting, splitting
  <2> HIDE DEF d, j
  <2>12. CASE at = "replied"
    BY <2>2, <2>8, <2>9, <2>11, <2>12 DEF Track, d, j
  <2>13. CASE at = "wait"
    BY <2>2, <2>9, <2>10, <2>11, <2>13 DEF Track, d, j
  <2>14. CASE at \in {"collect", "each"}
    BY <2>2, <2>9, <2>11, <2>14 DEF Track, SendAll, d, j
  <2>15. CASE at = "idle"
    BY <2>15 DEF SteadyInv, Steadily
  <2> QED
    BY <2>12, <2>13, <2>14, <2>15 DEF RequestOK
<1> QED
  BY <1>1, <1>3, <1>4, <1>5 DEF SteadyInv, Tracked

\* Every step of the request keeps what is steady in its hands.
LEMMA RequestSteady ==
    ASSUME TypeOK, SendInv, RequestStep
    PROVE  SteadyInv'
<1> USE DEF SendInv
<1>1. UNCHANGED vars
  BY DEF RequestStep
<1>2. CASE RequestArrives \/ ReadFails \/ Listed \/ EachDevice
  BY <1>1, <1>2, CollectSteady
<1>3. CASE Split \/ Dispatch
  BY <1>1, <1>3, SplitSteady, DispatchSteady
<1>4. ASSUME NEW i \in Instances, ReadInstanceSet(i) \/ PublishBatch(i) \/ PublishFails(i)
      PROVE  SteadyInv'
  BY <1>1, <1>4, CollectSteady, PublishSteady
<1>5. ASSUME NEW u \in Users, ReadUserSet(u) PROVE SteadyInv'
  BY <1>1, <1>5, CollectSteady
<1>6. ASSUME NEW b \in DOMAIN batch,
             \/ GetAddresses(b) \/ GetFails(b) \/ SkipDevice(b)
             \/ LoadOrStore(b) \/ AppendDevice(b) \/ Store(b)
      PROVE  SteadyInv'
  BY <1>1, <1>6, GetSteady, SkipSteady, LoadSteady, AppendSteady, StoreSteady
<1> QED
  BY <1>2, <1>3, <1>4, <1>5, <1>6 DEF RequestStep

------------------------------------------------------------------------------
(* The theorems.                                                            *)

\* No request has been made at first.
LEMMA InitSend == ApiInit => TypeOK /\ SendInv
<1> SUFFICES ASSUME ApiInit PROVE TypeOK /\ SendInv
  OBVIOUS
<1>1. TypeOK
  BY InitInfo DEF InfoInv
<1>2. /\ params \in Requests /\ at = "idle"
      /\ reading = {} /\ found = {} /\ ids = <<>> /\ remote = <<>>
      /\ batch = <<>> /\ array = <<>>
      /\ lists = [i \in Instances |-> NoSlice]
      /\ sending = [i \in Instances |-> <<>>]
      /\ listed = [d \in Devices |-> 0] /\ named = [d \in Devices |-> <<>>]
      /\ given = [d \in Devices |-> <<>>] /\ steady = {} /\ failed = FALSE
  BY DEF ApiInit, SendInit
<1>3. /\ <<>> \in Seq(Devices) /\ <<>> \in Seq(Goroutines) /\ <<>> \in Seq(Seq(Element))
      /\ <<>> \in Seq(Element) /\ <<>> \in Seq(Instances) /\ Len(<<>>) = 0
      /\ <<>> \in Seq(Instances \cup {None})
      /\ DOMAIN batch = {} /\ ToSet(<<>>) = {}
  BY <1>2, EmptySeq DEF ToSet
<1>4. RequestOK
  BY <1>2, <1>3 DEF RequestOK
<1>5. SplitOK
  <2>1. NoSlice \in Slices /\ InArray(array, NoSlice)
    BY DEF NoSlice, Slice, Slices, NoArray, InArray
  <2> QED
    BY <1>2, <1>3, <2>1 DEF SplitOK, Within
<1>6. FoundInv
  <2>1. \A d \in Devices : \A i \in Instances :
          Occurrences(d, sending[i]) = 0 /\ Occurrences(i, given[d]) = 0
            /\ Occurrences(i, named[d]) = 0
    BY <1>2, OccurrencesInEmpty
  <2>2. DOMAIN Undone(batch) = {} /\ DOMAIN Unread(batch) = {} /\ Len(array) = 0
    BY <1>2, <1>3 DEF Undone, Unread
  <2>3. \A x : Total(Undone(batch), x) = 0 /\ Total(Unread(batch), x) = 0
    BY <2>2, TotalOfNone
  <2>4. \A d \in Devices : \A i \in Instances : Accounted(d, i)
    BY <1>2, <2>1, <2>2, <2>3 DEF Accounted, Owed
  <2>5. \A d \in Devices : ListedOnce(d)
    BY <1>2, <1>3, <2>3 DEF ListedOnce
  <2>6. Apart
    BY <2>2 DEF Apart
  <2> QED
    BY <2>4, <2>5, <2>6 DEF FoundInv
<1>7. SteadyInv
  BY <1>2, <1>3 DEF SteadyInv, Steadily, Lone, Tracked
<1> QED
  BY <1>1, <1>4, <1>5, <1>6, <1>7 DEF SendInv

\* And each step of the cluster in service keeps it all.
LEMMA NextSend ==
    ASSUME TypeOK, SendInv, [ApiNext]_<<vars, sendVars, infoVars>>
    PROVE  TypeOK' /\ SendInv'
<1>1. CASE SessionStep
  <2>1. TypeOK'
    BY <1>1, NextTypeOK DEF SessionStep
  <2>2. /\ UNCHANGED <<params, at, collecting, splitting, sending, outcome>>
        /\ steady' \subseteq steady
    BY <1>1 DEF SessionStep
  <2>3. RequestOK' /\ SplitOK'
    BY <2>2, OthersTypes DEF SendInv
  <2>4. FoundInv'
    BY <2>2, FoundSame DEF SendInv, collecting, outcome
  <2>5. SteadyInv'
    BY <1>1, SessionsSteady DEF SendInv
  <2> QED
    BY <2>1, <2>3, <2>4, <2>5 DEF SendInv
<1>2. CASE RequestStep
  <2>1. TypeOK'
    BY <1>2, NextTypeOK DEF RequestStep
  <2>2. RequestOK' /\ SplitOK'
    BY <1>2, RequestTypes DEF SendInv
  <2>3. FoundInv'
    BY <1>2, <2>2, RequestFound DEF SendInv
  <2>4. SteadyInv'
    BY <1>2, RequestSteady
  <2> QED
    BY <2>1, <2>2, <2>3, <2>4 DEF SendInv
<1>3. CASE UNCHANGED <<vars, sendVars>>
  <2>1. TypeOK'
    BY <1>3, NextTypeOK
  <2>2. UNCHANGED <<params, at, collecting, splitting, sending, outcome, steady>>
    BY <1>3 DEF sendVars
  <2>3. RequestOK' /\ SplitOK'
    BY <2>2, OthersTypes DEF SendInv
  <2>4. FoundInv'
    BY <2>2, FoundSame DEF SendInv, collecting, outcome
  <2>5. Steadily'
    BY <1>3, <2>2, SteadyKept DEF SendInv, SteadyInv, Steadily, collecting
  <2>6. Lone'
    BY <2>2 DEF SendInv, SteadyInv, Lone, Target, Elements, splitting
  <2>7. Tracked'
    BY <2>2
    DEF SendInv, SteadyInv, Tracked, Track, InSplit, Elements, SendAll, collecting,
        splitting, outcome
  <2> QED
    BY <2>1, <2>3, <2>4, <2>5, <2>6, <2>7 DEF SendInv, SteadyInv
<1> QED
  BY <1>1, <1>2, <1>3 DEF ApiNext, InfoStep

\* No broker is given a device, or is left to be given it, more often than it was found there.
LEMMA GivenThere == ASSUME SendInv PROVE GivenWhereNamed
<1> SUFFICES ASSUME NEW d \in Devices, NEW i \in Instances
             PROVE  Occurrences(i, given[d]) <= Occurrences(i, named[d])
  BY DEF GivenWhereNamed
<1>1. /\ Occurrences(d, sending[i]) \in Nat
      /\ Occurrences(i, given[d]) \in Nat /\ Occurrences(i, named[d]) \in Nat
  BY Counted DEF SendInv
<1>2. Occurrences(d, sending[i]) + Occurrences(i, given[d]) <= Occurrences(i, named[d])
  BY DEF SendInv, FoundInv, Accounted
<1> QED
  BY <1>1, <1>2

\* The invariant of a POST /send.
THEOREM SendInvariant == ApiSpec => [](TypeOK /\ SendInv)
<1>1. TypeOK /\ SendInv /\ [ApiNext]_<<vars, sendVars, infoVars>> => (TypeOK /\ SendInv)'
  BY NextSend
<1> QED
  BY InitSend, <1>1, PTL DEF ApiSpec

\* Every variable of the request has its type, slices lie within their arrays, and the
\* reply waits for all goroutines (HandleSend, splitDeviceWithInstanceAddress).
THEOREM SendTypeCorrect == ApiSpec => []SendTypeOK
<1>1. TypeOK /\ SendInv => SendTypeOK
  BY SendTypes DEF SendInv
<1> QED
  BY SendInvariant, <1>1, PTL

\* A frame is published to the broker the device's own key named, or handed to a session
\* of this broker, and no more often than the device was found there, however the
\* goroutines of the split interleave (splitDeviceWithInstanceAddressBatch, HandleSend,
\* DispatchInstructions).
THEOREM GivenRightly == ApiSpec => []GivenWhereNamed
<1>1. TypeOK /\ SendInv => GivenWhereNamed
  BY GivenThere
<1> QED
  BY SendInvariant, <1>1, PTL

\* No device is given the frame more often than it is in deviceIds: the goroutines of the
\* split may lose what one another append, but none of them gives a device twice
\* (HandleSend, splitDeviceWithInstanceAddress, DispatchInstructions).
THEOREM GivenNoMoreThanListed == ApiSpec => []GivenAsListed
<1>1. ASSUME SendInv PROVE GivenAsListed
  <2> SUFFICES ASSUME NEW d \in Devices PROVE Len(given[d]) <= listed[d]
    BY DEF GivenAsListed
  <2> DEFINE B == Instances \cup {None}
  <2>1. /\ given[d] \in Seq(Instances) /\ named[d] \in Seq(B) /\ listed[d] \in Nat
        /\ None \notin Instances
    BY <1>1, ConstantsAssumption DEF SendInv, RequestOK, ConstantsAssumption
  <2>2. given[d] \in Seq(B)
    BY <2>1, SeqMonotonic
  <2>3. \A i \in Instances : Occurrences(i, given[d]) <= Occurrences(i, named[d])
    BY <1>1, GivenThere DEF GivenWhereNamed
  <2>4. Occurrences(None, given[d]) <= Occurrences(None, named[d])
    <3>1. Occurrences(None, named[d]) \in Nat
      BY <2>1, OccurrencesInNat
    <3>2. Occurrences(None, given[d]) = 0
      BY <2>1, ElementTypes, OccurrencesInNat
    <3> QED
      BY <3>1, <3>2
  <2>5. \A x \in B : Occurrences(x, given[d]) <= Occurrences(x, named[d])
    BY <2>3, <2>4
  <2> HIDE DEF B
  <2>6. Len(given[d]) <= Len(named[d])
    BY <2>1, <2>2, <2>5, ShorterByOccurrences
  <2>7. /\ Occurrences(d, ids) \in Nat /\ Occurrences(d, remote) \in Nat
        /\ Total(Unread(batch), d) \in Nat
    <3>1. Self \in Instances
      BY SendAssumption DEF SendAssumption
    <3> QED
      BY <1>1, <3>1, Counted DEF SendInv
  <2>8. /\ Len(named[d]) + (IF at = "each" THEN Occurrences(d, ids) + Occurrences(d, remote)
                               ELSE Total(Unread(batch), d)) <= listed[d]
        /\ Len(named[d]) \in Nat /\ Len(given[d]) \in Nat
    BY <1>1, <2>1, LenProperties DEF SendInv, FoundInv, ListedOnce
  <2> QED
    BY <2>1, <2>6, <2>7, <2>8
<1>2. TypeOK /\ SendInv => GivenAsListed
  BY <1>1
<1> QED
  BY SendInvariant, <1>2, PTL

\* A session that stays within reach while a POST /send goes on is sent the frame on its
\* own broker, if no Redis call failed and the split ran in no more than one goroutine
\* (HandleSend, collectDeviceIds, splitDeviceWithInstanceAddress, DispatchInstructions).
THEOREM SteadyAreSent == ApiSpec => []SteadyIsSent
<1>1. ASSUME SendInv PROVE SteadyIsSent
  <2> SUFFICES ASSUME Finished, ~failed, Len(batch) <= 1, NEW c \in steady
               PROVE  instanceOf[c] \in ToSet(given[deviceOf[c]])
    BY DEF SteadyIsSent
  <2>1. Track(deviceOf[c], instanceOf[c], uidOf[c]) /\ instanceOf[c] \in Instances
    BY <1>1, SteadyFacts DEF SendInv, SteadyInv, Tracked
  <2>2. at = "replied" /\ sending[instanceOf[c]] = <<>> /\ ToSet(<<>>) = {}
    BY <2>1 DEF Finished, ToSet
  <2> QED
    BY <2>1, <2>2 DEF Track
<1>2. TypeOK /\ SendInv => SteadyIsSent
  BY <1>1
<1> QED
  BY SendInvariant, <1>2, PTL
=============================================================================
