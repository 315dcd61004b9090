----------------------------- MODULE SendRouting -----------------------------
(***************************************************************************)
(* Where a POST /send goes: HandleSend collects the devices it is for from *)
(* the sets the sessions keep in Redis, hands the frame to those that are  *)
(* local, looks up the brokers of all others in goroutines of BatchSize    *)
(* devices each, and publishes one list of instructions per broker.        *)
(*                                                                         *)
(* The sessions are those of SessionRegistry and go on while the request   *)
(* reads what they leave in Redis; its broker Self keeps running. What a   *)
(* broker does with an instruction is the subject of DeviceChannels.       *)
(***************************************************************************)
EXTENDS SessionRegistry, SequencesExt

CONSTANTS
    Self,        \* the broker that serves the request
    Requests,    \* the requests considered: uids and names, and as a bound the
                 \* connections served before it, and arriving and leaving meanwhile
    BatchSize,   \* devices per goroutine, and instructions per pipeline; 250 in the code
    SendFaults   \* whether the Redis calls of the request may fail

ASSUME SendAssumption ==
    /\ Self \in Instances \ (Crashable \cup Stoppable)
    /\ Requests \subseteq [uids : SUBSET Users, names : SUBSET Devices,
                           served : SUBSET Conns, arriving : SUBSET Conns,
                           leaving : SUBSET Conns]
    /\ \A p \in Requests : \A c, e \in p.served : deviceOf[c] = deviceOf[e] => c = e
    /\ IsFiniteSet(Devices)
    /\ BatchSize \in Nat \ {0}
    /\ SendFaults \in BOOLEAN

VARIABLES
    params,    \* SendFrameParams: the users and devices named
    at,        \* where HandleSend is
    reading,   \* the users or brokers whose sets it has yet to read
    found,     \* collectDeviceIds: targetDeviceSet
    ids,       \* deviceIds, from the one it visits next
    remote,    \* remoteDeviceIds
    batch,     \* the goroutines of splitDeviceWithInstanceAddress
    array,     \* the arrays under the slices they make
    lists,     \* instanceDeviceMap
    sending,   \* the instructions each broker's goroutine has yet to publish
    listed,    \* history: how often the device is in deviceIds
    named,     \* history: the brokers the device was found at, one for each time
               \* Self's Devices map or the device's key was asked for it
    given,     \* history: the brokers that were given a frame for the device
    steady,    \* history: the sessions within reach ever since the request began
    failed     \* history: a Redis call of the request failed

collecting == <<reading, found, ids, remote>>
splitting == <<batch, array, lists>>
outcome == <<listed, named, given, failed>>
sendVars == <<params, at, collecting, splitting, sending, outcome, steady>>

SendAll == params.uids = {} /\ params.names = {}

\* A slice shares its array with the slices it was appended to or from.
Slice(a, n) == [array |-> a, len |-> n]
NoArray == 0
NoSlice == Slice(NoArray, -1)
Elements(s) == IF s.array = NoArray THEN <<>> ELSE SubSeq(array[s.array], 1, s.len)

\* The session is served, and where the request looks for it all the while: in the set
\* it reads, under the address it will find, and not behind an older session of the
\* device that this broker still has.
WithinReach(c) ==
    LET d == deviceOf[c]
        i == instanceOf[c]
    IN
    /\ pc[c] = "live"
    /\ d \in deviceKeys /\ deviceHash[d].instance = i
    /\ IF SendAll THEN i \in cluster /\ d \in instSet[i]
         ELSE d \in params.names \/ (uidOf[c] \in params.uids /\ d \in userSet[uidOf[c]])
    /\ devices[Self][d] = None \/ i = Self

------------------------------------------------------------------------------
(* collectDeviceIds, getAllDeviceIds                                        *)

RequestArrives ==
    /\ at = "idle"
    /\ at' = "collect"
    /\ steady' = {c \in Conns : WithinReach(c)}
    /\ reading' = IF SendAll THEN cluster ELSE params.uids
    /\ found' = params.names
    /\ UNCHANGED <<params, ids, remote, splitting, sending, outcome>>

Occurrences(d, s) == Cardinality({k \in DOMAIN s : s[k] = d})
Times(n, x) == [k \in 1 .. n |-> x]

\* getAllDeviceIds appends each broker's members in the order Redis returns them.
ReadInstanceSet(i) ==
    /\ at = "collect" /\ SendAll
    /\ i \in reading
    /\ reading' = reading \ {i}
    /\ \E members \in SetToSeqs(instSet[i]) : ids' = ids \o members
    /\ UNCHANGED <<params, at, found, remote, splitting, sending, outcome, steady>>

\* collectDeviceIds takes the union with the devices named.
ReadUserSet(u) ==
    /\ at = "collect" /\ ~SendAll
    /\ u \in reading
    /\ reading' = reading \ {u}
    /\ found' = found \cup userSet[u]
    /\ UNCHANGED <<params, at, ids, remote, splitting, sending, outcome, steady>>

\* The pipeline returns an error: none of what it read counts.
ReadFails ==
    /\ SendFaults
    /\ at = "collect" /\ reading # {}
    /\ reading' = {}
    /\ found' = params.names
    /\ ids' = <<>>
    /\ failed' = TRUE
    /\ UNCHANGED <<params, at, remote, splitting, sending, listed, named, given, steady>>

\* Range over the map of the devices found is in any order.
Listed ==
    /\ at = "collect" /\ reading = {}
    /\ at' = "each"
    /\ ids' \in IF SendAll THEN {ids} ELSE SetToSeqs(found)
    /\ listed' = [d \in Devices |-> Occurrences(d, ids')]
    /\ found' = {}
    /\ UNCHANGED <<params, reading, remote, splitting, sending, named, given, failed, steady>>

------------------------------------------------------------------------------
(* HandleSend's loop over the devices                                       *)

\* Mutant: the else is missing.
RemoteToo(d) == Append(remote, d)

RemoteAfterLocal(d) == remote

EachDevice ==
    LET d == Head(ids)
        local == devices[Self][d] # None
    IN
    /\ at = "each" /\ ids # <<>>
    /\ ids' = Tail(ids)
    /\ IF local
         THEN /\ named' = [named EXCEPT ![d] = Append(@, Self)]
              /\ given' = [given EXCEPT ![d] = Append(@, Self)]
              /\ remote' = RemoteAfterLocal(d)
         ELSE /\ remote' = Append(remote, d)
              /\ UNCHANGED <<named, given>>
    /\ UNCHANGED <<params, at, reading, found, splitting, sending, listed, failed, steady>>

------------------------------------------------------------------------------
(* splitDeviceWithInstanceAddress, splitDeviceWithInstanceAddressBatch      *)

\* deviceIds[i:end] and instructions[i:end]
Part(s, i) == SubSeq(s, i + 1, IF i + BatchSize > Len(s) THEN Len(s) ELSE i + BatchSize)

Batches(s) == (Len(s) + BatchSize - 1) \div BatchSize

Split ==
    /\ at = "each" /\ ids = <<>>
    /\ at' = IF remote = <<>> THEN "replied" ELSE "wait"
    /\ batch' = [b \in 1 .. Batches(remote) |->
                   [at |-> "get", ids |-> Part(remote, (b - 1) * BatchSize),
                    todo |-> <<>>, val |-> NoSlice]]
    /\ remote' = <<>>
    /\ UNCHANGED <<params, reading, found, ids, array, lists, sending, outcome, steady>>

AddressOf(d) == IF d \in deviceKeys THEN deviceHash[d].instance ELSE None

\* Mutant: the addresses that were found are matched with the ids by position.
Packed(s) ==
    LET hits == SelectSeq(s, LAMBDA d : AddressOf(d) # None)
    IN [k \in DOMAIN s |->
          [id |-> s[k], address |-> IF k <= Len(hits) THEN AddressOf(hits[k]) ELSE None]]

\* Each id with what its HGET returned.
Addressed(s) == [k \in DOMAIN s |-> [id |-> s[k], address |-> AddressOf(s[k])]]

\* The goroutine goes on with the next id; after the last one wg.Done.
NextId(g) ==
    LET left == Tail(g.todo)
    IN [g EXCEPT !.at = IF left = <<>> THEN "done" ELSE "load", !.todo = left, !.val = NoSlice]

GetAddresses(b) ==
    /\ batch[b].at = "get"
    /\ batch' = [batch EXCEPT ![b] = [at |-> "load", ids |-> <<>>,
                                      todo |-> Addressed(batch[b].ids), val |-> NoSlice]]
    /\ named' = [d \in Devices |->
                   named[d] \o Times(Occurrences(d, batch[b].ids), AddressOf(d))]
    /\ UNCHANGED <<params, at, collecting, array, lists, sending, listed, given, failed, steady>>

GetFails(b) ==
    /\ SendFaults
    /\ batch[b].at = "get"
    /\ batch' = [batch EXCEPT ![b].at = "done", ![b].ids = <<>>]
    /\ failed' = TRUE
    /\ UNCHANGED <<params, at, collecting, array, lists, sending, listed, named, given, steady>>

\* Mutant: return, where the loop continues.
SkipRest(b) ==
    /\ batch[b].at = "load" /\ Head(batch[b].todo).address = None
    /\ batch' = [batch EXCEPT ![b] = [@ EXCEPT !.at = "done", !.todo = <<>>]]
    /\ UNCHANGED <<params, at, collecting, array, lists, sending, outcome, steady>>

\* continue: the device has no key, or one without an address
SkipDevice(b) ==
    /\ batch[b].at = "load" /\ Head(batch[b].todo).address = None
    /\ batch' = [batch EXCEPT ![b] = NextId(@)]
    /\ UNCHANGED <<params, at, collecting, array, lists, sending, outcome, steady>>

\* instanceDeviceMap.LoadOrStore(address, []string{})
LoadOrStore(b) ==
    LET i == Head(batch[b].todo).address
        val == IF lists[i] = NoSlice THEN Slice(NoArray, 0) ELSE lists[i]
    IN
    /\ batch[b].at = "load" /\ i # None
    /\ lists' = [lists EXCEPT ![i] = val]
    /\ batch' = [batch EXCEPT ![b].at = "append", ![b].val = val]
    /\ UNCHANGED <<params, at, collecting, array, sending, outcome, steady>>

\* append: in place if the array has room for it, and else in one of twice the size
AppendTo(s, x) ==
    IF s.array # NoArray /\ s.len < Len(array[s.array])
      THEN [array |-> [array EXCEPT ![s.array][s.len + 1] = x], in |-> s.array]
      ELSE [array |-> Append(array, Elements(s) \o <<x>>
                               \o Times(IF s.len = 0 THEN 0 ELSE s.len - 1, None)),
            in |-> Len(array) + 1]

AppendDevice(b) ==
    LET s == batch[b].val
        new == AppendTo(s, Head(batch[b].todo).id)
    IN
    /\ batch[b].at = "append"
    /\ array' = new.array
    /\ batch' = [batch EXCEPT ![b].at = "store", ![b].val = Slice(new.in, s.len + 1)]
    /\ UNCHANGED <<params, at, collecting, lists, sending, outcome, steady>>

\* instanceDeviceMap.Store
Store(b) ==
    /\ batch[b].at = "store"
    /\ lists' = [lists EXCEPT ![Head(batch[b].todo).address] = batch[b].val]
    /\ batch' = [batch EXCEPT ![b] = NextId(@)]
    /\ UNCHANGED <<params, at, collecting, array, sending, outcome, steady>>

\* Mutant: wg.Add is called by the goroutines themselves.
NoneAdded == TRUE

AllDone == \A b \in DOMAIN batch : batch[b].at = "done"

\* wg.Wait returns, and HandleSend starts a goroutine per broker and replies. Each
\* makes a slice of as many blank instructions as there are devices, and appends.
Dispatch ==
    /\ at = "wait"
    /\ AllDone
    /\ at' = "replied"
    /\ sending' = [i \in Instances |->
                     LET all == Elements(lists[i]) IN Times(Len(all), None) \o all]
    /\ UNCHANGED <<params, collecting, splitting, outcome, steady>>

------------------------------------------------------------------------------
(* DispatchInstructions: one pipeline of PUBLISH per BatchSize instructions *)

After(s) == SubSeq(s, BatchSize + 1, Len(s))

PublishBatch(i) ==
    LET now == Part(sending[i], 0) IN
    /\ sending[i] # <<>>
    /\ sending' = [sending EXCEPT ![i] = After(@)]
    /\ given' = [d \in Devices |-> given[d] \o Times(Occurrences(d, now), i)]
    /\ UNCHANGED <<params, at, collecting, splitting, listed, named, failed, steady>>

PublishFails(i) ==
    /\ SendFaults
    /\ sending[i] # <<>>
    /\ sending' = [sending EXCEPT ![i] = After(@)]
    /\ failed' = TRUE
    /\ UNCHANGED <<params, at, collecting, splitting, listed, named, given, steady>>

SendInit ==
    /\ params \in Requests
    /\ ServedInit(params.served)
    /\ at = "idle"
    /\ reading = {} /\ found = {} /\ ids = <<>> /\ remote = <<>>
    /\ batch = <<>> /\ array = <<>>
    /\ lists = [i \in Instances |-> NoSlice]
    /\ sending = [i \in Instances |-> <<>>]
    /\ listed = [d \in Devices |-> 0]
    /\ named = [d \in Devices |-> <<>>] /\ given = [d \in Devices |-> <<>>]
    /\ steady = {} /\ failed = FALSE

\* The sessions go on; the request notes which of them it can still not miss.
SessionStep ==
    /\ Next
    /\ \A c \in Conns \ params.arriving : pc[c] = "idle" => pc'[c] = "idle"
    /\ \A c \in Conns \ params.leaving : pc[c] = "live" => pc'[c] = "live"
    /\ UNCHANGED <<params, at, collecting, splitting, sending, outcome>>
    /\ steady' = {c \in steady : WithinReach(c)'}

RequestStep ==
    /\ \/ RequestArrives \/ ReadFails \/ Listed \/ EachDevice \/ Split \/ Dispatch
       \/ \E i \in Instances : ReadInstanceSet(i) \/ PublishBatch(i) \/ PublishFails(i)
       \/ \E u \in Users : ReadUserSet(u)
       \/ \E b \in DOMAIN batch :
            \/ GetAddresses(b) \/ GetFails(b) \/ SkipDevice(b)
            \/ LoadOrStore(b) \/ AppendDevice(b) \/ Store(b)
    /\ UNCHANGED vars

SendNext == SessionStep \/ RequestStep

SendSpec == SendInit /\ [][SendNext]_<<vars, sendVars>>

------------------------------------------------------------------------------
(* What POST /send promises.                                                *)

\* Every variable of the request has its type, a slice lies within its array, and the
\* request goes on only when the goroutines of the split are done (HandleSend).
SendTypeOK ==
    /\ params \in Requests
    /\ at \in {"idle", "collect", "each", "wait", "replied"}
    /\ reading \subseteq Instances \cup Users /\ found \subseteq Devices
    /\ ids \in Seq(Devices) /\ remote \in Seq(Devices)
    /\ \A b \in DOMAIN batch :
         /\ batch[b].at \in {"get", "load", "append", "store", "done"}
         /\ Len(batch[b].ids) \in 0 .. BatchSize
         /\ at = "replied" => batch[b].at = "done"
    /\ \A i \in Instances :
         lists[i].array # NoArray => lists[i].len \in 1 .. Len(array[lists[i].array])
    /\ \A i \in Instances : sending[i] \in Seq(Devices \cup {None})
    /\ listed \in [Devices -> Nat]
    /\ named \in [Devices -> Seq(Instances \cup {None})] /\ given \in [Devices -> Seq(Instances)]
    /\ steady \subseteq Conns /\ failed \in BOOLEAN

\* No device is given the frame more often than it is in deviceIds, whatever the
\* goroutines that append to one list do to each other (splitDevice..., HandleSend).
GivenAsListed == \A d \in Devices : Len(given[d]) <= listed[d]

\* No broker is given a device more often than the device was found there: no address is
\* taken for another device's, or twice (splitDeviceWithInstanceAddressBatch, HandleSend).
GivenWhereNamed ==
    \A d \in Devices : \A i \in Instances :
        Occurrences(i, given[d]) <= Occurrences(i, named[d])

Finished == at = "replied" /\ \A i \in Instances : sending[i] = <<>>

\* A session that stays within reach from the request's first step to its last is sent
\* the frame on its own broker, if no Redis call failed and the split ran in no more
\* than one goroutine (HandleSend).
SteadyIsSent ==
    Finished /\ ~failed /\ Len(batch) <= 1
        => \A c \in steady : instanceOf[c] \in ToSet(given[deviceOf[c]])

------------------------------------------------------------------------------
(* What the comments say, and the code does not do.                         *)

\* handle_send.go:137, sync.Map makes concurrent writes safe: when all goroutines are
\* done, each device whose address was found is in the list of a broker
\* (splitDeviceWithInstanceAddressBatch), if it was not found locally.
SplitKeepsAll ==
    at = "wait" /\ AllDone =>
        \A d \in Devices : \A i \in ToSet(named[d]) \ {None} :
            d \in ToSet(Elements(lists[i])) \/ i \in ToSet(given[d])

=============================================================================
