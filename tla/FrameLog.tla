------------------------------- MODULE FrameLog -------------------------------
(***************************************************************************)
(* What the frames of one device look like from outside: the broker        *)
(* accepts frames one after the other, the device's client receives some   *)
(* of them. A frame is named by its place in the order of acceptance.      *)
(***************************************************************************)
EXTENDS Integers

CONSTANTS
    CacheSize,  \* sse.device_frame_cache_size, a positive number
    Lossy       \* whether a client that was away may miss what was cached for it

VARIABLES
    sent,       \* the number of frames accepted
    last        \* the last of them the client received, 0 if it has received none

Accept == sent' = sent + 1 /\ UNCHANGED last

\* A reliable log skips a frame only if it has fallen out of the cache, or if the client
\* had nothing to go on from.
MaySkip(k) == Lossy \/ last = 0 \/ k <= sent - CacheSize

Receive ==
    /\ \E k \in last + 1 .. sent :
         /\ \A j \in last + 1 .. k - 1 : MaySkip(j)
         /\ last' = k
    /\ UNCHANGED sent

Init == sent = 0 /\ last = 0
Next == Accept \/ Receive
Spec == Init /\ [][Next]_<<sent, last>>
=============================================================================
