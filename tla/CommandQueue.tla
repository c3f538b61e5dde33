---------------------------- MODULE CommandQueue ----------------------------
(***************************************************************************)
(* What a command channel promises: commands reach the engine in the order *)
(* they were sent, each at most once; only an expiry, or a fetch that      *)
(* fails or raises, loses any, and then all.  RedisChannel.tla is shown to *)
(* implement this module.                                                  *)
(***************************************************************************)
EXTENDS Integers, Sequences

CONSTANT Command

VARIABLES
  pending,   \* commands sent and not yet fetched
  delivered  \* commands fetch_commands has returned

vars == <<pending, delivered>>

Init == pending = <<>> /\ delivered = <<>>

Send(c) == pending' = Append(pending, c) /\ UNCHANGED delivered

Deliver(k) ==
  /\ delivered' = delivered \o SubSeq(pending, 1, k)
  /\ pending' = SubSeq(pending, k + 1, Len(pending))

Lose == pending' = <<>> /\ UNCHANGED delivered

Next == \/ \E c \in Command : Send(c)
        \/ \E k \in 1..Len(pending) : Deliver(k)
        \/ Lose

Spec == Init /\ [][Next]_vars

\* No pending command waits for ever.
EventuallyFetched == pending # <<>> ~> pending = <<>>
=============================================================================
