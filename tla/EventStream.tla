----------------------------- MODULE EventStream -----------------------------
(***************************************************************************)
(* What the consumer of GraphEngine.run is promised about the events of a  *)
(* run: they come in the order they were collected, none is lost or        *)
(* repeated, and the stream ends only after the last of them.              *)
(* EventManager.tla is shown to implement this module.                     *)
(***************************************************************************)
EXTENDS Naturals, Sequences

CONSTANT Event

VARIABLES
  collected,  \* events collected so far
  yielded,    \* events the consumer has got
  completed,  \* no event will follow
  ended       \* the stream has ended

vars == <<collected, yielded, completed, ended>>

Init == collected = <<>> /\ yielded = <<>> /\ completed = FALSE /\ ended = FALSE

Collect(e) ==
  /\ ~completed
  /\ collected' = Append(collected, e)
  /\ UNCHANGED <<yielded, completed, ended>>

Complete ==
  /\ completed' = TRUE
  /\ UNCHANGED <<collected, yielded, ended>>

Yield ==
  /\ ~ended
  /\ Len(yielded) < Len(collected)
  /\ yielded' = Append(yielded, collected[Len(yielded) + 1])
  /\ UNCHANGED <<collected, completed, ended>>

End ==
  /\ completed
  /\ yielded = collected
  /\ ended' = TRUE
  /\ UNCHANGED <<collected, yielded, completed>>

Next == (\E e \in Event : Collect(e)) \/ Complete \/ Yield \/ End

Safety == Init /\ [][Next]_vars
Spec == Safety /\ WF_vars(Yield) /\ WF_vars(End)
=============================================================================
