-------------------------- MODULE ExecutionLimits --------------------------
(***************************************************************************)
(* The layer that aborts a run which takes too many steps or too long.  It *)
(* is told of every event the dispatcher collects, in the dispatcher's     *)
(* thread, and acts through the command channel like any client.           *)
(***************************************************************************)
EXTENDS Integers, Sequences

CONSTANTS
  StepLimits,  \* values of max_steps to consider
  NoLimit      \* for a run without the layer

ASSUME LimitsAssumption == StepLimits \ {NoLimit} \subseteq Nat

VARIABLES
  channel,  \* the command channel
  layer     \* max, count: max_steps and step_count; sent: _abort_sent; lost: a
            \* send has failed; missed: a fetch has failed after the send

LayerInit ==
  layer \in [max : StepLimits, count : {0}, sent : {FALSE}, lost : {FALSE},
            missed : {FALSE}]

IsWatched == layer.max # NoLimit

\* on_graph_start, of a resumption too.
LayerStarted == [layer EXCEPT !.count = 0, !.sent = FALSE, !.missed = FALSE]

\* A slip: the limit is the first number of steps that is too many.
ReachedOneMore(l) == l.count > l.max + 1

Reached(l) == l.count > l.max

\* The event of a start: those of retries are not collected.
CountStep(isFirst) ==
  /\ UNCHANGED channel
  /\ layer' = IF isFirst /\ ~layer.sent THEN [layer EXCEPT !.count = @ + 1] ELSE layer

\* The channel may raise, which is logged: the next result tries again.  (Bound:
\* one failure.)
SendAbort ==
  \/ channel' = Append(channel, "abort") /\ layer' = [layer EXCEPT !.sent = TRUE]
  \/ ~layer.lost /\ UNCHANGED channel /\ layer' = [layer EXCEPT !.lost = TRUE]

\* The event of a success or of a failure no strategy has handled; results that
\* became exceptions are not looked at.  max_time may be over at any moment.
CheckLimits ==
  IF ~IsWatched \/ layer.sent THEN UNCHANGED <<channel, layer>>
  ELSE SendAbort \/ (~Reached(layer) /\ UNCHANGED <<channel, layer>>)

\* The run is over for the layer some time after the dispatcher was told to stop.
Notify(isStopping, observation) ==
  \/ observation
  \/ isStopping /\ UNCHANGED <<channel, layer>>
=============================================================================
