-------------------------------- MODULE Loop --------------------------------
(***************************************************************************)
(* The loop node: a child graph runs again and again, in the same variable *)
(* pool as its parent, until a break condition holds, a loop-end node has  *)
(* been reached or the count is used up.                                   *)
(*                                                                         *)
(* A round is the run of one child engine; its nodes store their variables *)
(* and may assign the loop variable.  The break condition is any predicate *)
(* of the pool, to which other nodes of the parent's graph write too, so   *)
(* that its value is chosen anew whenever it is evaluated; evaluating it   *)
(* may raise.  The node may be retried, with the same node object.         *)
(***************************************************************************)
EXTENDS Integers, FiniteSets

CONSTANTS
  Inner,       \* nodes of the child graph
  LoopCount,   \* loop_count
  MaxAttempts  \* bound: attempts, the first one and retries

Bounds == LoopCount \in Nat /\ MaxAttempts \in Nat \ {0}

VARIABLES
  pc,        \* start, check, round, after, done, succeeded or failed
  attempt,
  limit,     \* the local loop_count: 0 once the break condition held at once
  round,     \* the rounds of this attempt, begun with this one
  stamp,     \* inner node -> <<attempt, round>> its variable was stored in, or Nothing
  loopVar,   \* <<attempt, round>> the loop variable was assigned in
  reached,   \* reach_break_node of the round
  broke,     \* reach_break_condition
  outputs,   \* [var, round]: node_data.outputs, which outlives an attempt
  usage,     \* rounds whose usage was merged, in this attempt
  used       \* history: rounds whose child engine has run

vars == <<pc, attempt, limit, round, stamp, loopVar, reached, broke, outputs, usage, used>>

Nothing == <<0, 0>>
Now == <<attempt, round>>

Init ==
  /\ pc = "start" /\ attempt = 1
  /\ limit = LoopCount /\ round = 0
  /\ stamp = [n \in Inner |-> Nothing]
  /\ loopVar = Nothing
  /\ reached = FALSE /\ broke = FALSE
  /\ outputs = [var |-> Nothing, round |-> 0]
  /\ usage = 0 /\ used = 0

\* _initialize_loop_variables, then the condition before the first round, the value
\* errors of which are suppressed.
Start ==
  /\ pc = "start"
  /\ loopVar' = <<attempt, 0>>
  /\ broke' \in BOOLEAN
  /\ limit' = IF broke' THEN 0 ELSE LoopCount
  /\ round' = 0 /\ usage' = 0 /\ used' = 0 /\ reached' = FALSE
  /\ pc' = "check"
  /\ UNCHANGED <<attempt, stamp, outputs>>

\* A loop variable has no value, or the first condition raises what is not
\* suppressed; the variables before that one are in the pool.
StartRaises ==
  /\ pc = "start"
  /\ loopVar' \in {loopVar, <<attempt, 0>>}
  /\ broke' = FALSE /\ limit' = LoopCount
  /\ round' = 0 /\ usage' = 0 /\ used' = 0 /\ reached' = FALSE
  /\ pc' = "failed"
  /\ UNCHANGED <<attempt, stamp, outputs>>

\* The variables of the child's nodes are removed, then its engine created.
BeginRound ==
  /\ pc = "check" /\ round < limit
  /\ round' = round + 1
  /\ stamp' = [n \in Inner |-> Nothing]
  /\ reached' = FALSE
  /\ used' = used + 1
  /\ pc' = "round"
  /\ UNCHANGED <<attempt, limit, loopVar, broke, outputs, usage>>

\* No engine can be created.
EngineRaises ==
  /\ pc = "check" /\ round < limit
  /\ stamp' = [n \in Inner |-> Nothing]
  /\ pc' = "failed"
  /\ UNCHANGED <<attempt, limit, round, loopVar, reached, broke, outputs, usage, used>>

\* An inner node stores its variable; an assigner the loop variable too.
InnerRuns(n) ==
  /\ pc = "round" /\ stamp[n] # Now
  /\ stamp' = [stamp EXCEPT ![n] = Now]
  /\ loopVar' \in {loopVar, Now}
  /\ UNCHANGED <<pc, attempt, limit, round, reached, broke, outputs, usage, used>>

\* A loop-end node succeeds; the child graph goes on to its end.
LoopEnd ==
  /\ pc = "round" /\ ~reached
  /\ reached' = TRUE
  /\ UNCHANGED <<pc, attempt, limit, round, stamp, loopVar, broke, outputs, usage, used>>

\* The child fails or is aborted.
RoundFails ==
  /\ pc = "round"
  /\ usage' = usage + 1
  /\ pc' = "failed"
  /\ UNCHANGED <<attempt, limit, round, stamp, loopVar, reached, broke, outputs, used>>

\* The child's run is over, or has paused.
RoundEnds ==
  /\ pc = "round"
  /\ outputs' = [var |-> loopVar, round |-> round]
  /\ usage' = usage + 1
  /\ pc' = IF reached THEN "done" ELSE "after"
  /\ UNCHANGED <<attempt, limit, round, stamp, loopVar, reached, broke, used>>

\* The condition after a round.
Condition ==
  /\ pc = "after"
  /\ broke' \in BOOLEAN
  /\ pc' = IF broke' THEN "done" ELSE "check"
  /\ UNCHANGED <<attempt, limit, round, stamp, loopVar, reached, outputs, usage, used>>

ConditionRaises ==
  /\ pc = "after"
  /\ pc' = "failed"
  /\ UNCHANGED <<attempt, limit, round, stamp, loopVar, reached, broke, outputs, usage, used>>

Succeed ==
  /\ pc = "done" \/ (pc = "check" /\ round >= limit)
  /\ pc' = "succeeded"
  /\ UNCHANGED <<attempt, limit, round, stamp, loopVar, reached, broke, outputs, usage, used>>

\* The engine runs the node object once more.
Retry ==
  /\ pc = "failed" /\ attempt < MaxAttempts
  /\ attempt' = attempt + 1
  /\ pc' = "start"
  /\ UNCHANGED <<limit, round, stamp, loopVar, reached, broke, outputs, usage, used>>

Next ==
  \/ Start \/ StartRaises \/ BeginRound \/ EngineRaises \/ LoopEnd \/ RoundFails \/ RoundEnds
  \/ Condition \/ ConditionRaises \/ Succeed \/ Retry
  \/ \E n \in Inner : InnerRuns(n)
Spec == Init /\ [][Next]_vars

-----------------------------------------------------------------------------
\* Type invariant: the state is well-formed.
TypeOK ==
  /\ pc \in {"start", "check", "round", "after", "done", "succeeded", "failed"}
  /\ attempt \in 1..MaxAttempts /\ limit \in {0, LoopCount} /\ round \in 0..LoopCount
  /\ reached \in BOOLEAN /\ broke \in BOOLEAN
  /\ stamp \in [Inner -> Nat \X Nat] /\ loopVar \in Nat \X Nat
  /\ outputs \in [var : Nat \X Nat, round : 0..LoopCount]
  /\ usage \in 0..LoopCount /\ used \in 0..LoopCount

\* What an inner node reads of another one was stored in the same round: no
\* round sees variables of an earlier one ("Keeping stale variables causes a
\* freshly created response coordinator in the next iteration to fall back to
\* outdated values").
FreshRound == pc = "round" => \A n \in Inner : stamp[n] \in {Nothing, Now}

\* A loop that succeeds reports its last round: the number of rounds it ran and
\* the loop variable as that round left it.
OutputsOfLastRound ==
  pc = "succeeded" /\ round > 0 => outputs = [var |-> loopVar, round |-> round] /\ round = used

\* It ran to its count, or to the first round after which it was to break, and
\* to no round at all if it was to break before the first.
StopsAtFirstBreak ==
  /\ pc = "succeeded" => (round = LoopCount \/ reached \/ broke)
  /\ pc = "round" => ~broke

\* How far the attempt has come: its rounds, what was counted of them and reported,
\* and why there may be another one.
RoundInv ==
  /\ pc # "start" => used = round
  /\ pc = "round" => usage = used - 1 /\ round > 0
  /\ pc \in {"check", "after", "done", "succeeded", "failed"} => usage = used
  /\ pc \in {"check", "after", "done", "succeeded"} /\ round > 0 =>
       outputs = [var |-> loopVar, round |-> round]
  /\ pc = "check" /\ broke => round = 0 /\ limit = 0
  /\ pc = "check" /\ ~broke => limit = LoopCount
  /\ pc \in {"round", "after"} => ~broke /\ limit = LoopCount
  /\ pc = "done" => reached \/ broke

\* Variables and outputs belong to the round they are read in, and no round
\* follows the break.
Inv == TypeOK /\ FreshRound /\ OutputsOfLastRound /\ StopsAtFirstBreak /\ RoundInv

\* Every round's usage is counted once, also that of the round that failed.
UsageOfEveryRound == pc \in {"succeeded", "failed", "check"} => usage = used
=============================================================================
