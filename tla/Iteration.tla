----------------------------- MODULE Iteration -----------------------------
(***************************************************************************)
(* The iteration node: a child graph runs for every item of a list, each   *)
(* in an engine of its own, one after the other or in a thread pool.       *)
(*                                                                         *)
(* In parallel the thread of the node submits every item, then collects    *)
(* the futures as they complete.  A child that aborts ends the node: the   *)
(* others are asked to abort or cancelled, and waited for.  The executor   *)
(* waits for its threads in any case before the node's result is there.    *)
(***************************************************************************)
EXTENDS Integers, Sequences, FiniteSets, SequencesExt

CONSTANTS
  MaxItems,     \* bound: the length of the list
  ParallelNums, \* threads of the pool
  Modes         \* values of ErrorHandleMode to consider

ASSUME IterationAssumption ==
  /\ MaxItems \in Nat /\ ParallelNums \in Nat \ {0}
  /\ Modes \subseteq {"terminated", "continue-on-error", "remove-abnormal-output"}

VARIABLES
  items,      \* length of the list
  mode,       \* error_handle_mode
  parallel,   \* is_parallel
  flatten,    \* flatten_output
  pc,         \* what the thread of the node is doing
  at,         \* the index it is doing it for
  task,       \* index -> its future
  engines,    \* started_child_engines: the indices that have one
  asked,      \* indices whose engine was asked to abort
  result,     \* index -> how its child graph ended
  collected,  \* futures as_completed has returned
  outputs,    \* the list of outputs, the item's index standing for its value, or
              \* for the elements of a value that is a list
  usage       \* index -> how often its usage was added

node == <<pc, at, collected, outputs, usage>>
vars == <<items, mode, parallel, flatten, pc, at, task, engines, asked, result, collected, outputs, usage>>

Index == 1..items
NoValue == 0
Results == {"value", "list", "none", "paused", "failed", "aborted", "error"}

-----------------------------------------------------------------------------
Init ==
  /\ items \in 1..MaxItems
  /\ mode \in Modes
  /\ parallel \in BOOLEAN /\ flatten \in BOOLEAN
  /\ pc = IF parallel THEN "submit" ELSE "next"
  /\ at = 1
  /\ task = [i \in Index |-> "none"]
  /\ engines = {} /\ asked = {} /\ collected = {}
  /\ result = [i \in Index |-> "unknown"]
  /\ outputs = IF parallel THEN [i \in Index |-> NoValue] ELSE <<>>
  /\ usage = [i \in Index |-> 0]

Value(i) == IF result[i] \in {"value", "list"} THEN i ELSE NoValue

\* A list without the outputs that are null.
WithValue[list \in Seq(0..MaxItems)] ==
  IF list = <<>> THEN <<>>
  ELSE IF Last(list) = NoValue THEN WithValue[Front(list)]
  ELSE Append(WithValue[Front(list)], Last(list))

\* How _run_single_iter ends: an exception, or the outputs it appends.  A child
\* that pauses appends nothing, a failed one depending on the mode.
Raises(i, r) == r \in {"aborted", "error"} \/ (r = "failed" /\ mode = "terminated")
Appends(r) ==
  r \in {"value", "list", "none"} \/ (r = "failed" /\ mode = "continue-on-error")

-----------------------------------------------------------------------------
(* One after the other.  An exception that is not an IterationNodeError,   *)
(* from a child or from the making of its engine, leaves _run.             *)

NextItem ==
  /\ pc = "next" /\ at <= items
  /\ \/ task' = [task EXCEPT ![at] = "running"] /\ engines' = engines \cup {at}
        /\ pc' = "wait"
     \/ pc' \in {"failed", "raised"} /\ UNCHANGED <<task, engines>>   \* no child engine
  /\ UNCHANGED <<items, mode, parallel, flatten, at, asked, result, collected, outputs, usage>>

\* The child's run is over: its usage is added whatever it ended with.
AfterItem ==
  /\ pc = "wait" /\ task[at] = "done"
  /\ usage' = [usage EXCEPT ![at] = @ + 1]
  /\ IF Raises(at, result[at])
     THEN pc' = (IF result[at] = "error" THEN "raised" ELSE "failed") /\ UNCHANGED <<at, outputs>>
     ELSE /\ outputs' = IF Appends(result[at]) THEN Append(outputs, Value(at)) ELSE outputs
          /\ at' = at + 1
          /\ pc' = "next"
  /\ UNCHANGED <<items, mode, parallel, flatten, task, engines, asked, result, collected>>

AllDone ==
  /\ pc = "next" /\ at > items
  /\ pc' = "succeeded"
  /\ UNCHANGED <<items, mode, parallel, flatten, at, task, engines, asked, result, collected, outputs, usage>>

-----------------------------------------------------------------------------
(* The thread of the node, in parallel.                                    *)

Submit ==
  /\ pc = "submit"
  /\ task' = [task EXCEPT ![at] = "queued"]
  /\ at' = at + 1
  /\ pc' = IF at = items THEN "collect" ELSE "submit"
  /\ UNCHANGED <<items, mode, parallel, flatten, engines, asked, result, collected, outputs, usage>>

Ready(i) == pc = "collect" /\ task[i] = "done" /\ i \notin collected

\* A slip: outputs are put down in the order in which the items complete.
CollectAppends(i) ==
  /\ Ready(i) /\ ~Raises(i, result[i])
  /\ collected' = collected \cup {i}
  /\ outputs' = [outputs EXCEPT ![Cardinality(collected')] = Value(i)]
  /\ usage' = [usage EXCEPT ![i] = @ + 1]
  /\ UNCHANGED <<items, mode, parallel, flatten, pc, at, task, engines, asked, result>>

Collect(i) ==
  /\ Ready(i) /\ ~Raises(i, result[i])
  /\ collected' = collected \cup {i}
  /\ outputs' = [outputs EXCEPT ![i] = Value(i)]
  /\ usage' = [usage EXCEPT ![i] = @ + 1]
  /\ UNCHANGED <<items, mode, parallel, flatten, pc, at, task, engines, asked, result>>

\* The usage of a child that raised, if there is an engine to ask.
Merged(i) == [usage EXCEPT ![i] = @ + (IF i \in engines THEN 1 ELSE 0)]

CollectHandled(i) ==
  /\ Ready(i) /\ Raises(i, result[i]) /\ result[i] # "aborted" /\ mode # "terminated"
  /\ collected' = collected \cup {i}
  /\ outputs' = [outputs EXCEPT ![i] = NoValue]
  /\ usage' = Merged(i)
  /\ UNCHANGED <<items, mode, parallel, flatten, pc, at, task, engines, asked, result>>

\* The other futures are cancelled, which succeeds for those still queued, and
\* the exception leaves the executor's block.
CollectTerminates(i) ==
  /\ Ready(i) /\ Raises(i, result[i]) /\ result[i] # "aborted" /\ mode = "terminated"
  /\ collected' = collected \cup {i}
  /\ usage' = Merged(i)
  /\ task' = [j \in Index |-> IF task[j] = "queued" THEN "cancelled" ELSE task[j]]
  /\ pc' = "shutdown"
  /\ UNCHANGED <<items, mode, parallel, flatten, at, engines, asked, result, outputs>>

CollectAborted(i) ==
  /\ Ready(i) /\ result[i] = "aborted"
  /\ collected' = collected \cup {i}
  /\ usage' = Merged(i)
  /\ pc' = "abort" /\ at' = 1
  /\ UNCHANGED <<items, mode, parallel, flatten, task, engines, asked, result, outputs>>

\* The child whose abort ends the node.
IsCause(i) == i \in collected /\ result[i] = "aborted"

\* _abort_parallel_siblings, one future: its engine is asked, if it has one
\* by now, and the future cancelled.
AbortSibling ==
  /\ pc = "abort"
  /\ asked' = IF at \in engines /\ ~IsCause(at) THEN asked \cup {at} ELSE asked
  /\ task' = IF task[at] = "queued" THEN [task EXCEPT ![at] = "cancelled"] ELSE task
  /\ IF at = items THEN pc' = "drain" /\ at' = 1 ELSE pc' = pc /\ at' = at + 1
  /\ UNCHANGED <<items, mode, parallel, flatten, engines, result, collected, outputs, usage>>

\* A slip: usages are merged without asking whether they have been.
DrainTwice ==
  /\ pc = "drain" /\ task[at] \in {"done", "cancelled"}
  /\ usage' = IF task[at] = "done" THEN Merged(at) ELSE usage
  /\ IF at = items THEN pc' = "shutdown" /\ at' = at ELSE pc' = pc /\ at' = at + 1
  /\ UNCHANGED <<items, mode, parallel, flatten, task, engines, asked, result, collected, outputs>>

\* A slip: a future that was cancelled is waited for too.
DrainCancelled ==
  /\ pc = "drain" /\ task[at] = "done"
  /\ usage' = IF at \notin collected THEN Merged(at) ELSE usage
  /\ IF at = items THEN pc' = "shutdown" /\ at' = at ELSE pc' = pc /\ at' = at + 1
  /\ UNCHANGED <<items, mode, parallel, flatten, task, engines, asked, result, collected, outputs>>

\* _drain_parallel_siblings, one future: wait for it and add its usage, unless
\* that was done when it was collected.
Drain ==
  /\ pc = "drain" /\ task[at] \in {"done", "cancelled"}
  /\ usage' = IF task[at] = "done" /\ at \notin collected THEN Merged(at) ELSE usage
  /\ IF at = items THEN pc' = "shutdown" /\ at' = at ELSE pc' = pc /\ at' = at + 1
  /\ UNCHANGED <<items, mode, parallel, flatten, task, engines, asked, result, collected, outputs>>

\* A slip: shutdown(wait=False).
ShutdownNoWait ==
  /\ pc = "shutdown"
  /\ pc' = "failed"
  /\ UNCHANGED <<items, mode, parallel, flatten, at, task, engines, asked, result, collected, outputs, usage>>

\* Leaving the executor's block with an exception: every thread is waited for.
Shutdown ==
  /\ pc = "shutdown"
  /\ \A i \in Index : task[i] \notin {"started", "running"}
  /\ pc' = "failed"
  /\ UNCHANGED <<items, mode, parallel, flatten, at, task, engines, asked, result, collected, outputs, usage>>

\* _finalize_parallel_outputs
Finalize ==
  /\ pc = "collect" /\ collected = Index
  /\ outputs' = IF mode = "remove-abnormal-output" THEN WithValue[outputs] ELSE outputs
  /\ pc' = "succeeded"
  /\ UNCHANGED <<items, mode, parallel, flatten, at, task, engines, asked, result, collected, usage>>

-----------------------------------------------------------------------------
\* A slip: one list among the outputs is enough.
NodeOutputAnyList ==
  IF flatten /\ \E k \in DOMAIN outputs : outputs[k] # NoValue /\ result[outputs[k]] = "list"
  THEN WithValue[outputs] ELSE outputs

\* What the node puts out, once it has succeeded (_flatten_outputs_if_needed): where
\* all outputs but the null ones are lists, the list of their elements.
NodeOutput ==
  LET set == {k \in DOMAIN outputs : outputs[k] # NoValue}
  IN  IF flatten /\ set # {} /\ \A k \in set : result[outputs[k]] = "list"
      THEN WithValue[outputs] ELSE outputs

-----------------------------------------------------------------------------
(* The threads of the pool, and the child engines.                         *)

Active == {i \in Index : task[i] \in {"started", "running"}}

Start(i) ==
  /\ task[i] = "queued" /\ \A j \in Index : j < i => task[j] # "queued"
  /\ Cardinality(Active) < ParallelNums
  /\ task' = [task EXCEPT ![i] = "started"]
  /\ UNCHANGED <<items, mode, parallel, flatten, engines, asked, result, node>>

\* The engine is created, which may fail, and put in the dictionary.
CreateEngine(i) ==
  /\ task[i] = "started"
  /\ \/ task' = [task EXCEPT ![i] = "running"] /\ engines' = engines \cup {i} /\ UNCHANGED result
     \/ task' = [task EXCEPT ![i] = "done"] /\ result' = [result EXCEPT ![i] = "error"]
        /\ UNCHANGED engines
  /\ UNCHANGED <<items, mode, parallel, flatten, asked, node>>

\* The child's run ends; an abort may come from its own limits too.
ChildEnds(i) ==
  /\ task[i] = "running"
  /\ \E r \in Results : result' = [result EXCEPT ![i] = r]
  /\ task' = [task EXCEPT ![i] = "done"]
  /\ UNCHANGED <<items, mode, parallel, flatten, engines, asked, node>>

NodeStep ==
  \/ NextItem \/ AfterItem \/ AllDone \/ Submit \/ AbortSibling \/ Drain \/ Shutdown \/ Finalize
  \/ \E i \in Index : Collect(i) \/ CollectHandled(i) \/ CollectTerminates(i) \/ CollectAborted(i)
PoolStep == \E i \in Index : Start(i) \/ CreateEngine(i) \/ ChildEnds(i)
Next == NodeStep \/ PoolStep
Spec == Init /\ [][Next]_vars

\* The node's thread and those of the pool run, and every child graph ends.
FairSpec == Spec /\ WF_vars(NodeStep) /\ WF_vars(PoolStep)

-----------------------------------------------------------------------------
Ended == pc \in {"succeeded", "failed", "raised"}

\* Type invariant: the state is well-formed.
TypeOK ==
  /\ items \in 1..MaxItems /\ mode \in Modes /\ {parallel, flatten} \subseteq BOOLEAN
  /\ pc \in {"next", "wait", "submit", "collect", "abort", "drain", "shutdown",
            "succeeded", "failed", "raised"}
  /\ task \in [Index -> {"none", "queued", "started", "running", "done", "cancelled"}]
  /\ at \in 1..(items + 1)
  /\ engines \subseteq Index /\ asked \subseteq engines /\ collected \subseteq Index
  /\ result \in [Index -> Results \cup {"unknown"}]
  /\ outputs \in Seq(0..MaxItems)
  /\ usage \in [Index -> 0..1]

\* The values of the items that have one, in the order of the list, each once:
\* whatever the order in which the children completed, and whatever failed.
ValuesInOrder ==
  pc = "succeeded" => WithValue[NodeOutput] = WithValue[[i \in Index |-> Value(i)]]

\* Where errors are kept, the output of an item stays at its place, but for
\* children that pause when items run one after the other.  If lists are flattened
\* and every value is one, it only stays in its order: an item that failed, or whose
\* value is null, leaves no trace.
OnlyLists == (\E i \in Index : result[i] = "list") /\ \A i \in Index : result[i] # "value"
PlacesKept ==
  pc = "succeeded" /\ mode # "remove-abnormal-output" /\ (parallel \/ "paused" \notin Range(result)) =>
    LET inPlace == [i \in Index |-> Value(i)]
    IN  NodeOutput = IF flatten /\ OnlyLists THEN WithValue[inPlace] ELSE inPlace

\* The usage of every child that ran is added once, also when the node ends
\* because one of them aborted.  (What is left out: when a failure terminates a
\* parallel node, nobody asks for the usage of the children still running; and what
\* was added comes to nothing if an exception leaves _run, which only one that is
\* not an IterationNodeError does, and only where items run one after the other.)
FailureTerminated ==
  parallel /\ mode = "terminated" /\ \E i \in collected : result[i] \in {"failed", "error"}
UsageAddedOnce ==
  /\ Ended /\ pc # "raised" /\ ~FailureTerminated => \A i \in engines : usage[i] = 1
  /\ pc = "raised" => ~parallel /\ (at \notin engines \/ result[at] = "error")

\* No child runs after the node has ended.
NothingOutlives == Ended => Active = {}

\* What the state of a future says about its child.
TaskInv ==
  \A i \in Index :
    /\ task[i] \in {"none", "queued", "started", "cancelled"} => i \notin engines
    /\ task[i] = "running" => i \in engines
    /\ task[i] = "done" => result[i] # "unknown" /\ (i \in engines \/ result[i] = "error")
    /\ result[i] # "unknown" => task[i] = "done"

Counted(i) == usage[i] = IF i \in engines THEN 1 ELSE 0

\* One after the other, the items before the present one are done with.
SequentialInv ==
  ~parallel =>
    /\ pc \in {"next", "wait", "succeeded", "failed", "raised"}
    /\ collected = {}
    /\ \A i \in Index : /\ i < at => task[i] = "done" /\ i \in engines /\ Counted(i)
                        /\ i > at => task[i] = "none" /\ usage[i] = 0
    /\ pc = "next" /\ at \in Index => task[at] = "none" /\ usage[at] = 0
    /\ pc = "wait" => /\ at \in engines /\ task[at] \in {"running", "done"}
                      /\ usage[at] = 0
    /\ pc = "succeeded" => at = items + 1
    /\ pc \in {"failed", "raised"} => at \in Index /\ task[at] \in {"none", "done"} /\ Counted(at)
    /\ pc = "raised" => at \notin engines \/ result[at] = "error"

\* In parallel, what has been collected or drained is done with, and a node that
\* stops leaves nothing in the queue.
ParallelInv ==
  parallel =>
    /\ pc \notin {"next", "wait", "raised"}
    /\ pc \in {"submit", "abort", "drain"} => at \in Index
    /\ pc = "submit" => collected = {} /\ \A i \in Index : i >= at <=> task[i] = "none"
    /\ pc # "submit" => \A i \in Index : task[i] # "none"
    /\ \A i \in collected : task[i] = "done" /\ Counted(i)
    /\ pc \in {"submit", "collect", "abort"} => \A i \in Index \ collected : usage[i] = 0
    /\ pc = "abort" => \A i \in Index : i < at => task[i] # "queued"
    /\ pc \in {"drain", "shutdown", "failed"} => \A i \in Index : task[i] # "queued"
    /\ pc = "drain" => \A i \in Index \ collected :
                         IF i < at THEN task[i] \in {"done", "cancelled"} /\ Counted(i) ELSE usage[i] = 0
    /\ pc \in {"shutdown", "failed"} /\ ~FailureTerminated =>
         \A i \in Index : task[i] \in {"done", "cancelled"} /\ Counted(i)
    /\ pc = "succeeded" => collected = Index

\* The outputs so far are those of the items that are done with.
OutputsInv ==
  IF ~parallel
  THEN /\ WithValue[outputs] = WithValue[[i \in 1..(at - 1) |-> Value(i)]]
       /\ mode # "remove-abnormal-output" /\ (\A i \in Index : result[i] # "paused") =>
            outputs = [i \in 1..(at - 1) |-> Value(i)]
  ELSE IF pc = "succeeded" /\ mode = "remove-abnormal-output"
  THEN outputs = WithValue[[i \in Index |-> Value(i)]]
  ELSE outputs = [i \in Index |-> IF i \in collected THEN Value(i) ELSE NoValue]

\* The state is well-formed, the values are in order, and nothing is left running.
Inv ==
  /\ TypeOK /\ ValuesInOrder /\ NothingOutlives
  /\ TaskInv /\ SequentialInv /\ ParallelInv /\ OutputsInv

\* The node ends.
Terminates == <>Ended

\* "A child graph aborts and the container must stop immediately" (exc.py): every
\* other child has been cancelled or asked to abort when the node waits for it.
AbortReachesAll ==
  pc = "drain" => \A i \in Active : i \in asked
=============================================================================
