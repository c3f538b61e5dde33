------------------------------ MODULE NodeRun ------------------------------
(***************************************************************************)
(* The run of one node, as the worker drives it: Node.run turns whatever   *)
(* the _run of a node returns, yields or raises into the graph events the  *)
(* engine sees.  The modules of the kinds of nodes extend this one: their  *)
(* actions are the steps of a _run, their guards begin with the step the   *)
(* run is at.                                                              *)
(*                                                                         *)
(* The node object outlives a run: the engine runs it once more when it    *)
(* is retried, with what its attributes then hold.                         *)
(***************************************************************************)
EXTENDS Integers, Sequences, FiniteSets, SequencesExt

CONSTANTS
  Kinds,        \* the kinds of nodes to consider
  MaxRuns,      \* bound: runs of the same node object
  MaxYields     \* bound: events after which a run of any kind yields no more

ASSUME RunAssumption == MaxRuns \in Nat \ {0} /\ MaxYields \in Nat

VARIABLES
  kind,      \* the node's class
  stage,     \* idle, over, or the step of its _run
  mem,       \* the locals of _run and the attributes of the node object
  out,       \* events of this run, as the worker put them on the event queue
  xid,       \* _node_execution_id
  saved,     \* execution id the runtime state has for the node, or none
  attempt

nodeVars == <<kind, stage, mem, out, xid, saved, attempt>>

NoId == "none"
ResultTypes == {"succeeded", "failed", "pause"}

-----------------------------------------------------------------------------
(* What run() makes of the events of a _run.                               *)

\* _dispatch: node events that have a graph event, once for loops and iterations
\* and once for human and backend input.  (ModelInvokeCompletedEvent and
\* RunRetryEvent have none.)
OutputEvents == {"chunk", "final", "variable", "pause", "log"}
FormEvents == {"form filled", "form timeout"}
ContainerEvents ==
  {"container started", "container next", "container succeeded", "container failed", "retriever"}
Dispatched == OutputEvents \cup FormEvents \cup ContainerEvents

\* Graph events that a container hands on for its children keep their ids, one
\* without a container id gets the id of the node.
EventOf(type, id, selector, text) ==
  [type |-> type, id |-> id, selector |-> selector, text |-> text]
Event(type, selector, text) ==
  EventOf(type, IF type = "child" THEN "child" ELSE xid, selector, text)

Emit(type) == out' = Append(out, Event(type, "", <<>>))

Becomes(step) == stage' = step /\ UNCHANGED <<kind, xid, saved, attempt>>

\* An event, then the generator goes on.
Yield(type, step) == type \in Dispatched \cup {"child"} /\ Emit(type) /\ Becomes(step)

\* A piece of output, and the end of a stream: StreamChunkEvent.
Stream(selector, text, step) == out' = Append(out, Event("chunk", selector, text)) /\ Becomes(step)
Final(selector, step) == out' = Append(out, Event("final", selector, <<>>)) /\ Becomes(step)

\* The NodeRunResult of a StreamCompletedEvent, after which _run goes on at some
\* step: only two statuses have an event, the others raise.
ResultEvent(status) == IF status = "succeeded" THEN "succeeded" ELSE "failed"
ResultThen(status, step) == Emit(ResultEvent(status)) /\ Becomes(step)

\* A NodeRunResult that is returned, or such an event if _run ends after it.
Complete(status) == ResultThen(status, "over")

\* An exception leaves _run.
Raise == Emit("failed") /\ Becomes("over")

Silently(step) == UNCHANGED out /\ Becomes(step)

-----------------------------------------------------------------------------
(* The worker, and the engine's retry.                                     *)

\* A slip: a retried run takes a new id.
EnsureAnew == xid' = IF xid = NoId /\ saved # NoId THEN saved ELSE "new" \o ToString(attempt)

\* The id the runtime state, once restored, has for an execution of the node.
RestoredId == saved

\* The id of an earlier run of the object, else the restored one.
EnsureExecutionId ==
  xid' = IF xid # NoId THEN xid ELSE IF RestoredId # NoId THEN RestoredId ELSE "new"

\* Errors of populate_start_event and of the layers' hooks are logged only.
Begin ==
  /\ stage = "idle"
  /\ EnsureExecutionId
  /\ out' = <<EventOf("started", xid', "", <<>>)>>
  /\ stage' = "run"
  /\ mem' = IF kind = "any" THEN "open" ELSE mem
  /\ UNCHANGED <<kind, saved, attempt>>

\* The engine saw a failure and runs the node object again.
RunAgain ==
  /\ stage = "over" /\ attempt < MaxRuns
  /\ \E i \in DOMAIN out : out[i].type = "failed"
  /\ stage' = "idle" /\ attempt' = attempt + 1
  /\ UNCHANGED <<kind, mem, out, xid, saved>>

-----------------------------------------------------------------------------
(* A node of which nothing is known: any events, any end.  Node.run does    *)
(* not see to it that a _run answers once and then stops, so mem says how   *)
(* this one does: its answer is open, given, or it went astray.             *)

CanYield == kind = "any" /\ stage = "run" /\ Len(out) < MaxYields

\* A first answer; anything after it leads astray.
Answers == mem' = IF mem = "open" THEN "answered" ELSE "astray"
Mentions == mem' = IF mem = "open" THEN mem ELSE "astray"

AnyYields ==
  /\ CanYield
  /\ \E e \in (Dispatched \ {"pause"}) \cup {"child"} : Yield(e, "run")
  /\ Mentions

\* It asks for a pause, or yields its result, and is asked for more.
AnyPauses == CanYield /\ Yield("pause", "run") /\ Answers
AnyResults ==
  /\ CanYield
  /\ \E s \in {"succeeded", "failed"} : ResultThen(s, "run")
  /\ Answers

\* An event no graph event stands for, a result of another status, or an exception
\* of its own.
AnyRaises == kind = "any" /\ stage = "run" /\ Raise /\ Answers

\* Without having yielded anything, it returns.
AnyReturns ==
  /\ kind = "any" /\ stage = "run" /\ Len(out) = 1
  /\ \E s \in {"succeeded", "failed", "paused", "exception"} : Complete(s)
  /\ Answers

\* Its generator is at its end, whether it has answered or not.
AnyEnds ==
  /\ kind = "any" /\ stage = "run" /\ Silently("over")
  /\ mem' = IF mem = "answered" THEN mem ELSE "astray"

BaseInit(k) ==
  /\ kind = k /\ kind \in Kinds /\ stage = "idle" /\ out = <<>> /\ attempt = 1
  /\ xid = NoId /\ saved \in {NoId, "kept"}

AnyStep == AnyYields \/ AnyPauses \/ AnyResults \/ AnyRaises \/ AnyReturns \/ AnyEnds
BaseStep == Begin \/ RunAgain \/ AnyStep

-----------------------------------------------------------------------------
Finished == stage = "over"
Succeeded == Finished /\ Last(out).type = "succeeded"
Count(type) == Cardinality({i \in DOMAIN out : out[i].type = type})
On(selector) == SelectSeq(out, LAMBDA e : e.selector = selector)
ShownOn(selector) ==
  LET s == On(selector) IN FlattenSeq([i \in DOMAIN s |-> s[i].text])
Selectors == {e.selector : e \in Range(out)} \ {""}

\* A run begins with the event that says so, and has one result, with which it
\* ends: the engine takes the node out of the executing set at a result, routes by
\* it, and never hears of a node that ends without one.  Node.run leaves that to
\* the _run: each of those modelled here sees to it, in every branch and after
\* every exception; of one that goes astray nothing is said but how it begins.
IsAstray == kind = "any" /\ mem = "astray"
OneResult ==
  /\ ~IsAstray => \A i \in DOMAIN out : out[i].type \in ResultTypes => i = Len(out)
  /\ Finished /\ ~IsAstray => Last(out).type \in ResultTypes
  /\ out # <<>> => out[1].type = "started" /\ Count("started") = 1

\* Events of the node carry one execution id, the one a restored state had for
\* it, in every attempt: what listens can tell them from those of its children.
OneExecutionId ==
  \A e \in Range(out) : e.type # "child" => e.id = IF saved # NoId THEN saved ELSE "new"

\* What the response coordinator takes for granted: a stream is not gone on
\* with or closed again after its last chunk, and a node that succeeds has
\* closed what it streamed (a response waits at a stream that is open).
StreamIsClosed(selector) ==
  LET on == {i \in DOMAIN out : out[i].selector = selector}
  IN  /\ \A i, j \in on : out[i].type = "final" => j <= i
      /\ Succeeded => \E i \in on : out[i].type = "final"
=============================================================================
