----------------------------- MODULE GraphEngine -----------------------------
(***************************************************************************)
(* A run of the engine and its resumptions: the dispatcher thread, the     *)
(* worker threads, the thread that iterates over GraphEngine.run, and the  *)
(* clients that send commands.                                             *)
(*                                                                         *)
(* A handler of the dispatcher is one step: no other thread reads or       *)
(* writes the graph, the executing set or the graph execution, and what a  *)
(* handler does to the graph is the operator Route.  The ready queue is    *)
(* counted per node, the event queue holds the result events in order, and *)
(* the start events if a layer counts them; the others only pass through.  *)
(*                                                                         *)
(* A resumption is a new engine over the runtime state of the old one.  It *)
(* is taken once the old workers have left.                                *)
(***************************************************************************)
EXTENDS Routing, ExecutionLimits

CONSTANTS
  Graphs,       \* the graphs, sets of edges, that may be run
  Strategy,     \* graph -> node -> "none" | "fail-branch" | "default-value"
  MaxRetries,   \* node -> retry_config.max_retries, 0 without retry
  Faulty,       \* nodes whose runs may fail
  Pausers,      \* nodes whose runs may request a pause
  FailHandle,   \* the handle "fail-branch"
  Workers,      \* the worker threads of a run
  MaxCommands,  \* bound: commands sent
  MaxRuns       \* bound: runs, the first and its resumptions

ASSUME EngineAssumption ==
  /\ \A g \in Graphs : g \subseteq Links
  /\ Strategy \in [Graphs -> [Nodes -> {"none", "fail-branch", "default-value"}]]
  /\ MaxRetries \in [Nodes -> Nat]
  /\ Faulty \subseteq Nodes
  /\ Pausers \subseteq Nodes
  /\ FailHandle \in Handles /\ Handles # {FailHandle}
  /\ \A g \in Graphs, n \in Nodes : Strategy[g][n] = "fail-branch" => n \in Branches
  /\ Nodes \cap {"get", "gone"} = {}
  /\ MaxCommands \in Nat /\ MaxRuns \in Nat \ {0}

VARIABLES
  edges,      \* the graph; never changes
  status,     \* node -> "waiting" | "enabled" | "done" | "skipped"
  chosen,     \* node -> the handle of its result, NoHandle before
  ready,      \* node -> its entries in the ready queue
  at,         \* worker -> the node it runs, "get" at the ready queue, or "gone"
  events,     \* the event queue: records [node, kind, handle]
  executing,  \* GraphStateManager._executing_nodes
  gx,         \* GraphExecution: completed, aborted, paused, error, exceptions
  retries,    \* node -> NodeExecution.retry_count
  paused,     \* GraphRuntimeState: nodes that requested a pause
  deferred,   \* GraphRuntimeState: nodes that became ready during a pause
  sent,       \* commands sent so far
  dispatcher, \* what the dispatcher thread is doing
  stopping,   \* Dispatcher._stop_event
  draining,   \* stop event of the workers
  emitted,    \* EventManager._execution_complete
  report,     \* terminal event of the run, "none" before
  runs        \* runs so far

graphVars  == <<edges, status, chosen>>
queueVars  == <<ready, at, events, executing>>
domainVars == <<gx, retries, paused, deferred>>
clientVars == <<channel, sent, layer>>
threadVars == <<dispatcher, stopping, draining, emitted, report, runs>>
vars == <<graphVars, queueVars, domainVars, clientVars, threadVars>>

Enqueue(ns) == [n \in Nodes |-> IF n \in ns THEN ready[n] + 1 ELSE ready[n]]

Init ==
  /\ edges \in Graphs
  /\ status = SkipPropagated(edges, [n \in Nodes |-> IF n = Root THEN "enabled" ELSE "waiting"],
                             [n \in Nodes |-> NoHandle])
  /\ chosen = [n \in Nodes |-> NoHandle]
  /\ ready = [n \in Nodes |-> IF n = Root THEN 1 ELSE 0]
  /\ at = [w \in Workers |-> "get"]
  /\ events = <<>>
  /\ executing = {Root}
  /\ gx = [completed |-> FALSE, aborted |-> FALSE, paused |-> FALSE,
           error |-> "none", exceptions |-> FALSE]
  /\ retries = [n \in Nodes |-> 0]
  /\ paused = {}
  /\ deferred = {}
  /\ channel = <<>>
  /\ LayerInit
  /\ sent = 0
  /\ dispatcher = "start"
  /\ stopping = FALSE
  /\ draining = FALSE
  /\ emitted = FALSE
  /\ report = "none"
  /\ runs = 1
-----------------------------------------------------------------------------
\* Clients.

\* (Bound: in a run the layer watches, the layer is the only client.)
SendCommand(c) ==
  /\ sent < MaxCommands /\ ~IsWatched
  /\ channel' = Append(channel, c)
  /\ sent' = sent + 1
  /\ UNCHANGED <<graphVars, queueVars, domainVars, threadVars, layer>>

-----------------------------------------------------------------------------
\* Workers.

StartEvent(n) == [node |-> n, kind |-> "started", handle |-> NoHandle]

\* ready_queue.get returns; a worker may be past its test of the stop event.  The
\* run of the node begins with an event, which only the layer reads.
WorkerTake(w, n) ==
  /\ at[w] = "get"
  /\ ready[n] > 0
  /\ ready' = [ready EXCEPT ![n] = @ - 1]
  /\ at' = [at EXCEPT ![w] = n]
  /\ events' = IF IsWatched THEN Append(events, StartEvent(n)) ELSE events
  /\ UNCHANGED <<graphVars, executing, domainVars, clientVars, threadVars>>

\* The outcomes of a run: a result, a failure (the fallback event of a run that
\* raised included), a request to pause.
Outcomes(n) ==
  LET result(h) == [node |-> n, kind |-> "succeeded", handle |-> h]
  IN  (IF n \in Branches /\ Strategy[edges][n] # "fail-branch"
       THEN {result(h) : h \in Handles \ {FailHandle}}
       ELSE {result(CHOOSE h \in Handles \ {FailHandle} : TRUE)})
      \cup (IF n \in Faulty THEN {[node |-> n, kind |-> "failed", handle |-> NoHandle]} ELSE {})
      \cup (IF n \in Pausers THEN {[node |-> n, kind |-> "pause", handle |-> NoHandle]} ELSE {})

\* The node has run: its result goes to the event queue.
WorkerPut(w) ==
  /\ at[w] \in Nodes
  /\ \E r \in Outcomes(at[w]) : events' = Append(events, r)
  /\ at' = [at EXCEPT ![w] = IF draining THEN "gone" ELSE "get"]
  /\ UNCHANGED <<graphVars, ready, executing, domainVars, clientVars, threadVars>>

WorkerLeave(w) ==
  /\ at[w] = "get"
  /\ draining
  /\ at' = [at EXCEPT ![w] = "gone"]
  /\ UNCHANGED <<graphVars, ready, events, executing, domainVars, clientVars, threadVars>>
-----------------------------------------------------------------------------
\* The dispatcher's handlers of events.

InFlight(n) == ready[n] + Cardinality({w \in Workers : at[w] = n})
                 + Cardinality({i \in DOMAIN events : events[i].node = n /\ events[i].kind # "started"})

IsExecutionComplete == (\A n \in Nodes : ready[n] = 0) /\ executing = {}
HasStopped == gx.aborted \/ gx.error # "none"

\* Commands are processed after node results, except in the last drain.
AfterResult == [loop |-> "loopCommands", drainIdle |-> "drainCommands", drain |-> "drain"]

\* The dispatcher gets an event of the given kind for node n.
Get(n, kind) ==
  /\ \/ dispatcher = "loop" /\ ~stopping /\ ~HasStopped /\ ~IsExecutionComplete /\ ~gx.paused
     \/ dispatcher = "drainIdle" /\ ~stopping
     \/ dispatcher = "drain"
  /\ events # <<>>
  /\ Head(events).node = n
  /\ Head(events).kind = kind
  /\ events' = Tail(events)

\* The nodes ns, made ready by the result r of n, are enqueued, and n is done.
Proceed(n, r, ns) ==
  /\ status' = [m \in Nodes |-> IF m \in ns THEN "enabled" ELSE r.status[m]]
  /\ chosen' = r.chosen
  /\ ready' = Enqueue(ns)
  /\ executing' = (executing \cup ns) \ {n}

Raise == [gx EXCEPT !.error = "dispatcher", !.completed = TRUE]

\* The start of a node: the loop goes on without a look at the commands.
HandleStarted(n) ==
  /\ Get(n, "started")
  /\ Notify(stopping, CountStep(retries[n] = 0))
  /\ UNCHANGED <<graphVars, ready, at, executing, domainVars, sent, threadVars>>

\* A slip: a node that is deferred is enqueued all the same.
HandleSucceededBoth(n) ==
  /\ Get(n, "succeeded")
  /\ \E r \in {Route(edges, status, chosen, n, Head(events).handle)} :
        /\ Proceed(n, r, r.skipFed \cup r.takeFed)
        /\ deferred' = IF gx.paused THEN deferred \cup r.takeFed ELSE deferred
  /\ Notify(stopping, CheckLimits)
  /\ dispatcher' = AfterResult[dispatcher]
  /\ UNCHANGED <<edges, at, gx, retries, paused, sent,
                 stopping, draining, emitted, report, runs>>

\* Only the nodes behind selected edges are deferred during a pause.
HandleSucceeded(n) ==
  /\ Get(n, "succeeded")
  /\ \E r \in {Route(edges, status, chosen, n, Head(events).handle)} :
        IF gx.paused
        THEN Proceed(n, r, r.skipFed) /\ deferred' = deferred \cup r.takeFed
        ELSE Proceed(n, r, r.skipFed \cup r.takeFed) /\ UNCHANGED deferred
  /\ Notify(stopping, CheckLimits)
  /\ dispatcher' = AfterResult[dispatcher]
  /\ UNCHANGED <<edges, at, gx, retries, paused, sent,
                 stopping, draining, emitted, report, runs>>

MayRetry(n) == retries[n] < MaxRetries[n]

\* A slip: the previous attempt is finished after the node is queued again.
HandleRetryFinishesLate(n) ==
  /\ Get(n, "failed")
  /\ MayRetry(n)
  /\ gx' = [gx EXCEPT !.exceptions = TRUE]
  /\ retries' = [retries EXCEPT ![n] = @ + 1]
  /\ ready' = Enqueue({n})
  /\ executing' = executing \ {n}
  /\ dispatcher' = AfterResult[dispatcher]
  /\ UNCHANGED <<graphVars, at, paused, deferred, clientVars,
                 stopping, draining, emitted, report, runs>>

\* A failure that is retried: the node leaves the executing set and returns.
HandleRetry(n) ==
  /\ Get(n, "failed")
  /\ MayRetry(n)
  /\ gx' = [gx EXCEPT !.exceptions = TRUE]
  /\ retries' = [retries EXCEPT ![n] = @ + 1]
  /\ ready' = Enqueue({n})
  /\ executing' = executing \cup {n}
  /\ dispatcher' = AfterResult[dispatcher]
  /\ UNCHANGED <<graphVars, at, paused, deferred, clientVars,
                 stopping, draining, emitted, report, runs>>

\* No error strategy: the execution fails.
HandleFailed(n) ==
  /\ Get(n, "failed")
  /\ ~MayRetry(n)
  /\ Strategy[edges][n] = "none"
  /\ gx' = [gx EXCEPT !.exceptions = TRUE, !.error = "node", !.completed = TRUE]
  /\ executing' = executing \ {n}
  /\ Notify(stopping, CheckLimits)
  /\ dispatcher' = AfterResult[dispatcher]
  /\ UNCHANGED <<graphVars, ready, at, retries, paused, deferred, sent,
                 stopping, draining, emitted, report, runs>>

\* An error strategy turns the failure into a result; the nodes it makes ready
\* are enqueued during a pause too.
HandleException(n) ==
  /\ Get(n, "failed")
  /\ ~MayRetry(n)
  /\ \/ Strategy[edges][n] = "fail-branch"
     \/ Strategy[edges][n] = "default-value" /\ n \notin Branches
  /\ gx' = [gx EXCEPT !.exceptions = TRUE]
  /\ \E r \in {Route(edges, status, chosen, n, FailHandle)} :
        Proceed(n, r, r.skipFed \cup r.takeFed)
  /\ dispatcher' = AfterResult[dispatcher]
  /\ UNCHANGED <<edges, at, retries, paused, deferred, clientVars,
                 stopping, draining, emitted, report, runs>>

\* A branch node with default values has no handle to follow: the handler
\* raises, and the dispatcher thread with it.
ExceptionRaises(n) ==
  /\ Get(n, "failed")
  /\ ~MayRetry(n)
  /\ Strategy[edges][n] = "default-value"
  /\ n \in Branches
  /\ gx' = [Raise EXCEPT !.exceptions = TRUE]
  /\ dispatcher' = "end"
  /\ UNCHANGED <<graphVars, ready, at, executing, retries, paused, deferred, clientVars,
                 stopping, draining, emitted, report, runs>>

\* A slip: the node that asks for a pause stays in the executing set.
HandlePauseKeepsExecuting(n) ==
  /\ Get(n, "pause")
  /\ IF gx.completed \/ gx.aborted
     THEN gx' = Raise /\ dispatcher' = "end" /\ UNCHANGED <<status, paused>>
     ELSE /\ gx' = [gx EXCEPT !.paused = TRUE]
          /\ status' = [status EXCEPT ![n] = "waiting"]
          /\ paused' = paused \cup {n}
          /\ UNCHANGED dispatcher
  /\ UNCHANGED <<edges, chosen, ready, at, executing, retries, deferred, clientVars,
                 stopping, draining, emitted, report, runs>>

\* A node asks for a pause; GraphExecution.pause raises after an end or an abort.
HandlePause(n) ==
  /\ Get(n, "pause")
  /\ IF gx.completed \/ gx.aborted
     THEN /\ gx' = Raise
          /\ dispatcher' = "end"
          /\ UNCHANGED <<status, executing, paused>>
     ELSE /\ gx' = [gx EXCEPT !.paused = TRUE]
          /\ executing' = executing \ {n}
          /\ status' = [status EXCEPT ![n] = "waiting"]
          /\ paused' = paused \cup {n}
          /\ UNCHANGED dispatcher
  /\ UNCHANGED <<edges, chosen, ready, at, retries, deferred, clientVars,
                 stopping, draining, emitted, report, runs>>

HandleEvent ==
  \E n \in Nodes : \/ HandleStarted(n)
                   \/ HandleSucceeded(n)
                   \/ HandleRetry(n)
                   \/ HandleFailed(n)
                   \/ HandleException(n)
                   \/ ExceptionRaises(n)
                   \/ HandlePause(n)
-----------------------------------------------------------------------------
\* The dispatcher's loop.

\* The command handlers; CommandProcessor logs what pause raises.
Apply(x, c) ==
  CASE c = "pause" -> IF x.completed \/ x.aborted THEN x ELSE [x EXCEPT !.paused = TRUE]
    [] c = "abort" -> [x EXCEPT !.aborted = TRUE, !.error = "abort"]

\* The execution after the first i commands of the channel.
Applied[i \in 0..Len(channel)] ==
  IF i = 0 THEN gx ELSE Apply(Applied[i - 1], channel[i])

AfterCommands == [start |-> "loop", loopCommands |-> "loop", drainCommands |-> "drainIdle",
                  final |-> "drain", finalPaused |-> "drainIdle"]

ProcessCommands ==
  /\ dispatcher \in DOMAIN AfterCommands
  /\ gx' = Applied[Len(channel)]
  /\ channel' = <<>>
  /\ dispatcher' = AfterCommands[dispatcher]
  /\ UNCHANGED <<graphVars, queueVars, retries, paused, deferred, sent, layer,
                 stopping, draining, emitted, report, runs>>

\* fetch_commands raises, which is logged: no command is processed, and those
\* that were already taken off the channel are lost.
FetchRaises ==
  /\ dispatcher \in DOMAIN AfterCommands
  /\ channel' \in {channel, <<>>}
  /\ layer' = [layer EXCEPT !.missed = @ \/ layer.sent]
  /\ dispatcher' = AfterCommands[dispatcher]
  /\ UNCHANGED <<graphVars, queueVars, domainVars, sent,
                 stopping, draining, emitted, report, runs>>

\* The loop is left: the end, an error and an abort are looked at before a
\* pause.
LeaveLoop ==
  /\ dispatcher = "loop"
  /\ \/ /\ stopping \/ HasStopped \/ IsExecutionComplete
        /\ dispatcher' = "final"
     \/ /\ ~(stopping \/ HasStopped \/ IsExecutionComplete)
        /\ gx.paused
        /\ dispatcher' = "finalPaused"
  /\ UNCHANGED <<graphVars, queueVars, domainVars, clientVars,
                 stopping, draining, emitted, report, runs>>

\* A slip: an empty event queue is taken for the end of the drain.
IdleOnEmptyQueue ==
  /\ dispatcher = "drainIdle"
  /\ stopping \/ events = <<>>
  /\ dispatcher' = "drain"
  /\ UNCHANGED <<graphVars, queueVars, domainVars, clientVars,
                 stopping, draining, emitted, report, runs>>

\* _drain_events_until_idle ends.
Idle ==
  /\ dispatcher = "drainIdle"
  /\ stopping \/ (events = <<>> /\ executing = {})
  /\ dispatcher' = "drain"
  /\ UNCHANGED <<graphVars, queueVars, domainVars, clientVars,
                 stopping, draining, emitted, report, runs>>

Drained ==
  /\ dispatcher = "drain"
  /\ events = <<>>
  /\ dispatcher' = "end"
  /\ UNCHANGED <<graphVars, queueVars, domainVars, clientVars,
                 stopping, draining, emitted, report, runs>>

\* mark_complete, of the execution unless it is paused, and of the emitter
DispatcherEnds ==
  /\ dispatcher = "end"
  /\ gx' = [gx EXCEPT !.completed = @ \/ ~gx.paused]
  /\ emitted' = TRUE
  /\ dispatcher' = "over"
  /\ UNCHANGED <<graphVars, queueVars, retries, paused, deferred, clientVars,
                 stopping, draining, report, runs>>
-----------------------------------------------------------------------------
\* The thread that iterates over GraphEngine.run.

\* A slip: an abort is reported before a pause.
ReportAbortFirst ==
  /\ report = "none"
  /\ emitted
  /\ report' = CASE gx.aborted -> "aborted"
                 [] ~gx.aborted /\ gx.paused -> "paused"
                 [] ~gx.aborted /\ ~gx.paused /\ gx.error # "none" -> "failed"
                 [] OTHER -> IF gx.exceptions THEN "partial" ELSE "succeeded"
  /\ UNCHANGED <<graphVars, queueVars, domainVars, clientVars,
                 dispatcher, stopping, draining, emitted, runs>>

\* _emit_terminal_events, once every collected event has been yielded
Report ==
  /\ report = "none"
  /\ emitted
  /\ report' = CASE gx.paused -> "paused"
                 [] ~gx.paused /\ gx.aborted -> "aborted"
                 [] ~gx.paused /\ ~gx.aborted /\ gx.error # "none" -> "failed"
                 [] OTHER -> IF gx.exceptions THEN "partial" ELSE "succeeded"
  /\ UNCHANGED <<graphVars, queueVars, domainVars, clientVars,
                 dispatcher, stopping, draining, emitted, runs>>

\* _stop_execution
StopExecution ==
  /\ report # "none"
  /\ ~draining
  /\ stopping' = TRUE
  /\ draining' = TRUE
  /\ UNCHANGED <<graphVars, queueVars, domainVars, clientVars, dispatcher, emitted, report, runs>>

\* The caller closes the generator before the run has ended.
Close ==
  /\ report = "none"
  /\ report' = "closed"
  /\ stopping' = TRUE
  /\ draining' = TRUE
  /\ UNCHANGED <<graphVars, queueVars, domainVars, clientVars, dispatcher, emitted, runs>>

Over == dispatcher = "over" /\ \A w \in Workers : at[w] = "gone"

\* A slip: only the nodes that asked for the pause are started again.
ResumePausedOnly ==
  /\ Over
  /\ report = "paused"
  /\ runs < MaxRuns
  /\ status' = [n \in Nodes |-> IF n \in paused THEN "enabled" ELSE status[n]]
  /\ ready' = Enqueue(paused)
  /\ executing' = paused
  /\ paused' = {}
  /\ deferred' = {}
  /\ gx' = [gx EXCEPT !.paused = FALSE]
  /\ at' = [w \in Workers |-> "get"]
  /\ events' = <<>>
  /\ dispatcher' = "start"
  /\ stopping' = FALSE
  /\ draining' = FALSE
  /\ emitted' = FALSE
  /\ report' = "none"
  /\ runs' = runs + 1
  /\ layer' = LayerStarted
  /\ UNCHANGED <<edges, chosen, retries, channel, sent>>

\* A paused execution is run again.
Resume ==
  /\ Over
  /\ report = "paused"
  /\ runs < MaxRuns
  /\ LET ns == paused \cup deferred
     IN  /\ status' = [n \in Nodes |-> IF n \in ns THEN "enabled" ELSE status[n]]
         /\ ready' = Enqueue(ns)
         /\ executing' = ns
  /\ paused' = {}
  /\ deferred' = {}
  /\ gx' = [gx EXCEPT !.paused = FALSE]
  /\ at' = [w \in Workers |-> "get"]
  /\ events' = <<>>
  /\ dispatcher' = "start"
  /\ stopping' = FALSE
  /\ draining' = FALSE
  /\ emitted' = FALSE
  /\ report' = "none"
  /\ runs' = runs + 1
  /\ layer' = LayerStarted
  /\ UNCHANGED <<edges, chosen, retries, channel, sent>>

Terminated == Over /\ report # "none" /\ draining /\ UNCHANGED vars

Worker(w) == WorkerPut(w) \/ WorkerLeave(w) \/ \E n \in Nodes : WorkerTake(w, n)

Dispatcher == \/ HandleEvent
              \/ ProcessCommands
              \/ FetchRaises
              \/ LeaveLoop
              \/ Idle
              \/ Drained
              \/ DispatcherEnds

Next ==
  \/ \E c \in {"pause", "abort"} : SendCommand(c)
  \/ \E w \in Workers : Worker(w)
  \/ Dispatcher
  \/ Report
  \/ StopExecution
  \/ Close
  \/ Resume
  \/ Terminated

Spec == Init /\ [][Next]_vars

\* Every thread is scheduled, every node run returns and the caller iterates;
\* nobody has to send commands, close the run or resume it.
FairSpec ==
  /\ Spec
  /\ WF_vars(Dispatcher)
  /\ \A w \in Workers : WF_vars(Worker(w))
  /\ WF_vars(Report)
  /\ WF_vars(StopExecution)
-----------------------------------------------------------------------------
NodeStatus == {"waiting", "enabled", "done", "skipped"}
Event == [node : Nodes, kind : {"started", "succeeded", "failed", "pause"},
          handle : Handles \cup {NoHandle}]
GraphExecution == [completed : BOOLEAN, aborted : BOOLEAN, paused : BOOLEAN,
                   error : {"none", "node", "abort", "dispatcher"}, exceptions : BOOLEAN]
Layer == [max : StepLimits, count : Nat, sent : BOOLEAN, lost : BOOLEAN,
          missed : BOOLEAN]

\* Type invariant: the state is well-formed.
TypeOK ==
  /\ edges \in Graphs
  /\ status \in [Nodes -> NodeStatus]
  /\ chosen \in [Nodes -> Handles \cup {NoHandle}]
  /\ ready \in [Nodes -> Nat]
  /\ at \in [Workers -> Nodes \cup {"get", "gone"}]
  /\ events \in Seq(Event)
  /\ executing \subseteq Nodes
  /\ gx \in GraphExecution
  /\ retries \in [Nodes -> Nat] /\ \A n \in Nodes : retries[n] <= MaxRetries[n]
  /\ paused \subseteq Nodes
  /\ deferred \subseteq Nodes
  /\ channel \in Seq({"pause", "abort"})
  /\ sent \in 0..MaxCommands
  /\ layer \in Layer
  /\ dispatcher \in {"loop", "drainIdle", "drain", "end", "over"} \cup DOMAIN AfterCommands
  /\ {stopping, draining, emitted} \subseteq BOOLEAN
  /\ report \in {"none", "closed", "paused", "aborted", "failed", "partial", "succeeded"}
  /\ runs \in 1..MaxRuns

\* A node is in one place at most, across retries, pauses and resumptions: in a
\* queue, with a worker, or in the list of nodes to resume; and a node with a
\* result is in none, so no result is ever computed twice.
RunsOnce ==
  \A n \in Nodes :
    /\ InFlight(n) + (IF n \in deferred \cup paused THEN 1 ELSE 0) <= 1
    /\ status[n] \in {"done", "skipped"} => InFlight(n) = 0 /\ n \notin deferred \cup paused

\* Completion is read off the ready queue and the executing set: while nothing
\* has failed, that set is what is queued, running or waiting to be handled,
\* through retries, pauses and resumptions.
ExecutingIsExact ==
  gx.error = "none" => executing = {n \in Nodes : InFlight(n) > 0}

\* The limits hold as far as the channel does: a run the layer has sent its abort
\* for is not reported as a success unless a fetch has failed since, and one that
\* succeeds has kept them unless a send or such a fetch has failed.  (A run with
\* exceptions may have passed them unseen.)
LimitsAreKept ==
  /\ report \in {"succeeded", "partial"} => ~layer.sent \/ layer.missed
  /\ report = "succeeded" /\ IsWatched /\ ~layer.lost /\ ~layer.missed =>
       layer.count <= layer.max


\* A pause is reported when the engine is at rest: nothing queued, running or
\* unhandled, and every node that could go on is among those a resumption
\* starts; so what is saved then loses nothing.
PausedIsResumable ==
  report = "paused" /\ gx.error = "none" =>
    /\ \A n \in Nodes : InFlight(n) = 0 /\ status[n] # "enabled"
    /\ \A n \in Nodes : status[n] = "waiting" /\ (n = Root \/ IsFed(edges, n, status, chosen)) =>
                          n \in deferred \cup paused

\* A run that ends well, at once or after resumptions, is complete: each node
\* is done, if live edges lead to it, or skipped, and no result is lost.  (So it
\* is in a graph that is rooted: no node of a cycle is ever run.)
SuccessIsComplete ==
  report \in {"succeeded", "partial"} =>
    \A n \in Nodes : /\ status[n] \in {"done", "skipped"}
                     /\ InFlight(n) = 0
                     /\ status[n] = "done" <=>
                          n = Root \/ \E e \in Into(edges, n) : IsLive(e, status, chosen)

-----------------------------------------------------------------------------
\* The inductive invariant, in named parts.

IsRun(w, n)    == at[w] = n
IsResult(i, n) == events[i].node = n /\ events[i].kind # "started"

IsRunning(n)   == \E w \in Workers : IsRun(w, n)
IsUnhandled(n) == \E i \in DOMAIN events : IsResult(i, n)
IsInFlight(n)  == ready[n] > 0 \/ IsRunning(n) \/ IsUnhandled(n)

Held == deferred \cup paused

\* No node is in two places: the queues and the workers.
PlaceInv ==
  \A n \in Nodes :
    /\ ready[n] <= 1
    /\ \A v, w \in Workers : IsRun(v, n) /\ IsRun(w, n) => v = w
    /\ \A i, j \in DOMAIN events : IsResult(i, n) /\ IsResult(j, n) => i = j
    /\ ready[n] > 0 => ~IsRunning(n) /\ ~IsUnhandled(n)
    /\ IsRunning(n) => ~IsUnhandled(n)

\* Where a node may be, by its status, and what the executing set holds; after a
\* failure nodes may be missing.
StatusInv ==
  /\ \A n \in Nodes :
       /\ IsInFlight(n) => status[n] = "enabled"
       /\ status[n] = "enabled" /\ gx.error = "none" => IsInFlight(n)
       /\ n \in Held => status[n] = "waiting" /\ gx.paused
  /\ gx.error = "none" => executing = {n \in Nodes : IsInFlight(n)}

\* Why a node has its status.
GraphInv ==
  \A n \in Nodes :
    /\ status[n] \in {"enabled", "done"} \/ n \in Held =>
         n = Root \/ IsFed(edges, n, status, chosen)
    /\ status[n] = "skipped" => n # Root /\ \A e \in Into(edges, n) : IsDead(e, status, chosen)
    /\ status[n] = "waiting" =>
         /\ n = Root \/ IsFed(edges, n, status, chosen) => n \in Held
         /\ Into(edges, n) # {} => \E e \in Into(edges, n) : ~IsDead(e, status, chosen)

\* What the dispatcher's and the caller's threads know of each other, and why the
\* engine is at rest when the dispatcher is done with its loop.
PhaseInv ==
  /\ emitted <=> dispatcher = "over"
  /\ report \notin {"none", "closed"} => emitted
  /\ stopping => report # "none"
  /\ gx.aborted => gx.error # "none"
  /\ report = "paused" => gx.paused
  /\ report \in {"succeeded", "partial"} => ~gx.paused /\ gx.error = "none"
  /\ report = "succeeded" => ~gx.exceptions
  /\ dispatcher \in {"final", "drain", "end", "over"} /\ gx.error = "none" /\ report # "closed"
       => executing = {}

\* An abort the layer has sent is in the channel until the dispatcher, which looks
\* at the commands next, has taken it or failed to.
SentInv ==
  layer.sent /\ ~layer.missed /\ gx.error = "none" /\ report # "closed" =>
    /\ dispatcher \in {"loopCommands", "drainCommands"}
    /\ \E i \in DOMAIN channel : channel[i] = "abort"

\* The result of a node comes after its start.
StartInv ==
  \A i \in DOMAIN events :
    events[i].kind = "started" =>
      \/ IsRunning(events[i].node)
      \/ \E j \in DOMAIN events : i < j /\ IsResult(j, events[i].node)

\* Too many steps are noticed with a result that is still to come.
CountInv ==
  /\ IsWatched /\ ~layer.sent /\ ~layer.lost /\ layer.count > layer.max
  /\ gx.error = "none" /\ ~gx.exceptions /\ ~gx.paused /\ report # "closed"
  => executing # {}

\* At every moment of every run the state is well-formed, the executing set exact,
\* each node in one place, and the limits are kept.
Inv ==
  /\ TypeOK /\ ExecutingIsExact /\ RunsOnce /\ LimitsAreKept
  /\ PlaceInv /\ StatusInv /\ GraphInv /\ PhaseInv /\ SentInv /\ StartInv /\ CountInv
-----------------------------------------------------------------------------
\* Every run ends with a terminal event (or is closed).
RunEnds == report = "none" ~> report # "none"

\* A pause is never forgotten, whatever else happens in the meantime: the run
\* it was taken in ends with it.
PauseIsReported == gx.paused /\ report = "none" ~> report \in {"paused", "closed"}
=============================================================================
