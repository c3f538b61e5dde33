--------------------------- MODULE GraphTraversal ---------------------------
(***************************************************************************)
(* How a result event of a node moves a run forward: GraphStateManager,    *)
(* EdgeProcessor and SkipPropagator, driven by the dispatcher thread's     *)
(* handler for NodeRunSucceededEvent, while worker threads take nodes from *)
(* the ready queue and put results on the event queue.                     *)
(*                                                                         *)
(* Every edge mark is a step of its own.  The recursion of                 *)
(* propagate_skip_from_edge is kept: callStack holds the nodes whose loops *)
(* over outgoing edges are active, innermost last, and skipTodo the edges  *)
(* these loops have still to visit.  The order of a node's outgoing edges  *)
(* is that of the graph's configuration, so a loop takes any of them next. *)
(*                                                                         *)
(* The two queues are counted per node: several workers empty and fill     *)
(* them, so their order says nothing about the order of the results.       *)
(*                                                                         *)
(* The graph is a variable that never changes: one run of TLC covers every *)
(* graph whose edges are among Links.                                      *)
(***************************************************************************)
EXTENDS Workflow, GraphMarks, Integers, Sequences

VARIABLES
  edges,      \* the graph's edges; never changes
  estate,     \* edge -> NodeState
  nstate,     \* node -> NodeState
  ready,      \* node -> its entries in the ready queue
  running,    \* node -> workers running it
  results,    \* node -> its result events in the event queue
  executing,  \* GraphStateManager._executing_nodes
  pc,         \* what the dispatcher thread is doing
  cur,        \* the node whose result it handles, kept after the handler
  callStack,  \* active calls of the skip propagation, innermost last
  skipTodo,   \* edges these calls have still to mark SKIPPED
  takeTodo,   \* selected edges still to be marked TAKEN
  readyNodes, \* node -> its entries in the list process_node_success returns
  chosen      \* history: node -> the handle of its result, NoHandle before

graphVars  == <<estate, nstate>>
queueVars  == <<ready, running, results, executing>>
callVars   == <<pc, cur, callStack, skipTodo, takeTodo, readyNodes>>
vars == <<edges, graphVars, queueVars, callVars, chosen>>

Marks(m)  == [n \in Nodes |-> m]
Plus(q, n)  == [q EXCEPT ![n] = @ + 1]
Minus(q, n) == [q EXCEPT ![n] = @ - 1]

In(n)  == {e \in edges : e.head = n}
Out(n) == {e \in edges : e.tail = n}

Selected(n, h)   == {e \in Out(n) : Selects(n, h, e)}
Unselected(n, h) == Out(n) \ Selected(n, h)

\* Slips a change to is_node_ready could make: any taken edge suffices; only
\* taken edges count, so that a join after a branch never runs.
IsNodeReadyEarly(s, n) == In(n) = {} \/ \E e \in In(n) : s[e] = "TAKEN"
IsNodeReadyStrict(s, n) == \A e \in In(n) : s[e] = "TAKEN"

\* is_node_ready, on the edge states s
IsNodeReady(s, n) ==
  \/ In(n) = {}
  \/ /\ \A e \in In(n) : s[e] # "UNKNOWN"
     /\ \E e \in In(n) : s[e] = "TAKEN"

\* analyze_edge_states
HasUnknown(s, n) == \E e \in In(n) : s[e] = "UNKNOWN"
HasTaken(s, n)   == \E e \in In(n) : s[e] = "TAKEN"

\* What Graph.init leaves behind: inactive roots are SKIPPED, with every edge
\* and node that depends only on them.
InactiveRootsMarked == InitiallyMarked(Nodes, Root, edges, estate, nstate)

\* The state the dispatcher starts in: _start_execution has enqueued the root.
Init ==
  /\ edges \in SUBSET Links
  /\ nstate \in [Nodes -> NodeState]
  /\ \A n \in Nodes : nstate[n] = "TAKEN" <=> n = Root
  /\ estate = [e \in edges |-> IF nstate[e.tail] = "SKIPPED" THEN "SKIPPED" ELSE "UNKNOWN"]
  /\ InactiveRootsMarked
  /\ ready = [Marks(0) EXCEPT ![Root] = 1]
  /\ running = Marks(0)
  /\ results = Marks(0)
  /\ executing = {Root}
  /\ pc = "idle"
  /\ cur = Root
  /\ callStack = <<>>
  /\ skipTodo = {}
  /\ takeTodo = {}
  /\ readyNodes = Marks(0)
  /\ chosen = Marks(NoHandle)
-----------------------------------------------------------------------------
\* A worker takes a node from the ready queue ...
WorkerTake(n) ==
  /\ ready[n] > 0
  /\ ready' = Minus(ready, n)
  /\ running' = Plus(running, n)
  /\ UNCHANGED <<edges, graphVars, results, executing, callVars, chosen>>

\* ... and, the node having run, puts its result on the event queue.
WorkerPut(n) ==
  /\ running[n] > 0
  /\ running' = Minus(running, n)
  /\ results' = Plus(results, n)
  /\ UNCHANGED <<edges, graphVars, ready, executing, callVars, chosen>>

\* The handler starts on a result of n that carries handle h.  A branch node
\* first skips the paths it did not select; the edges to take are fixed now,
\* since nothing but the handler changes the graph.
Dispatch(n, h) ==
  /\ pc = "idle"
  /\ results[n] > 0
  /\ results' = Minus(results, n)
  /\ cur' = n
  /\ chosen' = [chosen EXCEPT ![n] = h]
  /\ callStack' = IF n \in Branches THEN <<n>> ELSE <<>>
  /\ skipTodo' = Unselected(n, h)
  /\ takeTodo' = Selected(n, h)
  /\ pc' = IF n \in Branches THEN "skip" ELSE "take"
  /\ UNCHANGED <<edges, graphVars, ready, running, executing, readyNodes>>

\* mark_edge_skipped and propagate_skip_from_edge for an edge of the innermost
\* loop: wait, enqueue the node below, or skip it and enter its own loop.
SkipEdge(e) ==
  /\ pc = "skip"
  /\ e \in skipTodo
  /\ callStack # <<>>
  /\ e.tail = callStack[Len(callStack)]
  /\ estate' = [estate EXCEPT ![e] = "SKIPPED"]
  /\ \/ /\ HasUnknown(estate', e.head)
        /\ skipTodo' = skipTodo \ {e}
        /\ UNCHANGED <<nstate, ready, executing, callStack>>
     \/ /\ ~HasUnknown(estate', e.head)
        /\ HasTaken(estate', e.head)
        /\ nstate' = [nstate EXCEPT ![e.head] = "TAKEN"]
        /\ ready' = Plus(ready, e.head)
        /\ executing' = executing \cup {e.head}
        /\ skipTodo' = skipTodo \ {e}
        /\ UNCHANGED callStack
     \/ /\ ~HasUnknown(estate', e.head)
        /\ ~HasTaken(estate', e.head)
        /\ nstate' = [nstate EXCEPT ![e.head] = "SKIPPED"]
        /\ skipTodo' = (skipTodo \ {e}) \cup Out(e.head)
        /\ callStack' = Append(callStack, e.head)
        /\ UNCHANGED <<ready, executing>>
  /\ UNCHANGED <<edges, running, results, pc, cur, takeTodo, readyNodes, chosen>>

\* The innermost loop has visited all its edges.
SkipReturn ==
  /\ pc = "skip"
  /\ callStack # <<>>
  /\ \A e \in skipTodo : e.tail # callStack[Len(callStack)]
  /\ callStack' = SubSeq(callStack, 1, Len(callStack) - 1)
  /\ UNCHANGED <<edges, graphVars, queueVars, pc, cur, skipTodo, takeTodo, readyNodes, chosen>>

\* A slip: every outgoing edge is marked SKIPPED before the selected are taken.
BranchPathsSkippedAll ==
  /\ pc = "skip"
  /\ callStack = <<>>
  /\ estate' = [e \in edges |-> IF e \in Out(cur) THEN "SKIPPED" ELSE estate[e]]
  /\ pc' = "take"
  /\ UNCHANGED <<edges, nstate, queueVars, cur, callStack, skipTodo, takeTodo, readyNodes, chosen>>

\* skip_branch_paths is over: _process_branch_node_edges marks the unselected
\* edges once more and turns to the selected ones.
BranchPathsSkipped ==
  /\ pc = "skip"
  /\ callStack = <<>>
  /\ estate' = [e \in edges |->
                  IF e \in Unselected(cur, chosen[cur]) THEN "SKIPPED" ELSE estate[e]]
  /\ pc' = "take"
  /\ UNCHANGED <<edges, nstate, queueVars, cur, callStack, skipTodo, takeTodo, readyNodes, chosen>>

\* _process_taken_edge
TakeEdge(e) ==
  /\ pc = "take"
  /\ e \in takeTodo
  /\ estate' = [estate EXCEPT ![e] = "TAKEN"]
  /\ readyNodes' = IF IsNodeReady(estate', e.head) THEN Plus(readyNodes, e.head) ELSE readyNodes
  /\ takeTodo' = takeTodo \ {e}
  /\ UNCHANGED <<edges, nstate, queueVars, pc, cur, callStack, skipTodo, chosen>>

EdgesTaken ==
  /\ pc = "take"
  /\ takeTodo = {}
  /\ pc' = "publish"
  /\ UNCHANGED <<edges, graphVars, queueVars, cur, callStack, skipTodo, takeTodo, readyNodes, chosen>>

\* enqueue_node and start_execution for a node of the returned list
Publish(n) ==
  /\ pc = "publish"
  /\ readyNodes[n] > 0
  /\ readyNodes' = Minus(readyNodes, n)
  /\ nstate' = [nstate EXCEPT ![n] = "TAKEN"]
  /\ ready' = Plus(ready, n)
  /\ executing' = executing \cup {n}
  /\ UNCHANGED <<edges, estate, running, results, pc, cur, callStack, skipTodo, takeTodo, chosen>>

\* A slip: finish_execution is forgotten.
FinishHandlerKeepsExecuting ==
  /\ pc = "publish"
  /\ readyNodes = Marks(0)
  /\ pc' = "idle"
  /\ UNCHANGED <<edges, graphVars, queueVars, cur, callStack, skipTodo, takeTodo, readyNodes, chosen>>

\* finish_execution, the end of the handler
FinishHandler ==
  /\ pc = "publish"
  /\ readyNodes = Marks(0)
  /\ executing' = executing \ {cur}
  /\ pc' = "idle"
  /\ UNCHANGED <<edges, graphVars, ready, running, results, cur, callStack, skipTodo, takeTodo, readyNodes, chosen>>

\* A slip: completion is read off the ready queue alone.
CompleteOnEmptyQueue ==
  /\ pc = "idle"
  /\ ready = Marks(0)
  /\ pc' = "stopped"
  /\ UNCHANGED <<edges, graphVars, queueVars, cur, callStack, skipTodo, takeTodo, readyNodes, chosen>>

\* is_execution_complete: the dispatcher leaves its loop.
Complete ==
  /\ pc = "idle"
  /\ ready = Marks(0)
  /\ executing = {}
  /\ pc' = "stopped"
  /\ UNCHANGED <<edges, graphVars, queueVars, cur, callStack, skipTodo, takeTodo, readyNodes, chosen>>

Terminated == pc = "stopped" /\ UNCHANGED vars

Worker(n) == WorkerTake(n) \/ WorkerPut(n)

Dispatcher ==
  \/ \E n \in Nodes, h \in Handles : Dispatch(n, h)
  \/ \E e \in edges : SkipEdge(e) \/ TakeEdge(e)
  \/ SkipReturn
  \/ BranchPathsSkipped
  \/ EdgesTaken
  \/ \E n \in Nodes : Publish(n)
  \/ FinishHandler
  \/ Complete

Next == (\E n \in Nodes : Worker(n)) \/ Dispatcher \/ Terminated

Spec == Init /\ [][Next]_vars

\* Every node run returns and every thread is scheduled.
FairSpec == Spec /\ WF_vars(Dispatcher) /\ \A n \in Nodes : WF_vars(Worker(n))
-----------------------------------------------------------------------------
\* Type invariant: the state is well-formed.
TypeOK ==
  /\ edges \subseteq Links
  /\ estate \in [edges -> NodeState]
  /\ nstate \in [Nodes -> NodeState]
  /\ ready \in [Nodes -> Nat]
  /\ running \in [Nodes -> Nat]
  /\ results \in [Nodes -> Nat]
  /\ readyNodes \in [Nodes -> Nat]
  /\ executing \subseteq Nodes
  /\ pc \in {"idle", "skip", "take", "publish", "stopped"}
  /\ cur \in Nodes
  /\ callStack \in Seq(Nodes)
  /\ skipTodo \subseteq edges
  /\ takeTodo \subseteq edges
  /\ chosen \in [Nodes -> Handles \cup {NoHandle}]

InHandler(n) == pc \in {"skip", "take", "publish"} /\ cur = n
InFlight(n)  == ready[n] + running[n] + results[n]

\* A node is handed out at most once, however many edges reach it and
\* whichever of the two code paths (skip propagation, selected edges) finds it
\* ready first: in the queues, with a worker, in the handler or in the list of
\* ready nodes there is at most one occurrence of it, and none once its result
\* has been handled.
RunsAtMostOnce ==
  \A n \in Nodes :
    /\ InFlight(n) + readyNodes[n] + (IF InHandler(n) THEN 1 ELSE 0) <= 1
    /\ chosen[n] # NoHandle => InFlight(n) + readyNodes[n] = 0

\* is_execution_complete looks at the ready queue and the executing set only:
\* it is right because that set is, at any moment, exactly the nodes that are
\* queued, run by a worker, waiting in the event queue or being handled.
ExecutingIsExact ==
  executing = {n \in Nodes : InFlight(n) > 0 \/ InHandler(n)}

\* A node is given to the workers only when every edge into it is decided and
\* one of them was selected by a node that has a result.
RunsOnlyWhenReached ==
  \A n \in Nodes \ {Root} :
    nstate[n] = "TAKEN" =>
      /\ \A e \in In(n) : estate[e] # "UNKNOWN"
      /\ \E e \in In(n) : /\ chosen[e.tail] # NoHandle
                          /\ Selects(e.tail, chosen[e.tail], e)

\* A node is SKIPPED only if nothing leads to it, and then it is in no queue.
SkippedOnlyWhenCutOff ==
  \A n \in Nodes :
    nstate[n] = "SKIPPED" =>
      /\ \A e \in In(n) : estate[e] = "SKIPPED"
      /\ InFlight(n) + readyNodes[n] = 0

\* The handler marks an unselected edge twice and walks the graph from many
\* sides, but a decided edge or node never changes its mark.
MarksAreFinal ==
  [][/\ \A e \in edges : estate[e] # "UNKNOWN" => estate'[e] = estate[e]
     /\ \A n \in Nodes : nstate[n] # "UNKNOWN" => nstate'[n] = nstate[n]]_vars

LiveEdge(e) == chosen[e.tail] # NoHandle /\ Selects(e.tail, chosen[e.tail], e)
DeadEdge(e) == \/ nstate[e.tail] = "SKIPPED"
               \/ chosen[e.tail] # NoHandle /\ ~Selects(e.tail, chosen[e.tail], e)

\* A handler leaves nothing half-propagated, whichever way its loops and their
\* recursion went: between two of them a node is enqueued if and only if its
\* inputs are decided and one is live, and skipped if and only if all are dead.
\* So a handler may be taken for one step (Routing.tla).
ClosedBetweenHandlers ==
  pc \in {"idle", "stopped"} =>
    \A n \in Nodes \ {Root} :
      In(n) # {} =>
        /\ nstate[n] = "TAKEN" <=> /\ \A e \in In(n) : LiveEdge(e) \/ DeadEdge(e)
                                   /\ \E e \in In(n) : LiveEdge(e)
        /\ nstate[n] = "SKIPPED" <=> \A e \in In(n) : DeadEdge(e)

ClosedUnderLive(S) == \A e \in edges : e.tail \in S /\ LiveEdge(e) => e.head \in S

\* Reference definition: the nodes a path of live edges joins to the root.
Reached == {n \in Nodes : \A S \in SUBSET Nodes : Root \in S /\ ClosedUnderLive(S) => n \in S}

\* No path leads back: among any nodes there is one no edge joins to the others.
Acyclic == \A S \in SUBSET Nodes \ {{}} :
             \E n \in S : \A e \in Links : e.head = n => e.tail \notin S

\* Only the active root and the inactive ones have no edge into them.
Rooted == \A n \in Nodes \ {Root} : In(n) = {} => nstate[n] = "SKIPPED"

\* The outcome of a run does not depend on the order of the results, nor on
\* that of the edges: when the dispatcher stops, every node of a rooted graph
\* is decided, the nodes that ran are exactly those the selected edges join to
\* the root, and no queue holds a forgotten entry.  (The nodes of a cycle wait
\* for each other: this is about acyclic graphs.)
StopsWhenDone ==
  pc = "stopped" =>
    /\ \A n \in Nodes : InFlight(n) + readyNodes[n] = 0
    /\ Rooted => \A n \in Nodes : IF n \in Reached
                                  THEN chosen[n] # NoHandle
                                  ELSE nstate[n] = "SKIPPED" /\ chosen[n] = NoHandle

\* No wakeup is lost: when the dispatcher stops, a node that was neither run
\* nor skipped has an edge from another such node, so that the chain of waiting
\* nodes starts at one nothing could ever have reached.
NothingLeftWaiting ==
  pc = "stopped" =>
    \A n \in Nodes :
      /\ nstate[n] = "TAKEN" => chosen[n] # NoHandle
      /\ nstate[n] = "UNKNOWN" => In(n) = {} \/ \E e \in In(n) : nstate[e.tail] = "UNKNOWN"

\* The detailed model implements the promise: a node is enabled once it is
\* TAKEN, done once the handler has its result.
StatusOf == [UNKNOWN |-> "waiting", TAKEN |-> "enabled", SKIPPED |-> "skipped"]
Status == [n \in Nodes |-> IF chosen[n] # NoHandle THEN "done" ELSE StatusOf[nstate[n]]]
D == INSTANCE Dataflow WITH status <- Status

\* Every step of the edge processor, the skip propagator and the workers is a
\* step the abstract specification allows.
ImplementsDataflow == D!Spec

\* ... and nothing the promise owes is left undone: a node whose inputs are
\* decided is eventually enabled or skipped.
KeepsPromise == D!FairSpec
-----------------------------------------------------------------------------
\* The inductive invariant, in named parts.

Decided(n) == /\ \A e \in In(n) : estate[e] # "UNKNOWN"
              /\ \E e \in In(n) : estate[e] = "TAKEN"

Settled(n) == nstate[n] = "SKIPPED" \/ chosen[n] # NoHandle

\* Where a node may be, by its mark.
NodeInv ==
  /\ nstate[Root] = "TAKEN"
  /\ \A n \in Nodes :
       /\ InFlight(n) > 0 => nstate[n] = "TAKEN"
       /\ readyNodes[n] > 0 => nstate[n] = "UNKNOWN"
       /\ chosen[n] # NoHandle => nstate[n] = "TAKEN"
       /\ nstate[n] = "TAKEN" /\ chosen[n] = NoHandle => InFlight(n) > 0
       /\ InHandler(n) => chosen[n] # NoHandle

\* Why a node has its mark.
MarkInv ==
  \A n \in Nodes \ {Root} :
    /\ nstate[n] = "TAKEN" \/ readyNodes[n] > 0 => Decided(n)
    /\ nstate[n] = "SKIPPED" => \A e \in In(n) : estate[e] = "SKIPPED"
    /\ /\ nstate[n] = "UNKNOWN"
       /\ readyNodes[n] = 0
       /\ In(n) # {}
       => \E e \in In(n) : estate[e] = "UNKNOWN"

\* Why an edge has its mark, and which edges the handler still owes one.
EdgeInv ==
  \A e \in edges :
    /\ estate[e] = "TAKEN" => /\ chosen[e.tail] # NoHandle
                              /\ Selects(e.tail, chosen[e.tail], e)
    /\ estate[e] = "SKIPPED" => \/ nstate[e.tail] = "SKIPPED"
                                \/ /\ chosen[e.tail] # NoHandle
                                   /\ ~Selects(e.tail, chosen[e.tail], e)
    /\ e \in takeTodo => /\ estate[e] = "UNKNOWN"
                         /\ chosen[e.tail] # NoHandle
                         /\ Selects(e.tail, chosen[e.tail], e)
    /\ e \in skipTodo => /\ estate[e] = "UNKNOWN"
                         /\ \/ nstate[e.tail] = "SKIPPED"
                            \/ /\ chosen[e.tail] # NoHandle
                               /\ ~Selects(e.tail, chosen[e.tail], e)
    /\ Settled(e.tail) /\ estate[e] = "UNKNOWN" => e \in skipTodo \cup takeTodo

\* What each phase of the handler leaves to the next ones.
CallInv ==
  /\ pc # "skip" => skipTodo = {} /\ callStack = <<>>
  /\ pc \notin {"skip", "take"} => takeTodo = {}
  /\ pc \notin {"take", "publish"} => \A n \in Nodes : readyNodes[n] = 0
  /\ \A e \in skipTodo : \E i \in 1..Len(callStack) : callStack[i] = e.tail
  /\ pc = "stopped" => executing = {}

Inv == TypeOK /\ RunsAtMostOnce /\ ExecutingIsExact /\ NodeInv /\ MarkInv /\ EdgeInv /\ CallInv
=============================================================================
