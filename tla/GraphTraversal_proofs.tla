------------------------ MODULE GraphTraversal_proofs ------------------------
(***************************************************************************)
(* Proofs about GraphTraversal, for every set of nodes and every graph:    *)
(* its invariants, that marks are final, and that it implements Dataflow.  *)
(***************************************************************************)
EXTENDS TLAPS, SequenceTheorems, GraphTraversal

\* The endpoints of an edge are nodes, and none enters the root.
LEMMA EdgeEnds ==
  ASSUME TypeOK, NEW e \in edges
  PROVE  /\ e.tail \in Nodes /\ e.head \in Nodes \ {Root}
         /\ e \in In(e.head) /\ e \in Out(e.tail)
BY GraphAssumption DEF TypeOK, In, Out

\* The node below an undecided edge has not been touched: it is in no queue, it
\* has no result, and its own edges are undecided and nobody's business yet.
LEMMA UndecidedHead ==
  ASSUME Inv, NEW e \in edges, estate[e] = "UNKNOWN"
  PROVE  /\ nstate[e.head] = "UNKNOWN"
         /\ chosen[e.head] = NoHandle
         /\ InFlight(e.head) = 0
         /\ readyNodes[e.head] = 0
         /\ ~InHandler(e.head)
         /\ e.head \notin executing
         /\ \A f \in Out(e.head) : /\ estate[f] = "UNKNOWN"
                                   /\ f \notin skipTodo \cup takeTodo
<1> DEFINE h == e.head
<1>0. h \in Nodes \ {Root} /\ e \in In(h)
  BY EdgeEnds DEF Inv
<1>1. nstate[h] # "TAKEN" /\ ~(readyNodes[h] > 0) /\ nstate[h] # "SKIPPED"
  BY <1>0 DEF Inv, MarkInv, Decided
<1>2. nstate[h] = "UNKNOWN"
  BY <1>0, <1>1 DEF Inv, TypeOK, NodeState
<1>3. chosen[h] = NoHandle /\ ~(InFlight(h) > 0) /\ ~InHandler(h)
  BY <1>0, <1>2 DEF Inv, NodeInv
<1>4. InFlight(h) = 0 /\ readyNodes[h] = 0
  BY <1>0, <1>1, <1>3 DEF Inv, TypeOK, InFlight
<1>5. h \notin executing
  BY <1>0, <1>3, <1>4 DEF Inv, ExecutingIsExact
<1>6. ASSUME NEW f \in Out(h)
      PROVE  estate[f] = "UNKNOWN" /\ f \notin skipTodo \cup takeTodo
  <2>1. f \in edges /\ f.tail = h
    BY DEF Out
  <2>2. estate[f] \in NodeState
    BY <2>1 DEF Inv, TypeOK
  <2> QED
    BY <2>1, <2>2, <1>2, <1>3 DEF Inv, EdgeInv, NodeState
<1> QED
  BY <1>2, <1>3, <1>4, <1>5, <1>6

\* What Graph.init leaves behind, in the words of this module.
LEMMA RootMarks ==
  InactiveRootsMarked =>
    \A n \in Nodes \ {Root} :
      In(n) # {} => (nstate[n] = "SKIPPED" <=> \A e \in In(n) : estate[e] = "SKIPPED")
<1>1. \A n : Into(edges, n) = In(n)
  BY DEF Into, In
<1> QED
  BY <1>1, Zenon DEF InactiveRootsMarked, InitiallyMarked

\* One more, or one fewer, of a node in a queue; the other nodes are untouched.
LEMMA OneMore ==
  ASSUME NEW q \in [Nodes -> Nat], NEW n \in Nodes
  PROVE  /\ Plus(q, n) \in [Nodes -> Nat]
         /\ \A m \in Nodes : Plus(q, n)[m] = IF m = n THEN q[m] + 1 ELSE q[m]
BY DEF Plus

LEMMA OneLess ==
  ASSUME NEW q \in [Nodes -> Nat], NEW n \in Nodes, q[n] > 0
  PROVE  /\ Minus(q, n) \in [Nodes -> Nat]
         /\ \A m \in Nodes : Minus(q, n)[m] = IF m = n THEN q[m] - 1 ELSE q[m]
BY DEF Minus

LEMMA InitInv == Init => Inv
<1> SUFFICES ASSUME Init PROVE Inv
  OBVIOUS
<1>1. TypeOK
  BY GraphAssumption DEF Init, TypeOK, NodeState, Marks
<1>2. RunsAtMostOnce /\ ExecutingIsExact
  BY GraphAssumption DEF Init, RunsAtMostOnce, ExecutingIsExact, InFlight, InHandler, Marks
<1>3. NodeInv
  BY GraphAssumption DEF Init, NodeInv, InFlight, InHandler, Marks
<1>4. MarkInv
  <2>1. \A e \in edges : estate[e] = "SKIPPED" \/ estate[e] = "UNKNOWN"
    BY DEF Init
  <2>2. \A n \in Nodes \ {Root} : nstate[n] # "TAKEN" /\ ~(readyNodes[n] > 0)
    BY DEF Init, Marks
  <2>3. \A n \in Nodes \ {Root} :
          nstate[n] = "SKIPPED" => \A e \in In(n) : estate[e] = "SKIPPED"
    <3> SUFFICES ASSUME NEW n \in Nodes \ {Root}, nstate[n] = "SKIPPED", NEW e \in In(n)
        PROVE  estate[e] = "SKIPPED"
      OBVIOUS
    <3> QED
      BY RootMarks DEF Init
  <2>4. \A n \in Nodes \ {Root} :
          nstate[n] = "UNKNOWN" /\ In(n) # {} => \E e \in In(n) : estate[e] = "UNKNOWN"
    <3> SUFFICES ASSUME NEW n \in Nodes \ {Root}, nstate[n] = "UNKNOWN", In(n) # {}
        PROVE  \E e \in In(n) : estate[e] = "UNKNOWN"
      OBVIOUS
    <3>1. ~ \A e \in In(n) : estate[e] = "SKIPPED"
      BY RootMarks DEF Init
    <3> QED
      BY <2>1, <3>1 DEF In
  <2> QED
    BY <2>2, <2>3, <2>4 DEF MarkInv
<1>5. EdgeInv
  <2> SUFFICES ASSUME NEW e \in edges
      PROVE  /\ estate[e] # "TAKEN" /\ skipTodo = {} /\ takeTodo = {}
             /\ chosen[e.tail] = NoHandle
             /\ estate[e] = "SKIPPED" <=> nstate[e.tail] = "SKIPPED"
    BY DEF EdgeInv, Settled
  <2>1. e.tail \in Nodes
    BY <1>1, EdgeEnds
  <2> QED
    BY <2>1 DEF Init, InactiveRootsMarked, InitiallyMarked, Marks
<1>6. CallInv
  BY DEF Init, CallInv, Marks
<1> QED
  BY <1>1, <1>2, <1>3, <1>4, <1>5, <1>6 DEF Inv

LEMMA WorkerTakeInv ==
  ASSUME Inv, NEW n \in Nodes, WorkerTake(n) PROVE Inv'
<1> USE DEF WorkerTake, graphVars, callVars
<1>0. /\ ready \in [Nodes -> Nat] /\ running \in [Nodes -> Nat] /\ results \in [Nodes -> Nat]
      /\ ready' \in [Nodes -> Nat]
      /\ \A m \in Nodes : ready'[m] = IF m = n THEN ready[m] - 1 ELSE ready[m]
      /\ running' \in [Nodes -> Nat]
      /\ \A m \in Nodes : running'[m] = IF m = n THEN running[m] + 1 ELSE running[m]
  <2>1. /\ ready \in [Nodes -> Nat] /\ running \in [Nodes -> Nat] /\ results \in [Nodes -> Nat]
        /\ ready[n] > 0 /\ ready' = Minus(ready, n) /\ running' = Plus(running, n)
    BY DEF Inv, TypeOK
  <2> QED
    BY ONLY <2>1, OneMore, OneLess
<1>1. TypeOK'
  BY <1>0 DEF Inv, TypeOK
<1>2. \A m \in Nodes : InFlight(m)' = InFlight(m)
  BY <1>0 DEF InFlight
<1>3. RunsAtMostOnce' /\ ExecutingIsExact'
  BY <1>2 DEF Inv, RunsAtMostOnce, ExecutingIsExact, InHandler
<1>4. NodeInv'
  BY <1>2 DEF Inv, NodeInv, InHandler
<1>5. MarkInv' /\ EdgeInv' /\ CallInv'
  BY DEF Inv, MarkInv, EdgeInv, CallInv, Decided, Settled, In
<1> QED
  BY <1>1, <1>3, <1>4, <1>5 DEF Inv

LEMMA WorkerPutInv ==
  ASSUME Inv, NEW n \in Nodes, WorkerPut(n) PROVE Inv'
<1> USE DEF WorkerPut, graphVars, callVars
<1>0. /\ ready \in [Nodes -> Nat] /\ running \in [Nodes -> Nat] /\ results \in [Nodes -> Nat]
      /\ running' \in [Nodes -> Nat]
      /\ \A m \in Nodes : running'[m] = IF m = n THEN running[m] - 1 ELSE running[m]
      /\ results' \in [Nodes -> Nat]
      /\ \A m \in Nodes : results'[m] = IF m = n THEN results[m] + 1 ELSE results[m]
  <2>1. /\ ready \in [Nodes -> Nat] /\ running \in [Nodes -> Nat] /\ results \in [Nodes -> Nat]
        /\ running[n] > 0 /\ running' = Minus(running, n) /\ results' = Plus(results, n)
    BY DEF Inv, TypeOK
  <2> QED
    BY ONLY <2>1, OneMore, OneLess
<1>1. TypeOK'
  BY <1>0 DEF Inv, TypeOK
<1>2. \A m \in Nodes : InFlight(m)' = InFlight(m)
  BY <1>0 DEF InFlight
<1>3. RunsAtMostOnce' /\ ExecutingIsExact'
  BY <1>2 DEF Inv, RunsAtMostOnce, ExecutingIsExact, InHandler
<1>4. NodeInv'
  BY <1>2 DEF Inv, NodeInv, InHandler
<1>5. MarkInv' /\ EdgeInv' /\ CallInv'
  BY DEF Inv, MarkInv, EdgeInv, CallInv, Decided, Settled, In
<1> QED
  BY <1>1, <1>3, <1>4, <1>5 DEF Inv

LEMMA DispatchInv ==
  ASSUME Inv, NEW n \in Nodes, NEW h \in Handles, Dispatch(n, h) PROVE Inv'
<1> USE DEF Dispatch, graphVars
<1>1. /\ nstate[n] = "TAKEN" /\ chosen[n] = NoHandle /\ InFlight(n) = 1
      /\ \A m \in Nodes : ~InHandler(m) /\ readyNodes[m] = 0
      /\ skipTodo = {} /\ takeTodo = {}
  BY DEF Inv, TypeOK, RunsAtMostOnce, NodeInv, CallInv, InFlight, InHandler
<1>2. /\ h # NoHandle
      /\ chosen' \in [Nodes -> Handles \cup {NoHandle}]
      /\ \A m \in Nodes : chosen'[m] = IF m = n THEN h ELSE chosen[m]
  BY GraphAssumption DEF Inv, TypeOK
<1>3. /\ results' \in [Nodes -> Nat]
      /\ \A m \in Nodes : InFlight(m)' = IF m = n THEN 0 ELSE InFlight(m)
  <2>1. ready[n] = 0 /\ running[n] = 0 /\ results[n] = 1
    BY <1>1 DEF Inv, TypeOK, InFlight
  <2>2. /\ results' \in [Nodes -> Nat]
        /\ \A m \in Nodes : results'[m] = IF m = n THEN 0 ELSE results[m]
    BY <2>1 DEF Inv, TypeOK, Minus
  <2> QED
    BY <2>1, <2>2 DEF InFlight
<1>4. \A m \in Nodes : InHandler(m)' <=> m = n
  BY DEF InHandler
<1>5. /\ skipTodo' = {e \in edges : e.tail = n /\ ~Selects(n, h, e)}
      /\ takeTodo' = {e \in edges : e.tail = n /\ Selects(n, h, e)}
  BY DEF Unselected, Selected, Out
<1>6. TypeOK'
  BY <1>2, <1>3, <1>5 DEF Inv, TypeOK
<1>7. RunsAtMostOnce' /\ ExecutingIsExact'
  BY <1>1, <1>2, <1>3, <1>4 DEF Inv, RunsAtMostOnce, ExecutingIsExact
<1>8. NodeInv'
  BY <1>1, <1>2, <1>3, <1>4 DEF Inv, NodeInv
<1>9. MarkInv'
  BY DEF Inv, MarkInv, Decided, In
<1>10. EdgeInv'
  <2> SUFFICES ASSUME NEW e \in edges PROVE EdgeInv!(e)'
    BY DEF EdgeInv
  <2>1. e.tail \in Nodes
    BY EdgeEnds DEF Inv
  <2>2. CASE e.tail = n
    <3>1. estate[e] = "UNKNOWN"
      BY <1>1, <2>2 DEF Inv, TypeOK, EdgeInv, NodeState
    <3> QED
      BY <1>2, <1>5, <2>1, <2>2, <3>1 DEF Settled, Selects
  <2>3. CASE e.tail # n
    BY <1>1, <1>2, <1>5, <2>1, <2>3 DEF Inv, EdgeInv, Settled, Selects
  <2> QED
    BY <2>2, <2>3
<1>11. CallInv'
  <2>1. n \in Branches => callStack' = <<n>>
    OBVIOUS
  <2>2. n \notin Branches => skipTodo' = {}
    BY <1>5 DEF Selects
  <2> QED
    BY <1>1, <1>5, <2>1, <2>2 DEF CallInv
<1> QED
  BY <1>6, <1>7, <1>8, <1>9, <1>10, <1>11 DEF Inv

LEMMA SkipReturnInv ==
  ASSUME Inv, SkipReturn PROVE Inv'
<1> USE DEF SkipReturn, graphVars, queueVars
<1>1. /\ TypeOK'
      /\ Len(callStack') = Len(callStack) - 1
      /\ \A i \in 1..Len(callStack') : callStack'[i] = callStack[i]
  <2> DEFINE k == Len(callStack) - 1
  <2>1. callStack \in Seq(Nodes) /\ k \in Nat
    BY EmptySeq DEF Inv, TypeOK
  <2>2. \A i \in 1..k : callStack[i] \in Nodes
    BY <2>1, ElementOfSeq
  <2>3. /\ SubSeq(callStack, 1, k) \in Seq(Nodes)
        /\ Len(SubSeq(callStack, 1, k)) = IF 1 <= k THEN k - 1 + 1 ELSE 0
        /\ \A i \in 1..(k - 1 + 1) : SubSeq(callStack, 1, k)[i] = callStack[1 + i - 1]
    BY <2>1, <2>2, SubSeqProperties
  <2>4. callStack' = SubSeq(callStack, 1, k)
    OBVIOUS
  <2> HIDE DEF k
  <2>5. /\ callStack' \in Seq(Nodes)
        /\ Len(callStack') = k
        /\ \A i \in 1..k : callStack'[i] = callStack[i]
    <3>1. callStack' \in Seq(Nodes) /\ Len(callStack') = k
      <4>1. (IF 1 <= k THEN k - 1 + 1 ELSE 0) = k
        BY <2>1
      <4> QED
        BY <2>3, <2>4, <4>1
    <3>2. ASSUME NEW i \in 1..k PROVE callStack'[i] = callStack[i]
      <4>1. i \in 1..(k - 1 + 1) /\ 1 + i - 1 = i
        BY <2>1
      <4> QED
        BY <2>3, <2>4, <4>1
    <3> QED
      BY <3>1, <3>2
  <2> QED
    BY <2>5 DEF k, Inv, TypeOK
<1>2. /\ RunsAtMostOnce' /\ ExecutingIsExact' /\ NodeInv' /\ MarkInv' /\ EdgeInv'
  BY DEF Inv, RunsAtMostOnce, ExecutingIsExact, NodeInv, MarkInv, EdgeInv,
         InFlight, InHandler, Decided, Settled, In
<1>3. ASSUME NEW e \in skipTodo'
      PROVE  \E i \in 1..Len(callStack') : callStack'[i] = e.tail
  <2>1. PICK i \in 1..Len(callStack) : callStack[i] = e.tail
    BY DEF Inv, CallInv
  <2>2. i # Len(callStack)
    BY <2>1
  <2>3. i \in 1..Len(callStack') /\ callStack'[i] = callStack[i]
    <3>1. Len(callStack) \in Nat
      BY LenProperties DEF Inv, TypeOK
    <3> QED
      BY <1>1, <2>1, <2>2, <3>1
  <2> QED
    BY <2>1, <2>3
<1>4. CallInv'
  BY <1>3 DEF Inv, CallInv
<1> QED
  BY <1>1, <1>2, <1>4 DEF Inv

\* The second marking of the unselected edges finds all of them marked.
LEMMA UnselectedMarked ==
  ASSUME Inv, pc = "skip", callStack = <<>>, NEW e \in Unselected(cur, chosen[cur])
  PROVE  e \in edges /\ estate[e] = "SKIPPED"
<1>1. e \in edges /\ e.tail = cur /\ ~Selects(cur, chosen[cur], e)
  BY DEF Unselected, Selected, Out
<1>2. skipTodo = {}
  BY DEF Inv, CallInv
<1>3. chosen[cur] # NoHandle
  BY DEF Inv, TypeOK, NodeInv, InHandler
<1>4. e \notin takeTodo /\ estate[e] # "TAKEN"
  BY <1>1 DEF Inv, EdgeInv
<1>5. estate[e] # "UNKNOWN"
  BY <1>1, <1>2, <1>3, <1>4 DEF Inv, EdgeInv, Settled
<1> QED
  BY <1>1, <1>4, <1>5 DEF Inv, TypeOK, NodeState

LEMMA BranchPathsSkippedInv ==
  ASSUME Inv, BranchPathsSkipped PROVE Inv' /\ estate' = estate
<1> USE DEF BranchPathsSkipped, queueVars
<1>1. estate' = estate
  BY UnselectedMarked DEF Inv, TypeOK
<1>2. TypeOK'
  BY <1>1 DEF Inv, TypeOK
<1>3. /\ RunsAtMostOnce' /\ ExecutingIsExact' /\ NodeInv' /\ MarkInv' /\ EdgeInv'
  BY <1>1 DEF Inv, RunsAtMostOnce, ExecutingIsExact, NodeInv, MarkInv, EdgeInv,
         InFlight, InHandler, Decided, Settled, In
<1>4. CallInv'
  BY DEF Inv, CallInv
<1> QED
  BY <1>1, <1>2, <1>3, <1>4 DEF Inv

LEMMA TakeEdgeInv ==
  ASSUME Inv, NEW e \in edges, TakeEdge(e) PROVE Inv'
<1> USE DEF TakeEdge, queueVars
<1> DEFINE h == e.head
<1>1. /\ h \in Nodes \ {Root} /\ e \in In(h) /\ e.tail \in Nodes
      /\ estate[e] = "UNKNOWN"
      /\ \A m \in Nodes : InFlight(m)' = InFlight(m) /\ (InHandler(m)' <=> InHandler(m))
  BY EdgeEnds DEF Inv, EdgeInv, InFlight, InHandler
<1>2. /\ nstate[h] = "UNKNOWN" /\ InFlight(h) = 0 /\ readyNodes[h] = 0
      /\ ~InHandler(h) /\ chosen[h] = NoHandle
  BY <1>1, UndecidedHead
<1>3. /\ estate' \in [edges -> NodeState]
      /\ \A f \in edges : estate'[f] = IF f = e THEN "TAKEN" ELSE estate[f]
  BY DEF Inv, TypeOK, NodeState
<1>4. IsNodeReady(estate', h) <=> Decided(h)'
  BY <1>1 DEF IsNodeReady, Decided, In
<1>5. /\ readyNodes' \in [Nodes -> Nat]
      /\ \A m \in Nodes : m # h => readyNodes'[m] = readyNodes[m]
      /\ Decided(h)' => readyNodes'[h] = 1
      /\ ~Decided(h)' => readyNodes'[h] = 0
  <2>1. CASE IsNodeReady(estate', h)
    BY <1>1, <1>2, <1>4, <2>1 DEF Inv, TypeOK, Plus
  <2>2. CASE ~IsNodeReady(estate', h)
    BY <1>1, <1>2, <1>4, <2>2 DEF Inv, TypeOK
  <2> QED
    BY <2>1, <2>2
<1>6. TypeOK'
  BY <1>3, <1>5 DEF Inv, TypeOK
<1>7. RunsAtMostOnce'
  <2>1. readyNodes'[h] <= 1
    BY <1>1, <1>5
  <2>2. InFlight(h)' + readyNodes'[h] + (IF InHandler(h)' THEN 1 ELSE 0) <= 1
    BY <1>1, <1>2, <1>5, <2>1
  <2>3. \A m \in Nodes \ {h} :
          /\ InFlight(m)' + readyNodes'[m] + (IF InHandler(m)' THEN 1 ELSE 0) <= 1
          /\ chosen'[m] # NoHandle => InFlight(m)' + readyNodes'[m] = 0
    BY <1>1, <1>5 DEF Inv, RunsAtMostOnce
  <2> QED
    BY <1>2, <2>2, <2>3 DEF RunsAtMostOnce
<1>8. ExecutingIsExact'
  BY <1>1 DEF Inv, ExecutingIsExact
<1>9. NodeInv'
  BY <1>1, <1>2, <1>5 DEF Inv, NodeInv
<1>10. MarkInv'
  <2> SUFFICES ASSUME NEW n \in Nodes \ {Root} PROVE MarkInv!(n)'
    BY DEF MarkInv
  <2>1. In(n)' = In(n)
    BY DEF In
  <2>2. CASE n = h
    <3>1. Decided(h)' \/ \E f \in In(h) : estate'[f] = "UNKNOWN"
      BY <1>1, <1>3, <2>1, <2>2 DEF Decided, In
    <3>2. CASE Decided(h)'
      BY <1>2, <1>5, <2>2, <3>2
    <3>3. CASE ~Decided(h)'
      BY <1>2, <1>5, <2>1, <2>2, <3>1, <3>3
    <3> QED
      BY <3>2, <3>3
  <2>3. CASE n # h
    <3>1. \A f \in In(n) : f \in edges /\ estate'[f] = estate[f]
      BY <1>3, <2>3 DEF In
    <3>2. Decided(n)' <=> Decided(n)
      BY <2>1, <3>1 DEF Decided
    <3>3. readyNodes'[n] = readyNodes[n] /\ nstate'[n] = nstate[n]
      BY <1>5, <2>3
    <3>4. MarkInv!(n)
      BY DEF Inv, MarkInv
    <3> QED
      BY <2>1, <3>1, <3>2, <3>3, <3>4
  <2> QED
    BY <2>2, <2>3
<1>11. EdgeInv'
  <2> SUFFICES ASSUME NEW f \in edges PROVE EdgeInv!(f)'
    BY DEF EdgeInv
  <2>1. EdgeInv!(f)
    BY DEF Inv, EdgeInv
  <2>2. skipTodo' = {}
    BY DEF Inv, CallInv
  <2>3. CASE f = e
    BY <1>3, <2>1, <2>2, <2>3 DEF Settled, Selects
  <2>4. CASE f # e
    BY <1>3, <2>1, <2>2, <2>4 DEF Settled, Selects
  <2> QED
    BY <2>3, <2>4
<1>12. CallInv'
  BY <1>1 DEF Inv, CallInv
<1> QED
  BY <1>6, <1>7, <1>8, <1>9, <1>10, <1>11, <1>12 DEF Inv

LEMMA EdgesTakenInv ==
  ASSUME Inv, EdgesTaken PROVE Inv'
<1> USE DEF EdgesTaken, graphVars, queueVars
<1>1. TypeOK'
  BY DEF Inv, TypeOK
<1>2. /\ RunsAtMostOnce' /\ ExecutingIsExact' /\ NodeInv' /\ MarkInv' /\ EdgeInv'
  BY DEF Inv, RunsAtMostOnce, ExecutingIsExact, NodeInv, MarkInv, EdgeInv,
         InFlight, InHandler, Decided, Settled, In
<1>3. CallInv'
  BY DEF Inv, CallInv
<1> QED
  BY <1>1, <1>2, <1>3 DEF Inv

LEMMA PublishInv ==
  ASSUME Inv, NEW n \in Nodes, Publish(n) PROVE Inv'
<1> USE DEF Publish
<1>1. /\ readyNodes[n] = 1 /\ InFlight(n) = 0 /\ ~InHandler(n)
      /\ nstate[n] = "UNKNOWN" /\ chosen[n] = NoHandle /\ n # Root
  <2>1. nstate[n] = "UNKNOWN" /\ n # Root /\ ~(InFlight(n) > 0) /\ chosen[n] = NoHandle
    BY DEF Inv, NodeInv
  <2>2. ~InHandler(n)
    BY <2>1 DEF Inv, NodeInv
  <2>3. readyNodes[n] = 1 /\ InFlight(n) = 0
    BY <2>1, <2>2 DEF Inv, TypeOK, RunsAtMostOnce, InFlight
  <2> QED
    BY <2>1, <2>2, <2>3
<1>2. /\ readyNodes' \in [Nodes -> Nat]
      /\ \A m \in Nodes : readyNodes'[m] = IF m = n THEN 0 ELSE readyNodes[m]
  BY <1>1 DEF Inv, TypeOK, Minus
<1>3. /\ nstate' \in [Nodes -> NodeState]
      /\ \A m \in Nodes : nstate'[m] = IF m = n THEN "TAKEN" ELSE nstate[m]
  BY DEF Inv, TypeOK, NodeState
<1>4. /\ ready' \in [Nodes -> Nat]
      /\ \A m \in Nodes : InFlight(m)' = IF m = n THEN 1 ELSE InFlight(m)
  BY <1>1 DEF Inv, TypeOK, Plus, InFlight
<1>5. \A m \in Nodes : InHandler(m)' <=> InHandler(m)
  BY DEF InHandler
<1>6. TypeOK'
  BY <1>2, <1>3, <1>4 DEF Inv, TypeOK
<1>7. RunsAtMostOnce' /\ ExecutingIsExact'
  BY <1>1, <1>2, <1>4, <1>5 DEF Inv, RunsAtMostOnce, ExecutingIsExact
<1>8. NodeInv'
  BY <1>1, <1>2, <1>3, <1>4, <1>5 DEF Inv, NodeInv
<1>9. MarkInv'
  BY <1>1, <1>2, <1>3 DEF Inv, MarkInv, Decided, In
<1>10. EdgeInv'
  BY <1>1, <1>3, EdgeEnds DEF Inv, EdgeInv, Settled
<1>11. CallInv'
  BY DEF Inv, CallInv
<1> QED
  BY <1>6, <1>7, <1>8, <1>9, <1>10, <1>11 DEF Inv

LEMMA FinishHandlerInv ==
  ASSUME Inv, FinishHandler PROVE Inv'
<1> USE DEF FinishHandler, graphVars
<1>1. /\ InFlight(cur) = 0
      /\ \A m \in Nodes : /\ InFlight(m)' = InFlight(m)
                          /\ ~InHandler(m)'
                          /\ m # cur => ~InHandler(m)
                          /\ readyNodes[m] = 0
  <2>1. InHandler(cur) /\ cur \in Nodes
    BY DEF Inv, TypeOK, InHandler
  <2>2. InFlight(cur) = 0
    BY <2>1 DEF Inv, TypeOK, NodeInv, RunsAtMostOnce, InFlight
  <2>3. \A m \in Nodes : readyNodes[m] = 0
    BY DEF Marks
  <2> QED
    BY <2>2, <2>3 DEF InFlight, InHandler
<1>2. TypeOK'
  BY DEF Inv, TypeOK
<1>3. RunsAtMostOnce'
  <2> SUFFICES ASSUME NEW n \in Nodes PROVE RunsAtMostOnce!(n)'
    BY DEF RunsAtMostOnce
  <2>1. InFlight(n) \in Nat
    BY DEF Inv, TypeOK, InFlight
  <2> QED
    BY <1>1, <2>1 DEF Inv, RunsAtMostOnce
<1>6. ExecutingIsExact'
  BY <1>1 DEF Inv, TypeOK, ExecutingIsExact
<1>4. NodeInv' /\ MarkInv' /\ EdgeInv'
  BY <1>1 DEF Inv, NodeInv, MarkInv, EdgeInv, Decided, Settled, In
<1>5. CallInv'
  BY <1>1 DEF Inv, CallInv
<1> QED
  BY <1>2, <1>3, <1>4, <1>5, <1>6 DEF Inv

LEMMA CompleteInv ==
  ASSUME Inv, Complete PROVE Inv'
<1> USE DEF Complete, graphVars, queueVars
<1>1. TypeOK'
  BY DEF Inv, TypeOK
<1>2. /\ RunsAtMostOnce' /\ ExecutingIsExact' /\ NodeInv' /\ MarkInv' /\ EdgeInv'
  BY DEF Inv, RunsAtMostOnce, ExecutingIsExact, NodeInv, MarkInv, EdgeInv,
         InFlight, InHandler, Decided, Settled, In
<1>3. CallInv'
  BY DEF Inv, CallInv
<1> QED
  BY <1>1, <1>2, <1>3 DEF Inv

\* What holds of the node below the edge the skip propagation visits, before
\* and after that edge is marked, whatever happens to the node then.
LEMMA SkipEdgeFacts ==
  ASSUME Inv, NEW e \in edges, SkipEdge(e)
  PROVE  /\ e.head \in Nodes \ {Root} /\ e \in In(e.head) /\ e.tail \in Nodes
         /\ estate[e] = "UNKNOWN"
         /\ nstate[e.head] = "UNKNOWN" /\ InFlight(e.head) = 0
         /\ readyNodes[e.head] = 0 /\ ~InHandler(e.head)
         /\ chosen[e.head] = NoHandle /\ e.head \notin executing
         /\ e.tail # e.head
         /\ estate' \in [edges -> NodeState]
         /\ \A f \in edges : estate'[f] = IF f = e THEN "SKIPPED" ELSE estate[f]
         /\ \A n \in Nodes : InHandler(n)' <=> InHandler(n)
         /\ takeTodo' = takeTodo
<1> USE DEF SkipEdge
<1>1. e.head \in Nodes \ {Root} /\ e \in In(e.head) /\ e.tail \in Nodes
  BY EdgeEnds DEF Inv
<1>2. estate[e] = "UNKNOWN" /\ Settled(e.tail)
  BY DEF Inv, EdgeInv, Settled
<1>3. /\ nstate[e.head] = "UNKNOWN" /\ InFlight(e.head) = 0
      /\ readyNodes[e.head] = 0 /\ ~InHandler(e.head)
      /\ chosen[e.head] = NoHandle /\ e.head \notin executing
  BY <1>1, <1>2, UndecidedHead
<1>4. e.tail # e.head
  BY <1>2, <1>3 DEF Settled
<1>5. /\ estate' \in [edges -> NodeState]
      /\ \A f \in edges : estate'[f] = IF f = e THEN "SKIPPED" ELSE estate[f]
  BY DEF Inv, TypeOK, NodeState
<1>6. \A n \in Nodes : InHandler(n)' <=> InHandler(n)
  BY DEF InHandler
<1> QED
  BY <1>1, <1>2, <1>3, <1>4, <1>5, <1>6

\* The part of MarkInv an edge's mark cannot disturb: the nodes it does not enter.
LEMMA OtherHeads ==
  ASSUME Inv, NEW e \in edges, NEW s,
         \A f \in edges : f # e => estate'[f] = estate[f],
         edges' = edges, NEW n \in Nodes \ {Root}, n # e.head,
         nstate'[n] = nstate[n], readyNodes'[n] = readyNodes[n]
  PROVE  MarkInv!(n)'
<1>1. In(n)' = In(n)
  BY DEF In
<1>2. \A f \in In(n) : estate'[f] = estate[f]
  BY DEF In
<1>3. Decided(n)' <=> Decided(n)
  BY <1>1, <1>2 DEF Decided
<1>4. MarkInv!(n)
  BY DEF Inv, MarkInv
<1> QED
  BY <1>1, <1>2, <1>3, <1>4

LEMMA SkipEdgeInv ==
  ASSUME Inv, NEW e \in edges, SkipEdge(e) PROVE Inv'
<1> USE DEF SkipEdge
<1> DEFINE h == e.head
<1>a. h \in Nodes \ {Root} /\ e \in In(h) /\ e.tail \in Nodes
  BY SkipEdgeFacts
<1>b. /\ nstate[h] = "UNKNOWN" /\ InFlight(h) = 0 /\ readyNodes[h] = 0
      /\ ~InHandler(h) /\ chosen[h] = NoHandle /\ h \notin executing
  BY SkipEdgeFacts
<1>c. /\ estate' \in [edges -> NodeState]
      /\ \A f \in edges : estate'[f] = IF f = e THEN "SKIPPED" ELSE estate[f]
  BY SkipEdgeFacts
<1>d. \A n \in Nodes : InHandler(n)' <=> InHandler(n)
  BY SkipEdgeFacts
<1>e. estate[e] = "UNKNOWN" /\ e.tail # h /\ e \notin takeTodo
  BY SkipEdgeFacts DEF Inv, EdgeInv, NodeInv
<1>1. In(h)' = In(h) /\ \A n \in Nodes : In(n)' = In(n)
  BY DEF In
<1>2. CASE HasUnknown(estate', h)
  <2>1. /\ nstate' = nstate /\ ready' = ready /\ executing' = executing
        /\ callStack' = callStack /\ skipTodo' = skipTodo \ {e}
    BY <1>2
  <2>2. TypeOK'
    BY <1>c, <2>1 DEF Inv, TypeOK
  <2>3. RunsAtMostOnce' /\ ExecutingIsExact' /\ NodeInv'
    BY <2>1 DEF Inv, RunsAtMostOnce, ExecutingIsExact, NodeInv, InFlight, InHandler
  <2>4. MarkInv'
    <3> SUFFICES ASSUME NEW n \in Nodes \ {Root} PROVE MarkInv!(n)'
      BY DEF MarkInv
    <3>1. CASE n = h
      <4>1. \E f \in In(h) : estate'[f] = "UNKNOWN"
        BY <1>1, <1>2 DEF HasUnknown, In
      <4>2. nstate'[h] = "UNKNOWN" /\ readyNodes'[h] = 0
        BY <1>b, <2>1
      <4> QED
        BY <1>1, <3>1, <4>1, <4>2
    <3>2. CASE n # h
      BY <1>c, <2>1, <3>2, OtherHeads
    <3> QED
      BY <3>1, <3>2
  <2>5. EdgeInv'
    <3> SUFFICES ASSUME NEW f \in edges PROVE EdgeInv!(f)'
      BY DEF EdgeInv
    <3>1. EdgeInv!(f)
      BY DEF Inv, EdgeInv
    <3> QED
      BY <1>c, <1>e, <2>1, <3>1 DEF Settled, Selects
  <2>6. CallInv'
    BY <2>1 DEF Inv, CallInv
  <2> QED
    BY <2>2, <2>3, <2>4, <2>5, <2>6 DEF Inv
<1>3. CASE ~HasUnknown(estate', h) /\ HasTaken(estate', h)
  <2>1. /\ nstate' = [nstate EXCEPT ![h] = "TAKEN"]
        /\ ready' = Plus(ready, h)
        /\ executing' = executing \cup {h}
        /\ callStack' = callStack /\ skipTodo' = skipTodo \ {e}
    BY <1>3
  <2>2. /\ ready' \in [Nodes -> Nat]
        /\ \A n \in Nodes : InFlight(n)' = IF n = h THEN 1 ELSE InFlight(n)
    <3>0. ready[h] \in Nat /\ running[h] \in Nat /\ results[h] \in Nat
      BY <1>a DEF Inv, TypeOK
    <3>1. ready[h] = 0 /\ running[h] = 0 /\ results[h] = 0
      BY <1>b, <3>0 DEF InFlight
    <3>2. /\ ready' \in [Nodes -> Nat]
          /\ \A n \in Nodes : ready'[n] = IF n = h THEN 1 ELSE ready[n]
      <4>1. ready \in [Nodes -> Nat] /\ ready' = Plus(ready, h)
        BY <2>1 DEF Inv, TypeOK
      <4> QED
        BY ONLY <1>a, <3>1, <4>1, OneMore
    <3>3. running' = running /\ results' = results
      OBVIOUS
    <3> QED
      BY <3>1, <3>2, <3>3 DEF InFlight
  <2>3. /\ nstate' \in [Nodes -> NodeState]
        /\ \A n \in Nodes : nstate'[n] = IF n = h THEN "TAKEN" ELSE nstate[n]
    BY <1>a, <2>1 DEF Inv, TypeOK, NodeState
  <2>4. TypeOK'
    BY <1>a, <1>c, <2>1, <2>2, <2>3 DEF Inv, TypeOK
  <2>5. RunsAtMostOnce'
    BY <1>b, <1>d, <2>2 DEF Inv, RunsAtMostOnce
  <2>6. ExecutingIsExact'
    <3>1. \A n \in Nodes : n \in executing' <=> n = h \/ n \in executing
      BY <1>a, <2>1
    <3>2. \A n \in Nodes : InFlight(n)' > 0 <=> n = h \/ InFlight(n) > 0
      BY <1>b, <2>2
    <3>3. executing \subseteq Nodes /\ executing' \subseteq Nodes
      BY <1>a, <2>1 DEF Inv, TypeOK
    <3> QED
      BY <1>d, <3>1, <3>2, <3>3 DEF Inv, ExecutingIsExact
  <2>7. NodeInv'
    <3> SUFFICES ASSUME NEW n \in Nodes
        PROVE  nstate'[Root] = "TAKEN" /\ NodeInv!2!(n)'
      BY GraphAssumption DEF NodeInv
    <3>1. nstate[Root] = "TAKEN" /\ NodeInv!2!(n)
      BY DEF Inv, NodeInv
    <3>2. nstate'[Root] = "TAKEN"
      BY <1>a, <2>3, <3>1, GraphAssumption
    <3>3. CASE n = h
      BY <1>a, <1>b, <1>d, <2>2, <2>3, <3>2, <3>3
    <3>4. CASE n # h
      BY <1>d, <2>2, <2>3, <3>1, <3>2, <3>4
    <3> QED
      BY <3>3, <3>4
  <2>8. MarkInv'
    <3> SUFFICES ASSUME NEW n \in Nodes \ {Root} PROVE MarkInv!(n)'
      BY DEF MarkInv
    <3>1. CASE n = h
      <4>1. Decided(h)'
        BY <1>1, <1>3 DEF HasUnknown, HasTaken, Decided, In
      <4>2. nstate'[h] = "TAKEN"
        BY <1>a, <2>3
      <4> QED
        BY <3>1, <4>1, <4>2
    <3>2. CASE n # h
      BY <1>a, <1>c, <2>3, <3>2, OtherHeads
    <3> QED
      BY <3>1, <3>2
  <2>9. EdgeInv'
    <3> SUFFICES ASSUME NEW f \in edges PROVE EdgeInv!(f)'
      BY DEF EdgeInv
    <3>1. EdgeInv!(f)
      BY DEF Inv, EdgeInv
    <3>3. f.tail \in Nodes /\ (nstate'[f.tail] = "SKIPPED" <=> nstate[f.tail] = "SKIPPED")
      BY <1>b, <2>3, EdgeEnds DEF Inv
    <3> QED
      BY <1>c, <1>e, <2>1, <3>1, <3>3 DEF Settled, Selects
  <2>10. CallInv'
    BY <2>1 DEF Inv, CallInv
  <2> QED
    BY <2>4, <2>5, <2>6, <2>7, <2>8, <2>9, <2>10 DEF Inv
<1>4. CASE ~HasUnknown(estate', h) /\ ~HasTaken(estate', h)
  <2>1. /\ nstate' = [nstate EXCEPT ![h] = "SKIPPED"]
        /\ ready' = ready /\ executing' = executing
        /\ callStack' = Append(callStack, h)
        /\ skipTodo' = (skipTodo \ {e}) \cup Out(h)
    BY <1>4
  <2>2. /\ nstate' \in [Nodes -> NodeState]
        /\ \A n \in Nodes : nstate'[n] = IF n = h THEN "SKIPPED" ELSE nstate[n]
    BY <1>a, <2>1 DEF Inv, TypeOK, NodeState
  <2>3. TypeOK'
    <3>1. callStack' \in Seq(Nodes)
      BY <1>a, <2>1, AppendProperties DEF Inv, TypeOK
    <3>2. skipTodo' \subseteq edges
      BY <2>1 DEF Inv, TypeOK, Out
    <3> QED
      BY <1>c, <2>1, <2>2, <3>1, <3>2 DEF Inv, TypeOK
  <2>4. \A n \in Nodes : InFlight(n)' = InFlight(n)
    BY <2>1 DEF InFlight
  <2>5. RunsAtMostOnce' /\ ExecutingIsExact'
    BY <1>d, <2>1, <2>4 DEF Inv, RunsAtMostOnce, ExecutingIsExact
  <2>6. NodeInv'
    <3> SUFFICES ASSUME NEW n \in Nodes
        PROVE  nstate'[Root] = "TAKEN" /\ NodeInv!2!(n)'
      BY GraphAssumption DEF NodeInv
    <3>1. nstate[Root] = "TAKEN" /\ NodeInv!2!(n)
      BY DEF Inv, NodeInv
    <3>2. nstate'[Root] = "TAKEN"
      BY <1>a, <2>2, <3>1, GraphAssumption
    <3>3. CASE n = h
      BY <1>a, <1>b, <1>d, <2>2, <2>4, <3>2, <3>3
    <3>4. CASE n # h
      BY <1>d, <2>2, <2>4, <3>1, <3>2, <3>4
    <3> QED
      BY <3>3, <3>4
  <2>7. MarkInv'
    <3> SUFFICES ASSUME NEW n \in Nodes \ {Root} PROVE MarkInv!(n)'
      BY DEF MarkInv
    <3>1. CASE n = h
      <4>1. \A f \in In(h) : estate'[f] = "SKIPPED"
        BY <1>1, <1>4, <1>c DEF HasUnknown, HasTaken, In, NodeState
      <4>2. nstate'[h] = "SKIPPED" /\ readyNodes'[h] = 0
        BY <1>a, <1>b, <2>2
      <4> QED
        BY <1>1, <3>1, <4>1, <4>2
    <3>2. CASE n # h
      BY <1>a, <1>c, <2>2, <3>2, OtherHeads
    <3> QED
      BY <3>1, <3>2
  <2>8. EdgeInv'
    <3> SUFFICES ASSUME NEW f \in edges PROVE EdgeInv!(f)'
      BY DEF EdgeInv
    <3>1. EdgeInv!(f) /\ f.tail \in Nodes
      BY EdgeEnds DEF Inv, EdgeInv
    <3>2. e \notin takeTodo /\ e \notin Out(h)
      BY <1>e DEF Out
    <3>3. CASE f.tail = h
      <4>1. f \in Out(h) /\ f # e
        BY <3>2, <3>3 DEF Out
      <4>2. estate'[f] = "UNKNOWN" /\ f \notin takeTodo
        BY <1>c, <1>e, <4>1, UndecidedHead
      <4> QED
        BY <1>a, <2>1, <2>2, <3>3, <4>1, <4>2
    <3>4. CASE f.tail # h
      <4>1. nstate'[f.tail] = nstate[f.tail] /\ f \notin Out(h)
        BY <2>2, <3>1, <3>4 DEF Out
      <4> QED
        BY <1>c, <1>e, <2>1, <3>1, <3>4, <4>1 DEF Settled, Selects
    <3> QED
      BY <3>3, <3>4
  <2>9. CallInv'
    <3>1. callStack \in Seq(Nodes)
      BY DEF Inv, TypeOK
    <3>2. /\ Len(callStack') = Len(callStack) + 1
          /\ callStack'[Len(callStack) + 1] = h
          /\ \A i \in 1..Len(callStack) : callStack'[i] = callStack[i]
      BY <1>a, <2>1, <3>1
    <3>3. ASSUME NEW f \in skipTodo'
          PROVE  \E i \in 1..Len(callStack') : callStack'[i] = f.tail
      <4>0. Len(callStack) \in Nat
        BY <3>1, LenProperties
      <4>1. CASE f \in Out(h)
        <5>1. f.tail = h
          BY <4>1 DEF Out
        <5>2. Len(callStack) + 1 \in 1..Len(callStack')
          BY <3>2, <4>0
        <5> QED
          BY <3>2, <5>1, <5>2
      <4>2. CASE f \in skipTodo
        <5>1. PICK i \in 1..Len(callStack) : callStack[i] = f.tail
          BY <4>2 DEF Inv, CallInv
        <5>2. i \in 1..Len(callStack')
          BY <3>2, <4>0
        <5> QED
          BY <3>2, <5>1, <5>2
      <4> QED
        BY <2>1, <4>1, <4>2
    <3> QED
      BY <3>3 DEF Inv, CallInv
  <2> QED
    BY <2>3, <2>5, <2>6, <2>7, <2>8, <2>9 DEF Inv
<1> QED
  BY <1>2, <1>3, <1>4

LEMMA StutterInv == ASSUME Inv, UNCHANGED vars PROVE Inv'
<1> USE DEF vars, graphVars, queueVars, callVars
<1>1. TypeOK'
  BY DEF Inv, TypeOK
<1>2. RunsAtMostOnce' /\ ExecutingIsExact' /\ NodeInv'
  BY DEF Inv, RunsAtMostOnce, ExecutingIsExact, NodeInv, InFlight, InHandler
<1>3. MarkInv'
  BY DEF Inv, MarkInv, Decided, In
<1>4. EdgeInv' /\ CallInv'
  BY DEF Inv, EdgeInv, CallInv, Settled, Selects
<1> QED
  BY <1>1, <1>2, <1>3, <1>4 DEF Inv

LEMMA NextInv == Inv /\ [Next]_vars => Inv'
<1> SUFFICES ASSUME Inv, [Next]_vars PROVE Inv'
  OBVIOUS
<1>1. ASSUME NEW n \in Nodes, Worker(n) PROVE Inv'
  BY <1>1, WorkerTakeInv, WorkerPutInv DEF Worker
<1>2. ASSUME NEW n \in Nodes, NEW h \in Handles, Dispatch(n, h) PROVE Inv'
  BY <1>2, DispatchInv
<1>3. ASSUME NEW e \in edges, SkipEdge(e) \/ TakeEdge(e) PROVE Inv'
  BY <1>3, SkipEdgeInv, TakeEdgeInv
<1>4. ASSUME NEW n \in Nodes, Publish(n) PROVE Inv'
  BY <1>4, PublishInv
<1>5. CASE SkipReturn
  BY <1>5, SkipReturnInv
<1>6. CASE BranchPathsSkipped
  BY <1>6, BranchPathsSkippedInv
<1>7. CASE EdgesTaken
  BY <1>7, EdgesTakenInv
<1>8. CASE FinishHandler
  BY <1>8, FinishHandlerInv
<1>9. CASE Complete
  BY <1>9, CompleteInv
<1>10. CASE UNCHANGED vars
  BY <1>10, StutterInv
<1>11. CASE Terminated
  BY <1>10, <1>11 DEF Terminated
<1> QED
  BY <1>1, <1>2, <1>3, <1>4, <1>5, <1>6, <1>7, <1>8, <1>9, <1>10, <1>11
     DEF Next, Dispatcher

\* The inductive invariant: type correctness, that a node is handed out at most
\* once, that the executing set is exact, and why each mark is what it is.
THEOREM Invariance == Spec => []Inv
BY InitInv, NextInv, PTL DEF Spec

\* A node is given to the workers only when every edge into it is decided and
\* one of them was selected, in every graph.
THEOREM ReachedBeforeRun == Spec => []RunsOnlyWhenReached
<1>1. Inv => RunsOnlyWhenReached
  <2> SUFFICES ASSUME Inv, NEW n \in Nodes \ {Root}, nstate[n] = "TAKEN"
      PROVE  /\ \A e \in In(n) : estate[e] # "UNKNOWN"
             /\ \E e \in In(n) : /\ chosen[e.tail] # NoHandle
                                 /\ Selects(e.tail, chosen[e.tail], e)
    BY DEF RunsOnlyWhenReached
  <2>1. Decided(n)
    BY DEF Inv, MarkInv
  <2>2. PICK e \in In(n) : estate[e] = "TAKEN"
    BY <2>1 DEF Decided
  <2> QED
    BY <2>1, <2>2 DEF Decided, Inv, EdgeInv, In
<1> QED
  BY <1>1, Invariance, PTL

\* A node is skipped only when every edge into it is, and no queue holds it.
THEOREM CutOffWhenSkipped == Spec => []SkippedOnlyWhenCutOff
<1>1. Inv => SkippedOnlyWhenCutOff
  <2> SUFFICES ASSUME Inv, NEW n \in Nodes, nstate[n] = "SKIPPED"
      PROVE  /\ \A e \in In(n) : estate[e] = "SKIPPED"
             /\ InFlight(n) + readyNodes[n] = 0
    BY DEF SkippedOnlyWhenCutOff
  <2>1. n # Root /\ ~(InFlight(n) > 0) /\ ~(readyNodes[n] > 0)
    BY DEF Inv, NodeInv
  <2>2. InFlight(n) \in Nat /\ readyNodes[n] \in Nat
    BY DEF Inv, TypeOK, InFlight
  <2>3. InFlight(n) + readyNodes[n] = 0
    BY <2>1, <2>2
  <2> QED
    BY <2>1, <2>3 DEF Inv, MarkInv
<1> QED
  BY <1>1, Invariance, PTL

\* When the dispatcher stops, no node that could have run or been skipped was
\* forgotten, in every graph, cyclic ones included.
THEOREM NoLostWakeup == Spec => []NothingLeftWaiting
<1>1. Inv => NothingLeftWaiting
  <2> SUFFICES ASSUME Inv, pc = "stopped", NEW n \in Nodes
      PROVE  /\ nstate[n] = "TAKEN" => chosen[n] # NoHandle
             /\ nstate[n] = "UNKNOWN" =>
                  In(n) = {} \/ \E e \in In(n) : nstate[e.tail] = "UNKNOWN"
    BY DEF NothingLeftWaiting
  <2>1. /\ skipTodo = {} /\ takeTodo = {} /\ executing = {}
        /\ \A m \in Nodes : readyNodes[m] = 0
    BY DEF Inv, CallInv
  <2>2. \A m \in Nodes : ~(InFlight(m) > 0)
    BY <2>1 DEF Inv, ExecutingIsExact
  <2>3. \A m \in Nodes : nstate[m] = "TAKEN" => chosen[m] # NoHandle
    BY <2>2 DEF Inv, NodeInv
  <2>4. ASSUME nstate[n] = "UNKNOWN", In(n) # {}
        PROVE  \E e \in In(n) : nstate[e.tail] = "UNKNOWN"
    <3>1. n # Root
      BY <2>4 DEF Inv, NodeInv
    <3>2. PICK e \in In(n) : estate[e] = "UNKNOWN"
      BY <2>1, <2>4, <3>1 DEF Inv, MarkInv
    <3>3. e \in edges /\ e.tail \in Nodes
      BY EdgeEnds DEF Inv, In
    <3>4. ~Settled(e.tail)
      BY <2>1, <3>2, <3>3 DEF Inv, EdgeInv
    <3>5. nstate[e.tail] = "UNKNOWN"
      BY <2>3, <3>3, <3>4 DEF Settled, Inv, TypeOK, NodeState
    <3> QED
      BY <3>5
  <2> QED
    BY <2>3, <2>4
<1> QED
  BY <1>1, Invariance, PTL

\* A handler leaves nothing half-propagated, in every graph.
THEOREM HandlersClose == Spec => []ClosedBetweenHandlers
<1>1. Inv => ClosedBetweenHandlers
  <2> SUFFICES ASSUME Inv, pc \in {"idle", "stopped"},
                      NEW n \in Nodes \ {Root}, In(n) # {}
      PROVE  /\ nstate[n] = "TAKEN" <=> /\ \A e \in In(n) : LiveEdge(e) \/ DeadEdge(e)
                                        /\ \E e \in In(n) : LiveEdge(e)
             /\ nstate[n] = "SKIPPED" <=> \A e \in In(n) : DeadEdge(e)
    BY DEF ClosedBetweenHandlers
  <2>1. \A e \in In(n) : e \in edges /\ e.tail \in Nodes
    BY EdgeEnds DEF Inv, In
  <2>2. skipTodo = {} /\ takeTodo = {} /\ readyNodes[n] = 0
    BY DEF Inv, CallInv
  <2>3. \A e \in In(n) : estate[e] \in NodeState /\ nstate[e.tail] \in NodeState
    BY <2>1 DEF Inv, TypeOK
  <2>4. \A e \in In(n) : /\ estate[e] = "TAKEN" => LiveEdge(e)
                         /\ estate[e] = "SKIPPED" => DeadEdge(e)
                         /\ estate[e] = "UNKNOWN" => ~Settled(e.tail)
    <3> SUFFICES ASSUME NEW e \in In(n)
        PROVE  /\ estate[e] = "TAKEN" => LiveEdge(e)
               /\ estate[e] = "SKIPPED" => DeadEdge(e)
               /\ estate[e] = "UNKNOWN" => ~Settled(e.tail)
      OBVIOUS
    <3>1. EdgeInv!(e)
      BY <2>1 DEF Inv, EdgeInv
    <3> QED
      BY <3>1, <2>2 DEF LiveEdge, DeadEdge
  <2>5. \A e \in In(n) : /\ ~(LiveEdge(e) /\ DeadEdge(e))
                         /\ LiveEdge(e) \/ DeadEdge(e) => Settled(e.tail)
    <3> SUFFICES ASSUME NEW e \in In(n)
        PROVE  /\ ~(LiveEdge(e) /\ DeadEdge(e))
               /\ LiveEdge(e) \/ DeadEdge(e) => Settled(e.tail)
      OBVIOUS
    <3>1. chosen[e.tail] # NoHandle => nstate[e.tail] = "TAKEN"
      BY <2>1 DEF Inv, NodeInv
    <3> QED
      BY <3>1 DEF LiveEdge, DeadEdge, Settled
  <2>6. \A e \in In(n) : /\ estate[e] = "TAKEN" <=> LiveEdge(e)
                         /\ estate[e] = "SKIPPED" <=> DeadEdge(e)
    BY <2>3, <2>4, <2>5 DEF NodeState
  <2>7. MarkInv!(n)
    BY DEF Inv, MarkInv
  <2>8. nstate[n] = "TAKEN" => Decided(n)
    BY <2>7
  <2>9. nstate[n] = "SKIPPED" => \A e \in In(n) : estate[e] = "SKIPPED"
    BY <2>7
  <2>10. nstate[n] = "UNKNOWN" => \E e \in In(n) : estate[e] = "UNKNOWN"
    BY <2>7, <2>2
  <2>11. nstate[n] \in NodeState
    BY DEF Inv, TypeOK
  <2> QED
    BY <2>3, <2>6, <2>8, <2>9, <2>10, <2>11 DEF Decided, NodeState
<1> QED
  BY <1>1, Invariance, PTL

\* When the dispatcher stops, nobody holds a node.
LEMMA NothingInFlight ==
  ASSUME Inv, pc = "stopped"
  PROVE  \A n \in Nodes : InFlight(n) + readyNodes[n] = 0
<1> SUFFICES ASSUME NEW n \in Nodes PROVE InFlight(n) + readyNodes[n] = 0
  OBVIOUS
<1>1. n \notin executing /\ readyNodes[n] = 0
  BY DEF Inv, CallInv
<1>2. ~(InFlight(n) > 0)
  BY <1>1 DEF Inv, ExecutingIsExact
<1>3. InFlight(n) \in Nat
  BY DEF Inv, TypeOK, InFlight
<1> QED
  BY <1>1, <1>2, <1>3

\* In a rooted acyclic graph no node is left undecided: the first of the undecided
\* ones would have all its inputs decided.
LEMMA NobodyWaits ==
  ASSUME Acyclic, Inv, NothingLeftWaiting, Rooted, pc = "stopped"
  PROVE  \A n \in Nodes : nstate[n] # "UNKNOWN"
<1> DEFINE U == {n \in Nodes : nstate[n] = "UNKNOWN"}
<1>1. SUFFICES ASSUME U # {} PROVE FALSE
  OBVIOUS
<1>2. PICK n \in U : \A e \in Links : e.head = n => e.tail \notin U
  BY <1>1 DEF Acyclic
<1>3. n # Root
  BY <1>2 DEF Inv, NodeInv
<1>4. In(n) # {}
  BY <1>2, <1>3 DEF Rooted
<1>5. PICK e \in In(n) : nstate[e.tail] = "UNKNOWN"
  BY <1>2, <1>4 DEF NothingLeftWaiting
<1>6. e \in edges /\ e \in Links /\ e.head = n
  BY DEF In, Inv, TypeOK
<1>7. e.tail \in U
  BY <1>5, <1>6, EdgeEnds DEF Inv
<1> QED
  BY <1>2, <1>6, <1>7

\* The nodes with a result include the root and what a live edge joins to them.
LEMMA ResultsSpread ==
  ASSUME Inv, NothingLeftWaiting, ClosedBetweenHandlers, pc = "stopped",
         \A n \in Nodes : nstate[n] # "UNKNOWN"
  PROVE  LET C == {n \in Nodes : chosen[n] # NoHandle}
         IN  Root \in C /\ ClosedUnderLive(C)
<1> DEFINE C == {n \in Nodes : chosen[n] # NoHandle}
<1>1. Root \in C
  BY GraphAssumption DEF Inv, NodeInv, NothingLeftWaiting
<1>2. ASSUME NEW e \in edges, e.tail \in C, LiveEdge(e) PROVE e.head \in C
  <2>1. e.head \in Nodes \ {Root} /\ e \in In(e.head) /\ In(e.head) # {}
    BY EdgeEnds DEF Inv
  <2>2. ~DeadEdge(e)
    <3>1. nstate[e.tail] = "TAKEN"
      BY <1>2 DEF Inv, NodeInv
    <3> QED
      BY <3>1, <1>2 DEF DeadEdge, LiveEdge
  <2>3. nstate[e.head] # "SKIPPED"
    BY <2>1, <2>2 DEF ClosedBetweenHandlers
  <2>4. nstate[e.head] = "TAKEN"
    BY <2>1, <2>3 DEF Inv, TypeOK, NodeState
  <2> QED
    BY <2>1, <2>4 DEF NothingLeftWaiting
<1> QED
  BY <1>1, <1>2 DEF ClosedUnderLive

\* Whatever contains the root and is closed under live edges contains the nodes with a
\* result: the first of those outside it has a live edge from one inside it.
LEMMA ResultsReached ==
  ASSUME Acyclic, Inv, ClosedBetweenHandlers, Rooted, pc = "stopped",
         NEW S \in SUBSET Nodes, Root \in S, ClosedUnderLive(S),
         NEW m \in Nodes, chosen[m] # NoHandle
  PROVE  m \in S
<1> DEFINE T == {n \in Nodes : chosen[n] # NoHandle /\ n \notin S}
<1>1. SUFFICES ASSUME T # {} PROVE FALSE
  OBVIOUS
<1>2. PICK n \in T : \A e \in Links : e.head = n => e.tail \notin T
  BY <1>1 DEF Acyclic
<1>3. n \in Nodes \ {Root} /\ nstate[n] = "TAKEN"
  BY <1>2 DEF Inv, NodeInv
<1>4. In(n) # {}
  BY <1>3 DEF Rooted
<1>5. PICK e \in In(n) : LiveEdge(e)
  BY <1>3, <1>4 DEF ClosedBetweenHandlers
<1>6. e \in edges /\ e \in Links /\ e.head = n /\ e.tail \in Nodes
  BY EdgeEnds DEF In, Inv, TypeOK
<1>7. e.tail \in S
  BY <1>2, <1>5, <1>6 DEF LiveEdge
<1>8. n \in S
  BY <1>5, <1>6, <1>7 DEF ClosedUnderLive
<1> QED
  BY <1>2, <1>8

\* The outcome of a run of an acyclic graph: when the dispatcher, which looks at the
\* ready queue and the executing set, leaves its loop, the nodes that ran are those the
\* selected edges join to the root, the others are skipped, and nothing is in a queue.
THEOREM OutcomeIsDetermined ==
  ASSUME Acyclic
  PROVE  Spec => []StopsWhenDone
<1>1. Inv /\ ClosedBetweenHandlers /\ NothingLeftWaiting => StopsWhenDone
  <2> SUFFICES ASSUME Inv, ClosedBetweenHandlers, NothingLeftWaiting, pc = "stopped"
               PROVE  /\ \A n \in Nodes : InFlight(n) + readyNodes[n] = 0
                      /\ Rooted => \A n \in Nodes : IF n \in Reached
                                                    THEN chosen[n] # NoHandle
                                                    ELSE nstate[n] = "SKIPPED" /\ chosen[n] = NoHandle
    BY DEF StopsWhenDone
  <2>1. \A n \in Nodes : InFlight(n) + readyNodes[n] = 0
    BY NothingInFlight
  <2>2. ASSUME Rooted, NEW n \in Nodes
        PROVE  IF n \in Reached THEN chosen[n] # NoHandle
                                ELSE nstate[n] = "SKIPPED" /\ chosen[n] = NoHandle
    <3> DEFINE C == {k \in Nodes : chosen[k] # NoHandle}
    <3>1. \A k \in Nodes : nstate[k] # "UNKNOWN"
      BY <2>2, NobodyWaits
    <3>2. Root \in C /\ ClosedUnderLive(C) /\ C \in SUBSET Nodes
      BY <3>1, ResultsSpread
    <3>3. CASE n \in Reached
      <4>1. n \in C
        <5> HIDE DEF C
        <5> QED
          BY <3>2, <3>3 DEF Reached
      <4> QED
        BY <3>3, <4>1
    <3>4. CASE n \notin Reached
      <4>1. PICK S \in SUBSET Nodes : Root \in S /\ ClosedUnderLive(S) /\ n \notin S
        BY <3>4 DEF Reached
      <4>2. chosen[n] = NoHandle
        BY <2>2, <4>1, ResultsReached
      <4>3. nstate[n] # "TAKEN"
        BY <4>2 DEF NothingLeftWaiting
      <4>4. nstate[n] = "SKIPPED"
        BY <3>1, <4>3 DEF Inv, TypeOK, NodeState
      <4> QED
        BY <3>4, <4>2, <4>4
    <3> QED
      BY <3>3, <3>4
  <2> QED
    BY <2>1, <2>2
<1> QED
  BY <1>1, Invariance, HandlersClose, NoLostWakeup, PTL

\* A decided edge or node keeps its mark, whatever the handler revisits.
THEOREM FinalMarks == Spec => MarksAreFinal
<1> DEFINE Final == /\ \A e \in edges : estate[e] # "UNKNOWN" => estate'[e] = estate[e]
                    /\ \A n \in Nodes : nstate[n] # "UNKNOWN" => nstate'[n] = nstate[n]
<1>1. Inv /\ [Next]_vars => [Final]_vars
  <2> SUFFICES ASSUME Inv, Next PROVE Final
    OBVIOUS
  <2>1. ASSUME NEW n \in Nodes, Worker(n) PROVE Final
    BY <2>1 DEF Worker, WorkerTake, WorkerPut, graphVars
  <2>2. ASSUME NEW n \in Nodes, NEW h \in Handles, Dispatch(n, h) PROVE Final
    BY <2>2 DEF Dispatch, graphVars
  <2>3. ASSUME NEW e \in edges, SkipEdge(e) PROVE Final
    <3>1. \A f \in edges : estate[f] # "UNKNOWN" => estate'[f] = estate[f]
      BY <2>3, SkipEdgeFacts
    <3>2. nstate[e.head] = "UNKNOWN"
      BY <2>3, SkipEdgeFacts
    <3>3. \A n \in Nodes : n # e.head => nstate'[n] = nstate[n]
      BY <2>3 DEF SkipEdge, Inv, TypeOK
    <3> QED
      BY <3>1, <3>2, <3>3
  <2>4. ASSUME NEW e \in edges, TakeEdge(e) PROVE Final
    <3>1. estate[e] = "UNKNOWN"
      BY <2>4 DEF TakeEdge, Inv, EdgeInv
    <3> QED
      BY <2>4, <3>1 DEF TakeEdge, Inv, TypeOK
  <2>5. ASSUME NEW n \in Nodes, Publish(n) PROVE Final
    <3>1. nstate[n] = "UNKNOWN"
      BY <2>5 DEF Publish, Inv, NodeInv
    <3> QED
      BY <2>5, <3>1 DEF Publish, Inv, TypeOK
  <2>6. CASE BranchPathsSkipped
    BY <2>6, BranchPathsSkippedInv DEF BranchPathsSkipped
  <2>7. CASE SkipReturn \/ EdgesTaken \/ FinishHandler \/ Complete
    BY <2>7 DEF SkipReturn, EdgesTaken, FinishHandler, Complete, graphVars
  <2>8. CASE Terminated
    BY <2>8 DEF Terminated, vars, graphVars
  <2> QED
    BY <2>1, <2>2, <2>3, <2>4, <2>5, <2>6, <2>7, <2>8 DEF Next, Dispatcher
<1> QED
  BY <1>1, Invariance, PTL DEF Spec, MarksAreFinal
-----------------------------------------------------------------------------
\* The status Dataflow sees, by the node's mark and result.
LEMMA StatusIs ==
  ASSUME Inv, NEW n \in Nodes
  PROVE  /\ Status[n] = "skipped" <=> nstate[n] = "SKIPPED"
         /\ Status[n] = "done" <=> chosen[n] # NoHandle
         /\ Status[n] = "enabled" <=> nstate[n] = "TAKEN" /\ chosen[n] = NoHandle
         /\ Status[n] = "waiting" <=> nstate[n] = "UNKNOWN"
<1>1. chosen[n] # NoHandle => nstate[n] = "TAKEN"
  BY DEF Inv, NodeInv
<1>2. nstate[n] \in NodeState
  BY DEF Inv, TypeOK
<1>3. CASE chosen[n] # NoHandle
  <2>1. Status[n] = "done"
    BY <1>3 DEF Status
  <2> QED
    BY <1>1, <1>3, <2>1
<1>4. CASE chosen[n] = NoHandle
  <2>1. Status[n] = StatusOf[nstate[n]]
    BY <1>4 DEF Status
  <2> QED
    BY <1>2, <1>4, <2>1 DEF StatusOf, NodeState
<1> QED
  BY <1>3, <1>4

\* A mark on an edge is what Dataflow says of it.
LEMMA MarkMeans ==
  ASSUME Inv, NEW e \in edges
  PROVE  /\ estate[e] = "TAKEN" => D!Live(e)
         /\ estate[e] = "SKIPPED" => D!Dead(e)
<1>1. e.tail \in Nodes
  BY EdgeEnds DEF Inv
<1>2. /\ Status[e.tail] = "skipped" <=> nstate[e.tail] = "SKIPPED"
      /\ Status[e.tail] = "done" <=> chosen[e.tail] # NoHandle
  BY <1>1, StatusIs
<1>3. EdgeInv!(e)
  BY DEF Inv, EdgeInv
<1> QED
  BY <1>2, <1>3 DEF D!Live, D!Dead, D!Selects, Selects

\* A step of the model that moves one node's mark, its edges being decided, is
\* a step of Dataflow.
LEMMA EnableStep ==
  ASSUME Inv, Inv', NEW n \in Nodes, n # Root,
         nstate[n] = "UNKNOWN", nstate' = [nstate EXCEPT ![n] = "TAKEN"],
         chosen' = chosen, edges' = edges,
         \A e \in In(n) : D!Live(e) \/ D!Dead(e), \E e \in In(n) : D!Live(e)
  PROVE  D!Enable(n)
<1>1. chosen[n] = NoHandle /\ Status[n] = "waiting"
  BY StatusIs DEF Inv, NodeInv
<1>2. Status' = [Status EXCEPT ![n] = "enabled"]
  BY <1>1 DEF Status, StatusOf, Inv, TypeOK
<1> QED
  BY <1>1, <1>2 DEF D!Enable, D!In, In

LEMMA SkipStep ==
  ASSUME Inv, Inv', NEW n \in Nodes,
         nstate[n] = "UNKNOWN", nstate' = [nstate EXCEPT ![n] = "SKIPPED"],
         chosen' = chosen, edges' = edges,
         In(n) # {}, \A e \in In(n) : D!Dead(e)
  PROVE  D!Skip(n)
<1>1. chosen[n] = NoHandle /\ Status[n] = "waiting"
  BY StatusIs DEF Inv, NodeInv
<1>2. Status' = [Status EXCEPT ![n] = "skipped"]
  BY <1>1 DEF Status, StatusOf, Inv, TypeOK
<1> QED
  BY <1>1, <1>2 DEF D!Skip, D!In, In

\* What the handler does to a node between its mark and its result is hidden.
LEMMA HiddenStep ==
  ASSUME edges' = edges, nstate' = nstate, chosen' = chosen
  PROVE  UNCHANGED D!vars
BY DEF D!vars, Status

LEMMA InitRefines == Init => D!Init
<1> SUFFICES ASSUME Init PROVE D!Init
  OBVIOUS
<1>1. Inv /\ edges \in SUBSET Links
  BY InitInv DEF Init
<1>2. chosen = [n \in Nodes |-> NoHandle] /\ \A n \in Nodes : chosen[n] = NoHandle
  BY DEF Init, Marks
<1>3. \A n \in Nodes : /\ Status[n] = "enabled" <=> n = Root
                       /\ Status[n] = "skipped" <=> nstate[n] = "SKIPPED"
                       /\ Status[n] # "done"
  BY <1>1, <1>2, StatusIs DEF Init
<1>4. Status \in [Nodes -> {"waiting", "enabled", "skipped"}]
  BY <1>1, <1>2 DEF Status, StatusOf, Inv, TypeOK, NodeState
<1>5. ASSUME NEW n \in Nodes \ {Root}, In(n) # {}
      PROVE  Status[n] = "skipped" <=> \A e \in In(n) : D!Dead(e)
  <2>1. \A e \in In(n) : e \in edges /\ e.tail \in Nodes
    BY <1>1, EdgeEnds DEF Inv, In
  <2>2. \A e \in In(n) : D!Dead(e) <=> estate[e] = "SKIPPED"
    <3>1. \A e \in edges : estate[e] = "SKIPPED" <=> nstate[e.tail] = "SKIPPED"
      BY RootMarks DEF Init
    <3> SUFFICES ASSUME NEW e \in In(n) PROVE D!Dead(e) <=> estate[e] = "SKIPPED"
      OBVIOUS
    <3>2. Status[e.tail] # "done" /\ (Status[e.tail] = "skipped" <=> nstate[e.tail] = "SKIPPED")
      BY <1>3, <2>1
    <3> QED
      BY <2>1, <3>1, <3>2 DEF D!Dead
  <2>3. nstate[n] = "SKIPPED" <=> \A e \in In(n) : estate[e] = "SKIPPED"
    BY <1>5, RootMarks DEF Init
  <2>4. Status[n] = "skipped" <=> nstate[n] = "SKIPPED"
    BY <1>3
  <2> QED
    BY <2>2, <2>3, <2>4, Zenon
<1>6. \A n \in Nodes \ {Root} : D!In(n) # {} =>
        (Status[n] = "skipped" <=> \A e \in D!In(n) : D!Dead(e))
  BY <1>5 DEF D!In, In
<1>7. \A n \in Nodes : Status[n] = "enabled" <=> n = Root
  BY <1>3
<1> QED
  BY <1>1, <1>2, <1>4, <1>6, <1>7, Zenon DEF D!Init

LEMMA StepRefines == Inv /\ Inv' /\ [Next]_vars => [D!Next]_(D!vars)
<1> SUFFICES ASSUME Inv, Inv', [Next]_vars PROVE D!Next \/ UNCHANGED D!vars
  OBVIOUS
<1>1. ASSUME NEW n \in Nodes, Worker(n) PROVE UNCHANGED D!vars
  BY <1>1, HiddenStep DEF Worker, WorkerTake, WorkerPut, graphVars
<1>2. ASSUME NEW n \in Nodes, NEW h \in Handles, Dispatch(n, h) PROVE D!Finish(n, h)
  <2>1. InFlight(n) > 0
    BY <1>2 DEF Dispatch, Inv, TypeOK, InFlight
  <2>2. nstate[n] = "TAKEN" /\ chosen[n] = NoHandle
    <3>0. ready[n] \in Nat /\ running[n] \in Nat /\ results[n] \in Nat /\ readyNodes[n] \in Nat
      BY DEF Inv, TypeOK
    <3>1. InFlight(n) \in Nat /\ readyNodes[n] \in Nat
      BY <3>0 DEF InFlight
    <3>2. InFlight(n) + readyNodes[n] # 0
      BY <2>1, <3>1
    <3> QED
      BY <2>1, <3>2 DEF Inv, NodeInv, RunsAtMostOnce
  <2>3. h # NoHandle /\ chosen' = [chosen EXCEPT ![n] = h] /\ nstate' = nstate /\ edges' = edges
    BY <1>2, GraphAssumption DEF Dispatch, graphVars
  <2>4. Status[n] = "enabled"
    BY <2>2, StatusIs
  <2>5. Status' = [Status EXCEPT ![n] = "done"]
    BY <2>3 DEF Status, Inv, TypeOK
  <2> QED
    BY <2>3, <2>4, <2>5 DEF D!Finish
<1>3. ASSUME NEW e \in edges, SkipEdge(e) PROVE D!Next \/ UNCHANGED D!vars
  <2> DEFINE h == e.head
  <2>1. /\ h \in Nodes \ {Root} /\ e \in In(h) /\ nstate[h] = "UNKNOWN"
        /\ edges' = edges /\ chosen' = chosen
        /\ \A f \in edges : estate'[f] = IF f = e THEN "SKIPPED" ELSE estate[f]
    BY <1>3, SkipEdgeFacts DEF SkipEdge
  <2>2. \A f \in In(h) : f \in edges /\ (estate'[f] = "SKIPPED" \/ estate'[f] = estate[f])
    BY <2>1 DEF In
  <2>3. D!Dead(e)
    <3>1. e.tail \in Nodes /\ (nstate[e.tail] = "SKIPPED"
            \/ (chosen[e.tail] # NoHandle /\ ~Selects(e.tail, chosen[e.tail], e)))
      <4>1. e \in skipTodo
        BY <1>3 DEF SkipEdge
      <4>2. e.tail \in Nodes
        BY EdgeEnds DEF Inv
      <4>3. nstate[e.tail] = "SKIPPED" \/ (chosen[e.tail] # NoHandle /\ ~Selects(e.tail, chosen[e.tail], e))
        <5>1. EdgeInv!(e)
          BY DEF Inv, EdgeInv
        <5> QED
          BY <4>1, <5>1
      <4> QED
        BY <4>2, <4>3
    <3> QED
      BY <3>1, StatusIs DEF D!Dead, D!Selects, Selects
  <2>4. \A f \in In(h) : /\ estate'[f] = "TAKEN" => D!Live(f)
                         /\ estate'[f] = "SKIPPED" => D!Dead(f)
    <3> SUFFICES ASSUME NEW f \in In(h)
        PROVE  /\ estate'[f] = "TAKEN" => D!Live(f)
               /\ estate'[f] = "SKIPPED" => D!Dead(f)
      OBVIOUS
    <3>1. CASE f = e
      BY <2>1, <2>3, <3>1
    <3>2. CASE f # e
      BY <2>1, <2>2, <3>2, MarkMeans
    <3> QED
      BY <3>1, <3>2
  <2>5. \A f \in In(h) : estate'[f] \in NodeState
    BY <2>1, <2>2 DEF Inv, TypeOK, NodeState
  <2>6. CASE HasUnknown(estate', h)
    BY <1>3, <2>1, <2>6, HiddenStep DEF SkipEdge
  <2>7. CASE ~HasUnknown(estate', h) /\ HasTaken(estate', h)
    <3>1. nstate' = [nstate EXCEPT ![h] = "TAKEN"]
      BY <1>3, <2>7 DEF SkipEdge
    <3>2. \A f \in In(h) : estate'[f] = "TAKEN" \/ estate'[f] = "SKIPPED"
      BY <2>5, <2>7 DEF HasUnknown, NodeState
    <3>4. PICK f \in In(h) : estate'[f] = "TAKEN"
      BY <2>7 DEF HasTaken
    <3>3. D!Enable(h)
      BY <2>1, <2>4, <3>1, <3>2, <3>4, EnableStep
    <3> QED
      BY <2>1, <3>3 DEF D!Next
  <2>8. CASE ~HasUnknown(estate', h) /\ ~HasTaken(estate', h)
    <3>1. nstate' = [nstate EXCEPT ![h] = "SKIPPED"]
      BY <1>3, <2>8 DEF SkipEdge
    <3>2. \A f \in In(h) : D!Dead(f)
      BY <2>4, <2>5, <2>8 DEF HasUnknown, HasTaken, NodeState
    <3>3. D!Skip(h)
      BY <2>1, <3>1, <3>2, SkipStep
    <3> QED
      BY <2>1, <3>3 DEF D!Next
  <2> QED
    BY <2>6, <2>7, <2>8
<1>4. ASSUME NEW n \in Nodes, Publish(n) PROVE D!Enable(n)
  <2>1. /\ nstate[n] = "UNKNOWN" /\ n # Root
        /\ nstate' = [nstate EXCEPT ![n] = "TAKEN"] /\ chosen' = chosen /\ edges' = edges
    BY <1>4 DEF Publish, Inv, NodeInv
  <2>2. Decided(n)
    BY <1>4, <2>1 DEF Publish, Inv, MarkInv
  <2>3. \A e \in In(n) : e \in edges /\ estate[e] \in NodeState
    BY DEF In, Inv, TypeOK
  <2>4. (\A e \in In(n) : D!Live(e) \/ D!Dead(e)) /\ \E e \in In(n) : D!Live(e)
    BY <2>2, <2>3, MarkMeans DEF Decided, NodeState
  <2> QED
    BY <2>1, <2>4, EnableStep
<1>5. ASSUME NEW e \in edges, TakeEdge(e) PROVE UNCHANGED D!vars
  BY <1>5, HiddenStep DEF TakeEdge
<1>6. CASE SkipReturn \/ BranchPathsSkipped \/ EdgesTaken \/ FinishHandler \/ Complete
  BY <1>6, HiddenStep
     DEF SkipReturn, BranchPathsSkipped, EdgesTaken, FinishHandler, Complete, graphVars
<1>7. CASE UNCHANGED vars
  BY <1>7, HiddenStep DEF vars, graphVars
<1>8. CASE Terminated
  BY <1>7, <1>8 DEF Terminated
<1> QED
  BY <1>1, <1>2, <1>3, <1>4, <1>5, <1>6, <1>7, <1>8 DEF Next, Dispatcher, D!Next

\* The edge processor and the skip propagator implement Dataflow, whatever the
\* graph and the order of the results.
THEOREM Refinement == Spec => ImplementsDataflow
BY InitRefines, StepRefines, Invariance, PTL DEF Spec, ImplementsDataflow, D!Spec
=============================================================================
