-------------------------- MODULE GraphInit_proofs --------------------------
(***************************************************************************)
(* Proofs about GraphInit, for every configuration, cyclic and dangling    *)
(* ones included: what Graph.init hands to the engine is sound and marked  *)
(* as the traversal expects it, and it skips nothing of the active branch. *)
(***************************************************************************)
EXTENDS TLAPS, SequenceTheorems, GraphInit

\* The part of Inv that is inductive; the rest follows from it.
Core == TypeOK /\ RootInv /\ (RootsAreSources => MarkInv /\ TodoInv)

\* Of several root nodes, with the active one among them, the others are inactive.
LEMMA InactiveRoots ==
  ASSUME NEW rs
  PROVE  Inactive(rs) \subseteq rs \ {root} /\ (root \notin rs => Inactive(rs) = {})
BY DEF Inactive

\* The ends of an edge that is to be visited: a skipped node above, and below one that is
\* not, since its edge is not.
LEMMA TodoEdge ==
  ASSUME Core, RootsAreSources, NEW e \in todo
  PROVE  /\ e \in edges /\ estate[e] = "UNKNOWN" /\ e.tail \in Skipped \ pending
         /\ e.head \notin Skipped /\ e.head # e.tail
<1>1. e \in edges /\ estate[e] = "UNKNOWN" /\ e.tail \in Skipped \ pending
  BY DEF Core, TypeOK, TodoInv
<1>2. e \in In(e.head)
  BY <1>1 DEF In, Into
<1>3. e.head \notin roots
  BY <1>2 DEF RootsAreSources
<1>4. ~AllSkipped(estate, e.head)
  BY <1>1, <1>2 DEF AllSkipped
<1>5. e.head \notin Skipped
  BY <1>3, <1>4 DEF Core, MarkInv, Skipped
<1> QED
  BY <1>1, <1>5

LEMMA InitCore == Init => Core
<1> SUFFICES ASSUME Init PROVE Core
  OBVIOUS
<1>1. TypeOK
  BY InitAssumption DEF Init, TypeOK, NodeState, Over
<1>2. Skipped = {} /\ pending = {} /\ todo = {} /\ pc = "start"
  BY DEF Init, Skipped
<1>3. RootInv
  BY <1>2 DEF Init, RootInv
<1>4. MarkInv
  <2>1. \A e \in edges : estate[e] = "UNKNOWN"
    BY DEF Init
  <2>2. \A n \in Nodes : ~(In(n) # {} /\ AllSkipped(estate, n))
    BY <2>1 DEF In, Into, AllSkipped
  <2> QED
    BY <1>2, <2>1, <2>2 DEF MarkInv
<1>5. TodoInv
  BY <1>2 DEF TodoInv
<1> QED
  BY <1>1, <1>3, <1>4, <1>5 DEF Core

LEMMA StartCore == ASSUME Core, Start PROVE Core'
<1> USE DEF Start, config
<1>1. CASE root \notin Nodes
  <2>1. UNCHANGED <<edges, root, failBranch, roots, nstate, estate, pending, callStack, todo>> /\ pc' = "ValueError"
    BY <1>1
  <2>2. TypeOK'
    BY <2>1 DEF Core, TypeOK, Over
  <2>3. Skipped' = Skipped /\ RootInv'
    BY <2>1 DEF Core, RootInv, Skipped
  <2>4. RootsAreSources' = RootsAreSources /\ (MarkInv => MarkInv') /\ (TodoInv => TodoInv')
    BY <2>1, <2>3 DEF RootsAreSources, MarkInv, TodoInv, In, Into, AllSkipped
  <2> QED
    BY <2>2, <2>3, <2>4 DEF Core
<1>2. CASE root \in Nodes
  <2>1. /\ roots' = roots \ failBranch /\ pending' = Inactive(roots')
        /\ nstate' = [n \in Nodes |-> IF n \in pending' THEN "SKIPPED" ELSE "UNKNOWN"]
        /\ pc' = "mark" /\ UNCHANGED <<edges, root, failBranch, estate, callStack, todo>>
    BY <1>2
  <2>2. roots = RootKind /\ Skipped = {} /\ pc = "start" /\ todo = {}
    BY DEF Core, RootInv
  <2>3. roots' \subseteq Nodes /\ pending' \subseteq roots' \ {root}
        /\ (root \notin roots' => pending' = {})
    BY <2>1, <2>2, InactiveRoots, InitAssumption
  <2>4. Skipped' = pending'
    BY <2>1, <2>3 DEF Skipped
  <2>5. TypeOK'
    BY <2>1, <2>2, <2>3 DEF Core, TypeOK, NodeState
  <2>6. RootInv'
    BY <1>2, <2>1, <2>2, <2>3, <2>4 DEF RootInv, Core
  <2>7. ASSUME RootsAreSources' PROVE MarkInv' /\ TodoInv'

    <3>2. todo' = {} /\ \A e \in edges' : estate'[e] = "UNKNOWN"
      BY <2>1, <2>2 DEF Core, RootInv
    <3>3. \A n \in Nodes : ~(In(n)' # {} /\ AllSkipped(estate, n)')
      BY <3>2 DEF In, Into, AllSkipped
    <3>4. \A n \in Skipped' : n \in roots' \ {root'}
      BY <2>3, <2>4
    <3>5. MarkInv'
      BY <3>2, <3>3, <3>4 DEF MarkInv
    <3>6. TodoInv'
      BY <2>1, <2>4, <3>2 DEF TodoInv
    <3> QED
      BY <3>5, <3>6
  <2> QED
    BY <2>5, <2>6, <2>7 DEF Core
<1> QED
  BY <1>1, <1>2

LEMMA MarkRootCore == ASSUME Core, NEW r \in Nodes, MarkRoot(r) PROVE Core'
<1>1. /\ UNCHANGED <<edges, root, failBranch, roots, nstate, estate, pc>>
      /\ pc = "mark" /\ callStack = <<>> /\ r \in pending
      /\ pending' = pending \ {r} /\ callStack' = <<r>> /\ todo' = Out(r)
  BY DEF MarkRoot, config
<1>2. TypeOK'
  BY <1>1 DEF Core, TypeOK, Out
<1>3. Skipped' = Skipped /\ r \in Skipped /\ RootsAreSources' = RootsAreSources
  BY <1>1 DEF Core, RootInv, Skipped, RootsAreSources, In, Into
<1>4. RootInv'
  <2>1. Dangling' = Dangling /\ RootIsValid' = RootIsValid
    BY <1>1 DEF Dangling, RootIsValid
  <2> QED
    BY <1>1, <1>3, <2>1 DEF Core, RootInv
<1>5. ASSUME RootsAreSources PROVE MarkInv' /\ TodoInv'
  <2>1. MarkInv /\ TodoInv /\ todo = {}
    BY <1>1, <1>5 DEF Core, TodoInv
  <2>2. MarkInv'
    <3>1. \A n \in Nodes : AllSkipped(estate, n)' = AllSkipped(estate, n) /\ In(n)' = In(n)
      BY <1>1 DEF AllSkipped, In, Into
    <3> QED
      BY <1>1, <1>3, <2>1, <3>1 DEF MarkInv
  <2>3. ASSUME NEW e \in edges, e.tail = r PROVE estate[e] = "UNKNOWN"
    <3>1. estate[e] # "SKIPPED"
      BY <1>1, <2>1, <2>3 DEF MarkInv
    <3> QED
      BY <3>1 DEF Core, TypeOK, NodeState
  <2>4. \A e \in edges' : e.tail \in Skipped' \ pending' => estate'[e] = "SKIPPED" \/ e \in todo'
    BY <1>1, <1>3, <2>1 DEF TodoInv, Out
  <2>5. \A e \in todo' : /\ estate'[e] = "UNKNOWN" /\ e.tail \in Skipped' \ pending'
                         /\ \E i \in 1..Len(callStack') : callStack'[i] = e.tail
    <3> SUFFICES ASSUME NEW e \in todo'
        PROVE  /\ estate'[e] = "UNKNOWN" /\ e.tail \in Skipped' \ pending'
               /\ \E i \in 1..Len(callStack') : callStack'[i] = e.tail
      OBVIOUS
    <3>1. e \in edges /\ e.tail = r
      BY <1>1 DEF Out
    <3>2. 1 \in 1..Len(callStack') /\ callStack'[1] = r
      BY <1>1
    <3> QED
      BY <1>1, <1>3, <2>3, <3>1, <3>2
  <2> QED
    BY <1>1, <2>2, <2>4, <2>5 DEF TodoInv
<1> QED
  BY <1>2, <1>3, <1>4, <1>5 DEF Core

\* What every visit of an edge does to the marks.
LEMMA MarkEdgeFacts ==
  ASSUME Core, NEW e \in edges, MarkEdge(e)
  PROVE  /\ UNCHANGED <<edges, root, failBranch, roots, pending>>
         /\ pc = "mark" /\ e \in todo /\ pc' \in {"mark", "KeyError"}
         /\ estate' = [estate EXCEPT ![e] = "SKIPPED"]
         /\ e \in In(e.head)
         /\ \A f \in edges : estate'[f] = IF f = e THEN "SKIPPED" ELSE estate[f]
         /\ \A n \in Nodes \ {e.head} : AllSkipped(estate', n) = AllSkipped(estate, n)
<1>1. /\ UNCHANGED <<edges, root, failBranch, roots, pending>>
      /\ pc = "mark" /\ e \in todo /\ pc' \in {"mark", "KeyError"}
      /\ estate' = [estate EXCEPT ![e] = "SKIPPED"]
  BY DEF MarkEdge, config
<1>2. \A f \in edges : estate'[f] = IF f = e THEN "SKIPPED" ELSE estate[f]
  BY <1>1 DEF Core, TypeOK
<1>3. \A n \in Nodes \ {e.head} : AllSkipped(estate', n) = AllSkipped(estate, n)
  BY <1>2 DEF AllSkipped, In, Into
<1>4. e \in In(e.head)
  BY DEF In, Into
<1> QED
  BY <1>1, <1>2, <1>3, <1>4

\* The node below is entered: the visited edge was its last.
LEMMA EnterCore ==
  ASSUME Core, NEW e \in edges, MarkEdge(e), e.head \in Nodes, AllSkipped(estate', e.head),
         nstate' = [nstate EXCEPT ![e.head] = "SKIPPED"],
         callStack' = Append(callStack, e.head), todo' = (todo \ {e}) \cup Out(e.head), pc' = pc
  PROVE  Core'
<1> DEFINE h == e.head
<1>1. /\ UNCHANGED <<edges, root, failBranch, roots, pending>>
      /\ pc = "mark" /\ e \in todo /\ e \in In(h)
      /\ \A f \in edges : estate'[f] = IF f = e THEN "SKIPPED" ELSE estate[f]
      /\ \A n \in Nodes \ {h} : AllSkipped(estate', n) = AllSkipped(estate, n)
  BY MarkEdgeFacts
<1>2. TypeOK'
  <2>1. estate' \in [edges' -> NodeState \ {"TAKEN"}]
    BY MarkEdgeFacts DEF Core, TypeOK, NodeState
  <2>2. nstate' \in [Nodes -> NodeState \ {"TAKEN"}]
    BY DEF Core, TypeOK, NodeState
  <2>3. callStack' \in Seq(Nodes) /\ todo' \subseteq edges'
    BY <1>1 DEF Core, TypeOK, Out
  <2> QED
    BY <1>1, <2>1, <2>2, <2>3 DEF Core, TypeOK
<1>3. Skipped' = Skipped \cup {h}
  BY DEF Skipped, Core, TypeOK
<1>4. RootsAreSources' = RootsAreSources
  BY <1>1 DEF RootsAreSources, In, Into
<1>5. RootInv'
  BY <1>1, <1>3 DEF Core, RootInv
<1>6. ASSUME RootsAreSources PROVE MarkInv' /\ TodoInv'
  <2>1. /\ MarkInv /\ TodoInv
        /\ estate[e] = "UNKNOWN" /\ e.tail \in Skipped \ pending /\ h \notin Skipped /\ h # e.tail
    BY <1>1, <1>6, TodoEdge DEF Core
  <2>2. pending \subseteq Skipped
    BY DEF Core, RootInv
  <2>3. \A n \in Nodes : In(n)' = In(n)
    BY <1>1 DEF In, Into
  <2>4. \A n \in Nodes : n \in Skipped' <=> \/ n \in Skipped' \cap (roots' \ {root'})
                                            \/ In(n)' # {} /\ AllSkipped(estate, n)'
    <3> SUFFICES ASSUME NEW n \in Nodes
        PROVE  n \in Skipped' <=> \/ n \in Skipped' \cap (roots' \ {root'})
                                  \/ In(n)' # {} /\ AllSkipped(estate, n)'
      OBVIOUS
    <3>0. AllSkipped(estate, n)' <=> AllSkipped(estate', n)
      BY <2>3 DEF AllSkipped
    <3>1. CASE n = h
      BY <1>1, <1>3, <2>3, <3>0, <3>1
    <3>2. CASE n # h
      <4>1. n \in Skipped <=> n \in Skipped \cap (roots \ {root}) \/ (In(n) # {} /\ AllSkipped(estate, n))
        BY <2>1 DEF MarkInv
      <4>2. AllSkipped(estate', n) = AllSkipped(estate, n)
        BY <1>1, <3>2
      <4> QED
        BY <1>1, <1>3, <2>3, <3>0, <3>2, <4>1, <4>2
    <3> QED
      BY <3>1, <3>2
  <2>5. \A f \in edges' : estate'[f] = "SKIPPED" => f.tail \in Skipped' \ pending'
    BY <1>1, <1>3, <2>1 DEF MarkInv
  <2>6. \A f \in edges' : f.tail \in Skipped' \ pending' => estate'[f] = "SKIPPED" \/ f \in todo'
    BY <1>1, <1>3, <2>1 DEF TodoInv, Out
  <2>7. ASSUME NEW f \in todo'
        PROVE  /\ estate'[f] = "UNKNOWN" /\ f.tail \in Skipped' \ pending'
               /\ \E i \in 1..Len(callStack') : callStack'[i] = f.tail
    <3>0. /\ Len(callStack') = Len(callStack) + 1 /\ Len(callStack) \in Nat
          /\ callStack'[Len(callStack) + 1] = h
          /\ \A i \in 1..Len(callStack) : callStack'[i] = callStack[i]
      BY DEF Core, TypeOK
    <3>1. CASE f \in todo /\ f # e
      <4>1. f \in edges /\ estate[f] = "UNKNOWN" /\ f.tail \in Skipped \ pending
        BY <1>6, <3>1, TodoEdge
      <4>2. PICK i \in 1..Len(callStack) : callStack[i] = f.tail
        BY <2>1, <3>1 DEF TodoInv
      <4>3. i \in 1..Len(callStack') /\ callStack'[i] = f.tail
        BY <3>0, <4>2
      <4> QED
        BY <1>1, <1>3, <3>1, <4>1, <4>3
    <3>2. CASE f \in Out(h)
      <4>1. f \in edges /\ f.tail = h /\ f # e
        BY <2>1, <3>2 DEF Out
      <4>2. estate[f] = "UNKNOWN"
        <5>1. estate[f] # "SKIPPED"
          BY <2>1, <4>1 DEF MarkInv
        <5> QED
          BY <5>1, <4>1 DEF Core, TypeOK, NodeState
      <4>3. h \notin pending
        BY <2>1, <2>2
      <4>4. Len(callStack) + 1 \in 1..Len(callStack')
        BY <3>0
      <4> QED
        BY <1>1, <1>3, <3>0, <4>1, <4>2, <4>3, <4>4
    <3> QED
      BY <3>1, <3>2
  <2>8. pc' \notin {"validate", "graph"}
    BY <1>1
  <2> QED
    BY <2>4, <2>5, <2>6, <2>7, <2>8 DEF MarkInv, TodoInv
<1> QED
  BY <1>2, <1>4, <1>5, <1>6 DEF Core

\* The node below is not entered: it has other inputs, or is none of the configured.
LEMMA PassCore ==
  ASSUME Core, NEW e \in edges, MarkEdge(e), e.head \in Nodes => ~AllSkipped(estate', e.head),
         UNCHANGED <<nstate, callStack>>, todo' = todo \ {e}
  PROVE  Core'
<1> DEFINE h == e.head
<1>1. /\ UNCHANGED <<edges, root, failBranch, roots, pending>>
      /\ pc = "mark" /\ e \in todo /\ pc' \in {"mark", "KeyError"}
      /\ \A f \in edges : estate'[f] = IF f = e THEN "SKIPPED" ELSE estate[f]
      /\ \A n \in Nodes \ {h} : AllSkipped(estate', n) = AllSkipped(estate, n)
  BY MarkEdgeFacts
<1>2. TypeOK'
  <2>1. estate' \in [edges' -> NodeState \ {"TAKEN"}]
    BY MarkEdgeFacts DEF Core, TypeOK, NodeState
  <2>2. pc' \in {"start", "mark", "validate"} \cup Over
    BY <1>1 DEF Over
  <2> QED
    BY <1>1, <2>1, <2>2 DEF Core, TypeOK
<1>3. Skipped' = Skipped
  BY DEF Skipped
<1>4. RootsAreSources' = RootsAreSources
  BY <1>1 DEF RootsAreSources, In, Into
<1>5. RootInv'
  BY <1>1, <1>3 DEF Core, RootInv
<1>6. ASSUME RootsAreSources PROVE MarkInv' /\ TodoInv'
  <2>1. MarkInv /\ TodoInv /\ e.tail \in Skipped \ pending /\ h \notin Skipped
    BY <1>1, <1>6, TodoEdge DEF Core
  <2>2. \A n \in Nodes : n \in Skipped' <=> \/ n \in Skipped' \cap (roots' \ {root'})
                                            \/ In(n)' # {} /\ AllSkipped(estate, n)'
    <3> SUFFICES ASSUME NEW n \in Nodes
        PROVE  n \in Skipped' <=> \/ n \in Skipped' \cap (roots' \ {root'})
                                  \/ In(n)' # {} /\ AllSkipped(estate, n)'
      OBVIOUS
    <3>0. In(n)' = In(n) /\ (AllSkipped(estate, n)' <=> AllSkipped(estate', n))
      BY <1>1 DEF In, Into, AllSkipped
    <3>1. CASE n = h
      BY <1>3, <2>1, <3>0, <3>1
    <3>2. CASE n # h
      <4>1. n \in Skipped <=> n \in Skipped \cap (roots \ {root}) \/ (In(n) # {} /\ AllSkipped(estate, n))
        BY <2>1 DEF MarkInv
      <4>2. AllSkipped(estate', n) = AllSkipped(estate, n)
        BY <1>1, <3>2
      <4> QED
        BY <1>1, <1>3, <3>0, <4>1, <4>2
    <3> QED
      BY <3>1, <3>2
  <2>3. \A f \in edges' : estate'[f] = "SKIPPED" => f.tail \in Skipped' \ pending'
    BY <1>1, <1>3, <2>1 DEF MarkInv
  <2>4. \A f \in edges' : f.tail \in Skipped' \ pending' => estate'[f] = "SKIPPED" \/ f \in todo'
    BY <1>1, <1>3, <2>1 DEF TodoInv
  <2>5. ASSUME NEW f \in todo'
        PROVE  /\ estate'[f] = "UNKNOWN" /\ f.tail \in Skipped' \ pending'
               /\ \E i \in 1..Len(callStack') : callStack'[i] = f.tail
    <3>1. f \in todo /\ f # e /\ f \in edges
      BY DEF Core, TypeOK
    <3>2. /\ estate[f] = "UNKNOWN" /\ f.tail \in Skipped \ pending
          /\ \E i \in 1..Len(callStack) : callStack[i] = f.tail
      BY <2>1, <3>1 DEF TodoInv
    <3> QED
      BY <1>1, <1>3, <3>1, <3>2
  <2>6. pc' \notin {"validate", "graph"}
    BY <1>1
  <2> QED
    BY <2>2, <2>3, <2>4, <2>5, <2>6 DEF MarkInv, TodoInv
<1> QED
  BY <1>2, <1>4, <1>5, <1>6 DEF Core

LEMMA MarkEdgeCore == ASSUME Core, NEW e \in edges, MarkEdge(e) PROVE Core'
<1>1. CASE e.head \in Nodes /\ AllSkipped(estate', e.head)
  <2>1. /\ nstate' = [nstate EXCEPT ![e.head] = "SKIPPED"]
        /\ callStack' = Append(callStack, e.head) /\ todo' = (todo \ {e}) \cup Out(e.head) /\ pc' = pc
    BY <1>1 DEF MarkEdge
  <2> QED
    BY <1>1, <2>1, EnterCore
<1>2. CASE ~(e.head \in Nodes /\ AllSkipped(estate', e.head))
  <2>1. UNCHANGED <<nstate, callStack>> /\ todo' = todo \ {e}
    BY <1>2 DEF MarkEdge
  <2> QED
    BY <1>2, <2>1, PassCore
<1> QED
  BY <1>1, <1>2

LEMMA MarkReturnCore == ASSUME Core, MarkReturn PROVE Core'
<1> DEFINE top == Len(callStack)
<1>1. /\ UNCHANGED <<edges, root, failBranch, roots, nstate, estate, pending, todo, pc>>
      /\ pc = "mark" /\ callStack' = SubSeq(callStack, 1, top - 1)
      /\ \A e \in todo : e.tail # callStack[top]
      /\ callStack \in Seq(Nodes) /\ callStack # <<>>
  BY DEF MarkReturn, config, Core, TypeOK
<1>2. top \in Nat \ {0}
  BY <1>1, EmptySeq
<1>3. /\ callStack' \in Seq(Nodes) /\ Len(callStack') = top - 1
      /\ \A i \in 1..(top - 1) : callStack'[i] = callStack[i]
  <2>1. /\ top - 1 \in Nat /\ \A i \in 1..(top - 1) : callStack[i] \in Nodes
    BY <1>1, <1>2
  <2> HIDE DEF top
  <2>2. /\ callStack' \in Seq(Nodes)
        /\ Len(callStack') = IF 1 <= top - 1 THEN (top - 1) - 1 + 1 ELSE 0
        /\ \A i \in 1..((top - 1) - 1 + 1) : callStack'[i] = callStack[1 + i - 1]
    BY <1>1, <1>2, <2>1, SubSeqProperties
  <2> QED
    BY <1>2, <2>2
<1>4. TypeOK'
  BY <1>1, <1>3 DEF Core, TypeOK
<1>5. Skipped' = Skipped /\ RootsAreSources' = RootsAreSources
  BY <1>1 DEF Skipped, RootsAreSources, In, Into
<1>6. RootInv'
  BY <1>1, <1>5 DEF Core, RootInv
<1>7. ASSUME MarkInv PROVE MarkInv'
  <2>1. \A n \in Nodes : AllSkipped(estate, n)' = AllSkipped(estate, n) /\ In(n)' = In(n)
    BY <1>1 DEF AllSkipped, In, Into
  <2> QED
    BY <1>1, <1>5, <1>7, <2>1 DEF MarkInv
<1>8. ASSUME TodoInv PROVE TodoInv'
  <2>1. ASSUME NEW e \in todo PROVE \E i \in 1..Len(callStack') : callStack'[i] = e.tail
    <3>1. PICK i \in 1..top : callStack[i] = e.tail
      BY <1>8 DEF TodoInv
    <3>2. i # top
      BY <1>1, <3>1
    <3>3. i \in 1..(top - 1)
      BY <1>2, <3>1, <3>2
    <3> QED
      BY <1>3, <3>1, <3>3
  <2> QED
    BY <1>1, <1>5, <1>8, <2>1 DEF TodoInv
<1> QED
  BY <1>4, <1>5, <1>6, <1>7, <1>8 DEF Core

\* The steps that only say how far Graph.init has come.
LEMMA PhaseCore ==
  ASSUME Core, UNCHANGED <<config, roots, nstate, estate, pending, callStack, todo>>,
         \/ /\ pc = "mark" /\ pc' = "validate" /\ pending = {} /\ callStack = <<>>
         \/ /\ pc = "validate" /\ pc' = "graph" /\ Dangling = {} /\ RootIsValid
         \/ /\ pc = "validate" /\ pc' = "GraphValidationError"
  PROVE  Core'
<1>1. TypeOK' /\ Skipped' = Skipped /\ RootsAreSources' = RootsAreSources
  BY DEF Core, TypeOK, config, Over, Skipped, RootsAreSources, In, Into
<1>2. RootInv'
  <2>1. Dangling' = Dangling /\ RootIsValid' = RootIsValid
    BY DEF Dangling, RootIsValid, config
  <2> QED
    BY <1>1, <2>1 DEF Core, RootInv, config
<1>3. ASSUME MarkInv PROVE MarkInv'
  <2>1. \A n \in Nodes : AllSkipped(estate, n)' = AllSkipped(estate, n) /\ In(n)' = In(n)
    BY DEF AllSkipped, In, Into, config
  <2> QED
    BY <1>1, <1>3, <2>1 DEF MarkInv, config
<1>4. ASSUME TodoInv PROVE TodoInv'
  <2>1. pc' \in {"validate", "graph"} => todo' = {} /\ pending' = {}
    <3>1. CASE callStack = <<>> /\ pending = {}
      <4>1. todo = {}
        BY <1>4, <3>1 DEF TodoInv
      <4> QED
        BY <3>1, <4>1
    <3>2. CASE pc = "validate"
      BY <1>4, <3>2 DEF TodoInv
    <3> QED
      BY <3>1, <3>2
  <2> QED
    BY <1>1, <1>4, <2>1 DEF TodoInv, config
<1> QED
  BY <1>1, <1>2, <1>3, <1>4 DEF Core

LEMMA NextCore == Core /\ [Next]_vars => Core'
<1> SUFFICES ASSUME Core, [Next]_vars PROVE Core'
  OBVIOUS
<1>1. CASE Start
  BY <1>1, StartCore
<1>2. ASSUME NEW r \in Nodes, MarkRoot(r) PROVE Core'
  BY <1>2, MarkRootCore
<1>3. ASSUME NEW e \in edges, MarkEdge(e) PROVE Core'
  BY <1>3, MarkEdgeCore
<1>4. CASE MarkReturn
  BY <1>4, MarkReturnCore
<1>5. CASE Marked
  BY <1>5, PhaseCore DEF Marked
<1>6. CASE Validate
  BY <1>6, PhaseCore DEF Validate
<1>7. CASE UNCHANGED vars
  <2>1. TypeOK' /\ Skipped' = Skipped /\ RootsAreSources' = RootsAreSources
    BY <1>7 DEF Core, TypeOK, vars, config, Skipped, RootsAreSources, In, Into
  <2>2. Dangling' = Dangling /\ RootIsValid' = RootIsValid
    BY <1>7 DEF vars, config, Dangling, RootIsValid
  <2>3. RootInv'
    BY <1>7, <2>1, <2>2 DEF Core, RootInv, vars, config
  <2>4. \A n \in Nodes : AllSkipped(estate, n)' = AllSkipped(estate, n) /\ In(n)' = In(n)
    BY <1>7 DEF vars, config, AllSkipped, In, Into
  <2>5. (MarkInv => MarkInv') /\ (TodoInv => TodoInv')
    BY <1>7, <2>1, <2>4 DEF MarkInv, TodoInv, vars, config
  <2> QED
    BY <2>1, <2>3, <2>5 DEF Core
<1> QED
  BY <1>1, <1>2, <1>3, <1>4, <1>5, <1>6, <1>7 DEF Next, Step, Ended

\* The active root is never skipped.
LEMMA RootStays == ASSUME Core, RootsAreSources PROVE root \notin Skipped
<1> SUFFICES ASSUME root \in Skipped PROVE FALSE
  OBVIOUS
<1>1. root \in roots
  BY DEF Core, RootInv
<1>2. In(root) = {} /\ root \in Nodes
  BY <1>1 DEF RootsAreSources, Skipped
<1> QED
  BY <1>2 DEF Core, MarkInv

\* Every path from the active root keeps to nodes that are not skipped: an edge is
\* skipped only below a skipped node, and a node is skipped only with all its edges.
LEMMA CoreUntouched == Core => ActiveBranchUntouched
<1> SUFFICES ASSUME Core, RootsAreSources, NEW n \in Skipped PROVE ~IsDownstream(n)
  BY DEF ActiveBranchUntouched
<1> DEFINE S == Ids \ Skipped
<1>1. root \in S
  BY RootStays DEF Core, TypeOK
<1>2. ASSUME NEW e \in edges, e.tail \in S PROVE e.head \in S
  <2>1. e.head \in Ids /\ e \in In(e.head)
    BY InitAssumption DEF Core, TypeOK, In, Into
  <2>2. ~AllSkipped(estate, e.head) /\ e.head \notin roots
    BY <1>2, <2>1 DEF Core, MarkInv, AllSkipped, RootsAreSources
  <2>3. e.head \notin Skipped
    BY <2>2 DEF Core, MarkInv, Skipped
  <2> QED
    BY <2>1, <2>3
<1>3. S \in SUBSET Ids /\ n \notin S
  OBVIOUS
<1> HIDE DEF S
<1> QED
  BY <1>1, <1>2, <1>3 DEF IsDownstream

LEMMA CoreSound == Core => GraphIsSound
<1> SUFFICES ASSUME Core, pc = "graph" PROVE GraphIsSound
  BY DEF GraphIsSound
<1>1. root \in Nodes /\ roots = RootKind \ failBranch /\ Dangling = {} /\ RootIsValid
  BY DEF Core, RootInv
<1>2. \A e \in edges : e.tail \in Nodes /\ e.head \in Nodes
  BY <1>1 DEF Dangling
<1> QED
  BY <1>1, <1>2 DEF GraphIsSound, RootIsValid

\* With nothing left to visit, the marks are the closure of the inactive roots.
LEMMA CoreMarked == Core => GraphIsMarked
<1> SUFFICES ASSUME Core, pc = "graph", RootsAreSources
             PROVE  InitiallyMarked(Nodes, root, edges, estate, nstate)
  BY DEF GraphIsMarked
<1>1. MarkInv /\ todo = {} /\ pending = {}
  BY DEF Core, TodoInv
<1>2. root \in Nodes /\ root \notin Skipped /\ \A e \in edges : e.tail \in Nodes
  BY RootStays, CoreSound DEF GraphIsSound
<1>3. nstate[root] # "SKIPPED"
  BY <1>2 DEF Skipped
<1>4. ASSUME NEW n \in Nodes \ {root}, Into(edges, n) # {}
      PROVE  nstate[n] = "SKIPPED" <=> \A e \in Into(edges, n) : estate[e] = "SKIPPED"
  <2>1. n \notin roots
    BY <1>4 DEF RootsAreSources, In
  <2>2. n \in Skipped <=> AllSkipped(estate, n)
    BY <1>1, <1>4, <2>1 DEF MarkInv, In
  <2> QED
    BY <2>2 DEF Skipped, AllSkipped, In
<1>5. ASSUME NEW e \in edges PROVE estate[e] = "SKIPPED" <=> nstate[e.tail] = "SKIPPED"
  <2>1. estate[e] = "SKIPPED" <=> e.tail \in Skipped
    BY <1>1 DEF MarkInv, Core, TodoInv
  <2> QED
    BY <1>2, <2>1 DEF Skipped
<1> QED
  BY <1>3, <1>4, <1>5 DEF InitiallyMarked

\* Whatever the configuration and the order in which mark_downstream visits it: nothing
\* the active root leads to is ever skipped, and a graph that is returned has both ends
\* of its edges, a root to start at and the marks the engine starts from.
THEOREM Invariance == Spec => []Inv
<1>1. Core => Inv
  BY CoreUntouched, CoreSound, CoreMarked DEF Core, Inv
<1> QED
  BY <1>1, InitCore, NextCore, PTL DEF Spec
=============================================================================
