------------------------------ MODULE GraphInit ------------------------------
(***************************************************************************)
(* Graph.init: promotion of fail-branch nodes, the marking of inactive     *)
(* root branches and the validation that follows it.                       *)
(*                                                                         *)
(* mark_downstream is recursive: callStack holds the nodes whose loops     *)
(* over outgoing edges are active, innermost last, and todo the edges they *)
(* have still to visit.  Nodes and edges come in the order of the graph's  *)
(* configuration, so any may be next.  The configuration is a set of       *)
(* variables that never change.                                            *)
(***************************************************************************)
EXTENDS GraphMarks, Integers, FiniteSets, Sequences

CONSTANTS
  Ids,      \* node ids, those that edges mention but no node has included
  Nodes,    \* ids of the configured nodes
  Entries,  \* nodes of type iteration-start or loop-start
  RootKind, \* nodes whose class declares execution type ROOT
  Links     \* the edges a configuration may have

ASSUME InitAssumption ==
  /\ Nodes \subseteq Ids
  /\ Entries \cup RootKind \subseteq Nodes
  /\ Links \subseteq [tail : Ids, head : Ids]

VARIABLES
  edges,       \* the configured edges; never changes
  root,        \* root_node_id; never changes
  failBranch,  \* root nodes with the fail-branch error strategy; never changes
  roots,       \* nodes of execution type ROOT
  nstate,      \* node -> NodeState
  estate,      \* edge -> NodeState
  pending,     \* inactive roots mark_downstream is still to be called for
  callStack,   \* its active calls, innermost last
  todo,        \* the edges these calls have still to visit
  pc           \* "start", "mark", "validate", or how init ended

config == <<edges, root, failBranch>>
vars == <<config, roots, nstate, estate, pending, callStack, todo, pc>>

In(n)  == Into(edges, n)
Out(n) == {e \in edges : e.tail = n}

Init ==
  /\ edges \in SUBSET Links
  /\ root \in Ids
  /\ failBranch \in SUBSET RootKind
  /\ roots = RootKind
  /\ nstate = [n \in Nodes |-> "UNKNOWN"]
  /\ estate = [e \in edges |-> "UNKNOWN"]
  /\ pending = {}
  /\ callStack = <<>>
  /\ todo = {}
  /\ pc = "start"

\* top_level_roots without the active one, when there are several and the
\* active one is among them
Inactive(rs) == IF Cardinality(rs) <= 1 \/ root \notin rs THEN {} ELSE rs \ {root}

\* The root must exist; fail-branch nodes become BRANCH nodes, root nodes among
\* them too; the inactive roots are skipped.
Start ==
  /\ pc = "start"
  /\ IF root \notin Nodes
     THEN /\ pc' = "ValueError"
          /\ UNCHANGED <<roots, nstate, pending>>
     ELSE /\ roots' = roots \ failBranch
          /\ pending' = Inactive(roots')
          /\ nstate' = [n \in Nodes |-> IF n \in pending' THEN "SKIPPED" ELSE "UNKNOWN"]
          /\ pc' = "mark"
  /\ UNCHANGED <<config, estate, callStack, todo>>

\* A slip: the root just visited stays in the list.
MarkRootAgain(r) ==
  /\ pc = "mark"
  /\ callStack = <<>>
  /\ r \in pending
  /\ callStack' = <<r>>
  /\ todo' = Out(r)
  /\ UNCHANGED <<config, roots, nstate, estate, pending, pc>>

\* mark_downstream is called for an inactive root ...
MarkRoot(r) ==
  /\ pc = "mark"
  /\ callStack = <<>>
  /\ r \in pending
  /\ pending' = pending \ {r}
  /\ callStack' = <<r>>
  /\ todo' = Out(r)
  /\ UNCHANGED <<config, roots, nstate, estate, pc>>

\* A slip: the node below is skipped at its first skipped edge.
AllSkippedAny(s, n) == \E e \in In(n) : s[e] = "SKIPPED"

\* the test of in_edge_states
AllSkipped(s, n) == \A e \in In(n) : s[e] = "SKIPPED"

\* ... and skips an edge of the innermost loop: the lookup of its head fails,
\* or the node below is skipped with its last edge and its own loop entered.
MarkEdge(e) ==
  /\ pc = "mark"
  /\ callStack # <<>>
  /\ e \in todo
  /\ e.tail = callStack[Len(callStack)]
  /\ estate' = [estate EXCEPT ![e] = "SKIPPED"]
  /\ \/ /\ e.head \notin Nodes
        /\ pc' = "KeyError"
        /\ todo' = todo \ {e}
        /\ UNCHANGED <<nstate, callStack>>
     \/ /\ e.head \in Nodes
        /\ AllSkipped(estate', e.head)
        /\ nstate' = [nstate EXCEPT ![e.head] = "SKIPPED"]
        /\ callStack' = Append(callStack, e.head)
        /\ todo' = (todo \ {e}) \cup Out(e.head)
        /\ UNCHANGED pc
     \/ /\ e.head \in Nodes
        /\ ~AllSkipped(estate', e.head)
        /\ todo' = todo \ {e}
        /\ UNCHANGED <<nstate, callStack, pc>>
  /\ UNCHANGED <<config, roots, pending>>

\* The innermost loop has visited all its edges.
MarkReturn ==
  /\ pc = "mark"
  /\ callStack # <<>>
  /\ \A e \in todo : e.tail # callStack[Len(callStack)]
  /\ callStack' = SubSeq(callStack, 1, Len(callStack) - 1)
  /\ UNCHANGED <<config, roots, nstate, estate, pending, todo, pc>>

\* A slip: the last inactive root is not looked at.
MarkedButOne ==
  /\ pc = "mark"
  /\ Cardinality(pending) <= 1
  /\ callStack = <<>>
  /\ pc' = "validate"
  /\ UNCHANGED <<config, roots, nstate, estate, pending, callStack, todo>>

Marked ==
  /\ pc = "mark"
  /\ pending = {}
  /\ callStack = <<>>
  /\ pc' = "validate"
  /\ UNCHANGED <<config, roots, nstate, estate, pending, callStack, todo>>

\* _EdgeEndpointValidator
Dangling == {e \in edges : {e.tail, e.head} \cap Nodes # {e.tail, e.head}}

\* _RootNodeValidator
RootIsValid == root \in roots \cup Entries

\* The two rules of GraphValidator
Validate ==
  /\ pc = "validate"
  /\ pc' = IF Dangling = {} /\ RootIsValid THEN "graph" ELSE "GraphValidationError"
  /\ UNCHANGED <<config, roots, nstate, estate, pending, callStack, todo>>

Over == {"graph", "ValueError", "KeyError", "GraphValidationError"}

Ended == pc \in Over /\ UNCHANGED vars

Step ==
  \/ Start
  \/ \E r \in Nodes : MarkRoot(r)
  \/ \E e \in edges : MarkEdge(e)
  \/ MarkReturn
  \/ Marked
  \/ Validate

Next == Step \/ Ended

Spec == Init /\ [][Next]_vars /\ WF_vars(Step)
-----------------------------------------------------------------------------
\* Type invariant: the state is well-formed.
TypeOK ==
  /\ edges \subseteq Links
  /\ root \in Ids
  /\ failBranch \subseteq RootKind
  /\ roots \subseteq RootKind
  /\ nstate \in [Nodes -> NodeState \ {"TAKEN"}]
  /\ estate \in [edges -> NodeState \ {"TAKEN"}]
  /\ pending \subseteq roots
  /\ callStack \in Seq(Nodes)
  /\ todo \subseteq edges
  /\ pc \in {"start", "mark", "validate"} \cup Over

\* No edge leads to a root.
RootsAreSources == \A r \in roots : In(r) = {}

\* What GraphTraversal.tla starts from: provided no edge leads to a root, a
\* graph is handed to the engine with exactly the parts marked that depend only
\* on inactive roots, in whatever order the roots and the edges were visited.
GraphIsMarked ==
  pc = "graph" /\ RootsAreSources => InitiallyMarked(Nodes, root, edges, estate, nstate)

Skipped == {n \in Nodes : nstate[n] = "SKIPPED"}

\* Reference definition: there is a path of edges from the active root to n.
IsDownstream(n) ==
  \A S \in SUBSET Ids :
    root \in S /\ (\A e \in edges : e.tail \in S => e.head \in S) => n \in S

\* At no moment is a node skipped that the active root leads to: skipping is
\* never taken back, so one node too many silences a part of every run.
ActiveBranchUntouched == RootsAreSources => \A n \in Skipped : ~IsDownstream(n)

\* A graph the engine gets has both ends of every edge and a root it may start
\* at, although the marking has already dereferenced edges before the check.
GraphIsSound ==
  pc = "graph" => /\ root \in Nodes
                  /\ \A e \in edges : e.tail \in Nodes /\ e.head \in Nodes
                  /\ root \in (RootKind \ failBranch) \cup Entries

\* The inductive part: what is known of the root and the root nodes, ...
RootInv ==
  /\ pc = "start" => /\ roots = RootKind /\ Skipped = {} /\ todo = {}
                     /\ \A e \in edges : estate[e] = "UNKNOWN"
  /\ pc \notin {"start", "ValueError"} => root \in Nodes /\ roots = RootKind \ failBranch
  /\ pending \subseteq Skipped \ {root}
  /\ root \notin roots => Skipped = {} /\ todo = {}
  /\ pc = "graph" => Dangling = {} /\ RootIsValid

\* ... why a node or an edge is skipped, ...
MarkInv ==
  /\ \A n \in Nodes : n \in Skipped <=> \/ n \in Skipped \cap (roots \ {root})
                                        \/ In(n) # {} /\ AllSkipped(estate, n)
  /\ \A e \in edges : estate[e] = "SKIPPED" => e.tail \in Skipped \ pending

\* ... and which edges below a skipped node are still to be visited.
TodoInv ==
  /\ \A e \in edges : e.tail \in Skipped \ pending => estate[e] = "SKIPPED" \/ e \in todo
  /\ \A e \in todo : /\ estate[e] = "UNKNOWN" /\ e.tail \in Skipped \ pending
                     /\ \E i \in 1..Len(callStack) : callStack[i] = e.tail
  /\ pc \in {"validate", "graph"} => todo = {} /\ pending = {}

\* The state is well-formed; the active branch is never skipped, and the graph that
\* comes out is sound and marked.
Inv ==
  /\ TypeOK /\ RootInv /\ (RootsAreSources => MarkInv /\ TodoInv)
  /\ ActiveBranchUntouched /\ GraphIsSound /\ GraphIsMarked

\* Graph.init ends, on graphs with cycles too, as long as no edge leads to a
\* root: a node is entered with its last edge only.
InitEnds == <>(pc \in Over)
=============================================================================
