------------------------------ MODULE Workflow ------------------------------
(***************************************************************************)
(* The static part of a workflow graph, shared by the specifications of    *)
(* its traversal: what Graph.init hands to the engine.                     *)
(*                                                                         *)
(* An edge is the record [tail, head, handle] of graph/edge.py; two edges  *)
(* that agree on the three behave as one.  The root has no incoming edge:  *)
(* the validators check its execution type only, and an edge back to it    *)
(* would run it, and with it the whole graph, again.                       *)
(***************************************************************************)
CONSTANTS
  Nodes,      \* ids of the graph's nodes
  Handles,    \* source handles a node may select
  Branches,   \* nodes of execution type BRANCH (FAIL_BRANCH nodes included)
  Root,       \* the active root
  Links,      \* the edges a graph may have
  NoHandle    \* "this node has produced no result"

ASSUME GraphAssumption ==
  /\ Root \in Nodes
  /\ Branches \subseteq Nodes
  /\ Links \subseteq [tail : Nodes, head : Nodes, handle : Handles]
  /\ \A e \in Links : e.head # Root
  /\ NoHandle \notin Handles

\* categorize_branch_edges: the handle matters on branch nodes only, any other
\* node takes every outgoing edge.
Selects(n, h, e) == n \in Branches => e.handle = h
=============================================================================
