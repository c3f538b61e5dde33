-------------------------- MODULE MCGraphTraversal --------------------------
(***************************************************************************)
(* Every workflow whose edges are among a fixed set: node 1 is the root,   *)
(* the nodes of MCBranches are branch nodes with two handles, and an edge  *)
(* leads from a smaller node to a larger one.                              *)
(***************************************************************************)
EXTENDS GraphTraversal

CONSTANTS N, MCBranches

MCNodes == 1..N
MCHandles == {"source", "fail-branch"}
MCLinks == {[tail |-> i, head |-> j, handle |-> h] : i, j \in MCNodes, h \in MCHandles}
             \cap {e \in [tail : MCNodes, head : MCNodes, handle : MCHandles] :
                     e.tail < e.head /\ (e.handle = "source" \/ e.tail \in MCBranches)}

\* What the proof about StopsWhenDone asks for.
ASSUME MCAcyclic == Acyclic
=============================================================================
