----------------------------- MODULE GraphMarks -----------------------------
(***************************************************************************)
(* The marks of a graph's nodes and edges, and what Graph.init promises    *)
(* the engine about them: GraphInit.tla establishes InitiallyMarked,       *)
(* GraphTraversal.tla starts from it.                                      *)
(***************************************************************************)
NodeState == {"UNKNOWN", "TAKEN", "SKIPPED"}

Into(edges, n) == {e \in edges : e.head = n}

\* Nothing on the way from the active root is skipped; whatever depends only
\* on inactive roots is, and no other edge.
InitiallyMarked(nodes, root, edges, estate, nstate) ==
  /\ nstate[root] # "SKIPPED"
  /\ \A n \in nodes \ {root} :
       Into(edges, n) # {} =>
         (nstate[n] = "SKIPPED" <=> \A e \in Into(edges, n) : estate[e] = "SKIPPED")
  /\ \A e \in edges : estate[e] = "SKIPPED" <=> nstate[e.tail] = "SKIPPED"
=============================================================================
