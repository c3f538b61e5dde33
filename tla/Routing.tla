------------------------------- MODULE Routing -------------------------------
(***************************************************************************)
(* What one result does to a graph, as a whole: the effect of a complete   *)
(* pass of the edge processor and the skip propagator, which               *)
(* GraphTraversal.tla models step by step.  Between two handlers the marks *)
(* of edges and nodes follow from the nodes' statuses, so that the status  *)
(* of each node and the handle of its result are the whole state           *)
(* (ClosedBetweenHandlers in GraphTraversal.tla).                          *)
(***************************************************************************)
EXTENDS Workflow, GraphMarks, Integers, FiniteSets

\* A graph without cycles: among any nodes one is before the others.
IsAcyclic(g) ==
  \A S \in SUBSET Nodes : S # {} => \E n \in S : \A e \in Into(g, n) : e.tail \notin S

\* A graph without cycles that hangs together.
IsRooted(g) == IsAcyclic(g) /\ \A n \in Nodes \ {Root} : Into(g, n) # {}

IsLive(e, status, chosen) ==
  status[e.tail] = "done" /\ Selects(e.tail, chosen[e.tail], e)

IsDead(e, status, chosen) ==
  \/ status[e.tail] = "skipped"
  \/ status[e.tail] = "done" /\ ~Selects(e.tail, chosen[e.tail], e)

IsDecided(e, status, chosen) == IsLive(e, status, chosen) \/ IsDead(e, status, chosen)

\* Every input of n is decided and one is live.
IsFed(g, n, status, chosen) ==
  /\ \A e \in Into(g, n) : IsDecided(e, status, chosen)
  /\ \E e \in Into(g, n) : IsLive(e, status, chosen)

\* The statuses once the waiting nodes with dead inputs only are skipped, and
\* those below them: the least set that the propagation is closed under.
SkipPropagated(g, status, chosen) ==
  LET waiting == {n \in Nodes : status[n] = "waiting" /\ Into(g, n) # {}}
      closed == {S \in SUBSET waiting :
                   \A n \in waiting \ S :
                     \E e \in Into(g, n) : e.tail \notin S /\ ~IsDead(e, status, chosen)}
      skipped == {n \in waiting : \A S \in closed : n \in S}
  IN  [n \in Nodes |-> IF n \in skipped THEN "skipped" ELSE status[n]]

\* n has finished with handle h: the new statuses and handles, the nodes that
\* the skip propagation found ready and enqueues itself, and those that the
\* selected edges made ready, which process_node_success returns.
Route(g, status, chosen, n, h) ==
  LET c == [chosen EXCEPT ![n] = h]
      s == SkipPropagated(g, [status EXCEPT ![n] = "done"], c)
      fed == {m \in Nodes : /\ s[m] = "waiting"
                            /\ IsFed(g, m, s, c)
                            /\ \E e \in Into(g, m) : ~IsDecided(e, status, chosen)}
      taken == {m \in fed : \E e \in Into(g, m) : e.tail = n /\ Selects(n, h, e)}
  IN  [status |-> s, chosen |-> c, skipFed |-> fed \ taken, takeFed |-> taken]
=============================================================================
