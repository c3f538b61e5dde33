------------------------------ MODULE Dataflow ------------------------------
(***************************************************************************)
(* What a workflow run promises about the order of its nodes, with no      *)
(* queues, no edge marks and no threads: a node may run once every edge    *)
(* into it is decided and one of them is live; it is skipped once all of   *)
(* them are dead.  GraphTraversal.tla, the detailed model of the engine's  *)
(* edge processor and skip propagator, is shown to implement this module.  *)
(***************************************************************************)
EXTENDS Workflow

VARIABLES
  edges,   \* the graph's edges; never changes
  status,  \* node -> "waiting" | "enabled" | "done" | "skipped"
  chosen   \* node -> the handle of its result, NoHandle before

vars == <<edges, status, chosen>>

In(n)  == {e \in edges : e.head = n}
Out(n) == {e \in edges : e.tail = n}

Live(e) == status[e.tail] = "done" /\ Selects(e.tail, chosen[e.tail], e)
Dead(e) == \/ status[e.tail] = "skipped"
           \/ status[e.tail] = "done" /\ ~Selects(e.tail, chosen[e.tail], e)

\* Before the run, inactive roots are skipped and so is whatever depends only
\* on them.
Init ==
  /\ edges \in SUBSET Links
  /\ status \in [Nodes -> {"waiting", "enabled", "skipped"}]
  /\ chosen = [n \in Nodes |-> NoHandle]
  /\ \A n \in Nodes : status[n] = "enabled" <=> n = Root
  /\ \A n \in Nodes \ {Root} :
       In(n) # {} => (status[n] = "skipped" <=> \A e \in In(n) : Dead(e))

Enable(n) ==
  /\ status[n] = "waiting"
  /\ \A e \in In(n) : Live(e) \/ Dead(e)
  /\ \E e \in In(n) : Live(e)
  /\ status' = [status EXCEPT ![n] = "enabled"]
  /\ UNCHANGED <<edges, chosen>>

Skip(n) ==
  /\ status[n] = "waiting"
  /\ In(n) # {}
  /\ \A e \in In(n) : Dead(e)
  /\ status' = [status EXCEPT ![n] = "skipped"]
  /\ UNCHANGED <<edges, chosen>>

Finish(n, h) ==
  /\ status[n] = "enabled"
  /\ status' = [status EXCEPT ![n] = "done"]
  /\ chosen' = [chosen EXCEPT ![n] = h]
  /\ UNCHANGED edges

Next == \E n \in Nodes : Enable(n) \/ Skip(n) \/ \E h \in Handles : Finish(n, h)

Spec == Init /\ [][Next]_vars

Fairness == \A n \in Nodes : /\ WF_vars(Enable(n))
                             /\ WF_vars(Skip(n))
                             /\ WF_vars(\E h \in Handles : Finish(n, h))

FairSpec == Spec /\ Fairness
=============================================================================
