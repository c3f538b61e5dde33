---------------------------- MODULE MCGraphEngine ----------------------------
(***************************************************************************)
(* A run of the engine on a few small graphs.  Node a is the root, b may   *)
(* branch, c and d follow; d joins them.                                   *)
(***************************************************************************)
EXTENDS GraphEngine

MCNodes == {"a", "b", "c", "d"}
MCHandles == {"source", "else", "fail-branch"}
Link(t, h, s) == [tail |-> t, head |-> h, handle |-> s]

\* A diamond: b joins c at d when it fails, and leaves d to c when it does not.
Diamond == {Link("a", "b", "source"), Link("a", "c", "source"),
            Link("b", "d", "fail-branch"), Link("c", "d", "source")}
\* b selects c or d.
Fork == {Link("a", "b", "source"), Link("b", "c", "source"), Link("b", "d", "else")}

MCLinks == Diamond \cup Fork
MCGraphs == {Diamond, Fork}
ASSUME GraphsAreRooted == \A g \in Graphs : IsRooted(g)

\* In the diamond a failure of b takes the fail branch and one of c ends the
\* run; in the fork both have default values, which b, a branch, cannot use.
ByGraph ==
  [g \in MCGraphs |->
    [n \in MCNodes |->
      CASE g = Diamond /\ n = "b" -> "fail-branch"
        [] g = Fork /\ n \in {"b", "c"} -> "default-value"
        [] OTHER -> "none"]]
\* No layer, or one that a run of three nodes exceeds.
MCStepLimits == {NoLimit, 2}
OneRetry == [n \in MCNodes |-> IF n = "b" THEN 1 ELSE 0]
=============================================================================
