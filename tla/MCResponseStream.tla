-------------------------- MODULE MCResponseStream --------------------------
(***************************************************************************)
(* Two responses r and s.  Node a is the root, b streams and may take its  *)
(* fail branch, c streams, d has a default value.                          *)
(***************************************************************************)
EXTENDS ResponseStream

MCNodes == {"a", "b", "c", "d", "r", "s"}
MCHandles == {"source", "fail-branch"}
Link(t, h) == [tail |-> t, head |-> h, handle |-> "source"]
FailLink(t, h) == [tail |-> t, head |-> h, handle |-> "fail-branch"]

\* b decides between c and d, which lead to a response each.
Fork == {Link("a", "b"), Link("b", "c"), FailLink("b", "d"), Link("c", "r"), Link("d", "s")}
\* b, c and d in parallel; all of them feed r, c and d feed s too.
Parallel == {Link("a", "b"), Link("a", "c"), Link("a", "d"), Link("b", "r"), FailLink("b", "r"),
             Link("c", "r"), Link("d", "r"), Link("c", "s"), Link("d", "s"), Link("b", "s")}
\* r is answered first, then the branch decides whether s is.
Chain == {Link("a", "c"), Link("c", "r"), Link("r", "b"), Link("b", "d"), Link("d", "s"), FailLink("b", "s")}

MCGraphs == {Fork, Parallel, Chain}
MCLinks == UNION MCGraphs
MCResponses == <<"r", "s">>
\* a assigns a variable that s shows.
MCAssigners == {<<"a", "s">>}
MCTemplate == [r |-> <<"text", "c", "text">>, s |-> <<"c", "d", "text">>]

\* The hypotheses of the theorems hold of the three graphs.
ASSUME GraphsAreSound == \A g \in Graphs : IsRooted(g) /\ SourcesPrecede(g)
=============================================================================
