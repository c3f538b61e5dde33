----------------------------- MODULE MCGraphInit -----------------------------
(***************************************************************************)
(* Small configurations for Graph.init: three nodes of a root type, two    *)
(* inner ones, of which the first may also be a container's entry, and an  *)
(* id no node has.                                                         *)
(***************************************************************************)
EXTENDS GraphInit

MCRoots == {"start", "trigger", "datasource"}
MCNodes == MCRoots \cup {"a", "b"}
MCIds == MCNodes \cup {"missing"}

Link(t, h) == [tail |-> t, head |-> h]

\* No edge leads to a root; the inner nodes may form a cycle.
MCLinks == {Link(t, "a") : t \in {"start", "trigger", "b", "missing"}}
             \cup {Link(t, "b") : t \in {"trigger", "datasource", "a"}}
             \cup {Link("b", "missing")}
=============================================================================
