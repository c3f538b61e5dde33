--------------------------- MODULE Routing_proofs ---------------------------
(***************************************************************************)
(* Facts about what a result does to a graph, shared by the proofs of the  *)
(* engine and of the response coordinator.  Status is the set of statuses  *)
(* a node may have there.                                                  *)
(***************************************************************************)
EXTENDS Routing, TLAPS


\* An edge keeps its mark as long as its tail does.
LEMMA SameMarks ==
  ASSUME NEW e, NEW s, NEW t, NEW c, NEW d,
         s[e.tail] \in {"done", "skipped"} => t[e.tail] = s[e.tail] /\ d[e.tail] = c[e.tail]
  PROVE  /\ IsLive(e, s, c) => IsLive(e, t, d)
         /\ IsDead(e, s, c) => IsDead(e, t, d)
         /\ IsDecided(e, s, c) => IsDecided(e, t, d)
BY DEF IsLive, IsDead, IsDecided

\* What the skip propagation does: it skips waiting nodes whose inputs are then
\* all dead, and leaves none behind.
Propagated(Status, g, st, ch, s) ==
  /\ s \in [Nodes -> Status]
  /\ \A m \in Nodes : \/ s[m] = st[m]
                      \/ /\ st[m] = "waiting" /\ s[m] = "skipped" /\ Into(g, m) # {}
                         /\ \A e \in Into(g, m) : IsDead(e, s, ch)
  /\ \A m \in Nodes : s[m] = "waiting" /\ Into(g, m) # {} =>
                        \E e \in Into(g, m) : ~IsDead(e, s, ch)

LEMMA SkipFacts ==
  ASSUME NEW Status, {"done", "skipped"} \subseteq Status,
         NEW g, g \subseteq Links, NEW st \in [Nodes -> Status], NEW ch, NEW s,
         s = SkipPropagated(g, st, ch)
  PROVE  Propagated(Status, g, st, ch, s)
<1> DEFINE waiting == {n \in Nodes : st[n] = "waiting" /\ Into(g, n) # {}}
           Input(S, n) == \E e \in Into(g, n) : e.tail \notin S /\ ~IsDead(e, st, ch)
           closed == {S \in SUBSET waiting : \A n \in waiting \ S : Input(S, n)}
           skipped == {n \in waiting : \A S \in closed : n \in S}
<1>1. s = [n \in Nodes |-> IF n \in skipped THEN "skipped" ELSE st[n]]
  BY DEF SkipPropagated
<1>2. skipped \subseteq waiting /\ \A S \in closed : skipped \subseteq S
  OBVIOUS
<1>3. \A m \in Nodes : \A e \in Into(g, m) : e.tail \in Nodes
  BY GraphAssumption DEF Into
<1>4. ASSUME NEW m \in waiting, m \notin skipped PROVE Input(skipped, m)
  <2>1. PICK S \in closed : m \notin S
    BY <1>4
  <2>2. Input(S, m)
    BY <2>1
  <2> QED
    BY <1>2, <2>2
<1>5. ASSUME NEW e, e.tail \in Nodes
      PROVE  IsDead(e, s, ch) <=> e.tail \in skipped \/ IsDead(e, st, ch)
  <2> HIDE DEF skipped, waiting
  <2>1. e.tail \in skipped => s[e.tail] = "skipped"
    BY <1>1, <1>5
  <2>2. e.tail \notin skipped => s[e.tail] = st[e.tail]
    BY <1>1, <1>5
  <2>3. e.tail \in skipped => st[e.tail] = "waiting"
    BY <1>2 DEF waiting
  <2> QED
    BY <2>1, <2>2, <2>3 DEF IsDead
<1>6. ASSUME NEW m \in skipped, NEW e \in Into(g, m) PROVE IsDead(e, s, ch)
  <2> SUFFICES ASSUME e.tail \notin skipped, ~IsDead(e, st, ch) PROVE FALSE
    BY <1>2, <1>3, <1>5
  <2> DEFINE S == skipped \ {m}
  <2>1. \A n \in waiting \ S : Input(S, n)
    <3> SUFFICES ASSUME NEW n \in waiting \ S PROVE Input(S, n)
      OBVIOUS
    <3>1. CASE n = m
      BY <3>1
    <3>2. CASE n # m
      <4>1. Input(skipped, n)
        BY <1>4, <3>2
      <4> QED
        BY <4>1
    <3> QED
      BY <3>1, <3>2
  <2>2. S \in closed
    BY <1>2, <2>1
  <2> QED
    BY <1>2, <2>2
<1>7. s \in [Nodes -> Status]
  BY <1>1
<1>8. ASSUME NEW m \in Nodes, s[m] # st[m]
      PROVE  st[m] = "waiting" /\ s[m] = "skipped" /\ Into(g, m) # {} /\ m \in skipped
  BY <1>1, <1>8
<1>9. ASSUME NEW m \in Nodes, s[m] = "waiting", Into(g, m) # {}
      PROVE  \E e \in Into(g, m) : ~IsDead(e, s, ch)
  <2>1. m \notin skipped /\ m \in waiting
    BY <1>1, <1>9
  <2>2. PICK e \in Into(g, m) : e.tail \notin skipped /\ ~IsDead(e, st, ch)
    BY <1>4, <2>1
  <2> QED
    BY <1>3, <1>5, <2>2
<1> QED
  BY <1>6, <1>7, <1>8, <1>9 DEF Propagated

\* A node with a live input is not skipped.
LEMMA LiveOrDead ==
  ASSUME NEW e, NEW s, NEW c
  PROVE  /\ ~(IsLive(e, s, c) /\ IsDead(e, s, c))
         /\ IsDecided(e, s, c) <=> s[e.tail] \in {"done", "skipped"}
BY DEF IsLive, IsDead, IsDecided

\* What a result does to a graph.
Routed(Status, g, st, ch, n, h, r) ==
  /\ r.status \in [Nodes -> Status]
  /\ r.chosen \in [Nodes -> Handles \cup {NoHandle}]
  /\ r.status[n] = "done"
  /\ \A m \in Nodes : r.chosen[m] = IF m = n THEN h ELSE ch[m]
  /\ \A m \in Nodes \ {n} :
       \/ r.status[m] = st[m]
       \/ /\ st[m] = "waiting" /\ r.status[m] = "skipped" /\ Into(g, m) # {}
          /\ \A e \in Into(g, m) : IsDead(e, r.status, r.chosen)
  /\ \A m \in Nodes : r.status[m] = "waiting" /\ Into(g, m) # {} =>
                        \E e \in Into(g, m) : ~IsDead(e, r.status, r.chosen)
  /\ \A m \in Nodes :
       m \in r.skipFed \cup r.takeFed <=>
         /\ r.status[m] = "waiting" /\ IsFed(g, m, r.status, r.chosen)
         /\ \E e \in Into(g, m) : ~IsDecided(e, st, ch)
  /\ r.skipFed \subseteq Nodes /\ r.takeFed \subseteq Nodes /\ r.skipFed \cap r.takeFed = {}

LEMMA RouteFacts ==
  ASSUME NEW Status, {"done", "skipped"} \subseteq Status,
         NEW g, g \subseteq Links, NEW st \in [Nodes -> Status],
         NEW ch \in [Nodes -> Handles \cup {NoHandle}],
         NEW n \in Nodes, NEW h \in Handles \cup {NoHandle},
         NEW r, r = Route(g, st, ch, n, h)
  PROVE  Routed(Status, g, st, ch, n, h, r)
<1> DEFINE c == [ch EXCEPT ![n] = h]
           t == [st EXCEPT ![n] = "done"]
           s == SkipPropagated(g, t, c)
           fed == {m \in Nodes : /\ s[m] = "waiting"
                                 /\ IsFed(g, m, s, c)
                                 /\ \E e \in Into(g, m) : ~IsDecided(e, st, ch)}
           taken == {m \in fed : \E e \in Into(g, m) : e.tail = n /\ Selects(n, h, e)}
<1>1. r = [status |-> s, chosen |-> c, skipFed |-> fed \ taken, takeFed |-> taken]
  BY Zenon DEF Route
<1>2. t \in [Nodes -> Status] /\ t[n] = "done" /\ \A m \in Nodes \ {n} : t[m] = st[m]
  OBVIOUS
<1>3. c \in [Nodes -> Handles \cup {NoHandle}] /\ \A m \in Nodes : c[m] = IF m = n THEN h ELSE ch[m]
  OBVIOUS
<1> HIDE DEF c, t
<1>4. /\ s \in [Nodes -> Status]
      /\ \A m \in Nodes : \/ s[m] = t[m]
                          \/ /\ t[m] = "waiting" /\ s[m] = "skipped" /\ Into(g, m) # {}
                             /\ \A e \in Into(g, m) : IsDead(e, s, c)
      /\ \A m \in Nodes : s[m] = "waiting" /\ Into(g, m) # {} =>
                            \E e \in Into(g, m) : ~IsDead(e, s, c)
  <2>1. Propagated(Status, g, t, c, s)
    BY <1>2, SkipFacts
  <2> QED
    BY <2>1, Zenon DEF Propagated
<1> HIDE DEF s
<1>5. /\ r.status = s /\ r.chosen = c
      /\ r.skipFed \cup r.takeFed = fed /\ r.skipFed \cap r.takeFed = {}
      /\ r.skipFed \subseteq Nodes /\ r.takeFed \subseteq Nodes
  <2> HIDE DEF fed
  <2>1. taken \subseteq fed
    OBVIOUS
  <2> HIDE DEF taken
  <2>2. /\ r.status = s /\ r.chosen = c
        /\ r.skipFed = fed \ taken /\ r.takeFed = taken
    BY <1>1
  <2>3. fed \subseteq Nodes
    BY DEF fed
  <2> QED
    BY <2>1, <2>2, <2>3
<1>6. \A m \in Nodes : m \in fed <=> /\ s[m] = "waiting" /\ IsFed(g, m, s, c)
                                     /\ \E e \in Into(g, m) : ~IsDecided(e, st, ch)
  OBVIOUS
<1> HIDE DEF fed
<1>7. /\ \A m \in Nodes : r.chosen[m] = IF m = n THEN h ELSE ch[m]
      /\ r.status[n] = "done"
  BY <1>2, <1>3, <1>4, <1>5
<1>8. \A m \in Nodes \ {n} :
        \/ r.status[m] = st[m]
        \/ /\ st[m] = "waiting" /\ r.status[m] = "skipped" /\ Into(g, m) # {}
           /\ \A e \in Into(g, m) : IsDead(e, r.status, r.chosen)
  BY <1>2, <1>4, <1>5
<1>9. \A m \in Nodes :
        m \in r.skipFed \cup r.takeFed <=>
          /\ r.status[m] = "waiting" /\ IsFed(g, m, r.status, r.chosen)
          /\ \E e \in Into(g, m) : ~IsDecided(e, st, ch)
  BY <1>5, <1>6
<1> QED
  BY <1>3, <1>4, <1>5, <1>7, <1>8, <1>9 DEF Routed
=============================================================================
