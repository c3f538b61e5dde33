------------------------- MODULE GraphEngine_proofs -------------------------
(***************************************************************************)
(* Proofs about GraphEngine.tla: whatever the graph, the number of nodes,  *)
(* of workers and of runs, no node is in two places, the executing set is  *)
(* exact, the limits are kept, a reported pause can be resumed, and a run  *)
(* that succeeds is complete.                                              *)
(***************************************************************************)
EXTENDS GraphEngine, Routing_proofs, FiniteSetTheorems, SequenceTheorems, LoopTheorems

\* The inductive part of Inv: what the other conjuncts follow from.
Core ==
  /\ TypeOK /\ PlaceInv /\ StatusInv /\ GraphInv
  /\ PhaseInv /\ SentInv /\ StartInv /\ CountInv
-----------------------------------------------------------------------------
\* The graph.

\* Held back or not, the nodes a result makes ready were waiting for it, and the
\* reasons of every node's status survive.
GraphKept(n, ns, held) ==
  /\ GraphInv'
  /\ status' \in [Nodes -> NodeStatus] /\ chosen' \in [Nodes -> Handles \cup {NoHandle}]
  /\ ns \subseteq Nodes /\ held \subseteq Nodes
  /\ \A m \in ns \cup held : status[m] = "waiting" /\ m \notin Held
  /\ \A m \in Nodes : m \in Held' => status'[m] = "waiting"
  /\ \A m \in Nodes : status'[m] = "enabled" <=> m \in ns \/ (m # n /\ status[m] = "enabled")

LEMMA ProceedKeepsGraph ==
  ASSUME TypeOK, StatusInv, GraphInv,
         NEW n \in Nodes, status[n] = "enabled", NEW h \in Handles \cup {NoHandle},
         NEW r, r = Route(edges, status, chosen, n, h),
         NEW ns, NEW held, ns \cup held = r.skipFed \cup r.takeFed, ns \cap held = {},
         edges' = edges, chosen' = r.chosen,
         status' = [m \in Nodes |-> IF m \in ns THEN "enabled" ELSE r.status[m]],
         Held' = Held \cup held
  PROVE  GraphKept(n, ns, held)
<1>a. /\ edges \subseteq Links /\ status \in [Nodes -> NodeStatus]
      /\ chosen \in [Nodes -> Handles \cup {NoHandle}]
  BY EngineAssumption DEF TypeOK
<1>b. Routed(NodeStatus, edges, status, chosen, n, h, r)
  BY <1>a, RouteFacts DEF NodeStatus
<1>0. edges \subseteq Links /\ r.status \in [Nodes -> NodeStatus]
      /\ r.chosen \in [Nodes -> Handles \cup {NoHandle}]
      /\ ns \subseteq Nodes /\ held \subseteq Nodes
  BY <1>a, <1>b DEF Routed
<1>1. /\ r.status[n] = "done"
      /\ \A m \in Nodes \ {n} :
           \/ r.status[m] = status[m]
           \/ /\ status[m] = "waiting" /\ r.status[m] = "skipped" /\ Into(edges, m) # {}
              /\ \A e \in Into(edges, m) : IsDead(e, r.status, r.chosen)
  BY <1>b DEF Routed
<1>2. \A m \in Nodes : r.chosen[m] = IF m = n THEN h ELSE chosen[m]
  BY <1>b DEF Routed
<1>3. \A m \in Nodes : r.status[m] = "waiting" /\ Into(edges, m) # {} =>
                         \E e \in Into(edges, m) : ~IsDead(e, r.status, r.chosen)
  BY <1>b DEF Routed
<1>4. \A m \in Nodes :
        m \in ns \cup held <=>
          /\ r.status[m] = "waiting" /\ IsFed(edges, m, r.status, r.chosen)
          /\ \E e \in Into(edges, m) : ~IsDecided(e, status, chosen)
  BY <1>b DEF Routed
<1>5. \A m \in Nodes : \A e \in Into(edges, m) : e \in edges /\ e.tail \in Nodes /\ m # Root
  BY <1>0, GraphAssumption DEF Into
<1>6. \A m \in Nodes : Into(edges', m) = Into(edges, m)
  OBVIOUS
\* Marks only grow.
<1>7. \A m \in Nodes : \A e \in Into(edges, m) :
        /\ IsLive(e, status, chosen) => IsLive(e, status', chosen')
        /\ IsDead(e, status, chosen) => IsDead(e, status', chosen')
  <2> SUFFICES ASSUME NEW m \in Nodes, NEW e \in Into(edges, m)
               PROVE  /\ IsLive(e, status, chosen) => IsLive(e, status', chosen')
                      /\ IsDead(e, status, chosen) => IsDead(e, status', chosen')
    OBVIOUS
  <2>1. ASSUME status[e.tail] \in {"done", "skipped"}
        PROVE  status'[e.tail] = status[e.tail] /\ chosen'[e.tail] = chosen[e.tail]
    <3>1. e.tail \in Nodes \ {n} /\ r.status[e.tail] = status[e.tail]
      BY <1>1, <1>5, <2>1
    <3>2. e.tail \notin ns
      BY <1>4, <2>1, <3>1
    <3> QED
      BY <1>2, <3>1, <3>2
  <2> QED
    BY <2>1, SameMarks
<1>8. \A m \in Nodes : \A e \in Into(edges, m) :
        /\ IsLive(e, r.status, r.chosen) <=> IsLive(e, status', chosen')
        /\ IsDead(e, r.status, r.chosen) <=> IsDead(e, status', chosen')
  <2> SUFFICES ASSUME NEW m \in Nodes, NEW e \in Into(edges, m)
               PROVE  /\ IsLive(e, r.status, r.chosen) <=> IsLive(e, status', chosen')
                      /\ IsDead(e, r.status, r.chosen) <=> IsDead(e, status', chosen')
    OBVIOUS
  <2>1. \/ status'[e.tail] = r.status[e.tail]
        \/ r.status[e.tail] = "waiting" /\ status'[e.tail] = "enabled"
    BY <1>4, <1>5
  <2> QED
    BY <2>1 DEF IsLive, IsDead
<1>9. \A m \in Nodes : IsFed(edges', m, status', chosen') <=> IsFed(edges, m, r.status, r.chosen)
  <2> SUFFICES ASSUME NEW m \in Nodes
               PROVE  IsFed(edges', m, status', chosen') <=> IsFed(edges, m, r.status, r.chosen)
    OBVIOUS
  <2> QED
    BY <1>6, <1>8 DEF IsFed, IsDecided
<1>10. \A m \in Nodes : IsFed(edges, m, status, chosen) => IsFed(edges', m, status', chosen')
  <2> SUFFICES ASSUME NEW m \in Nodes, IsFed(edges, m, status, chosen)
               PROVE  IsFed(edges', m, status', chosen')
    OBVIOUS
  <2> QED
    BY <1>6, <1>7 DEF IsFed, IsDecided
\* Who was waiting for the result.
<1>11. ASSUME NEW m \in ns \cup held
       PROVE  m \in Nodes /\ status[m] = "waiting" /\ m \notin Held /\ m # n
  <2>1. m \in Nodes /\ r.status[m] = "waiting" /\ m # n /\ status[m] = "waiting"
    BY <1>0, <1>1, <1>4
  <2>2. PICK e \in Into(edges, m) : ~IsDecided(e, status, chosen)
    BY <1>4, <2>1
  <2>3. m # Root /\ ~IsFed(edges, m, status, chosen)
    BY <1>5, <2>1, <2>2 DEF IsFed
  <2> QED
    BY <2>1, <2>3 DEF GraphInv
<1>12. ASSUME NEW m \in Held, m \in Nodes
       PROVE  status[m] = "waiting" /\ r.status[m] = "waiting" /\ m \notin ns /\ m # n
  <2>1. status[m] = "waiting" /\ m # n /\ m \notin ns
    BY <1>11, <1>12 DEF StatusInv
  <2>2. m = Root \/ IsFed(edges, m, status, chosen)
    BY <1>12 DEF GraphInv
  <2>3. ASSUME r.status[m] # "waiting" PROVE FALSE
    <3>1. /\ Into(edges, m) # {}
          /\ \A e \in Into(edges, m) : IsDead(e, r.status, r.chosen)
      BY <1>1, <1>12, <2>1, <2>3
    <3>2. PICK e \in Into(edges, m) : IsLive(e, status, chosen)
      BY <1>5, <1>12, <2>2, <3>1 DEF IsFed
    <3>3. IsLive(e, r.status, r.chosen)
      BY <1>7, <1>8, <1>12, <3>2
    <3> QED
      BY <3>1, <3>3, LiveOrDead
  <2> QED
    BY <2>1, <2>3
<1>13. status' \in [Nodes -> NodeStatus]
  BY <1>0 DEF NodeStatus
<1>14. ASSUME NEW m \in Nodes, m \in Held' PROVE status'[m] = "waiting"
  <2>1. CASE m \in held
    BY <1>4, <2>1
  <2>2. CASE m \in Held
    BY <1>12, <2>2
  <2> QED
    BY <1>14, <2>1, <2>2
<1>15. ASSUME NEW m \in Nodes
       PROVE  status'[m] = "enabled" <=> m \in ns \/ (m # n /\ status[m] = "enabled")
  BY <1>1
\* The conjuncts of GraphInv.
<1>16. ASSUME NEW m \in Nodes, status'[m] \in {"enabled", "done"} \/ m \in Held'
       PROVE  m = Root \/ IsFed(edges', m, status', chosen')
  <2>1. CASE m \in ns \cup held
    BY <1>4, <1>9, <2>1
  <2>2. CASE m \notin ns \cup held
    <3>1. status[m] \in {"enabled", "done"} \/ m \in Held
      BY <1>1, <1>16, <2>2
    <3> QED
      BY <1>10, <3>1 DEF GraphInv
  <2> QED
    BY <2>1, <2>2
<1>17. ASSUME NEW m \in Nodes, status'[m] = "skipped"
       PROVE  m # Root /\ \A e \in Into(edges', m) : IsDead(e, status', chosen')
  <2>1. r.status[m] = "skipped" /\ m # n
    BY <1>1, <1>17
  <2>2. CASE status[m] = "skipped"
    BY <1>6, <1>7, <2>2 DEF GraphInv
  <2>3. CASE status[m] # "skipped"
    <3>1. /\ Into(edges, m) # {}
          /\ \A e \in Into(edges, m) : IsDead(e, r.status, r.chosen)
      BY <1>1, <2>1, <2>3
    <3> QED
      BY <1>5, <1>6, <1>8, <3>1
  <2> QED
    BY <2>2, <2>3
<1>18. ASSUME NEW m \in Nodes, status'[m] = "waiting"
       PROVE  /\ m = Root \/ IsFed(edges', m, status', chosen') => m \in Held'
              /\ Into(edges', m) # {} => \E e \in Into(edges', m) : ~IsDead(e, status', chosen')
  <2>1. r.status[m] = "waiting" /\ m \notin ns /\ m # n /\ status[m] = "waiting"
    BY <1>1, <1>18
  <2>2. Into(edges', m) # {} => \E e \in Into(edges', m) : ~IsDead(e, status', chosen')
    BY <1>3, <1>6, <1>8, <2>1
  <2>0. Held \subseteq Held'
    OBVIOUS
  <2>3. ASSUME m = Root PROVE m \in Held'
    BY <2>0, <2>1, <2>3 DEF GraphInv
  <2>4. ASSUME IsFed(edges', m, status', chosen') PROVE m \in Held'
    <3>1. IsFed(edges, m, r.status, r.chosen)
      BY <1>9, <2>4
    <3>2. CASE \E e \in Into(edges, m) : ~IsDecided(e, status, chosen)
      <4>1. m \in ns \cup held
        BY <1>4, <2>1, <3>1, <3>2
      <4> QED
        BY <2>1, <4>1
    <3>3. CASE \A e \in Into(edges, m) : IsDecided(e, status, chosen)
      <4>1. PICK e \in Into(edges, m) : IsLive(e, r.status, r.chosen)
        BY <3>1 DEF IsFed
      <4>2. ~IsDead(e, status, chosen)
        BY <1>7, <1>8, <4>1, LiveOrDead
      <4>3. IsFed(edges, m, status, chosen)
        BY <3>3, <4>1, <4>2 DEF IsFed, IsDecided
      <4> QED
        BY <2>0, <2>1, <4>3 DEF GraphInv
    <3> QED
      BY <3>2, <3>3
  <2> QED
    BY <2>2, <2>3, <2>4
<1>19. GraphInv'
  BY <1>16, <1>17, <1>18 DEF GraphInv
<1> QED
  BY <1>0, <1>11, <1>13, <1>14, <1>15, <1>19 DEF GraphKept
-----------------------------------------------------------------------------
\* The queues.

\* What a dispatcher that gets an event finds, and leaves.
LEMMA GetFacts ==
  ASSUME TypeOK, PlaceInv, StartInv, at' = at,
         NEW n \in Nodes, NEW kind, Get(n, kind)
  PROVE  /\ events' \in Seq(Event)
         /\ \A m \in Nodes : IsUnhandled(m)' <=> IsUnhandled(m) /\ (m = n => kind = "started")
         /\ \A m \in Nodes : \A i, j \in DOMAIN events' : IsResult(i, m)' /\ IsResult(j, m)' => i = j
         /\ IsUnhandled(n) \/ (kind = "started" /\ IsRunning(n))
         /\ StartInv'
<1>1. /\ events \in Seq(Event) /\ events # <<>>
      /\ events[1].node = n /\ events[1].kind = kind /\ events' = Tail(events)
  BY DEF TypeOK, Get
<1>2. /\ Len(events) \in Nat \ {0} /\ DOMAIN events = 1..Len(events)
      /\ DOMAIN events' = 1..(Len(events) - 1)
      /\ events' \in Seq(Event)
      /\ \A i \in DOMAIN events' : i + 1 \in DOMAIN events /\ events'[i] = events[i + 1]
  <2>1. Len(events) \in Nat \ {0} /\ DOMAIN events = 1..Len(events)
    BY <1>1, EmptySeq
  <2>2. events' \in Seq(Event) /\ Len(events') = Len(events) - 1
        /\ \A i \in 1..Len(events') : events'[i] = events[i + 1]
    BY <1>1, <2>1, HeadTailProperties
  <2> QED
    BY <2>1, <2>2
<1>3. \A m \in Nodes : \A i \in DOMAIN events' : IsResult(i, m)' <=> IsResult(i + 1, m)
  BY <1>2 DEF IsResult
<1>4. \A m \in Nodes : IsResult(1, m) <=> m = n /\ kind # "started"
  BY <1>1 DEF IsResult
<1>5. ASSUME NEW j \in DOMAIN events, j # 1 PROVE j - 1 \in DOMAIN events' /\ (j - 1) + 1 = j
  <2>1. j \in 1..Len(events) /\ Len(events) \in Nat
    BY <1>2
  <2>2. j - 1 \in 1..(Len(events) - 1) /\ (j - 1) + 1 = j
    BY <1>5, <2>1
  <2> QED
    BY <1>2, <2>2
<1>6. ASSUME NEW m \in Nodes
      PROVE  IsUnhandled(m)' <=> IsUnhandled(m) /\ (m = n => kind = "started")
  <2>1. ASSUME IsUnhandled(m)' PROVE IsUnhandled(m) /\ (m = n => kind = "started")
    <3>1. PICK i \in DOMAIN events' : IsResult(i, m)'
      BY <2>1 DEF IsUnhandled
    <3>2. i + 1 \in DOMAIN events /\ IsResult(i + 1, m) /\ 1 \in DOMAIN events /\ i + 1 # 1
      BY <1>2, <1>3, <3>1
    <3>3. ~IsResult(1, m)
      BY <3>2 DEF PlaceInv
    <3> QED
      BY <1>4, <3>2, <3>3 DEF IsUnhandled
  <2>2. ASSUME IsUnhandled(m), m = n => kind = "started" PROVE IsUnhandled(m)'
    <3>1. PICK j \in DOMAIN events : IsResult(j, m)
      BY <2>2 DEF IsUnhandled
    <3>2. j # 1
      BY <1>4, <2>2, <3>1
    <3> QED
      BY <1>3, <1>5, <3>1, <3>2 DEF IsUnhandled
  <2> QED
    BY <2>1, <2>2
<1>7. ASSUME NEW m \in Nodes, NEW i \in DOMAIN events', NEW j \in DOMAIN events',
             IsResult(i, m)', IsResult(j, m)'
      PROVE  i = j
  <2>1. i + 1 \in DOMAIN events /\ IsResult(i + 1, m) /\ j + 1 \in DOMAIN events /\ IsResult(j + 1, m)
    BY <1>2, <1>3, <1>7
  <2>2. i + 1 = j + 1 /\ i \in Int /\ j \in Int
    BY <1>2, <2>1 DEF PlaceInv
  <2> QED
    BY <2>2
<1>8. IsUnhandled(n) \/ (kind = "started" /\ IsRunning(n))
  <2>1. 1 \in DOMAIN events
    BY <1>2
  <2>2. CASE kind # "started"
    BY <1>4, <2>1, <2>2 DEF IsUnhandled
  <2>3. CASE kind = "started"
    BY <1>1, <2>1, <2>3 DEF StartInv, IsUnhandled
  <2> QED
    BY <2>2, <2>3
<1>9. StartInv'
  <2> SUFFICES ASSUME NEW i \in DOMAIN events', events'[i].kind = "started"
               PROVE  \/ \E w \in Workers : at[w] = events'[i].node
                      \/ \E j \in DOMAIN events' : /\ i < j /\ events'[j].node = events'[i].node
                                                   /\ events'[j].kind # "started"
    BY DEF StartInv, IsRunning, IsRun, IsResult
  <2>1. i + 1 \in DOMAIN events /\ events'[i] = events[i + 1] /\ i \in Nat
    BY <1>2
  <2>2. \/ \E w \in Workers : at[w] = events[i + 1].node
        \/ \E j \in DOMAIN events : /\ i + 1 < j /\ events[j].node = events[i + 1].node
                                    /\ events[j].kind # "started"
    BY <2>1 DEF StartInv, IsRunning, IsRun, IsResult
  <2>3. ASSUME NEW j \in DOMAIN events, i + 1 < j
        PROVE  \E k \in DOMAIN events' : i < k /\ events'[k] = events[j]
    <3>1. j \in Nat /\ j # 1
      BY <1>2, <2>1, <2>3
    <3>2. j - 1 \in DOMAIN events' /\ (j - 1) + 1 = j /\ i < j - 1
      BY <1>5, <2>1, <2>3, <3>1
    <3> QED
      BY <1>2, <3>2
  <2> QED
    BY <2>1, <2>2, <2>3
<1> QED
  BY <1>2, <1>6, <1>7, <1>8, <1>9

\* A handler of a result takes its node out of flight and puts the nodes it
\* enqueues in.
LEMMA Handled ==
  ASSUME Core, at' = at, NEW n \in Nodes, NEW kind, kind # "started", Get(n, kind),
         NEW ns, ns \subseteq Nodes, \A m \in ns : m = n \/ ~IsInFlight(m),
         ready' = Enqueue(ns)
  PROVE  /\ events' \in Seq(Event) /\ ready' \in [Nodes -> Nat]
         /\ status[n] = "enabled" /\ IsInFlight(n)
         /\ gx.error = "none" => executing # {}
         /\ \A m \in Nodes : IsInFlight(m)' <=> m \in ns \/ (m # n /\ IsInFlight(m))
         /\ PlaceInv' /\ StartInv'
<1>0. TypeOK /\ PlaceInv /\ StatusInv /\ StartInv
  BY DEF Core
<1>1. /\ events' \in Seq(Event) /\ StartInv' /\ IsUnhandled(n)
      /\ \A m \in Nodes : IsUnhandled(m)' <=> IsUnhandled(m) /\ m # n
      /\ \A m \in Nodes : \A i, j \in DOMAIN events' : IsResult(i, m)' /\ IsResult(j, m)' => i = j
  BY <1>0, GetFacts
<1>2. /\ ready' \in [Nodes -> Nat]
      /\ \A m \in Nodes : ready'[m] = IF m \in ns THEN ready[m] + 1 ELSE ready[m]
  BY <1>0 DEF TypeOK, Enqueue
<1>3. /\ \A m \in Nodes : IsRunning(m)' <=> IsRunning(m)
      /\ \A m \in Nodes : \A w \in Workers : IsRun(w, m)' <=> IsRun(w, m)
  BY DEF IsRunning, IsRun
<1>4. \A m \in Nodes : /\ ready[m] \in Nat /\ ready[m] <= 1
                       /\ \A v, w \in Workers : IsRun(v, m) /\ IsRun(w, m) => v = w
                       /\ ready[m] > 0 => ~IsRunning(m) /\ ~IsUnhandled(m)
                       /\ IsRunning(m) => ~IsUnhandled(m)
  BY <1>0 DEF TypeOK, PlaceInv
<1>5. ready[n] = 0 /\ ~IsRunning(n) /\ IsInFlight(n)
  BY <1>1, <1>4 DEF IsInFlight
<1>6. ASSUME NEW m \in ns PROVE m \in Nodes /\ ready[m] = 0 /\ ~IsRunning(m) /\ (IsUnhandled(m) => m = n)
  BY <1>4, <1>5 DEF IsInFlight
<1>7. PlaceInv'
  <2> SUFFICES ASSUME NEW m \in Nodes
               PROVE  /\ ready'[m] <= 1
                      /\ ready'[m] > 0 => ~IsRunning(m) /\ ~(IsUnhandled(m) /\ m # n)
                      /\ IsRunning(m) => ~(IsUnhandled(m) /\ m # n)
    BY <1>1, <1>3, <1>4 DEF PlaceInv
  <2>1. CASE m \in ns
    BY <1>2, <1>6, <2>1
  <2>2. CASE m \notin ns
    BY <1>2, <1>4, <2>2
  <2> QED
    BY <2>1, <2>2
<1>8. ASSUME NEW m \in Nodes
      PROVE  IsInFlight(m)' <=> m \in ns \/ (m # n /\ IsInFlight(m))
  <2>1. CASE m \in ns
    BY <1>2, <1>6, <2>1 DEF IsInFlight
  <2>2. CASE m \notin ns
    BY <1>1, <1>2, <1>3, <1>5, <2>2 DEF IsInFlight
  <2> QED
    BY <2>1, <2>2
<1>9. status[n] = "enabled" /\ (gx.error = "none" => executing # {})
  BY <1>0, <1>5 DEF StatusInv
<1> QED
  BY <1>1, <1>2, <1>5, <1>7, <1>8, <1>9

\* A dispatcher that gets an event is in its loop or in a drain, and the run has no
\* terminal event yet.
LEMMA GetPhase ==
  ASSUME Core, NEW n \in Nodes, NEW kind, Get(n, kind)
  PROVE  /\ dispatcher \in {"loop", "drainIdle", "drain"}
         /\ report \in {"none", "closed"} /\ ~emitted
         /\ stopping => report = "closed"
         /\ layer.sent /\ ~layer.missed /\ gx.error = "none" => report = "closed"
         /\ dispatcher = "drain" /\ gx.error = "none" /\ executing # {} => report = "closed"
         /\ AfterResult[dispatcher] \in {"loopCommands", "drainCommands", "drain"}
         /\ AfterResult[dispatcher] = "drain" => dispatcher = "drain"
<1>1. dispatcher \in {"loop", "drainIdle", "drain"}
  BY DEF Get
<1>2. report \in {"none", "closed"} /\ ~emitted
  BY <1>1 DEF Core, PhaseInv
<1>3. stopping => report = "closed"
  BY <1>2 DEF Core, PhaseInv
<1>4. layer.sent /\ ~layer.missed /\ gx.error = "none" => report = "closed"
  BY <1>1 DEF Core, SentInv
<1>5. dispatcher = "drain" /\ gx.error = "none" /\ executing # {} => report = "closed"
  BY DEF Core, PhaseInv
<1>6. /\ AfterResult[dispatcher] \in {"loopCommands", "drainCommands", "drain"}
      /\ AfterResult[dispatcher] = "drain" => dispatcher = "drain"
  BY <1>1 DEF AfterResult
<1> QED
  BY <1>1, <1>2, <1>3, <1>4, <1>5, <1>6

\* What the layer may do with a result.
LEMMA NotifyFacts ==
  ASSUME Core, Notify(stopping, CheckLimits)
  PROVE  /\ layer' \in Layer /\ channel' \in Seq({"pause", "abort"})
         /\ layer'.max = layer.max /\ layer'.count = layer.count /\ layer'.missed = layer.missed
         /\ layer.sent => layer'.sent
         /\ layer'.sent => layer.sent \/ \E i \in DOMAIN channel' : channel'[i] = "abort"
         /\ IsWatched /\ ~stopping /\ ~layer'.sent /\ ~layer'.lost => ~(layer.count > layer.max)
<1>1. layer \in Layer /\ channel \in Seq({"pause", "abort"})
  BY DEF Core, TypeOK
<1>2. CASE UNCHANGED <<channel, layer>> /\ (stopping \/ ~IsWatched \/ layer.sent \/ ~Reached(layer))
  BY <1>1, <1>2 DEF Reached
<1>3. CASE channel' = Append(channel, "abort") /\ layer' = [layer EXCEPT !.sent = TRUE]
  <2>1. /\ channel' \in Seq({"pause", "abort"})
        /\ Len(channel) + 1 \in DOMAIN channel' /\ channel'[Len(channel) + 1] = "abort"
    BY <1>1, <1>3, AppendProperties
  <2>2. /\ layer' \in Layer /\ layer'.max = layer.max /\ layer'.count = layer.count
        /\ layer'.sent /\ layer'.missed = layer.missed
    BY <1>1, <1>3 DEF Layer
  <2> QED
    BY <2>1, <2>2
<1>4. CASE UNCHANGED channel /\ layer' = [layer EXCEPT !.lost = TRUE]
  BY <1>1, <1>4 DEF Layer
<1> QED
  BY <1>2, <1>3, <1>4 DEF Notify, CheckLimits, SendAbort

\* The nodes of a graph are handled as ProceedKeepsGraph says.
LEMMA Proceeds ==
  ASSUME Core, at' = at, edges' = edges, NEW n \in Nodes, NEW kind, kind # "started", Get(n, kind),
         NEW h \in Handles \cup {NoHandle},
         NEW r, r = Route(edges, status, chosen, n, h),
         NEW ns, NEW held, ns \cup held = r.skipFed \cup r.takeFed, ns \cap held = {},
         Proceed(n, r, ns), Held' = Held \cup held, held # {} => gx.paused,
         gx'.error = gx.error, gx'.paused = gx.paused
  PROVE  /\ events' \in Seq(Event) /\ ready' \in [Nodes -> Nat]
         /\ status' \in [Nodes -> NodeStatus] /\ chosen' \in [Nodes -> Handles \cup {NoHandle}]
         /\ executing' \subseteq Nodes /\ held \subseteq Nodes
         /\ gx.error = "none" => executing # {}
         /\ PlaceInv' /\ StatusInv' /\ GraphInv' /\ StartInv'
<1>0. TypeOK /\ PlaceInv /\ StatusInv /\ GraphInv /\ StartInv
  BY DEF Core
<1>1. status[n] = "enabled"
  <2>1. IsUnhandled(n)
    BY <1>0, GetFacts
  <2> QED
    BY <1>0, <2>1 DEF StatusInv, IsInFlight
<1>2. /\ status' = [m \in Nodes |-> IF m \in ns THEN "enabled" ELSE r.status[m]]
      /\ chosen' = r.chosen /\ ready' = Enqueue(ns)
      /\ executing' = (executing \cup ns) \ {n}
  BY DEF Proceed
<1>a. GraphKept(n, ns, held)
  BY <1>0, <1>1, <1>2, ProceedKeepsGraph
<1>3. /\ GraphInv'
      /\ status' \in [Nodes -> NodeStatus] /\ chosen' \in [Nodes -> Handles \cup {NoHandle}]
      /\ ns \subseteq Nodes /\ held \subseteq Nodes
      /\ \A m \in ns \cup held : status[m] = "waiting" /\ m \notin Held
      /\ \A m \in Nodes : m \in Held' => status'[m] = "waiting"
      /\ \A m \in Nodes : status'[m] = "enabled" <=> m \in ns \/ (m # n /\ status[m] = "enabled")
  BY <1>a DEF GraphKept
<1>4. \A m \in ns : m \in Nodes /\ m # n /\ ~IsInFlight(m)
  BY <1>0, <1>1, <1>3 DEF StatusInv
<1>5. /\ events' \in Seq(Event) /\ ready' \in [Nodes -> Nat]
      /\ gx.error = "none" => executing # {}
      /\ \A m \in Nodes : IsInFlight(m)' <=> m \in ns \/ (m # n /\ IsInFlight(m))
      /\ PlaceInv' /\ StartInv'
  BY <1>2, <1>3, <1>4, Handled
<1>6. ASSUME NEW m \in Nodes
      PROVE  /\ IsInFlight(m)' => status'[m] = "enabled"
             /\ status'[m] = "enabled" /\ gx'.error = "none" => IsInFlight(m)'
             /\ m \in Held' => status'[m] = "waiting" /\ gx'.paused
  <2>1. IsInFlight(m)' => status'[m] = "enabled"
    BY <1>0, <1>3, <1>5 DEF StatusInv
  <2>2. status'[m] = "enabled" /\ gx'.error = "none" => IsInFlight(m)'
    BY <1>0, <1>3, <1>5 DEF StatusInv
  <2>3. m \in Held' => status'[m] = "waiting" /\ gx'.paused
    BY <1>0, <1>3 DEF StatusInv
  <2> QED
    BY <2>1, <2>2, <2>3
<1>7. gx'.error = "none" => executing' = {m \in Nodes : IsInFlight(m)'}
  <2> SUFFICES ASSUME gx'.error = "none" PROVE executing' = {m \in Nodes : IsInFlight(m)'}
    OBVIOUS
  <2>1. executing = {m \in Nodes : IsInFlight(m)}
    BY <1>0 DEF StatusInv
  <2>2. \A m \in Nodes : m \in executing' <=> IsInFlight(m)'
    BY <1>2, <1>4, <1>5, <2>1
  <2>3. executing' \subseteq Nodes
    BY <1>2, <1>3, <2>1
  <2> QED
    BY <2>2, <2>3
<1>8. StatusInv'
  BY <1>6, <1>7 DEF StatusInv
<1>9. executing' \subseteq Nodes
  BY <1>0, <1>2, <1>3 DEF TypeOK
<1> QED
  BY <1>3, <1>5, <1>8, <1>9

LEMMA HandleSucceededInv ==
  ASSUME Core, NEW n \in Nodes, HandleSucceeded(n) PROVE Core'
<1> USE DEF HandleSucceeded
<1>0. /\ Get(n, "succeeded") /\ Notify(stopping, CheckLimits) /\ dispatcher' = AfterResult[dispatcher]
      /\ Head(events).handle \in Handles \cup {NoHandle}
  <2>1. events \in Seq(Event) /\ events # <<>>
    BY DEF Core, TypeOK, Get
  <2>2. Head(events) \in Event
    BY <2>1, HeadTailProperties
  <2> QED
    BY <2>2 DEF Event
<1>1. PICK r : /\ r = Route(edges, status, chosen, n, Head(events).handle)
               /\ IF gx.paused
                  THEN Proceed(n, r, r.skipFed) /\ deferred' = deferred \cup r.takeFed
                  ELSE Proceed(n, r, r.skipFed \cup r.takeFed) /\ UNCHANGED deferred
  OBVIOUS
<1>2. \E ns, held : /\ ns \cup held = r.skipFed \cup r.takeFed /\ ns \cap held = {}
                    /\ Proceed(n, r, ns) /\ deferred' = deferred \cup held /\ (held # {} => gx.paused)
  <2>1. CASE gx.paused
    <3>1. r.skipFed \cap r.takeFed = {}
      BY <1>1, Zenon DEF Route
    <3> QED
      BY <1>1, <2>1, <3>1
  <2>2. CASE ~gx.paused
    <3>1. /\ Proceed(n, r, r.skipFed \cup r.takeFed) /\ deferred' = deferred \cup {}
      BY <1>1, <2>2
    <3> QED
      BY <3>1
  <2> QED
    BY <2>1, <2>2
<1>3. PICK ns, held : /\ ns \cup held = r.skipFed \cup r.takeFed /\ ns \cap held = {}
                      /\ Proceed(n, r, ns) /\ deferred' = deferred \cup held
                      /\ (held # {} => gx.paused)
  BY <1>2
<1>4. Held' = Held \cup held
  BY <1>3 DEF Held
<1>5. /\ events' \in Seq(Event) /\ ready' \in [Nodes -> Nat]
      /\ status' \in [Nodes -> NodeStatus] /\ chosen' \in [Nodes -> Handles \cup {NoHandle}]
      /\ executing' \subseteq Nodes /\ held \subseteq Nodes
      /\ gx.error = "none" => executing # {}
      /\ PlaceInv' /\ StatusInv' /\ GraphInv' /\ StartInv'
  BY <1>0, <1>1, <1>3, <1>4, Proceeds
<1>6. /\ layer' \in Layer /\ channel' \in Seq({"pause", "abort"})
      /\ layer'.max = layer.max /\ layer'.count = layer.count /\ layer'.missed = layer.missed
      /\ layer'.sent => layer.sent \/ \E i \in DOMAIN channel' : channel'[i] = "abort"
      /\ IsWatched /\ ~stopping /\ ~layer'.sent /\ ~layer'.lost => ~(layer.count > layer.max)
  BY <1>0, NotifyFacts
<1>7. /\ dispatcher' \in {"loopCommands", "drainCommands", "drain"}
      /\ report \in {"none", "closed"} /\ ~emitted /\ (stopping => report = "closed")
      /\ layer.sent /\ ~layer.missed /\ gx.error = "none" => report = "closed"
      /\ dispatcher' = "drain" /\ gx.error = "none" => report = "closed"
  BY <1>0, <1>5, GetPhase
<1>8. TypeOK'
  <2>1. deferred' \subseteq Nodes
    BY <1>3, <1>5 DEF Core, TypeOK
  <2>2. dispatcher' \in {"loop", "drainIdle", "drain", "end", "over"} \cup DOMAIN AfterCommands
    BY <1>7 DEF AfterCommands
  <2> QED
    BY <1>5, <1>6, <2>1, <2>2 DEF Core, TypeOK
<1>9. PhaseInv'
  BY <1>7 DEF Core, PhaseInv
<1>10. SentInv'
  BY <1>6, <1>7 DEF SentInv
<1>11. CountInv'
  BY <1>6, <1>7 DEF CountInv, IsWatched
<1> QED
  BY <1>5, <1>8, <1>9, <1>10, <1>11 DEF Core

\* What stays true of the graph when nothing of it changes.
LEMMA SameGraph ==
  ASSUME GraphInv, UNCHANGED <<edges, status, chosen, paused, deferred>> PROVE GraphInv'
BY DEF GraphInv, Held

LEMMA HandleExceptionInv ==
  ASSUME Core, NEW n \in Nodes, HandleException(n) PROVE Core'
<1> USE DEF HandleException
<1>0. /\ Get(n, "failed") /\ dispatcher' = AfterResult[dispatcher]
      /\ FailHandle \in Handles \cup {NoHandle}
  BY EngineAssumption
<1>1. PICK r : /\ r = Route(edges, status, chosen, n, FailHandle)
               /\ Proceed(n, r, r.skipFed \cup r.takeFed)
  OBVIOUS
<1>2. PICK ns, held : /\ ns \cup held = r.skipFed \cup r.takeFed /\ ns \cap held = {}
                      /\ Proceed(n, r, ns) /\ held = {}
  <2> DEFINE fed == r.skipFed \cup r.takeFed
  <2>1. Proceed(n, r, fed) /\ fed \cup {} = fed /\ fed \cap {} = {}
    BY <1>1
  <2> QED
    BY <2>1
<1>3. /\ Held' = Held \cup held /\ (held # {} => gx.paused)
      /\ gx' \in GraphExecution /\ gx'.error = gx.error /\ gx'.paused = gx.paused
      /\ gx'.aborted = gx.aborted /\ gx'.exceptions
  <2>1. gx \in GraphExecution
    BY DEF Core, TypeOK
  <2> QED
    BY <1>2, <2>1 DEF Held, GraphExecution
<1>4. /\ events' \in Seq(Event) /\ ready' \in [Nodes -> Nat]
      /\ status' \in [Nodes -> NodeStatus] /\ chosen' \in [Nodes -> Handles \cup {NoHandle}]
      /\ executing' \subseteq Nodes
      /\ gx.error = "none" => executing # {}
      /\ PlaceInv' /\ StatusInv' /\ GraphInv' /\ StartInv'
  BY <1>0, <1>1, <1>2, <1>3, Proceeds
<1>5. /\ dispatcher' \in {"loopCommands", "drainCommands", "drain"}
      /\ report \in {"none", "closed"} /\ ~emitted /\ (stopping => report = "closed")
      /\ layer.sent /\ ~layer.missed /\ gx.error = "none" => report = "closed"
      /\ dispatcher' = "drain" /\ gx.error = "none" => report = "closed"
  BY <1>0, <1>4, GetPhase
<1>6. TypeOK'
  <2>1. dispatcher' \in {"loop", "drainIdle", "drain", "end", "over"} \cup DOMAIN AfterCommands
    BY <1>5 DEF AfterCommands
  <2> QED
    BY <1>3, <1>4, <2>1 DEF Core, TypeOK, clientVars
<1>7. PhaseInv'
  BY <1>3, <1>5 DEF Core, PhaseInv
<1>8. SentInv'
  BY <1>3, <1>5 DEF SentInv, clientVars
<1>9. CountInv'
  BY <1>3 DEF CountInv
<1> QED
  BY <1>4, <1>6, <1>7, <1>8, <1>9 DEF Core

LEMMA HandleRetryInv ==
  ASSUME Core, NEW n \in Nodes, HandleRetry(n) PROVE Core'
<1> USE DEF HandleRetry, graphVars, clientVars
<1>0. Get(n, "failed") /\ dispatcher' = AfterResult[dispatcher]
  OBVIOUS
<1>1. /\ events' \in Seq(Event) /\ ready' \in [Nodes -> Nat]
      /\ status[n] = "enabled" /\ IsInFlight(n)
      /\ gx.error = "none" => executing # {}
      /\ \A m \in Nodes : IsInFlight(m)' <=> m = n \/ IsInFlight(m)
      /\ PlaceInv' /\ StartInv'
  <2>1. PICK ns : ns = {n} /\ ready' = Enqueue(ns)
    OBVIOUS
  <2>2. ns \subseteq Nodes /\ \A m \in ns : m = n \/ ~IsInFlight(m)
    BY <2>1
  <2>3. /\ events' \in Seq(Event) /\ ready' \in [Nodes -> Nat]
        /\ status[n] = "enabled" /\ IsInFlight(n)
        /\ gx.error = "none" => executing # {}
        /\ \A m \in Nodes : IsInFlight(m)' <=> m \in ns \/ (m # n /\ IsInFlight(m))
        /\ PlaceInv' /\ StartInv'
    BY <1>0, <2>1, <2>2, Handled
  <2> QED
    BY <2>1, <2>3
<1>2. /\ gx' \in GraphExecution /\ gx'.error = gx.error /\ gx'.paused = gx.paused
      /\ gx'.aborted = gx.aborted /\ gx'.exceptions
  <2>1. gx \in GraphExecution
    BY DEF Core, TypeOK
  <2> QED
    BY <2>1 DEF GraphExecution
<1>3. /\ dispatcher' \in {"loopCommands", "drainCommands", "drain"}
      /\ report \in {"none", "closed"} /\ ~emitted /\ (stopping => report = "closed")
      /\ layer.sent /\ ~layer.missed /\ gx.error = "none" => report = "closed"
      /\ dispatcher' = "drain" /\ gx.error = "none" => report = "closed"
  BY <1>0, <1>1, GetPhase
<1>4. TypeOK'
  <2>1. retries' \in [Nodes -> Nat] /\ \A m \in Nodes : retries'[m] <= MaxRetries[m]
    <3>1. /\ retries \in [Nodes -> Nat] /\ retries[n] < MaxRetries[n] /\ MaxRetries[n] \in Nat
          /\ \A m \in Nodes : retries[m] <= MaxRetries[m]
      BY EngineAssumption DEF Core, TypeOK, MayRetry
    <3> QED
      BY <3>1
  <2>2. dispatcher' \in {"loop", "drainIdle", "drain", "end", "over"} \cup DOMAIN AfterCommands
    BY <1>3 DEF AfterCommands
  <2>3. executing' \subseteq Nodes
    BY DEF Core, TypeOK
  <2> QED
    BY <1>1, <1>2, <2>1, <2>2, <2>3 DEF Core, TypeOK
<1>5. StatusInv'
  BY <1>1, <1>2 DEF Core, StatusInv, Held
<1>6. PhaseInv'
  BY <1>2, <1>3 DEF Core, PhaseInv
<1>7. SentInv'
  BY <1>2, <1>3 DEF SentInv
<1>8. CountInv' /\ GraphInv'
  BY <1>2, SameGraph DEF CountInv, Core
<1> QED
  BY <1>1, <1>4, <1>5, <1>6, <1>7, <1>8 DEF Core

\* An event that leads to an error, or to a pause, takes its node out of flight.
LEMMA HandledOnly ==
  ASSUME Core, at' = at, ready' = ready, NEW n \in Nodes, NEW kind, kind # "started", Get(n, kind)
  PROVE  /\ events' \in Seq(Event)
         /\ status[n] = "enabled" /\ IsInFlight(n)
         /\ gx.error = "none" => executing # {}
         /\ \A m \in Nodes : IsInFlight(m)' <=> m # n /\ IsInFlight(m)
         /\ PlaceInv' /\ StartInv'
<1>1. ready' = Enqueue({})
  BY DEF Core, TypeOK, Enqueue
<1> QED
  BY <1>1, Handled

\* After an error little is promised any more.
LEMMA ErrorInv ==
  ASSUME Core, gx'.error # "none", gx' \in GraphExecution, gx'.paused = gx.paused,
         at' = at, UNCHANGED <<edges, status, chosen, ready, paused, deferred, report, stopping, emitted>>,
         NEW n \in Nodes, NEW kind, kind # "started", Get(n, kind),
         dispatcher' # "over"
  PROVE  StatusInv' /\ GraphInv' /\ PhaseInv' /\ SentInv' /\ CountInv'
<1>1. \A m \in Nodes : IsInFlight(m)' <=> m # n /\ IsInFlight(m)
  BY HandledOnly
<1>2. StatusInv'
  BY <1>1 DEF Core, StatusInv, Held
<1>3. report \in {"none", "closed"} /\ ~emitted /\ (stopping => report = "closed")
  BY GetPhase
<1>4. PhaseInv'
  BY <1>3 DEF PhaseInv
<1>5. SentInv' /\ CountInv' /\ GraphInv'
  BY SameGraph DEF Core, SentInv, CountInv
<1> QED
  BY <1>2, <1>4, <1>5

LEMMA HandleFailedInv ==
  ASSUME Core, NEW n \in Nodes, HandleFailed(n) PROVE Core'
<1> USE DEF HandleFailed, graphVars
<1>0. Get(n, "failed") /\ Notify(stopping, CheckLimits) /\ dispatcher' = AfterResult[dispatcher]
  OBVIOUS
<1>1. events' \in Seq(Event) /\ PlaceInv' /\ StartInv'
  BY <1>0, HandledOnly
<1>2. gx' \in GraphExecution /\ gx'.error = "node" /\ gx'.paused = gx.paused
  <2>1. gx \in GraphExecution
    BY DEF Core, TypeOK
  <2> QED
    BY <2>1 DEF GraphExecution
<1>3. dispatcher' \in {"loopCommands", "drainCommands", "drain"}
  BY <1>0, GetPhase
<1>4. StatusInv' /\ GraphInv' /\ PhaseInv' /\ SentInv' /\ CountInv'
  BY <1>0, <1>2, <1>3, ErrorInv
<1>5. TypeOK'
  <2>1. layer' \in Layer /\ channel' \in Seq({"pause", "abort"})
    BY <1>0, NotifyFacts
  <2>2. dispatcher' \in {"loop", "drainIdle", "drain", "end", "over"} \cup DOMAIN AfterCommands
    BY <1>3 DEF AfterCommands
  <2>3. executing' \subseteq Nodes
    BY DEF Core, TypeOK
  <2> QED
    BY <1>1, <1>2, <2>1, <2>2, <2>3 DEF Core, TypeOK
<1> QED
  BY <1>1, <1>4, <1>5 DEF Core

LEMMA ExceptionRaisesInv ==
  ASSUME Core, NEW n \in Nodes, ExceptionRaises(n) PROVE Core'
<1> USE DEF ExceptionRaises, graphVars, clientVars
<1>0. Get(n, "failed")
  OBVIOUS
<1>1. events' \in Seq(Event) /\ PlaceInv' /\ StartInv'
  BY <1>0, HandledOnly
<1>2. gx' \in GraphExecution /\ gx'.error = "dispatcher" /\ gx'.paused = gx.paused
  <2>1. gx \in GraphExecution
    BY DEF Core, TypeOK
  <2> QED
    BY <2>1 DEF GraphExecution, Raise
<1>3. StatusInv' /\ GraphInv' /\ PhaseInv' /\ SentInv' /\ CountInv'
  BY <1>0, <1>2, ErrorInv
<1>4. TypeOK'
  BY <1>1, <1>2 DEF Core, TypeOK
<1> QED
  BY <1>1, <1>3, <1>4 DEF Core

LEMMA HandlePauseInv ==
  ASSUME Core, NEW n \in Nodes, HandlePause(n) PROVE Core'
<1> USE DEF HandlePause, clientVars
<1>0. Get(n, "pause") /\ at' = at /\ ready' = ready
  OBVIOUS
<1>1. /\ events' \in Seq(Event)
      /\ status[n] = "enabled" /\ IsInFlight(n)
      /\ gx.error = "none" => executing # {}
      /\ \A m \in Nodes : IsInFlight(m)' <=> m # n /\ IsInFlight(m)
      /\ PlaceInv' /\ StartInv'
  BY <1>0, HandledOnly
<1>2. gx \in GraphExecution /\ status \in [Nodes -> NodeStatus]
  BY DEF Core, TypeOK
<1>3. CASE gx.completed \/ gx.aborted
  <2>1. gx' \in GraphExecution /\ gx'.error = "dispatcher" /\ gx'.paused = gx.paused
    BY <1>2, <1>3 DEF GraphExecution, Raise
  <2>2. StatusInv' /\ GraphInv' /\ PhaseInv' /\ SentInv' /\ CountInv'
    BY <1>0, <1>3, <2>1, ErrorInv
  <2>3. TypeOK'
    BY <1>1, <1>3, <2>1 DEF Core, TypeOK
  <2> QED
    BY <1>1, <2>2, <2>3 DEF Core
<1>4. CASE ~(gx.completed \/ gx.aborted)
  <2>1. /\ gx' \in GraphExecution /\ gx'.error = gx.error /\ gx'.paused /\ gx'.aborted = gx.aborted
        /\ gx'.exceptions = gx.exceptions
    <3>1. DOMAIN gx = {"completed", "aborted", "paused", "error", "exceptions"}
      BY <1>2 DEF GraphExecution
    <3>2. gx' = [gx EXCEPT !.paused = TRUE]
      BY <1>4
    <3> QED
      BY ONLY <1>2, <3>1, <3>2 DEF GraphExecution
  <2>2. /\ executing' = executing \ {n} /\ paused' = paused \cup {n} /\ dispatcher' = dispatcher
        /\ status' \in [Nodes -> NodeStatus]
        /\ \A m \in Nodes : status'[m] = IF m = n THEN "waiting" ELSE status[m]
    BY <1>2, <1>4 DEF NodeStatus
  <2>3. Held' = Held \cup {n}
    BY <2>2 DEF Held
  <2>4. TypeOK'
    BY <1>1, <2>1, <2>2 DEF Core, TypeOK
  <2>5. StatusInv'
    <3>1. \A m \in Nodes : /\ IsInFlight(m) => status[m] = "enabled"
                           /\ status[m] = "enabled" /\ gx.error = "none" => IsInFlight(m)
                           /\ m \in Held => status[m] = "waiting"
      BY DEF Core, StatusInv
    <3>2. gx.error = "none" => executing = {m \in Nodes : IsInFlight(m)}
      BY DEF Core, StatusInv
    <3>3. gx'.error = "none" => executing' = {m \in Nodes : IsInFlight(m)'}
      BY <1>1, <2>1, <2>2, <3>2
    <3> QED
      BY <1>1, <2>1, <2>2, <2>3, <3>1, <3>3 DEF StatusInv
  <2>6. GraphInv'
    <3>1. \A m \in Nodes : \A e \in Into(edges, m) : e.tail \in Nodes /\ m # Root
      BY SMTT(30), EngineAssumption, GraphAssumption DEF Core, TypeOK, Into
    <3>2. ASSUME NEW m \in Nodes, NEW e \in Into(edges, m)
          PROVE  /\ IsLive(e, status', chosen') <=> IsLive(e, status, chosen)
                 /\ IsDead(e, status', chosen') <=> IsDead(e, status, chosen)
      <4>1. \/ status'[e.tail] = status[e.tail]
            \/ status[e.tail] = "enabled" /\ status'[e.tail] = "waiting"
        BY <1>1, <2>2, <3>1
      <4> QED
        BY <4>1 DEF IsLive, IsDead
    <3>3. ASSUME NEW m \in Nodes
          PROVE  IsFed(edges', m, status', chosen') <=> IsFed(edges, m, status, chosen)
      BY <3>2 DEF IsFed, IsDecided
    <3>4. ASSUME NEW m \in Nodes, m # n PROVE GraphInv!(m)'
      BY <2>2, <2>3, <3>2, <3>3, <3>4 DEF Core, GraphInv
    <3>5. GraphInv!(n)'
      <4>1. n = Root \/ IsFed(edges, n, status, chosen)
        BY <1>1 DEF Core, GraphInv
      <4>2. Into(edges, n) # {} => \E e \in Into(edges, n) : IsLive(e, status, chosen)
        BY <3>1, <4>1 DEF IsFed
      <4>3. Into(edges, n) # {} => \E e \in Into(edges, n) : ~IsDead(e, status', chosen')
        BY <3>2, <4>2, LiveOrDead
      <4> QED
        BY <2>2, <2>3, <3>3, <4>1, <4>3
    <3> QED
      BY <3>4, <3>5 DEF GraphInv
  <2>7. /\ report \in {"none", "closed"} /\ ~emitted /\ (stopping => report = "closed")
        /\ dispatcher \in {"loop", "drainIdle", "drain"}
        /\ dispatcher = "drain" /\ gx.error = "none" => report = "closed"
    BY <1>0, <1>1, GetPhase
  <2>8. PhaseInv'
    BY <2>1, <2>2, <2>7 DEF Core, PhaseInv
  <2>9. SentInv' /\ CountInv'
    BY <2>1, <2>2 DEF Core, SentInv, CountInv
  <2> QED
    BY <1>1, <2>4, <2>5, <2>6, <2>8, <2>9 DEF Core
<1> QED
  BY <1>3, <1>4

LEMMA HandleStartedInv ==
  ASSUME Core, NEW n \in Nodes, HandleStarted(n) PROVE Core'
<1> USE DEF HandleStarted, graphVars, threadVars
<1>0. /\ Get(n, "started") /\ at' = at /\ ready' = ready
      /\ TypeOK /\ PlaceInv /\ StartInv /\ StatusInv /\ GraphInv
  BY DEF Core
<1>1. /\ events' \in Seq(Event)
      /\ \A m \in Nodes : IsUnhandled(m)' <=> IsUnhandled(m)
      /\ \A m \in Nodes : \A i, j \in DOMAIN events' : IsResult(i, m)' /\ IsResult(j, m)' => i = j
      /\ IsUnhandled(n) \/ IsRunning(n)
      /\ StartInv'
  BY <1>0, GetFacts
<1>2. /\ \A m \in Nodes : IsRunning(m)' <=> IsRunning(m)
      /\ \A m \in Nodes : \A w \in Workers : IsRun(w, m)' <=> IsRun(w, m)
  BY DEF IsRunning, IsRun
<1>3. \A m \in Nodes : IsInFlight(m)' <=> IsInFlight(m)
  BY <1>1, <1>2 DEF IsInFlight
<1>4. PlaceInv'
  BY <1>0, <1>1, <1>2 DEF PlaceInv
<1>5. StatusInv' /\ GraphInv'
  BY <1>0, <1>3, SameGraph DEF StatusInv, Held, domainVars
<1>6. /\ channel' = channel /\ layer' \in Layer /\ layer'.max = layer.max
      /\ layer'.sent = layer.sent /\ layer'.lost = layer.lost /\ layer'.missed = layer.missed
  <2>1. layer \in Layer
    BY <1>0 DEF TypeOK
  <2> QED
    BY <2>1 DEF Notify, CountStep, Layer
<1>7. TypeOK' /\ PhaseInv' /\ SentInv'
  BY <1>1, <1>6 DEF Core, TypeOK, PhaseInv, SentInv, domainVars
<1>8. gx.error = "none" => executing # {}
  BY <1>0, <1>1 DEF StatusInv, IsInFlight
<1>9. CountInv'
  BY <1>8 DEF CountInv, domainVars
<1> QED
  BY <1>1, <1>4, <1>5, <1>7, <1>9 DEF Core
-----------------------------------------------------------------------------
\* The workers and the clients.

\* An event is put at the end of the queue.
LEMMA AppendEvent ==
  ASSUME events \in Seq(Event), NEW x \in Event, events' = Append(events, x)
  PROVE  /\ events' \in Seq(Event)
         /\ Len(events) + 1 \in DOMAIN events' /\ events'[Len(events) + 1] = x
         /\ \A i \in DOMAIN events : i \in DOMAIN events' /\ events'[i] = events[i] /\ i < Len(events) + 1
         /\ \A i \in DOMAIN events' : i \in DOMAIN events \/ i = Len(events) + 1
<1>1. /\ Append(events, x) \in Seq(Event)
      /\ Len(Append(events, x)) = Len(events) + 1
      /\ \A i \in 1..Len(events) : Append(events, x)[i] = events[i]
      /\ Append(events, x)[Len(events) + 1] = x
      /\ Len(events) \in Nat
  BY AppendProperties
<1> DEFINE n == Len(events)
<1>2. DOMAIN events = 1..n /\ DOMAIN events' = 1..(n + 1) /\ n \in Nat
  BY <1>1
<1> QED
  BY <1>1, <1>2

LEMMA WorkerTakeInv ==
  ASSUME Core, NEW w \in Workers, NEW n \in Nodes, WorkerTake(w, n) PROVE Core'
<1> USE DEF WorkerTake, graphVars, domainVars, clientVars, threadVars
<1>0. TypeOK /\ PlaceInv /\ StartInv /\ StatusInv /\ GraphInv
  BY DEF Core
<1>1. /\ ready' \in [Nodes -> Nat] /\ ready[n] \in Nat
      /\ \A m \in Nodes : ready'[m] = IF m = n THEN ready[m] - 1 ELSE ready[m]
      /\ at' \in [Workers -> Nodes \cup {"get", "gone"}]
      /\ \A v \in Workers : at'[v] = IF v = w THEN n ELSE at[v]
      /\ at[w] \notin Nodes
  BY <1>0, EngineAssumption DEF TypeOK
<1>2. /\ \A m \in Nodes : \A v \in Workers : IsRun(v, m)' <=> IF v = w THEN m = n ELSE IsRun(v, m)
      /\ \A m \in Nodes : ~IsRun(w, m)
      /\ \A m \in Nodes : IsRunning(m)' <=> m = n \/ IsRunning(m)
  BY <1>1 DEF IsRunning, IsRun
<1>3. /\ events' \in Seq(Event)
      /\ \A m \in Nodes : \A i, j \in DOMAIN events' : IsResult(i, m)' /\ IsResult(j, m)' => i = j
      /\ \A m \in Nodes : IsUnhandled(m)' <=> IsUnhandled(m)
      /\ StartInv'
  <2>1. CASE events' = events
    <3>1. events \in Seq(Event)
      BY <1>0 DEF TypeOK
    <3>a. \A i \in DOMAIN events : events[i] \in Event
      BY <3>1
    <3>2. \A i \in DOMAIN events : events[i].node \in Nodes
      BY <3>a DEF Event
    <3>3. \A m \in Nodes : /\ \A i \in DOMAIN events' : IsResult(i, m)' <=> IsResult(i, m)
                           /\ IsUnhandled(m)' <=> IsUnhandled(m)
      BY <2>1 DEF IsUnhandled, IsResult
    <3>4. \A m \in Nodes : \A i, j \in DOMAIN events' : IsResult(i, m)' /\ IsResult(j, m)' => i = j
      BY <1>0, <2>1, <3>3 DEF PlaceInv
    <3>5. StartInv'
      BY <1>0, <1>2, <2>1, <3>2, <3>3 DEF StartInv
    <3> QED
      BY <2>1, <3>1, <3>3, <3>4, <3>5
  <2>2. CASE events' = Append(events, StartEvent(n))
    <3>1. StartEvent(n) \in Event
      BY DEF StartEvent, Event
    <3> DEFINE l == Len(events) + 1
    <3>2. /\ events' \in Seq(Event) /\ events \in Seq(Event)
          /\ l \in DOMAIN events' /\ events'[l].node = n /\ events'[l].kind = "started"
          /\ \A i \in DOMAIN events : i \in DOMAIN events' /\ events'[i] = events[i]
          /\ \A i \in DOMAIN events' : i \in DOMAIN events \/ i = l
      BY <1>0, <2>2, <3>1, AppendEvent DEF TypeOK, StartEvent
    <3> HIDE DEF l
    <3>3. \A m \in Nodes : \A i \in DOMAIN events' : IsResult(i, m)' <=> i \in DOMAIN events /\ IsResult(i, m)
      BY <3>2 DEF IsResult
    <3>4. \A m \in Nodes : \A i, j \in DOMAIN events' : IsResult(i, m)' /\ IsResult(j, m)' => i = j
      BY <1>0, <3>3 DEF PlaceInv
    <3>5. \A m \in Nodes : IsUnhandled(m)' <=> IsUnhandled(m)
      BY <3>2, <3>3 DEF IsUnhandled
    <3>6. StartInv'
      <4> SUFFICES ASSUME NEW i \in DOMAIN events', events'[i].kind = "started"
                   PROVE  \/ \E v \in Workers : at'[v] = events'[i].node
                          \/ \E j \in DOMAIN events' : /\ i < j /\ events'[j].node = events'[i].node
                                                       /\ events'[j].kind # "started"
        BY DEF StartInv, IsRunning, IsRun, IsResult
      <4>1. CASE i = l
        BY <1>1, <3>2, <4>1
      <4>2. CASE i \in DOMAIN events
        <5>1. /\ events'[i] = events[i] /\ events[i] \in Event
              /\ \/ \E v \in Workers : at[v] = events[i].node
                 \/ \E j \in DOMAIN events : /\ i < j /\ events[j].node = events[i].node
                                             /\ events[j].kind # "started"
          BY <1>0, <3>2, <4>2 DEF StartInv, IsRunning, IsRun, IsResult
        <5>2. ASSUME NEW v \in Workers, at[v] = events[i].node PROVE at'[v] = events'[i].node
          BY <1>1, <5>1, <5>2 DEF Event
        <5> QED
          BY <3>2, <5>1, <5>2
      <4> QED
        BY <3>2, <4>1, <4>2
    <3> QED
      BY <3>2, <3>4, <3>5, <3>6
  <2> QED
    BY <2>1, <2>2
<1>4. \A m \in Nodes : IsInFlight(m)' <=> IsInFlight(m)
  BY <1>0, <1>1, <1>2, <1>3 DEF IsInFlight, PlaceInv, TypeOK
<1>5. PlaceInv'
  <2>1. ~IsRunning(n) /\ ~IsUnhandled(n) /\ ready[n] = 1
    BY <1>0, <1>1 DEF PlaceInv
  <2>2. ASSUME NEW m \in Nodes, NEW u \in Workers, NEW v \in Workers, IsRun(u, m)', IsRun(v, m)'
        PROVE  u = v
    <3>1. CASE m = n
      BY <1>2, <2>1, <2>2, <3>1 DEF IsRunning
    <3>2. CASE m # n
      BY <1>0, <1>2, <2>2, <3>2 DEF PlaceInv
    <3> QED
      BY <3>1, <3>2
  <2>3. ASSUME NEW m \in Nodes
        PROVE  /\ ready'[m] <= 1
               /\ ready'[m] > 0 => ~IsRunning(m)' /\ ~IsUnhandled(m)'
               /\ IsRunning(m)' => ~IsUnhandled(m)'
    BY <1>0, <1>1, <1>2, <1>3, <2>1 DEF PlaceInv
  <2> QED
    BY <1>3, <2>2, <2>3 DEF PlaceInv
<1>6. StatusInv' /\ GraphInv'
  BY <1>0, <1>4, SameGraph DEF StatusInv, Held
<1>7. TypeOK' /\ PhaseInv' /\ SentInv' /\ CountInv'
  BY <1>1, <1>3 DEF Core, TypeOK, PhaseInv, SentInv, CountInv, IsWatched
<1> QED
  BY <1>3, <1>5, <1>6, <1>7 DEF Core

LEMMA WorkerPutInv ==
  ASSUME Core, NEW w \in Workers, WorkerPut(w) PROVE Core'
<1> USE DEF WorkerPut, graphVars, domainVars, clientVars, threadVars
<1> DEFINE n == at[w]
           l == Len(events) + 1
<1>0. TypeOK /\ PlaceInv /\ StartInv /\ StatusInv /\ GraphInv /\ n \in Nodes
  BY DEF Core
<1>1. PICK x \in Outcomes(n) : events' = Append(events, x)
  OBVIOUS
<1>2. x \in Event /\ x.node = n /\ x.kind # "started"
  <2> DEFINE c == CHOOSE h \in Handles \ {FailHandle} : TRUE
  <2>1. c \in Handles
    BY EngineAssumption
  <2> HIDE DEF c
  <2>2. \/ \E h \in Handles : x = [node |-> n, kind |-> "succeeded", handle |-> h]
        \/ x = [node |-> n, kind |-> "failed", handle |-> NoHandle]
        \/ x = [node |-> n, kind |-> "pause", handle |-> NoHandle]
    <3>1. CASE x = [node |-> n, kind |-> "succeeded", handle |-> c]
      BY <2>1, <3>1
    <3> QED
      BY <3>1 DEF Outcomes, c
  <2> QED
    BY <1>0, <2>2 DEF Event
<1> HIDE DEF n, l
<1>3. /\ events' \in Seq(Event) /\ events \in Seq(Event)
      /\ l \in DOMAIN events' /\ events'[l] = x
      /\ \A i \in DOMAIN events : i \in DOMAIN events' /\ events'[i] = events[i] /\ i < l
      /\ \A i \in DOMAIN events' : i \in DOMAIN events \/ i = l
  BY <1>0, <1>1, <1>2, AppendEvent DEF TypeOK, l
<1>4. /\ at' \in [Workers -> Nodes \cup {"get", "gone"}] /\ at[w] = n
      /\ \A v \in Workers : v # w => at'[v] = at[v]
      /\ at'[w] \notin Nodes
  BY <1>0, EngineAssumption DEF TypeOK, n
<1>5. /\ \A m \in Nodes : \A v \in Workers : IsRun(v, m)' <=> v # w /\ IsRun(v, m)
      /\ IsRun(w, n)
      /\ \A v \in Workers : IsRun(v, n) => v = w
      /\ \A m \in Nodes : IsRun(w, m) => m = n
  BY <1>0, <1>4 DEF IsRun, PlaceInv
<1>6. \A m \in Nodes : IsRunning(m)' <=> IsRunning(m) /\ m # n
  BY <1>5 DEF IsRunning
<1>7. IsRunning(n) /\ ready[n] = 0 /\ ~IsUnhandled(n)
  BY <1>0, <1>5 DEF IsRunning, PlaceInv, TypeOK
<1>8. \A m \in Nodes : \A i \in DOMAIN events' : IsResult(i, m)' <=> IF i = l THEN m = n ELSE IsResult(i, m)
  BY <1>2, <1>3 DEF IsResult
<1>9. \A m \in Nodes : IsUnhandled(m)' <=> IsUnhandled(m) \/ m = n
  BY <1>3, <1>8 DEF IsUnhandled
<1>10. \A m \in Nodes : \A i, j \in DOMAIN events' : IsResult(i, m)' /\ IsResult(j, m)' => i = j
  BY <1>0, <1>3, <1>7, <1>8 DEF PlaceInv, IsUnhandled
<1>11. \A m \in Nodes : IsInFlight(m)' <=> IsInFlight(m)
  BY <1>6, <1>7, <1>9 DEF IsInFlight
<1>12. PlaceInv'
  <2>1. \A m \in Nodes : \A u, v \in Workers : IsRun(u, m)' /\ IsRun(v, m)' => u = v
    BY <1>0, <1>5 DEF PlaceInv
  <2> QED
    BY <1>0, <1>6, <1>7, <1>9, <1>10, <2>1 DEF PlaceInv
<1>13. StartInv'
  <2> SUFFICES ASSUME NEW i \in DOMAIN events', events'[i].kind = "started"
               PROVE  \/ \E v \in Workers : at'[v] = events'[i].node
                      \/ \E j \in DOMAIN events' : /\ i < j /\ events'[j].node = events'[i].node
                                                   /\ events'[j].kind # "started"
    BY DEF StartInv, IsRunning, IsRun, IsResult
  <2>1. i \in DOMAIN events /\ events'[i] = events[i] /\ i < l
    BY <1>2, <1>3
  <2>2. \/ \E v \in Workers : at[v] = events[i].node
        \/ \E j \in DOMAIN events : /\ i < j /\ events[j].node = events[i].node
                                    /\ events[j].kind # "started"
    BY <1>0, <2>1 DEF StartInv, IsRunning, IsRun, IsResult
  <2>3. CASE at[w] = events[i].node
    BY <1>2, <1>3, <1>4, <2>1, <2>3
  <2>4. CASE at[w] # events[i].node
    BY <1>3, <1>4, <2>1, <2>2, <2>4
  <2> QED
    BY <2>3, <2>4
<1>14. StatusInv' /\ GraphInv'
  BY <1>0, <1>11, SameGraph DEF StatusInv, Held
<1>15. TypeOK' /\ PhaseInv' /\ SentInv' /\ CountInv'
  BY <1>3, <1>4 DEF Core, TypeOK, PhaseInv, SentInv, CountInv, IsWatched
<1> QED
  BY <1>12, <1>13, <1>14, <1>15 DEF Core

\* What is true of the queues survives what leaves them, and the nodes that the
\* workers run, alone.
LEMMA SameQueues ==
  ASSUME Core, UNCHANGED <<ready, events, edges, status, chosen, executing, paused, deferred>>,
         \A m \in Nodes : \A v \in Workers : at'[v] = m <=> at[v] = m,
         gx'.error = "none" => gx.error = "none",
         gx.paused => gx'.paused
  PROVE  PlaceInv' /\ StatusInv' /\ GraphInv' /\ StartInv'
<1>1. /\ \A m \in Nodes : \A v \in Workers : IsRun(v, m)' <=> IsRun(v, m)
      /\ \A m \in Nodes : IsRunning(m)' <=> IsRunning(m)
  BY DEF IsRunning, IsRun
<1>2. /\ \A m \in Nodes : \A i \in DOMAIN events : IsResult(i, m)' <=> IsResult(i, m)
      /\ \A m \in Nodes : IsUnhandled(m)' <=> IsUnhandled(m)
  BY DEF IsUnhandled, IsResult
<1>3. \A m \in Nodes : IsInFlight(m)' <=> IsInFlight(m)
  BY <1>1, <1>2 DEF IsInFlight
<1>4. PlaceInv'
  BY <1>1, <1>2 DEF Core, PlaceInv
<1>5. StatusInv'
  BY <1>3 DEF Core, StatusInv, Held
<1>6. GraphInv'
  BY SameGraph DEF Core
<1>7. StartInv'
  <2>1. \A i \in DOMAIN events : events[i].node \in Nodes
    <3>1. events \in Seq(Event)
      BY DEF Core, TypeOK
    <3>2. \A i \in DOMAIN events : events[i] \in Event
      BY <3>1
    <3> QED
      BY <3>2 DEF Event
  <2>2. \A i \in DOMAIN events :
          events[i].kind = "started" =>
            \/ \E v \in Workers : at[v] = events[i].node
            \/ \E j \in DOMAIN events : i < j /\ IsResult(j, events[i].node)
    BY DEF Core, StartInv, IsRunning, IsRun
  <2> QED
    BY <2>1, <2>2 DEF StartInv, IsRunning, IsRun, IsResult
<1> QED
  BY <1>4, <1>5, <1>6, <1>7

LEMMA WorkerLeaveInv ==
  ASSUME Core, NEW w \in Workers, WorkerLeave(w) PROVE Core'
<1> USE DEF WorkerLeave, graphVars, domainVars, clientVars, threadVars
<1>1. /\ at' \in [Workers -> Nodes \cup {"get", "gone"}]
      /\ \A m \in Nodes : \A v \in Workers : at'[v] = m <=> at[v] = m
  BY EngineAssumption DEF Core, TypeOK
<1>2. PlaceInv' /\ StatusInv' /\ GraphInv' /\ StartInv'
  BY <1>1, SameQueues
<1>3. TypeOK' /\ PhaseInv' /\ SentInv' /\ CountInv'
  BY <1>1 DEF Core, TypeOK, PhaseInv, SentInv, CountInv, IsWatched
<1> QED
  BY <1>2, <1>3 DEF Core

LEMMA SendCommandInv ==
  ASSUME Core, NEW c \in {"pause", "abort"}, SendCommand(c) PROVE Core'
<1> USE DEF SendCommand, graphVars, queueVars, domainVars, threadVars
<1>1. /\ channel' \in Seq({"pause", "abort"})
      /\ \A i \in DOMAIN channel : i \in DOMAIN channel' /\ channel'[i] = channel[i]
  <2>1. channel \in Seq({"pause", "abort"})
    BY DEF Core, TypeOK
  <2>2. /\ channel' \in Seq({"pause", "abort"}) /\ Len(channel') = Len(channel) + 1
        /\ Len(channel) \in Nat
        /\ \A i \in 1..Len(channel) : channel'[i] = channel[i]
    BY <2>1, AppendProperties
  <2>3. DOMAIN channel = 1..Len(channel) /\ DOMAIN channel' = 1..Len(channel')
    BY <2>1, <2>2
  <2> QED
    BY <2>2, <2>3
<1>2. PlaceInv' /\ StatusInv' /\ GraphInv' /\ StartInv'
  BY SameQueues
<1>3. TypeOK'
  BY <1>1, EngineAssumption DEF Core, TypeOK
<1>4. PhaseInv' /\ SentInv' /\ CountInv'
  BY <1>1 DEF Core, PhaseInv, SentInv, CountInv, IsWatched
<1> QED
  BY <1>2, <1>3, <1>4 DEF Core
-----------------------------------------------------------------------------
\* The commands.

LEMMA ApplyType ==
  ASSUME NEW x \in GraphExecution, NEW c \in {"pause", "abort"}
  PROVE  /\ Apply(x, c) \in GraphExecution
         /\ Apply(x, c).exceptions = x.exceptions
         /\ x.paused => Apply(x, c).paused
         /\ (x.aborted => x.error # "none") => (Apply(x, c).aborted => Apply(x, c).error # "none")
         /\ Apply(x, c).error = "none" => x.error = "none" /\ c # "abort"
<1>1. CASE c = "pause"
  <2>1. Apply(x, c) = IF x.completed \/ x.aborted THEN x ELSE [x EXCEPT !.paused = TRUE]
    BY <1>1 DEF Apply
  <2> QED
    BY <1>1, <2>1 DEF GraphExecution
<1>2. CASE c = "abort"
  <2>1. Apply(x, c) = [x EXCEPT !.aborted = TRUE, !.error = "abort"]
    BY <1>2 DEF Apply
  <2> QED
    BY <1>2, <2>1 DEF GraphExecution
<1> QED
  BY <1>1, <1>2

\* The recursion over the channel has a value at every command.
LEMMA AppliedAt ==
  ASSUME gx \in GraphExecution, channel \in Seq({"pause", "abort"})
  PROVE  /\ Applied[0] = gx
         /\ \A i \in 1..Len(channel) : Applied[i] = Apply(Applied[i - 1], channel[i])
<1> DEFINE Command == {"pause", "abort"}
           step == [p \in GraphExecution \X Command |-> Apply(p[1], p[2])]
           Body(D) == [i \in 0..Len(channel) |-> IF i = 0 THEN gx ELSE Apply(D[i - 1], channel[i])]
<1>1. step \in [GraphExecution \X Command -> GraphExecution]
  BY ApplyType
<1>2. PICK g : LoopOver(channel, g, GraphExecution, gx, step)
  <2> HIDE DEF step
  <2> QED
    BY <1>1, LoopExists
<1>3. Len(channel) \in Nat
  OBVIOUS
<1>4. ASSUME NEW i \in 1..Len(channel) PROVE g[i] = Apply(g[i - 1], channel[i])
  <2>1. i - 1 \in 0..Len(channel) /\ channel[i] \in Command
    BY <1>3
  <2>2. g[i - 1] \in GraphExecution /\ g[i] = step[<<g[i - 1], channel[i]>>]
    BY <1>2, <2>1 DEF LoopOver
  <2> QED
    BY <2>1, <2>2
<1>5. g = Body(g)
  <2>1. g \in [0..Len(channel) -> GraphExecution] /\ g[0] = gx
    BY <1>2 DEF LoopOver
  <2>2. \A i \in 0..Len(channel) : g[i] = Body(g)[i]
    BY <1>3, <1>4, <2>1
  <2> QED
    BY <2>1, <2>2
<1>6. Applied = CHOOSE D : D = Body(D)
  BY DEF Applied
<1> HIDE DEF Body
<1>7. Applied = Body(Applied)
  BY <1>5, <1>6
<1> QED
  BY <1>3, <1>7 DEF Body

\* What a batch of commands can do to the execution.
LEMMA CommandsApplied ==
  ASSUME gx \in GraphExecution, channel \in Seq({"pause", "abort"}),
         gx.aborted => gx.error # "none",
         NEW x, x = Applied[Len(channel)]
  PROVE  /\ x \in GraphExecution /\ x.exceptions = gx.exceptions
         /\ gx.paused => x.paused
         /\ x.aborted => x.error # "none"
         /\ x.error = "none" =>
              gx.error = "none" /\ \A i \in DOMAIN channel : channel[i] # "abort"
<1> DEFINE n == Len(channel)
           Good(i) == LET y == Applied[i]
                      IN  /\ y \in GraphExecution /\ y.exceptions = gx.exceptions
                          /\ gx.paused => y.paused
                          /\ y.aborted => y.error # "none"
                          /\ y.error = "none" =>
                               gx.error = "none" /\ \A j \in 1..i : channel[j] # "abort"
           P == {i \in Nat : i <= n => Good(i)}
<1>1. n \in Nat /\ DOMAIN channel = 1..n /\ \A i \in 1..n : channel[i] \in {"pause", "abort"}
  OBVIOUS
<1>2. 0 \in P
  BY AppliedAt
<1>3. ASSUME NEW i \in Nat, i \in P PROVE i + 1 \in P
  <2> SUFFICES ASSUME i + 1 <= n PROVE Good(i + 1)
    OBVIOUS
  <2>1. i + 1 \in 1..n /\ (i + 1) - 1 = i /\ Good(i)
    BY <1>1, <1>3
  <2>2. Applied[i + 1] = Apply(Applied[i], channel[i + 1])
    BY <2>1, AppliedAt
  <2> DEFINE y == Applied[i]
             z == Applied[i + 1]
             c == channel[i + 1]
  <2>3. c \in {"pause", "abort"} /\ y \in GraphExecution /\ z = Apply(y, c)
    BY <1>1, <2>1, <2>2
  <2>4. /\ y.exceptions = gx.exceptions /\ (gx.paused => y.paused) /\ (y.aborted => y.error # "none")
        /\ y.error = "none" => gx.error = "none" /\ \A j \in 1..i : channel[j] # "abort"
    BY <2>1
  <2> HIDE DEF y, z
  <2>5. /\ z \in GraphExecution /\ z.exceptions = y.exceptions /\ (y.paused => z.paused)
        /\ z.aborted => z.error # "none"
        /\ z.error = "none" => y.error = "none" /\ c # "abort"
    BY <2>3, <2>4, ApplyType
  <2>6. ASSUME z.error = "none", NEW j \in 1..(i + 1) PROVE channel[j] # "abort"
    <3>1. j \in 1..i \/ j = i + 1
      OBVIOUS
    <3> QED
      BY <2>4, <2>5, <2>6, <3>1
  <2> QED
    BY <2>4, <2>5, <2>6 DEF z
<1> HIDE DEF P
<1>4. n \in P
  BY <1>1, <1>2, <1>3, SetInduction
<1>5. Good(n)
  BY <1>1, <1>4 DEF P
<1> QED
  BY <1>1, <1>5

LEMMA ProcessCommandsInv ==
  ASSUME Core, ProcessCommands PROVE Core'
<1> USE DEF ProcessCommands, graphVars, queueVars
<1>1. /\ gx \in GraphExecution /\ channel \in Seq({"pause", "abort"})
      /\ gx.aborted => gx.error # "none"
  BY DEF Core, TypeOK, PhaseInv
<1>2. /\ gx' \in GraphExecution /\ gx'.exceptions = gx.exceptions
      /\ gx.paused => gx'.paused
      /\ gx'.aborted => gx'.error # "none"
      /\ gx'.error = "none" =>
           gx.error = "none" /\ \A i \in DOMAIN channel : channel[i] # "abort"
  BY <1>1, CommandsApplied
<1>3. /\ dispatcher \in {"start", "loopCommands", "drainCommands", "final", "finalPaused"}
      /\ dispatcher' \in {"loop", "drainIdle", "drain"}
      /\ dispatcher' = "drain" => dispatcher = "final"
  BY DEF AfterCommands
<1>4. PlaceInv' /\ StatusInv' /\ GraphInv' /\ StartInv'
  BY <1>2, SameQueues
<1>5. TypeOK'
  <2>1. channel' \in Seq({"pause", "abort"})
    BY DEF Core
  <2> QED
    BY <1>2, <1>3, <2>1 DEF Core, TypeOK
<1>6. PhaseInv'
  BY <1>2, <1>3 DEF Core, PhaseInv
<1>7. SentInv'
  BY <1>2 DEF Core, SentInv
<1>8. CountInv'
  BY <1>2 DEF Core, CountInv, IsWatched
<1> QED
  BY <1>4, <1>5, <1>6, <1>7, <1>8 DEF Core
LEMMA FetchRaisesInv ==
  ASSUME Core, FetchRaises PROVE Core'
<1> USE DEF FetchRaises, graphVars, queueVars, domainVars
<1>1. /\ layer' \in Layer /\ layer'.max = layer.max /\ layer'.count = layer.count
      /\ layer'.sent = layer.sent /\ layer'.lost = layer.lost
      /\ layer.sent => layer'.missed
  <2>1. layer \in Layer
    BY DEF Core, TypeOK
  <2>2. (layer.missed \/ layer.sent) \in BOOLEAN
    OBVIOUS
  <2> QED
    BY <2>1, <2>2 DEF Layer
<1>2. /\ dispatcher \in {"start", "loopCommands", "drainCommands", "final", "finalPaused"}
      /\ dispatcher' \in {"loop", "drainIdle", "drain"}
      /\ dispatcher' = "drain" => dispatcher = "final"
  BY DEF AfterCommands
<1>3. PlaceInv' /\ StatusInv' /\ GraphInv' /\ StartInv'
  BY SameQueues
<1>4. TypeOK'
  <2>1. channel' = channel \/ channel' = <<>>
    OBVIOUS
  <2>2. channel \in Seq({"pause", "abort"})
    BY DEF Core, TypeOK
  <2>3. <<>> \in Seq({"pause", "abort"})
    BY ONLY EmptySeq
  <2>4. channel' \in Seq({"pause", "abort"})
    BY ONLY <2>1, <2>2, <2>3
  <2> QED
    BY <1>1, <1>2, <2>4 DEF Core, TypeOK
<1>5. PhaseInv'
  BY <1>2 DEF Core, PhaseInv
<1>6. SentInv'
  BY <1>1 DEF SentInv
<1>7. CountInv'
  BY <1>1 DEF Core, CountInv, IsWatched
<1> QED
  BY <1>3, <1>4, <1>5, <1>6, <1>7 DEF Core
-----------------------------------------------------------------------------
\* The rest of the dispatcher's loop and the thread that iterates.

LEMMA LeaveLoopInv ==
  ASSUME Core, LeaveLoop PROVE Core'
<1> USE DEF LeaveLoop, graphVars, queueVars, domainVars, clientVars
<1>1. dispatcher = "loop" /\ dispatcher' \in {"final", "finalPaused"}
  OBVIOUS
<1>2. PlaceInv' /\ StatusInv' /\ GraphInv' /\ StartInv'
  BY SameQueues
<1>3. TypeOK'
  <2>1. dispatcher' \in {"loop", "drainIdle", "drain", "end", "over"} \cup DOMAIN AfterCommands
    BY <1>1 DEF AfterCommands
  <2> QED
    BY <2>1 DEF Core, TypeOK
<1>4. report \in {"none", "closed"} /\ ~emitted /\ (stopping => report = "closed")
  BY <1>1 DEF Core, PhaseInv
<1>5. dispatcher' = "final" /\ gx.error = "none" /\ report # "closed" => executing = {}
  BY <1>4 DEF Core, PhaseInv, HasStopped, IsExecutionComplete
<1>6. PhaseInv'
  BY <1>1, <1>4, <1>5 DEF Core, PhaseInv
<1>7. SentInv' /\ CountInv'
  BY <1>1 DEF Core, SentInv, CountInv, IsWatched
<1> QED
  BY <1>2, <1>3, <1>6, <1>7 DEF Core

LEMMA IdleInv ==
  ASSUME Core, Idle PROVE Core'
<1> USE DEF Idle, graphVars, queueVars, domainVars, clientVars
<1>1. PlaceInv' /\ StatusInv' /\ GraphInv' /\ StartInv'
  BY SameQueues
<1>2. report \in {"none", "closed"} /\ ~emitted /\ (stopping => report = "closed")
  BY DEF Core, PhaseInv
<1>3. TypeOK' /\ PhaseInv' /\ SentInv' /\ CountInv'
  BY <1>2 DEF Core, TypeOK, PhaseInv, SentInv, CountInv, IsWatched
<1> QED
  BY <1>1, <1>3 DEF Core

LEMMA DrainedInv ==
  ASSUME Core, Drained PROVE Core'
<1> USE DEF Drained, graphVars, queueVars, domainVars, clientVars
<1>1. PlaceInv' /\ StatusInv' /\ GraphInv' /\ StartInv'
  BY SameQueues
<1>2. TypeOK' /\ PhaseInv' /\ SentInv' /\ CountInv'
  BY DEF Core, TypeOK, PhaseInv, SentInv, CountInv, IsWatched
<1> QED
  BY <1>1, <1>2 DEF Core

LEMMA DispatcherEndsInv ==
  ASSUME Core, DispatcherEnds PROVE Core'
<1> USE DEF DispatcherEnds, graphVars, queueVars, clientVars
<1>1. /\ gx' \in GraphExecution /\ gx'.error = gx.error /\ gx'.paused = gx.paused
      /\ gx'.aborted = gx.aborted /\ gx'.exceptions = gx.exceptions
  <2>1. gx \in GraphExecution
    BY DEF Core, TypeOK
  <2>2. (gx.completed \/ ~gx.paused) \in BOOLEAN
    OBVIOUS
  <2> QED
    BY <2>1, <2>2 DEF GraphExecution
<1>2. PlaceInv' /\ StatusInv' /\ GraphInv' /\ StartInv'
  BY <1>1, SameQueues
<1>3. TypeOK'
  BY <1>1 DEF Core, TypeOK
<1>4. PhaseInv' /\ SentInv' /\ CountInv'
  BY <1>1 DEF Core, PhaseInv, SentInv, CountInv, IsWatched
<1> QED
  BY <1>2, <1>3, <1>4 DEF Core

LEMMA ReportInv ==
  ASSUME Core, Report PROVE Core'
<1> USE DEF Report, graphVars, queueVars, domainVars, clientVars
<1>1. PlaceInv' /\ StatusInv' /\ GraphInv' /\ StartInv'
  BY SameQueues
<1>2. \/ report' = "paused" /\ gx.paused
      \/ report' = "aborted"
      \/ report' = "failed"
      \/ report' = "partial" /\ ~gx.paused /\ gx.error = "none"
      \/ report' = "succeeded" /\ ~gx.paused /\ gx.error = "none" /\ ~gx.exceptions
  BY DEF Core, TypeOK, GraphExecution
<1>3. TypeOK'
  BY <1>2 DEF Core, TypeOK
<1>4. PhaseInv' /\ SentInv' /\ CountInv'
  BY <1>2 DEF Core, PhaseInv, SentInv, CountInv, IsWatched
<1> QED
  BY <1>1, <1>3, <1>4 DEF Core

LEMMA StopExecutionInv ==
  ASSUME Core, StopExecution PROVE Core'
<1> USE DEF StopExecution, graphVars, queueVars, domainVars, clientVars
<1>1. PlaceInv' /\ StatusInv' /\ GraphInv' /\ StartInv'
  BY SameQueues
<1>2. TypeOK' /\ PhaseInv' /\ SentInv' /\ CountInv'
  BY DEF Core, TypeOK, PhaseInv, SentInv, CountInv, IsWatched
<1> QED
  BY <1>1, <1>2 DEF Core

LEMMA CloseInv ==
  ASSUME Core, Close PROVE Core'
<1> USE DEF Close, graphVars, queueVars, domainVars, clientVars
<1>1. PlaceInv' /\ StatusInv' /\ GraphInv' /\ StartInv'
  BY SameQueues
<1>2. TypeOK' /\ PhaseInv' /\ SentInv' /\ CountInv'
  BY DEF Core, TypeOK, PhaseInv, SentInv, CountInv, IsWatched
<1> QED
  BY <1>1, <1>2 DEF Core

\* Whatever is held is started again, and nothing else was in flight, or an error
\* has ended the execution.
LEMMA ResumeInv ==
  ASSUME Core, Resume PROVE Core'
<1> USE DEF Resume
<1>0. TypeOK /\ PlaceInv /\ StatusInv /\ GraphInv /\ PhaseInv
  BY DEF Core
<1>1. /\ ready' = Enqueue(Held) /\ executing' = Held /\ Held' = {} /\ Held \subseteq Nodes
      /\ status' = [m \in Nodes |-> IF m \in Held THEN "enabled" ELSE status[m]]
  BY <1>0 DEF Held, TypeOK
<1>2. /\ ready' \in [Nodes -> Nat]
      /\ \A m \in Nodes : ready'[m] = IF m \in Held THEN ready[m] + 1 ELSE ready[m]
      /\ \A m \in Nodes : ready[m] \in Nat
  BY <1>0, <1>1 DEF TypeOK, Enqueue
<1>3. /\ status' \in [Nodes -> NodeStatus]
      /\ \A m \in Nodes : status'[m] = IF m \in Held THEN "enabled" ELSE status[m]
  BY <1>0, <1>1 DEF TypeOK, NodeStatus
<1>4. \A m \in Held : m \in Nodes /\ status[m] = "waiting" /\ ~IsInFlight(m) /\ ready[m] = 0
  BY <1>0, <1>1, <1>2 DEF StatusInv, IsInFlight
<1>5. gx.error = "none" => \A m \in Nodes : ~IsInFlight(m)
  <2>1. gx.error = "none" => executing = {}
    BY <1>0 DEF PhaseInv, Over
  <2> QED
    BY <1>0, <2>1 DEF StatusInv
<1>6. /\ DOMAIN events' = {}
      /\ \A m \in Nodes : ~IsUnhandled(m)' /\ ~IsRunning(m)'
      /\ \A m \in Nodes : IsInFlight(m)' <=> ready'[m] > 0
      /\ StartInv'
  <2>1. DOMAIN events' = {}
    OBVIOUS
  <2>2. \A m \in Nodes : ~IsRunning(m)'
    BY EngineAssumption DEF IsRunning, IsRun
  <2>3. \A m \in Nodes : ~IsUnhandled(m)'
    BY <2>1 DEF IsUnhandled
  <2> QED
    BY <2>1, <2>2, <2>3 DEF IsInFlight, StartInv
<1>7. /\ gx' \in GraphExecution /\ gx'.error = gx.error /\ ~gx'.paused /\ gx'.aborted = gx.aborted
      /\ gx'.exceptions = gx.exceptions
  BY <1>0 DEF TypeOK, GraphExecution
<1>8. /\ layer' \in Layer /\ layer'.max = layer.max /\ layer'.count = 0 /\ ~layer'.sent
      /\ layer.max \in StepLimits
  BY <1>0 DEF TypeOK, Layer, LayerStarted
<1>9. TypeOK'
  <2>1. /\ events' \in Seq(Event) /\ at' \in [Workers -> Nodes \cup {"get", "gone"}]
        /\ runs' \in 1..MaxRuns
    BY <1>0, EngineAssumption DEF TypeOK
  <2>2. dispatcher' \in {"loop", "drainIdle", "drain", "end", "over"} \cup DOMAIN AfterCommands
    BY DEF AfterCommands
  <2>3. executing' \subseteq Nodes /\ paused' \subseteq Nodes /\ deferred' \subseteq Nodes
    BY <1>1
  <2> QED
    BY <1>0, <1>2, <1>3, <1>7, <1>8, <2>1, <2>2, <2>3 DEF TypeOK
<1>10. PlaceInv'
  <2>1. \A m \in Nodes : ready'[m] <= 1
    <3>1. ASSUME NEW m \in Nodes, m \in Held PROVE ready'[m] <= 1
      <4>1. ready[m] = 0 /\ ready'[m] = ready[m] + 1
        BY <1>2, <1>4, <3>1
      <4> QED
        BY <4>1
    <3>2. ASSUME NEW m \in Nodes, m \notin Held PROVE ready'[m] <= 1
      BY <1>0, <1>2, <3>2 DEF PlaceInv
    <3> QED
      BY <3>1, <3>2
  <2>2. \A m \in Nodes : \A v \in Workers : ~IsRun(v, m)'
    BY EngineAssumption DEF IsRun
  <2> QED
    BY <1>6, <2>1, <2>2 DEF PlaceInv
<1>11. StatusInv'
  <2>1. \A m \in Nodes : IsInFlight(m)' => status'[m] = "enabled"
    BY <1>0, <1>2, <1>3, <1>6 DEF StatusInv, IsInFlight
  <2>2. ASSUME NEW m \in Nodes, status'[m] = "enabled", gx.error = "none" PROVE m \in Held
    BY <1>0, <1>3, <1>5, <2>2 DEF StatusInv
  <2>3. gx.error = "none" => \A m \in Nodes : IsInFlight(m)' <=> m \in Held
    <3> SUFFICES ASSUME gx.error = "none", NEW m \in Nodes PROVE IsInFlight(m)' <=> m \in Held
      OBVIOUS
    <3>1. ready[m] = 0
      BY <1>2, <1>5 DEF IsInFlight
    <3>2. ready'[m] > 0 <=> m \in Held
      <4>1. ready'[m] = IF m \in Held THEN 1 ELSE 0
        <5> HIDE DEF Resume
        <5> QED
          BY <1>2, <3>1
      <4> QED
        BY <4>1
    <3> QED
      BY <1>6, <3>2
  <2> QED
    BY <1>1, <1>7, <2>1, <2>2, <2>3 DEF StatusInv
<1>12. GraphInv'
  <2>1. \A m \in Nodes : \A e \in Into(edges, m) : e.tail \in Nodes
    BY <1>0, EngineAssumption, GraphAssumption DEF TypeOK, Into
  <2>2. ASSUME NEW m \in Nodes, NEW e \in Into(edges, m)
        PROVE  /\ IsLive(e, status', chosen') <=> IsLive(e, status, chosen)
               /\ IsDead(e, status', chosen') <=> IsDead(e, status, chosen)
    <3>1. \/ status'[e.tail] = status[e.tail]
          \/ status[e.tail] = "waiting" /\ status'[e.tail] = "enabled"
      BY <1>3, <1>4, <2>1
    <3> QED
      BY <3>1 DEF IsLive, IsDead
  <2>3. ASSUME NEW m \in Nodes
        PROVE  IsFed(edges', m, status', chosen') <=> IsFed(edges, m, status, chosen)
    BY <2>2 DEF IsFed, IsDecided
  <2>4. \A m \in Nodes : Into(edges', m) = Into(edges, m) /\ m \notin Held'
    BY <1>1
  <2> QED
    BY <1>0, <1>3, <2>2, <2>3, <2>4 DEF GraphInv
<1>13. PhaseInv'
  BY <1>0, <1>7 DEF PhaseInv
<1>14. SentInv'
  BY <1>8 DEF SentInv
<1>15. CountInv'
  <2>1. IsWatched' => layer'.max \in Nat
    BY <1>8, LimitsAssumption DEF IsWatched
  <2> QED
    BY <1>8, <2>1 DEF CountInv
<1> QED
  BY <1>6, <1>9, <1>10, <1>11, <1>12, <1>13, <1>14, <1>15 DEF Core

LEMMA InitInv == Init => Core
<1> SUFFICES ASSUME Init PROVE Core
  OBVIOUS
<1> USE DEF Init
<1> DEFINE st == [n \in Nodes |-> IF n = Root THEN "enabled" ELSE "waiting"]
           ch == [n \in Nodes |-> NoHandle]
<1>1. edges \in Graphs /\ edges \subseteq Links /\ Root \in Nodes
      /\ \A m \in Nodes : \A e \in Into(edges, m) : e.tail \in Nodes /\ m # Root
  BY EngineAssumption, GraphAssumption DEF Into
<1>2. st \in [Nodes -> NodeStatus] /\ status = SkipPropagated(edges, st, ch) /\ chosen = ch
  BY DEF NodeStatus
<1>3. \A m \in Nodes : st[m] = IF m = Root THEN "enabled" ELSE "waiting"
  OBVIOUS
<1> HIDE DEF st, ch
<1>4. /\ status \in [Nodes -> NodeStatus]
      /\ \A m \in Nodes : \/ status[m] = st[m]
                          \/ /\ st[m] = "waiting" /\ status[m] = "skipped" /\ Into(edges, m) # {}
                             /\ \A e \in Into(edges, m) : IsDead(e, status, chosen)
      /\ \A m \in Nodes : status[m] = "waiting" /\ Into(edges, m) # {} =>
                            \E e \in Into(edges, m) : ~IsDead(e, status, chosen)
  <2> HIDE DEF Init
  <2>1. Propagated(NodeStatus, edges, st, ch, status)
    BY <1>1, <1>2, SkipFacts DEF NodeStatus
  <2> QED
    BY <1>2, <2>1 DEF Propagated
<1>5. Held = {} /\ DOMAIN events = {}
  BY DEF Held
<1>6. \A m \in Nodes : ~IsRunning(m) /\ ~IsUnhandled(m) /\ (IsInFlight(m) <=> m = Root)
  <2>1. \A m \in Nodes : ~IsRunning(m)
    BY EngineAssumption DEF IsRunning, IsRun
  <2>2. \A m \in Nodes : ~IsUnhandled(m)
    BY <1>5 DEF IsUnhandled
  <2> QED
    <3>1. \A m \in Nodes : ready[m] > 0 <=> m = Root
      OBVIOUS
    <3> HIDE DEF Init
    <3> QED
      BY <2>1, <2>2, <3>1 DEF IsInFlight
<1>7. TypeOK
  <2>1. /\ chosen \in [Nodes -> Handles \cup {NoHandle}] /\ ready \in [Nodes -> Nat]
        /\ executing \subseteq Nodes
    BY <1>1
  <2>2. at \in [Workers -> Nodes \cup {"get", "gone"}] /\ events \in Seq(Event)
    OBVIOUS
  <2>3. gx \in GraphExecution
    BY DEF GraphExecution
  <2>4. /\ retries \in [Nodes -> Nat] /\ \A n \in Nodes : retries[n] <= MaxRetries[n]
        /\ runs \in 1..MaxRuns /\ sent \in 0..MaxCommands
    BY EngineAssumption
  <2>5. channel \in Seq({"pause", "abort"})
    OBVIOUS
  <2>6. layer \in Layer
    <3>1. layer \in [max : StepLimits, count : {0}, sent : {FALSE}, lost : {FALSE},
                  missed : {FALSE}]
      BY DEF LayerInit
    <3> HIDE DEF Init
    <3>2. /\ layer.max \in StepLimits /\ layer.count = 0
          /\ layer.sent = FALSE /\ layer.lost = FALSE /\ layer.missed = FALSE
          /\ layer = [max |-> layer.max, count |-> layer.count, sent |-> layer.sent,
                      lost |-> layer.lost, missed |-> layer.missed]
      BY <3>1
    <3>3. PICK x \in StepLimits : layer = [max |-> x, count |-> 0, sent |-> FALSE, lost |-> FALSE,
                                             missed |-> FALSE]
      BY <3>2
    <3> QED
      BY <3>3 DEF Layer
  <2>7. dispatcher \in {"loop", "drainIdle", "drain", "end", "over"} \cup DOMAIN AfterCommands
    BY DEF AfterCommands
  <2>8. paused \subseteq Nodes /\ deferred \subseteq Nodes
        /\ {stopping, draining, emitted} \subseteq BOOLEAN
        /\ report \in {"none", "closed", "paused", "aborted", "failed", "partial", "succeeded"}
    OBVIOUS
  <2> QED
    BY <1>1, <1>4, <2>1, <2>2, <2>3, <2>4, <2>5, <2>6, <2>7, <2>8 DEF TypeOK
<1>8. PlaceInv
  <2>1. \A m \in Nodes : \A v \in Workers : ~IsRun(v, m)
    BY EngineAssumption DEF IsRun
  <2>2. \A m \in Nodes : ready[m] <= 1
    OBVIOUS
  <2> QED
    BY <1>5, <1>6, <2>1, <2>2 DEF PlaceInv
<1>9. StatusInv
  <2>1. \A m \in Nodes : status[m] = "enabled" <=> m = Root
    BY <1>3, <1>4
  <2>2. executing = {m \in Nodes : IsInFlight(m)}
    BY <1>1, <1>6
  <2> QED
    BY <1>5, <1>6, <2>1, <2>2 DEF StatusInv
<1>10. GraphInv
  <2>1. \A m \in Nodes : status[m] # "done" /\ (status[m] = "enabled" <=> m = Root)
                         /\ (status[m] = "skipped" =>
                               m # Root /\ \A e \in Into(edges, m) : IsDead(e, status, chosen))
    BY <1>1, <1>3, <1>4
  <2>2. \A m \in Nodes : ~IsFed(edges, m, status, chosen)
    BY <1>1, <2>1 DEF IsFed, IsLive
  <2> QED
    BY <1>4, <1>5, <2>1, <2>2 DEF GraphInv
<1>11. PhaseInv /\ SentInv /\ StartInv
  <2>1. PhaseInv /\ SentInv
    BY DEF PhaseInv, SentInv, LayerInit
  <2>2. StartInv
    BY <1>5 DEF StartInv
  <2> QED
    BY <2>1, <2>2
<1>12. CountInv
  BY DEF CountInv
<1> QED
  BY <1>7, <1>8, <1>9, <1>10, <1>11, <1>12 DEF Core

LEMMA StutterInv == ASSUME Core, UNCHANGED vars PROVE Core'
<1> USE DEF vars, graphVars, queueVars, domainVars, clientVars, threadVars
<1>1. PlaceInv' /\ StatusInv' /\ GraphInv' /\ StartInv'
  BY SameQueues
<1>2. TypeOK' /\ PhaseInv' /\ SentInv' /\ CountInv'
  BY DEF Core, TypeOK, PhaseInv, SentInv, CountInv, IsWatched
<1> QED
  BY <1>1, <1>2 DEF Core

LEMMA NextInv == Core /\ [Next]_vars => Core'
<1> SUFFICES ASSUME Core, [Next]_vars PROVE Core'
  OBVIOUS
<1>1. ASSUME NEW c \in {"pause", "abort"}, SendCommand(c) PROVE Core'
  BY <1>1, SendCommandInv
<1>2. ASSUME NEW w \in Workers, Worker(w) PROVE Core'
  BY <1>2, WorkerTakeInv, WorkerPutInv, WorkerLeaveInv DEF Worker
<1>3. ASSUME HandleEvent PROVE Core'
  BY <1>3, HandleStartedInv, HandleSucceededInv, HandleRetryInv, HandleFailedInv,
     HandleExceptionInv, ExceptionRaisesInv, HandlePauseInv DEF HandleEvent
<1>4. ASSUME Dispatcher PROVE Core'
  BY <1>3, <1>4, ProcessCommandsInv, FetchRaisesInv, LeaveLoopInv, IdleInv, DrainedInv,
     DispatcherEndsInv DEF Dispatcher
<1>5. ASSUME Report \/ StopExecution \/ Close \/ Resume PROVE Core'
  BY <1>5, ReportInv, StopExecutionInv, CloseInv, ResumeInv
<1>6. ASSUME Terminated \/ UNCHANGED vars PROVE Core'
  BY <1>6, StutterInv DEF Terminated
<1> QED
  BY <1>1, <1>2, <1>4, <1>5, <1>6 DEF Next
-----------------------------------------------------------------------------
\* What follows from the inductive part.

\* A node counts as in flight once, or not at all.
LEMMA InFlightCount ==
  ASSUME TypeOK, PlaceInv, NEW n \in Nodes
  PROVE  InFlight(n) = IF IsInFlight(n) THEN 1 ELSE 0
<1> DEFINE R == {w \in Workers : at[w] = n}
           U == {i \in DOMAIN events : events[i].node = n /\ events[i].kind # "started"}
<1>1. ready[n] \in {0, 1}
  BY DEF TypeOK, PlaceInv
<1>2. Cardinality(R) = IF IsRunning(n) THEN 1 ELSE 0
  <2>1. CASE IsRunning(n)
    <3>1. PICK w \in Workers : at[w] = n
      BY <2>1 DEF IsRunning, IsRun
    <3>2. R = {w}
      BY <3>1 DEF PlaceInv, IsRun
    <3> QED
      BY <2>1, <3>2, FS_Singleton
  <2>2. CASE ~IsRunning(n)
    <3>1. R = {}
      BY <2>2 DEF IsRunning, IsRun
    <3> QED
      BY <2>2, <3>1, FS_EmptySet
  <2> QED
    BY <2>1, <2>2
<1>3. Cardinality(U) = IF IsUnhandled(n) THEN 1 ELSE 0
  <2>1. CASE IsUnhandled(n)
    <3>1. PICK i \in DOMAIN events : IsResult(i, n)
      BY <2>1 DEF IsUnhandled
    <3>2. U = {i}
      BY <3>1 DEF PlaceInv, IsResult
    <3> QED
      BY <2>1, <3>2, FS_Singleton
  <2>2. CASE ~IsUnhandled(n)
    <3>1. U = {}
      BY <2>2 DEF IsUnhandled, IsResult
    <3> QED
      BY <2>2, <3>1, FS_EmptySet
  <2> QED
    BY <2>1, <2>2
<1>4. /\ ready[n] > 0 => ~IsRunning(n) /\ ~IsUnhandled(n)
      /\ IsRunning(n) => ~IsUnhandled(n)
  BY DEF PlaceInv
<1>5. InFlight(n) = ready[n] + Cardinality(R) + Cardinality(U)
  BY DEF InFlight
<1> HIDE DEF R, U
<1> QED
  BY <1>1, <1>2, <1>3, <1>4, <1>5 DEF IsInFlight

LEMMA CoreImpliesInv == Core => Inv
<1> SUFFICES ASSUME Core PROVE Inv
  OBVIOUS
<1>0. TypeOK /\ PlaceInv /\ StatusInv /\ PhaseInv /\ SentInv /\ CountInv
  BY DEF Core
<1>1. \A n \in Nodes : \/ IsInFlight(n) /\ InFlight(n) = 1
                       \/ ~IsInFlight(n) /\ InFlight(n) = 0
  BY <1>0, InFlightCount
<1>2. RunsOnce
  <2>1. \A n \in Nodes : /\ n \in Held => status[n] = "waiting" /\ ~IsInFlight(n)
                         /\ IsInFlight(n) => status[n] = "enabled"
    BY <1>0 DEF StatusInv
  <2> SUFFICES ASSUME NEW n \in Nodes
               PROVE  /\ InFlight(n) + (IF n \in deferred \cup paused THEN 1 ELSE 0) <= 1
                      /\ status[n] \in {"done", "skipped"} =>
                           InFlight(n) = 0 /\ n \notin deferred \cup paused
    BY DEF RunsOnce
  <2> DEFINE k == InFlight(n)
  <2>2. \/ IsInFlight(n) /\ k = 1
        \/ ~IsInFlight(n) /\ k = 0
    BY <1>1
  <2> HIDE DEF k
  <2>3. k + (IF n \in Held THEN 1 ELSE 0) <= 1
    BY <2>1, <2>2
  <2>4. status[n] \in {"done", "skipped"} => k = 0 /\ n \notin Held
    BY <2>1, <2>2
  <2> QED
    BY <2>3, <2>4 DEF Held, k
<1>3. ExecutingIsExact
  <2>1. gx.error = "none" => executing = {n \in Nodes : IsInFlight(n)}
    BY <1>0 DEF StatusInv
  <2>2. ASSUME NEW n \in Nodes PROVE InFlight(n) > 0 <=> IsInFlight(n)
    <3> DEFINE k == InFlight(n)
    <3>1. \/ IsInFlight(n) /\ k = 1
          \/ ~IsInFlight(n) /\ k = 0
      BY <1>1
    <3> HIDE DEF k
    <3>2. k > 0 <=> IsInFlight(n)
      BY <3>1
    <3> QED
      BY <3>2 DEF k
  <2> QED
    BY <2>1, <2>2 DEF ExecutingIsExact
<1>4. LimitsAreKept
  <2> SUFFICES ASSUME report \in {"succeeded", "partial"}
               PROVE  /\ ~layer.sent \/ layer.missed
                      /\ report = "succeeded" /\ IsWatched /\ ~layer.lost /\ ~layer.missed =>
                           layer.count <= layer.max
    BY DEF LimitsAreKept
  <2>1. /\ dispatcher = "over" /\ ~gx.paused /\ gx.error = "none" /\ report # "closed"
        /\ report = "succeeded" => ~gx.exceptions
        /\ executing = {}
    BY <1>0 DEF PhaseInv
  <2>2. ~layer.sent \/ layer.missed
    BY <1>0, <2>1 DEF SentInv
  <2>3. layer.count \in Nat /\ (IsWatched => layer.max \in Nat)
    <3>1. layer \in Layer
      BY <1>0 DEF TypeOK
    <3> QED
      BY <3>1, LimitsAssumption DEF Layer, IsWatched
  <2> QED
    BY <1>0, <2>1, <2>2, <2>3 DEF CountInv
<1> QED
  BY <1>2, <1>3, <1>4 DEF Core, Inv

\* While nothing has failed, the engine is at rest once its dispatcher is done.
LEMMA AtRest ==
  ASSUME Core, gx.error = "none", report \notin {"none", "closed"}
  PROVE  \A n \in Nodes : InFlight(n) = 0 /\ status[n] # "enabled"
<1>1. executing = {}
  BY DEF Core, PhaseInv
<1>2. \A n \in Nodes : ~IsInFlight(n) /\ status[n] # "enabled"
  BY <1>1 DEF Core, StatusInv
<1> QED
  BY <1>2, InFlightCount DEF Core

LEMMA CoreImpliesPausedIsResumable == Core => PausedIsResumable
<1> SUFFICES ASSUME Core, report = "paused", gx.error = "none"
             PROVE  /\ \A n \in Nodes : InFlight(n) = 0 /\ status[n] # "enabled"
                    /\ \A n \in Nodes :
                         status[n] = "waiting" /\ (n = Root \/ IsFed(edges, n, status, chosen)) =>
                           n \in deferred \cup paused
  BY DEF PausedIsResumable
<1>1. \A n \in Nodes :
        status[n] = "waiting" /\ (n = Root \/ IsFed(edges, n, status, chosen)) =>
          n \in deferred \cup paused
  BY DEF Core, GraphInv, Held
<1> QED
  BY <1>1, AtRest

\* A node that nothing decided would wait for another one, and that for the next:
\* in a rooted graph there is a first.
LEMMA CoreImpliesSuccessIsComplete ==
  ASSUME \A g \in Graphs : IsRooted(g)
  PROVE  Core => SuccessIsComplete
<1> SUFFICES ASSUME Core, report \in {"succeeded", "partial"}
             PROVE  \A n \in Nodes :
                      /\ status[n] \in {"done", "skipped"}
                      /\ InFlight(n) = 0
                      /\ status[n] = "done" <=>
                           n = Root \/ \E e \in Into(edges, n) : IsLive(e, status, chosen)
  BY DEF SuccessIsComplete
<1>1. gx.error = "none" /\ ~gx.paused
  BY DEF Core, PhaseInv
<1>2. \A n \in Nodes : InFlight(n) = 0 /\ status[n] # "enabled"
  BY <1>1, AtRest
<1>3. \A n \in Nodes : n \notin Held
  BY <1>1 DEF Core, StatusInv
<1>4. IsRooted(edges) /\ \A n \in Nodes : \A e \in Into(edges, n) : e.tail \in Nodes
  BY SMTT(30), EngineAssumption, GraphAssumption DEF Core, TypeOK, Into
<1>5. \A n \in Nodes : status[n] \in NodeStatus
  BY DEF Core, TypeOK
<1> DEFINE W == {n \in Nodes : status[n] = "waiting"}
<1>6. W = {}
  <2> SUFFICES ASSUME W # {} PROVE FALSE
    OBVIOUS
  <2>1. PICK n \in W : \A e \in Into(edges, n) : e.tail \notin W
    <3>1. W \in SUBSET Nodes /\ W # {}
      OBVIOUS
    <3> HIDE DEF W
    <3> QED
      BY <1>4, <3>1 DEF IsRooted, IsAcyclic
  <2>2. \A e \in Into(edges, n) : IsDecided(e, status, chosen)
    <3> SUFFICES ASSUME NEW e \in Into(edges, n) PROVE IsDecided(e, status, chosen)
      OBVIOUS
    <3>1. e.tail \in Nodes /\ status[e.tail] \in {"done", "skipped"}
      BY <1>2, <1>4, <1>5, <2>1 DEF NodeStatus
    <3> QED
      BY <3>1, LiveOrDead
  <2>3. n # Root /\ ~IsFed(edges, n, status, chosen)
    BY <1>3 DEF Core, GraphInv
  <2>4. \E e \in Into(edges, n) : ~IsDead(e, status, chosen)
    BY <1>4, <2>3 DEF Core, GraphInv, IsRooted
  <2> QED
    BY <2>2, <2>3, <2>4 DEF IsFed, IsDecided
<1>7. ASSUME NEW n \in Nodes PROVE status[n] \in {"done", "skipped"}
  BY <1>2, <1>5, <1>6 DEF NodeStatus
<1>8. ASSUME NEW n \in Nodes, status[n] = "done"
      PROVE  n = Root \/ \E e \in Into(edges, n) : IsLive(e, status, chosen)
  BY <1>8 DEF Core, GraphInv, IsFed
<1>9. ASSUME NEW n \in Nodes, status[n] = "skipped"
      PROVE  ~(n = Root \/ \E e \in Into(edges, n) : IsLive(e, status, chosen))
  BY <1>9, LiveOrDead DEF Core, GraphInv
<1> QED
  BY <1>2, <1>7, <1>8, <1>9
-----------------------------------------------------------------------------
LEMMA Invariant == Spec => []Core
BY InitInv, NextInv, PTL DEF Spec

\* At every moment of every run of every graph, whatever the threads, the clients
\* and the layer do: each node is in one place, the executing set is exact, and
\* the limits are kept.
THEOREM Invariance == Spec => []Inv
BY Invariant, CoreImpliesInv, PTL

\* Nothing is lost by a pause: when one is reported, the engine is at rest and a
\* resumption starts every node that could go on.
THEOREM PausesAreResumable == Spec => []PausedIsResumable
BY Invariant, CoreImpliesPausedIsResumable, PTL

\* A run that ends well has decided every node, in all graphs that are rooted.
THEOREM SuccessesAreComplete ==
  ASSUME \A g \in Graphs : IsRooted(g)
  PROVE  Spec => []SuccessIsComplete
BY Invariant, CoreImpliesSuccessIsComplete, PTL
=============================================================================
