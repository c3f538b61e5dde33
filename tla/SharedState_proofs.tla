-------------------------- MODULE SharedState_proofs --------------------------
(***************************************************************************)
(* Proofs about what the engine shares with others, each for every value   *)
(* of its constants: the commands clients put into Redis (RedisChannel),   *)
(* the list and the stop flags of the worker threads (WorkerPool), the     *)
(* events the consumer of a run copies (EventManager), and the snapshots   *)
(* with which a run goes on in another process (RuntimeState).  The four   *)
(* have no variable in common.                                             *)
(***************************************************************************)
EXTENDS LoopTheorems, RuntimeState, RedisChannel, WorkerPool, EventManager

-----------------------------------------------------------------------------
(* Snapshots of the runtime state.                                        *)

Fields ==
  {"tokens", "answer", "pool", "queue", "execution", "coordinator", "graph", "paused", "deferred",
   "waitingDump", "waitingMarks"}

\* Marks of all nodes.
AreMarks(g) == g = [n \in Nodes |-> g[n]]
IsOption(option) == option = Absent \/ option = Present(option[1])

\* A state with its graph waits for nothing; without it, it waits for the marks of all nodes or of none.
ReadyInv(s) ==
  /\ DOMAIN s = Fields /\ DOMAIN s.pool = {"id", "writes"}
  /\ IsOption(s.graph) /\ IsOption(s.coordinator) /\ IsOption(s.waitingDump)
  /\ s.graph # Absent => AreMarks(s.graph[1])
  /\ s.coordinator # Absent => DOMAIN s.coordinator[1] = {"shown", "pool"}
  /\ s.waitingMarks = <<>> \/ AreMarks(s.waitingMarks)
  /\ s.graph # Absent => s.waitingDump = Absent /\ s.waitingMarks = <<>>

\* What is written agrees with what is meant.
WrittenInv(d, meant) ==
  /\ DOMAIN d = {"tokens", "answer", "writes", "queue", "execution", "paused", "deferred", "marks", "coordinator"}
  /\ meant = [tokens |-> meant.tokens, answer |-> meant.answer, writes |-> meant.writes,
              queue |-> meant.queue, execution |-> meant.execution, paused |-> meant.paused,
              deferred |-> meant.deferred, marks |-> meant.marks, shown |-> meant.shown]
  /\ d.tokens = meant.tokens /\ d.answer = meant.answer /\ d.writes = meant.writes
  /\ d.queue = meant.queue /\ d.execution = meant.execution
  /\ d.paused = meant.paused /\ d.deferred = meant.deferred
  /\ IsOption(d.coordinator) /\ (d.coordinator # Absent => meant.shown = d.coordinator[1])
  /\ d.marks = <<>> \/ (AreMarks(d.marks) /\ meant.marks = d.marks)

\* What a state means is what was meant, but for what a snapshot may lose.
Agrees(means, meant, d) ==
  /\ means.tokens = meant.tokens /\ means.answer = meant.answer /\ means.writes = meant.writes
  /\ means.queue = meant.queue /\ means.execution = meant.execution
  /\ means.paused = meant.paused /\ means.deferred = meant.deferred
  /\ d.coordinator # Absent => means.shown = meant.shown
  /\ d.marks # <<>> => means.marks = meant.marks

\* What is live is ready and its coordinator reads its pool; a snapshot says what was
\* meant when it was taken; and since a restoring nothing of that has been lost.
RestoreInv ==
  /\ ReadyInv(live)
  /\ snapshot # Absent => WrittenInv(snapshot[1], kept[1])
  /\ fresh /\ snapshot # Absent => Agrees(Meaning(live), kept[1], snapshot[1])
  /\ CoordinatorReadsPool

\* What is present is there.
LEMMA TheOfPresent == \A x, y : TheOf(Present(x), y) = x
BY DEF TheOf, Present, Absent

\* What a state means, by its fields.
LEMMA MeaningOf ==
  ASSUME NEW s
  PROVE  /\ Meaning(s).tokens = s.tokens /\ Meaning(s).answer = s.answer
         /\ Meaning(s).writes = s.pool.writes /\ Meaning(s).queue = TheOf(s.queue, <<>>)
         /\ Meaning(s).execution = TheOf(s.execution, NewExecution(""))
         /\ Meaning(s).paused = s.paused /\ Meaning(s).deferred = s.deferred
BY DEF Meaning

\* Marks of all nodes replace any others; none leave them.
LEMMA MarksAreKept ==
  /\ AreMarks(Untouched) /\ \A x, y : AreMarks(Marked(x, y))
  /\ \A g : AreMarks(g) => Marked(g, <<>>) = g /\ \A x : Marked(x, g) = g
BY DEF AreMarks, Marked, Untouched

\* What readiness is about stays: so does readiness.
LEMMA ReadyRests ==
  ASSUME NEW s, NEW t, ReadyInv(s), DOMAIN t = Fields, DOMAIN t.pool = {"id", "writes"},
         t.graph = s.graph, t.coordinator = s.coordinator,
         t.waitingDump = s.waitingDump, t.waitingMarks = s.waitingMarks
  PROVE  ReadyInv(t)
BY DEF ReadyInv

\* Attaching the graph puts what waited into it and into the coordinator.
LEMMA GraphIsAttached ==
  ASSUME NEW s, ReadyInv(s), NEW t, t = WithGraph(s)
  PROVE  /\ ReadyInv(t) /\ Meaning(t).shown = Meaning(s).shown /\ Meaning(t).marks = Meaning(s).marks
         /\ t.coordinator # Absent
         /\ t.coordinator[1].pool = IF s.coordinator = Absent THEN s.pool.id ELSE s.coordinator[1].pool
         /\ t.tokens = s.tokens /\ t.answer = s.answer /\ t.pool = s.pool /\ t.queue = s.queue
         /\ t.execution = s.execution /\ t.paused = s.paused /\ t.deferred = s.deferred
<1> DEFINE g == Marked(TheOf(s.graph, Untouched), s.waitingMarks)
           c == CoordinatorOf(s)
           d == [c EXCEPT !.shown = TheOf(s.waitingDump, @)]
<1>1. DOMAIN c = {"shown", "pool"} /\ c.pool = IF s.coordinator = Absent THEN s.pool.id ELSE s.coordinator[1].pool
  BY DEF CoordinatorOf, TheOf, ReadyInv
<1>2. DOMAIN d = {"shown", "pool"} /\ d.pool = c.pool /\ d.shown = TheOf(s.waitingDump, c.shown)
  BY <1>1
<1>3. AreMarks(g) /\ Marked(g, <<>>) = g
  BY MarksAreKept
<1>4. t = [s EXCEPT !.graph = Present(g), !.coordinator = Present(d), !.waitingDump = Absent, !.waitingMarks = <<>>]
  BY DEF WithGraph, CoordinatorOf
<1> HIDE DEF g, d, c
<1>5. /\ DOMAIN t = Fields
      /\ t.graph = Present(g) /\ t.coordinator = Present(d) /\ t.waitingDump = Absent /\ t.waitingMarks = <<>>
      /\ t.tokens = s.tokens /\ t.answer = s.answer /\ t.pool = s.pool /\ t.queue = s.queue
      /\ t.execution = s.execution /\ t.paused = s.paused /\ t.deferred = s.deferred
  BY <1>4 DEF ReadyInv, Fields
<1>6. ReadyInv(t)
  BY <1>2, <1>3, <1>5 DEF ReadyInv, IsOption, Present, Absent
<1>7. t.graph[1] = g /\ t.coordinator[1] = d /\ t.graph # Absent /\ t.coordinator # Absent
  BY <1>5 DEF Present, Absent
<1>8. Meaning(t).shown = d.shown /\ Meaning(t).marks = g
  BY <1>3, <1>5, <1>7 DEF Meaning, TheOf, CoordinatorOf
<1>9. Meaning(s).shown = d.shown /\ Meaning(s).marks = g
  BY <1>2 DEF Meaning, g, c
<1> QED
  BY <1>1, <1>2, <1>5, <1>6, <1>7, <1>8, <1>9

\* A queue and an execution that were missing mean as much as none.
LEMMA BuiltMeansTheSame ==
  ASSUME NEW s, DOMAIN s = Fields, NEW t,
         t = [s EXCEPT !.queue = Present(TheOf(@, <<>>)), !.execution = Present(TheOf(@, NewExecution("")))]
  PROVE  /\ DOMAIN t = Fields /\ t.graph = s.graph /\ t.coordinator = s.coordinator /\ t.pool = s.pool
         /\ t.waitingDump = s.waitingDump /\ t.waitingMarks = s.waitingMarks
         /\ Meaning(t) = Meaning(s)
<1>1. /\ DOMAIN t = Fields
      /\ t.queue = Present(TheOf(s.queue, <<>>)) /\ t.execution = Present(TheOf(s.execution, NewExecution("")))
      /\ t.graph = s.graph /\ t.coordinator = s.coordinator /\ t.pool = s.pool
      /\ t.waitingDump = s.waitingDump /\ t.waitingMarks = s.waitingMarks
      /\ t.tokens = s.tokens /\ t.answer = s.answer /\ t.paused = s.paused /\ t.deferred = s.deferred
  BY DEF Fields
<1>2. /\ TheOf(t.queue, <<>>) = TheOf(s.queue, <<>>)
      /\ TheOf(t.execution, NewExecution("")) = TheOf(s.execution, NewExecution(""))
  BY <1>1, TheOfPresent
<1>3. CoordinatorOf(t) = CoordinatorOf(s)
  BY <1>1 DEF CoordinatorOf
<1> QED
  BY <1>1, <1>2, <1>3 DEF Meaning

\* What is written of a state agrees with what it means.
LEMMA WrittenAsMeant ==
  ASSUME NEW s, ReadyInv(s) PROVE WrittenInv(Dumped(s), Meaning(s)) /\ Agrees(Meaning(s), Meaning(s), Dumped(s))
<1> DEFINE d == Dumped(s)
           m == Meaning(s)
<1>1. /\ d.coordinator = IF s.graph # Absent /\ s.coordinator # Absent THEN Present(s.coordinator[1].shown) ELSE Absent
      /\ d.marks = TheOf(s.graph, s.waitingMarks)
  BY DEF Dumped
<1>2. /\ m.shown = TheOf(s.waitingDump, CoordinatorOf(s).shown)
      /\ m.marks = Marked(TheOf(s.graph, Untouched), s.waitingMarks)
  BY DEF Meaning
<1>3. IsOption(d.coordinator) /\ (d.coordinator # Absent => m.shown = d.coordinator[1])
  <2>1. CASE s.graph # Absent /\ s.coordinator # Absent
    <3>1. m.shown = s.coordinator[1].shown
      BY <1>2, <2>1 DEF ReadyInv, TheOf, CoordinatorOf
    <3> QED
      BY <1>1, <2>1, <3>1 DEF IsOption, Present, Absent
  <2>2. CASE ~(s.graph # Absent /\ s.coordinator # Absent)
    BY <1>1, <2>2 DEF IsOption
  <2> QED
    BY <2>1, <2>2
<1>4. d.marks = <<>> \/ (AreMarks(d.marks) /\ m.marks = d.marks)
  <2>1. CASE s.graph # Absent
    BY <1>1, <1>2, <2>1, MarksAreKept DEF ReadyInv, TheOf
  <2>2. CASE s.graph = Absent
    BY <1>1, <1>2, <2>2, MarksAreKept DEF ReadyInv, TheOf
  <2> QED
    BY <2>1, <2>2
<1>5. /\ DOMAIN d = {"tokens", "answer", "writes", "queue", "execution", "paused", "deferred", "marks", "coordinator"}
      /\ d.tokens = m.tokens /\ d.answer = m.answer /\ d.writes = m.writes
      /\ d.queue = m.queue /\ d.execution = m.execution
      /\ d.paused = m.paused /\ d.deferred = m.deferred
  BY DEF Dumped, Meaning
<1>6. m = [tokens |-> m.tokens, answer |-> m.answer, writes |-> m.writes,
           queue |-> m.queue, execution |-> m.execution, paused |-> m.paused,
           deferred |-> m.deferred, marks |-> m.marks, shown |-> m.shown]
  BY DEF Meaning
<1> HIDE DEF d, m
<1>7. WrittenInv(d, m)
  BY <1>3, <1>4, <1>5, <1>6 DEF WrittenInv
<1>8. Agrees(m, m, d)
  BY DEF Agrees
<1> QED
  BY <1>7, <1>8 DEF d, m

\* The fields that are written as they are.
LEMMA RestMeans ==
  ASSUME NEW d, NEW meant, WrittenInv(d, meant), NEW t, NEW pool,
         t.tokens = d.tokens, t.answer = d.answer, t.pool = [id |-> pool, writes |-> d.writes],
         t.queue = Present(d.queue), t.execution = Present(d.execution),
         t.paused = d.paused, t.deferred = d.deferred,
         d.coordinator # Absent => Meaning(t).shown = meant.shown,
         d.marks # <<>> => Meaning(t).marks = meant.marks
  PROVE  Agrees(Meaning(t), meant, d)
<1>1. TheOf(t.queue, <<>>) = d.queue /\ TheOf(t.execution, NewExecution("")) = d.execution
  BY TheOfPresent
<1>2. /\ Meaning(t).tokens = t.tokens /\ Meaning(t).answer = t.answer /\ Meaning(t).writes = t.pool.writes
      /\ Meaning(t).queue = TheOf(t.queue, <<>>) /\ Meaning(t).execution = TheOf(t.execution, NewExecution(""))
      /\ Meaning(t).paused = t.paused /\ Meaning(t).deferred = t.deferred
  BY MeaningOf
<1>3. t.pool.writes = d.writes
  OBVIOUS
<1> QED
  BY <1>1, <1>2, <1>3 DEF Agrees, WrittenInv

\* What is restored means what was written.
LEMMA RestoredAsWritten ==
  ASSUME NEW s, ReadyInv(s), NEW d, NEW meant, WrittenInv(d, meant), NEW pool, NEW t, t = Restored(s, d, pool)
  PROVE  /\ ReadyInv(t) /\ Agrees(Meaning(t), meant, d)
         /\ t.coordinator # Absent => s.graph # Absent /\ d.coordinator # Absent
<1> DEFINE filled == [s EXCEPT !.tokens = d.tokens, !.answer = d.answer,
                               !.pool = [id |-> pool, writes |-> d.writes],
                               !.queue = Present(d.queue), !.execution = Present(d.execution),
                               !.paused = d.paused, !.deferred = d.deferred, !.waitingMarks = d.marks]
           g == Marked(s.graph[1], d.marks)
           c == [CoordinatorOf(filled) EXCEPT !.shown = d.coordinator[1]]
           o == IF d.coordinator = Absent THEN Absent ELSE Present(c)
<1>1. /\ DOMAIN filled = Fields
      /\ filled.tokens = d.tokens /\ filled.answer = d.answer
      /\ filled.pool = [id |-> pool, writes |-> d.writes]
      /\ filled.queue = Present(d.queue) /\ filled.execution = Present(d.execution)
      /\ filled.paused = d.paused /\ filled.deferred = d.deferred /\ filled.waitingMarks = d.marks
      /\ filled.coordinator = s.coordinator /\ filled.graph = s.graph /\ filled.waitingDump = s.waitingDump
  BY DEF ReadyInv, Fields
<1>2. t = IF s.graph = Absent
          THEN [filled EXCEPT !.waitingDump = d.coordinator, !.coordinator = Absent]
          ELSE [filled EXCEPT !.graph = Present(g), !.waitingMarks = <<>>, !.waitingDump = Absent, !.coordinator = o]
  BY DEF Restored
<1> HIDE DEF filled
<1>3. DOMAIN c = {"shown", "pool"} /\ c.shown = d.coordinator[1]
  <2>1. DOMAIN CoordinatorOf(filled) = {"shown", "pool"}
    BY <1>1 DEF CoordinatorOf, TheOf, ReadyInv
  <2> QED
    BY <2>1
<1>4. AreMarks(g) /\ Marked(g, <<>>) = g
  BY MarksAreKept
<1> HIDE DEF g, c
<1>5. IsOption(o) /\ (o # Absent => d.coordinator # Absent /\ o[1] = c)
  BY DEF IsOption, Present, Absent
<1> HIDE DEF o
<1>6. /\ DOMAIN t = Fields
      /\ t.tokens = d.tokens /\ t.answer = d.answer /\ t.pool = [id |-> pool, writes |-> d.writes]
      /\ t.queue = Present(d.queue) /\ t.execution = Present(d.execution)
      /\ t.paused = d.paused /\ t.deferred = d.deferred
  BY <1>1, <1>2 DEF Fields
<1>7. CASE s.graph = Absent
  <2>1. /\ t.graph = Absent /\ t.coordinator = Absent /\ t.waitingDump = d.coordinator /\ t.waitingMarks = d.marks
    BY <1>1, <1>2, <1>7 DEF Fields
  <2>2. ReadyInv(t)
    BY <1>6, <2>1 DEF ReadyInv, WrittenInv, IsOption
  <2>3. /\ Meaning(t).shown = TheOf(d.coordinator, CoordinatorOf(t).shown)
        /\ Meaning(t).marks = Marked(Untouched, d.marks)
    BY <2>1 DEF Meaning, TheOf
  <2>4. d.coordinator # Absent => Meaning(t).shown = meant.shown
    BY <2>3 DEF WrittenInv, TheOf
  <2>5. d.marks # <<>> => Meaning(t).marks = meant.marks
    BY <2>3, MarksAreKept DEF WrittenInv
  <2> QED
    BY <1>6, <2>1, <2>2, <2>4, <2>5, RestMeans
<1>8. CASE s.graph # Absent
  <2>1. /\ t.graph = Present(g) /\ t.coordinator = o /\ t.waitingDump = Absent /\ t.waitingMarks = <<>>
    BY <1>1, <1>2, <1>8 DEF Fields
  <2>2. ReadyInv(t)
    <3>1. IsOption(t.graph) /\ IsOption(t.coordinator) /\ IsOption(t.waitingDump)
      BY <1>5, <2>1 DEF IsOption, Present, Absent
    <3>2. AreMarks(t.graph[1])
      BY <1>4, <2>1 DEF Present
    <3> QED
      BY <1>3, <1>5, <1>6, <2>1, <3>1, <3>2 DEF ReadyInv
  <2>3. Meaning(t).marks = g
    BY <1>4, <2>1 DEF Meaning, TheOf, Present, Absent
  <2>4. d.coordinator # Absent => Meaning(t).shown = meant.shown
    <3> SUFFICES ASSUME d.coordinator # Absent PROVE Meaning(t).shown = meant.shown
      OBVIOUS
    <3>1. t.coordinator = Present(c)
      BY <2>1 DEF o
    <3>2. CoordinatorOf(t) = c
      BY <3>1 DEF CoordinatorOf, TheOf, Present, Absent
    <3>3. Meaning(t).shown = c.shown
      BY <2>1, <3>2 DEF Meaning, TheOf
    <3> QED
      BY <1>3, <3>3 DEF WrittenInv
  <2>5. d.marks # <<>> => Meaning(t).marks = meant.marks
    BY <2>3, MarksAreKept DEF WrittenInv, g
  <2>6. t.coordinator # Absent => d.coordinator # Absent
    BY <1>5, <2>1
  <2> QED
    BY <1>6, <1>8, <2>2, <2>4, <2>5, <2>6, RestMeans
<1> QED
  BY <1>7, <1>8

\* What the engine and the nodes do leaves a state as ready as it was, with its pool.
LEMMA WorkKeeps ==
  ASSUME NEW s, ReadyInv(s), s.graph # Absent, NEW t \in Effects(s)
  PROVE  /\ ReadyInv(t) /\ t.pool.id = s.pool.id
         /\ t.coordinator # Absent =>
              t.coordinator[1].pool = IF s.coordinator = Absent THEN s.pool.id ELSE s.coordinator[1].pool
<1> DEFINE Rests(u) ==
             /\ DOMAIN u = Fields /\ DOMAIN u.pool = {"id", "writes"} /\ u.pool.id = s.pool.id
             /\ u.graph = s.graph /\ u.coordinator = s.coordinator
             /\ u.waitingDump = s.waitingDump /\ u.waitingMarks = s.waitingMarks
<1>1. DOMAIN s = Fields /\ DOMAIN s.pool = {"id", "writes"}
  BY DEF ReadyInv
<1>2. \/ t = [s EXCEPT !.tokens = @ + 1] \/ t = [s EXCEPT !.pool.writes = @ + 1]
      \/ t = [s EXCEPT !.answer = @ + 1] \/ t = [s EXCEPT !.execution[1].started = TRUE]
      \/ t = [s EXCEPT !.coordinator = Present([CoordinatorOf(s) EXCEPT !.shown = @ + 1])]
      \/ \E n \in Nodes : t = [s EXCEPT !.queue[1] = Append(@, n)]
      \/ \E n \in Nodes : t = [s EXCEPT !.graph[1][n] = "taken"]
      \/ \E n \in Nodes : t = [s EXCEPT !.paused = @ \cup {n}]
      \/ \E n \in Nodes : t = [s EXCEPT !.deferred = @ \cup {n}]
  BY DEF Effects
<1>3. ASSUME Rests(t) PROVE ReadyInv(t)
  BY <1>3, ReadyRests
<1>4. CASE t = [s EXCEPT !.tokens = @ + 1]
  BY <1>1, <1>3, <1>4 DEF Fields
<1>5. CASE t = [s EXCEPT !.pool.writes = @ + 1]
  BY <1>1, <1>3, <1>5 DEF Fields
<1>6. CASE t = [s EXCEPT !.answer = @ + 1]
  BY <1>1, <1>3, <1>6 DEF Fields
<1>7. CASE t = [s EXCEPT !.execution[1].started = TRUE]
  BY <1>1, <1>3, <1>7 DEF Fields
<1>8. CASE t = [s EXCEPT !.coordinator = Present([CoordinatorOf(s) EXCEPT !.shown = @ + 1])]
  <2> DEFINE c == [CoordinatorOf(s) EXCEPT !.shown = @ + 1]
  <2>1. DOMAIN CoordinatorOf(s) = {"shown", "pool"}
        /\ CoordinatorOf(s).pool = IF s.coordinator = Absent THEN s.pool.id ELSE s.coordinator[1].pool
    BY DEF CoordinatorOf, TheOf, ReadyInv
  <2>2. DOMAIN c = {"shown", "pool"} /\ c.pool = CoordinatorOf(s).pool
    BY <2>1
  <2> HIDE DEF c
  <2>3. /\ DOMAIN t = Fields /\ t.pool = s.pool /\ t.graph = s.graph /\ t.coordinator = Present(c)
        /\ t.waitingDump = s.waitingDump /\ t.waitingMarks = s.waitingMarks
    BY <1>1, <1>8 DEF Fields, c
  <2>4. IsOption(t.coordinator) /\ t.coordinator[1] = c
    BY <2>3 DEF IsOption, Present
  <2>5. ReadyInv(t)
    BY <2>2, <2>3, <2>4 DEF ReadyInv
  <2> QED
    BY <2>1, <2>2, <2>3, <2>4, <2>5
<1>9. ASSUME NEW n \in Nodes, t = [s EXCEPT !.queue[1] = Append(@, n)] PROVE Rests(t)
  BY <1>1, <1>9 DEF Fields
<1>10. ASSUME NEW n \in Nodes, t = [s EXCEPT !.paused = @ \cup {n}] PROVE Rests(t)
  BY <1>1, <1>10 DEF Fields
<1>11. ASSUME NEW n \in Nodes, t = [s EXCEPT !.deferred = @ \cup {n}] PROVE Rests(t)
  BY <1>1, <1>11 DEF Fields
<1>12. ASSUME NEW n \in Nodes, t = [s EXCEPT !.graph[1][n] = "taken"]
       PROVE  ReadyInv(t) /\ t.pool = s.pool /\ t.coordinator = s.coordinator
  <2> DEFINE g == [s.graph[1] EXCEPT ![n] = "taken"]
  <2>1. s.graph = <<s.graph[1]>> /\ AreMarks(s.graph[1])
    BY DEF ReadyInv, IsOption, Present
  <2>2. AreMarks(g)
    BY <2>1 DEF AreMarks
  <2>3. [s.graph EXCEPT ![1] = g] = <<g>>
    <3> HIDE DEF g
    <3> QED
      BY <2>1
  <2>4. t = [s EXCEPT !.graph = <<g>>]
    BY <1>12, <2>3
  <2> HIDE DEF g
  <2>5. /\ DOMAIN t = Fields /\ t.pool = s.pool /\ t.graph = <<g>> /\ t.coordinator = s.coordinator
        /\ t.waitingDump = s.waitingDump /\ t.waitingMarks = s.waitingMarks
    BY <1>1, <2>4 DEF Fields
  <2>6. IsOption(t.graph) /\ t.graph[1] = g
    BY <2>5 DEF IsOption, Present
  <2> QED
    BY <2>2, <2>5, <2>6 DEF ReadyInv
<1> QED
  BY <1>2, <1>3, <1>4, <1>5, <1>6, <1>7, <1>8, <1>9, <1>10, <1>11, <1>12

\* A new state is ready and reads its own pool.
LEMMA RestoreStarts == RuntimeInit => RestoreInv
<1> SUFFICES ASSUME RuntimeInit PROVE RestoreInv
  OBVIOUS
<1>1. ReadyInv(live)
  BY DEF RuntimeInit, NewState, ReadyInv, Fields, IsOption
<1> QED
  BY <1>1 DEF RuntimeInit, RestoreInv, CoordinatorReadsPool, NewState

\* States that have the same parts agree with the same snapshots.
LEMMA SameMeaning ==
  ASSUME NEW s, NEW t, NEW meant, NEW d, Agrees(Meaning(s), meant, d),
         t.tokens = s.tokens, t.answer = s.answer, t.pool = s.pool, t.queue = s.queue,
         t.execution = s.execution, t.paused = s.paused, t.deferred = s.deferred,
         Meaning(t).shown = Meaning(s).shown, Meaning(t).marks = Meaning(s).marks
  PROVE  Agrees(Meaning(t), meant, d)
<1>1. /\ Meaning(t).tokens = Meaning(s).tokens /\ Meaning(t).answer = Meaning(s).answer
      /\ Meaning(t).writes = Meaning(s).writes
  BY MeaningOf
<1>2. Meaning(t).queue = Meaning(s).queue /\ Meaning(t).execution = Meaning(s).execution
  BY MeaningOf
<1>3. Meaning(t).paused = Meaning(s).paused /\ Meaning(t).deferred = Meaning(s).deferred
  BY MeaningOf
<1> QED
  BY <1>1, <1>2, <1>3 DEF Agrees

\* What waited is where it is meant to be.
LEMMA AttachKeeps == ASSUME RestoreInv, Attach PROVE RestoreInv'
<1> DEFINE s == WithGraph(live)
<1>1. ReadyInv(live)
  BY DEF RestoreInv
<1>2. /\ ReadyInv(s) /\ Meaning(s).shown = Meaning(live).shown /\ Meaning(s).marks = Meaning(live).marks
      /\ s.coordinator # Absent
      /\ s.coordinator[1].pool = IF live.coordinator = Absent THEN live.pool.id ELSE live.coordinator[1].pool
      /\ s.tokens = live.tokens /\ s.answer = live.answer /\ s.pool = live.pool /\ s.queue = live.queue
      /\ s.execution = live.execution /\ s.paused = live.paused /\ s.deferred = live.deferred
  BY <1>1, GraphIsAttached
<1> HIDE DEF s
<1>3. live' = [s EXCEPT !.queue = Present(TheOf(@, <<>>)), !.execution = Present(TheOf(@, NewExecution("")))]
  BY DEF Attach, s
<1>4. DOMAIN s = Fields /\ DOMAIN s.pool = {"id", "writes"}
  BY <1>2 DEF ReadyInv
<1>5. /\ DOMAIN live' = Fields /\ live'.graph = s.graph /\ live'.coordinator = s.coordinator
      /\ live'.pool = s.pool /\ live'.waitingDump = s.waitingDump
      /\ live'.waitingMarks = s.waitingMarks /\ Meaning(live') = Meaning(s)
  BY <1>3, <1>4, BuiltMeansTheSame
<1>6. ReadyInv(live')
  BY <1>2, <1>4, <1>5, ReadyRests
<1>7. UNCHANGED <<snapshot, kept, fresh, reloaded>>
  BY DEF Attach
<1>8. Agrees(Meaning(live), kept[1], snapshot[1]) => Agrees(Meaning(s), kept[1], snapshot[1])
  BY <1>2, SameMeaning
<1>9. fresh' /\ snapshot' # Absent => Agrees(Meaning(live'), kept'[1], snapshot'[1])
  BY <1>5, <1>7, <1>8 DEF RestoreInv
<1>10. CoordinatorReadsPool'
  BY <1>2, <1>5, <1>7 DEF RestoreInv, CoordinatorReadsPool
<1> QED
  BY <1>6, <1>7, <1>9, <1>10 DEF RestoreInv

\* Steps of the run change what is meant; nothing is fresh after them.
LEMMA RunKeeps == ASSUME RestoreInv, Work \/ Consume PROVE RestoreInv'
<1>1. ReadyInv(live) /\ live.graph # Absent /\ ~fresh' /\ UNCHANGED <<snapshot, kept, reloaded>>
  BY DEF RestoreInv, Work, Consume
<1>2. /\ ReadyInv(live') /\ live'.pool.id = live.pool.id
      /\ live'.coordinator # Absent =>
           live'.coordinator[1].pool = IF live.coordinator = Absent THEN live.pool.id ELSE live.coordinator[1].pool
  <2>1. CASE Work
    BY <1>1, <2>1, WorkKeeps DEF Work
  <2>2. CASE Consume
    <3>1. PICK order :
            live' = [live EXCEPT !.queue[1] = @ \o order, !.paused = {}, !.deferred = {}]
      BY <2>2 DEF Consume
    <3>2. /\ DOMAIN live' = Fields /\ live'.pool = live.pool
          /\ live'.graph = live.graph /\ live'.coordinator = live.coordinator
          /\ live'.waitingDump = live.waitingDump /\ live'.waitingMarks = live.waitingMarks
      BY <1>1, <3>1 DEF ReadyInv, Fields
    <3>3. DOMAIN live'.pool = {"id", "writes"}
      BY <1>1, <3>2 DEF ReadyInv
    <3>4. ReadyInv(live')
      BY <1>1, <3>2, <3>3, ReadyRests
    <3> QED
      BY <3>2, <3>4
  <2> QED
    BY <2>1, <2>2
<1>3. CoordinatorReadsPool'
  BY <1>1, <1>2 DEF RestoreInv, CoordinatorReadsPool
<1> QED
  BY <1>1, <1>2, <1>3 DEF RestoreInv

\* Of a snapshot that is taken now nothing is lost yet.
LEMMA DumpKeeps == ASSUME RestoreInv, Dump PROVE RestoreInv'
<1>1. /\ ReadyInv(live) /\ snapshot' = Present(Dumped(live)) /\ kept' = Present(Meaning(live))
      /\ live' = [live EXCEPT !.queue = Present(TheOf(@, <<>>)),
                              !.execution = Present(TheOf(@, NewExecution("")))]
      /\ UNCHANGED <<fresh, reloaded>>
  BY DEF RestoreInv, Dump
<1>2. DOMAIN live = Fields /\ DOMAIN live.pool = {"id", "writes"}
  BY <1>1 DEF ReadyInv
<1>3. /\ DOMAIN live' = Fields /\ live'.graph = live.graph /\ live'.coordinator = live.coordinator
      /\ live'.pool = live.pool /\ live'.waitingDump = live.waitingDump
      /\ live'.waitingMarks = live.waitingMarks /\ Meaning(live') = Meaning(live)
  BY <1>1, <1>2, BuiltMeansTheSame
<1>4. ReadyInv(live')
  BY <1>1, <1>2, <1>3, ReadyRests
<1>5. snapshot'[1] = Dumped(live) /\ kept'[1] = Meaning(live)
  BY <1>1 DEF Present
<1>6. WrittenInv(snapshot'[1], kept'[1]) /\ Agrees(Meaning(live'), kept'[1], snapshot'[1])
  BY <1>1, <1>3, <1>5, WrittenAsMeant
<1>7. CoordinatorReadsPool'
  BY <1>1, <1>3 DEF RestoreInv, CoordinatorReadsPool
<1> QED
  BY <1>4, <1>6, <1>7 DEF RestoreInv

\* A new process, without a graph: all that concerns it waits.
LEMMA RestartKeeps == ASSUME RestoreInv, Restart PROVE RestoreInv'
<1> DEFINE s == NewState(live.pool)
<1>1. ReadyInv(s) /\ s.graph = Absent
  BY DEF RestoreInv, NewState, ReadyInv, Fields, IsOption
<1>2. /\ snapshot # Absent /\ WrittenInv(snapshot[1], kept[1]) /\ UNCHANGED <<snapshot, kept>>
      /\ live' = Restored(s, snapshot[1], live.pool.id + 1)
  BY DEF RestoreInv, Restart
<1> HIDE DEF s
<1>3. /\ ReadyInv(live') /\ Agrees(Meaning(live'), kept[1], snapshot[1])
      /\ live'.coordinator = Absent
  BY <1>1, <1>2, RestoredAsWritten
<1>4. CoordinatorReadsPool'
  BY <1>3 DEF CoordinatorReadsPool
<1> QED
  BY <1>2, <1>3, <1>4 DEF RestoreInv

\* A state that is set back, with its graph or without.
LEMMA LoadKeeps == ASSUME RestoreInv, Load PROVE RestoreInv'
<1>1. /\ ReadyInv(live) /\ snapshot # Absent /\ WrittenInv(snapshot[1], kept[1])
      /\ UNCHANGED <<snapshot, kept>>
      /\ live' = Restored(live, snapshot[1], live.pool.id + 1)
      /\ reloaded' = (live.graph # Absent /\ snapshot[1].coordinator # Absent)
  BY DEF RestoreInv, Load
<1>2. /\ ReadyInv(live') /\ Agrees(Meaning(live'), kept[1], snapshot[1])
      /\ live'.coordinator # Absent => live.graph # Absent /\ snapshot[1].coordinator # Absent
  BY <1>1, RestoredAsWritten
<1>3. CoordinatorReadsPool'
  BY <1>1, <1>2 DEF CoordinatorReadsPool
<1> QED
  BY <1>1, <1>2, <1>3 DEF RestoreInv

\* A run goes on from its snapshot where it was, whatever nodes it has and in whatever
\* order it is written, restored, attached to its graph and gone on with; and the
\* answers are read from the pool the nodes write to.
THEOREM StateIsRestored == RuntimeSpec => []SnapshotsRestore
<1>1. RestoreInv /\ [RuntimeStep]_runtimeVars => RestoreInv'
  <2> SUFFICES ASSUME RestoreInv, [RuntimeStep]_runtimeVars PROVE RestoreInv'
    OBVIOUS
  <2>1. CASE UNCHANGED runtimeVars
    BY <2>1 DEF runtimeVars, RestoreInv, CoordinatorReadsPool
  <2> QED
    BY <2>1, AttachKeeps, RunKeeps, DumpKeeps, RestartKeeps, LoadKeeps DEF RuntimeStep
<1>2. RestoreInv => SnapshotsRestore
  <2> SUFFICES ASSUME RestoreInv PROVE RestoredIsSaved
    BY DEF RestoreInv, SnapshotsRestore
  <2> SUFFICES ASSUME fresh, snapshot # Absent
               PROVE  LET meant == kept[1]
                          means == Meaning(live)
                      IN  /\ [means EXCEPT !.shown = 0, !.marks = Untouched]
                             = [meant EXCEPT !.shown = 0, !.marks = Untouched]
                          /\ snapshot[1].coordinator # Absent => means.shown = meant.shown
                          /\ snapshot[1].marks # <<>> => means.marks = meant.marks
    BY DEF RestoredIsSaved
  <2> DEFINE meant == kept[1]
             means == Meaning(live)
  <2>1. WrittenInv(snapshot[1], meant) /\ Agrees(means, meant, snapshot[1])
    BY DEF RestoreInv
  <2>2. /\ means = [tokens |-> means.tokens, answer |-> means.answer, writes |-> means.writes,
                    queue |-> means.queue, execution |-> means.execution, paused |-> means.paused,
                    deferred |-> means.deferred, marks |-> means.marks, shown |-> means.shown]
        /\ meant = [tokens |-> meant.tokens, answer |-> meant.answer, writes |-> meant.writes,
                    queue |-> meant.queue, execution |-> meant.execution, paused |-> meant.paused,
                    deferred |-> meant.deferred, marks |-> meant.marks, shown |-> meant.shown]
    BY <2>1 DEF WrittenInv, Meaning
  <2> HIDE DEF meant, means
  <2>3. [means EXCEPT !.shown = 0, !.marks = Untouched] = [meant EXCEPT !.shown = 0, !.marks = Untouched]
    BY <2>1, <2>2 DEF Agrees
  <2> QED
    BY <2>1, <2>3 DEF Agrees, meant, means
<1> QED
  BY RestoreStarts, <1>1, <1>2, PTL DEF RuntimeSpec

-----------------------------------------------------------------------------
(* The Redis channel: its invariant, and that it implements CommandQueue.  *)

USE RedisAssumption

\* Deserialized is what the loop over the list computes: nothing for an empty
\* list; one more command is parsed after all that came before it.
LEMMA DeserializedFacts ==
  /\ Deserialized \in [Seq(Payload) -> Seq(Parsed)]
  /\ Deserialized[<<>>] = <<>>
  /\ \A l \in Seq(Payload), c \in Payload :
       Deserialized[Append(l, c)] =
         IF c.form = "command" THEN Append(Deserialized[l], c) ELSE Deserialized[l]
<1> DEFINE R == Seq(Parsed)
           step == [p \in R \X Payload |->
                      IF p[2].form = "command" THEN Append(p[1], p[2]) ELSE p[1]]
           Body(D) == [l \in Seq(Payload) |->
                         IF l = <<>> THEN <<>>
                         ELSE IF Last(l).form = "command" THEN Append(D[Front(l)], Last(l))
                              ELSE D[Front(l)]]
<1>1. step \in [R \X Payload -> R] /\ <<>> \in R
  <2>1. ASSUME NEW y \in R, NEW c \in Payload, c.form = "command" PROVE Append(y, c) \in R
    <3>1. c \in Parsed
      BY <2>1 DEF Payload, Parsed
    <3> QED
      BY <3>1
  <2> QED
    BY <2>1
<1>2. PICK f \in [Seq(Payload) -> R] :
        IsFold(f, Payload, <<>>, step)
  <2> HIDE DEF step, R
  <2> QED
    BY <1>1, FoldExists
<1>3. f = Body(f)
  <2>1. ASSUME NEW l \in Seq(Payload), l # <<>>
        PROVE  f[l] = IF Last(l).form = "command" THEN Append(f[Front(l)], Last(l)) ELSE f[Front(l)]
    <3>1. Front(l) \in Seq(Payload) /\ Last(l) \in Payload
      BY <2>1, FrontLast
    <3> QED
      BY <1>2, <2>1, <3>1 DEF IsFold
  <2> QED
    BY <1>2, <2>1 DEF IsFold
<1>4. Deserialized = CHOOSE D : D = Body(D)
  BY DEF Deserialized
<1>5. Deserialized = Body(Deserialized)
  <2> HIDE DEF Body
  <2> QED
    BY <1>3, <1>4
<1>6. /\ Deserialized[<<>>] = <<>>
      /\ \A l \in Seq(Payload) :
           l # <<>> => Deserialized[l] =
                         IF Last(l).form = "command" THEN Append(Deserialized[Front(l)], Last(l))
                         ELSE Deserialized[Front(l)]
  <2> HIDE DEF step, R
  <2>1. <<>> \in Seq(Payload)
    OBVIOUS
  <2>2. \A l \in Seq(Payload) : Deserialized[l] = Body(Deserialized)[l]
    BY <1>5
  <2> QED
    BY <2>1, <2>2
<1>7. \A l \in Seq(Payload) : Deserialized[l] = f[l]
  <2>1. ASSUME NEW l \in Seq(Payload), l # <<>>, Deserialized[Front(l)] \in R
        PROVE  Deserialized[l] = step[<<Deserialized[Front(l)], Last(l)>>]
    <3>1. Last(l) \in Payload
      BY <2>1, FrontLast
    <3>2. step[<<Deserialized[Front(l)], Last(l)>>] =
            IF Last(l).form = "command" THEN Append(Deserialized[Front(l)], Last(l))
            ELSE Deserialized[Front(l)]
      BY <2>1, <3>1
    <3> QED
      BY <1>6, <2>1, <3>2
  <2>2. Recurs(Deserialized, Payload, R, <<>>, step)
    BY <1>6, <2>1 DEF Recurs
  <2>3. f \in [Seq(Payload) -> R] /\ IsFold(f, Payload, <<>>, step)
    BY <1>2
  <2> HIDE DEF step, R, Body
  <2> QED
    BY <2>2, <2>3, FoldUnique
<1>8. Deserialized \in [Seq(Payload) -> Seq(Parsed)]
  BY <1>2, <1>5, <1>7
<1>9. ASSUME NEW l \in Seq(Payload), NEW c \in Payload
      PROVE  /\ Append(l, c) \in Seq(Payload) /\ Append(l, c) # <<>>
             /\ Front(Append(l, c)) = l /\ Last(Append(l, c)) = c
  BY FrontOfAppend
<1>10. ASSUME NEW l \in Seq(Payload), NEW c \in Payload
       PROVE  Deserialized[Append(l, c)] =
                IF c.form = "command" THEN Append(Deserialized[l], c) ELSE Deserialized[l]
  <2> DEFINE a == Append(l, c)
  <2>1. a \in Seq(Payload) /\ a # <<>> /\ Front(a) = l /\ Last(a) = c
    BY <1>9
  <2> HIDE DEF a
  <2>2. Deserialized[a] = IF Last(a).form = "command" THEN Append(Deserialized[Front(a)], Last(a))
                          ELSE Deserialized[Front(a)]
    BY <1>6, <2>1
  <2> QED
    BY <2>1, <2>2 DEF a
<1> QED
  BY <1>6, <1>8, <1>10

LEMMA RedisInitInv == RedisInit => RedisInv
<1> SUFFICES ASSUME RedisInit PROVE RedisInv
  OBVIOUS
<1>1. list \in Seq(Payload) /\ delivered \in Seq(Parsed)
  BY DEF RedisInit
<1>2. sent \in 0..MaxSends /\ faults \in 0..MaxFaults /\ expiries \in 0..MaxExpiries
  BY RedisAssumption DEF RedisInit
<1>3. marker \in BOOLEAN /\ engine \in {"idle", "pending"}
  BY DEF RedisInit
<1>4. MarkerCoversList
  BY DEF RedisInit, MarkerCoversList
<1> QED
  BY <1>1, <1>2, <1>3, <1>4 DEF RedisInv, RedisTypeOK

LEMMA RedisNextInv == ASSUME RedisInv, [RedisNext]_redisVars PROVE RedisInv'
<1>1. CASE \E form \in Forms : SendCommand(form)
  <2>1. PICK form \in Forms : SendCommand(form)
    BY <1>1
  <2>2. [number |-> sent', form |-> form] \in Payload
    BY <2>1 DEF SendCommand, RedisInv, RedisTypeOK, Payload
  <2> QED
    BY <2>1, <2>2 DEF SendCommand, RedisInv, RedisTypeOK, MarkerCoversList
<1>2. CASE HasPending
  BY <1>2 DEF HasPending, RedisInv, RedisTypeOK, MarkerCoversList
<1>3. CASE Fetch
  <2>1. Deserialized[list] \in Seq(Parsed)
    BY DeserializedFacts DEF RedisInv, RedisTypeOK
  <2>2. /\ delivered' = delivered \o Deserialized[list] /\ list' = <<>> /\ engine' = "idle"
        /\ UNCHANGED <<marker, sent, faults, expiries>>
    BY <1>3 DEF Fetch
  <2>3. <<>> \in Seq(Payload)
    OBVIOUS
  <2> QED
    BY <2>1, <2>2, <2>3 DEF RedisInv, RedisTypeOK, MarkerCoversList
<1>4. CASE FetchFails
  <2>1. /\ list' \in {list, <<>>} /\ marker' \in {marker, FALSE}
        /\ engine' = "idle" /\ faults' = faults + 1 /\ faults < MaxFaults
        /\ UNCHANGED <<delivered, sent, expiries>>
    BY <1>4 DEF FetchFails
  <2>2. list' \in Seq(Payload) /\ marker' \in BOOLEAN
    <3>1. list' = <<>> => list' \in Seq(Payload)
      OBVIOUS
    <3>2. list' = list => list' \in Seq(Payload)
      BY DEF RedisInv, RedisTypeOK
    <3>3. marker' \in BOOLEAN
      BY <2>1 DEF RedisInv, RedisTypeOK
    <3> QED
      BY <2>1, <3>1, <3>2, <3>3
  <2>3. faults' \in 1..MaxFaults
    BY <2>1 DEF RedisInv, RedisTypeOK
  <2> QED
    BY <2>1, <2>2, <2>3 DEF RedisInv, RedisTypeOK, MarkerCoversList
<1>5. CASE Expire
  <2>1. <<>> \in Seq(Payload)
    OBVIOUS
  <2>2. expiries' \in 0..MaxExpiries /\ list' = <<>> /\ marker' = FALSE
    BY <1>5 DEF Expire, RedisInv, RedisTypeOK
  <2> QED
    BY <1>5, <2>1, <2>2 DEF Expire, RedisInv, RedisTypeOK, MarkerCoversList
<1>6. CASE FetchLoses
  <2>1. <<>> \in Seq(Payload)
    OBVIOUS
  <2> QED
    BY <1>6, <2>1 DEF FetchLoses, RedisInv, RedisTypeOK, MarkerCoversList
<1>7. CASE UNCHANGED redisVars
  BY <1>7 DEF redisVars, RedisInv, RedisTypeOK, MarkerCoversList
<1> QED
  BY <1>1, <1>2, <1>3, <1>4, <1>5, <1>6, <1>7 DEF RedisNext

\* However sends fall between the transactions of a fetch: as long as none
\* raises, a list nobody is about to read has the marker that makes the engine
\* look at it.
THEOREM RedisInvariance == RedisSpec => []RedisInv
BY RedisInitInv, RedisNextInv, PTL DEF RedisSpec

LEMMA RedisStepRefines == ASSUME RedisInv, [RedisNext]_redisVars PROVE [Queue!Next]_Queue!vars
<1> USE DEF Queue!vars
<1>0. list \in Seq(Payload) /\ delivered \in Seq(Parsed)
  BY DEF RedisInv, RedisTypeOK
<1>1. CASE \E form \in Forms : SendCommand(form)
  <2>1. PICK form \in Forms : SendCommand(form)
    BY <1>1
  <2> DEFINE c == [number |-> sent', form |-> form]
  <2>2. c \in Payload /\ c.form = form
    BY <2>1 DEF SendCommand, RedisInv, RedisTypeOK, Payload
  <2>3. list' = Append(list, c) /\ UNCHANGED delivered
    BY <2>1 DEF SendCommand
  <2> HIDE DEF c
  <2>4. Deserialized[list'] =
          IF form = "command" THEN Append(Deserialized[list], c) ELSE Deserialized[list]
    BY <1>0, <2>2, <2>3, DeserializedFacts
  <2>5. CASE form = "command"
    <3>1. Queue!Send(c)
      BY <2>3, <2>4, <2>5 DEF Queue!Send
    <3> QED
      BY <2>2, <3>1 DEF Queue!Next
  <2>6. CASE form # "command"
    BY <2>3, <2>4, <2>6
  <2> QED
    BY <2>5, <2>6
<1>2. CASE HasPending
  BY <1>2 DEF HasPending
<1>3. CASE Fetch
  <2> DEFINE d == Deserialized[list]
  <2>1. d \in Seq(Parsed) /\ Deserialized[list'] = <<>> /\ delivered' = delivered \o d
    BY <1>0, <1>3, DeserializedFacts DEF Fetch
  <2>2. CASE d = <<>>
    BY <1>0, <2>1, <2>2, ConcatEmptySeq
  <2>3. CASE d # <<>>
    <3>1. Len(d) \in 1..Len(d)
      BY <2>1, <2>3, EmptySeq
    <3>2. SubSeq(d, 1, Len(d)) = d /\ SubSeq(d, Len(d) + 1, Len(d)) = <<>>
      BY <2>1, <3>1, SubSeqFull, SubSeqEmpty
    <3>3. Queue!Deliver(Len(d))
      BY <2>1, <3>2 DEF Queue!Deliver
    <3> QED
      BY <3>1, <3>3 DEF Queue!Next
  <2> QED
    BY <2>2, <2>3
<1>4. CASE list' = <<>> /\ UNCHANGED delivered
  BY <1>4, DeserializedFacts DEF Queue!Next, Queue!Lose
<1>5. CASE FetchFails
  BY <1>4, <1>5 DEF FetchFails
<1>6. CASE Expire
  BY <1>4, <1>6 DEF Expire
<1>7. CASE FetchLoses
  BY <1>4, <1>7 DEF FetchLoses
<1>8. CASE UNCHANGED redisVars
  BY <1>8 DEF redisVars
<1> QED
  BY <1>1, <1>2, <1>3, <1>5, <1>6, <1>7, <1>8 DEF RedisNext

\* Two transactions per fetch, a marker that comes and goes, failures and
\* expiries: what the engine gets is still a queue's, in order and at most once.
THEOREM RedisRefinement == RedisSpec => ImplementsQueue
<1>1. RedisInit => Queue!Init
  BY DeserializedFacts DEF RedisInit, Queue!Init
<1> QED
  BY <1>1, RedisInvariance, RedisStepRefines, PTL DEF RedisSpec, ImplementsQueue, Queue!Spec

HIDE RedisAssumption

-----------------------------------------------------------------------------
(* The worker pool: the invariant, which is inductive.                     *)

USE PoolAssumption DEF Threads

\* start creates between min_workers and max_workers threads.
LEMMA InitialCountBounds ==
  ASSUME NEW n \in Nat
  PROVE  InitialCount(n) \in MinWorkers..MaxWorkers
<1> DEFINE more == MinWorkers + (IF n < 50 THEN 1 ELSE 2)
<1>1. Min({more, MaxWorkers}) \in {more, MaxWorkers}
      /\ \A y \in {more, MaxWorkers} : Min({more, MaxWorkers}) <= y
  <2>1. \E x \in {more, MaxWorkers} : \A y \in {more, MaxWorkers} : x <= y
    OBVIOUS
  <2> QED
    BY <2>1 DEF Min
<1> QED
  BY <1>1 DEF InitialCount

\* The worker removed is listed once, so what RemoveFirst takes out of the list
\* is its one position: the others keep their order.
LEMMA RemoveListed ==
  ASSUME PoolTypeOK, ListInv, NEW v, InPool(v)
  PROVE  LET rest == RemoveFirst(workers, v)
         IN /\ rest \in Seq(Threads) /\ Len(rest) = Len(workers) - 1
            /\ \A i \in DOMAIN rest :
                 \E j \in DOMAIN workers : rest[i] = workers[j] /\ workers[j] # v
            /\ \A j \in DOMAIN workers :
                 workers[j] # v => \E i \in DOMAIN rest : rest[i] = workers[j]
            /\ \A i, j \in DOMAIN rest : rest[i] = rest[j] => i = j
<1> DEFINE rest == RemoveFirst(workers, v)
<1>0. workers \in Seq(Threads)
  BY DEF PoolTypeOK
<1>1. PICK k \in 1..Len(workers) : workers[k] = v
  BY DEF InPool, Contains
<1>2. {i \in 1..Len(workers) : workers[i] = v} = {k}
  BY <1>0, <1>1 DEF ListInv
<1>3. Min({k}) = k
  BY <1>1 DEF Min
<1>4. rest = SubSeq(workers, 1, k - 1) \o SubSeq(workers, k + 1, Len(workers))
  BY <1>1, <1>2, <1>3 DEF RemoveFirst, RemoveAt, SelectInSeq
<1>5. /\ rest \in Seq(Threads) /\ Len(rest) = Len(workers) - 1
      /\ \A i \in 1..Len(rest) : rest[i] = workers[IF i < k THEN i ELSE i + 1]
  <2> DEFINE a == SubSeq(workers, 1, k - 1)
             b == SubSeq(workers, k + 1, Len(workers))
  <2>1. /\ a \in Seq(Threads) /\ Len(a) = k - 1
        /\ \A i \in 1..(k - 1) : a[i] = workers[i]
    BY <1>0, <1>1
  <2>2. /\ b \in Seq(Threads) /\ Len(b) = Len(workers) - k
        /\ \A i \in 1..(Len(workers) - k) : b[i] = workers[k + i]
    BY <1>0, <1>1
  <2>3. rest = a \o b
    BY <1>4
  <2> HIDE DEF a, b, rest
  <2>4. /\ a \o b \in Seq(Threads) /\ Len(a \o b) = Len(a) + Len(b)
        /\ \A i \in 1..(Len(a) + Len(b)) :
             (a \o b)[i] = IF i <= Len(a) THEN a[i] ELSE b[i - Len(a)]
    BY ZenonT(40), <2>1, <2>2, ConcatProperties
  <2>5. Len(workers) \in Nat /\ Len(a) = k - 1 /\ Len(a) + Len(b) = Len(workers) - 1
    BY <1>0, <2>1, <2>2
  <2>6. rest \in Seq(Threads) /\ Len(rest) = Len(workers) - 1
    BY <2>3, <2>4, <2>5
  <2>7. ASSUME NEW i \in 1..Len(rest)
        PROVE  rest[i] = workers[IF i < k THEN i ELSE i + 1]
    <3>1. rest[i] = IF i <= k - 1 THEN a[i] ELSE b[i - (k - 1)]
      BY <2>3, <2>4, <2>5, <2>6
    <3>2. CASE i < k
      BY <3>1, <3>2, <2>1
    <3>3. CASE ~(i < k)
      <4>1. i - (k - 1) \in 1..(Len(workers) - k) /\ k + (i - (k - 1)) = i + 1
        BY <2>5, <2>6, <3>3
      <4>2. b[i - (k - 1)] = workers[i + 1]
        BY <4>1, <2>2
      <4> QED
        BY <3>1, <3>3, <4>2
    <3> QED
      BY <3>2, <3>3
  <2> QED
    BY <2>6, <2>7
<1>6. \A i \in DOMAIN rest : /\ (IF i < k THEN i ELSE i + 1) \in DOMAIN workers
                             /\ (IF i < k THEN i ELSE i + 1) # k
  BY SMTT(30), <1>0, <1>1, <1>5
<1>7. \A j \in DOMAIN workers :
        j # k => \E i \in DOMAIN rest : j = IF i < k THEN i ELSE i + 1
  <2> SUFFICES ASSUME NEW j \in DOMAIN workers, j # k
               PROVE  \E i \in DOMAIN rest : j = IF i < k THEN i ELSE i + 1
    OBVIOUS
  <2> HIDE DEF rest
  <2>1. 1..Len(rest) = DOMAIN rest /\ j \in 1..Len(workers)
    BY <1>0, <1>5
  <2>2. CASE j < k
    <3>1. j \in DOMAIN rest /\ j = IF j < k THEN j ELSE j + 1
      BY <1>0, <1>1, <1>5, <2>1, <2>2
    <3> QED
      BY <3>1
  <2>3. CASE j > k
    <3>1. j - 1 \in DOMAIN rest /\ j = IF j - 1 < k THEN j - 1 ELSE (j - 1) + 1
      BY SMTT(30), <1>0, <1>1, <1>5, <2>1, <2>3
    <3> QED
      BY <3>1
  <2> QED
    BY <1>1, <2>1, <2>2, <2>3
<1>8. DOMAIN rest = 1..Len(rest) /\ DOMAIN workers = 1..Len(workers)
  BY <1>0, <1>5
<1>9. /\ \A i \in DOMAIN rest :
           \E j \in DOMAIN workers : rest[i] = workers[j] /\ workers[j] # v
      /\ \A i, j \in DOMAIN rest : rest[i] = rest[j] => i = j
  <2> HIDE DEF rest
  <2>1. \A i \in DOMAIN rest : rest[i] = workers[IF i < k THEN i ELSE i + 1]
    BY <1>5, <1>8
  <2>2. \A i, j \in DOMAIN rest :
          (IF i < k THEN i ELSE i + 1) = (IF j < k THEN j ELSE j + 1) => i = j
    BY <1>8
  <2>3. \A j \in DOMAIN workers : j # k => workers[j] # v
    BY <1>1, <1>8 DEF ListInv
  <2> QED
    BY <1>6, <2>1, <2>2, <2>3 DEF ListInv
<1>10. \A j \in DOMAIN workers :
         workers[j] # v => \E i \in DOMAIN rest : rest[i] = workers[j]
  <2> HIDE DEF rest
  <2> QED
    BY <1>1, <1>5, <1>7, <1>8
<1> QED
  BY <1>5, <1>9, <1>10

LEMMA PoolInitInv == PoolInit => PoolInv
<1> SUFFICES ASSUME PoolInit PROVE PoolInv
  OBVIOUS
<1>1. created \in MinWorkers..MaxWorkers
  BY InitialCountBounds DEF PoolInit
<1>2. workers \in Seq(Threads) /\ Len(workers) = created
      /\ \A i \in 1..created : workers[i] = i
  BY <1>1 DEF PoolInit
<1>3. PoolTypeOK
  BY <1>1, <1>2 DEF PoolInit, PoolTypeOK, NoCheck, Checks
<1>4. NoOrphans
  BY <1>1, <1>2 DEF PoolInit, NoOrphans, InPool, Contains
<1>5. ListInv
  BY <1>1, <1>2 DEF PoolInit, ListInv
<1> QED
  BY <1>1, <1>2, <1>3, <1>4, <1>5 DEF PoolInit, PoolInv, PoolBounds, CheckInv, StopInv, NoCheck

\* A thread that moves within its loop, or out of it, touches nothing else the
\* invariant depends on.
LEMMA WorkerInv ==
  ASSUME PoolInv, NEW w \in Threads, WorkerStep(w) \/ GrowOld(w) PROVE PoolInv'
<1> USE DEF Move, PoolSame
<1>1. UNCHANGED <<workers, created, running, stop, check, stopping>>
  BY DEF WorkerStep, LoopTest, GetTimesOut, Take, Finish, GrowOld
<1>2. /\ depth' \in 0..MaxDepth /\ age' \in [Threads -> 0..2]
      /\ at' \in [Threads -> {"none", "test", "get", "busy", "gone"}]
  <2>1. CASE LoopTest(w) \/ GetTimesOut(w) \/ Finish(w)
    BY <2>1 DEF LoopTest, GetTimesOut, Finish, PoolInv, PoolTypeOK
  <2>2. CASE Take(w)
    BY <2>2 DEF Take, PoolInv, PoolTypeOK
  <2>3. CASE GrowOld(w)
    <3>1. age[w] \in 0..1 /\ age' = [age EXCEPT ![w] = age[w] + 1]
      BY <2>3 DEF GrowOld, PoolInv, PoolTypeOK
    <3> QED
      BY <3>1, <2>3 DEF GrowOld, PoolInv, PoolTypeOK
  <2> QED
    BY <2>1, <2>2, <2>3 DEF WorkerStep
<1>3. \A t \in Threads : /\ at'[t] = "none" <=> at[t] = "none"
                         /\ at'[t] \in {"test", "get", "busy"} =>
                              at[t] \in {"test", "get", "busy"}
  BY DEF WorkerStep, LoopTest, GetTimesOut, Take, Finish, GrowOld, PoolInv, PoolTypeOK
<1>4. PoolTypeOK'
  BY <1>1, <1>2 DEF PoolInv, PoolTypeOK
<1>5. NoOrphans'
  BY <1>1, <1>3 DEF PoolInv, NoOrphans, InPool
<1>6. ListInv'
  BY <1>1, <1>3 DEF PoolInv, ListInv
<1> QED
  BY <1>1, <1>4, <1>5, <1>6 DEF PoolInv, PoolBounds, CheckInv, StopInv, InPool

LEMMA CheckBeginInv == ASSUME PoolInv, CheckBegin PROVE PoolInv'
<1> USE DEF CheckBegin, LoopsSame, LockFree
<1>1. Quantify(Range(workers), IsIdle) \in Nat
  <2>1. Range(workers) \subseteq Threads
    BY DEF PoolInv, PoolTypeOK, Range
  <2>2. IsFiniteSet(Threads)
    BY FS_Interval
  <2>3. {w \in Range(workers) : IsIdle(w)} \subseteq Threads
    BY <2>1
  <2>4. IsFiniteSet({w \in Range(workers) : IsIdle(w)})
    BY <2>2, <2>3, FS_Subset
  <2> QED
    BY <2>4, FS_CardinalityType DEF Quantify
<1>2. Len(workers) \in 0..MaxWorkers
  BY DEF PoolInv, PoolTypeOK, ListInv
<1>3. PoolTypeOK'
  BY <1>1, <1>2 DEF PoolInv, PoolTypeOK, Checks
<1>4. CheckInv'
  BY <1>2 DEF PoolInv, CheckInv
<1> QED
  BY <1>3, <1>4 DEF PoolInv, NoOrphans, PoolBounds, ListInv, StopInv, InPool

LEMMA ScaleUpInv == ASSUME PoolInv, ScaleUp PROVE PoolInv'
<1> USE DEF ScaleUp, LoopsSame
<1>0. /\ workers \in Seq(Threads) /\ created' = created + 1 /\ created' \in Threads
      /\ Len(workers) < MaxWorkers /\ running /\ stopping = 0
      /\ check.count = Len(workers)
  BY DEF PoolInv, PoolTypeOK, CheckInv, ShouldScaleUp
<1>1. /\ workers' \in Seq(Threads) /\ Len(workers') = Len(workers) + 1
      /\ \A i \in 1..Len(workers) : workers'[i] = workers[i]
      /\ workers'[Len(workers) + 1] = created'
  BY <1>0, AppendProperties
<1>2. PoolTypeOK'
  <2>1. at' \in [Threads -> {"none", "test", "get", "busy", "gone"}]
    BY <1>0 DEF PoolInv, PoolTypeOK
  <2>2. check' \in Checks
    BY DEF PoolInv, PoolTypeOK, Checks
  <2> QED
    BY <1>0, <1>1, <2>1, <2>2 DEF PoolInv, PoolTypeOK
<1>3. NoOrphans'
  <2> SUFFICES ASSUME NEW t \in Threads, at'[t] \in {"test", "get", "busy"}
               PROVE  (\E i \in 1..Len(workers') : workers'[i] = t) \/ stop'[t]
    BY <1>1 DEF NoOrphans, InPool, Contains
  <2>1. CASE t = created'
    BY <2>1, <1>0, <1>1
  <2>2. CASE t # created'
    <3>1. at[t] \in {"test", "get", "busy"}
      BY <2>2, <1>0 DEF PoolInv, PoolTypeOK
    <3>2. (\E i \in 1..Len(workers) : workers[i] = t) \/ stop[t]
      BY <3>1 DEF PoolInv, NoOrphans, InPool, Contains
    <3> QED
      BY <1>0, <1>1, <3>2
  <2> QED
    BY <2>1, <2>2
<1>4. ListInv'
  <2>1. \A i \in 1..Len(workers) : workers[i] # created'
    BY SMTT(30), <1>0 DEF PoolInv, PoolTypeOK, ListInv
  <2>2. DOMAIN workers' = 1..Len(workers) \cup {Len(workers) + 1}
    BY <1>0, <1>1
  <2>3. \A i, j \in DOMAIN workers' : workers'[i] = workers'[j] => i = j
    BY SMTT(30), <1>0, <1>1, <2>1, <2>2 DEF PoolInv, ListInv
  <2>4. \A i \in DOMAIN workers' : workers'[i] <= created'
    BY SMTT(30), <1>0, <1>1, <2>2 DEF PoolInv, PoolTypeOK, ListInv
  <2>5. \A w \in Threads : at'[w] = "none" <=> w > created'
    BY <1>0 DEF PoolInv, PoolTypeOK, ListInv
  <2> QED
    BY SMTT(30), <1>0, <1>1, <2>3, <2>4, <2>5 DEF ListInv
<1>5. check'.pc = "down" /\ check'.count = check.count
  BY DEF PoolInv, PoolTypeOK, Checks
<1>6. PoolBounds' /\ CheckInv' /\ StopInv'
  BY <1>0, <1>1, <1>5 DEF PoolInv, PoolBounds, CheckInv, StopInv
<1> QED
  BY <1>2, <1>3, <1>4, <1>6 DEF PoolInv

LEMMA ScaleDownInv == ASSUME PoolInv, ScaleDown PROVE PoolInv'
<1> USE DEF ScaleDown, LoopsSame
<1>1. PICK first \in Candidates :
        /\ stop' = [stop EXCEPT ![workers[first]] = TRUE]
        /\ check' = [check EXCEPT !.pc = "join", !.victim = workers[first]]
  OBVIOUS
<1>2. /\ workers \in Seq(Threads) /\ first \in 1..Len(workers)
      /\ workers[first] \in Threads
  <2>1. workers \in Seq(Threads) /\ first \in DOMAIN workers
    BY DEF PoolInv, PoolTypeOK, Candidates
  <2> QED
    BY <2>1
<1>3. \A t \in Threads : stop[t] => stop'[t]
  BY <1>1, <1>2 DEF PoolInv, PoolTypeOK
<1>4. PoolTypeOK'
  <2>1. stop' \in [Threads -> BOOLEAN]
    BY <1>1 DEF PoolInv, PoolTypeOK
  <2>2. check' \in Checks
    <3>1. check \in Checks /\ workers[first] \in 0..MaxThreads
      BY <1>2 DEF PoolInv, PoolTypeOK
    <3> QED
      BY <1>1, <3>1 DEF Checks
  <2> QED
    BY <2>1, <2>2 DEF PoolInv, PoolTypeOK
<1>5. NoOrphans'
  BY <1>3 DEF PoolInv, NoOrphans, InPool
<1>6. CheckInv'
  <2>1. Len(workers) > MinWorkers
    BY <1>2 DEF PoolInv, PoolTypeOK, Checks, CheckInv, MayScaleDown
  <2>2. check'.pc = "join" /\ check'.victim = workers[first] /\ stop'[workers[first]]
    BY <1>1, <1>2 DEF PoolInv, PoolTypeOK, Checks
  <2> QED
    BY <1>2, <2>1, <2>2 DEF PoolInv, CheckInv, InPool, Contains
<1> QED
  BY <1>4, <1>5, <1>6 DEF PoolInv, PoolBounds, ListInv, StopInv, CheckInv

LEMMA RemoveWorkerInv == ASSUME PoolInv, RemoveWorker PROVE PoolInv'
<1> USE DEF RemoveWorker, LoopsSame
<1>0. InPool(check.victim) /\ stop[check.victim] /\ Len(workers) > MinWorkers
      /\ running /\ stopping = 0 /\ workers \in Seq(Threads)
  BY DEF PoolInv, CheckInv, PoolTypeOK
<1>1. /\ workers' \in Seq(Threads) /\ Len(workers') = Len(workers) - 1
      /\ \A i \in DOMAIN workers' :
           \E j \in DOMAIN workers : workers'[i] = workers[j]
      /\ \A j \in DOMAIN workers :
           workers[j] # check.victim => \E i \in DOMAIN workers' : workers'[i] = workers[j]
      /\ \A i, j \in DOMAIN workers' : workers'[i] = workers'[j] => i = j
  BY SMTT(30), <1>0, RemoveListed DEF PoolInv
<1>2. PoolTypeOK'
  BY <1>1 DEF PoolInv, PoolTypeOK, NoCheck, Checks
<1>3. NoOrphans'
  <2> SUFFICES ASSUME NEW t \in Threads, at[t] \in {"test", "get", "busy"}, ~stop[t]
               PROVE  \E i \in 1..Len(workers') : workers'[i] = t
    BY DEF NoOrphans, InPool, Contains
  <2>1. \E j \in 1..Len(workers) : workers[j] = t
    BY DEF PoolInv, NoOrphans, InPool, Contains
  <2>2. DOMAIN workers = 1..Len(workers) /\ DOMAIN workers' = 1..Len(workers')
    BY <1>0, <1>1
  <2>3. PICK j \in DOMAIN workers : workers[j] = t
    BY <2>1, <2>2
  <2>4. \E i \in DOMAIN workers' : workers'[i] = workers[j]
    BY <1>0, <1>1, <2>3
  <2> QED
    BY <2>2, <2>3, <2>4
<1>4. ListInv'
  BY <1>0, <1>1 DEF PoolInv, ListInv
<1> QED
  BY <1>0, <1>1, <1>2, <1>3, <1>4 DEF PoolInv, PoolBounds, CheckInv, StopInv, NoCheck

LEMMA StopInvariant == ASSUME PoolInv, StopBegin \/ StopStep PROVE PoolInv'
<1>1. CASE StopBegin
  <2> USE <1>1 DEF StopBegin, LockFree
  <2>1. PoolTypeOK'
    <3>1. stop' \in [Threads -> BOOLEAN]
      BY DEF PoolInv, PoolTypeOK, InPool, Contains
    <3>2. stopping' \in 0..(MaxWorkers + 1)
      OBVIOUS
    <3> QED
      BY <3>1, <3>2 DEF PoolInv, PoolTypeOK
  <2>2. \A t \in Threads : (stop[t] => stop'[t]) /\ (InPool(t) => stop'[t])
    BY DEF PoolInv
  <2>3. NoOrphans'
    BY <2>2 DEF PoolInv, NoOrphans, InPool
  <2>4. \A i \in DOMAIN workers : workers[i] \in Threads /\ InPool(workers[i])
    BY DEF PoolInv, PoolTypeOK, InPool, Contains
  <2>5. StopInv'
    BY <2>2, <2>4 DEF PoolInv, StopInv
  <2> QED
    BY <2>1, <2>3, <2>5 DEF PoolInv, PoolBounds, ListInv, CheckInv, InPool
<1>2. CASE StopJoin
  <2> USE <1>2 DEF StopJoin
  <2>1. stopping \in 1..MaxWorkers
    BY DEF PoolInv, PoolTypeOK, ListInv
  <2>2. PoolTypeOK'
    BY <2>1 DEF PoolInv, PoolTypeOK
  <2> QED
    BY <2>1, <2>2 DEF PoolInv, NoOrphans, PoolBounds, ListInv, CheckInv, StopInv, InPool
<1>3. CASE StopEnd
  <2> USE <1>3 DEF StopEnd
  <2>1. stopping > 0 /\ workers \in Seq(Threads)
    BY DEF PoolInv, PoolTypeOK
  <2>2. \A t \in Threads : at[t] \in {"test", "get", "busy"} => stop[t]
    BY <2>1 DEF PoolInv, NoOrphans, StopInv, InPool, Contains
  <2>3. check.pc = "out"
    BY DEF PoolInv, CheckInv, PoolTypeOK
  <2> QED
    BY <2>1, <2>2, <2>3 DEF PoolInv, PoolTypeOK, NoOrphans, PoolBounds, ListInv, CheckInv, StopInv
<1> QED
  BY <1>1, <1>2, <1>3 DEF StopStep

LEMMA PoolNextInv == ASSUME PoolInv, [PoolNext]_poolVars PROVE PoolInv'
<1> USE DEF PoolInv, LoopsSame, PoolSame
<1>1. CASE \E w \in Threads : WorkerStep(w) \/ GrowOld(w)
  BY <1>1, WorkerInv
<1>2. CASE CheckBegin
  BY <1>2, CheckBeginInv
<1>3. CASE ScaleUp
  BY <1>3, ScaleUpInv
<1>4. CASE NoScaleUp
  <2>1. /\ check'.pc = "down" /\ check'.count = check.count
        /\ check' \in Checks
    BY <1>4 DEF NoScaleUp, PoolTypeOK, Checks
  <2> QED
    BY <1>4, <2>1 DEF NoScaleUp, PoolTypeOK, NoOrphans, PoolBounds, ListInv, CheckInv, StopInv,
                      InPool
<1>5. CASE ScaleDown
  BY <1>5, ScaleDownInv
<1>6. CASE NoScaleDown
  BY <1>6 DEF NoScaleDown, NoCheck, Checks, PoolTypeOK, NoOrphans, PoolBounds, ListInv, CheckInv,
              StopInv, InPool
<1>7. CASE RemoveWorker
  BY <1>7, RemoveWorkerInv
<1>8. CASE StopBegin \/ StopStep
  BY <1>8, StopInvariant
<1>9. CASE Arrive
  BY <1>9 DEF Arrive, PoolTypeOK, NoOrphans, PoolBounds, ListInv, CheckInv, StopInv, InPool
<1>10. CASE UNCHANGED poolVars
  BY <1>10 DEF poolVars, PoolTypeOK, NoOrphans, PoolBounds, ListInv, CheckInv, StopInv, InPool
<1> QED
  BY <1>1, <1>2, <1>3, <1>4, <1>5, <1>6, <1>7, <1>8, <1>9, <1>10 DEF PoolNext, CheckStep

\* However the calls of check_and_scale and stop and the loops of the threads
\* interleave: a thread that is not listed has been told to stop, and a running
\* pool keeps to the bounds of its configuration.
THEOREM PoolKept == PoolSpec => []PoolInv
BY PoolInitInv, PoolNextInv, PTL DEF PoolSpec

HIDE PoolAssumption DEF Threads

-----------------------------------------------------------------------------
(* The event manager: its invariant, mutual exclusion of the lock          *)
(* included, and that it implements the safety part of EventStream.        *)

USE EventManagerAssumption DEF ReaderAt, CollectorAt

\* A thread goes on and stays one of its kind; the others stay where they are.
LEMMA GotoFacts ==
  ASSUME TypeOK, NEW t \in Collectors \cup {Reader}, NEW l \in ReaderAt \cup CollectorAt,
         Goto(t, l)
  PROVE  /\ pc' \in [Collectors \cup {Reader} -> ReaderAt \cup CollectorAt]
         /\ pc'[t] = l
         /\ \A u \in Collectors \cup {Reader} : u # t => pc'[u] = pc[u]
BY DEF TypeOK, Goto

LEMMA EventsInitInv == Init => Inv
<1> SUFFICES ASSUME Init PROVE Inv
  OBVIOUS
<1>1. events \in Seq(Event) /\ seen \in Seq(Event) /\ yielded \in Seq(Event)
  BY DEF Init
<1>2. /\ pc \in [Collectors \cup {Reader} -> ReaderAt \cup CollectorAt]
      /\ pc[Reader] = "loop" /\ \A c \in Collectors : pc[c] = "idle"
  BY DEF Init
<1>3. complete = FALSE /\ holder = Nobody /\ readers = 0
      /\ count \in [Collectors -> 0..MaxEvents] /\ Len(yielded) = 0 /\ Len(events) = 0
  BY DEF Init
<1>4. TypeOK
  <2>1. complete \in BOOLEAN /\ holder \in Collectors \cup {Nobody} /\ readers \in 0..1
    <3>1. readers \in 0..1
      BY <1>3
    <3>2. complete \in BOOLEAN /\ holder \in Collectors \cup {Nobody}
      BY <1>3, Zenon
    <3> QED
      BY <3>1, <3>2
  <2>2. \A c \in Collectors : pc[c] = "write" => count[c] < MaxEvents
    BY <1>2
  <2>3. pc[Reader] \in ReaderAt /\ \A c \in Collectors : pc[c] \in CollectorAt
    BY <1>2
  <2>4. /\ pc \in [Collectors \cup {Reader} -> ReaderAt \cup CollectorAt]
        /\ count \in [Collectors -> 0..MaxEvents]
    BY <1>2, <1>3
  <2> HIDE DEF ReaderAt, CollectorAt
  <2> QED
    BY <1>1, <2>1, <2>2, <2>3, <2>4 DEF TypeOK
<1>5. MutualExclusion /\ LockInv
  BY <1>2, <1>3 DEF MutualExclusion, LockInv, Writing, Reading
<1>6. CompletionInv /\ CopiesContinue
  BY <1>2, <1>3 DEF CompletionInv, CopiesContinue
<1> QED
  BY <1>4, <1>5, <1>6 DEF Inv

LEMMA AcquireWriteInv ==
  ASSUME Inv, NEW c \in Collectors, AcquireWrite(c) PROVE Inv'
<1>1. /\ pc' \in [Collectors \cup {Reader} -> ReaderAt \cup CollectorAt]
      /\ pc'[c] = "write"
      /\ \A u \in Collectors \cup {Reader} : u # c => pc'[u] = pc[u]
  BY GotoFacts DEF AcquireWrite, Inv
<1>2. c # Reader /\ pc'[Reader] = pc[Reader]
  BY <1>1
<1>3. TypeOK'
  BY <1>1, <1>2 DEF AcquireWrite, Inv, TypeOK
<1>4. MutualExclusion' /\ LockInv'
  BY <1>1, <1>2 DEF AcquireWrite, Inv, TypeOK, MutualExclusion, LockInv, Writing, Reading
<1>5. CompletionInv' /\ CopiesContinue'
  BY <1>1, <1>2 DEF AcquireWrite, Inv, CompletionInv, CopiesContinue
<1> QED
  BY <1>3, <1>4, <1>5 DEF Inv

LEMMA WaitForReadersInv ==
  ASSUME Inv, NEW c \in Collectors, WaitForReaders(c) PROVE Inv'
<1>1. /\ pc' \in [Collectors \cup {Reader} -> ReaderAt \cup CollectorAt]
      /\ pc'[c] = "wait"
      /\ \A u \in Collectors \cup {Reader} : u # c => pc'[u] = pc[u]
  BY GotoFacts DEF WaitForReaders, Inv
<1>2. c # Reader /\ pc'[Reader] = pc[Reader]
  BY <1>1
<1>3. TypeOK'
  BY <1>1, <1>2 DEF WaitForReaders, lockVars, Inv, TypeOK
<1>4. MutualExclusion' /\ LockInv'
  BY <1>1, <1>2 DEF WaitForReaders, lockVars, Inv, TypeOK, MutualExclusion, LockInv, Writing, Reading
<1>5. CompletionInv' /\ CopiesContinue'
  BY <1>1, <1>2 DEF WaitForReaders, Inv, CompletionInv, CopiesContinue
<1> QED
  BY <1>3, <1>4, <1>5 DEF Inv

LEMMA AppendEventInv ==
  ASSUME Inv, NEW c \in Collectors, AppendEvent(c) PROVE Inv'
<1> DEFINE e == <<c, count[c] + 1>>
<1>1. /\ pc' \in [Collectors \cup {Reader} -> ReaderAt \cup CollectorAt]
      /\ pc'[c] = "written"
      /\ \A u \in Collectors \cup {Reader} : u # c => pc'[u] = pc[u]
  BY GotoFacts DEF AppendEvent, Inv
<1>2. c # Reader /\ pc'[Reader] = pc[Reader] /\ pc[c] = "write"
  BY <1>1 DEF AppendEvent
<1>3. count[c] + 1 \in 1..MaxEvents
      /\ count' \in [Collectors -> 0..MaxEvents] /\ count'[c] = count[c] + 1
      /\ \A d \in Collectors : d # c => count'[d] = count[d]
  BY <1>2 DEF AppendEvent, Inv, TypeOK
<1>4. e \in Event /\ events' = Append(events, e) /\ events \in Seq(Event)
  BY <1>3 DEF AppendEvent, Inv, TypeOK, Event
<1> HIDE DEF e
<1>5. /\ events' \in Seq(Event) /\ Len(events') = Len(events) + 1 /\ Len(events) \in Nat
      /\ \A i \in 1..Len(events) : events'[i] = events[i]
  BY <1>4, AppendProperties
<1>6. TypeOK'
  BY <1>1, <1>2, <1>3, <1>5 DEF AppendEvent, lockVars, Inv, TypeOK
<1>7. MutualExclusion' /\ LockInv'
  BY <1>1, <1>2 DEF AppendEvent, lockVars, Inv, TypeOK, MutualExclusion, LockInv,
     Writing, Reading
<1>8. CompletionInv'
  BY <1>1, <1>2 DEF AppendEvent, Inv, CompletionInv
<1>9. CopiesContinue'
  <2>1. Len(yielded) \in Nat /\ Len(seen) \in Nat
    BY DEF Inv, TypeOK
  <2>2. yielded' = yielded /\ seen' = seen /\ pc'[Reader] = pc[Reader]
    BY <1>2 DEF AppendEvent
  <2>3. CopiesContinue
    BY DEF Inv
  <2>4. Len(yielded') <= Len(events') /\ \A i \in 1..Len(yielded') : yielded'[i] = events'[i]
    BY ONLY <1>5, <2>1, <2>2, <2>3 DEF CopiesContinue
  <2>5. ASSUME pc'[Reader] \in {"got", "yield"}
        PROVE  /\ Len(yielded') + Len(seen') <= Len(events')
               /\ \A i \in 1..Len(seen') : seen'[i] = events'[Len(yielded') + i]
    <3>1. /\ Len(yielded) + Len(seen) <= Len(events)
          /\ \A i \in 1..Len(seen) : seen[i] = events[Len(yielded) + i]
      BY ONLY <2>2, <2>3, <2>5 DEF CopiesContinue
    <3> QED
      BY ONLY <1>5, <2>1, <2>2, <3>1
  <2> QED
    BY ONLY <2>4, <2>5 DEF CopiesContinue
<1> QED
  BY <1>6, <1>7, <1>8, <1>9 DEF Inv

LEMMA ReleaseWriteInv ==
  ASSUME Inv, NEW c \in Collectors, ReleaseWrite(c) PROVE Inv'
<1>1. /\ pc' \in [Collectors \cup {Reader} -> ReaderAt \cup CollectorAt]
      /\ pc'[c] = "idle"
      /\ \A u \in Collectors \cup {Reader} : u # c => pc'[u] = pc[u]
  BY GotoFacts DEF ReleaseWrite, Inv
<1>2. c # Reader /\ pc'[Reader] = pc[Reader] /\ pc[c] = "written"
  BY <1>1 DEF ReleaseWrite
<1>3. TypeOK'
  BY <1>1, <1>2 DEF ReleaseWrite, Inv, TypeOK
<1>4. MutualExclusion' /\ LockInv'
  BY <1>1, <1>2 DEF ReleaseWrite, Inv, TypeOK, MutualExclusion, LockInv, Writing, Reading
<1>5. CompletionInv' /\ CopiesContinue'
  BY <1>1, <1>2 DEF ReleaseWrite, Inv, CompletionInv, CopiesContinue
<1> QED
  BY <1>3, <1>4, <1>5 DEF Inv

LEMMA MarkCompleteInv ==
  ASSUME Inv, NEW c \in Collectors, MarkComplete(c) PROVE Inv'
<1>1. /\ pc' \in [Collectors \cup {Reader} -> ReaderAt \cup CollectorAt]
      /\ pc'[c] = "done"
      /\ \A u \in Collectors \cup {Reader} : u # c => pc'[u] = pc[u]
  BY GotoFacts DEF MarkComplete, Inv
<1>2. c # Reader /\ pc'[Reader] = pc[Reader] /\ pc[c] = "idle"
  BY <1>1 DEF MarkComplete
<1>3. /\ complete' \in BOOLEAN /\ complete => complete'
      /\ complete' => \A d \in Collectors : pc'[d] = "done"
  BY <1>1 DEF MarkComplete, Inv, TypeOK, CompletionInv
<1>4. TypeOK'
  BY <1>1, <1>2, <1>3 DEF MarkComplete, lockVars, Inv, TypeOK
<1>5. MutualExclusion' /\ LockInv'
  BY <1>1, <1>2 DEF MarkComplete, lockVars, Inv, TypeOK, MutualExclusion, LockInv,
     Writing, Reading
<1>6. CompletionInv' /\ CopiesContinue'
  BY <1>2, <1>3 DEF MarkComplete, Inv, CompletionInv, CopiesContinue
<1> QED
  BY <1>4, <1>5, <1>6 DEF Inv

\* A step of the reader leaves the collectors alone.
LEMMA TestLoopInv == ASSUME Inv, TestLoop PROVE Inv'
<1>1. /\ pc' \in [Collectors \cup {Reader} -> ReaderAt \cup CollectorAt]
      /\ pc'[Reader] = IF complete THEN "count" ELSE "get"
      /\ \A c \in Collectors : pc'[c] = pc[c]
  BY GotoFacts DEF TestLoop, Inv
<1>2. TypeOK'
  BY <1>1 DEF TestLoop, lockVars, Inv, TypeOK
<1>3. MutualExclusion' /\ LockInv'
  BY <1>1 DEF TestLoop, lockVars, Inv, TypeOK, MutualExclusion, LockInv, Writing, Reading
<1>4. CompletionInv' /\ CopiesContinue'
  BY <1>1 DEF TestLoop, Inv, CompletionInv, CopiesContinue
<1> QED
  BY <1>2, <1>3, <1>4 DEF Inv

LEMMA AcquireReadInv == ASSUME Inv, AcquireRead PROVE Inv'
<1>1. /\ pc' \in [Collectors \cup {Reader} -> ReaderAt \cup CollectorAt]
      /\ pc'[Reader] = IF pc[Reader] = "count" THEN "counting" ELSE "getting"
      /\ \A c \in Collectors : pc'[c] = pc[c]
  BY GotoFacts DEF AcquireRead, Inv
<1>2. readers = 0 /\ readers' = 1 /\ holder = Nobody
  BY DEF AcquireRead, Inv, LockInv, Reading
<1>3. TypeOK'
  BY <1>1, <1>2 DEF AcquireRead, Inv, TypeOK
<1>4. MutualExclusion' /\ LockInv'
  <2>1. \A c \in Collectors : ~Writing(c)
    BY <1>2 DEF Inv, LockInv
  <2> QED
    BY <1>1, <1>2, <2>1 DEF AcquireRead, MutualExclusion, LockInv, Writing, Reading
<1>5. CompletionInv' /\ CopiesContinue'
  BY <1>1 DEF AcquireRead, Inv, CompletionInv, CopiesContinue
<1> QED
  BY <1>3, <1>4, <1>5 DEF Inv

LEMMA CopyInv == ASSUME Inv, Copy PROVE Inv'
<1>1. /\ pc' \in [Collectors \cup {Reader} -> ReaderAt \cup CollectorAt]
      /\ pc'[Reader] = IF pc[Reader] = "counting" THEN "counted" ELSE "got"
      /\ \A c \in Collectors : pc'[c] = pc[c]
  BY GotoFacts DEF Copy, Inv
<1>2. /\ events \in Seq(Event) /\ yielded \in Seq(Event)
      /\ Len(events) \in Nat /\ Len(yielded) \in Nat /\ Len(yielded) <= Len(events)
  BY DEF Inv, TypeOK, CopiesContinue
<1> DEFINE rest == SubSeq(events, Len(yielded) + 1, Len(events))
<1>3. /\ rest \in Seq(Event) /\ Len(rest) = Len(events) - Len(yielded)
      /\ \A i \in 1..Len(rest) : rest[i] = events[Len(yielded) + i]
  <2>1. \A i \in (Len(yielded) + 1)..Len(events) : events[i] \in Event
    BY <1>2
  <2>2. /\ rest \in Seq(Event)
        /\ Len(rest) = IF Len(yielded) + 1 <= Len(events)
                       THEN Len(events) - (Len(yielded) + 1) + 1 ELSE 0
        /\ \A i \in 1..(Len(events) - (Len(yielded) + 1) + 1) :
             rest[i] = events[(Len(yielded) + 1) + i - 1]
    BY <1>2, <2>1, SubSeqProperties
  <2> DEFINE m == Len(yielded)
             n == Len(events)
  <2>3. m \in Nat /\ n \in Nat /\ m <= n
    BY <1>2
  <2> HIDE DEF rest, m, n
  <2>4. rest \in Seq(Event) /\ Len(rest) = n - m
    BY <2>2, <2>3 DEF m, n
  <2>5. \A i \in 1..(n - m) : rest[i] = events[m + i]
    BY <2>2, <2>3 DEF m, n
  <2> QED
    BY <2>4, <2>5 DEF m, n
<1> HIDE DEF rest
<1>4. seen' = IF pc[Reader] = "counting" THEN events ELSE rest
  BY DEF Copy, rest
<1>5. TypeOK'
  BY <1>1, <1>2, <1>3, <1>4 DEF Copy, lockVars, Inv, TypeOK
<1>6. MutualExclusion' /\ LockInv'
  BY <1>1 DEF Copy, lockVars, Inv, TypeOK, MutualExclusion, LockInv, Writing, Reading
<1>7. CompletionInv'
  BY <1>1, <1>4 DEF Copy, Inv, CompletionInv
<1>8. CopiesContinue'
  BY <1>1, <1>2, <1>3, <1>4 DEF Copy, Inv, CopiesContinue
<1> QED
  BY <1>5, <1>6, <1>7, <1>8 DEF Inv

LEMMA ReleaseReadInv == ASSUME Inv, ReleaseRead PROVE Inv'
<1>1. /\ pc' \in [Collectors \cup {Reader} -> ReaderAt \cup CollectorAt]
      /\ pc'[Reader] = IF pc[Reader] = "got" THEN "yield"
                       ELSE IF Len(yielded) < Len(seen) THEN "get" ELSE "ended"
      /\ \A c \in Collectors : pc'[c] = pc[c] \/ (pc[c] = "wait" /\ pc'[c] = "woken")
  <2>1. DOMAIN pc = Collectors \cup {Reader}
    BY DEF Inv, TypeOK
  <2>2. \A c \in Collectors :
          pc'[c] = IF readers' = 0 /\ c \in Wake THEN "woken" ELSE pc[c]
    BY <2>1 DEF ReleaseRead
  <2>3. pc'[Reader] = IF pc[Reader] = "got" THEN "yield"
                      ELSE IF Len(yielded) < Len(seen) THEN "get" ELSE "ended"
    BY <2>1 DEF ReleaseRead
  <2>4. pc' = [t \in Collectors \cup {Reader} |-> pc'[t]]
    BY <2>1 DEF ReleaseRead
  <2>5. \A t \in Collectors \cup {Reader} : pc'[t] \in ReaderAt \cup CollectorAt
    BY <2>2, <2>3 DEF Inv, TypeOK
  <2> QED
    BY <2>2, <2>3, <2>4, <2>5 DEF Wake
<1>2. readers = 1 /\ readers' = 0 /\ holder = Nobody
  BY DEF ReleaseRead, Inv, LockInv, Reading
<1>3. TypeOK'
  BY <1>1, <1>2 DEF ReleaseRead, Inv, TypeOK
<1>4. MutualExclusion' /\ LockInv'
  <2>1. \A c \in Collectors : ~Writing(c)
    BY <1>2 DEF Inv, LockInv
  <2> QED
    BY <1>1, <1>2, <2>1 DEF ReleaseRead, MutualExclusion, LockInv, Writing, Reading
<1>5. CompletionInv'
  <2>1. complete => \A c \in Collectors : pc'[c] = "done"
    BY <1>1 DEF Inv, CompletionInv
  <2>2. ASSUME pc'[Reader] = "ended" PROVE complete /\ yielded = events
    <3>1. pc[Reader] = "counted" /\ ~(Len(yielded) < Len(seen))
      BY <1>1, <2>2 DEF ReleaseRead
    <3>2. complete /\ seen = events
      BY <3>1 DEF Inv, CompletionInv
    <3>3. /\ yielded \in Seq(Event) /\ events \in Seq(Event)
          /\ Len(yielded) \in Nat /\ Len(events) \in Nat /\ Len(yielded) <= Len(events)
          /\ \A i \in 1..Len(yielded) : yielded[i] = events[i]
      BY DEF Inv, TypeOK, CopiesContinue
    <3>4. Len(yielded) = Len(events)
      BY <3>1, <3>2, <3>3
    <3>5. yielded = events
      BY <3>3, <3>4, SeqEqual
    <3> QED
      BY <3>2, <3>5
  <2> QED
    BY <1>1, <2>1, <2>2 DEF ReleaseRead, CompletionInv
<1>6. CopiesContinue'
  BY <1>1 DEF ReleaseRead, Inv, CopiesContinue
<1> QED
  BY <1>3, <1>4, <1>5, <1>6 DEF Inv

\* What the consumer gets next is the next event of the list.
LEMMA YieldNext ==
  ASSUME Inv, pc[Reader] = "yield", seen # <<>>
  PROVE  /\ Len(yielded) < Len(events)
         /\ Head(seen) = events[Len(yielded) + 1]
<1>1. seen \in Seq(Event) /\ Len(seen) \in Nat \ {0}
  BY EmptySeq DEF Inv, TypeOK
<1>2. Head(seen) = seen[1] /\ 1 \in 1..Len(seen)
  BY <1>1
<1>3. Len(yielded) \in Nat /\ Len(events) \in Nat
  BY DEF Inv, TypeOK
<1> QED
  BY <1>1, <1>2, <1>3 DEF Inv, CopiesContinue

LEMMA YieldInv == ASSUME Inv, Yield PROVE Inv'
<1>1. CASE seen = <<>>
  <2>1. /\ pc' \in [Collectors \cup {Reader} -> ReaderAt \cup CollectorAt]
        /\ pc'[Reader] = "loop" /\ \A c \in Collectors : pc'[c] = pc[c]
    BY <1>1, GotoFacts DEF Yield, Inv
  <2>2. UNCHANGED <<events, complete, holder, readers, count, seen, yielded>>
    BY <1>1 DEF Yield, lockVars
  <2>3. TypeOK'
    BY <2>1, <2>2 DEF Inv, TypeOK
  <2>4. MutualExclusion' /\ LockInv'
    BY <2>1, <2>2 DEF Yield, Inv, MutualExclusion, LockInv, Writing, Reading
  <2>5. CompletionInv' /\ CopiesContinue'
    BY <2>1, <2>2 DEF Inv, CompletionInv, CopiesContinue
  <2> QED
    BY <2>3, <2>4, <2>5 DEF Inv
<1>2. CASE seen # <<>>
  <2>1. /\ yielded' = Append(yielded, Head(seen)) /\ seen' = Tail(seen)
        /\ pc[Reader] = "yield" /\ UNCHANGED <<events, complete, holder, readers, pc, count>>
    BY <1>2 DEF Yield, lockVars
  <2>2. /\ events \in Seq(Event) /\ seen \in Seq(Event) /\ yielded \in Seq(Event)
        /\ Len(events) \in Nat /\ Len(seen) \in Nat /\ Len(yielded) \in Nat
    BY DEF Inv, TypeOK
  <2>3. Len(yielded) < Len(events) /\ Head(seen) = events[Len(yielded) + 1]
    BY <1>2, <2>1, YieldNext
  <2>4. /\ seen' \in Seq(Event) /\ Len(seen') = Len(seen) - 1
        /\ \A i \in 1..Len(seen') : seen'[i] = seen[i + 1]
        /\ Head(seen) \in Event
    BY <1>2, <2>1, <2>2, HeadTailProperties
  <2>5. /\ yielded' \in Seq(Event) /\ Len(yielded') = Len(yielded) + 1
        /\ \A i \in 1..Len(yielded) : yielded'[i] = yielded[i]
        /\ yielded'[Len(yielded) + 1] = Head(seen)
    BY <2>1, <2>2, <2>4, AppendProperties
  <2>6. TypeOK'
    BY <2>1, <2>4, <2>5 DEF Inv, TypeOK
  <2>7. MutualExclusion' /\ LockInv'
    BY <2>1 DEF Inv, MutualExclusion, LockInv, Writing, Reading
  <2>8. CompletionInv'
    BY <2>1 DEF Inv, CompletionInv
  <2>9. CopiesContinue'
    <3>1. /\ Len(yielded) + Len(seen) <= Len(events)
          /\ \A i \in 1..Len(seen) : seen[i] = events[Len(yielded) + i]
          /\ \A i \in 1..Len(yielded) : yielded[i] = events[i]
      BY <2>1 DEF Inv, CopiesContinue
    <3>2. \A i \in 1..Len(yielded') : yielded'[i] = events[i]
      BY <2>2, <2>3, <2>5, <3>1
    <3>3. \A i \in 1..Len(seen') : seen'[i] = events[Len(yielded') + i]
      <4> SUFFICES ASSUME NEW i \in 1..Len(seen')
                   PROVE  seen'[i] = events[Len(yielded') + i]
        OBVIOUS
      <4>1. i + 1 \in 1..Len(seen) /\ Len(yielded) + (i + 1) = Len(yielded') + i
        BY <2>2, <2>4, <2>5
      <4> QED
        BY <2>4, <3>1, <4>1
    <3> QED
      BY <2>1, <2>2, <2>3, <2>4, <2>5, <3>1, <3>2, <3>3 DEF CopiesContinue
  <2> QED
    BY <2>6, <2>7, <2>8, <2>9 DEF Inv
<1> QED
  BY <1>1, <1>2

LEMMA EventsNextInv == ASSUME Inv, [Next]_vars PROVE Inv'
<1>1. ASSUME NEW c \in Collectors, Collector(c) PROVE Inv'
  BY <1>1, AcquireWriteInv, WaitForReadersInv, AppendEventInv, ReleaseWriteInv,
     MarkCompleteInv DEF Collector
<1>2. CASE Emit
  BY <1>2, TestLoopInv, AcquireReadInv, CopyInv, ReleaseReadInv, YieldInv DEF Emit
<1>3. CASE UNCHANGED vars
  BY <1>3 DEF vars, lockVars, Inv, TypeOK, MutualExclusion, LockInv, CompletionInv,
     CopiesContinue, Writing, Reading
<1> QED
  BY <1>1, <1>2, <1>3 DEF Next, Ended

\* Whatever the number of collectors: writers are alone under the lock, and what
\* the reader copied continues what it has yielded.
THEOREM EventsInvariance == Spec => []Inv
BY EventsInitInv, EventsNextInv, PTL DEF Spec

LEMMA CollectorRefines ==
  ASSUME Inv, NEW c \in Collectors, Collector(c) PROVE [Stream!Next]_Stream!vars
<1> USE DEF Stream!vars
<1>0. c # Reader
  OBVIOUS
<1>1. pc'[Reader] = pc[Reader] /\ yielded' = yielded
  <2>1. \E l \in ReaderAt \cup CollectorAt : Goto(c, l)
    BY DEF Collector, AcquireWrite, WaitForReaders, AppendEvent, ReleaseWrite, MarkComplete
  <2>2. pc'[Reader] = pc[Reader]
    BY <1>0, <2>1, GotoFacts DEF Inv
  <2> QED
    BY <2>2 DEF Collector, AcquireWrite, WaitForReaders, AppendEvent, ReleaseWrite,
       MarkComplete
<1>2. CASE AppendEvent(c)
  <2> DEFINE e == <<c, count[c] + 1>>
  <2>1. pc[c] = "write" /\ count[c] + 1 \in 1..MaxEvents
    BY <1>2 DEF AppendEvent, Inv, TypeOK
  <2>2. e \in Event /\ events' = Append(events, e) /\ UNCHANGED complete
    BY <1>2, <2>1 DEF AppendEvent, Event, Inv, TypeOK
  <2>3. ~complete
    BY <2>1 DEF Inv, CompletionInv
  <2> HIDE DEF e
  <2>4. Stream!Collect(e)
    BY <1>1, <2>2, <2>3 DEF Stream!Collect
  <2> QED
    BY <2>2, <2>4 DEF Stream!Next
<1>3. CASE MarkComplete(c)
  <2>1. UNCHANGED events
    BY <1>3 DEF MarkComplete
  <2>2. complete' = TRUE \/ complete' = complete
    BY <1>3 DEF MarkComplete, Inv, TypeOK
  <2> QED
    BY <1>1, <2>1, <2>2 DEF Stream!Next, Stream!Complete
<1>4. CASE AcquireWrite(c) \/ WaitForReaders(c) \/ ReleaseWrite(c)
  BY <1>1, <1>4 DEF AcquireWrite, WaitForReaders, ReleaseWrite
<1> QED
  BY <1>2, <1>3, <1>4 DEF Collector

LEMMA ReaderRefines == ASSUME Inv, Emit PROVE [Stream!Next]_Stream!vars
<1> USE DEF Stream!vars
<1>1. CASE TestLoop
  <2>1. pc[Reader] # "ended" /\ pc'[Reader] # "ended"
    BY <1>1, GotoFacts DEF TestLoop, Inv
  <2> QED
    BY <1>1, <2>1 DEF TestLoop
<1>2. CASE AcquireRead
  <2>1. pc[Reader] # "ended" /\ pc'[Reader] # "ended"
    BY <1>2, GotoFacts DEF AcquireRead, Inv
  <2> QED
    BY <1>2, <2>1 DEF AcquireRead
<1>3. CASE Copy
  <2>1. pc[Reader] # "ended" /\ pc'[Reader] # "ended"
    BY <1>3, GotoFacts DEF Copy, Inv
  <2> QED
    BY <1>3, <2>1 DEF Copy
<1>4. CASE ReleaseRead
  <2>1. pc[Reader] # "ended" /\ UNCHANGED <<events, complete, yielded>>
    BY <1>4 DEF ReleaseRead
  <2>2. CASE pc'[Reader] = "ended"
    <3>1. complete /\ yielded = events
      BY <1>4, <2>1, <2>2, ReleaseReadInv DEF Inv, CompletionInv
    <3>2. Stream!End
      BY <2>1, <2>2, <3>1 DEF Stream!End
    <3> QED
      BY <3>2 DEF Stream!Next
  <2>3. CASE pc'[Reader] # "ended"
    BY <2>1, <2>3
  <2> QED
    BY <2>2, <2>3
<1>5. CASE Yield
  <2>1. pc[Reader] = "yield" /\ UNCHANGED <<events, complete>>
    BY <1>5 DEF Yield
  <2>2. CASE seen = <<>>
    <3>1. pc'[Reader] = "loop" /\ UNCHANGED yielded
      BY <1>5, <2>2, GotoFacts DEF Yield, Inv
    <3> QED
      BY <2>1, <3>1
  <2>3. CASE seen # <<>>
    <3>1. /\ Len(yielded) < Len(events) /\ Head(seen) = events[Len(yielded) + 1]
          /\ yielded' = Append(yielded, Head(seen)) /\ UNCHANGED pc
      BY <1>5, <2>1, <2>3, YieldNext DEF Yield
    <3>2. Stream!Yield
      BY <2>1, <3>1 DEF Stream!Yield
    <3> QED
      BY <3>2 DEF Stream!Next
  <2> QED
    BY <2>2, <2>3
<1> QED
  BY <1>1, <1>2, <1>3, <1>4, <1>5 DEF Emit

LEMMA EventsStepRefines == ASSUME Inv, [Next]_vars PROVE [Stream!Next]_Stream!vars
<1>1. CASE UNCHANGED vars
  BY <1>1 DEF vars, Stream!vars
<1> QED
  BY <1>1, CollectorRefines, ReaderRefines DEF Next, Ended

\* The consumer gets the events in the order of their collection, each once, and
\* the generator returns only after all of them, however collecting, completing
\* and copying interleave.
THEOREM EventsRefinement == Spec => Stream!Safety
<1>1. Init => Stream!Init
  BY DEF Init, Stream!Init
<1> QED
  BY <1>1, EventsInvariance, EventsStepRefines, PTL DEF Spec, Stream!Safety
=============================================================================
