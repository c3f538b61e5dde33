------------------------------ MODULE RuntimeState ------------------------------
(***************************************************************************)
(* GraphRuntimeState: what a run keeps beside the graph, its collaborators *)
(* that are built when first needed, and its snapshots.  A snapshot may be *)
(* restored before the graph is there: what belongs to the graph and to    *)
(* the response coordinator waits until the graph is attached.             *)
(* A value that may be absent is a sequence of at most one element.        *)
(***************************************************************************)
EXTENDS Naturals, Sequences, FiniteSets, TLC

CONSTANTS
  Nodes,     \* nodes of the workflow
  MaxCount,  \* bound on tokens, pool writes, streamed parts and the answer
  MaxPools   \* bound on the pools that are created

VARIABLES
  live,      \* the runtime state of this process
  snapshot,  \* the last snapshot: [content, attached], or absent
  kept,      \* history: what the state meant when the snapshot was taken
  fresh,     \* history: nothing has been done since the last restoring
  reloaded   \* history: a snapshot was loaded under an attached graph

runtimeVars == <<live, snapshot, kept, fresh, reloaded>>

Absent == <<>>
Present(x) == <<x>>
TheOf(option, default) == IF option = Absent THEN default ELSE option[1]

Untouched == [n \in Nodes |-> "unknown"]
\* A run's aggregate of executions belongs to one workflow.
NewExecution(workflow) == [workflow |-> workflow, started |-> FALSE]

NewState(pool) ==
  [tokens |-> 0, answer |-> 0, pool |-> pool,
   queue |-> Absent, execution |-> Absent, coordinator |-> Absent, graph |-> Absent,
   paused |-> {}, deferred |-> {}, waitingDump |-> Absent, waitingMarks |-> <<>>]

RuntimeInit ==
  /\ live = NewState([id |-> 1, writes |-> 0]) /\ snapshot = Absent /\ kept = Absent
  /\ fresh = FALSE /\ reloaded = FALSE

-----------------------------------------------------------------------------
(* Attaching the graph, and building what is missing.                      *)

\* Marks of nodes the graph does not have are passed over.
Marked(marks, waiting) == [n \in Nodes |-> IF n \in DOMAIN waiting THEN waiting[n] ELSE marks[n]]

\* A slip: marks are taken over only if there is a coordinator to load.
WithGraphAndDump(s) ==
  LET coordinator == TheOf(s.coordinator, [shown |-> 0, pool |-> s.pool.id])
      marks == IF s.waitingDump = Absent THEN <<>> ELSE s.waitingMarks
  IN  [s EXCEPT !.graph = Present(Marked(TheOf(s.graph, Untouched), marks)),
                !.coordinator = Present([coordinator EXCEPT !.shown = TheOf(s.waitingDump, @)]),
                !.waitingDump = Absent, !.waitingMarks = <<>>]

\* attach_graph: a coordinator for the live pool, then what waited for the graph.
WithGraph(s) ==
  LET coordinator == TheOf(s.coordinator, [shown |-> 0, pool |-> s.pool.id])
  IN  [s EXCEPT !.graph = Present(Marked(TheOf(s.graph, Untouched), s.waitingMarks)),
                !.coordinator = Present([coordinator EXCEPT !.shown = TheOf(s.waitingDump, @)]),
                !.waitingDump = Absent, !.waitingMarks = <<>>]

\* configure, as the engine calls it.  (A second graph is refused.)
Attach ==
  /\ live.graph = Absent
  /\ live' = [WithGraph(live) EXCEPT !.queue = Present(TheOf(@, <<>>)),
                                     !.execution = Present(TheOf(@, NewExecution("")))]
  /\ UNCHANGED <<snapshot, kept, fresh, reloaded>>

-----------------------------------------------------------------------------
(* The run.                                                                *)

CoordinatorOf(s) == TheOf(s.coordinator, [shown |-> 0, pool |-> s.pool.id])

\* What the engine and the nodes do to the state (negative counts are refused).
Effects(s) ==
  {[s EXCEPT !.tokens = @ + 1], [s EXCEPT !.pool.writes = @ + 1], [s EXCEPT !.answer = @ + 1],
   [s EXCEPT !.execution[1].started = TRUE],
   [s EXCEPT !.coordinator = Present([CoordinatorOf(s) EXCEPT !.shown = @ + 1])]}
  \cup {[s EXCEPT !.queue[1] = Append(@, n)] : n \in Nodes}
  \cup {[s EXCEPT !.graph[1][n] = "taken"] : n \in Nodes}
  \cup {[s EXCEPT !.paused = @ \cup {n}] : n \in Nodes}
  \cup {[s EXCEPT !.deferred = @ \cup {n}] : n \in Nodes}

WithinBounds(s) ==
  /\ s.tokens + s.pool.writes + s.answer + CoordinatorOf(s).shown <= MaxCount
  /\ Len(TheOf(s.queue, <<>>)) <= 1 /\ Cardinality(s.paused \cup s.deferred) <= 1

Work ==
  /\ live.graph # Absent
  /\ \E s \in Effects(live) : WithinBounds(s) /\ s # live /\ live' = s
  /\ fresh' = FALSE /\ UNCHANGED <<snapshot, kept, reloaded>>

\* Resuming takes the paused and the deferred nodes and queues them.
Consume ==
  /\ live.graph # Absent /\ live.paused \cup live.deferred # {}
  /\ \E order \in [1..Cardinality(live.paused \cup live.deferred) -> live.paused \cup live.deferred] :
       /\ live' = [live EXCEPT !.queue[1] = @ \o order, !.paused = {}, !.deferred = {}]
       /\ WithinBounds(live')
  /\ fresh' = FALSE /\ UNCHANGED <<snapshot, kept, reloaded>>

-----------------------------------------------------------------------------
(* Snapshots.                                                              *)

\* A slip: the nodes that became ready during a pause are not written.
DumpedWithoutDeferred(s) ==
  [tokens |-> s.tokens, answer |-> s.answer, writes |-> s.pool.writes,
   queue |-> TheOf(s.queue, <<>>), execution |-> TheOf(s.execution, NewExecution("")),
   paused |-> s.paused, deferred |-> {}, marks |-> TheOf(s.graph, s.waitingMarks),
   coordinator |-> IF s.graph # Absent /\ s.coordinator # Absent
                   THEN Present(s.coordinator[1].shown) ELSE Absent]

\* dumps: queue and execution are built if they are missing; the coordinator is
\* written only when the graph is attached.
Dumped(s) ==
  [tokens |-> s.tokens, answer |-> s.answer, writes |-> s.pool.writes,
   queue |-> TheOf(s.queue, <<>>), execution |-> TheOf(s.execution, NewExecution("")),
   paused |-> s.paused, deferred |-> s.deferred,
   marks |-> TheOf(s.graph, s.waitingMarks),
   coordinator |-> IF s.graph # Absent /\ s.coordinator # Absent
                   THEN Present(s.coordinator[1].shown) ELSE Absent]

\* What a state means: that of its collaborators or of what waits to be loaded.
Meaning(s) ==
  [tokens |-> s.tokens, answer |-> s.answer, writes |-> s.pool.writes,
   queue |-> TheOf(s.queue, <<>>), execution |-> TheOf(s.execution, NewExecution("")),
   paused |-> s.paused, deferred |-> s.deferred,
   marks |-> Marked(TheOf(s.graph, Untouched), s.waitingMarks),
   shown |-> TheOf(s.waitingDump, CoordinatorOf(s).shown)]

Dump ==
  /\ snapshot' = Present(Dumped(live)) /\ kept' = Present(Meaning(live))
  /\ live' = [live EXCEPT !.queue = Present(TheOf(@, <<>>)),
                          !.execution = Present(TheOf(@, NewExecution("")))]
  /\ UNCHANGED <<fresh, reloaded>>

\* _apply_snapshot on a state: a pool and collaborators of their own; the execution
\* is built for the workflow the snapshot names, since it refuses another's.
Restored(s, d, pool) ==
  LET filled == [s EXCEPT !.tokens = d.tokens, !.answer = d.answer,
                          !.pool = [id |-> pool, writes |-> d.writes],
                          !.queue = Present(d.queue), !.execution = Present(d.execution),
                          !.paused = d.paused, !.deferred = d.deferred, !.waitingMarks = d.marks]
  IN  IF s.graph = Absent
      THEN [filled EXCEPT !.waitingDump = d.coordinator, !.coordinator = Absent]
      ELSE [filled EXCEPT !.graph = Present(Marked(s.graph[1], d.marks)), !.waitingMarks = <<>>,
                          !.waitingDump = Absent,
                          !.coordinator = IF d.coordinator = Absent THEN Absent
                                          ELSE Present([CoordinatorOf(filled) EXCEPT !.shown = d.coordinator[1]])]

\* from_snapshot: another process goes on.
Restart ==
  /\ snapshot # Absent /\ live.pool.id < MaxPools
  /\ live' = Restored(NewState(live.pool), snapshot[1], live.pool.id + 1)
  /\ fresh' = TRUE /\ reloaded' = FALSE /\ UNCHANGED <<snapshot, kept>>

\* loads: this state is set back.
Load ==
  /\ snapshot # Absent /\ live.pool.id < MaxPools
  /\ live' = Restored(live, snapshot[1], live.pool.id + 1)
  /\ fresh' = TRUE
  /\ reloaded' = (live.graph # Absent /\ snapshot[1].coordinator # Absent)
  /\ UNCHANGED <<snapshot, kept>>

RuntimeStep == Attach \/ Work \/ Consume \/ Dump \/ Restart \/ Load

-----------------------------------------------------------------------------
\* A state that has been restored means what it meant when the snapshot was taken,
\* before and after its graph is attached.  Two things are lost: how far the
\* answers had been streamed, when the snapshot was taken of a state that had been
\* restored itself and had no graph yet; and, when a snapshot without marks is
\* loaded under a graph, the graph keeps the marks it has.
RestoredIsSaved ==
  fresh /\ snapshot # Absent =>
    LET meant == kept[1]
        means == Meaning(live)
    IN  /\ [means EXCEPT !.shown = 0, !.marks = Untouched] = [meant EXCEPT !.shown = 0, !.marks = Untouched]
        /\ snapshot[1].coordinator # Absent => means.shown = meant.shown
        /\ snapshot[1].marks # <<>> => means.marks = meant.marks

\* The answers are read from the pool the nodes write to; only a coordinator that
\* was set back under an attached graph goes on with the pool of before.
CoordinatorReadsPool ==
  live.coordinator # Absent => reloaded \/ live.coordinator[1].pool = live.pool.id

\* A run goes on from its snapshot where it was, and its answers are read from the
\* pool it writes to.
SnapshotsRestore == RestoredIsSaved /\ CoordinatorReadsPool

RuntimeSpec == RuntimeInit /\ [][RuntimeStep]_runtimeVars
=============================================================================
