--------------------------- MODULE ResponseStream ---------------------------
(***************************************************************************)
(* ResponseStreamCoordinator: what a workflow shows to its user while it   *)
(* runs.  A response node has a template of texts and variables.  It is    *)
(* shown in a session, one session at a time; a session begins as soon as  *)
(* its node is certain to be reached, long before the node runs, shows     *)
(* texts and the chunks its variables' sources have streamed, and waits    *)
(* for those that have not.                                                *)
(*                                                                         *)
(* The coordinator is composed with the graph's traversal (Routing.tla):   *)
(* sources run in parallel, so their chunks arrive in any order.  All of   *)
(* it happens in the dispatcher's thread, one event after another.         *)
(* A node has one variable and one stream; the graph has no cycle.         *)
(***************************************************************************)
EXTENDS Routing, Sequences, SequencesExt

CONSTANTS
  Graphs,      \* the edge sets a behaviour may start with
  Responses,   \* nodes of execution type RESPONSE, in the order of graph.nodes
  Containers,  \* nodes of execution type CONTAINER
  Assigners,   \* pairs <<n, r>>: n assigns a variable of the template of r
  Template,    \* response node -> its segments: "text" or the source of a variable
  Streaming,   \* nodes that stream their variable
  Failing,     \* nodes with an error strategy; branch nodes: FAIL_BRANCH
  FailHandle,
  MaxSegments, \* bound: segments of a template
  MaxChunks,   \* bound: chunks in a stream
  MaxRestores  \* bound: resumptions

Response == Range(Responses)
None == "none"

ASSUME StreamAssumption ==
  /\ IsFiniteSet(Nodes) /\ IsFiniteSet(Links)
  /\ \A g \in Graphs : g \subseteq Links
  /\ Responses \in Seq(Nodes) /\ None \notin Nodes
  /\ Containers \subseteq Nodes /\ "text" \notin Nodes
  /\ Response \cap Branches = {} /\ Response \cap Failing = {} /\ Root \notin Response
  /\ Assigners \subseteq Nodes \X Response
  /\ Template \in [Response -> Seq(Nodes \cup {"text"})]
  /\ MaxSegments \in Nat /\ \A r \in Response : Len(Template[r]) <= MaxSegments
  /\ Streaming \subseteq Nodes /\ Failing \subseteq Nodes /\ FailHandle \in Handles
  /\ MaxChunks \in Nat /\ MaxRestores \in Nat

VARIABLES
  graph,     \* the edges
  status,    \* node -> waiting, done or skipped
  chosen,    \* node -> the handle it selected
  pool,      \* nodes whose variable is in the variable pool
  order,     \* the order in which Python iterates the set _response_nodes
  coord,     \* the coordinator, a record
  restores   \* resumptions so far

vars == <<graph, status, chosen, pool, order, coord, restores>>

-----------------------------------------------------------------------------
(* Which edges a session waits for.                                        *)

OneEach(p, ends(_)) == \A e, f \in p : ends(e) = ends(f) => e = f

\* The simple paths from the root to r, as sets of edges.
CompletePaths(g, r) ==
  {p \in SUBSET g :
     LET tails == {e.tail : e \in p}
         heads == {e.head : e \in p}
     IN  /\ OneEach(p, LAMBDA e : e.tail) /\ OneEach(p, LAMBDA e : e.head)
         /\ Root \in tails \ heads /\ r \in heads \ tails
         /\ tails \ {Root} = heads \ {r}}

\* A slip: branch nodes do not block.
IsBlockingNoBranch(e, r) == e.tail \in Containers \cup Response \/ <<e.tail, r>> \in Assigners

IsBlocking(e, r) ==
  \/ e.tail \in Branches \cup Containers \cup Response
  \/ <<e.tail, r>> \in Assigners

\* _build_paths_map, for each graph and response.
BlockingPaths ==
  [g \in Graphs |->
    [r \in Response |-> {{e \in p : IsBlocking(e, r)} : p \in CompletePaths(g, r)}]]

-----------------------------------------------------------------------------
(* The pure part: each operator takes the coordinator and returns it as    *)
(* the method leaves it.                                                   *)

Registered(g) ==
  [paths    |-> BlockingPaths[g],
   pending  |-> Response,                        \* _response_sessions
   active   |-> None,
   waiting  |-> <<>>,
   index    |-> [r \in Response |-> 1],          \* of every session
   chunks   |-> [n \in Nodes |-> 0],             \* length of its stream buffer
   position |-> [n \in Nodes |-> 0],
   closed   |-> {},
   shown    |-> <<>>]                            \* history: the emitted events

\* An event: shown for a segment of a session, the k-th chunk of a stream or 0
\* for a text or a whole value.
Piece(r, i, k) == [by |-> r, segment |-> i, chunk |-> k]

\* A slip: the next session waits for an edge to be taken.
EndSessionForgets(c) == [c EXCEPT !.active = None]

EndSession(c) ==
  IF c.waiting = <<>>
  THEN [c EXCEPT !.active = None]
  ELSE [c EXCEPT !.active = Head(c.waiting), !.waiting = Tail(c.waiting)]

ShowText(c, r) ==
  [c EXCEPT !.shown = Append(@, Piece(r, c.index[r], 0)), !.index[r] = @ + 1]

\* A slip: a stream is read from its start whenever it is looked at.
ShowVariableRereads(c, r, n, p) ==
  LET i == c.index[r]
      unread == [k \in 1..c.chunks[n] |-> Piece(r, i, k)]
      value == IF n \notin c.closed /\ n \in p THEN <<Piece(r, i, 0)>> ELSE <<>>
  IN  [c EXCEPT !.shown = @ \o unread \o value,
                !.position[n] = c.chunks[n],
                !.index[r] = IF n \in c.closed \/ n \in p THEN @ + 1 ELSE @]

\* A slip: the session goes on when it has shown what there was of a stream.
ShowVariableImpatient(c, r, n, p) ==
  LET i == c.index[r]
      unread == [k \in 1..(c.chunks[n] - c.position[n]) |-> Piece(r, i, c.position[n] + k)]
      value == IF n \notin c.closed /\ n \in p THEN <<Piece(r, i, 0)>> ELSE <<>>
  IN  [c EXCEPT !.shown = @ \o unread \o value,
                !.position[n] = c.chunks[n],
                !.index[r] = IF n \in c.closed \/ n \in p \/ unread # <<>> THEN @ + 1 ELSE @]

\* The unread chunks; the segment is complete if the stream is closed, or else
\* if the pool p has the variable, which is shown as a whole.
ShowVariable(c, r, n, p) ==
  LET i == c.index[r]
      unread == [k \in 1..(c.chunks[n] - c.position[n]) |-> Piece(r, i, c.position[n] + k)]
      value == IF n \notin c.closed /\ n \in p THEN <<Piece(r, i, 0)>> ELSE <<>>
  IN  [c EXCEPT !.shown = @ \o unread \o value,
                !.position[n] = c.chunks[n],
                !.index[r] = IF n \in c.closed \/ n \in p THEN @ + 1 ELSE @]

\* One turn of the loop of try_flush, s being the nodes' statuses.
FlushOnce(c, s, p) ==
  LET r == c.active
      n == Template[r][c.index[r]]
  IN  IF r = None THEN c
      ELSE IF c.index[r] > Len(Template[r]) THEN EndSession(c)
      ELSE IF n = "text" THEN ShowText(c, r)
      ELSE IF s[n] = "skipped" THEN [c EXCEPT !.index[r] = @ + 1]
      ELSE ShowVariable(c, r, n, p)

\* Every turn that changes something passes a segment, ends a session or reads
\* the chunks of the last segment it reaches.
SessionTurns == MaxSegments + 2
FlushTurns(c) == (Len(c.waiting) + 1) * SessionTurns

TryFlush(c, s, p) ==
  LET after[k \in 0..FlushTurns(c)] ==
        IF k = 0 THEN c ELSE LET d == after[k - 1] IN FlushOnce(d, s, p)
  IN  after[FlushTurns(c)]

\* _active_or_queue_session
ActivateOrQueue(c, r, s, p) ==
  IF r \notin c.pending THEN c
  ELSE LET d == [c EXCEPT !.pending = @ \ {r}]
       IN  IF c.active = None
           THEN TryFlush([d EXCEPT !.active = r], s, p)
           ELSE [d EXCEPT !.waiting = Append(@, r)]

\* The loop of on_edge_taken, for one response node.
Visit(c, e, r, s, p) ==
  LET removed == {q \ {e} : q \in c.paths[r]}
      d == [c EXCEPT !.paths[r] = removed]
  IN  IF {} \in removed THEN ActivateOrQueue(d, r, s, p) ELSE d

\* on_edge_taken, for the response nodes in the order os.
OnEdgeTaken(c, e, os, s, p) ==
  LET visited[k \in 0..Len(os)] ==
        IF k = 0 THEN c ELSE LET d == visited[k - 1] IN Visit(d, e, os[k], s, p)
  IN  visited[Len(os)]

\* Edges are reported one after the other.
OnEdgesTaken(c, es, os, s, p) ==
  LET reported[k \in 0..Len(es)] ==
        IF k = 0 THEN c ELSE LET d == reported[k - 1] IN OnEdgeTaken(d, es[k], os, s, p)
  IN  reported[Len(es)]

-----------------------------------------------------------------------------
Init ==
  /\ graph \in Graphs
  /\ status = [n \in Nodes |-> "waiting"]
  /\ chosen = [n \in Nodes |-> NoHandle]
  /\ pool = {}
  /\ order \in SetToSeqs(Response)
  /\ coord = Registered(graph)
  /\ restores = 0

Runs(n) ==
  status[n] = "waiting" /\ (n = Root \/ IsFed(graph, n, status, chosen))

\* NodeRunStreamChunkEvent: a chunk of the stream of a running node.
Chunk(n) ==
  /\ Runs(n) /\ n \in Streaming \ coord.closed
  /\ coord.chunks[n] < MaxChunks
  /\ \E final \in BOOLEAN :
       /\ coord.chunks[n] + 1 = MaxChunks => final
       /\ LET c == [coord EXCEPT !.chunks[n] = @ + 1,
                                 !.closed = IF final THEN @ \cup {n} ELSE @]
          IN  coord' = TryFlush(c, status, pool)
  /\ UNCHANGED <<graph, status, chosen, pool, order, restores>>

\* What follows a result of n with handle h, from the coordinator c on: skips
\* are propagated, then every taken edge is reported, in the order of the
\* graph's edges, whatever it is.
Follow(n, h, c) ==
  LET route == Route(graph, status, chosen, n, h)
  IN  /\ status' = route.status
      /\ chosen' = route.chosen
      /\ \E es \in SetToSeqs({e \in graph : e.tail = n /\ Selects(n, h, e)}) :
           coord' = OnEdgesTaken(c, es, order, route.status, pool')

\* The handles a success may select; they matter on branch nodes only.
SuccessHandles(n) ==
  IF n \notin Branches THEN {FailHandle}
  ELSE IF n \in Failing THEN Handles \ {FailHandle}
  ELSE Handles

\* NodeRunSucceededEvent: outputs are stored, then the active session flushed,
\* then the edges processed.  A node that streams has closed its stream.
Succeed(n) ==
  /\ Runs(n) /\ (n \in Streaming => n \in coord.closed)
  /\ pool' = pool \cup {n}
  /\ \E h \in SuccessHandles(n) : Follow(n, h, TryFlush(coord, status, pool'))
  /\ UNCHANGED <<graph, order, restores>>

\* NodeRunExceptionEvent: the default values are stored, or error outputs; the
\* active session is not flushed.
Except(n) ==
  /\ Runs(n) /\ n \in Failing /\ n \notin coord.closed
  /\ pool' \in IF n \in Branches THEN {pool} ELSE {pool, pool \cup {n}}
  /\ Follow(n, FailHandle, coord)
  /\ UNCHANGED <<graph, order, restores>>

\* A slip: the snapshot forgets the sessions that wait.
RestoreActiveOnly ==
  /\ restores < MaxRestores
  /\ restores' = restores + 1
  /\ order' \in SetToSeqs(Response)
  /\ coord' = [coord EXCEPT !.waiting = <<>>]
  /\ UNCHANGED <<graph, status, chosen, pool>>

\* The run pauses and another process resumes it: dumps and loads keep the
\* whole coordinator, register finds its nodes known, and the set is iterated
\* in the order of the new process.
Restore ==
  /\ restores < MaxRestores
  /\ restores' = restores + 1
  /\ order' \in SetToSeqs(Response)
  /\ UNCHANGED <<graph, status, chosen, pool, coord>>

Next == (\E n \in Nodes : Chunk(n) \/ Succeed(n) \/ Except(n)) \/ Restore
Spec == Init /\ [][Next]_vars

-----------------------------------------------------------------------------
Statuses == {"waiting", "done", "skipped"}
Pieces == [by : Response, segment : Nat, chunk : Nat]
Coordinator ==
  {c \in [paths : [Response -> SUBSET SUBSET Links],
          pending : SUBSET Response, active : Response \cup {None}, waiting : Seq(Response),
          index : [Response -> Nat \ {0}], chunks : [Nodes -> Nat], position : [Nodes -> Nat],
          closed : SUBSET Nodes, shown : Seq(Pieces)] :
     \A n \in Nodes : c.position[n] <= c.chunks[n]}

\* Type invariant: the state is well-formed.
TypeOK ==
  /\ graph \in Graphs /\ order \in SetToSeqs(Response)
  /\ status \in [Nodes -> Statuses]
  /\ chosen \in [Nodes -> Handles \cup {NoHandle}]
  /\ pool \subseteq Nodes
  /\ coord \in Coordinator /\ restores \in 0..MaxRestores

Begun == Response \ coord.pending
Current(c) == Template[c.active][c.index[c.active]]

\* A session begins only for a node that will run: "the node is now
\* deterministically reachable".  No response of which something was shown is
\* skipped afterwards, whatever the branches below still decide.
BegunIsReached == \A r \in Begun : status[r] # "skipped"

\* Responses do not mix, and of each the segments are shown in the order of
\* the template, the chunks of a stream in the order they came, each once.
Before(p, q) ==
  \/ p.segment < q.segment
  \/ p.segment = q.segment /\ p.chunk > 0 /\ (q.chunk > p.chunk \/ q.chunk = 0)
InOrder(s) ==
  \A i, j \in DOMAIN s : i < j =>
    /\ s[i].by = s[j].by => Before(s[i], s[j])
    /\ \A k \in DOMAIN s : j < k /\ s[i].by = s[k].by => s[j].by = s[i].by
ShownInOrder == InOrder(coord.shown)

\* A session goes on only when nothing can follow in the segment it leaves:
\* the stream is closed and read to its end, or the value was there.
Complete(c, s, p) ==
  \A r \in Response : \A i \in 1..(c.index[r] - 1) :
    LET n == Template[r][i]
    IN  n # "text" /\ s[n] # "skipped" =>
          n \in p \/ (n \in c.closed /\ c.position[n] = c.chunks[n])
PassedIsComplete == Complete(coord, status, pool)

-----------------------------------------------------------------------------
(* What these rest on, in named parts.                                     *)

\* A session is at most once in line; it has shown nothing before it is active,
\* and everything once it is no longer.
SessionsInv(c) ==
  /\ \A i, j \in DOMAIN c.waiting : c.waiting[i] = c.waiting[j] => i = j
  /\ c.active \notin c.pending \cup Range(c.waiting)
  /\ c.pending \cap Range(c.waiting) = {}
  /\ c.active = None => c.waiting = <<>>
  /\ \A r \in Response : c.index[r] <= Len(Template[r]) + 1
  /\ \A r \in Response \ {c.active} :
       IF r \in c.pending \cup Range(c.waiting) THEN c.index[r] = 1
       ELSE c.index[r] > Len(Template[r])

\* What a session has shown is behind it, or a chunk that has been read of the
\* segment it is at; and nobody else shows anything in between.
ShownInv(c) ==
  /\ \A i \in DOMAIN c.shown :
       LET q == c.shown[i]
       IN  /\ q.by \notin c.pending \cup Range(c.waiting)
           /\ q.segment <= c.index[q.by]
           /\ q.segment = c.index[q.by] =>
                /\ q.segment <= Len(Template[q.by])
                /\ Template[q.by][q.segment] # "text"
                /\ q.chunk \in 1..c.position[Template[q.by][q.segment]]
  /\ \A i, j \in DOMAIN c.shown : i < j /\ c.shown[i].by = c.active => c.shown[j].by = c.active
  /\ InOrder(c.shown)

\* Why a node has its status, by its inputs.
Explained(g, s, h) ==
  \A n \in Nodes :
    /\ s[n] = "done" => n = Root \/ IsFed(g, n, s, h)
    /\ s[n] = "skipped" => n # Root /\ \A e \in Into(g, n) : IsDead(e, s, h)
    /\ s[n] = "waiting" /\ Into(g, n) # {} => \E e \in Into(g, n) : ~IsDead(e, s, h)
GraphInv == Explained(graph, status, chosen)

Taken == {e \in graph : IsLive(e, status, chosen)}

\* Of its paths a response has what is not yet taken; its session has begun if
\* one of them is taken as a whole.
PathsInv(c, g, taken) ==
  \A r \in Response :
    /\ c.paths[r] = {q \ taken : q \in BlockingPaths[g][r]}
    /\ r \notin c.pending => {} \in c.paths[r]
    /\ r \in c.pending /\ taken # {} => {} \notin c.paths[r]

\* Positions, buffers and sessions are consistent at every moment, and a session
\* that has begun is one of a node that is not skipped.
Inv ==
  /\ TypeOK /\ PassedIsComplete /\ BegunIsReached
  /\ SessionsInv(coord) /\ ShownInv(coord) /\ GraphInv /\ PathsInv(coord, graph, Taken)

-----------------------------------------------------------------------------
\* What can be shown is shown: with a session active, it is at a variable
\* whose open stream has been read to its end; without, none waits.
Idle(c) ==
  IF c.active = None THEN c.waiting = <<>>
  ELSE /\ c.index[c.active] <= Len(Template[c.active])
       /\ Current(c) # "text"
       /\ c.position[Current(c)] = c.chunks[Current(c)]
       /\ Current(c) \notin c.closed
NothingHeldBack == Idle(coord)

\* Sources come before the answers that show them: when r may run, they have, or
\* were skipped.  Only the handles that branch nodes selected matter.
SourcesPrecede(g) ==
  \A s \in [Nodes -> Statuses], h \in [Branches -> Handles \cup {NoHandle}] :
    Explained(g, s, h) =>
      \A r \in Response : IsFed(g, r, s, h) =>
        \A i \in 1..Len(Template[r]) :
          Template[r][i] # "text" => s[Template[r][i]] \in {"done", "skipped"}

\* When the run is over every response that ran has been shown to the end, or
\* stands behind a variable its source never stored.  Sources precede the
\* response: nothing flushes a session after that.
IsOver == \A n \in Nodes : ~Runs(n)
AllShown ==
  IsOver =>
    \/ \A r \in Response : status[r] = "done" => coord.index[r] > Len(Template[r])
    \/ /\ coord.active # None
       /\ status[Current(coord)] = "done" /\ Current(coord) \notin pool
=============================================================================
