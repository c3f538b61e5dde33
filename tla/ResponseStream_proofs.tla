------------------------ MODULE ResponseStream_proofs ------------------------
(***************************************************************************)
(* For every set of graphs, responses, templates and sources: answers do   *)
(* not mix and hold nothing back, a session goes on only when its segment  *)
(* is complete; in graphs without cycles it begins only for a node that    *)
(* will run, and in graphs that hang together every answer is complete at  *)
(* the end.                                                                *)
(***************************************************************************)
EXTENDS ResponseStream, Routing_proofs, LoopTheorems, FiniteSetTheorems, SequenceTheorems

-----------------------------------------------------------------------------
(* One turn of the flush.                                                  *)

LEMMA Constants ==
  /\ Response \subseteq Nodes /\ None \notin Response /\ "text" \notin Nodes
  /\ MaxSegments \in Nat
  /\ \A r \in Response :
       /\ Template[r] \in Seq(Nodes \cup {"text"})
       /\ Len(Template[r]) \in 0..MaxSegments
       /\ \A i \in 1..Len(Template[r]) : Template[r][i] \in Nodes \cup {"text"}
<1>1. Response \subseteq Nodes
  BY StreamAssumption DEF Response, Range
<1>2. ASSUME NEW r \in Response
      PROVE  /\ Template[r] \in Seq(Nodes \cup {"text"})
             /\ Len(Template[r]) \in 0..MaxSegments
             /\ \A i \in 1..Len(Template[r]) : Template[r][i] \in Nodes \cup {"text"}
  <2>1. Template[r] \in Seq(Nodes \cup {"text"}) /\ Len(Template[r]) <= MaxSegments
    BY StreamAssumption
  <2> QED
    BY <2>1, StreamAssumption
<1> QED
  BY <1>1, <1>2, StreamAssumption

\* The invariant of the coordinator while it works.
Kept(c, s, p) ==
  c \in Coordinator /\ SessionsInv(c) /\ ShownInv(c) /\ Complete(c, s, p)

\* What a flush leaves alone.
Same(c, d) ==
  /\ d.paths = c.paths /\ d.pending = c.pending
  /\ d.chunks = c.chunks /\ d.closed = c.closed

\* Nothing is left to flush.
AtRest(c, s, p) ==
  Idle(c) /\ (c.active # None => Current(c) \notin p /\ s[Current(c)] # "skipped")

\* How many turns a flush may still take.
Weight(c) ==
  IF c.active = None THEN 0
  ELSE Len(c.waiting) * SessionTurns + (SessionTurns - c.index[c.active])

LEMMA CoordinatorFields ==
  ASSUME NEW c \in Coordinator
  PROVE  /\ c.paths \in [Response -> SUBSET SUBSET Links]
         /\ c.pending \subseteq Response /\ c.active \in Response \cup {None}
         /\ c.waiting \in Seq(Response) /\ c.index \in [Response -> Nat \ {0}]
         /\ c.chunks \in [Nodes -> Nat] /\ c.position \in [Nodes -> Nat]
         /\ c.closed \subseteq Nodes /\ c.shown \in Seq(Pieces)
         /\ \A n \in Nodes : c.position[n] <= c.chunks[n]
BY DEF Coordinator

\* The pieces t are by r and can follow s.
CanFollow(s, t, r) ==
  /\ s \in Seq(Pieces) /\ t \in Seq(Pieces)
  /\ InOrder(s) /\ InOrder(t)
  /\ \A j \in DOMAIN t : t[j].by = r
  /\ \A i, j \in DOMAIN s : i < j /\ s[i].by = r => s[j].by = r
  /\ \A i \in DOMAIN s : \A j \in DOMAIN t : s[i].by = r => Before(s[i], t[j])

\* Pieces of the response that has shown something last go on with its order.
LEMMA OrderGoesOn ==
  ASSUME NEW s, NEW t, NEW r, CanFollow(s, t, r)
  PROVE  /\ s \o t \in Seq(Pieces) /\ InOrder(s \o t)
         /\ \A i, j \in DOMAIN (s \o t) : i < j /\ (s \o t)[i].by = r => (s \o t)[j].by = r
         /\ \A i \in DOMAIN (s \o t) : (\E j \in DOMAIN s : (s \o t)[i] = s[j])
                                         \/ (\E j \in DOMAIN t : (s \o t)[i] = t[j])
<1> DEFINE u == s \o t
           m == Len(s)
<1>0. /\ s \in Seq(Pieces) /\ t \in Seq(Pieces)
      /\ InOrder(s) /\ InOrder(t)
      /\ \A j \in DOMAIN t : t[j].by = r
      /\ \A i, j \in DOMAIN s : i < j /\ s[i].by = r => s[j].by = r
      /\ \A i \in DOMAIN s : \A j \in DOMAIN t : s[i].by = r => Before(s[i], t[j])
  BY DEF CanFollow
<1>1. /\ u \in Seq(Pieces) /\ m \in Nat /\ Len(t) \in Nat /\ DOMAIN s = 1..m /\ DOMAIN t = 1..Len(t)
      /\ DOMAIN u = 1..(m + Len(t))
      /\ \A i \in 1..m : u[i] = s[i]
      /\ \A i \in (m + 1)..(m + Len(t)) : u[i] = t[i - m] /\ i - m \in DOMAIN t
  <2>1. /\ u \in Seq(Pieces) /\ Len(u) = m + Len(t)
        /\ \A i \in 1..(m + Len(t)) : u[i] = IF i <= m THEN s[i] ELSE t[i - m]
    BY <1>0, ConcatProperties
  <2>2. m \in Nat /\ Len(t) \in Nat /\ DOMAIN s = 1..m /\ DOMAIN t = 1..Len(t)
        /\ DOMAIN u = 1..(m + Len(t))
    BY <1>0, <2>1
  <2> HIDE DEF u, m
  <2>3. ASSUME NEW i \in (m + 1)..(m + Len(t)) PROVE u[i] = t[i - m] /\ i - m \in DOMAIN t
    <3>1. i \in 1..(m + Len(t)) /\ ~(i <= m) /\ i - m \in 1..Len(t)
      BY <2>2
    <3> QED
      BY <2>1, <2>2, <3>1
  <2>4. \A i \in 1..m : u[i] = s[i]
    BY <2>1, <2>2
  <2> QED
    BY <2>1, <2>2, <2>3, <2>4
<1> HIDE DEF u, m
<1>2. ASSUME NEW i \in DOMAIN u
      PROVE  \/ i \in DOMAIN s /\ u[i] = s[i]
             \/ i > m /\ i - m \in DOMAIN t /\ u[i] = t[i - m] /\ u[i].by = r
  BY <1>0, <1>1
<1>3. ASSUME NEW i \in DOMAIN u, NEW j \in DOMAIN u, i < j
      PROVE  /\ u[i].by = r => u[j].by = r
             /\ u[i].by = u[j].by => Before(u[i], u[j])
  <2>1. CASE j \in DOMAIN s
    <3>1. i \in DOMAIN s /\ u[i] = s[i] /\ u[j] = s[j]
      BY <1>1, <1>3, <2>1
    <3> QED
      BY <1>0, <1>3, <2>1, <3>1 DEF InOrder
  <2>2. CASE j \notin DOMAIN s
    <3>1. j > m /\ j - m \in DOMAIN t /\ u[j] = t[j - m] /\ u[j].by = r
      BY <1>2, <2>2
    <3>2. CASE i \in DOMAIN s
      BY <1>0, <1>1, <3>1, <3>2
    <3>3. CASE i \notin DOMAIN s
      <4>1. i > m /\ i - m \in DOMAIN t /\ u[i] = t[i - m]
        BY <1>2, <3>3
      <4>2. i - m < j - m
        BY <1>1, <1>3, <3>1, <4>1
      <4> QED
        BY <1>0, <3>1, <4>1, <4>2 DEF InOrder
    <3> QED
      BY <3>2, <3>3
  <2> QED
    BY <2>1, <2>2
<1>4. ASSUME NEW i \in DOMAIN u, NEW j \in DOMAIN u, NEW k \in DOMAIN u, i < j, j < k,
             u[i].by = u[k].by
      PROVE  u[j].by = u[i].by
  <2>1. CASE u[k].by = r
    BY <1>3, <1>4, <2>1
  <2>2. CASE u[k].by # r
    <3>1. k \in DOMAIN s
      BY <1>2, <2>2
    <3>2. i \in DOMAIN s /\ j \in DOMAIN s /\ u[i] = s[i] /\ u[j] = s[j] /\ u[k] = s[k]
      BY ONLY SMTT(30), <1>1, <1>4, <3>1
    <3> QED
      BY <1>0, <1>4, <3>1, <3>2 DEF InOrder
  <2> QED
    BY <2>1, <2>2
<1>5. InOrder(u)
  BY <1>3, <1>4 DEF InOrder
<1> QED
  BY <1>0, <1>1, <1>2, <1>3, <1>5 DEF u

\* What was shown stays as it should be if nothing is shown and nobody goes back:
\* no session joins those that have shown nothing, and an answer that becomes the
\* active one has shown nothing either.
LEMMA ShownStays ==
  ASSUME NEW c, NEW d, ShownInv(c),
         d.shown = c.shown, d.index = c.index, d.position = c.position,
         d.pending \cup Range(d.waiting) \subseteq c.pending \cup Range(c.waiting),
         d.active = c.active \/ \A i \in DOMAIN c.shown : c.shown[i].by # d.active
  PROVE  ShownInv(d)
<1>1. \A i, j \in DOMAIN d.shown : i < j /\ d.shown[i].by = d.active => d.shown[j].by = d.active
  BY DEF ShownInv
<1>2. InOrder(d.shown)
  BY SMTT(30) DEF ShownInv
<1>3. \A i \in DOMAIN d.shown :
        LET q == d.shown[i]
        IN  /\ q.by \notin d.pending \cup Range(d.waiting)
            /\ q.segment <= d.index[q.by]
            /\ q.segment = d.index[q.by] =>
                 /\ q.segment <= Len(Template[q.by])
                 /\ Template[q.by][q.segment] # "text"
                 /\ q.chunk \in 1..d.position[Template[q.by][q.segment]]
  BY DEF ShownInv
<1> QED
  BY ONLY <1>1, <1>2, <1>3 DEF ShownInv

\* What a turn does while the active session stays: it shows the pieces t of the
\* segment the session is at, and may pass that segment if it is complete.
GoesOn(c, d, s, p, r, next, t) ==
  LET n == Template[r][c.index[r]]
  IN  /\ d \in Coordinator /\ Kept(c, s, p)
      /\ r \in Response /\ c.active = r /\ c.index[r] <= Len(Template[r])
      /\ Same(c, d) /\ d.active = r /\ d.waiting = c.waiting
      /\ \A m \in Nodes : c.position[m] <= d.position[m]
      /\ next \in {c.index[r], c.index[r] + 1} /\ d.index = [c.index EXCEPT ![r] = next]
      /\ next # c.index[r] =>
           n = "text" \/ s[n] = "skipped" \/ n \in p
             \/ (n \in c.closed /\ d.position[n] = d.chunks[n])
      /\ t \in Seq(Pieces) /\ InOrder(t) /\ d.shown = c.shown \o t
      /\ \A j \in DOMAIN t :
           /\ t[j].by = r /\ t[j].segment = c.index[r]
           /\ t[j].chunk = 0 \/ (n # "text" /\ t[j].chunk > c.position[n])
           /\ next = c.index[r] => t[j].chunk \in 1..d.position[n]

LEMMA SessionGoesOn ==
  \A c, d, s, p, r, next, t :
    GoesOn(c, d, s, p, r, next, t) =>
      /\ Kept(d, s, p)
      /\ next # c.index[r] => Weight(d) < Weight(c)
<1> SUFFICES ASSUME NEW c, NEW d, NEW s, NEW p, NEW r, NEW next, NEW t,
                    GoesOn(c, d, s, p, r, next, t)
             PROVE  /\ Kept(d, s, p)
                    /\ next # c.index[r] => Weight(d) < Weight(c)
  OBVIOUS
<1> DEFINE n == Template[r][c.index[r]]
<1>1. /\ d \in Coordinator /\ Kept(c, s, p) /\ r \in Response /\ c.active = r
      /\ c.index[r] <= Len(Template[r]) /\ Same(c, d) /\ d.active = r /\ d.waiting = c.waiting
      /\ \A m \in Nodes : c.position[m] <= d.position[m]
      /\ next \in {c.index[r], c.index[r] + 1} /\ d.index = [c.index EXCEPT ![r] = next]
      /\ n = Template[r][c.index[r]]
  BY DEF GoesOn
<1>2. /\ t \in Seq(Pieces) /\ InOrder(t) /\ d.shown = c.shown \o t
      /\ \A j \in DOMAIN t :
           /\ t[j].by = r /\ t[j].segment = c.index[r]
           /\ t[j].chunk = 0 \/ (n # "text" /\ t[j].chunk > c.position[n])
           /\ next = c.index[r] => t[j].chunk \in 1..d.position[n]
  BY DEF GoesOn
<1>3. next # c.index[r] =>
        n = "text" \/ s[n] = "skipped" \/ n \in p
          \/ (n \in c.closed /\ d.position[n] = d.chunks[n])
  BY DEF GoesOn
<1> HIDE DEF n
<1> DEFINE i0 == c.index[r]
<1>4. /\ c \in Coordinator /\ SessionsInv(c) /\ ShownInv(c) /\ Complete(c, s, p)
      /\ r \in Response /\ c.active = r /\ n = Template[r][i0] /\ i0 <= Len(Template[r])
      /\ c.index \in [Response -> Nat \ {0}] /\ i0 \in Nat \ {0}
      /\ d.index = [c.index EXCEPT ![r] = next] /\ next \in {i0, i0 + 1}
      /\ d.index \in [Response -> Nat \ {0}]
      /\ c.position \in [Nodes -> Nat] /\ d.position \in [Nodes -> Nat] /\ c.chunks \in [Nodes -> Nat]
      /\ \A m \in Nodes : d.position[m] <= d.chunks[m] /\ c.position[m] <= c.chunks[m]
      /\ c.shown \in Seq(Pieces) /\ c.waiting \in Seq(Response)
  BY <1>1, CoordinatorFields DEF Kept
<1>5. d.index[r] = next /\ \A q \in Response : q # r => d.index[q] = c.index[q]
  BY ONLY <1>4
<1>6. Len(Template[r]) \in 0..MaxSegments /\ MaxSegments \in Nat /\ n \in Nodes \cup {"text"}
      /\ r # None
  BY ONLY <1>4, Constants
<1>7. SessionsInv(d)
  <2>1. \A q \in Response : d.index[q] <= Len(Template[q]) + 1
    BY <1>4, <1>5, <1>6 DEF SessionsInv
  <2> QED
    BY <1>1, <1>4, <1>5, <1>6, <2>1 DEF SessionsInv, Same
<1>8. Complete(d, s, p)
  <2> SUFFICES ASSUME NEW q \in Response, NEW i \in 1..(d.index[q] - 1), NEW m, m = Template[q][i],
                      m # "text", s[m] # "skipped", m \notin p
               PROVE  m \in d.closed /\ d.position[m] = d.chunks[m]
    BY DEF Complete
  <2>1. CASE i \in 1..(c.index[q] - 1)
    <3>1. m \in c.closed /\ c.position[m] = c.chunks[m]
      BY <1>4, <2>1 DEF Complete
    <3>2. m \in Nodes
      BY <1>4, <3>1, CoordinatorFields
    <3>3. /\ c.position[m] <= d.position[m] /\ d.position[m] <= d.chunks[m]
          /\ d.chunks[m] = c.chunks[m] /\ d.position[m] \in Nat /\ c.position[m] \in Nat
      BY <1>1, <1>4, <3>2 DEF Same
    <3> QED
      BY <1>1, <3>1, <3>3 DEF Same
  <2>2. CASE i \notin 1..(c.index[q] - 1)
    <3>1. /\ c.index[q] \in Nat \ {0} /\ i0 \in Nat /\ i0 = c.index[r]
          /\ next \in {i0, i0 + 1}
      BY <1>4
    <3> HIDE DEF i0
    <3>2. q = r
      BY <1>5, <2>2
    <3>3. i \in 1..(next - 1) /\ i \notin 1..(i0 - 1)
      BY <1>5, <2>2, <3>1, <3>2
    <3>4. next = i0 + 1 /\ i = i0
      BY ONLY SMTT(30), <3>1, <3>3
    <3> QED
      BY <1>1, <1>3, <3>1, <3>2, <3>4 DEF Same
  <2> QED
    BY <2>1, <2>2
<1>9. ASSUME NEW i \in DOMAIN c.shown
      PROVE  /\ c.shown[i].by \in Response /\ c.shown[i].segment \in Nat
             /\ c.shown[i].chunk \in Nat
             /\ c.shown[i].by \notin c.pending \cup Range(c.waiting)
             /\ c.shown[i].segment <= c.index[c.shown[i].by]
             /\ c.shown[i].segment = c.index[c.shown[i].by] =>
                  /\ c.shown[i].segment <= Len(Template[c.shown[i].by])
                  /\ Template[c.shown[i].by][c.shown[i].segment] # "text"
                  /\ c.shown[i].chunk \in 1..c.position[Template[c.shown[i].by][c.shown[i].segment]]
  <2>1. c.shown[i] \in Pieces
    BY <1>4
  <2> QED
    BY ONLY <1>4, <2>1 DEF ShownInv, Pieces
<1>10. ASSUME NEW i \in DOMAIN c.shown, NEW j \in DOMAIN t, c.shown[i].by = r
       PROVE  Before(c.shown[i], t[j])
  <2>1. /\ c.shown[i].segment \in Nat /\ c.shown[i].chunk \in Nat
        /\ c.shown[i].segment <= i0
        /\ c.shown[i].segment = i0 => c.shown[i].chunk \in 1..c.position[n]
    BY <1>4, <1>9, <1>10
  <2>2. t[j].segment = i0 /\ (t[j].chunk = 0 \/ (n # "text" /\ t[j].chunk > c.position[n]))
        /\ t[j].chunk \in Nat
    <3>1. t[j] \in Pieces
      BY <1>2
    <3> QED
      BY <1>2, <3>1 DEF Pieces
  <2>3. CASE c.shown[i].segment < i0
    BY <2>2, <2>3 DEF Before
  <2>4. CASE c.shown[i].segment = i0
    <3>1. CASE t[j].chunk = 0
      BY ONLY <2>1, <2>2, <2>4, <3>1 DEF Before
    <3>2. CASE n # "text" /\ t[j].chunk > c.position[n]
      <4>1. c.position[n] \in Nat
        BY ONLY <1>4, <1>6, <3>2
      <4>2. /\ c.shown[i].segment = t[j].segment
            /\ c.shown[i].chunk > 0 /\ t[j].chunk > c.shown[i].chunk
        BY <2>1, <2>2, <2>4, <3>2, <4>1
      <4> QED
        BY ONLY <4>2 DEF Before
    <3> QED
      BY <2>2, <3>1, <3>2
  <2> QED
    BY ONLY <1>4, <2>1, <2>3, <2>4
<1>11. /\ InOrder(d.shown)
       /\ \A i, j \in DOMAIN d.shown : i < j /\ d.shown[i].by = r => d.shown[j].by = r
       /\ \A i \in DOMAIN d.shown : (\E j \in DOMAIN c.shown : d.shown[i] = c.shown[j])
                                      \/ (\E j \in DOMAIN t : d.shown[i] = t[j])
  <2>1. InOrder(c.shown) /\ \A i, j \in DOMAIN c.shown : i < j /\ c.shown[i].by = r => c.shown[j].by = r
    BY ONLY <1>4 DEF ShownInv
  <2>2. \A i \in DOMAIN c.shown : \A j \in DOMAIN t : c.shown[i].by = r => Before(c.shown[i], t[j])
    BY <1>10
  <2>3. /\ c.shown \in Seq(Pieces) /\ t \in Seq(Pieces) /\ InOrder(t)
        /\ \A j \in DOMAIN t : t[j].by = r
    BY <1>2, <1>4
  <2> DEFINE u == c.shown \o t
  <2>4. /\ InOrder(u)
        /\ \A i, j \in DOMAIN u : i < j /\ u[i].by = r => u[j].by = r
        /\ \A i \in DOMAIN u : (\E j \in DOMAIN c.shown : u[i] = c.shown[j])
                               \/ (\E j \in DOMAIN t : u[i] = t[j])
    <3>1. CanFollow(c.shown, t, r)
      BY <2>1, <2>2, <2>3 DEF CanFollow
    <3> QED
      BY <3>1, OrderGoesOn
  <2>5. d.shown = u
    BY <1>2
  <2> HIDE DEF u
  <2> QED
    BY <2>4, <2>5
<1>12. ASSUME NEW i \in DOMAIN d.shown
       PROVE  /\ d.shown[i].by \notin d.pending \cup Range(d.waiting)
              /\ d.shown[i].segment <= d.index[d.shown[i].by]
              /\ d.shown[i].segment = d.index[d.shown[i].by] =>
                   /\ d.shown[i].segment <= Len(Template[d.shown[i].by])
                   /\ Template[d.shown[i].by][d.shown[i].segment] # "text"
                   /\ d.shown[i].chunk \in 1..d.position[Template[d.shown[i].by][d.shown[i].segment]]
  <2>1. ASSUME NEW j \in DOMAIN t, d.shown[i] = t[j]
        PROVE  /\ d.shown[i].by = r /\ d.shown[i].segment = i0
               /\ next = i0 => d.shown[i].chunk \in 1..d.position[n]
    BY SMTT(30), <1>2, <2>1
  <2>2. ASSUME NEW j \in DOMAIN c.shown, d.shown[i] = c.shown[j]
        PROVE  /\ d.shown[i].by \notin d.pending \cup Range(d.waiting)
               /\ d.shown[i].segment <= d.index[d.shown[i].by]
               /\ d.shown[i].segment = d.index[d.shown[i].by] =>
                    /\ d.shown[i].segment <= Len(Template[d.shown[i].by])
                    /\ Template[d.shown[i].by][d.shown[i].segment] # "text"
                    /\ d.shown[i].chunk \in 1..d.position[Template[d.shown[i].by][d.shown[i].segment]]
    <3> DEFINE x == c.shown[j]
               m == Template[x.by][x.segment]
    <3>1. /\ x.by \in Response /\ x.segment \in Nat /\ x.chunk \in Nat
          /\ x.by \notin c.pending \cup Range(c.waiting)
          /\ x.segment <= c.index[x.by]
          /\ x.segment = c.index[x.by] =>
               x.segment <= Len(Template[x.by]) /\ m # "text" /\ x.chunk \in 1..c.position[m]
      BY <1>9
    <3> HIDE DEF x, m
    <3>2. c.index[x.by] <= d.index[x.by] /\ c.index[x.by] \in Nat \ {0} /\ d.index[x.by] \in Nat
      BY ONLY <1>4, <1>5, <3>1
    <3>3. ASSUME x.segment = d.index[x.by]
          PROVE  x.segment <= Len(Template[x.by]) /\ m # "text" /\ x.chunk \in 1..d.position[m]
      <4>1. x.segment = c.index[x.by] /\ x.segment \in Nat \ {0}
        BY <3>1, <3>2, <3>3
      <4>2. x.segment <= Len(Template[x.by]) /\ m # "text" /\ x.chunk \in 1..c.position[m]
        BY <3>1, <4>1
      <4>3. Len(Template[x.by]) \in Nat
        BY <3>1, Constants
      <4>4. x.segment \in 1..Len(Template[x.by])
        BY <4>1, <4>2, <4>3
      <4>5. m \in Nodes
        BY <3>1, <4>2, <4>4, Constants DEF m
      <4>6. c.position[m] <= d.position[m] /\ c.position[m] \in Nat /\ d.position[m] \in Nat
        BY <1>1, <1>4, <4>5
      <4> QED
        BY <3>1, <4>2, <4>6
    <3>4. x.segment <= d.index[x.by]
      BY <3>1, <3>2
    <3>5. x.by \notin d.pending \cup Range(d.waiting)
      <4>1. d.pending = c.pending /\ d.waiting = c.waiting
        BY SMTT(30), <1>1 DEF Same
      <4> QED
        BY ONLY <3>1, <4>1
    <3> QED
      BY ONLY SMTT(30), <2>2, <3>3, <3>4, <3>5 DEF x, m
  <2>3. CASE \E j \in DOMAIN c.shown : d.shown[i] = c.shown[j]
    BY <2>2, <2>3
  <2>4. CASE \E j \in DOMAIN t : d.shown[i] = t[j]
    <3>1. r \notin d.pending \cup Range(d.waiting)
      BY <1>1, <1>4 DEF SessionsInv, Same
    <3>2. PICK j \in DOMAIN t : d.shown[i] = t[j]
      BY <2>4
    <3>3. /\ d.shown[i].by = r /\ d.shown[i].segment = i0
          /\ next = i0 => d.shown[i].chunk \in 1..d.position[n]
          /\ n = "text" => d.shown[i].chunk = 0
      BY <1>2, <3>2
    <3> DEFINE x == d.shown[i]
    <3>4. /\ x.by = r /\ x.segment = i0 /\ i0 \in Nat /\ n = Template[r][i0]
          /\ d.index[r] = next /\ next \in {i0, i0 + 1} /\ i0 <= Len(Template[r])
          /\ next = i0 => n # "text" /\ x.chunk \in 1..d.position[n]
      BY SMTT(30), <1>4, <1>5, <3>2, <3>3
    <3> HIDE DEF x, i0
    <3> QED
      BY <3>1, <3>4 DEF x
  <2> QED
    BY <1>11, <2>3, <2>4
<1>13. ShownInv(d)
  <2>1. d.active = r
    BY <1>1
  <2>2. \A i, j \in DOMAIN d.shown : i < j /\ d.shown[i].by = d.active => d.shown[j].by = d.active
    BY <1>11, <2>1
  <2>3. InOrder(d.shown)
    BY <1>11
  <2> QED
    BY ONLY <1>12, <2>2, <2>3 DEF ShownInv
<1>14. ASSUME next # c.index[r] PROVE Weight(d) < Weight(c)
  <2> DEFINE rest == Len(c.waiting) * SessionTurns
  <2>1. rest \in Nat /\ SessionTurns \in Nat
    <3>1. Len(c.waiting) \in Nat /\ SessionTurns \in Nat
      BY <1>4, <1>6 DEF SessionTurns
    <3>2. \A x, y \in Nat : x * y \in Nat
      OBVIOUS
    <3> QED
      BY ONLY <3>1, <3>2
  <2>2. Weight(c) = rest + (SessionTurns - i0) /\ Weight(d) = rest + (SessionTurns - (i0 + 1))
    BY <1>1, <1>5, <1>6, <1>14 DEF Weight
  <2> HIDE DEF rest
  <2> QED
    BY <1>4, <1>6, <2>1, <2>2
<1> QED
  BY <1>1, <1>7, <1>8, <1>13, <1>14 DEF Kept

\* A session ends, and the first in line is active.
LEMMA EndTurn ==
  ASSUME NEW c, NEW s, NEW p, Kept(c, s, p), NEW r \in Response, c.active = r,
         c.index[r] > Len(Template[r]), NEW d, d = EndSession(c)
  PROVE  Kept(d, s, p) /\ Same(c, d) /\ Weight(d) < Weight(c)
<1>1. /\ c \in Coordinator /\ SessionsInv(c) /\ ShownInv(c) /\ Complete(c, s, p)
      /\ c.index \in [Response -> Nat \ {0}] /\ c.waiting \in Seq(Response) /\ r # None
      /\ Len(Template[r]) \in 0..MaxSegments /\ MaxSegments \in Nat
  BY Constants, CoordinatorFields DEF Kept
<1>2. c.index[r] \in 1..(MaxSegments + 1)
  BY <1>1 DEF SessionsInv
<1>3. CASE c.waiting = <<>>
  <2>1. d = [c EXCEPT !.active = None]
    BY <1>3 DEF EndSession
  <2>2. d \in Coordinator
    BY <1>1, <2>1 DEF Coordinator
  <2>3. /\ d.active = None /\ d.waiting = c.waiting /\ d.index = c.index /\ d.shown = c.shown
        /\ d.position = c.position /\ Same(c, d)
    BY <1>1, <2>1 DEF Coordinator, Same
  <2>4. SessionsInv(d)
    <3>1. ASSUME NEW q \in Response
          PROVE  IF q \in d.pending \cup Range(d.waiting) THEN d.index[q] = 1
                 ELSE d.index[q] > Len(Template[q])
      <4>1. CASE q = r
        BY <1>1, <2>3, <4>1 DEF SessionsInv, Same
      <4>2. CASE q # r
        BY <1>1, <2>3, <4>2 DEF SessionsInv, Same
      <4> QED
        BY <4>1, <4>2
    <3>2. None \notin d.pending \cup Range(d.waiting)
      <4>1. c.pending \subseteq Response /\ Range(c.waiting) = {}
        BY <1>1, <1>3, CoordinatorFields DEF Range
      <4> QED
        BY <2>3, <4>1, Constants DEF Same
    <3> QED
      BY <1>1, <1>3, <2>3, <3>1, <3>2 DEF SessionsInv, Same
  <2>5. \A i \in DOMAIN c.shown : c.shown[i].by # None
    <3> SUFFICES ASSUME NEW i \in DOMAIN c.shown PROVE c.shown[i].by # None
      OBVIOUS
    <3>1. c.shown[i] \in Pieces
      BY <1>1, CoordinatorFields
    <3> QED
      BY <3>1, Constants DEF Pieces
  <2>6. ShownInv(d)
    BY <1>1, <2>3, <2>5, ShownStays DEF Same
  <2>7. Complete(d, s, p)
    BY SMTT(30), <1>1, <2>3 DEF Complete, Same
  <2>8. Weight(d) < Weight(c)
    BY <1>1, <1>2, <1>3, <2>3 DEF Weight, SessionTurns
  <2> QED
    BY <2>2, <2>3, <2>4, <2>6, <2>7, <2>8 DEF Kept
<1>4. CASE c.waiting # <<>>
  <2> DEFINE w == c.waiting
             a == Head(w)
  <2>1. d = [c EXCEPT !.active = a, !.waiting = Tail(w)]
    BY <1>4 DEF EndSession
  <2>2. /\ Len(w) \in Nat \ {0} /\ DOMAIN w = 1..Len(w) /\ a = w[1] /\ a \in Response
        /\ Tail(w) \in Seq(Response) /\ Len(Tail(w)) = Len(w) - 1 /\ DOMAIN Tail(w) = 1..(Len(w) - 1)
        /\ \A i \in 1..(Len(w) - 1) : Tail(w)[i] = w[i + 1]
    <3>1. w \in Seq(Response) /\ w # <<>> /\ Len(w) \in Nat \ {0} /\ DOMAIN w = 1..Len(w)
      BY <1>1, <1>4, EmptySeq
    <3> HIDE DEF w
    <3>2. Head(w) = w[1] /\ w[1] \in Response
      BY <3>1
    <3> QED
      BY <3>1, <3>2, HeadTailProperties
  <2>3. d \in Coordinator
    BY <1>1, <2>1, <2>2 DEF Coordinator
  <2>4. /\ d.active = a /\ d.waiting = Tail(w) /\ d.index = c.index /\ d.shown = c.shown
        /\ d.position = c.position /\ Same(c, d)
    BY <1>1, <2>1 DEF Coordinator, Same
  <2> HIDE DEF w, a
  <2>5. \A q : q \in Range(w) <=> q = a \/ q \in Range(Tail(w))
    <3>1. \A q \in Range(w) : q = a \/ q \in Range(Tail(w))
      <4> SUFFICES ASSUME NEW i \in 1..Len(w), i # 1 PROVE w[i] \in Range(Tail(w))
        BY <2>2 DEF Range
      <4>1. i - 1 \in 1..(Len(w) - 1) /\ (i - 1) + 1 = i
        BY <2>2
      <4>2. Tail(w)[i - 1] = w[i] /\ i - 1 \in DOMAIN Tail(w)
        BY <2>2, <4>1
      <4> QED
        BY <4>2 DEF Range
    <3>2. a \in Range(w)
      BY <2>2 DEF Range
    <3>3. \A q \in Range(Tail(w)) : q \in Range(w)
      <4> SUFFICES ASSUME NEW i \in 1..(Len(w) - 1) PROVE Tail(w)[i] \in Range(w)
        BY <2>2 DEF Range
      <4>1. Tail(w)[i] = w[i + 1] /\ i + 1 \in DOMAIN w
        BY <2>2
      <4> QED
        BY <4>1 DEF Range
    <3> QED
      BY <3>1, <3>2, <3>3
  <2>6. a \notin Range(Tail(w)) /\ \A i, j \in DOMAIN Tail(w) : Tail(w)[i] = Tail(w)[j] => i = j
    <3>1. \A i, j \in DOMAIN w : w[i] = w[j] => i = j
      BY <1>1 DEF SessionsInv, w
    <3>2. ASSUME NEW i \in DOMAIN Tail(w), Tail(w)[i] = a PROVE FALSE
      BY <2>2, <3>1, <3>2
    <3>3. ASSUME NEW i \in DOMAIN Tail(w), NEW j \in DOMAIN Tail(w), Tail(w)[i] = Tail(w)[j]
          PROVE  i = j
      <4>1. i + 1 \in DOMAIN w /\ j + 1 \in DOMAIN w /\ w[i + 1] = w[j + 1]
        BY <2>2, <3>3
      <4> QED
        BY <2>2, <3>1, <4>1
    <3> QED
      BY <3>2, <3>3 DEF Range
  <2>7. SessionsInv(d)
    <3>1. a \notin c.pending /\ a # None /\ a # r
      BY <1>1, <2>2, <2>5, Constants DEF SessionsInv, w
    <3>2. \A q \in Response \ {a} :
            IF q \in d.pending \cup Range(d.waiting) THEN d.index[q] = 1
            ELSE d.index[q] > Len(Template[q])
      <4> SUFFICES ASSUME NEW q \in Response, q # a
                   PROVE  IF q \in d.pending \cup Range(d.waiting) THEN d.index[q] = 1
                          ELSE d.index[q] > Len(Template[q])
        OBVIOUS
      <4>1. CASE q = r
        BY <1>1, <2>4, <2>5, <4>1 DEF SessionsInv, Same, w
      <4>2. CASE q # r
        BY <1>1, <2>4, <2>5, <4>2 DEF SessionsInv, Same, w
      <4> QED
        BY <4>1, <4>2
    <3>3. /\ d.active \notin d.pending \cup Range(d.waiting)
          /\ d.pending \cap Range(d.waiting) = {}
          /\ d.active # None
          /\ \A q \in Response : d.index[q] <= Len(Template[q]) + 1
      BY <1>1, <2>4, <2>5, <2>6, <3>1 DEF SessionsInv, Same, w
    <3> QED
      BY <2>4, <2>6, <3>2, <3>3 DEF SessionsInv
  <2>8. ShownInv(d)
    <3>1. \A i \in DOMAIN c.shown : c.shown[i].by \notin c.pending \cup Range(w) /\ c.shown[i].by # a
      BY <1>1, <2>5 DEF ShownInv, w
    <3>2. d.pending \cup Range(d.waiting) \subseteq c.pending \cup Range(c.waiting)
      BY ONLY <2>4, <2>5 DEF Same, w
    <3> QED
      BY <1>1, <2>4, <3>1, <3>2, ShownStays
  <2>9. Complete(d, s, p)
    BY <1>1, <2>4 DEF Complete, Same
  <2>10. Weight(d) < Weight(c)
    <3> DEFINE K == SessionTurns
               l == Len(w) - 1
    <3>1. l \in Nat /\ K \in Nat /\ Len(w) = l + 1 /\ l * K \in Nat /\ (l + 1) * K = l * K + K
      <4>1. l \in Nat /\ K \in Nat /\ Len(w) = l + 1
        BY <1>1, <2>2 DEF SessionTurns
      <4>2. \A x, y \in Nat : x * y \in Nat /\ (x + 1) * y = x * y + y
        OBVIOUS
      <4> HIDE DEF l, K
      <4> QED
        BY ONLY <4>1, <4>2
    <3>2. Weight(c) = Len(w) * K + (K - c.index[r])
      <4>1. c.active = r /\ r # None
        BY <1>1
      <4> QED
        BY <4>1 DEF Weight, w
    <3>3. Weight(d) = l * K + (K - c.index[a])
      <4>1. d.active = a /\ a # None /\ Len(d.waiting) = l /\ d.index = c.index
        BY <2>2, <2>4, Constants
      <4> HIDE DEF l
      <4> QED
        BY <4>1 DEF Weight
    <3>4. c.index[r] \in Nat /\ c.index[r] < K /\ c.index[a] \in Nat /\ c.index[a] > 0
      BY <1>1, <1>2, <2>2 DEF SessionTurns
    <3> DEFINE x == l * K
    <3>5. Weight(c) = x + K + (K - c.index[r]) /\ Weight(d) = x + (K - c.index[a]) /\ x \in Nat
      BY <3>1, <3>2, <3>3
    <3> HIDE DEF x, K, l
    <3> QED
      BY SMTT(30), <3>1, <3>4, <3>5
  <2> QED
    BY <2>3, <2>4, <2>7, <2>8, <2>9, <2>10 DEF Kept
<1> QED
  BY <1>3, <1>4

\* A text is shown, and passed.
LEMMA TextTurn ==
  ASSUME NEW c, NEW s, NEW p, Kept(c, s, p), NEW r \in Response, c.active = r,
         c.index[r] <= Len(Template[r]), Template[r][c.index[r]] = "text",
         NEW d, d = ShowText(c, r)
  PROVE  Kept(d, s, p) /\ Same(c, d) /\ Weight(d) < Weight(c)
<1> DEFINE i == c.index[r]
           x == Piece(r, i, 0)
           t == <<x>>
<1>1. c \in Coordinator /\ i \in Nat \ {0} /\ c.index \in [Response -> Nat \ {0}]
      /\ c.shown \in Seq(Pieces) /\ c.position \in [Nodes -> Nat]
  BY CoordinatorFields DEF Kept
<1>2. x \in Pieces /\ x.by = r /\ x.segment = i /\ x.chunk = 0
  BY <1>1 DEF Piece, Pieces
<1>3. t \in Seq(Pieces) /\ DOMAIN t = {1} /\ t[1] = x
  BY <1>2
<1> HIDE DEF x
<1>4. Append(c.shown, x) = c.shown \o t /\ Append(c.shown, x) \in Seq(Pieces)
  BY <1>1, <1>2, AppendIsConcat
<1>5. d = [c EXCEPT !.shown = Append(c.shown, x), !.index = [c.index EXCEPT ![r] = i + 1]]
  BY <1>1 DEF ShowText, x, Coordinator
<1>6. d \in Coordinator
  <2>1. [c.index EXCEPT ![r] = i + 1] \in [Response -> Nat \ {0}]
    BY <1>1
  <2> HIDE DEF i, t
  <2> QED
    BY <1>1, <1>4, <1>5, <2>1 DEF Coordinator
<1>7. /\ d.shown = c.shown \o t /\ d.index = [c.index EXCEPT ![r] = i + 1]
      /\ d.position = c.position /\ d.active = c.active /\ d.waiting = c.waiting /\ Same(c, d)
  BY <1>1, <1>4, <1>5 DEF Coordinator, Same
<1>8. InOrder(t)
  BY <1>3 DEF InOrder
<1>9. \A j \in DOMAIN t :
           /\ t[j].by = r /\ t[j].segment = i /\ t[j].chunk = 0
  BY <1>2, <1>3
<1>10. i + 1 # i /\ \A m \in Nodes : c.position[m] <= d.position[m]
  BY <1>1, <1>7
<1> HIDE DEF t
<1>11. Kept(d, s, p) /\ Weight(d) < Weight(c)
  <2>1. GoesOn(c, d, s, p, r, i + 1, t)
    BY <1>3, <1>6, <1>7, <1>8, <1>9, <1>10 DEF GoesOn
  <2> QED
    BY <1>10, <2>1, SessionGoesOn
<1> QED
  BY <1>7, <1>11

\* A segment whose source was skipped is passed.
LEMMA SkippedTurn ==
  ASSUME NEW c, NEW s, NEW p, Kept(c, s, p), NEW r \in Response, c.active = r,
         c.index[r] <= Len(Template[r]), s[Template[r][c.index[r]]] = "skipped",
         NEW d, d = [c EXCEPT !.index[r] = @ + 1]
  PROVE  Kept(d, s, p) /\ Same(c, d) /\ Weight(d) < Weight(c)
<1> DEFINE i == c.index[r]
           t == <<>>
<1>1. c \in Coordinator /\ i \in Nat \ {0} /\ c.index \in [Response -> Nat \ {0}]
      /\ c.shown \in Seq(Pieces) /\ c.position \in [Nodes -> Nat]
  BY CoordinatorFields DEF Kept
<1>2. t \in Seq(Pieces) /\ c.shown \o t = c.shown /\ InOrder(t) /\ DOMAIN t = {}
  BY <1>1, ConcatEmptySeq DEF InOrder
<1>3. d = [c EXCEPT !.index = [c.index EXCEPT ![r] = i + 1]]
  BY <1>1 DEF Coordinator
<1>4. d \in Coordinator
  <2>1. [c.index EXCEPT ![r] = i + 1] \in [Response -> Nat \ {0}]
    BY <1>1
  <2> HIDE DEF i, t
  <2> QED
    BY <1>1, <1>3, <2>1 DEF Coordinator
<1>5. /\ d.shown = c.shown \o t /\ d.index = [c.index EXCEPT ![r] = i + 1]
      /\ d.position = c.position /\ d.active = c.active /\ d.waiting = c.waiting /\ Same(c, d)
  BY <1>1, <1>2, <1>3 DEF Coordinator, Same
<1>6. i + 1 # i /\ \A m \in Nodes : c.position[m] <= d.position[m]
  BY <1>1, <1>5
<1> HIDE DEF t
<1>7. Kept(d, s, p) /\ Weight(d) < Weight(c)
  <2>1. GoesOn(c, d, s, p, r, i + 1, t)
    BY <1>2, <1>4, <1>5, <1>6 DEF GoesOn
  <2> QED
    BY <1>6, <2>1, SessionGoesOn
<1> QED
  BY <1>5, <1>7

\* The chunks of a variable after the first q of k, and V.
Unread(r, i, q, k, V, t) ==
  /\ r \in Response /\ i \in Nat /\ q \in Nat /\ k \in Nat /\ q <= k
  /\ V \in {<<>>, <<Piece(r, i, 0)>>}
  /\ t = [j \in 1..(k - q) |-> Piece(r, i, q + j)] \o V

\* Chunks that were not read, and the value, are in order.
LEMMA ChunksInOrder ==
  ASSUME NEW r, NEW i, NEW q, NEW k, NEW V, NEW t, Unread(r, i, q, k, V, t)
  PROVE  /\ t \in Seq(Pieces) /\ InOrder(t)
         /\ \A j \in DOMAIN t :
              /\ t[j].by = r /\ t[j].segment = i
              /\ t[j].chunk = 0 \/ t[j].chunk > q
              /\ V = <<>> => t[j].chunk \in 1..k
<1> DEFINE m == k - q
           u == [j \in 1..m |-> Piece(r, i, q + j)]
<1> r \in Response /\ i \in Nat /\ q \in Nat /\ k \in Nat /\ q <= k
  BY DEF Unread
<1> V \in {<<>>, <<Piece(r, i, 0)>>} /\ t = u \o V
  BY DEF Unread
<1>0. m \in Nat
  OBVIOUS
<1>1. \A j \in 1..m : /\ u[j] \in Pieces /\ u[j].by = r /\ u[j].segment = i
                      /\ u[j].chunk = q + j /\ q + j > q /\ q + j \in 1..k
  <2>1. \A j \in 1..m : q + j \in Nat /\ q + j > q /\ q + j \in 1..k
    OBVIOUS
  <2> HIDE DEF m
  <2> QED
    BY <2>1 DEF Piece, Pieces
<1> HIDE DEF m
<1>2. u \in Seq(Pieces) /\ DOMAIN u = 1..m /\ Len(u) = m
  <2>1. u \in [1..m -> Pieces]
    BY <1>1 DEF u
  <2> HIDE DEF u
  <2> QED
    BY <1>0, <2>1
<1> HIDE DEF u
<1>3. InOrder(u)
  BY <1>0, <1>1, <1>2 DEF InOrder, Before
<1>4. V \in Seq(Pieces) /\ \A j \in DOMAIN V : V[j].by = r /\ V[j].segment = i /\ V[j].chunk = 0
  <2> DEFINE x == Piece(r, i, 0)
  <2>1. x \in Pieces /\ x.by = r /\ x.segment = i /\ x.chunk = 0
    BY DEF Piece, Pieces
  <2> HIDE DEF x
  <2>2. V = <<>> \/ V = <<x>>
    BY DEF x
  <2>3. <<x>> \in Seq(Pieces) /\ DOMAIN <<x>> = {1} /\ <<x>>[1] = x
    BY <2>1
  <2>4. <<>> \in Seq(Pieces) /\ DOMAIN <<>> = {}
    OBVIOUS
  <2>5. CASE V = <<>>
    BY <2>4, <2>5
  <2>6. CASE V = <<x>>
    BY <2>1, <2>3, <2>6
  <2> QED
    BY <2>2, <2>5, <2>6
<1>5. InOrder(V)
  <2>1. DOMAIN V \subseteq {1}
    OBVIOUS
  <2> QED
    BY <2>1 DEF InOrder
<1>6. \A j \in DOMAIN u : \A l \in DOMAIN V : Before(u[j], V[l])
  BY <1>1, <1>2, <1>4 DEF Before
<1>7. /\ t \in Seq(Pieces) /\ InOrder(t)
      /\ \A j \in DOMAIN t : (\E l \in DOMAIN u : t[j] = u[l]) \/ (\E l \in DOMAIN V : t[j] = V[l])
  <2>1. t = u \o V
    BY DEF u, m
  <2>2. \A j \in DOMAIN u : u[j].by = r
    BY <1>1, <1>2
  <2> QED
    <3>1. CanFollow(u, V, r)
      BY <1>1, <1>2, <1>3, <1>4, <1>5, <1>6, <2>2 DEF CanFollow
    <3>2. /\ u \o V \in Seq(Pieces) /\ InOrder(u \o V)
          /\ \A j \in DOMAIN (u \o V) : (\E l \in DOMAIN u : (u \o V)[j] = u[l])
                                          \/ (\E l \in DOMAIN V : (u \o V)[j] = V[l])
      BY <3>1, OrderGoesOn
    <3> QED
      BY <2>1, <3>2
<1>8. ASSUME NEW j \in DOMAIN t
      PROVE  /\ t[j].by = r /\ t[j].segment = i
             /\ t[j].chunk = 0 \/ t[j].chunk > q
             /\ V = <<>> => t[j].chunk \in 1..k
  <2>1. CASE \E l \in DOMAIN u : t[j] = u[l]
    BY <1>1, <1>2, <2>1
  <2>2. CASE \E l \in DOMAIN V : t[j] = V[l]
    BY <1>4, <2>2
  <2> QED
    BY <1>7, <2>1, <2>2
<1> QED
  BY <1>7, <1>8

\* The chunks of a variable are read; then it is passed or waited for.
LEMMA VariableTurn ==
  ASSUME NEW c, NEW s, NEW p, Kept(c, s, p), NEW r \in Response, c.active = r,
         c.index[r] <= Len(Template[r]),
         NEW n, n = Template[r][c.index[r]], n # "text", s[n] # "skipped",
         NEW d, d = ShowVariable(c, r, n, p)
  PROVE  /\ Kept(d, s, p) /\ Same(c, d)
         /\ IF n \in c.closed \cup p THEN Weight(d) < Weight(c) ELSE AtRest(d, s, p)
<1> DEFINE i == c.index[r]
           q == c.position[n]
           k == c.chunks[n]
           V == IF n \notin c.closed /\ n \in p THEN <<Piece(r, i, 0)>> ELSE <<>>
           u == [j \in 1..(k - q) |-> Piece(r, i, q + j)]
           t == u \o V
           passed == n \in c.closed \/ n \in p
           next == IF passed THEN i + 1 ELSE i
<1>1. /\ c \in Coordinator /\ i \in Nat \ {0} /\ c.index \in [Response -> Nat \ {0}]
      /\ c.shown \in Seq(Pieces) /\ c.position \in [Nodes -> Nat] /\ c.chunks \in [Nodes -> Nat]
      /\ \A m \in Nodes : c.position[m] <= c.chunks[m]
      /\ r # None /\ n = Template[r][i] /\ n # "text" /\ i <= Len(Template[r])
  BY CoordinatorFields, Constants DEF Kept
<1>2. n \in Nodes /\ q \in Nat /\ k \in Nat /\ q <= k
  <2>1. i \in 1..Len(Template[r])
    BY <1>1, Constants
  <2>2. n \in Nodes
    BY <2>1, Constants
  <2> QED
    BY <1>1, <2>2
<1> HIDE DEF i, q, k
<1>3. /\ t \in Seq(Pieces) /\ InOrder(t)
      /\ \A j \in DOMAIN t :
           /\ t[j].by = r /\ t[j].segment = i
           /\ t[j].chunk = 0 \/ t[j].chunk > q
           /\ V = <<>> => t[j].chunk \in 1..k
  <2>1. V \in {<<>>, <<Piece(r, i, 0)>>}
    OBVIOUS
  <2> HIDE DEF V
  <2>2. Unread(r, i, q, k, V, t)
    BY <1>1, <1>2, <2>1 DEF Unread
  <2> HIDE DEF t
  <2> QED
    BY <2>2, ChunksInOrder
<1>4. u \in Seq(Pieces) /\ V \in Seq(Pieces)
  <2>1. Piece(r, i, 0) \in Pieces
    BY <1>1 DEF Piece, Pieces
  <2>2. V \in Seq(Pieces)
    BY <2>1
  <2> DEFINE m == k - q
  <2>3. m \in Nat
    BY <1>2
  <2>4. \A j \in 1..m : Piece(r, i, q + j) \in Pieces
    <3>1. \A j \in 1..m : q + j \in Nat
      BY <1>2, <2>3
    <3> HIDE DEF m
    <3> QED
      BY <1>1, <3>1 DEF Piece, Pieces
  <2>5. u \in [1..m -> Pieces]
    BY <2>4
  <2> HIDE DEF m, u
  <2> QED
    BY <2>2, <2>3, <2>5
<1>5. c.shown \o u \o V = c.shown \o t
  <2> DEFINE x == c.shown
  <2>1. x \in Seq(Pieces)
    BY <1>1
  <2> HIDE DEF u, V, x
  <2>2. (x \o u) \o V = x \o (u \o V)
    BY SMTT(30), <1>4, <2>1, ConcatAssociative
  <2> QED
    BY <2>2 DEF x
<1>6. c.shown \o t \in Seq(Pieces)
  <2> HIDE DEF t
  <2> QED
    BY <1>1, <1>3, ConcatProperties
<1>7. d = [c EXCEPT !.shown = c.shown \o u \o V,
                    !.position = [c.position EXCEPT ![n] = k],
                    !.index = [c.index EXCEPT ![r] = next]]
  <2>1. DOMAIN c = {"paths", "pending", "active", "waiting", "index", "chunks", "position",
                    "closed", "shown"}
    BY <1>1 DEF Coordinator
  <2> QED
    BY <2>1, Zenon DEF ShowVariable, i, q, k
<1> HIDE DEF t, V, u
<1>8. next \in {i, i + 1} /\ next \in Nat \ {0} /\ (next # i <=> passed)
  BY <1>1 DEF i
<1> HIDE DEF next, passed
<1> DEFINE X == c.shown \o t
           Y == [c.position EXCEPT ![n] = k]
           Z == [c.index EXCEPT ![r] = next]
<1>9. /\ X \in Seq(Pieces)
      /\ Y \in [Nodes -> Nat] /\ Y[n] = k /\ \A m \in Nodes : m # n => Y[m] = c.position[m]
      /\ Z \in [Response -> Nat \ {0}] /\ Z[r] = next
  BY <1>1, <1>2, <1>6, <1>8
<1>10. d = [c EXCEPT !.shown = X, !.position = Y, !.index = Z]
  BY <1>5, <1>7
<1>11. /\ d.shown = X /\ d.index = Z /\ d.position = Y
       /\ d.active = c.active /\ d.waiting = c.waiting /\ Same(c, d)
       /\ d.chunks[n] = k
       /\ \A m \in Nodes : c.position[m] <= Y[m] /\ Y[m] <= c.chunks[m]
  <2> HIDE DEF X, Y, Z
  <2>1. /\ d.shown = X /\ d.index = Z /\ d.position = Y
        /\ d.active = c.active /\ d.waiting = c.waiting /\ Same(c, d)
    BY <1>1, <1>10 DEF Coordinator, Same
  <2>2. ASSUME NEW m \in Nodes PROVE c.position[m] <= Y[m] /\ Y[m] <= c.chunks[m]
    <3>1. c.position[m] \in Nat /\ c.chunks[m] \in Nat /\ c.position[m] <= c.chunks[m]
      BY <1>1
    <3>2. CASE m = n
      <4>1. Y[m] = c.chunks[m]
        BY <1>9, <3>2 DEF k
      <4> QED
        BY <3>1, <4>1
    <3>3. CASE m # n
      <4>1. Y[m] = c.position[m]
        BY <1>9, <3>3
      <4> QED
        BY <3>1, <4>1
    <3> QED
      BY <3>2, <3>3
  <2> QED
    BY <2>1, <2>2 DEF k, Same
<1>20. d \in Coordinator
  <2> HIDE DEF X, Y, Z
  <2> QED
    BY ONLY <1>1, <1>9, <1>10, <1>11 DEF Coordinator
<1>21. d.shown = c.shown \o t /\ d.index = [c.index EXCEPT ![r] = next]
       /\ d.position[n] = k
  BY ONLY <1>9, <1>11
<1>22. d.index[r] = next /\ \A m \in Nodes : c.position[m] <= d.position[m]
  BY ONLY <1>9, <1>11
<1> HIDE DEF X, Y, Z
<1>12. next # i => n \in p \/ (n \in c.closed /\ d.position[n] = d.chunks[n])
  BY ONLY <1>8, <1>11, <1>21 DEF passed
<1>13. next = i => V = <<>>
  <2>1. next = i => n \notin c.closed /\ n \notin p
    BY ONLY <1>8 DEF passed
  <2> QED
    BY ONLY <2>1, Zenon DEF V
<1>14. GoesOn(c, d, s, p, r, next, t)
  <2>1. \A j \in DOMAIN t :
           /\ t[j].by = r /\ t[j].segment = c.index[r]
           /\ t[j].chunk = 0 \/ (n # "text" /\ t[j].chunk > c.position[n])
           /\ next = c.index[r] => t[j].chunk \in 1..d.position[n]
    BY ONLY <1>1, <1>3, <1>13, <1>21 DEF i, q
  <2>2. next \in {c.index[r], c.index[r] + 1}
    BY <1>8 DEF i
  <2>3. next # c.index[r] => n \in p \/ (n \in c.closed /\ d.position[n] = d.chunks[n])
    BY <1>12 DEF i
  <2> QED
    BY ZenonT(40), <1>3, <1>11, <1>20, <1>21, <1>22, <2>1, <2>2, <2>3 DEF GoesOn
<1>15. Kept(d, s, p) /\ (next # i => Weight(d) < Weight(c))
  BY <1>14, SessionGoesOn DEF i
<1>16. ASSUME next = i PROVE AtRest(d, s, p)
  <2>1. n \notin c.closed /\ n \notin p
    BY <1>8, <1>16 DEF passed
  <2>2. d.active = r /\ d.index[r] = i
    BY <1>11, <1>16, <1>22
  <2>3. Current(d) = n /\ i <= Len(Template[r])
    BY ONLY <1>1, <2>2 DEF Current
  <2>4. d.position[n] = d.chunks[n] /\ d.closed = c.closed
    BY ONLY <1>11, <1>21 DEF Same
  <2> QED
    BY <1>1, <2>1, <2>2, <2>3, <2>4 DEF AtRest, Idle
<1>17. n \in c.closed \cup p <=> next # i
  BY <1>8 DEF passed
<1> QED
  BY <1>11, <1>15, <1>16, <1>17

\* A turn keeps the invariant, and comes nearer to the end of the flush.
LEMMA Turn ==
  ASSUME NEW c, NEW s, NEW p, Kept(c, s, p), NEW d, d = FlushOnce(c, s, p)
  PROVE  /\ Kept(d, s, p) /\ Same(c, d)
         /\ Weight(d) < Weight(c) \/ AtRest(d, s, p)
         /\ AtRest(c, s, p) => AtRest(d, s, p)
<1>1. CASE c.active = None
  <2>1. d = c
    BY <1>1, Zenon DEF FlushOnce
  <2>2. AtRest(c, s, p)
    BY <1>1 DEF AtRest, Idle, Kept, SessionsInv
  <2> QED
    BY <2>1, <2>2 DEF Same
<1>2. CASE c.active # None
  <2> DEFINE r == c.active
             n == Template[r][c.index[r]]
  <2>1. r \in Response
    BY <1>2, CoordinatorFields DEF Kept
  <2>2. c.index[r] \in Nat /\ Len(Template[r]) \in Nat
    BY <2>1, CoordinatorFields, Constants DEF Kept
  <2>3. CASE c.index[r] > Len(Template[r])
    <3>1. d = EndSession(c)
      BY <1>2, <2>3, Zenon DEF FlushOnce
    <3> QED
      BY <1>2, <2>1, <2>2, <2>3, <3>1, EndTurn DEF AtRest, Idle
  <2>4. CASE ~(c.index[r] > Len(Template[r])) /\ n = "text"
    <3>1. d = ShowText(c, r)
      BY <1>2, <2>4, Zenon DEF FlushOnce
    <3>2. ~AtRest(c, s, p)
      BY <1>2, <2>4 DEF AtRest, Idle, Current
    <3> QED
      BY <2>1, <2>2, <2>4, <3>1, <3>2, TextTurn
  <2>5. CASE ~(c.index[r] > Len(Template[r])) /\ n # "text" /\ s[n] = "skipped"
    <3>1. d = [c EXCEPT !.index[r] = @ + 1]
      BY <1>2, <2>5, Zenon DEF FlushOnce
    <3>2. ~AtRest(c, s, p)
      BY SMTT(30), <1>2, <2>5 DEF AtRest, Idle, Current
    <3> QED
      BY <2>1, <2>2, <2>5, <3>1, <3>2, SkippedTurn
  <2>6. CASE ~(c.index[r] > Len(Template[r])) /\ n # "text" /\ s[n] # "skipped"
    <3>1. d = ShowVariable(c, r, n, p)
      BY <1>2, <2>6, Zenon DEF FlushOnce
    <3>2. AtRest(c, s, p) => n \notin c.closed \cup p
      BY <1>2, <2>6 DEF AtRest, Idle, Current
    <3>3. c.index[r] <= Len(Template[r])
      BY <2>2, <2>6
    <3>4. c.active = r /\ n = Template[r][c.index[r]]
      OBVIOUS
    <3> HIDE DEF r, n
    <3>5. /\ Kept(d, s, p) /\ Same(c, d)
          /\ IF n \in c.closed \cup p THEN Weight(d) < Weight(c) ELSE AtRest(d, s, p)
      BY <2>1, <2>6, <3>1, <3>3, <3>4, VariableTurn
    <3> QED
      BY ONLY <3>2, <3>5
  <2> QED
    BY <2>3, <2>4, <2>5, <2>6
<1> QED
  BY <1>1, <1>2

\* A flush weighs less than the turns it may take.
LEMMA WeightBound ==
  ASSUME NEW c, NEW s, NEW p, Kept(c, s, p)
  PROVE  /\ FlushTurns(c) \in Nat /\ Weight(c) \in Nat /\ Weight(c) < FlushTurns(c)
<1> DEFINE l == Len(c.waiting)
           K == SessionTurns
<1>1. l \in Nat /\ K \in Nat /\ K > 0
  BY CoordinatorFields, Constants DEF Kept, SessionTurns
<1>2. l * K \in Nat /\ (l + 1) * K = l * K + K
  <2>1. \A x, y \in Nat : x * y \in Nat /\ (x + 1) * y = x * y + y
    OBVIOUS
  <2> HIDE DEF l, K
  <2> QED
    BY ONLY <1>1, <2>1
<1> DEFINE x == l * K
<1>3. x \in Nat /\ FlushTurns(c) = x + K
  BY <1>2 DEF FlushTurns
<1>4. CASE c.active = None
  <2>1. Weight(c) = 0
    BY <1>4 DEF Weight
  <2> HIDE DEF x, K
  <2> QED
    BY <1>1, <1>3, <2>1
<1>5. CASE c.active # None
  <2>1. c.active \in Response
    BY <1>5, CoordinatorFields DEF Kept
  <2>2. c.index[c.active] \in Nat \ {0} /\ c.index[c.active] < K
    <3>1. c.index[c.active] \in Nat \ {0} /\ c.index[c.active] <= Len(Template[c.active]) + 1
      BY <2>1, CoordinatorFields DEF Kept, SessionsInv
    <3>2. Len(Template[c.active]) \in 0..MaxSegments /\ MaxSegments \in Nat
      BY <2>1, Constants
    <3> QED
      BY <3>1, <3>2 DEF SessionTurns
  <2>3. Weight(c) = x + (K - c.index[c.active])
    BY <1>5 DEF Weight
  <2> HIDE DEF x, K
  <2> QED
    BY <1>1, <1>3, <2>2, <2>3
<1> QED
  BY <1>4, <1>5

\* A flush keeps the invariant, and leaves nothing to flush.
LEMMA Flush ==
  ASSUME NEW c, NEW s, NEW p, Kept(c, s, p), NEW d, d = TryFlush(c, s, p)
  PROVE  Kept(d, s, p) /\ Same(c, d) /\ AtRest(d, s, p)
<1> DEFINE N == FlushTurns(c)
           Y == {x \in Coordinator : Kept(x, s, p) /\ Same(c, x)}
           step == [z \in Y \X (1..N) |-> FlushOnce(z[1], s, p)]
           Eq(f) == f = [k \in 0..N |-> IF k = 0 THEN c ELSE FlushOnce(f[k - 1], s, p)]
           after == CHOOSE f : Eq(f)
<1>1. N \in Nat /\ Weight(c) \in Nat /\ Weight(c) < N
  BY WeightBound
<1>2. \A x \in Y : FlushOnce(x, s, p) \in Y
  <2> SUFFICES ASSUME NEW x \in Y PROVE FlushOnce(x, s, p) \in Y
    OBVIOUS
  <2>1. Kept(FlushOnce(x, s, p), s, p) /\ Same(x, FlushOnce(x, s, p))
    BY Turn
  <2> QED
    BY <2>1 DEF Same, Kept
<1>3. c \in Y
  BY DEF Kept, Same
<1> HIDE DEF N, Y
<1>4. step \in [Y \X (1..N) -> Y]
  BY <1>2
<1>5. PICK g \in [0..N -> Y] : g[0] = c /\ \A i \in 1..N : g[i] = FlushOnce(g[i - 1], s, p)
  <2>1. \A y \in Y : \A i \in 1..N : step[<<y, i>>] = FlushOnce(y, s, p)
    OBVIOUS
  <2> HIDE DEF step
  <2>2. CountingBody(Y, c, N, step)
    BY <1>1, <1>3, <1>4 DEF CountingBody
  <2>3. PICK g : CountingLoop(g, Y, c, N, step)
    BY <2>2, CountingLoopExists
  <2>4. /\ g \in [0..N -> Y] /\ g[0] = c
        /\ \A i \in 1..N : g[i] = step[<<g[i - 1], i>>]
    BY <2>3 DEF CountingLoop
  <2>5. \A i \in 1..N : g[i - 1] \in Y
    BY <1>1, <2>4
  <2> QED
    BY ZenonT(40), <2>1, <2>4, <2>5
<1>6. Eq(g)
  <2>1. \A k \in 0..N : g[k] = IF k = 0 THEN c ELSE FlushOnce(g[k - 1], s, p)
    BY <1>1, <1>5
  <2> QED
    BY <1>5, <2>1
<1>7. Eq(after)
  <2> HIDE DEF Eq
  <2> QED
    BY <1>6
<1>8. d = after[N]
  BY DEF TryFlush, N
<1> HIDE DEF after
<1>9. after[0] = c /\ \A k \in Nat : k + 1 \in 0..N => after[k + 1] = FlushOnce(after[k], s, p)
  BY <1>1, <1>7
<1> DEFINE P == {k \in Nat : k \in 0..N =>
                   /\ after[k] \in Y
                   /\ AtRest(after[k], s, p) \/ Weight(after[k]) + k <= Weight(c)}
<1>10. 0 \in P
  BY <1>1, <1>3, <1>9
<1>11. ASSUME NEW k \in Nat, k \in P PROVE k + 1 \in P
  <2> SUFFICES ASSUME k + 1 \in 0..N
               PROVE  /\ after[k + 1] \in Y
                      /\ \/ AtRest(after[k + 1], s, p)
                         \/ Weight(after[k + 1]) + (k + 1) <= Weight(c)
    OBVIOUS
  <2>1. /\ after[k] \in Y
        /\ AtRest(after[k], s, p) \/ Weight(after[k]) + k <= Weight(c)
    BY <1>1, <1>11
  <2>2. after[k + 1] = FlushOnce(after[k], s, p) /\ after[k + 1] \in Y
    BY <1>2, <1>9, <2>1
  <2>3. /\ Weight(after[k + 1]) < Weight(after[k]) \/ AtRest(after[k + 1], s, p)
        /\ AtRest(after[k], s, p) => AtRest(after[k + 1], s, p)
    BY <2>1, <2>2, Turn DEF Y
  <2>4. Weight(after[k]) \in Nat /\ Weight(after[k + 1]) \in Nat
    BY <2>1, <2>2, WeightBound DEF Y
  <2> QED
    BY <1>1, <2>1, <2>2, <2>3, <2>4
<1>12. Nat \subseteq P
  <2> HIDE DEF P
  <2> QED
    BY <1>10, <1>11, SetInduction
<1>13. d \in Y /\ (AtRest(d, s, p) \/ Weight(d) + N <= Weight(c))
  BY <1>1, <1>8, <1>12
<1>14. Weight(d) \in Nat
  BY <1>13, WeightBound DEF Y
<1> QED
  BY <1>1, <1>13, <1>14 DEF Y

-----------------------------------------------------------------------------
(* The report of taken edges.                                              *)

Decided(s, n) == s[n] \in {"done", "skipped"}

\* The session of a response that has run waits for no source that still may
\* finish, and for none whose value is there.
Stuck(c, s, p) ==
  c.active # None /\ s[c.active] = "done" /\ Decided(s, Current(c)) =>
    s[Current(c)] = "done" /\ Current(c) \notin p

\* What is kept of a coordinator from c to d.
Keeps(c, d, s, p) ==
  /\ Kept(d, s, p)
  /\ Idle(c) => Idle(d)
  /\ Stuck(c, s, p) => Stuck(d, s, p)

\* A session that begins is active at once, and shows what it can, or queues.
LEMMA Begins ==
  ASSUME NEW c, NEW s, NEW p, Kept(c, s, p), NEW r \in Response,
         NEW d, d = ActivateOrQueue(c, r, s, p)
  PROVE  Keeps(c, d, s, p) /\ d.paths = c.paths /\ d.pending = c.pending \ {r}
<1>1. CASE r \notin c.pending
  <2>1. d = c
    BY <1>1, Zenon DEF ActivateOrQueue
  <2> QED
    BY <1>1, <2>1 DEF Keeps
<1>2. CASE r \in c.pending
  <2> DEFINE x == [c EXCEPT !.pending = c.pending \ {r}]
  <2>1. /\ c \in Coordinator /\ SessionsInv(c) /\ ShownInv(c) /\ Complete(c, s, p)
        /\ c.waiting \in Seq(Response) /\ r # None /\ c.pending \subseteq Response
    BY CoordinatorFields, Constants DEF Kept
  <2>2. /\ x \in Coordinator /\ x.pending = c.pending \ {r} /\ x.paths = c.paths
        /\ x.active = c.active /\ x.waiting = c.waiting /\ x.index = c.index
        /\ x.chunks = c.chunks /\ x.position = c.position /\ x.closed = c.closed
        /\ x.shown = c.shown
    BY <2>1 DEF Coordinator
  <2>3. r \notin Range(c.waiting) /\ r # c.active /\ c.index[r] = 1
    BY <1>2, <2>1 DEF SessionsInv
  <2>4. \A i \in DOMAIN c.shown : c.shown[i].by # r
    BY <1>2, <2>1 DEF ShownInv
  <2>5. CASE c.active = None
    <3> DEFINE y == [x EXCEPT !.active = r]
    <3>1. d = TryFlush(y, s, p)
      BY <1>2, <2>5, Zenon DEF ActivateOrQueue
    <3>2. /\ y \in Coordinator /\ y.pending = c.pending \ {r} /\ y.paths = c.paths
          /\ y.active = r /\ y.waiting = c.waiting /\ y.index = c.index
          /\ y.chunks = c.chunks /\ y.position = c.position /\ y.closed = c.closed
          /\ y.shown = c.shown
      BY <2>2 DEF Coordinator
    <3> HIDE DEF x, y
    <3>3. c.waiting = <<>> /\ Range(c.waiting) = {}
      BY <2>1, <2>5 DEF SessionsInv, Range
    <3>4. SessionsInv(y)
      <4>1. y.pending \cup Range(y.waiting) = c.pending \ {r} /\ y.pending \cap Range(y.waiting) = {}
        BY <3>2, <3>3
      <4>2. \A i, j \in DOMAIN y.waiting : y.waiting[i] = y.waiting[j] => i = j
        BY <2>1, <3>2 DEF SessionsInv
      <4>3. \A q \in Response \ {r} : IF q \in y.pending \cup Range(y.waiting) THEN y.index[q] = 1
                                      ELSE y.index[q] > Len(Template[q])
        <5>1. \A q \in Response \ {None} :
                IF q \in c.pending \cup Range(c.waiting) THEN c.index[q] = 1
                ELSE c.index[q] > Len(Template[q])
          BY <2>1, <2>5 DEF SessionsInv
        <5> QED
          BY <3>2, <3>3, <4>1, <5>1, Constants
      <4>4. \A q \in Response : y.index[q] <= Len(Template[q]) + 1
        BY <2>1, <3>2 DEF SessionsInv
      <4> QED
        BY <2>1, <3>2, <4>1, <4>2, <4>3, <4>4 DEF SessionsInv
    <3>5. ShownInv(y)
      <4>1. y.pending \cup Range(y.waiting) \subseteq c.pending \cup Range(c.waiting)
        BY <3>2
      <4> QED
        BY <2>1, <2>4, <3>2, <4>1, ShownStays
    <3>6. Complete(y, s, p)
      BY <2>1, <3>2 DEF Complete
    <3>7. Kept(d, s, p) /\ Same(y, d) /\ AtRest(d, s, p)
      <4>1. Kept(y, s, p)
        BY <3>2, <3>4, <3>5, <3>6 DEF Kept
      <4> QED
        BY <3>1, <4>1, Flush
    <3>8. Idle(d) /\ Stuck(d, s, p)
      BY <3>7 DEF AtRest, Stuck, Decided
    <3> QED
      BY <3>2, <3>7, <3>8 DEF Keeps, Same
  <2>6. CASE c.active # None
    <3> DEFINE w == Append(c.waiting, r)
    <3>1. d = [x EXCEPT !.waiting = w]
      <4>1. d = [x EXCEPT !.waiting = Append(@, r)]
        BY <1>2, <2>6, Zenon DEF ActivateOrQueue
      <4> HIDE DEF x
      <4>2. DOMAIN x = {"paths", "pending", "active", "waiting", "index", "chunks", "position",
                        "closed", "shown"}
        BY <2>2 DEF Coordinator
      <4> QED
        BY <2>2, <4>1, <4>2
    <3>2. /\ w \in Seq(Response) /\ Len(w) = Len(c.waiting) + 1 /\ Len(c.waiting) \in Nat
          /\ \A i \in 1..Len(c.waiting) : w[i] = c.waiting[i]
          /\ w[Len(c.waiting) + 1] = r
      BY <2>1, AppendProperties
    <3> HIDE DEF w, x
    <3>3. /\ d \in Coordinator /\ d.pending = c.pending \ {r} /\ d.paths = c.paths
          /\ d.active = c.active /\ d.waiting = w /\ d.index = c.index
          /\ d.chunks = c.chunks /\ d.position = c.position /\ d.closed = c.closed
          /\ d.shown = c.shown
      BY <2>2, <3>1, <3>2 DEF Coordinator
    <3>4. Range(w) = Range(c.waiting) \cup {r}
      <4>1. DOMAIN w = 1..(Len(c.waiting) + 1) /\ DOMAIN c.waiting = 1..Len(c.waiting)
        BY <2>1, <3>2
      <4> QED
        BY <3>2, <4>1 DEF Range
    <3>5. ASSUME NEW i \in DOMAIN w, NEW j \in DOMAIN w, w[i] = w[j] PROVE i = j
      <4>1. /\ i \in 1..Len(c.waiting) \/ i = Len(c.waiting) + 1
            /\ j \in 1..Len(c.waiting) \/ j = Len(c.waiting) + 1
            /\ DOMAIN c.waiting = 1..Len(c.waiting)
        BY <2>1, <3>2
      <4>2. \A k \in 1..Len(c.waiting) : c.waiting[k] # r
        BY <2>3, <4>1 DEF Range
      <4> QED
        BY <2>1, <3>2, <3>5, <4>1, <4>2 DEF SessionsInv
    <3>6. SessionsInv(d)
      <4>1. d.pending \cup Range(d.waiting) = c.pending \cup Range(c.waiting)
        BY <1>2, <3>3, <3>4
      <4>2. d.pending \cap Range(d.waiting) = {}
        BY <2>1, <3>3, <3>4 DEF SessionsInv
      <4>3. \A i, j \in DOMAIN d.waiting : d.waiting[i] = d.waiting[j] => i = j
        BY <3>3, <3>5
      <4> QED
        BY <2>1, <2>6, <3>3, <4>1, <4>2, <4>3 DEF SessionsInv
    <3>7. ShownInv(d)
      <4>1. d.pending \cup Range(d.waiting) = c.pending \cup Range(c.waiting)
        BY <1>2, <3>3, <3>4
      <4> QED
        BY <2>1, <3>3, <4>1, ShownStays
    <3>8. Complete(d, s, p)
      BY <2>1, <3>3 DEF Complete
    <3>9. Current(d) = Current(c)
      BY <3>3 DEF Current
    <3>10. (Idle(c) => Idle(d)) /\ (Stuck(c, s, p) => Stuck(d, s, p))
      BY <2>6, <3>3, <3>9 DEF Idle, Stuck
    <3> QED
      BY <3>3, <3>6, <3>7, <3>8, <3>10 DEF Keeps, Kept
  <2> QED
    BY <2>5, <2>6
<1> QED
  BY <1>1, <1>2

\* Of the paths of r, e is removed; its session begins if one is taken as a whole.
Visited(c, d, e, r, s, p) ==
  /\ Keeps(c, d, s, p)
  /\ d.paths = [c.paths EXCEPT ![r] = {q \ {e} : q \in c.paths[r]}]
  /\ d.pending = IF {} \in d.paths[r] THEN c.pending \ {r} ELSE c.pending

LEMMA VisitFacts ==
  ASSUME NEW c, NEW s, NEW p, Kept(c, s, p), NEW r \in Response, NEW e,
         NEW d, d = Visit(c, e, r, s, p)
  PROVE  Visited(c, d, e, r, s, p)
<1> DEFINE removed == {q \ {e} : q \in c.paths[r]}
           P == [c.paths EXCEPT ![r] = removed]
           x == [c EXCEPT !.paths = P]
<1>1. /\ c \in Coordinator /\ SessionsInv(c) /\ ShownInv(c) /\ Complete(c, s, p)
      /\ c.paths \in [Response -> SUBSET SUBSET Links]
  BY CoordinatorFields DEF Kept
<1>2. d = IF {} \in removed THEN ActivateOrQueue(x, r, s, p) ELSE x
  <2>1. DOMAIN c = {"paths", "pending", "active", "waiting", "index", "chunks", "position",
                    "closed", "shown"}
    BY <1>1 DEF Coordinator
  <2> QED
    BY <2>1, Zenon DEF Visit
<1>3. removed \in SUBSET SUBSET Links
  BY <1>1
<1>4. P \in [Response -> SUBSET SUBSET Links] /\ P[r] = removed
  <2> HIDE DEF removed
  <2> QED
    BY <1>1, <1>3
<1> HIDE DEF P
<1>5. /\ x \in Coordinator /\ x.paths = P /\ x.pending = c.pending
      /\ x.active = c.active /\ x.waiting = c.waiting /\ x.index = c.index
      /\ x.chunks = c.chunks /\ x.position = c.position /\ x.closed = c.closed
      /\ x.shown = c.shown
  BY <1>1, <1>4 DEF Coordinator
<1> HIDE DEF x, removed
<1>6. Kept(x, s, p)
  <2>1. ShownInv(x)
    BY <1>1, <1>5, ShownStays
  <2>2. SessionsInv(x)
    BY <1>1, <1>5 DEF SessionsInv
  <2>3. Complete(x, s, p)
    BY <1>1, <1>5 DEF Complete
  <2> QED
    BY <1>5, <2>1, <2>2, <2>3 DEF Kept
<1>7. Current(x) = Current(c)
  BY <1>5 DEF Current
<1>8. /\ Idle(c) => Idle(x)
      /\ Stuck(c, s, p) => Stuck(x, s, p)
  BY <1>5, <1>7 DEF Idle, Stuck
<1>9. CASE {} \in removed
  <2>1. d = ActivateOrQueue(x, r, s, p)
    BY <1>2, <1>9
  <2>2. Keeps(x, d, s, p) /\ d.paths = P /\ d.pending = c.pending \ {r}
    BY <1>5, <1>6, <2>1, Begins
  <2> QED
    BY <1>4, <1>8, <1>9, <2>2 DEF Visited, Keeps, P, removed
<1>10. CASE {} \notin removed
  <2>1. d = x
    BY <1>2, <1>10
  <2> QED
    BY <1>4, <1>5, <1>6, <1>8, <1>10, <2>1 DEF Visited, Keeps, P, removed
<1> QED
  BY <1>9, <1>10

\* Every member of a finite set is in each of its orders, once.
LEMMA Orders ==
  ASSUME NEW S, IsFiniteSet(S), NEW o \in SetToSeqs(S)
  PROVE  /\ o \in Seq(S) /\ Len(o) \in Nat /\ DOMAIN o = 1..Len(o)
         /\ \A i, j \in 1..Len(o) : i # j => o[i] # o[j]
         /\ \A x \in S : \E i \in 1..Len(o) : o[i] = x
<1> DEFINE D == 1..Cardinality(S)
<1>1. Cardinality(S) \in Nat
  BY FS_CardinalityType
<1>2. o \in [D -> S] /\ \A i, j \in D : i # j => o[i] # o[j]
  BY DEF SetToSeqs
<1>3. o \in Seq(S) /\ Len(o) = Cardinality(S)
  BY <1>1, <1>2
<1>4. o \in Injection(D, S)
  BY <1>2 DEF Injection, IsInjective
<1>5. Cardinality(D) = Cardinality(S)
  BY <1>1, FS_Interval
<1>6. o \in Surjection(D, S)
  <2> HIDE DEF D
  <2> QED
    BY <1>4, <1>5, FS_Injection
<1> QED
  BY <1>1, <1>2, <1>3, <1>6 DEF Surjection

\* What the reports of the edges E do to the paths and to the sessions that begin.
Reported(c, d, E, s, p) ==
  /\ Keeps(c, d, s, p)
  /\ \A r \in Response :
       /\ d.paths[r] = {q \ E : q \in c.paths[r]}
       /\ r \in d.pending => r \in c.pending
       /\ r \notin d.pending => r \notin c.pending \/ {} \in d.paths[r]
       /\ r \in d.pending /\ E # {} => {} \notin d.paths[r]

\* One taken edge, reported to every response.
LEMMA EdgeReport ==
  ASSUME NEW c, NEW s, NEW p, Kept(c, s, p), NEW e, NEW os \in SetToSeqs(Response),
         NEW d, d = OnEdgeTaken(c, e, os, s, p)
  PROVE  Reported(c, d, {e}, s, p)
<1> DEFINE N == Len(os)
           Y == {x \in Coordinator : Kept(x, s, p)}
           step == [z \in Y \X (1..N) |-> Visit(z[1], e, os[z[2]], s, p)]
           Eq(f) == f = [k \in 0..N |-> IF k = 0 THEN c ELSE Visit(f[k - 1], e, os[k], s, p)]
           visited == CHOOSE f : Eq(f)
<1>1. IsFiniteSet(Response)
  <2>1. IsFiniteSet(Nodes) /\ Response \subseteq Nodes
    BY StreamAssumption, Constants
  <2> QED
    BY <2>1, FS_Subset
<1>2. /\ os \in Seq(Response) /\ N \in Nat
      /\ \A i, j \in 1..N : i # j => os[i] # os[j]
      /\ \A r \in Response : \E i \in 1..N : os[i] = r
      /\ \A i \in 1..N : os[i] \in Response
  BY <1>1, Orders
<1>3. \A x \in Y : \A i \in 1..N : Visit(x, e, os[i], s, p) \in Y
  <2> SUFFICES ASSUME NEW x \in Y, NEW i \in 1..N PROVE Visit(x, e, os[i], s, p) \in Y
    OBVIOUS
  <2>1. Visited(x, Visit(x, e, os[i], s, p), e, os[i], s, p)
    BY <1>2, VisitFacts
  <2> QED
    BY <2>1 DEF Visited, Keeps, Kept
<1>4. c \in Y
  BY DEF Kept
<1>5. d = visited[N]
  BY DEF OnEdgeTaken
<1> HIDE DEF N, Y
<1>6. \E g : Eq(g)
  <2>1. step \in [Y \X (1..N) -> Y]
    BY <1>3
  <2>2. \A y \in Y : \A i \in 1..N : step[<<y, i>>] = Visit(y, e, os[i], s, p)
    OBVIOUS
  <2> HIDE DEF step
  <2>3. CountingBody(Y, c, N, step)
    BY <1>2, <1>4, <2>1 DEF CountingBody, N
  <2>4. PICK g : CountingLoop(g, Y, c, N, step)
    BY <2>3, CountingLoopExists
  <2>5. /\ g \in [0..N -> Y] /\ g[0] = c
        /\ \A i \in 1..N : g[i] = step[<<g[i - 1], i>>]
    BY <2>4 DEF CountingLoop
  <2>6. N \in Nat
    BY <1>2
  <2>7. \A i \in 1..N : g[i - 1] \in Y
    BY <2>5, <2>6
  <2>8. \A k \in 0..N : g[k] = IF k = 0 THEN c ELSE Visit(g[k - 1], e, os[k], s, p)
    <3> SUFFICES ASSUME NEW k \in 0..N PROVE g[k] = IF k = 0 THEN c ELSE Visit(g[k - 1], e, os[k], s, p)
      OBVIOUS
    <3>1. CASE k = 0
      BY <2>5, <3>1
    <3>2. CASE k # 0
      <4>1. k \in 1..N
        BY <2>6, <3>2
      <4> QED
        BY <2>2, <2>5, <2>7, <3>2, <4>1
    <3> QED
      BY <3>1, <3>2
  <2>9. Eq(g)
    BY <2>5, <2>8
  <2> QED
    BY <2>9
<1>7. Eq(visited)
  <2> HIDE DEF Eq
  <2> QED
    BY <1>6
<1> HIDE DEF visited
<1>8. N \in Nat
  BY <1>2
<1>9. visited[0] = c
      /\ \A k \in Nat : k + 1 \in 0..N => visited[k + 1] = Visit(visited[k], e, os[k + 1], s, p)
  BY <1>7, <1>8
<1> DEFINE Removed(r) == {q \ {e} : q \in c.paths[r]}
           Seen(x, r) == /\ x.paths[r] = Removed(r)
                         /\ r \in x.pending <=> r \in c.pending /\ {} \notin Removed(r)
           Unseen(x, r) == x.paths[r] = c.paths[r] /\ (r \in x.pending <=> r \in c.pending)
           P == {k \in Nat : k \in 0..N =>
                   /\ Keeps(c, visited[k], s, p)
                   /\ \A j \in 1..N : IF j <= k THEN Seen(visited[k], os[j])
                                      ELSE Unseen(visited[k], os[j])}
<1>10. 0 \in P
  <2>1. Keeps(c, visited[0], s, p) /\ \A j \in 1..N : Unseen(visited[0], os[j])
    BY <1>9 DEF Keeps
  <2> HIDE DEF Seen, Unseen
  <2> QED
    BY <1>8, <2>1
<1> HIDE DEF Seen, Unseen
<1>11. ASSUME NEW k \in Nat, k \in P PROVE k + 1 \in P
  <2> SUFFICES ASSUME k + 1 \in 0..N
               PROVE  /\ Keeps(c, visited[k + 1], s, p)
                      /\ \A j \in 1..N : IF j <= k + 1 THEN Seen(visited[k + 1], os[j])
                                         ELSE Unseen(visited[k + 1], os[j])
    OBVIOUS
  <2> DEFINE x == visited[k]
             y == visited[k + 1]
             r == os[k + 1]
  <2>1. /\ Keeps(c, x, s, p) /\ k + 1 \in 1..N
        /\ \A j \in 1..N : IF j <= k THEN Seen(x, os[j]) ELSE Unseen(x, os[j])
    BY <1>8, <1>11
  <2>2. r \in Response /\ Unseen(x, r)
    BY <1>2, <1>8, <2>1
  <2>3. y = Visit(x, e, r, s, p)
    BY <1>9
  <2> HIDE DEF y, x, r
  <2>4. Visited(x, y, e, r, s, p)
    BY <2>1, <2>2, <2>3, VisitFacts DEF Keeps
  <2>5. x.paths \in [Response -> SUBSET SUBSET Links]
    BY <2>1, CoordinatorFields DEF Keeps, Kept
  <2>6. /\ Keeps(c, y, s, p)
        /\ y.paths[r] = Removed(r)
        /\ \A q \in Response : q # r => y.paths[q] = x.paths[q] /\ (q \in y.pending <=> q \in x.pending)
        /\ r \in y.pending <=> r \in c.pending /\ {} \notin Removed(r)
    <3>1. Keeps(c, y, s, p)
      BY <2>1, <2>4 DEF Visited, Keeps
    <3>2. y.paths[r] = Removed(r)
      BY <2>2, <2>4, <2>5 DEF Visited, Unseen
    <3>3. \A q \in Response : q # r => y.paths[q] = x.paths[q] /\ (q \in y.pending <=> q \in x.pending)
      BY <2>4, <2>5 DEF Visited
    <3>4. r \in y.pending <=> r \in c.pending /\ {} \notin Removed(r)
      BY <2>2, <2>4, <3>2 DEF Visited, Unseen
    <3> QED
      BY <3>1, <3>2, <3>3, <3>4
  <2> HIDE DEF Removed
  <2>7. ASSUME NEW j \in 1..N
        PROVE  IF j <= k + 1 THEN Seen(y, os[j]) ELSE Unseen(y, os[j])
    <3>1. CASE j = k + 1
      BY <2>6, <3>1 DEF r, Seen
    <3>2. CASE j # k + 1
      <4>1. os[j] \in Response /\ os[j] # r
        BY <1>2, <2>1, <3>2 DEF r
      <4>2. j <= k + 1 <=> j <= k
        BY <1>8, <3>2
      <4> QED
        BY <2>1, <2>6, <4>1, <4>2 DEF Seen, Unseen
    <3> QED
      BY <3>1, <3>2
  <2> QED
    BY <2>6, <2>7 DEF y
<1>12. Nat \subseteq P
  <2> HIDE DEF P
  <2> QED
    BY <1>10, <1>11, SetInduction
<1>13. /\ Keeps(c, d, s, p)
       /\ \A j \in 1..N : Seen(d, os[j])
  BY <1>5, <1>8, <1>12
<1>14. \A r \in Response : Seen(d, r)
  BY <1>2, <1>13
<1> QED
  BY <1>13, <1>14 DEF Reported, Seen

\* Nothing reported, and some edges more.
LEMMA NoReport ==
  ASSUME NEW c, NEW s, NEW p, Kept(c, s, p)
  PROVE  Reported(c, c, {}, s, p)
<1>1. ASSUME NEW r \in Response PROVE c.paths[r] = {q \ {} : q \in c.paths[r]}
  OBVIOUS
<1> QED
  BY <1>1 DEF Reported, Keeps

LEMMA ReportsGoOn ==
  ASSUME NEW c, NEW d, NEW x, NEW E, NEW F, NEW G, NEW s, NEW p,
         F # {}, G = E \cup F, Reported(c, d, E, s, p), Reported(d, x, F, s, p)
  PROVE  Reported(c, x, G, s, p)
<1>1. Keeps(c, x, s, p)
  BY DEF Reported, Keeps
<1>2. ASSUME NEW r \in Response
      PROVE  /\ x.paths[r] = {q \ G : q \in c.paths[r]}
             /\ r \in x.pending => r \in c.pending
             /\ r \notin x.pending => r \notin c.pending \/ {} \in x.paths[r]
             /\ r \in x.pending => {} \notin x.paths[r]
  <2>1. /\ d.paths[r] = {q \ E : q \in c.paths[r]}
        /\ x.paths[r] = {q \ F : q \in d.paths[r]}
        /\ r \in d.pending => r \in c.pending
        /\ r \in x.pending => r \in d.pending
        /\ r \notin d.pending => r \notin c.pending \/ {} \in d.paths[r]
        /\ r \notin x.pending => r \notin d.pending \/ {} \in x.paths[r]
        /\ r \in x.pending => {} \notin x.paths[r]
    BY DEF Reported
  <2>2. \A q \in c.paths[r] : (q \ E) \ F = q \ G
    OBVIOUS
  <2>3. x.paths[r] = {q \ G : q \in c.paths[r]}
    <3>1. ASSUME NEW y \in x.paths[r] PROVE y \in {q \ G : q \in c.paths[r]}
      <4>1. PICK z \in d.paths[r] : y = z \ F
        BY <2>1
      <4>2. PICK q \in c.paths[r] : z = q \ E
        BY <2>1
      <4> QED
        BY <2>2, <4>1, <4>2
    <3>2. ASSUME NEW q \in c.paths[r] PROVE q \ G \in x.paths[r]
      <4>1. q \ E \in d.paths[r]
        BY <2>1
      <4>2. (q \ E) \ F \in x.paths[r]
        BY <2>1, <4>1
      <4> QED
        BY <2>2, <4>2
    <3> QED
      BY <3>1, <3>2
  <2>4. {} \in d.paths[r] => {} \in x.paths[r]
    <3>1. {} \ F = {}
      OBVIOUS
    <3> QED
      BY <2>1, <3>1
  <2> QED
    BY <2>1, <2>3, <2>4
<1> QED
  BY <1>1, <1>2 DEF Reported

\* All the edges a result takes, reported one after the other.
LEMMA EdgesReport ==
  ASSUME NEW c, NEW s, NEW p, Kept(c, s, p), NEW os \in SetToSeqs(Response),
         NEW E, IsFiniteSet(E), NEW es \in SetToSeqs(E),
         NEW d, d = OnEdgesTaken(c, es, os, s, p)
  PROVE  Reported(c, d, E, s, p)
<1> DEFINE N == Len(es)
           Y == {x \in Coordinator : Kept(x, s, p)}
           step == [z \in Y \X (1..N) |-> OnEdgeTaken(z[1], es[z[2]], os, s, p)]
           Eq(f) == f = [k \in 0..N |-> IF k = 0 THEN c ELSE OnEdgeTaken(f[k - 1], es[k], os, s, p)]
           reported == CHOOSE f : Eq(f)
<1>2. /\ N \in Nat /\ \A x \in E : \E i \in 1..N : es[i] = x
      /\ \A i \in 1..N : es[i] \in E
  BY Orders
<1>3. \A x \in Y : \A i \in 1..N : OnEdgeTaken(x, es[i], os, s, p) \in Y
  <2> SUFFICES ASSUME NEW x \in Y, NEW i \in 1..N PROVE OnEdgeTaken(x, es[i], os, s, p) \in Y
    OBVIOUS
  <2>1. Reported(x, OnEdgeTaken(x, es[i], os, s, p), {es[i]}, s, p)
    BY EdgeReport
  <2> QED
    BY <2>1 DEF Reported, Keeps, Kept
<1>4. c \in Y
  BY DEF Kept
<1>5. d = reported[N]
  BY DEF OnEdgesTaken
<1> HIDE DEF N, Y
<1>6. \E g : Eq(g)
  <2>1. step \in [Y \X (1..N) -> Y]
    BY <1>3
  <2>2. \A y \in Y : \A i \in 1..N : step[<<y, i>>] = OnEdgeTaken(y, es[i], os, s, p)
    OBVIOUS
  <2> HIDE DEF step
  <2>3. CountingBody(Y, c, N, step)
    BY <1>2, <1>4, <2>1 DEF CountingBody
  <2>4. PICK g : CountingLoop(g, Y, c, N, step)
    BY <2>3, CountingLoopExists
  <2>5. /\ g \in [0..N -> Y] /\ g[0] = c
        /\ \A i \in 1..N : g[i] = step[<<g[i - 1], i>>]
    BY <2>4 DEF CountingLoop
  <2>6. N \in Nat
    BY <1>2
  <2>7. \A i \in 1..N : g[i - 1] \in Y
    BY <2>5, <2>6
  <2>8. \A k \in 0..N : g[k] = IF k = 0 THEN c ELSE OnEdgeTaken(g[k - 1], es[k], os, s, p)
    <3> SUFFICES ASSUME NEW k \in 0..N
                 PROVE  g[k] = IF k = 0 THEN c ELSE OnEdgeTaken(g[k - 1], es[k], os, s, p)
      OBVIOUS
    <3>1. CASE k = 0
      BY <2>5, <3>1
    <3>2. CASE k # 0
      <4>1. k \in 1..N
        BY <2>6, <3>2
      <4> QED
        BY <2>2, <2>5, <2>7, <3>2, <4>1
    <3> QED
      BY <3>1, <3>2
  <2>9. Eq(g)
    BY <2>5, <2>8
  <2> QED
    BY <2>9
<1>7. Eq(reported)
  <2> HIDE DEF Eq
  <2> QED
    BY <1>6
<1> HIDE DEF reported
<1>8. N \in Nat
  BY <1>2
<1>9. reported[0] = c
      /\ \A k \in Nat : k + 1 \in 0..N => reported[k + 1] = OnEdgeTaken(reported[k], es[k + 1], os, s, p)
  BY <1>7, <1>8
<1> DEFINE First(k) == {es[j] : j \in 1..k}
           P == {k \in Nat : k \in 0..N => Reported(c, reported[k], First(k), s, p)}
<1>10. 0 \in P
  <2>1. First(0) = {}
    OBVIOUS
  <2> HIDE DEF First
  <2> QED
    BY <1>9, <2>1, NoReport
<1>11. ASSUME NEW k \in Nat, k \in P PROVE k + 1 \in P
  <2> SUFFICES ASSUME k + 1 \in 0..N PROVE Reported(c, reported[k + 1], First(k + 1), s, p)
    BY DEF P
  <2>1. First(k + 1) = First(k) \cup {es[k + 1]}
    <3>1. 1..(k + 1) = (1..k) \cup {k + 1}
      OBVIOUS
    <3> QED
      BY <3>1
  <2> HIDE DEF First
  <2>2. Reported(c, reported[k], First(k), s, p)
    BY <1>8, <1>11
  <2>3. Kept(reported[k], s, p)
    BY <2>2 DEF Reported, Keeps
  <2>4. Reported(reported[k], reported[k + 1], {es[k + 1]}, s, p)
    BY <1>9, <2>3, EdgeReport
  <2> DEFINE F == {es[k + 1]}
             G == First(k + 1)
             x == reported[k + 1]
  <2>5. F # {} /\ G = First(k) \cup F /\ Reported(reported[k], x, F, s, p)
    BY <2>1, <2>4
  <2> HIDE DEF F, G, x
  <2>6. Reported(c, x, G, s, p)
    BY <2>2, <2>5, ReportsGoOn
  <2> QED
    BY <2>6 DEF x, G
<1>12. Nat \subseteq P
  <2> HIDE DEF P
  <2> QED
    BY <1>10, <1>11, SetInduction
<1>13. First(N) = E
  BY <1>2
<1> HIDE DEF First
<1> QED
  BY <1>5, <1>8, <1>12, <1>13

-----------------------------------------------------------------------------
(* The steps.                                                              *)

\* The inductive invariant: that a session begins for a node that will run
\* follows from it where the graphs have no cycle.
Steady ==
  /\ TypeOK /\ Kept(coord, status, pool) /\ Idle(coord)
  /\ GraphInv /\ PathsInv(coord, graph, Taken)

\* What a result of n does to the graph.
LEMMA RouteStep ==
  ASSUME TypeOK, GraphInv, NEW n \in Nodes, Runs(n), NEW h \in Handles,
         graph' = graph,
         status' = Route(graph, status, chosen, n, h).status,
         chosen' = Route(graph, status, chosen, n, h).chosen
  PROVE  /\ status' \in [Nodes -> {"waiting", "done", "skipped"}]
         /\ chosen' \in [Nodes -> Handles \cup {NoHandle}]
         /\ GraphInv'
         /\ Taken' = Taken \cup {e \in graph : e.tail = n /\ Selects(n, h, e)}
         /\ status'[n] = "done"
         /\ \A m \in Nodes \ {n} : \/ status'[m] = status[m]
                                   \/ status[m] = "waiting" /\ status'[m] = "skipped"
<1> DEFINE Status == {"waiting", "done", "skipped"}
           r == Route(graph, status, chosen, n, h)
<1>1. graph \subseteq Links /\ graph \in Graphs
  BY StreamAssumption DEF TypeOK, Statuses
<1>2. Routed(Status, graph, status, chosen, n, h, r)
  BY <1>1, RouteFacts DEF TypeOK, Statuses
<1>3. status' = r.status /\ chosen' = r.chosen
  OBVIOUS
<1> HIDE DEF r
<1>4. /\ status' \in [Nodes -> Status]
      /\ chosen' \in [Nodes -> Handles \cup {NoHandle}]
      /\ status'[n] = "done"
      /\ \A m \in Nodes : chosen'[m] = IF m = n THEN h ELSE chosen[m]
      /\ \A m \in Nodes \ {n} :
           \/ status'[m] = status[m]
           \/ /\ status[m] = "waiting" /\ status'[m] = "skipped" /\ Into(graph, m) # {}
              /\ \A e \in Into(graph, m) : IsDead(e, status', chosen')
      /\ \A m \in Nodes : status'[m] = "waiting" /\ Into(graph, m) # {} =>
                            \E e \in Into(graph, m) : ~IsDead(e, status', chosen')
  BY <1>2, <1>3 DEF Routed
<1>5. \A e \in graph : e.tail \in Nodes /\ e.head # Root
  BY <1>1, GraphAssumption
<1>6. status[n] = "waiting"
  BY DEF Runs
<1>7. ASSUME NEW e \in graph
      PROVE  /\ IsLive(e, status, chosen) => IsLive(e, status', chosen')
             /\ IsDead(e, status, chosen) => IsDead(e, status', chosen')
             /\ IsDecided(e, status, chosen) => IsDecided(e, status', chosen')
  <2>1. status[e.tail] \in {"done", "skipped"} =>
          status'[e.tail] = status[e.tail] /\ chosen'[e.tail] = chosen[e.tail]
    BY <1>4, <1>5, <1>6
  <2> QED
    BY <2>1, SameMarks
<1>8. \A m \in Nodes : IsFed(graph, m, status, chosen) => IsFed(graph, m, status', chosen')
  BY <1>7 DEF IsFed, Into
<1>9. ASSUME NEW m \in Nodes
      PROVE  /\ status'[m] = "done" => m = Root \/ IsFed(graph, m, status', chosen')
             /\ status'[m] = "skipped" => m # Root /\ \A e \in Into(graph, m) : IsDead(e, status', chosen')
  <2>1. CASE m = n
    BY <1>4, <1>8, <2>1 DEF Runs
  <2>2. CASE m # n /\ status'[m] = status[m]
    BY <1>7, <1>8, <2>2 DEF GraphInv, Explained, Into
  <2>3. CASE m # n /\ status'[m] # status[m]
    <3>1. /\ status'[m] = "skipped" /\ Into(graph, m) # {}
          /\ \A e \in Into(graph, m) : IsDead(e, status', chosen')
      BY <1>4, <2>3
    <3>2. m # Root
      BY <1>5, <3>1 DEF Into
    <3> QED
      BY <3>1, <3>2
  <2> QED
    BY <2>1, <2>2, <2>3
<1>10. GraphInv'
  BY <1>4, <1>9 DEF GraphInv, Explained
<1>11. ASSUME NEW e \in graph
       PROVE  IsLive(e, status', chosen') <=>
                IsLive(e, status, chosen) \/ (e.tail = n /\ Selects(n, h, e))
  <2>1. CASE e.tail = n
    BY <1>4, <1>6, <2>1 DEF IsLive
  <2>2. CASE e.tail # n
    BY <1>4, <1>5, <1>7, <2>2 DEF IsLive
  <2> QED
    BY <2>1, <2>2
<1>12. Taken' = Taken \cup {e \in graph : e.tail = n /\ Selects(n, h, e)}
  <2>1. Taken' = {e \in graph : IsLive(e, status', chosen')}
    BY DEF Taken
  <2> QED
    BY <1>11, <2>1 DEF Taken
<1> QED
  BY <1>4, <1>10, <1>12

\* A source that was skipped stays so: what is complete stays complete.
LEMMA KeptByStatus ==
  ASSUME NEW c, NEW s, NEW t, NEW p, Kept(c, s, p),
         \A n \in Nodes : s[n] = "skipped" => t[n] = "skipped"
  PROVE  Kept(c, t, p)
<1>1. ASSUME NEW r \in Response, NEW i \in 1..(c.index[r] - 1), Template[r][i] # "text"
      PROVE  Template[r][i] \in Nodes
  <2>1. c.index[r] \in Nat /\ c.index[r] <= Len(Template[r]) + 1
    BY CoordinatorFields DEF Kept, SessionsInv
  <2>2. i \in 1..Len(Template[r])
    BY <2>1, Constants
  <2> QED
    BY <1>1, <2>2, Constants
<1>2. Complete(c, t, p)
  <2> SUFFICES ASSUME NEW r \in Response, NEW i \in 1..(c.index[r] - 1), NEW n, n = Template[r][i],
                      n # "text", t[n] # "skipped"
               PROVE  n \in p \/ (n \in c.closed /\ c.position[n] = c.chunks[n])
    BY DEF Complete
  <2>1. s[n] # "skipped"
    BY <1>1
  <2> QED
    BY <2>1 DEF Kept, Complete
<1> QED
  BY <1>2 DEF Kept

\* What follows a result keeps the invariant.
LEMMA FollowStep ==
  ASSUME Steady, NEW n \in Nodes, Runs(n), NEW h \in Handles,
         NEW c, Kept(c, status, pool'), Idle(c), c.paths = coord.paths, c.pending = coord.pending,
         Follow(n, h, c), pool' \subseteq Nodes, UNCHANGED <<graph, order, restores>>
  PROVE  Steady' /\ (Stuck(c, status', pool') => Stuck(coord', status', pool'))
<1> DEFINE E == {e \in graph : e.tail = n /\ Selects(n, h, e)}
<1>1. /\ status' = Route(graph, status, chosen, n, h).status
      /\ chosen' = Route(graph, status, chosen, n, h).chosen
      /\ \E es \in SetToSeqs(E) : coord' = OnEdgesTaken(c, es, order, status', pool')
  BY DEF Follow
<1>2. TypeOK /\ GraphInv /\ graph' = graph /\ order \in SetToSeqs(Response) /\ graph \in Graphs
  BY DEF Steady, TypeOK, Statuses
<1>3. /\ status' \in [Nodes -> {"waiting", "done", "skipped"}]
      /\ chosen' \in [Nodes -> Handles \cup {NoHandle}]
      /\ GraphInv' /\ Taken' = Taken \cup E
      /\ \A m \in Nodes \ {n} : \/ status'[m] = status[m]
                                \/ status[m] = "waiting" /\ status'[m] = "skipped"
  BY <1>1, <1>2, RouteStep
<1>4. IsFiniteSet(E)
  <2>1. E \subseteq Links
    BY <1>2, StreamAssumption
  <2> QED
    BY <2>1, StreamAssumption, FS_Subset
<1> HIDE DEF E
<1>5. Kept(c, status', pool')
  <2>1. \A m \in Nodes : status[m] = "skipped" => status'[m] = "skipped"
    BY <1>3 DEF Runs
  <2> QED
    BY <2>1, KeptByStatus
<1>6. Reported(c, coord', E, status', pool')
  BY <1>1, <1>2, <1>4, <1>5, EdgesReport
<1>7. /\ Kept(coord', status', pool') /\ Idle(coord')
      /\ Stuck(c, status', pool') => Stuck(coord', status', pool')
  BY <1>6 DEF Reported, Keeps
<1>8. PathsInv(coord', graph, Taken')
  <2> SUFFICES ASSUME NEW r \in Response
               PROVE  /\ coord'.paths[r] = {q \ Taken' : q \in BlockingPaths[graph][r]}
                      /\ r \notin coord'.pending => {} \in coord'.paths[r]
                      /\ r \in coord'.pending /\ Taken' # {} => {} \notin coord'.paths[r]
    BY DEF PathsInv
  <2>1. /\ coord.paths[r] = {q \ Taken : q \in BlockingPaths[graph][r]}
        /\ r \notin coord.pending => {} \in coord.paths[r]
        /\ r \in coord.pending /\ Taken # {} => {} \notin coord.paths[r]
    BY DEF Steady, PathsInv
  <2>2. /\ coord'.paths[r] = {q \ E : q \in coord.paths[r]}
        /\ r \in coord'.pending => r \in coord.pending
        /\ r \notin coord'.pending => r \notin coord.pending \/ {} \in coord'.paths[r]
        /\ r \in coord'.pending /\ E # {} => {} \notin coord'.paths[r]
    BY <1>6 DEF Reported
  <2> DEFINE B == BlockingPaths[graph][r]
  <2> HIDE DEF B
  <2>3. coord'.paths[r] = {q \ Taken' : q \in B}
    <3>1. \A q \in B : (q \ Taken) \ E = q \ Taken'
      BY <1>3
    <3>2. ASSUME NEW y \in coord'.paths[r] PROVE y \in {q \ Taken' : q \in B}
      <4>1. PICK z \in coord.paths[r] : y = z \ E
        BY <2>2
      <4>2. PICK q \in B : z = q \ Taken
        BY <2>1 DEF B
      <4> QED
        BY <3>1, <4>1, <4>2
    <3>3. ASSUME NEW q \in B PROVE q \ Taken' \in coord'.paths[r]
      <4>1. q \ Taken \in coord.paths[r]
        BY <2>1 DEF B
      <4>2. (q \ Taken) \ E \in coord'.paths[r]
        BY <2>2, <4>1
      <4> QED
        BY <3>1, <4>2
    <3> QED
      BY <3>2, <3>3
  <2>4. {} \in coord.paths[r] => {} \in coord'.paths[r]
    <3>1. {} \ E = {}
      OBVIOUS
    <3> QED
      BY <2>2, <3>1
  <2>5. r \in coord'.pending /\ Taken' # {} => {} \notin coord'.paths[r]
    <3>1. CASE E = {}
      <4>1. Taken' = Taken
        BY <1>3, <3>1
      <4> QED
        BY <2>1, <2>2, <2>3, <4>1 DEF B
    <3> QED
      BY <2>2, <3>1
  <2> QED
    BY <2>1, <2>2, <2>3, <2>4, <2>5 DEF B
<1>9. TypeOK'
  BY <1>2, <1>3, <1>7 DEF TypeOK, Statuses, Kept
<1> QED
  BY <1>2, <1>3, <1>7, <1>8, <1>9 DEF Steady

LEMMA InitSteady == Init => Steady
<1> SUFFICES ASSUME Init PROVE Steady
  OBVIOUS
<1> DEFINE c == coord
<1>1. graph \in Graphs /\ graph \subseteq Links
  BY StreamAssumption DEF Init
<1>2. BlockingPaths[graph] \in [Response -> SUBSET SUBSET Links]
  <2>1. BlockingPaths[graph] = [r \in Response |-> {{e \in p : IsBlocking(e, r)} : p \in CompletePaths(graph, r)}]
    BY <1>1 DEF BlockingPaths
  <2>2. \A r \in Response : \A p \in CompletePaths(graph, r) : p \subseteq Links
    BY <1>1 DEF CompletePaths
  <2> QED
    BY <2>1, <2>2
<1>3. /\ c \in [paths : [Response -> SUBSET SUBSET Links],
                pending : SUBSET Response, active : Response \cup {None}, waiting : Seq(Response),
                index : [Response -> Nat \ {0}], chunks : [Nodes -> Nat], position : [Nodes -> Nat],
                closed : SUBSET Nodes, shown : Seq(Pieces)]
      /\ c.paths = BlockingPaths[graph] /\ c.pending = Response /\ c.active = None
      /\ c.waiting = <<>> /\ c.index = [r \in Response |-> 1] /\ c.shown = <<>>
      /\ c.position = [m \in Nodes |-> 0] /\ c.chunks = [m \in Nodes |-> 0]
  BY <1>2 DEF Init, Registered
<1> HIDE DEF c
<1>4. c \in Coordinator
  BY <1>3 DEF Coordinator
<1>5. DOMAIN c.waiting = {} /\ DOMAIN c.shown = {} /\ Range(c.waiting) = {}
  BY <1>3 DEF Range
<1>6. SessionsInv(c)
  BY <1>3, <1>5, Constants DEF SessionsInv
<1>7. ShownInv(c)
  BY <1>5 DEF ShownInv, InOrder
<1>8. Complete(c, status, pool)
  BY <1>3 DEF Complete
<1>9. Idle(c)
  BY <1>3 DEF Idle
<1>10. GraphInv /\ Taken = {}
  <2>1. \A e \in graph : e.tail \in Nodes
    BY <1>1, GraphAssumption
  <2>2. \A n \in Nodes : status[n] = "waiting"
    BY DEF Init
  <2> QED
    BY <2>1, <2>2 DEF GraphInv, Explained, Taken, IsLive, IsDead, Into
<1>11. PathsInv(c, graph, Taken)
  <2>1. \A r \in Response : c.paths[r] = {q \ Taken : q \in BlockingPaths[graph][r]}
    BY <1>3, <1>10
  <2> QED
    BY <1>3, <1>10, <2>1 DEF PathsInv
<1>12. TypeOK
  BY <1>4, StreamAssumption DEF Init, TypeOK, Statuses, c
<1> QED
  BY <1>4, <1>6, <1>7, <1>8, <1>9, <1>10, <1>11, <1>12 DEF Steady, Kept, c

LEMMA ChunkStep ==
  ASSUME Steady, NEW n \in Nodes, Chunk(n)
  PROVE  Steady' /\ AtRest(coord', status, pool)
<1> PICK final \in BOOLEAN :
      coord' = TryFlush([coord EXCEPT !.chunks[n] = @ + 1,
                                      !.closed = IF final THEN @ \cup {n} ELSE @], status, pool)
  BY Zenon DEF Chunk
<1> DEFINE K == [coord.chunks EXCEPT ![n] = coord.chunks[n] + 1]
           C == IF final THEN coord.closed \cup {n} ELSE coord.closed
           c == [coord EXCEPT !.chunks = K, !.closed = C]
<1>1. /\ coord \in Coordinator /\ SessionsInv(coord) /\ ShownInv(coord)
      /\ Complete(coord, status, pool) /\ n \notin coord.closed
      /\ coord.chunks \in [Nodes -> Nat] /\ coord.position \in [Nodes -> Nat]
      /\ coord.closed \subseteq Nodes
      /\ \A m \in Nodes : coord.position[m] <= coord.chunks[m]
  BY CoordinatorFields DEF Steady, Kept, Chunk
<1>2. coord' = TryFlush(c, status, pool)
  <2>1. DOMAIN coord = {"paths", "pending", "active", "waiting", "index", "chunks", "position",
                        "closed", "shown"}
    BY <1>1 DEF Coordinator
  <2>2. c = [coord EXCEPT !.chunks[n] = @ + 1, !.closed = IF final THEN @ \cup {n} ELSE @]
    BY <2>1, Zenon
  <2> QED
    BY <2>2
<1>3. /\ K \in [Nodes -> Nat] /\ C \subseteq Nodes /\ coord.closed \subseteq C
      /\ \A m \in Nodes : coord.position[m] <= K[m]
      /\ \A m \in Nodes : m # n => K[m] = coord.chunks[m]
  <2>1. K \in [Nodes -> Nat] /\ \A m \in Nodes : K[m] = IF m = n THEN coord.chunks[m] + 1 ELSE coord.chunks[m]
    BY <1>1
  <2>2. C \subseteq Nodes /\ coord.closed \subseteq C
    BY <1>1
  <2> HIDE DEF K, C
  <2> QED
    BY <1>1, <2>1, <2>2
<1> HIDE DEF K, C
<1>4. /\ c \in Coordinator /\ c.paths = coord.paths /\ c.pending = coord.pending
      /\ c.active = coord.active /\ c.waiting = coord.waiting /\ c.index = coord.index
      /\ c.chunks = K /\ c.position = coord.position /\ c.closed = C
      /\ c.shown = coord.shown
  BY <1>1, <1>3 DEF Coordinator
<1> HIDE DEF c
<1>5. Complete(c, status, pool)
  BY SMTT(30), <1>1, <1>3, <1>4 DEF Complete
<1>6. Kept(c, status, pool)
  BY ONLY <1>1, <1>4, <1>5 DEF Kept, SessionsInv, ShownInv
<1>7. Kept(coord', status, pool) /\ Same(c, coord') /\ AtRest(coord', status, pool)
  BY <1>2, <1>6, Flush
<1>8. UNCHANGED <<graph, status, chosen, pool, order, restores>>
  BY DEF Chunk
<1>9. /\ coord'.paths = coord.paths /\ coord'.pending = coord.pending
      /\ coord' \in Coordinator /\ Idle(coord')
  BY <1>4, <1>7 DEF Same, AtRest, Kept
<1>10. TypeOK' /\ GraphInv' /\ Taken' = Taken
  <2>1. TypeOK /\ GraphInv
    BY DEF Steady
  <2> QED
    BY <1>8, <1>9, <2>1 DEF TypeOK, Statuses, GraphInv, Explained, Runs, Taken
<1>11. PathsInv(coord', graph', Taken')
  BY <1>8, <1>9, <1>10 DEF Steady, PathsInv
<1> QED
  BY <1>7, <1>8, <1>9, <1>10, <1>11 DEF Steady

LEMMA KeptByPool ==
  ASSUME NEW c, NEW s, NEW p, NEW q, Kept(c, s, p), p \subseteq q
  PROVE  Kept(c, s, q)
BY DEF Kept, Complete

LEMMA SucceedStep ==
  ASSUME Steady, NEW n \in Nodes, Succeed(n)
  PROVE  /\ Steady'
         /\ \E c : /\ Kept(c, status, pool') /\ AtRest(c, status, pool')
                   /\ (Stuck(c, status', pool') => Stuck(coord', status', pool'))
<1>1. PICK h \in SuccessHandles(n) : Follow(n, h, TryFlush(coord, status, pool'))
  BY DEF Succeed
<1>2. h \in Handles
  BY StreamAssumption DEF SuccessHandles
<1>3. pool' = pool \cup {n} /\ Runs(n) /\ UNCHANGED <<graph, order, restores>>
  BY DEF Succeed
<1>4. pool' \subseteq Nodes /\ pool \subseteq pool'
  BY <1>3 DEF Steady, TypeOK, Statuses
<1> DEFINE c == TryFlush(coord, status, pool')
<1>5. Kept(coord, status, pool')
  BY <1>4, KeptByPool DEF Steady
<1>6. Kept(c, status, pool') /\ Same(coord, c) /\ AtRest(c, status, pool')
  BY <1>5, Flush
<1> HIDE DEF c
<1>7. Idle(c) /\ c.paths = coord.paths /\ c.pending = coord.pending
  BY <1>6 DEF AtRest, Same
<1>8. Follow(n, h, c)
  BY <1>1 DEF c
<1>9. Steady' /\ (Stuck(c, status', pool') => Stuck(coord', status', pool'))
  BY <1>2, <1>3, <1>4, <1>6, <1>7, <1>8, FollowStep
<1> QED
  BY <1>6, <1>9

LEMMA ExceptStep ==
  ASSUME Steady, NEW n \in Nodes, Except(n)
  PROVE  /\ Steady'
         /\ Stuck(coord, status', pool') => Stuck(coord', status', pool')
<1>1. /\ pool' \in {pool, pool \cup {n}} /\ Runs(n) /\ Follow(n, FailHandle, coord)
      /\ UNCHANGED <<graph, order, restores>>
  BY DEF Except
<1>2. pool' \subseteq Nodes /\ pool \subseteq pool'
  BY <1>1 DEF Steady, TypeOK, Statuses
<1>3. Kept(coord, status, pool') /\ Idle(coord)
  BY <1>2, KeptByPool DEF Steady
<1>4. FailHandle \in Handles
  BY StreamAssumption
<1> QED
  BY <1>1, <1>2, <1>3, <1>4, FollowStep

LEMMA RestoreStep ==
  ASSUME Steady, Restore
  PROVE  Steady'
<1>1. UNCHANGED <<graph, status, chosen, pool, coord>> /\ order' \in SetToSeqs(Response)
      /\ restores' \in 0..MaxRestores
  BY StreamAssumption DEF Restore, Steady, TypeOK, Statuses
<1>2. TypeOK' /\ GraphInv' /\ Taken' = Taken
  BY <1>1 DEF Steady, TypeOK, Statuses, GraphInv, Explained, Taken
<1> QED
  BY <1>1, <1>2 DEF Steady

LEMMA NextSteady == Steady /\ [Next]_vars => Steady'
<1> SUFFICES ASSUME Steady, [Next]_vars PROVE Steady'
  OBVIOUS
<1>1. ASSUME NEW n \in Nodes, Chunk(n) PROVE Steady'
  BY <1>1, ChunkStep
<1>2. ASSUME NEW n \in Nodes, Succeed(n) PROVE Steady'
  BY <1>2, SucceedStep
<1>3. ASSUME NEW n \in Nodes, Except(n) PROVE Steady'
  BY <1>3, ExceptStep
<1>4. CASE Restore
  BY <1>4, RestoreStep
<1>5. CASE UNCHANGED vars
  <2>1. UNCHANGED <<graph, status, chosen, pool, order, coord, restores>>
    BY <1>5 DEF vars
  <2> QED
    BY <2>1 DEF Steady, TypeOK, Statuses, GraphInv, Explained, Taken
<1> QED
  BY <1>1, <1>2, <1>3, <1>4, <1>5 DEF Next

-----------------------------------------------------------------------------
(* What follows from the invariant.                                        *)

\* Between two events of the dispatcher the coordinator is at rest and agrees with the graph:
\* the inductive invariant, in any graph.
THEOREM SteadyHolds == Spec => []Steady
BY InitSteady, NextSteady, PTL DEF Spec

\* Responses do not mix, and of each the segments and chunks are shown in order, each once.
THEOREM AnswersInOrder == Spec => []ShownInOrder
<1>1. Steady => ShownInOrder
  BY DEF Steady, Kept, ShownInv, ShownInOrder
<1> QED
  BY <1>1, SteadyHolds, PTL

\* Between two events everything that can be shown is shown.
THEOREM NoneHeldBack == Spec => []NothingHeldBack
<1>1. Steady => NothingHeldBack
  BY DEF Steady, NothingHeldBack
<1> QED
  BY <1>1, SteadyHolds, PTL

\* On a path of which the blocking edges are taken no node is skipped: the first would have
\* a dead input on it, and what does not block only dies with its tail.
LEMMA PathIsReached ==
  ASSUME TypeOK, GraphInv, IsAcyclic(graph), NEW r \in Response,
         NEW p \in CompletePaths(graph, r), \A e \in p : IsBlocking(e, r) => e \in Taken
  PROVE  status[r] # "skipped"
<1> SUFFICES ASSUME status[r] = "skipped" PROVE FALSE
  OBVIOUS
<1> DEFINE tails == {e.tail : e \in p}
           heads == {e.head : e \in p}
           K == {m \in heads : status[m] = "skipped"}
<1>1. /\ p \subseteq graph /\ graph \subseteq Links
      /\ r \in heads /\ tails \ {Root} = heads \ {r}
  BY StreamAssumption DEF CompletePaths, TypeOK, Statuses
<1>2. \A e \in p : e.tail \in Nodes /\ e.head \in Nodes
  BY <1>1, GraphAssumption
<1>3. K \subseteq Nodes /\ r \in K
  BY <1>1, <1>2
<1>4. PICK m \in K : \A e \in Into(graph, m) : e.tail \notin K
  BY <1>3 DEF IsAcyclic
<1>5. PICK e \in p : e.head = m
  BY <1>4
<1>6. e \in Into(graph, m) /\ e.tail \notin K
  BY <1>1, <1>4, <1>5 DEF Into
<1>7. IsDead(e, status, chosen)
  BY <1>2, <1>4, <1>5, <1>6 DEF GraphInv, Explained
<1>8. ~IsBlocking(e, r)
  <2>1. ~IsLive(e, status, chosen)
    BY <1>7, LiveOrDead
  <2> QED
    BY <2>1 DEF Taken
<1>9. e.tail \notin Branches
  BY <1>8 DEF IsBlocking
<1>10. status[e.tail] = "skipped"
  BY <1>7, <1>9 DEF IsDead, Selects
<1>11. e.tail # Root
  BY <1>2, <1>10 DEF GraphInv, Explained
<1>12. e.tail \in heads
  <2>1. e.tail \in tails \ {Root}
    BY <1>11
  <2> HIDE DEF tails, heads
  <2> QED
    BY <1>1, <2>1
<1> QED
  BY <1>6, <1>10, <1>12

LEMMA SteadyIsInv ==
  ASSUME Steady, IsAcyclic(graph)
  PROVE  Inv
<1>1. TypeOK /\ GraphInv /\ graph \in Graphs
  BY DEF Steady, TypeOK, Statuses
<1>2. ASSUME NEW r \in Begun PROVE status[r] # "skipped"
  <2>1. r \in Response /\ r \notin coord.pending
    BY <1>2 DEF Begun
  <2>2. {} \in {q \ Taken : q \in BlockingPaths[graph][r]}
    BY <2>1 DEF Steady, PathsInv
  <2>3. BlockingPaths[graph][r] = {{e \in p : IsBlocking(e, r)} : p \in CompletePaths(graph, r)}
    BY <1>1, <2>1 DEF BlockingPaths
  <2>4. PICK q \in BlockingPaths[graph][r] : q \ Taken = {}
    BY <2>2
  <2>5. PICK p \in CompletePaths(graph, r) : q = {e \in p : IsBlocking(e, r)}
    BY <2>3
  <2>6. \A e \in p : IsBlocking(e, r) => e \in Taken
    BY <2>4, <2>5
  <2> QED
    BY <1>1, <2>1, <2>6, PathIsReached
<1> QED
  BY <1>2 DEF Steady, Kept, Inv, PassedIsComplete, BegunIsReached

\* The coordinator is consistent at every moment, a segment is passed only when it is
\* complete, and in a graph without cycles no session begins for a node that is skipped.
THEOREM Invariance ==
  ASSUME \A g \in Graphs : IsAcyclic(g)
  PROVE  Spec => []Inv
<1>1. Steady => Inv
  BY SteadyIsInv DEF Steady, TypeOK, Statuses
<1> QED
  BY <1>1, SteadyHolds, PTL

-----------------------------------------------------------------------------
(* What has been shown at the end.                                         *)

\* A run is over when every node is decided: the first of the others would run.
LEMMA AllDecided ==
  ASSUME TypeOK, GraphInv, IsRooted(graph), IsOver, NEW m \in Nodes
  PROVE  Decided(status, m)
<1> DEFINE W == {n \in Nodes : ~Decided(status, n)}
<1> SUFFICES ASSUME W # {} PROVE FALSE
  OBVIOUS
<1>1. graph \subseteq Links /\ \A e \in graph : e.tail \in Nodes
  BY StreamAssumption, GraphAssumption DEF TypeOK, Statuses
<1>2. PICK n \in W : \A e \in Into(graph, n) : e.tail \notin W
  BY DEF IsRooted, IsAcyclic
<1>3. n \in Nodes /\ status[n] = "waiting"
  BY DEF TypeOK, Statuses, Decided
<1>4. n # Root
  BY <1>3 DEF IsOver, Runs
<1>5. Into(graph, n) # {}
  BY <1>3, <1>4 DEF IsRooted
<1>6. \A e \in Into(graph, n) : IsDecided(e, status, chosen)
  <2>1. \A e \in Into(graph, n) : Decided(status, e.tail)
    BY <1>1, <1>2 DEF Into
  <2> QED
    BY <2>1, LiveOrDead DEF Decided
<1>7. \E e \in Into(graph, n) : IsLive(e, status, chosen)
  <2>1. \E e \in Into(graph, n) : ~IsDead(e, status, chosen)
    BY <1>3, <1>5 DEF GraphInv, Explained
  <2> QED
    BY <1>6, <2>1 DEF IsDecided
<1> QED
  BY <1>3, <1>6, <1>7 DEF IsOver, Runs, IsFed

\* A node that has run lies at the end of a path of taken edges: among the nodes for which
\* this is known to hold, with the path among them, all are.
LEMMA PathIsTaken ==
  ASSUME TypeOK, GraphInv, IsAcyclic(graph), NEW n \in Nodes \ {Root}, status[n] = "done"
  PROVE  \E p \in CompletePaths(graph, n) : p \subseteq Taken
<1> DEFINE Ends(p) == {e.tail : e \in p} \cup {e.head : e \in p}
           Good(G) == \A m \in G \ {Root} : status[m] = "done" =>
                        \E p \in CompletePaths(graph, m) : p \subseteq Taken /\ Ends(p) \subseteq G
           M == UNION {G \in SUBSET Nodes : Good(G)}
<1>1. graph \subseteq Links /\ \A e \in graph : e.tail \in Nodes /\ e.head \in Nodes /\ e.head # Root
  BY StreamAssumption, GraphAssumption DEF TypeOK, Statuses
<1>2. M \subseteq Nodes
  OBVIOUS
<1>3. \A G \in SUBSET Nodes : Good(G) => G \subseteq M
  OBVIOUS
<1>4. Good(M)
  <2> SUFFICES ASSUME NEW m \in M \ {Root}, status[m] = "done"
               PROVE  \E p \in CompletePaths(graph, m) : p \subseteq Taken /\ Ends(p) \subseteq M
    OBVIOUS
  <2>1. PICK G \in SUBSET Nodes : m \in G /\ Good(G)
    OBVIOUS
  <2>2. G \subseteq M
    BY <1>3, <2>1
  <2> HIDE DEF M, Ends
  <2>3. PICK p \in CompletePaths(graph, m) : p \subseteq Taken /\ Ends(p) \subseteq G
    BY <2>1
  <2> QED
    BY <2>2, <2>3
<1> HIDE DEF M
<1>5. ASSUME NEW m \in Nodes \ M, \A e \in Into(graph, m) : e.tail \in M
      PROVE  FALSE
  <2> DEFINE G == M \cup {m}
  <2>1. ~Good(G)
    <3>1. G \in SUBSET Nodes /\ ~(G \subseteq M)
      BY <1>2, <1>5
    <3> HIDE DEF G, Good
    <3> QED
      BY <1>3, <3>1
  <2>2. ASSUME NEW k \in M \ {Root}, status[k] = "done"
        PROVE  \E p \in CompletePaths(graph, k) : p \subseteq Taken /\ Ends(p) \subseteq G
    <3> HIDE DEF Ends
    <3>1. PICK p \in CompletePaths(graph, k) : p \subseteq Taken /\ Ends(p) \subseteq M
      BY <1>4, <2>2
    <3> QED
      BY <3>1
  <2>3. ASSUME m # Root, status[m] = "done"
        PROVE  \E p \in CompletePaths(graph, m) : p \subseteq Taken /\ Ends(p) \subseteq G
    <3>1. PICK e \in Into(graph, m) : IsLive(e, status, chosen)
      BY <2>3 DEF GraphInv, Explained, IsFed
    <3>2. e \in graph /\ e.head = m /\ e.tail \in M /\ status[e.tail] = "done" /\ e \in Taken
      BY <1>5, <3>1 DEF Into, IsLive, Taken
    <3>3. CASE e.tail = Root
      <4> DEFINE p == {e}
                 tails == {f.tail : f \in p}
                 heads == {f.head : f \in p}
      <4>1. tails = {Root} /\ heads = {m}
        BY <3>2, <3>3
      <4>2. p \subseteq graph /\ p \subseteq Taken
        BY <3>2
      <4>3. OneEach(p, LAMBDA f : f.tail) /\ OneEach(p, LAMBDA f : f.head)
        BY DEF OneEach
      <4> HIDE DEF p
      <4>4. p \in CompletePaths(graph, m)
        <5>1. Root \in tails \ heads /\ m \in heads \ tails /\ tails \ {Root} = heads \ {m}
          BY <2>3, <4>1
        <5> QED
          BY <4>2, <4>3, <5>1 DEF CompletePaths
      <4>5. Ends(p) \subseteq G
        BY <3>2, <3>3, <4>1
      <4> QED
        BY <4>2, <4>4, <4>5
    <3>4. CASE e.tail # Root
      <4>1. PICK q \in CompletePaths(graph, e.tail) : q \subseteq Taken /\ Ends(q) \subseteq M
        BY <1>4, <3>2, <3>4
      <4> DEFINE p == q \cup {e}
                 tails == {f.tail : f \in p}
                 heads == {f.head : f \in p}
                 T == {f.tail : f \in q}
                 H == {f.head : f \in q}
      <4>2. /\ q \subseteq graph /\ OneEach(q, LAMBDA f : f.tail) /\ OneEach(q, LAMBDA f : f.head)
            /\ Root \in T \ H /\ e.tail \in H \ T /\ T \ {Root} = H \ {e.tail}
        BY <4>1 DEF CompletePaths
      <4>3. tails = T \cup {e.tail} /\ heads = H \cup {m}
        BY <3>2
      <4>4. m \notin T /\ m \notin H
        BY <1>5, <4>1
      <4>5. p \subseteq graph /\ p \subseteq Taken
        BY <3>2, <4>1, <4>2
      <4>6. OneEach(p, LAMBDA f : f.tail)
        <5>1. \A f \in q : f.tail # e.tail
          BY <4>2
        <5> QED
          BY <4>2, <5>1 DEF OneEach
      <4>7. OneEach(p, LAMBDA f : f.head)
        <5>1. \A f \in q : f.head # e.head
          BY <3>2, <4>4
        <5> QED
          BY <4>2, <5>1 DEF OneEach
      <4>8. Root \in tails \ heads /\ m \in heads \ tails /\ tails \ {Root} = heads \ {m}
        <5>1. m # e.tail /\ m # Root
          BY <1>5, <2>3, <3>2
        <5> HIDE DEF tails, heads, T, H
        <5> QED
          BY <3>4, <4>2, <4>3, <4>4, <5>1
      <4>9. Ends(p) \subseteq G
        <5>1. T \subseteq M /\ H \subseteq M
          BY <4>1
        <5> HIDE DEF T, H
        <5> QED
          BY <3>2, <4>3, <5>1
      <4> HIDE DEF p
      <4>10. p \in CompletePaths(graph, m)
        BY <4>5, <4>6, <4>7, <4>8 DEF CompletePaths
      <4> QED
        BY <4>5, <4>9, <4>10
    <3> QED
      BY <3>3, <3>4
  <2>4. Good(G)
    <3> HIDE DEF Ends
    <3> QED
      BY <2>2, <2>3
  <2> QED
    BY <2>1, <2>4
<1>6. Nodes \ M = {}
  <2> SUFFICES ASSUME Nodes \ M # {} PROVE FALSE
    OBVIOUS
  <2>1. PICK m \in Nodes \ M : \A e \in Into(graph, m) : e.tail \notin Nodes \ M
    BY DEF IsAcyclic
  <2>2. \A e \in Into(graph, m) : e.tail \in M
    BY <1>1, <2>1 DEF Into
  <2> QED
    BY <1>5, <2>2
<1> HIDE DEF Ends
<1>7. n \in M \ {Root}
  BY <1>6
<1> QED
  BY <1>4, <1>7

\* When an answer node may run, the sources of its template have, or were skipped.
SourcesAreBefore ==
  \A r \in Response : IsFed(graph, r, status, chosen) =>
    \A i \in 1..Len(Template[r]) : Template[r][i] # "text" => Decided(status, Template[r][i])

\* The handles of other nodes than branches do not matter.
LEMMA SourcesBefore ==
  ASSUME TypeOK, GraphInv, SourcesPrecede(graph)
  PROVE  SourcesAreBefore
<1> DEFINE h == [n \in Branches |-> chosen[n]]
<1>1. h \in [Branches -> Handles \cup {NoHandle}] /\ \A n \in Branches : h[n] = chosen[n]
  BY GraphAssumption DEF TypeOK
<1> HIDE DEF h
<1>2. \A e : /\ IsLive(e, status, h) <=> IsLive(e, status, chosen)
             /\ IsDead(e, status, h) <=> IsDead(e, status, chosen)
  BY <1>1 DEF IsLive, IsDead, Selects
<1>3. \A n : IsFed(graph, n, status, h) <=> IsFed(graph, n, status, chosen)
  BY <1>2 DEF IsFed, IsDecided
<1>4. Explained(graph, status, h)
  BY <1>2, <1>3 DEF GraphInv, Explained
<1>5. status \in [Nodes -> Statuses]
  BY DEF TypeOK
<1> QED
  BY <1>1, <1>3, <1>4, <1>5 DEF SourcesPrecede, SourcesAreBefore, Decided

\* A flush that is followed by the changes of a result leaves no response that has run
\* behind a source that has.
LEMMA AtRestIsStuck ==
  ASSUME Steady, SourcesAreBefore, NEW c, NEW p, Kept(c, status, p), AtRest(c, status, p),
         NEW t, NEW n \in Nodes, Runs(n),
         \A m \in Nodes \ {n} : t[m] = status[m] \/ (status[m] = "waiting" /\ t[m] = "skipped")
  PROVE  Stuck(c, t, p)
<1> SUFFICES ASSUME c.active # None, t[c.active] = "done", Decided(t, Current(c))
             PROVE  t[Current(c)] = "done" /\ Current(c) \notin p
  BY DEF Stuck
<1> DEFINE r == c.active
<1>1. /\ r \in Response /\ r \in Nodes /\ r # Root /\ c.index[r] \in Nat \ {0}
      /\ Len(Template[r]) \in Nat
  BY CoordinatorFields, Constants, StreamAssumption DEF Kept
<1>2. /\ c.index[r] <= Len(Template[r]) /\ Current(c) # "text"
      /\ Current(c) \notin p /\ status[Current(c)] # "skipped"
  BY DEF AtRest, Idle
<1>3. c.index[r] \in 1..Len(Template[r]) /\ Current(c) = Template[r][c.index[r]]
  BY <1>1, <1>2 DEF Current
<1>4. Current(c) \in Nodes
  BY <1>1, <1>2, <1>3, Constants
<1>5. IsFed(graph, r, status, chosen)
  <2>1. CASE r = n
    BY <1>1, <2>1 DEF Runs
  <2>2. CASE r # n
    <3>1. status[r] = "done"
      BY <1>1, <2>2
    <3> QED
      BY <1>1, <3>1 DEF Steady, GraphInv, Explained
  <2> QED
    BY <2>1, <2>2
<1>6. Decided(status, Current(c))
  BY <1>1, <1>2, <1>3, <1>5 DEF SourcesAreBefore
<1>7. status[Current(c)] = "done" /\ Current(c) # n
  BY <1>2, <1>6 DEF Decided, Runs
<1> QED
  BY <1>2, <1>4, <1>7

\* What a result of n changes in the statuses.
LEMMA FollowStatus ==
  ASSUME Steady, NEW n \in Nodes, Runs(n), NEW h \in Handles, NEW c, Follow(n, h, c), graph' = graph
  PROVE  \A m \in Nodes \ {n} : status'[m] = status[m] \/ (status[m] = "waiting" /\ status'[m] = "skipped")
<1>1. /\ status' = Route(graph, status, chosen, n, h).status
      /\ chosen' = Route(graph, status, chosen, n, h).chosen
  BY DEF Follow
<1> QED
  BY <1>1, RouteStep DEF Steady

LEMMA StuckStep ==
  ASSUME Steady, SourcesAreBefore, Stuck(coord, status, pool), [Next]_vars
  PROVE  Stuck(coord', status', pool')
<1>1. ASSUME NEW n \in Nodes, Chunk(n) PROVE Stuck(coord', status', pool')
  <2>1. AtRest(coord', status, pool) /\ status' = status /\ pool' = pool
    BY <1>1, ChunkStep DEF Chunk
  <2> QED
    BY <2>1 DEF AtRest, Stuck, Decided
<1>2. ASSUME NEW n \in Nodes, Succeed(n) PROVE Stuck(coord', status', pool')
  <2>1. PICK c : /\ Kept(c, status, pool') /\ AtRest(c, status, pool')
                 /\ Stuck(c, status', pool') => Stuck(coord', status', pool')
    BY <1>2, SucceedStep
  <2>2. PICK h \in SuccessHandles(n) : Follow(n, h, TryFlush(coord, status, pool'))
    BY <1>2 DEF Succeed
  <2>3. h \in Handles /\ Runs(n) /\ graph' = graph
    BY <1>2, StreamAssumption DEF SuccessHandles, Succeed
  <2>4. \A m \in Nodes \ {n} : status'[m] = status[m] \/ (status[m] = "waiting" /\ status'[m] = "skipped")
    BY <2>2, <2>3, FollowStatus
  <2> QED
    BY <2>1, <2>3, <2>4, AtRestIsStuck
<1>3. ASSUME NEW n \in Nodes, Except(n) PROVE Stuck(coord', status', pool')
  <2>1. /\ pool' \in {pool, pool \cup {n}} /\ Runs(n) /\ n \in Failing
        /\ Follow(n, FailHandle, coord) /\ graph' = graph
    BY <1>3 DEF Except
  <2>2. \A m \in Nodes \ {n} : status'[m] = status[m] \/ (status[m] = "waiting" /\ status'[m] = "skipped")
    BY <2>1, FollowStatus, StreamAssumption
  <2>3. Stuck(coord, status', pool')
    <3> SUFFICES ASSUME coord.active # None, status'[coord.active] = "done",
                        Decided(status', Current(coord))
                 PROVE  status'[Current(coord)] = "done" /\ Current(coord) \notin pool'
      BY DEF Stuck
    <3> DEFINE r == coord.active
    <3>1. /\ r \in Response /\ r \in Nodes /\ r # Root /\ r # n /\ coord.index[r] \in Nat \ {0}
          /\ Len(Template[r]) \in Nat
      BY SMTT(30), <2>1, CoordinatorFields, Constants, StreamAssumption DEF Steady, Kept
    <3>2. coord.index[r] \in 1..Len(Template[r]) /\ Current(coord) = Template[r][coord.index[r]]
          /\ Current(coord) # "text"
      BY SMTT(30), <3>1 DEF Steady, Idle, Current
    <3>3. status[r] = "done"
      BY <2>2, <3>1
    <3>4. IsFed(graph, r, status, chosen)
      BY <3>1, <3>3 DEF Steady, GraphInv, Explained
    <3>5. Decided(status, Current(coord)) /\ Current(coord) \in Nodes
      BY <3>1, <3>2, <3>4, Constants DEF SourcesAreBefore
    <3>6. status[Current(coord)] = "done" /\ Current(coord) \notin pool
      BY <3>3, <3>5 DEF Stuck
    <3>7. Current(coord) # n
      BY <2>1, <3>6 DEF Runs
    <3> QED
      BY <2>1, <2>2, <3>5, <3>6, <3>7
  <2> QED
    BY <1>3, <2>3, ExceptStep
<1>4. CASE Restore
  BY <1>4 DEF Restore, Stuck, Current, Decided
<1>5. CASE UNCHANGED vars
  BY <1>5 DEF vars, Stuck, Current, Decided
<1> QED
  BY <1>1, <1>2, <1>3, <1>4, <1>5 DEF Next

LEMMA StuckIsShown ==
  ASSUME Steady, SourcesAreBefore, Stuck(coord, status, pool), IsRooted(graph)
  PROVE  AllShown
<1> SUFFICES ASSUME IsOver, NEW r \in Response, status[r] = "done", ~(coord.index[r] > Len(Template[r]))
             PROVE  /\ coord.active # None
                    /\ status[Current(coord)] = "done" /\ Current(coord) \notin pool
  BY DEF AllShown
<1>1. /\ TypeOK /\ GraphInv /\ SessionsInv(coord) /\ coord \in Coordinator /\ graph \in Graphs
      /\ IsAcyclic(graph)
  BY DEF Steady, Kept, IsRooted, TypeOK, Statuses
<1>2. r \in Nodes \ {Root}
  BY Constants, StreamAssumption
<1>3. r \notin coord.pending
  <2>1. PICK p \in CompletePaths(graph, r) : p \subseteq Taken
    BY <1>1, <1>2, PathIsTaken
  <2>2. Taken # {}
    BY <2>1 DEF CompletePaths
  <2> DEFINE q == {e \in p : IsBlocking(e, r)}
  <2>3. q \in BlockingPaths[graph][r]
    BY <1>1 DEF BlockingPaths
  <2>4. q \ Taken = {}
    BY <2>1
  <2> HIDE DEF q
  <2>5. {} \in {x \ Taken : x \in BlockingPaths[graph][r]}
    BY <2>3, <2>4
  <2> QED
    BY <2>2, <2>5 DEF Steady, PathsInv
<1>4. coord.active # None
  <2> SUFFICES ASSUME coord.active = None PROVE FALSE
    OBVIOUS
  <2>1. coord.waiting = <<>> /\ Range(coord.waiting) = {}
    BY <1>1 DEF SessionsInv, Range
  <2>2. r # coord.active
    BY Constants
  <2> QED
    BY <1>1, <1>3, <2>1, <2>2 DEF SessionsInv
<1> DEFINE a == coord.active
<1>5. /\ a \in Response /\ a \in Nodes /\ a # Root /\ a \notin coord.pending
      /\ coord.index[a] \in Nat \ {0} /\ Len(Template[a]) \in Nat
  <2>1. a \in Response /\ a \notin coord.pending
    BY <1>1, <1>4, CoordinatorFields DEF SessionsInv
  <2>2. coord.index[a] \in Nat \ {0}
    BY <1>1, <2>1, CoordinatorFields
  <2> HIDE DEF a
  <2> QED
    BY <2>1, <2>2, Constants, StreamAssumption
<1>6. status[a] = "done"
  <2>1. Inv
    BY <1>1, SteadyIsInv
  <2>2. status[a] # "skipped"
    BY <1>5, <2>1 DEF Inv, BegunIsReached, Begun
  <2>3. Decided(status, a)
    BY <1>1, <1>5, AllDecided
  <2> QED
    BY <2>2, <2>3 DEF Decided
<1>7. coord.index[a] \in 1..Len(Template[a]) /\ Current(coord) = Template[a][coord.index[a]]
      /\ Current(coord) # "text"
  BY <1>4, <1>5 DEF Steady, Idle, Current
<1>8. IsFed(graph, a, status, chosen)
  BY <1>1, <1>5, <1>6 DEF GraphInv, Explained
<1>9. Decided(status, Current(coord))
  BY <1>5, <1>7, <1>8 DEF SourcesAreBefore
<1> QED
  BY <1>4, <1>6, <1>9 DEF Stuck

\* At the end of a run every answer has been shown as a whole, unless one is behind a
\* variable its source never stored: in graphs that hang together, as long as sources come
\* before the answers that show them.
THEOREM AnswersAreComplete ==
  ASSUME \A g \in Graphs : IsRooted(g) /\ SourcesPrecede(g)
  PROVE  Spec => []AllShown
<1>0. Steady => SourcesAreBefore
  BY SourcesBefore DEF Steady, TypeOK
<1>1. Init => Stuck(coord, status, pool)
  BY DEF Init, Registered, Stuck
<1>2. Steady /\ SourcesAreBefore /\ Stuck(coord, status, pool) /\ [Next]_vars
      => Stuck(coord, status, pool)'
  BY StuckStep
<1>3. Steady /\ SourcesAreBefore /\ Stuck(coord, status, pool) => AllShown
  BY StuckIsShown DEF Steady, TypeOK, Statuses
<1> QED
  BY <1>0, <1>1, <1>2, <1>3, SteadyHolds, PTL DEF Spec
=============================================================================
