---------------------------- MODULE LoopTheorems ----------------------------
(***************************************************************************)
(* Facts the proofs about loops share: induction over the numbers, and     *)
(* that a function which recurs on the front of a sequence exists.  Such a *)
(* function is what a loop over a list computes.                           *)
(***************************************************************************)
EXTENDS Integers, Sequences, SequencesExt, TLAPS, FiniteSetTheorems, SequenceTheorems

\* Mathematical induction, for a set of numbers: if the last number of an initial segment
\* were missing, the predecessor map would send the missing numbers one to one into
\* fewer of them.
LEMMA SetInduction ==
  ASSUME NEW P, 0 \in P, \A n \in Nat : n \in P => n + 1 \in P
  PROVE  Nat \subseteq P
<1> SUFFICES ASSUME NEW m \in Nat, m \notin P PROVE FALSE
  OBVIOUS
<1> DEFINE A == {n \in 0..m : n \notin P}
           f == [n \in A |-> n - 1]
<1>1. IsFiniteSet(A) /\ IsFiniteSet(A \ {m})
  <2>1. IsFiniteSet(0..m)
    BY FS_Interval
  <2>2. A \subseteq 0..m /\ A \ {m} \subseteq 0..m
    OBVIOUS
  <2> QED
    BY <2>1, <2>2, FS_Subset
<1>2. m \in A
  OBVIOUS
<1>3. Cardinality(A \ {m}) < Cardinality(A)
  <2> HIDE DEF A
  <2>1. Cardinality(A) \in Nat /\ Cardinality(A \ {m}) = Cardinality(A) - 1
    BY <1>1, <1>2, FS_RemoveElement, FS_CardinalityType
  <2> QED
    BY <2>1
<1>4. ASSUME NEW n \in A PROVE n - 1 \in A \ {m}
  <2>1. n \in 0..m /\ n \notin P /\ n # 0
    OBVIOUS
  <2>2. n - 1 \in Nat /\ (n - 1) + 1 = n
    BY <2>1
  <2>3. n - 1 \notin P
    BY <2>1, <2>2
  <2> QED
    BY <2>1, <2>2, <2>3
<1>5. f \in [A -> A \ {m}]
  BY <1>4
<1>6. \E x, y \in A : x # y /\ f[x] = f[y]
  <2> HIDE DEF A, f
  <2> QED
    BY <1>1, <1>3, <1>5, FS_PigeonHole
<1> QED
  BY <1>6

\* A sequence is its front and its last element.
LEMMA FrontLast ==
  ASSUME NEW S, NEW l \in Seq(S), l # <<>>
  PROVE  /\ Front(l) \in Seq(S) /\ Len(Front(l)) = Len(l) - 1
         /\ \A i \in 1..Len(Front(l)) : Front(l)[i] = l[i]
         /\ Last(l) \in S /\ Len(l) \in Nat \ {0}
         /\ Append(Front(l), Last(l)) = l
<1>1. Len(l) \in Nat \ {0}
  BY EmptySeq
<1> DEFINE n == Len(l)
           k == SubSeq(l, 1, n - 1)
<1>2. n - 1 \in Nat /\ \A i \in 1..(n - 1) : l[i] \in S
  BY <1>1
<1>3. k \in Seq(S) /\ Len(k) = n - 1 /\ \A i \in 1..(n - 1) : k[i] = l[i]
  <2>1. /\ k \in Seq(S) /\ Len(k) = IF 1 <= n - 1 THEN (n - 1) - 1 + 1 ELSE 0
        /\ \A i \in 1..((n - 1) - 1 + 1) : k[i] = l[1 + i - 1]
    <3> HIDE DEF n
    <3> QED
      BY <1>1, <1>2, SubSeqProperties
  <2>2. n \in Nat \ {0}
    BY <1>1
  <2> HIDE DEF k, n
  <2> QED
    BY <2>1, <2>2
<1>4. l[n] \in S
  BY <1>1
<1>5. Append(k, l[n]) = l
  <2> HIDE DEF k
  <2>1. /\ Append(k, l[n]) \in Seq(S) /\ Len(Append(k, l[n])) = n
        /\ \A i \in 1..n : Append(k, l[n])[i] = l[i]
    BY <1>1, <1>3, <1>4
  <2> QED
    BY <2>1, SeqEqual
<1> QED
  BY <1>1, <1>3, <1>4, <1>5 DEF Front, Last

\* What is appended is the last element, what it is appended to the front.
LEMMA FrontOfAppend ==
  ASSUME NEW S, NEW l \in Seq(S), NEW e \in S
  PROVE  /\ Append(l, e) \in Seq(S) /\ Append(l, e) # <<>>
         /\ Front(Append(l, e)) = l /\ Last(Append(l, e)) = e
<1> DEFINE a == Append(l, e)
<1>1. /\ a \in Seq(S) /\ Len(a) = Len(l) + 1 /\ Len(l) \in Nat
      /\ \A i \in 1..Len(l) : a[i] = l[i]
      /\ a[Len(l) + 1] = e
  BY AppendProperties
<1> HIDE DEF a
<1>2. a # <<>>
  BY <1>1
<1>3. Front(a) \in Seq(S) /\ Len(Front(a)) = Len(l)
      /\ \A i \in 1..Len(l) : Front(a)[i] = l[i]
  BY <1>1, <1>2, FrontLast
<1>4. Front(a) = l
  BY <1>3, SeqEqual
<1>5. Last(a) = e
  BY <1>1 DEF Last
<1> QED
  BY <1>1, <1>2, <1>4, <1>5 DEF a

\* g holds what a loop over l has computed after each of its elements.
LoopOver(l, g, Y, init, step) ==
  /\ g \in [0..Len(l) -> Y]
  /\ g[0] = init
  /\ \A i \in 1..Len(l) : g[i] = step[<<g[i - 1], l[i]>>]

\* A loop over a sequence and one over its beginning compute the same so far.
LEMMA LoopUnique ==
  ASSUME NEW Y, NEW init, NEW step
  PROVE  \A l, g, k, h :
           /\ LoopOver(l, g, Y, init, step) /\ LoopOver(k, h, Y, init, step)
           /\ Len(l) \in Nat /\ Len(k) \in Nat /\ Len(k) <= Len(l)
           /\ \A i \in 1..Len(k) : k[i] = l[i]
           => \A i \in 0..Len(k) : g[i] = h[i]
<1> SUFFICES ASSUME NEW l, NEW g, NEW k, NEW h,
                    LoopOver(l, g, Y, init, step), LoopOver(k, h, Y, init, step),
                    Len(l) \in Nat, Len(k) \in Nat, Len(k) <= Len(l),
                    \A i \in 1..Len(k) : k[i] = l[i]
             PROVE  \A i \in 0..Len(k) : g[i] = h[i]
  OBVIOUS
<1> DEFINE P == {i \in Nat : i <= Len(k) => g[i] = h[i]}
<1>0. Len(k) \in Nat /\ Len(l) \in Nat /\ Len(k) <= Len(l)
  OBVIOUS
<1>4. /\ \A i \in 1..Len(l) : g[i] = step[<<g[i - 1], l[i]>>]
      /\ \A i \in 1..Len(k) : h[i] = step[<<h[i - 1], k[i]>>] /\ k[i] = l[i]
  BY DEF LoopOver
<1>1. 0 \in P
  BY DEF LoopOver
<1>2. ASSUME NEW i \in Nat, i \in P PROVE i + 1 \in P
  <2> SUFFICES ASSUME i + 1 <= Len(k) PROVE g[i + 1] = h[i + 1]
    OBVIOUS
  <2>1. i + 1 \in 1..Len(k) /\ i + 1 \in 1..Len(l) /\ (i + 1) - 1 = i /\ g[i] = h[i]
    BY <1>0, <1>2
  <2>2. /\ g[i + 1] = step[<<g[(i + 1) - 1], l[i + 1]>>]
        /\ h[i + 1] = step[<<h[(i + 1) - 1], k[i + 1]>>]
        /\ k[i + 1] = l[i + 1]
    BY ONLY <2>1, <1>4
  <2> QED
    BY ONLY <2>1, <2>2
<1>3. Nat \subseteq P
  <2> HIDE DEF P
  <2> QED
    BY <1>1, <1>2, SetInduction
<1> QED
  BY <1>0, <1>3

\* Whatever its body, a loop over a finite sequence computes something.
LEMMA LoopExists ==
  ASSUME NEW S, NEW Y, NEW init \in Y, NEW step \in [Y \X S -> Y], NEW l \in Seq(S)
  PROVE  \E g : LoopOver(l, g, Y, init, step)
<1> DEFINE Good(n, g) == /\ g \in [0..n -> Y] /\ g[0] = init
                         /\ \A i \in 1..n : g[i] = step[<<g[i - 1], l[i]>>]
           P == {n \in Nat : n <= Len(l) => \E g : Good(n, g)}
<1>0. Len(l) \in Nat
  OBVIOUS
<1>1. 0 \in P
  <2>1. Good(0, [i \in 0..0 |-> init])
    OBVIOUS
  <2> HIDE DEF Good
  <2> QED
    BY <2>1
<1>2. ASSUME NEW n \in Nat, n \in P PROVE n + 1 \in P
  <2> SUFFICES ASSUME n + 1 <= Len(l) PROVE \E g : Good(n + 1, g)
    OBVIOUS
  <2>1. PICK g : Good(n, g)
    BY <1>0, <1>2
  <2> DEFINE h == [i \in 0..(n + 1) |-> IF i = n + 1 THEN step[<<g[n], l[n + 1]>>] ELSE g[i]]
  <2>2. l[n + 1] \in S /\ g[n] \in Y
    BY <1>0, <2>1
  <2>3. h \in [0..(n + 1) -> Y] /\ h[0] = init
    BY <2>1, <2>2
  <2>4. ASSUME NEW i \in 1..(n + 1) PROVE h[i] = step[<<h[i - 1], l[i]>>]
    <3>1. CASE i = n + 1
      <4>1. h[n + 1] = step[<<g[n], l[n + 1]>>] /\ h[n] = g[n] /\ (n + 1) - 1 = n
        OBVIOUS
      <4> HIDE DEF h
      <4> QED
        BY <3>1, <4>1
    <3>2. CASE i # n + 1
      <4>1. i \in 1..n /\ i - 1 \in 0..n
        BY <3>2
      <4>2. h[i] = g[i] /\ h[i - 1] = g[i - 1]
        BY <4>1, <3>2
      <4> QED
        BY <2>1, <4>1, <4>2
    <3> QED
      BY <3>1, <3>2
  <2> QED
    BY <2>3, <2>4
<1>3. Nat \subseteq P
  <2> HIDE DEF P
  <2> QED
    BY <1>1, <1>2, SetInduction
<1> QED
  BY <1>0, <1>3 DEF LoopOver

\* The same of a loop that counts: what it starts from, and what it computes.
CountingBody(Y, init, N, step) ==
  init \in Y /\ N \in Nat /\ step \in [Y \X (1..N) -> Y]
CountingLoop(g, Y, init, N, step) ==
  /\ g \in [0..N -> Y] /\ g[0] = init
  /\ \A i \in 1..N : g[i] = step[<<g[i - 1], i>>]

LEMMA CountingLoopExists ==
  ASSUME NEW Y, NEW init, NEW N, NEW step, CountingBody(Y, init, N, step)
  PROVE  \E g : CountingLoop(g, Y, init, N, step)
<1> init \in Y /\ N \in Nat /\ step \in [Y \X (1..N) -> Y]
  BY DEF CountingBody
<1> DEFINE l == [i \in 1..N |-> i]
<1>1. l \in Seq(1..N) /\ Len(l) = N /\ \A i \in 1..N : l[i] = i
  OBVIOUS
<1> HIDE DEF l
<1>2. PICK g : LoopOver(l, g, Y, init, step)
  BY <1>1, LoopExists
<1> QED
  BY <1>1, <1>2 DEF LoopOver, CountingLoop

\* f maps every sequence to what a loop over it computes.
IsFold(f, S, init, step) ==
  /\ f[<<>>] = init
  /\ \A l \in Seq(S) : l # <<>> => f[l] = step[<<f[Front(l)], Last(l)>>]

\* A function that recurs on the front of a sequence exists.
LEMMA FoldExists ==
  ASSUME NEW S, NEW Y, NEW init \in Y, NEW step \in [Y \X S -> Y]
  PROVE  \E f \in [Seq(S) -> Y] : IsFold(f, S, init, step)
<1> DEFINE Run(l) == CHOOSE g : LoopOver(l, g, Y, init, step)
           f == [l \in Seq(S) |-> Run(l)[Len(l)]]
<1>1. ASSUME NEW l \in Seq(S) PROVE LoopOver(l, Run(l), Y, init, step)
  BY LoopExists
<1> HIDE DEF Run
<1>2. f \in [Seq(S) -> Y]
  BY <1>1 DEF LoopOver
<1>3. f[<<>>] = init
  <2>1. <<>> \in Seq(S) /\ Len(<<>>) = 0
    OBVIOUS
  <2>2. LoopOver(<<>>, Run(<<>>), Y, init, step)
    BY <1>1, <2>1
  <2>3. Run(<<>>)[0] = init
    BY <2>2 DEF LoopOver
  <2> QED
    BY <2>1, <2>3
<1>4. ASSUME NEW l \in Seq(S), l # <<>> PROVE f[l] = step[<<f[Front(l)], Last(l)>>]
  <2> DEFINE k == Front(l)
  <2>1. k \in Seq(S) /\ Len(k) = Len(l) - 1 /\ Len(l) \in Nat \ {0}
        /\ \A i \in 1..Len(k) : k[i] = l[i]
    BY <1>4, FrontLast
  <2> HIDE DEF k
  <2>2. \A i \in 0..Len(k) : Run(l)[i] = Run(k)[i]
    <3>1. LoopOver(l, Run(l), Y, init, step) /\ LoopOver(k, Run(k), Y, init, step)
      BY <1>1, <2>1
    <3>2. Len(k) <= Len(l) /\ \A i \in 1..Len(k) : k[i] = l[i]
      BY <2>1
    <3> DEFINE g == Run(l)
               h == Run(k)
    <3> HIDE DEF f, g, h
    <3>3. \A i \in 0..Len(k) : g[i] = h[i]
      <4>1. LoopOver(l, g, Y, init, step) /\ LoopOver(k, h, Y, init, step)
        BY <3>1 DEF g, h
      <4>2. Len(k) \in Nat /\ Len(l) \in Nat
        BY <2>1
      <4> QED
        BY <3>2, <4>1, <4>2, LoopUnique
    <3> QED
      BY <3>3 DEF g, h
  <2>3. Run(l)[Len(l)] = step[<<Run(l)[Len(l) - 1], l[Len(l)]>>]
    BY <1>1, <2>1 DEF LoopOver
  <2>4. f[l] = step[<<f[k], Last(l)>>]
    BY <2>1, <2>2, <2>3 DEF Last
  <2> QED
    BY <2>4 DEF k
<1> QED
  BY <1>2, <1>3, <1>4 DEF IsFold

\* The same of a g of which it is not yet known that its values are in Y.
Recurs(g, S, Y, init, step) ==
  /\ g[<<>>] = init
  /\ \A l \in Seq(S) :
       l # <<>> /\ g[Front(l)] \in Y => g[l] = step[<<g[Front(l)], Last(l)>>]

\* It is the only one: a function with the same recurrence has the same values.
LEMMA FoldUnique ==
  ASSUME NEW S, NEW Y, NEW init, NEW step
  PROVE  \A f, g : /\ f \in [Seq(S) -> Y] /\ IsFold(f, S, init, step)
                   /\ Recurs(g, S, Y, init, step)
                   => \A l \in Seq(S) : g[l] = f[l]
<1> SUFFICES ASSUME NEW f \in [Seq(S) -> Y], IsFold(f, S, init, step),
                    NEW g, Recurs(g, S, Y, init, step)
             PROVE  \A l \in Seq(S) : g[l] = f[l]
  OBVIOUS
<1> DEFINE P == {n \in Nat : \A l \in Seq(S) : Len(l) = n => g[l] = f[l]}
<1>1. 0 \in P
  <2>1. \A l \in Seq(S) : Len(l) = 0 => l = <<>>
    BY EmptySeq
  <2> QED
    BY <2>1 DEF IsFold, Recurs
<1>2. ASSUME NEW n \in Nat, n \in P PROVE n + 1 \in P
  <2> SUFFICES ASSUME NEW l \in Seq(S), Len(l) = n + 1 PROVE g[l] = f[l]
    OBVIOUS
  <2>1. l # <<>>
    BY EmptySeq
  <2>2. Front(l) \in Seq(S) /\ Len(Front(l)) = n
    <3>1. Front(l) \in Seq(S) /\ Len(Front(l)) = Len(l) - 1
      BY <2>1, FrontLast
    <3> QED
      BY <3>1
  <2>3. g[Front(l)] = f[Front(l)] /\ f[Front(l)] \in Y
    BY <1>2, <2>2
  <2> QED
    BY <2>1, <2>3 DEF IsFold, Recurs
<1>3. Nat \subseteq P
  <2> HIDE DEF P
  <2> QED
    BY <1>1, <1>2, SetInduction
<1> QED
  BY <1>3, LenProperties
=============================================================================
