---------------------------- MODULE Nodes_proofs ----------------------------
(***************************************************************************)
(* Proofs about nodes, in five parts that share nothing.                   *)
(*                                                                         *)
(* Nodes that run a graph of their own or wait for an answer: for every    *)
(* list, mode, pool of threads, loop count and set of asking nodes, the    *)
(* outputs of an iteration are in the order of its list and no child       *)
(* outlives it; a loop's rounds, break and usage agree; a node that asks   *)
(* has one form and ends as it says.  The lemmas about Iteration are long, *)
(* for the order in which children end is free: what every future says of  *)
(* its child (TaskInv), and how far the thread of the node has come        *)
(* (SequentialInv, ParallelInv).                                           *)
(*                                                                         *)
(* Nodes that talk to something outside: for every kind of node, answer    *)
(* and number of attempts, a run has one result and ends with it, under    *)
(* one execution id, and closes its streams; for every configuration and   *)
(* set of threads, providers are loaded by one thread at a time and read   *)
(* from whole packages.                                                    *)
(***************************************************************************)
EXTENDS Containers, NodeRuns, LoopTheorems, FiniteSetTheorems, SequenceTheorems, TLAPS

-----------------------------------------------------------------------------
(* The loop.                                                               *)

LEMMA LoopBounds == LoopCount \in Nat /\ MaxAttempts \in Nat \ {0}
  BY ContainersAssumption DEF L!Bounds

LEMMA LoopStarts == L!Init => L!Inv
<1> SUFFICES ASSUME L!Init PROVE L!Inv
  OBVIOUS
<1> USE LoopBounds
<1> DEFINE stamp0 == [n \in Inner |-> <<0, 0>>]
<1>1. L!TypeOK
  <2>1. <<0, 0>> \in Nat \X Nat
    OBVIOUS
  <2>2. stamp0 \in [Inner -> Nat \X Nat]
    BY <2>1
  <2>3. /\ lpc = "start" /\ lattempt \in 1..MaxAttempts /\ llimit \in {0, LoopCount}
        /\ lround \in 0..LoopCount
        /\ lusage \in 0..LoopCount /\ lused \in 0..LoopCount
    BY DEF L!Init
  <2>6. lreached \in BOOLEAN /\ lbroke \in BOOLEAN
    BY Zenon DEF L!Init
  <2>4. /\ lstamp = stamp0 /\ lvar = <<0, 0>>
        /\ loutputs = [var |-> <<0, 0>>, round |-> 0]
    BY DEF L!Init, L!Nothing
  <2>5. loutputs \in [var : Nat \X Nat, round : 0..LoopCount]
    BY <2>1, <2>4
  <2> HIDE DEF stamp0
  <2> QED
    BY <2>1, <2>2, <2>3, <2>4, <2>5, <2>6 DEF L!TypeOK
<1>2. L!FreshRound /\ L!OutputsOfLastRound /\ L!StopsAtFirstBreak /\ L!RoundInv
  BY DEF L!Init, L!FreshRound, L!OutputsOfLastRound, L!StopsAtFirstBreak, L!RoundInv
<1> QED
  BY <1>1, <1>2 DEF L!Inv

LEMMA LoopGoesOn == L!Inv /\ [L!Next]_loopVars => L!Inv'
<1> SUFFICES ASSUME L!Inv, [L!Next]_loopVars PROVE L!Inv'
  OBVIOUS
<1> USE LoopBounds
<1>0. L!TypeOK /\ L!FreshRound /\ L!OutputsOfLastRound /\ L!StopsAtFirstBreak /\ L!RoundInv
  BY DEF L!Inv
<1>1. CASE UNCHANGED loopVars
  BY <1>0, <1>1 DEF L!Inv, L!TypeOK, L!FreshRound, L!OutputsOfLastRound, L!StopsAtFirstBreak,
     L!RoundInv, L!Nothing, L!Now, loopVars
<1>2. CASE L!Start
  <2>1. L!TypeOK'
    <3>1. lreached' \in BOOLEAN /\ lbroke' \in BOOLEAN
      BY <1>2, Zenon DEF L!Start
    <3>2. lvar' \in Nat \X Nat
      BY <1>0, <1>2 DEF L!TypeOK, L!Start
    <3>3. /\ lpc' = "check" /\ lattempt' = lattempt /\ llimit' \in {0, LoopCount}
          /\ lround' = 0 /\ lusage' = 0 /\ lused' = 0 /\ lstamp' = lstamp /\ loutputs' = loutputs
      BY <1>2 DEF L!Start
    <3> QED
      BY <1>0, <3>1, <3>2, <3>3 DEF L!TypeOK
  <2>2. L!FreshRound' /\ L!OutputsOfLastRound' /\ L!StopsAtFirstBreak' /\ L!RoundInv'
    BY <1>0, <1>2 DEF L!TypeOK, L!FreshRound, L!OutputsOfLastRound, L!StopsAtFirstBreak,
       L!RoundInv, L!Nothing, L!Now, L!Start
  <2> QED
    BY <2>1, <2>2 DEF L!Inv
<1>9. CASE L!StartRaises
  <2>1. L!TypeOK'
    <3>1. lvar' \in Nat \X Nat
      BY <1>0, <1>9 DEF L!TypeOK, L!StartRaises
    <3>2. /\ lpc' = "failed" /\ lattempt' = lattempt /\ llimit' = LoopCount /\ ~lreached' /\ ~lbroke'
          /\ lround' = 0 /\ lusage' = 0 /\ lused' = 0 /\ lstamp' = lstamp /\ loutputs' = loutputs
          /\ lreached' \in BOOLEAN /\ lbroke' \in BOOLEAN
      BY <1>9 DEF L!StartRaises
    <3> QED
      BY <1>0, <3>1, <3>2 DEF L!TypeOK
  <2>2. L!FreshRound' /\ L!OutputsOfLastRound' /\ L!StopsAtFirstBreak' /\ L!RoundInv'
    BY <1>9 DEF L!FreshRound, L!OutputsOfLastRound, L!StopsAtFirstBreak, L!RoundInv, L!StartRaises
  <2> QED
    BY <2>1, <2>2 DEF L!Inv
<1>10. CASE L!EngineRaises
  <2>1. L!TypeOK'
    <3> DEFINE stamp0 == [n \in Inner |-> <<0, 0>>]
    <3>1. <<0, 0>> \in Nat \X Nat
      OBVIOUS
    <3>2. stamp0 \in [Inner -> Nat \X Nat]
      BY <3>1
    <3>3. lstamp' = stamp0
      BY <1>10 DEF L!EngineRaises, L!Nothing
    <3> HIDE DEF stamp0
    <3>4. /\ UNCHANGED <<lattempt, llimit, lround, lvar, lreached, lbroke, loutputs, lusage, lused>>
          /\ lpc' = "failed"
      BY <1>10 DEF L!EngineRaises
    <3> QED
      BY <1>0, <3>2, <3>3, <3>4 DEF L!TypeOK
  <2>2. L!FreshRound' /\ L!OutputsOfLastRound' /\ L!StopsAtFirstBreak' /\ L!RoundInv'
    BY <1>0, <1>10 DEF L!FreshRound, L!OutputsOfLastRound, L!StopsAtFirstBreak, L!RoundInv,
       L!EngineRaises
  <2> QED
    BY <2>1, <2>2 DEF L!Inv
<1>3. CASE L!BeginRound
  <2>1. L!TypeOK'
    <3> DEFINE stamp0 == [n \in Inner |-> <<0, 0>>]
    <3>1. <<0, 0>> \in Nat \X Nat
      OBVIOUS
    <3>2. stamp0 \in [Inner -> Nat \X Nat]
      BY <3>1
    <3>3. lstamp' = stamp0
      BY <1>3 DEF L!BeginRound, L!Nothing
    <3> HIDE DEF stamp0
    <3>4. lreached' \in BOOLEAN /\ lbroke' \in BOOLEAN
      BY <1>0, <1>3, Zenon DEF L!TypeOK, L!BeginRound
    <3>5. /\ lround' \in 0..LoopCount /\ lused' \in 0..LoopCount
          /\ UNCHANGED <<lattempt, llimit, lvar, loutputs, lusage>> /\ lpc' = "round"
      BY <1>0, <1>3 DEF L!TypeOK, L!BeginRound, L!RoundInv
    <3> QED
      BY <1>0, <3>2, <3>3, <3>4, <3>5 DEF L!TypeOK
  <2>2. L!FreshRound' /\ L!OutputsOfLastRound' /\ L!StopsAtFirstBreak' /\ L!RoundInv'
    BY <1>0, <1>3 DEF L!TypeOK, L!FreshRound, L!OutputsOfLastRound, L!StopsAtFirstBreak,
       L!RoundInv, L!Nothing, L!Now, L!BeginRound
  <2> QED
    BY <2>1, <2>2 DEF L!Inv
<1>4. CASE \E n \in Inner : L!InnerRuns(n)
  <2> PICK n \in Inner : L!InnerRuns(n)
    BY <1>4
  <2>1. L!TypeOK'
    BY <1>0 DEF L!TypeOK, L!InnerRuns, L!Now
  <2>2. L!FreshRound' /\ L!OutputsOfLastRound' /\ L!StopsAtFirstBreak' /\ L!RoundInv'
    BY <1>0 DEF L!TypeOK, L!FreshRound, L!OutputsOfLastRound, L!StopsAtFirstBreak,
       L!RoundInv, L!Nothing, L!Now, L!InnerRuns
  <2> QED
    BY <2>1, <2>2 DEF L!Inv
<1>5. CASE L!LoopEnd \/ L!Condition
  <2>1. L!TypeOK'
    <3>1. lreached' \in BOOLEAN /\ lbroke' \in BOOLEAN
      BY <1>0, <1>5, Zenon DEF L!TypeOK, L!LoopEnd, L!Condition
    <3> QED
      BY <1>0, <1>5, <3>1 DEF L!TypeOK, L!LoopEnd, L!Condition
  <2>2. L!FreshRound' /\ L!OutputsOfLastRound' /\ L!StopsAtFirstBreak' /\ L!RoundInv'
    BY <1>0, <1>5 DEF L!TypeOK, L!FreshRound, L!OutputsOfLastRound, L!StopsAtFirstBreak,
       L!RoundInv, L!Nothing, L!Now, L!LoopEnd, L!Condition
  <2> QED
    BY <2>1, <2>2 DEF L!Inv
<1>7. CASE L!ConditionRaises \/ L!Succeed \/ L!Retry
  <2>1. L!TypeOK'
    BY <1>0, <1>7 DEF L!TypeOK, L!ConditionRaises, L!Succeed, L!Retry
  <2>2. L!FreshRound' /\ L!OutputsOfLastRound' /\ L!StopsAtFirstBreak' /\ L!RoundInv'
    BY <1>0, <1>7 DEF L!TypeOK, L!FreshRound, L!OutputsOfLastRound, L!StopsAtFirstBreak,
       L!RoundInv, L!Nothing, L!Now, L!ConditionRaises, L!Succeed, L!Retry
  <2> QED
    BY <2>1, <2>2 DEF L!Inv
<1>6. CASE L!RoundFails \/ L!RoundEnds
  BY <1>0, <1>6 DEF L!Inv, L!TypeOK, L!FreshRound, L!OutputsOfLastRound, L!StopsAtFirstBreak,
     L!RoundInv, L!Nothing, L!Now, L!RoundFails, L!RoundEnds
<1> QED
  BY <1>1, <1>2, <1>3, <1>4, <1>5, <1>6, <1>7, <1>9, <1>10 DEF L!Next

\* The invariant says of the usage what the property does.
LEMMA LoopCounts == L!Inv => L!UsageOfEveryRound
  BY DEF L!Inv, L!RoundInv, L!UsageOfEveryRound

-----------------------------------------------------------------------------
(* The nodes that ask.                                                     *)

LEMMA FormsStart == F!Init => F!Inv
<1> USE DEF F!Init, F!Statuses, F!Timeout
<1>1. F!Init => F!TypeOK
  BY DEF F!TypeOK
<1>2. F!Init => F!OneForm /\ F!EndsAsItsForm /\ F!SeenInv
  BY DEF F!OneForm, F!EndsAsItsForm, F!SeenInv
<1> QED
  BY <1>1, <1>2 DEF F!Inv

LEMMA FormsGoOn == F!Inv /\ [F!Next]_formVars => F!Inv'
<1> SUFFICES ASSUME F!Inv, [F!Next]_formVars PROVE F!Inv'
  OBVIOUS
<1>0. F!TypeOK /\ F!OneForm /\ F!EndsAsItsForm /\ F!SeenInv
  BY DEF F!Inv
<1>1. CASE UNCHANGED formVars
  BY <1>0, <1>1 DEF F!Inv, F!TypeOK, F!OneForm, F!EndsAsItsForm, F!SeenInv, formVars
<1>2. CASE F!Pause \/ F!Resume
  <2>1. F!TypeOK'
    BY <1>0, <1>2 DEF F!TypeOK, F!Pause, F!Resume
  <2>2. F!OneForm' /\ F!EndsAsItsForm' /\ F!SeenInv'
    BY <1>0, <1>2 DEF F!TypeOK, F!OneForm, F!EndsAsItsForm, F!SeenInv, F!Pause, F!Resume
  <2> QED
    BY <2>1, <2>2 DEF F!Inv
<1>3. ASSUME NEW n \in Askers, F!NodeRuns(n) PROVE F!Inv'
  <2> USE DEF F!Becomes, F!TimedOut, F!End, F!Statuses, F!Timeout
  <2>1. CASE F!GetForm(n)
    BY <1>0, <2>1 DEF F!Inv, F!TypeOK, F!OneForm, F!EndsAsItsForm, F!SeenInv, F!GetForm
  <2>2. CASE F!Create(n)
    BY <1>0, <2>2 DEF F!Inv, F!TypeOK, F!OneForm, F!EndsAsItsForm, F!SeenInv, F!Create
  <2>3. CASE F!TakeTimeout(n)
    BY <1>0, <2>3 DEF F!Inv, F!TypeOK, F!OneForm, F!EndsAsItsForm, F!SeenInv, F!TakeTimeout
  <2>4. CASE F!AskAgain(n)
    BY <1>0, <2>4 DEF F!Inv, F!TypeOK, F!OneForm, F!EndsAsItsForm, F!SeenInv, F!AskAgain
  <2>5. CASE F!TakeAnswer(n)
    BY <1>0, <2>5 DEF F!Inv, F!TypeOK, F!OneForm, F!EndsAsItsForm, F!SeenInv, F!TakeAnswer
  <2> QED
    BY <1>3, <2>1, <2>2, <2>3, <2>4, <2>5 DEF F!NodeRuns
<1>4. ASSUME NEW n \in Askers, F!Outside(n) PROVE F!Inv'
  <2> USE DEF F!Statuses, F!Timeout
  <2>1. CASE \E status \in {"submitted", "timeout", "expired"} : F!Mark(n, status)
    BY <1>0, <2>1 DEF F!Inv, F!TypeOK, F!OneForm, F!EndsAsItsForm, F!SeenInv, F!Mark
  <2>2. CASE F!TimeGoesBy(n)
    BY <1>0, <2>2 DEF F!Inv, F!TypeOK, F!OneForm, F!EndsAsItsForm, F!SeenInv, F!TimeGoesBy
  <2> QED
    BY <1>4, <2>1, <2>2 DEF F!Outside, F!Submit, F!Sweep, F!Expire
<1> QED
  BY <1>1, <1>2, <1>3, <1>4 DEF F!Next

-----------------------------------------------------------------------------
(* Lists of outputs.                                                       *)

Output == 0..MaxItems

\* WithValue is what the loop over a list computes: nothing for an empty one; one
\* more output is kept after all that came before it, unless it is null.
LEMMA WithValueFacts ==
  /\ WithValue \in [Seq(Output) -> Seq(Output)]
  /\ WithValue[<<>>] = <<>>
  /\ \A l \in Seq(Output), v \in Output :
       WithValue[Append(l, v)] =
         IF v = NoValue THEN WithValue[l] ELSE Append(WithValue[l], v)
<1> DEFINE R == Seq(Output)
           step == [p \in R \X Output |->
                      IF p[2] = NoValue THEN p[1] ELSE Append(p[1], p[2])]
           Body(W) == [l \in Seq(Output) |->
                         IF l = <<>> THEN <<>>
                         ELSE IF Last(l) = NoValue THEN W[Front(l)]
                              ELSE Append(W[Front(l)], Last(l))]
<1>1. step \in [R \X Output -> R] /\ <<>> \in R
  <2>1. \A y \in R, v \in Output : Append(y, v) \in R
    OBVIOUS
  <2> HIDE DEF R
  <2>2. \A p \in R \X Output : p[1] \in R /\ p[2] \in Output
    OBVIOUS
  <2> QED
    BY <2>1, <2>2 DEF R
<1>2. PICK f \in [Seq(Output) -> R] : IsFold(f, Output, <<>>, step)
  <2> HIDE DEF step, R
  <2> QED
    BY <1>1, FoldExists
<1>3. f = Body(f)
  <2>1. ASSUME NEW l \in Seq(Output), l # <<>>
        PROVE  f[l] = IF Last(l) = NoValue THEN f[Front(l)] ELSE Append(f[Front(l)], Last(l))
    <3>1. Front(l) \in Seq(Output) /\ Last(l) \in Output
      BY <2>1, FrontLast
    <3> QED
      BY <1>2, <2>1, <3>1 DEF IsFold
  <2> QED
    BY <1>2, <2>1 DEF IsFold
<1>4. WithValue = CHOOSE W : W = Body(W)
  BY DEF WithValue, Output
<1>5. WithValue = Body(WithValue)
  <2> HIDE DEF Body
  <2> QED
    BY <1>3, <1>4
<1>6. /\ WithValue[<<>>] = <<>>
      /\ \A l \in Seq(Output) :
           l # <<>> => WithValue[l] =
                         IF Last(l) = NoValue THEN WithValue[Front(l)]
                         ELSE Append(WithValue[Front(l)], Last(l))
  <2> HIDE DEF step, R
  <2>1. <<>> \in Seq(Output)
    OBVIOUS
  <2>2. \A l \in Seq(Output) : WithValue[l] = Body(WithValue)[l]
    BY <1>5
  <2> QED
    BY <2>1, <2>2
<1>7. \A l \in Seq(Output) : WithValue[l] = f[l]
  <2>1. ASSUME NEW l \in Seq(Output), l # <<>>, WithValue[Front(l)] \in R
        PROVE  WithValue[l] = step[<<WithValue[Front(l)], Last(l)>>]
    <3>1. Last(l) \in Output
      BY <2>1, FrontLast
    <3>2. step[<<WithValue[Front(l)], Last(l)>>] =
            IF Last(l) = NoValue THEN WithValue[Front(l)]
            ELSE Append(WithValue[Front(l)], Last(l))
      BY <2>1, <3>1
    <3> QED
      BY <1>6, <2>1, <3>2
  <2>2. Recurs(WithValue, Output, R, <<>>, step)
    BY <1>6, <2>1 DEF Recurs
  <2>3. f \in [Seq(Output) -> R] /\ IsFold(f, Output, <<>>, step)
    BY <1>2
  <2> HIDE DEF step, R, Body
  <2> QED
    BY <2>2, <2>3, FoldUnique
<1>8. WithValue \in [Seq(Output) -> Seq(Output)]
  BY <1>2, <1>5, <1>7
<1>9. ASSUME NEW l \in Seq(Output), NEW v \in Output
      PROVE  WithValue[Append(l, v)] =
                IF v = NoValue THEN WithValue[l] ELSE Append(WithValue[l], v)
  <2> DEFINE a == Append(l, v)
  <2>1. a \in Seq(Output) /\ a # <<>> /\ Front(a) = l /\ Last(a) = v
    BY FrontOfAppend
  <2> HIDE DEF a
  <2>2. WithValue[a] = IF Last(a) = NoValue THEN WithValue[Front(a)]
                       ELSE Append(WithValue[Front(a)], Last(a))
    BY <1>6, <2>1
  <2> QED
    BY <2>1, <2>2 DEF a
<1> QED
  BY <1>6, <1>8, <1>9

\* Leaving out null outputs once is enough.
LEMMA WithValueOnce == \A l \in Seq(Output) : WithValue[WithValue[l]] = WithValue[l]
<1> DEFINE P == {n \in Nat : \A l \in Seq(Output) : Len(l) = n => WithValue[WithValue[l]] = WithValue[l]}
<1>1. 0 \in P
  <2>1. \A l \in Seq(Output) : Len(l) = 0 => l = <<>>
    BY EmptySeq
  <2> QED
    BY <2>1, WithValueFacts
<1>2. ASSUME NEW n \in Nat, n \in P PROVE n + 1 \in P
  <2>1. SUFFICES ASSUME NEW l \in Seq(Output), Len(l) = n + 1
                 PROVE  WithValue[WithValue[l]] = WithValue[l]
    OBVIOUS
  <2> DEFINE k == Front(l)
             v == Last(l)
  <2>2. l # <<>>
    BY <2>1, EmptySeq
  <2>3. k \in Seq(Output) /\ Len(k) = n /\ v \in Output /\ l = Append(k, v)
    BY <2>1, <2>2, FrontLast
  <2> HIDE DEF k, v
  <2>4. WithValue[WithValue[k]] = WithValue[k] /\ WithValue[k] \in Seq(Output)
    BY <1>2, <2>3, WithValueFacts
  <2>5. CASE v = NoValue
    BY <2>3, <2>4, <2>5, WithValueFacts
  <2>6. CASE v # NoValue
    <3>1. WithValue[l] = Append(WithValue[k], v)
      BY <2>3, <2>6, WithValueFacts
    <3>2. WithValue[Append(WithValue[k], v)] = Append(WithValue[WithValue[k]], v)
      BY <2>3, <2>4, <2>6, WithValueFacts
    <3> QED
      BY <2>4, <3>1, <3>2
  <2> QED
    BY <2>5, <2>6
<1>3. Nat \subseteq P
  <2> HIDE DEF P
  <2> QED
    BY <1>1, <1>2, SetInduction
<1> QED
  BY <1>3, LenProperties

\* The list of values of the first items, one item more.
LEMMA ValuesGrow ==
  ASSUME NEW n \in Nat, n < MaxItems
  PROVE  /\ [i \in 1..n |-> Value(i)] \in Seq(Output)
         /\ Value(n + 1) \in Output
         /\ [i \in 1..(n + 1) |-> Value(i)] = Append([i \in 1..n |-> Value(i)], Value(n + 1))
<1> DEFINE k == [i \in 1..n |-> Value(i)]
           l == [i \in 1..(n + 1) |-> Value(i)]
<1>1. \A i \in 1..(n + 1) : Value(i) \in Output
  BY IterationAssumption DEF Value, NoValue, Output
<1> HIDE DEF Value
<1>2. k \in Seq(Output) /\ Len(k) = n /\ \A i \in 1..n : k[i] = Value(i)
  BY <1>1
<1>3. l \in Seq(Output) /\ Len(l) = n + 1 /\ \A i \in 1..(n + 1) : l[i] = Value(i)
  BY <1>1
<1>4. n + 1 \in 1..(n + 1)
  OBVIOUS
<1> HIDE DEF k, l
<1>5. /\ Append(k, Value(n + 1)) \in Seq(Output) /\ Len(Append(k, Value(n + 1))) = n + 1
      /\ \A i \in 1..n : Append(k, Value(n + 1))[i] = k[i]
      /\ Append(k, Value(n + 1))[n + 1] = Value(n + 1)
  BY <1>1, <1>2, <1>4, AppendProperties
<1>6. l = Append(k, Value(n + 1))
  BY <1>2, <1>3, <1>5, SeqEqual
<1> QED
  BY <1>1, <1>2, <1>4, <1>6 DEF k, l

-----------------------------------------------------------------------------
(* The iteration.                                                          *)

\* What is inductive of Inv; the order of the values follows.
Running ==
  TypeOK /\ NothingOutlives /\ TaskInv /\ SequentialInv /\ ParallelInv /\ OutputsInv

LEMMA IterationStarts == Init => Running
<1> SUFFICES ASSUME Init PROVE Running
  OBVIOUS
<1> USE IterationAssumption DEF Init
<1>1. /\ items \in 1..MaxItems /\ mode \in Modes /\ at \in 1..(items + 1)
      /\ task = [i \in Index |-> "none"] /\ result = [i \in Index |-> "unknown"]
      /\ usage = [i \in Index |-> 0] /\ engines = {} /\ asked = {} /\ collected = {}
  OBVIOUS
<1>2. parallel \in BOOLEAN /\ flatten \in BOOLEAN
  BY Zenon
<1>3. outputs = IF parallel THEN [i \in Index |-> NoValue] ELSE <<>>
  OBVIOUS
<1>4. [i \in Index |-> NoValue] \in Seq(0..MaxItems)
  BY <1>1 DEF Index, NoValue
<1>5. TypeOK
  <2>1. pc \in {"next", "submit"} /\ outputs \in Seq(0..MaxItems)
    <3>1. CASE parallel
      BY <1>3, <1>4, <3>1
    <3>2. CASE ~parallel
      BY <1>3, <3>2
    <3> QED
      BY <3>1, <3>2
  <2> QED
    BY <1>1, <1>2, <2>1 DEF TypeOK, Index
<1>6. NothingOutlives /\ TaskInv
  BY <1>1, <1>2 DEF NothingOutlives, TaskInv, Ended, Index
<1>7. SequentialInv
  BY <1>1, <1>2 DEF SequentialInv, Index
<1>8. ParallelInv
  BY <1>1, <1>2 DEF ParallelInv, Index
<1>9. OutputsInv
  <2>1. CASE parallel
    BY <1>1, <1>3, <2>1 DEF OutputsInv
  <2>2. CASE ~parallel
    <3>1. outputs = <<>> /\ [i \in 1..(at - 1) |-> Value(i)] = <<>>
      BY <1>3, <2>2
    <3> QED
      BY <2>2, <3>1 DEF OutputsInv
  <2> QED
    BY <2>1, <2>2
<1> QED
  BY <1>5, <1>6, <1>7, <1>8, <1>9 DEF Running

\* One after the other: the three steps of the thread of the node.
LEMMA SequentialStep ==
  ASSUME Running, NextItem \/ AfterItem \/ AllDone
  PROVE  Running'
<1> USE IterationAssumption
<1>0. TypeOK /\ NothingOutlives /\ TaskInv /\ SequentialInv /\ ParallelInv /\ OutputsInv
  BY DEF Running
<1>1. ~parallel /\ pc \in {"next", "wait"}
  BY <1>0 DEF ParallelInv, NextItem, AfterItem, AllDone
<1>2. parallel' = parallel /\ flatten' = flatten /\ items' = items /\ mode' = mode /\ Index' = Index /\ collected' = collected
      /\ result' = result /\ asked' = asked
  BY DEF NextItem, AfterItem, AllDone, Index
<1>3. ParallelInv'
  BY <1>1, <1>2 DEF ParallelInv
<1>4. \A i \in Index' : Value(i)' = Value(i)
  BY <1>2 DEF Value
<1>5. CASE NextItem
  <2>1. TypeOK'
    <3>1. /\ task' \in [Index -> {"none", "queued", "started", "running", "done", "cancelled"}]
          /\ engines' \subseteq Index /\ engines \subseteq engines'
          /\ pc' \in {"wait", "failed", "raised"}
      <4>1. at \in Index
        BY <1>0, <1>5 DEF TypeOK, NextItem, Index
      <4>2. CASE /\ task' = [task EXCEPT ![at] = "running"] /\ engines' = engines \cup {at}
                 /\ pc' = "wait"
        BY <1>0, <4>1, <4>2 DEF TypeOK
      <4>3. CASE pc' \in {"failed", "raised"} /\ task' = task /\ engines' = engines
        BY <1>0, <4>3 DEF TypeOK
      <4> QED
        BY <1>5, <4>2, <4>3 DEF NextItem
    <3> QED
      BY <1>0, <1>2, <1>5, <3>1 DEF TypeOK, NextItem
  <2>2. NothingOutlives' /\ TaskInv'
    <3>0. /\ at \in Index /\ task[at] = "none" /\ at \notin engines /\ result[at] = "unknown"
          /\ \A i \in Index : task[i] \notin {"started", "running"}
      <4>1. at \in Index /\ task[at] = "none" /\ pc = "next"
        BY <1>0, <1>1, <1>5 DEF TypeOK, SequentialInv, NextItem, Index
      <4>2. \A i \in Index : i < at \/ i > at \/ i = at
        BY <1>0 DEF TypeOK, Index
      <4>3. \A i \in Index : task[i] \notin {"started", "running"}
        BY <1>0, <1>1, <4>1, <4>2 DEF SequentialInv
      <4> QED
        BY <1>0, <4>1, <4>3 DEF TaskInv
    <3>1. CASE /\ task' = [task EXCEPT ![at] = "running"] /\ engines' = engines \cup {at}
               /\ pc' = "wait"
      <4>1. NothingOutlives'
        BY <3>1 DEF NothingOutlives, Ended
      <4>2. TaskInv'
        BY <1>0, <1>2, <3>0, <3>1 DEF TypeOK, TaskInv
      <4> QED
        BY <4>1, <4>2
    <3>2. CASE pc' \in {"failed", "raised"} /\ task' = task /\ engines' = engines
      <4>1. NothingOutlives'
        BY <1>2, <3>0, <3>2 DEF NothingOutlives, Active
      <4>2. TaskInv'
        BY <1>0, <1>2, <3>2 DEF TaskInv
      <4> QED
        BY <4>1, <4>2
    <3> QED
      BY <1>5, <3>1, <3>2 DEF NextItem
  <2>3. SequentialInv'
    BY <1>0, <1>1, <1>5, <1>2 DEF TypeOK, SequentialInv, TaskInv, NextItem, Index, Counted
  <2>4. OutputsInv'
    BY <1>0, <1>1, <1>2, <1>5 DEF OutputsInv, NextItem, Value
  <2> QED
    BY <1>3, <2>1, <2>2, <2>3, <2>4 DEF Running
<1>6. CASE AllDone
  <2>1. TypeOK'
    BY <1>0, <1>1, <1>6, <1>2 DEF TypeOK, AllDone, Index
  <2>2. NothingOutlives' /\ TaskInv'
    BY <1>0, <1>1, <1>6, <1>2 DEF TypeOK, SequentialInv, NothingOutlives, TaskInv, AllDone, Index, Ended, Active
  <2>3. SequentialInv'
    BY <1>0, <1>1, <1>6, <1>2 DEF TypeOK, SequentialInv, TaskInv, AllDone, Index, Counted
  <2>4. OutputsInv'
    BY <1>0, <1>1, <1>2, <1>6 DEF OutputsInv, AllDone, Value
  <2> QED
    BY <1>3, <2>1, <2>2, <2>3, <2>4 DEF Running
<1>7. CASE AfterItem
  <2>0. /\ at \in Index /\ at \in engines /\ usage[at] = 0 /\ pc = "wait" /\ task[at] = "done"
        /\ task' = task /\ engines' = engines /\ usage' = [usage EXCEPT ![at] = 1]
        /\ \/ pc' \in {"failed", "raised"} /\ (pc' = "raised" => result[at] = "error")
              /\ at' = at /\ outputs' = outputs
           \/ /\ pc' = "next" /\ at' = at + 1 /\ ~Raises(at, result[at])
              /\ outputs' = IF Appends(result[at]) THEN Append(outputs, Value(at)) ELSE outputs
    <3>1. pc = "wait" /\ task[at] = "done" /\ at \in engines /\ usage[at] = 0 /\ at \in Index
      BY <1>0, <1>1, <1>7 DEF SequentialInv, TypeOK, AfterItem
    <3>2. usage' = [usage EXCEPT ![at] = usage[at] + 1] /\ usage[at] + 1 = 1
      BY <1>7, <3>1 DEF AfterItem
    <3> QED
      BY <1>7, <3>1, <3>2, Zenon DEF AfterItem
  <2>1. at - 1 \in Nat /\ at - 1 < MaxItems /\ at = (at - 1) + 1 /\ at + 1 - 1 = at
    BY <1>0, <2>0 DEF TypeOK, Index
  <2>2. /\ [i \in 1..(at - 1) |-> Value(i)] \in Seq(Output) /\ Value(at) \in Output
        /\ [i \in 1..at |-> Value(i)] = Append([i \in 1..(at - 1) |-> Value(i)], Value(at))
    BY <2>1, ValuesGrow
  <2>3. TypeOK'
    <3>1. outputs' \in Seq(0..MaxItems)
      <4>1. outputs \in Seq(Output) /\ Append(outputs, Value(at)) \in Seq(Output)
        BY <1>0, <2>2 DEF TypeOK, Output
      <4>2. outputs' = outputs \/ outputs' = Append(outputs, Value(at))
        BY <2>0, Zenon
      <4> QED
        BY <4>1, <4>2 DEF Output
    <3>2. at' \in 1..(items' + 1) /\ usage' \in [Index' -> 0..1] /\ pc' \in {"next", "failed", "raised"}
      BY <1>0, <1>2, <2>0 DEF TypeOK, Index
    <3> QED
      BY <1>0, <1>2, <2>0, <3>1, <3>2 DEF TypeOK
  <2>4. NothingOutlives' /\ TaskInv'
    BY <1>0, <1>1, <1>2, <2>0 DEF TypeOK, SequentialInv, NothingOutlives, TaskInv, Index, Ended, Active
  <2>5. SequentialInv'
    BY <1>0, <1>1, <1>2, <2>0 DEF TypeOK, SequentialInv, TaskInv, Index, Counted
  <2>6. OutputsInv'
    <3> DEFINE before == [i \in 1..(at - 1) |-> Value(i)]
               upto == [i \in 1..at |-> Value(i)]
               unpaused == mode # "remove-abnormal-output" /\ \A i \in Index : result[i] # "paused"
    <3>0. WithValue[outputs] = WithValue[before] /\ (unpaused => outputs = before)
          /\ outputs \in Seq(Output)
      BY <1>0, <1>1 DEF OutputsInv, TypeOK, Output
    <3>1. CASE pc' \in {"failed", "raised"}
      <4>1. at' = at /\ outputs' = outputs
        BY <2>0, <3>1
      <4> QED
        BY <1>0, <1>1, <1>2, <4>1 DEF OutputsInv, Value
    <3>2. CASE pc' = "next"
      <4>0. at' = at + 1 /\ ~Raises(at, result[at])
            /\ outputs' = IF Appends(result[at]) THEN Append(outputs, Value(at)) ELSE outputs
        BY <2>0, <3>2
      <4>1. upto = Append(before, Value(at)) /\ before \in Seq(Output) /\ Value(at) \in Output
        BY <2>2
      <4>2. ASSUME Appends(result[at])
            PROVE  WithValue[outputs'] = WithValue[upto] /\ (unpaused => outputs' = upto)
        <5>1. outputs' = Append(outputs, Value(at))
          BY <4>0, <4>2
        <5> DEFINE v == Value(at)
        <5> HIDE DEF before, upto, unpaused, v
        <5>3. v \in Output /\ before \in Seq(Output) /\ outputs \in Seq(Output)
          BY <3>0, <4>1 DEF v
        <5>4. /\ WithValue[Append(outputs, v)] =
                   IF v = NoValue THEN WithValue[outputs] ELSE Append(WithValue[outputs], v)
              /\ WithValue[Append(before, v)] =
                   IF v = NoValue THEN WithValue[before] ELSE Append(WithValue[before], v)
          BY <5>3, WithValueFacts
        <5>2. WithValue[outputs'] = WithValue[upto]
          BY <5>1, <3>0, <4>1, <5>4 DEF v
        <5> QED
          BY <3>0, <4>1, <5>1, <5>2
      <4>3. ASSUME ~Appends(result[at])
            PROVE  WithValue[outputs'] = WithValue[upto] /\ (unpaused => outputs' = upto)
        <5>1. outputs' = outputs /\ Value(at) = NoValue /\ ~unpaused
          BY <1>0, <2>0, <4>0, <4>3 DEF TypeOK, TaskInv, Appends, Raises, Results, Value, Index
        <5> DEFINE v == Value(at)
        <5> HIDE DEF before, upto, unpaused, v
        <5>4. v \in Output /\ v = NoValue /\ before \in Seq(Output)
          BY <5>1, <4>1 DEF v
        <5>3. WithValue[Append(before, v)] = WithValue[before]
          BY <5>4, WithValueFacts
        <5>2. WithValue[outputs'] = WithValue[upto]
          BY <5>1, <3>0, <4>1, <5>3 DEF v
        <5> QED
          BY <5>1, <5>2
      <4>4. WithValue[outputs'] = WithValue[upto] /\ (unpaused => outputs' = upto)
        BY <4>2, <4>3
      <4>5. at' - 1 = at
        BY <2>1, <4>0
      <4> QED
        BY <1>1, <1>2, <4>4, <4>5 DEF OutputsInv, Value
    <3> QED
      BY <2>0, <3>1, <3>2
  <2> QED
    BY <1>3, <2>3, <2>4, <2>5, <2>6 DEF Running
<1> QED
  BY <1>5, <1>6, <1>7

\* In parallel, the thread of the node before it collects anything, and at its end.
LEMMA SubmitStep ==
  ASSUME Running, Submit
  PROVE  Running'
<1> USE IterationAssumption
<1>0. TypeOK /\ NothingOutlives /\ TaskInv /\ SequentialInv /\ ParallelInv /\ OutputsInv
  BY DEF Running
<1>1. /\ parallel /\ pc = "submit" /\ at \in Index /\ collected = {} /\ task[at] = "none"
      /\ \A i \in Index : i >= at <=> task[i] = "none"
  BY <1>0 DEF SequentialInv, ParallelInv, Submit, TypeOK, Index
<1>2. /\ task' = [task EXCEPT ![at] = "queued"] /\ at' = at + 1
      /\ pc' = IF at = items THEN "collect" ELSE "submit"
      /\ UNCHANGED <<items, mode, parallel, flatten, engines, asked, result, collected, outputs, usage>>
  BY DEF Submit
<1>3. at' \in 1..(items + 1) /\ pc' \in {"collect", "submit"} /\ Index' = Index
      /\ (pc' = "submit" => at' \in Index)
  BY <1>0, <1>1, <1>2 DEF TypeOK, Index
<1>4. TypeOK'
  BY <1>0, <1>1, <1>2, <1>3 DEF TypeOK
<1>5. NothingOutlives' /\ TaskInv'
  BY <1>0, <1>1, <1>2, <1>3 DEF TypeOK, NothingOutlives, TaskInv, Ended
<1>6. SequentialInv'
  BY <1>1, <1>2 DEF SequentialInv
<1>7. ParallelInv'
  <2>1. \A i \in Index : i >= at' <=> task'[i] = "none"
    BY <1>0, <1>1, <1>2 DEF TypeOK, Index
  <2>2. pc' = "collect" => \A i \in Index : task'[i] # "none"
    <3>1. pc' = "collect" => at = items
      BY <1>2
    <3>2. \A i \in Index : i < at => task[i] # "none"
      BY <1>0, <1>1 DEF TypeOK, Index
    <3> QED
      BY <3>1, <3>2, <1>0, <1>1, <1>2 DEF TypeOK, Index
  <2> QED
    BY <1>0, <1>1, <1>2, <1>3, <2>1, <2>2 DEF ParallelInv
<1>8. OutputsInv'
  BY <1>0, <1>1, <1>2, <1>3 DEF OutputsInv
<1> QED
  BY <1>4, <1>5, <1>6, <1>7, <1>8 DEF Running

\* A future is collected: whatever its child ended with, it is counted and its
\* output is the one at its place.
LEMMA CollectStep ==
  ASSUME Running, NEW i \in Index,
         Collect(i) \/ CollectHandled(i) \/ CollectTerminates(i) \/ CollectAborted(i)
  PROVE  Running'
<1> USE IterationAssumption
<1>0. TypeOK /\ NothingOutlives /\ TaskInv /\ SequentialInv /\ ParallelInv /\ OutputsInv
  BY DEF Running
<1>1. /\ pc = "collect" /\ task[i] = "done" /\ i \notin collected /\ collected' = collected \cup {i}
      /\ items' = items /\ mode' = mode /\ parallel' = parallel /\ flatten' = flatten /\ engines' = engines
      /\ asked' = asked /\ result' = result /\ Index' = Index
  BY DEF Collect, CollectHandled, CollectTerminates, CollectAborted, Ready, Index
<1>2. parallel /\ usage[i] = 0 /\ result[i] \in Results /\ (i \in engines \/ result[i] = "error")
  BY <1>0, <1>1 DEF SequentialInv, ParallelInv, TaskInv, TypeOK
<1> DEFINE c == IF i \in engines THEN 1 ELSE 0
           put == [j \in Index |-> IF j \in collected THEN Value(j) ELSE NoValue]
           put1 == [j \in Index |-> IF j \in collected \cup {i} THEN Value(j) ELSE NoValue]
<1>3. usage' = [usage EXCEPT ![i] = c]
  <2>1. CASE Collect(i)
    <3>1. usage' = [usage EXCEPT ![i] = usage[i] + 1] /\ i \in engines
      BY <1>2, <2>1, Zenon DEF Collect, Raises
    <3> QED
      BY <1>2, <3>1
  <2>2. CASE CollectHandled(i) \/ CollectTerminates(i) \/ CollectAborted(i)
    <3>1. usage' = [usage EXCEPT ![i] = usage[i] + c]
      BY <2>2, Zenon DEF CollectHandled, CollectTerminates, CollectAborted, Merged
    <3> QED
      BY <1>2, <3>1
  <2> QED
    BY <2>1, <2>2
<1>4. outputs = put
  BY <1>0, <1>1, <1>2 DEF OutputsInv
<1>5. outputs' = put1
  <2>1. CASE Collect(i)
    <3>1. outputs' = [outputs EXCEPT ![i] = Value(i)]
      BY <2>1 DEF Collect
    <3> QED
      BY <1>4, <3>1
  <2>2. CASE CollectHandled(i)
    <3>1. outputs' = [outputs EXCEPT ![i] = NoValue] /\ Value(i) = NoValue
      BY <2>2 DEF CollectHandled, Value, Raises
    <3> QED
      BY <1>4, <3>1
  <2>3. CASE CollectTerminates(i) \/ CollectAborted(i)
    <3>1. outputs' = outputs /\ Value(i) = NoValue
      BY <2>3 DEF CollectTerminates, CollectAborted, Value, Raises
    <3> QED
      BY <1>4, <3>1
  <2> QED
    BY <2>1, <2>2, <2>3
<1>6. c \in 0..1 /\ put1 \in Seq(0..MaxItems)
  <2>1. \A j \in Index : (IF j \in collected \cup {i} THEN Value(j) ELSE NoValue) \in 0..MaxItems
    BY <1>0 DEF TypeOK, Index, Value, NoValue
  <2>2. items \in Nat
    BY <1>0 DEF TypeOK
  <2> HIDE DEF Value
  <2> QED
    BY <2>1, <2>2 DEF Index
<1>7. (c = 1 /\ i \in engines) \/ (c = 0 /\ i \notin engines)
  <2>1. CASE i \in engines
    <3>1. c = 1
      BY <2>1, Zenon
    <3> HIDE DEF c
    <3> QED
      BY <2>1, <3>1
  <2>2. CASE i \notin engines
    BY <2>2
  <2> QED
    BY <2>1, <2>2
<1>8. Value(i)' = Value(i) /\ \A j \in Index : Value(j)' = Value(j)
  BY <1>1 DEF Value
<1> HIDE DEF c
<1>9. \A j \in collected' : task[j] = "done" /\ usage'[j] = IF j \in engines THEN 1 ELSE 0
  BY <1>0, <1>1, <1>2, <1>3, <1>7 DEF TypeOK, ParallelInv, Counted
<1>10. \A j \in Index \ collected' : usage'[j] = 0
  BY <1>0, <1>1, <1>2, <1>3 DEF TypeOK, ParallelInv
<1>11. SequentialInv'
  BY <1>1, <1>2 DEF SequentialInv
<1>12. CASE Collect(i) \/ CollectHandled(i)
  <2>1. pc' = "collect" /\ at' = at /\ task' = task
    BY <1>1, <1>12 DEF Collect, CollectHandled
  <2>2. TypeOK'
    BY <1>0, <1>1, <1>3, <1>5, <1>6, <2>1 DEF TypeOK
  <2>3. NothingOutlives' /\ TaskInv'
    BY <1>0, <1>1, <2>1 DEF NothingOutlives, TaskInv, Ended
  <2>4. ParallelInv'
    BY <1>0, <1>1, <1>2, <1>9, <1>10, <2>1 DEF ParallelInv, Counted
  <2>5. OutputsInv'
    BY <1>1, <1>2, <1>5, <1>8, <2>1 DEF OutputsInv
  <2> QED
    BY <1>11, <2>2, <2>3, <2>4, <2>5 DEF Running
<1>13. CASE CollectTerminates(i)
  <2>1. /\ pc' = "shutdown" /\ at' = at
        /\ task' = [j \in Index |-> IF task[j] = "queued" THEN "cancelled" ELSE task[j]]
        /\ mode = "terminated" /\ result[i] \in {"failed", "error"}
    BY <1>2, <1>13 DEF CollectTerminates, Raises, Results
  <2>2. TypeOK'
    BY <1>0, <1>1, <1>3, <1>5, <1>6, <2>1 DEF TypeOK
  <2>3. NothingOutlives' /\ TaskInv'
    BY <1>0, <1>1, <2>1 DEF TypeOK, NothingOutlives, TaskInv, Ended
  <2>4. FailureTerminated'
    BY <1>1, <1>2, <2>1 DEF FailureTerminated
  <2>5. ParallelInv'
    BY <1>0, <1>1, <1>2, <1>9, <1>10, <2>1, <2>4 DEF TypeOK, ParallelInv, Counted
  <2>6. OutputsInv'
    BY <1>1, <1>2, <1>5, <1>8, <2>1 DEF OutputsInv
  <2> QED
    BY <1>11, <2>2, <2>3, <2>5, <2>6 DEF Running
<1>14. CASE CollectAborted(i)
  <2>1. pc' = "abort" /\ at' = 1 /\ task' = task
    BY <1>14 DEF CollectAborted
  <2>2. TypeOK'
    BY <1>0, <1>1, <1>3, <1>5, <1>6, <2>1 DEF TypeOK
  <2>3. NothingOutlives' /\ TaskInv'
    BY <1>0, <1>1, <2>1 DEF NothingOutlives, TaskInv, Ended
  <2>4. at' \in Index /\ \A j \in Index : ~(j < at')
    BY <1>0, <2>1 DEF TypeOK, Index
  <2>5. ParallelInv'
    BY <1>0, <1>1, <1>2, <1>9, <1>10, <2>1, <2>4 DEF ParallelInv, Counted
  <2>6. OutputsInv'
    BY <1>1, <1>2, <1>5, <1>8, <2>1 DEF OutputsInv
  <2> QED
    BY <1>11, <2>2, <2>3, <2>5, <2>6 DEF Running
<1> QED
  BY <1>12, <1>13, <1>14

\* One more sibling is asked to abort or cancelled; none is left in the queue.
LEMMA AbortStep ==
  ASSUME Running, AbortSibling
  PROVE  Running'
<1> USE IterationAssumption
<1>0. TypeOK /\ NothingOutlives /\ TaskInv /\ SequentialInv /\ ParallelInv /\ OutputsInv
  BY DEF Running
<1>1. /\ pc = "abort"
      /\ items' = items /\ mode' = mode /\ parallel' = parallel /\ flatten' = flatten /\ engines' = engines
      /\ result' = result /\ collected' = collected /\ outputs' = outputs /\ usage' = usage
      /\ Index' = Index
  BY DEF AbortSibling, Index
<1>2. parallel /\ at \in Index
  BY <1>0, <1>1 DEF SequentialInv, ParallelInv
<1>3. \/ at = items /\ pc' = "drain" /\ at' = 1
      \/ at < items /\ pc' = "abort" /\ at' = at + 1
  BY <1>0, <1>1, <1>2 DEF AbortSibling, TypeOK, Index
<1>4. at' \in Index /\ asked' \subseteq engines
  BY <1>0, <1>1, <1>2, <1>3 DEF AbortSibling, TypeOK, Index
<1>5. /\ task'[at] = IF task[at] = "queued" THEN "cancelled" ELSE task[at]
      /\ \A i \in Index \ {at} : task'[i] = task[i]
      /\ task' \in [Index -> {"none", "queued", "started", "running", "done", "cancelled"}]
  BY <1>0, <1>2 DEF AbortSibling, TypeOK
<1>6. TypeOK'
  BY <1>0, <1>1, <1>3, <1>4, <1>5 DEF TypeOK, Index
<1>7. NothingOutlives' /\ TaskInv'
  BY <1>0, <1>1, <1>2, <1>3, <1>5 DEF NothingOutlives, TaskInv, Ended
<1>8. SequentialInv'
  BY <1>1, <1>2 DEF SequentialInv
<1>9. ParallelInv'
  <2>1. \A i \in Index : task'[i] # "none" /\ (task[i] = "done" => task'[i] = "done")
    BY <1>0, <1>1, <1>2, <1>5 DEF ParallelInv
  <2>2. pc' = "abort" => \A i \in Index : i < at' => task'[i] # "queued"
    BY <1>0, <1>1, <1>2, <1>3, <1>5 DEF ParallelInv, TypeOK, Index
  <2>3. pc' = "drain" => \A i \in Index : task'[i] # "queued" /\ ~(i < at')
    BY <1>0, <1>1, <1>2, <1>3, <1>5 DEF ParallelInv, TypeOK, Index
  <2>4. \A i \in collected : task[i] = "done" /\ Counted(i)
    BY <1>0, <1>2 DEF ParallelInv
  <2>5. \A i \in Index \ collected : usage[i] = 0
    BY <1>0, <1>1, <1>2 DEF ParallelInv
  <2>6. pc' \in {"abort", "drain"} /\ collected \subseteq Index
    BY <1>0, <1>3 DEF TypeOK
  <2>7. \A i \in collected : task'[i] = "done" /\ Counted(i)'
    BY <1>1, <2>1, <2>4, <2>6 DEF Counted
  <2>8. pc' = "drain" => \A i \in Index \ collected :
                           IF i < at' THEN task'[i] \in {"done", "cancelled"} /\ Counted(i)' ELSE usage'[i] = 0
    BY <1>1, <2>3, <2>5
  <2> QED
    BY <1>1, <1>2, <1>4, <2>1, <2>2, <2>3, <2>5, <2>6, <2>7, <2>8 DEF ParallelInv
<1>10. OutputsInv'
  <2>1. \A i : Value(i)' = Value(i)
    BY <1>1 DEF Value
  <2>2. pc # "succeeded" /\ pc' # "succeeded"
    BY <1>1, <1>3
  <2>3. outputs = [i \in Index |-> IF i \in collected THEN Value(i) ELSE NoValue]
    BY <1>0, <1>2, <2>2 DEF OutputsInv
  <2>4. outputs' = [i \in Index |-> IF i \in collected THEN Value(i)' ELSE NoValue]
    BY <1>1, <2>1, <2>3
  <2> QED
    BY <1>1, <1>2, <2>2, <2>4 DEF OutputsInv
<1> QED
  BY <1>6, <1>7, <1>8, <1>9, <1>10 DEF Running

\* One more sibling is over, and counted if it was not when it was collected.
LEMMA DrainStep ==
  ASSUME Running, Drain
  PROVE  Running'
<1> USE IterationAssumption
<1>0. TypeOK /\ NothingOutlives /\ TaskInv /\ SequentialInv /\ ParallelInv /\ OutputsInv
  BY DEF Running
<1>1. /\ pc = "drain" /\ task[at] \in {"done", "cancelled"}
      /\ items' = items /\ mode' = mode /\ parallel' = parallel /\ flatten' = flatten /\ engines' = engines
      /\ result' = result /\ collected' = collected /\ outputs' = outputs /\ asked' = asked
      /\ task' = task /\ Index' = Index
  BY DEF Drain, Index
<1>2. parallel /\ at \in Index
  BY <1>0, <1>1 DEF SequentialInv, ParallelInv
<1>3. \/ at = items /\ pc' = "shutdown" /\ at' = at
      \/ at < items /\ pc' = "drain" /\ at' = at + 1
  BY <1>0, <1>2 DEF Drain, TypeOK, Index
<1> DEFINE c == IF at \in engines THEN 1 ELSE 0
<1>4. /\ c \in 0..1
      /\ (c = 1 /\ at \in engines) \/ (c = 0 /\ at \notin engines)
  <2>1. CASE at \in engines
    <3>1. c = 1
      BY <2>1, Zenon
    <3> HIDE DEF c
    <3> QED
      BY <2>1, <3>1
  <2>2. CASE at \notin engines
    BY <2>2
  <2> QED
    BY <2>1, <2>2
<1>5. usage' \in [Index -> 0..1] /\ usage'[at] = c /\ \A i \in Index \ {at} : usage'[i] = usage[i]
  <2>1. CASE at \in collected
    <3>1. usage' = usage
      BY <2>1 DEF Drain
    <3>2. usage[at] = c
      BY <1>0, <1>2, <2>1, Zenon DEF ParallelInv, Counted
    <3> QED
      BY <1>0, <3>1, <3>2 DEF TypeOK
  <2>2. CASE at \notin collected /\ task[at] = "done"
    <3>1. usage[at] = 0 /\ usage' = [usage EXCEPT ![at] = usage[at] + c]
      BY <1>0, <1>1, <1>2, <2>2 DEF Drain, ParallelInv, Merged, TypeOK, Index
    <3> QED
      BY <1>0, <1>2, <1>4, <3>1 DEF TypeOK
  <2>3. CASE at \notin collected /\ task[at] = "cancelled"
    <3>1. usage[at] = 0 /\ usage' = usage /\ at \notin engines
      BY <1>0, <1>1, <1>2, <2>3 DEF Drain, ParallelInv, TaskInv, TypeOK, Index
    <3> QED
      BY <1>0, <1>2, <3>1 DEF TypeOK
  <2> QED
    BY <1>1, <2>1, <2>2, <2>3
<1> HIDE DEF c
<1>6. TypeOK'
  BY <1>0, <1>1, <1>2, <1>3, <1>5 DEF TypeOK, Index
<1>7. NothingOutlives' /\ TaskInv'
  BY <1>0, <1>1, <1>3 DEF NothingOutlives, TaskInv, Ended
<1>8. SequentialInv'
  BY <1>1, <1>2 DEF SequentialInv
<1>9. ParallelInv'
  <2>1. \A i \in collected : task[i] = "done" /\ usage'[i] = IF i \in engines THEN 1 ELSE 0
    BY <1>0, <1>1, <1>2, <1>4, <1>5 DEF ParallelInv, Counted, TypeOK
  <2>2. \A i \in Index \ collected :
           /\ i <= at => task[i] \in {"done", "cancelled"} /\ usage'[i] = IF i \in engines THEN 1 ELSE 0
           /\ ~(i <= at) => usage'[i] = 0
    <3> TAKE i \in Index \ collected
    <3>1. CASE i = at
      BY <1>0, <1>1, <1>4, <1>5, <3>1 DEF TypeOK, Index
    <3>2. CASE i # at
      <4>1. /\ i <= at <=> i < at
            /\ usage'[i] = usage[i]
        BY <1>0, <1>2, <1>5, <3>2 DEF TypeOK, Index
      <4>2. IF i < at THEN task[i] \in {"done", "cancelled"} /\ Counted(i) ELSE usage[i] = 0
        BY <1>0, <1>1, <1>2 DEF ParallelInv
      <4> QED
        BY <4>1, <4>2 DEF Counted
    <3> QED
      BY <3>1, <3>2
  <2>3. pc' = "drain" => at' \in Index /\ \A i \in Index : i < at' <=> i <= at
    BY <1>0, <1>2, <1>3 DEF TypeOK, Index
  <2>4. pc' = "shutdown" => \A i \in Index : i <= at
    BY <1>0, <1>2, <1>3 DEF TypeOK, Index
  <2> QED
    BY <1>0, <1>1, <1>2, <1>3, <2>1, <2>2, <2>3, <2>4 DEF ParallelInv, Counted
<1>10. OutputsInv'
  <2>1. \A i : Value(i)' = Value(i)
    BY <1>1 DEF Value
  <2>2. pc # "succeeded" /\ pc' # "succeeded"
    BY <1>1, <1>3
  <2>3. outputs = [i \in Index |-> IF i \in collected THEN Value(i) ELSE NoValue]
    BY <1>0, <1>2, <2>2 DEF OutputsInv
  <2>4. outputs' = [i \in Index |-> IF i \in collected THEN Value(i)' ELSE NoValue]
    BY <1>1, <2>1, <2>3
  <2> QED
    BY <1>1, <1>2, <2>2, <2>4 DEF OutputsInv
<1> QED
  BY <1>6, <1>7, <1>8, <1>9, <1>10 DEF Running

\* The executor's block has been left: nothing runs.
LEMMA ShutdownStep ==
  ASSUME Running, Shutdown
  PROVE  Running'
<1> USE IterationAssumption
<1>0. TypeOK /\ NothingOutlives /\ TaskInv /\ SequentialInv /\ ParallelInv /\ OutputsInv
  BY DEF Running
<1>1. /\ pc = "shutdown" /\ pc' = "failed"
      /\ \A i \in Index : task[i] \notin {"started", "running"}
      /\ items' = items /\ mode' = mode /\ parallel' = parallel /\ flatten' = flatten /\ engines' = engines
      /\ result' = result /\ collected' = collected /\ outputs' = outputs /\ asked' = asked
      /\ task' = task /\ Index' = Index /\ usage' = usage /\ at' = at
  BY DEF Shutdown, Index
<1>2. parallel
  BY <1>0, <1>1 DEF SequentialInv
<1>3. TypeOK' /\ TaskInv' /\ SequentialInv'
  BY <1>0, <1>1, <1>2 DEF TypeOK, TaskInv, SequentialInv
<1>4. NothingOutlives'
  BY <1>1 DEF NothingOutlives, Active
<1>5. FailureTerminated' = FailureTerminated
  BY <1>1 DEF FailureTerminated
<1>6. ParallelInv'
  BY <1>0, <1>1, <1>2, <1>5 DEF ParallelInv, Counted
<1>7. OutputsInv'
  <2>1. \A i : Value(i)' = Value(i)
    BY <1>1 DEF Value
  <2>2. outputs = [i \in Index |-> IF i \in collected THEN Value(i) ELSE NoValue]
    BY <1>0, <1>1, <1>2 DEF OutputsInv
  <2>3. outputs' = [i \in Index |-> IF i \in collected THEN Value(i)' ELSE NoValue]
    BY <1>1, <2>1, <2>2
  <2> QED
    BY <1>1, <1>2, <2>3 DEF OutputsInv
<1> QED
  BY <1>3, <1>4, <1>6, <1>7 DEF Running

\* Every future has been collected, and with it every output.
LEMMA FinalizeStep ==
  ASSUME Running, Finalize
  PROVE  Running'
<1> USE IterationAssumption
<1>0. TypeOK /\ NothingOutlives /\ TaskInv /\ SequentialInv /\ ParallelInv /\ OutputsInv
  BY DEF Running
<1>1. /\ pc = "collect" /\ pc' = "succeeded" /\ collected = Index
      /\ outputs' = IF mode = "remove-abnormal-output" THEN WithValue[outputs] ELSE outputs
      /\ items' = items /\ mode' = mode /\ parallel' = parallel /\ flatten' = flatten /\ engines' = engines
      /\ result' = result /\ collected' = collected /\ asked' = asked
      /\ task' = task /\ Index' = Index /\ usage' = usage /\ at' = at
  BY DEF Finalize, Index
<1>2. parallel
  BY <1>0, <1>1 DEF SequentialInv
<1>3. TypeOK'
  <2>1. WithValue[outputs] \in Seq(0..MaxItems)
    BY <1>0, WithValueFacts DEF TypeOK, Output
  <2>2. outputs' \in Seq(0..MaxItems)
    BY <1>0, <1>1, <2>1 DEF TypeOK
  <2> QED
    BY <1>0, <1>1, <2>2 DEF TypeOK
<1>4. TaskInv' /\ SequentialInv'
  BY <1>0, <1>1, <1>2 DEF TaskInv, SequentialInv
<1>5. NothingOutlives'
  BY <1>0, <1>1, <1>2 DEF NothingOutlives, Active, ParallelInv
<1>6. ParallelInv'
  BY <1>0, <1>1, <1>2 DEF ParallelInv, Counted
<1>7. OutputsInv'
  <2> DEFINE all == [i \in Index |-> Value(i)]
             put == [i \in Index |-> IF i \in Index THEN Value(i) ELSE NoValue]
  <2>1. \A i : Value(i)' = Value(i)
    BY <1>1 DEF Value
  <2>2. outputs = put
    BY <1>0, <1>1, <1>2 DEF OutputsInv
  <2>3. put = all
    <3> HIDE DEF Value
    <3> QED
      OBVIOUS
  <2>4. outputs' = IF mode = "remove-abnormal-output" THEN WithValue[all] ELSE put
    BY <1>1, <2>2, <2>3
  <2> QED
    BY <1>1, <1>2, <2>1, <2>4 DEF OutputsInv
<1> QED
  BY <1>3, <1>4, <1>5, <1>6, <1>7 DEF Running

\* A thread of the pool or a child engine moves: only futures nobody has looked
\* at yet do.
LEMMA PoolMoves ==
  ASSUME Running, NEW i \in Index, Start(i) \/ CreateEngine(i) \/ ChildEnds(i)
  PROVE  Running'
<1> USE IterationAssumption
<1>0. TypeOK /\ NothingOutlives /\ TaskInv /\ SequentialInv /\ ParallelInv /\ OutputsInv
  BY DEF Running
<1>1. /\ pc' = pc /\ at' = at /\ collected' = collected /\ outputs' = outputs /\ usage' = usage
      /\ items' = items /\ mode' = mode /\ parallel' = parallel /\ flatten' = flatten /\ asked' = asked
      /\ Index' = Index
  BY DEF Start, CreateEngine, ChildEnds, node, Index
<1>2. \/ /\ task[i] = "queued" /\ task' = [task EXCEPT ![i] = "started"]
         /\ engines' = engines /\ result' = result
      \/ /\ task[i] = "started" /\ task' = [task EXCEPT ![i] = "running"]
         /\ engines' = engines \cup {i} /\ result' = result
      \/ /\ task[i] = "started" /\ task' = [task EXCEPT ![i] = "done"]
         /\ engines' = engines /\ result' = [result EXCEPT ![i] = "error"]
      \/ /\ task[i] = "running" /\ task' = [task EXCEPT ![i] = "done"] /\ i \in engines
         /\ engines' = engines /\ \E r \in Results : result' = [result EXCEPT ![i] = r]
  BY <1>0 DEF Start, CreateEngine, ChildEnds, TaskInv
<1>3. /\ task[i] \in {"queued", "started", "running"} /\ task'[i] \in {"started", "running", "done"}
      /\ \A j \in Index \ {i} : task'[j] = task[j] /\ result'[j] = result[j] /\ (j \in engines' <=> j \in engines)
      /\ result[i] = "unknown"
  BY <1>0, <1>2 DEF TypeOK, TaskInv
<1>4. TypeOK'
  <2>1. /\ task' \in [Index -> {"none", "queued", "started", "running", "done", "cancelled"}]
        /\ engines' \subseteq Index /\ engines \subseteq engines'
    BY <1>0, <1>2 DEF TypeOK
  <2>2. result' \in [Index -> Results \cup {"unknown"}]
    BY <1>0, <1>2 DEF TypeOK, Results
  <2> QED
    BY <1>0, <1>1, <2>1, <2>2 DEF TypeOK
<1>5. NothingOutlives'
  <2>1. pc \notin {"succeeded", "failed", "raised"}
    <3>1. CASE parallel
      BY <1>0, <1>3, <3>1 DEF ParallelInv, NothingOutlives, Ended, Active
    <3>2. CASE ~parallel
      BY <1>0, <1>3, <3>2 DEF SequentialInv, NothingOutlives, Ended, Active, TypeOK, Index
    <3> QED
      BY <3>1, <3>2
  <2> QED
    BY <1>1, <2>1 DEF NothingOutlives, Ended
<1>6. TaskInv'
  BY <1>0, <1>1, <1>2, <1>3 DEF TypeOK, TaskInv, Results
<1>7. ~parallel => pc = "wait" /\ i = at /\ task[i] = "running" /\ engines' = engines /\ task'[i] = "done"
  BY <1>0, <1>2, <1>3 DEF SequentialInv, TypeOK, NothingOutlives, Ended, Active, Index
<1>8. SequentialInv'
  BY <1>0, <1>1, <1>3, <1>7 DEF SequentialInv, Counted, TypeOK, Index
<1>9. ParallelInv'
  <2>1. SUFFICES ASSUME parallel PROVE ParallelInv'
    BY <1>1 DEF ParallelInv
  <2>2. i \notin collected
    BY <1>0, <1>3, <2>1 DEF ParallelInv
  <2>3. pc \notin {"succeeded", "failed"}
    BY <1>0, <1>3, <2>1 DEF ParallelInv, NothingOutlives, Ended, Active
  <2>4. \A j \in Index \ {i} : (Counted(j) => Counted(j)') /\ usage'[j] = usage[j]
    BY <1>1, <1>3 DEF Counted
  <2>5. \A j \in collected : j # i /\ j \in Index /\ task'[j] = "done" /\ Counted(j)'
    BY <1>0, <1>3, <2>1, <2>2, <2>4 DEF ParallelInv, TypeOK
  <2>6. pc # "shutdown" \/ FailureTerminated'
    <3>1. pc = "shutdown" => FailureTerminated
      BY <1>0, <1>3, <2>1 DEF ParallelInv
    <3>2. FailureTerminated => FailureTerminated'
      BY <1>1, <1>3, <2>5 DEF FailureTerminated
    <3> QED
      BY <3>1, <3>2
  <2>7. pc = "drain" => \A j \in Index \ collected :
                          IF j < at THEN task'[j] \in {"done", "cancelled"} /\ Counted(j)' ELSE usage'[j] = 0
    <3> SUFFICES ASSUME pc = "drain", NEW j \in Index \ collected
                 PROVE  IF j < at THEN task'[j] \in {"done", "cancelled"} /\ Counted(j)' ELSE usage'[j] = 0
      OBVIOUS
    <3>1. IF j < at THEN task[j] \in {"done", "cancelled"} /\ Counted(j) ELSE usage[j] = 0
      BY <1>0, <2>1 DEF ParallelInv
    <3>2. CASE j = i
      BY <1>1, <1>3, <3>1, <3>2
    <3>3. CASE j # i
      BY <1>3, <2>4, <3>1, <3>3
    <3> QED
      BY <3>2, <3>3
  <2>8. /\ pc = "submit" => \A j \in Index : j >= at <=> task'[j] = "none"
        /\ pc # "submit" => \A j \in Index : task'[j] # "none"
    BY <1>0, <1>3, <2>1 DEF ParallelInv
  <2>9. /\ pc = "abort" => \A j \in Index : j < at => task'[j] # "queued"
        /\ pc \in {"drain", "shutdown"} => \A j \in Index : task'[j] # "queued"
    BY <1>0, <1>3, <2>1 DEF ParallelInv
  <2> QED
    BY <1>0, <1>1, <2>1, <2>3, <2>5, <2>6, <2>7, <2>8, <2>9 DEF ParallelInv
<1>10. OutputsInv'
  <2>1. CASE parallel
    <3>1. i \notin collected /\ pc # "succeeded"
      BY <1>0, <1>3, <2>1 DEF ParallelInv
    <3>2. \A j \in Index \ {i} : Value(j)' = Value(j)
      BY <1>3 DEF Value
    <3>3. outputs = [j \in Index |-> IF j \in collected THEN Value(j) ELSE NoValue]
      BY <1>0, <2>1, <3>1 DEF OutputsInv
    <3>4. \A j \in Index : (IF j \in collected THEN Value(j) ELSE NoValue) =
                           (IF j \in collected THEN Value(j)' ELSE NoValue)
      BY <3>1, <3>2
    <3>5. outputs' = [j \in Index |-> IF j \in collected THEN Value(j)' ELSE NoValue]
      BY <1>1, <3>3, <3>4
    <3> QED
      BY <1>1, <2>1, <3>1, <3>5 DEF OutputsInv
  <2>2. CASE ~parallel
    <3>1. i = at /\ at \in Nat /\ items \in Nat
      BY <1>0, <1>7, <2>2 DEF TypeOK, Index
    <3>2. \A j \in 1..(at - 1) : Value(j)' = Value(j)
      BY <1>0, <1>3, <3>1 DEF Value, TypeOK, Index
    <3>3. [j \in 1..(at - 1) |-> Value(j)'] = [j \in 1..(at - 1) |-> Value(j)]
      BY <3>2
    <3>4. (\A j \in Index : result'[j] # "paused") => (\A j \in Index : result[j] # "paused")
      BY <1>3
    <3> QED
      BY <1>0, <1>1, <2>2, <3>3, <3>4 DEF OutputsInv
  <2> QED
    BY <2>1, <2>2
<1> QED
  BY <1>4, <1>5, <1>6, <1>8, <1>9, <1>10 DEF Running

LEMMA IterationGoesOn == Running /\ [Next]_vars => Running'
<1> SUFFICES ASSUME Running, [Next]_vars PROVE Running'
  OBVIOUS
<1>1. CASE UNCHANGED vars
  BY <1>1 DEF vars, Running, TypeOK, NothingOutlives, TaskInv, SequentialInv, ParallelInv, OutputsInv,
     Index, Ended, Active, Counted, FailureTerminated, Value
<1>2. CASE NodeStep
  BY <1>2, SequentialStep, SubmitStep, AbortStep, DrainStep, ShutdownStep, FinalizeStep, CollectStep
     DEF NodeStep
<1>3. CASE PoolStep
  BY <1>3, PoolMoves DEF PoolStep
<1> QED
  BY <1>1, <1>2, <1>3 DEF Next

\* The values are those of the items that have one, in their order.
LEMMA OrderFollows == Running => Inv
<1> SUFFICES ASSUME Running PROVE Inv
  OBVIOUS
<1>0. TypeOK /\ NothingOutlives /\ TaskInv /\ SequentialInv /\ ParallelInv /\ OutputsInv
  BY DEF Running
<1>1. ASSUME pc = "succeeded" PROVE WithValue[outputs] = WithValue[[i \in Index |-> Value(i)]]
  <2> DEFINE all == [i \in Index |-> Value(i)]
  <2>1. CASE ~parallel
    BY <1>0, <1>1, <2>1 DEF SequentialInv, OutputsInv, TypeOK, Index
  <2>2. CASE parallel
    <3>1. collected = Index
      BY <1>0, <1>1, <2>2 DEF ParallelInv
    <3>2. outputs = WithValue[all] \/ outputs = all
      BY <1>0, <1>1, <2>2, <3>1 DEF OutputsInv
    <3>3. all \in Seq(Output)
      <4>1. \A i \in Index : Value(i) \in Output
        BY <1>0, IterationAssumption DEF TypeOK, Value, NoValue, Output, Index
      <4>2. items \in Nat
        BY <1>0, IterationAssumption DEF TypeOK
      <4> HIDE DEF Value
      <4> QED
        BY <4>1, <4>2 DEF Index
    <3> HIDE DEF all
    <3> QED
      BY <3>2, <3>3, WithValueOnce DEF all
  <2> QED
    BY <2>1, <2>2
<1>2. WithValue[NodeOutput] = WithValue[outputs]
  <2>1. NodeOutput = WithValue[outputs] \/ NodeOutput = outputs
    BY DEF NodeOutput
  <2>2. outputs \in Seq(Output)
    BY <1>0 DEF TypeOK, Output
  <2> QED
    BY <2>1, <2>2, WithValueOnce
<1> QED
  BY <1>0, <1>1, <1>2 DEF Inv, ValuesInOrder

LEMMA PlacesFollow == Running => PlacesKept
<1> SUFFICES ASSUME Running, pc = "succeeded", mode # "remove-abnormal-output",
                    parallel \/ "paused" \notin Range(result)
             PROVE  NodeOutput = LET inPlace == [i \in Index |-> Value(i)]
                                 IN  IF flatten /\ OnlyLists THEN WithValue[inPlace] ELSE inPlace
  BY DEF PlacesKept
<1>0. TypeOK /\ NothingOutlives /\ TaskInv /\ SequentialInv /\ ParallelInv /\ OutputsInv
  BY DEF Running
<1>1. outputs = [i \in Index |-> Value(i)]
  <2>1. CASE parallel
    BY <1>0, <2>1 DEF ParallelInv, OutputsInv
  <2>2. CASE ~parallel
    <3>1. \A i \in Index : result[i] # "paused"
      BY <1>0, <2>2 DEF TypeOK, Range
    <3>2. at - 1 = items
      BY <1>0, <2>2 DEF SequentialInv, TypeOK
    <3> QED
      BY <1>0, <2>2, <3>1, <3>2 DEF OutputsInv, Index
  <2> QED
    BY <2>1, <2>2
<1> DEFINE set == {k \in DOMAIN outputs : outputs[k] # NoValue}
<1>2. /\ set = {i \in Index : result[i] \in {"value", "list"}}
      /\ \A i \in set : outputs[i] = i
  <2>1. \A i \in Index : /\ Value(i) # NoValue <=> result[i] \in {"value", "list"}
                         /\ Value(i) # NoValue => Value(i) = i
    BY <1>0, IterationAssumption DEF Value, NoValue, TypeOK, Index
  <2>2. DOMAIN outputs = Index /\ \A i \in Index : outputs[i] = Value(i)
    BY <1>1
  <2> HIDE DEF Value
  <2> QED
    BY <2>1, <2>2
<1>3. (set # {} /\ \A k \in set : result[outputs[k]] = "list") <=> OnlyLists
  BY <1>2 DEF OnlyLists
<1> QED
  BY <1>1, <1>3 DEF NodeOutput

LEMMA UsageFollows == Running => UsageAddedOnce
<1>a. ASSUME Running, pc = "raised" PROVE ~parallel /\ (at \notin engines \/ result[at] = "error")
  BY <1>a DEF Running, SequentialInv, ParallelInv
<1> SUFFICES ASSUME Running, Ended, ~FailureTerminated, NEW i \in engines
             PROVE  usage[i] = 1
  BY <1>a DEF UsageAddedOnce
<1>0. TypeOK /\ NothingOutlives /\ TaskInv /\ SequentialInv /\ ParallelInv /\ OutputsInv
  BY DEF Running
<1>1. i \in Index /\ task[i] \in {"running", "done"}
  BY <1>0 DEF TypeOK, TaskInv
<1>2. Counted(i)
  <2>1. CASE parallel
    BY <1>0, <1>1, <2>1 DEF ParallelInv, Ended
  <2>2. CASE ~parallel
    <3>1. i <= at /\ (i < at \/ i = at) /\ at \in Nat
      BY <1>0, <1>1, <2>2 DEF SequentialInv, TypeOK, Index
    <3> QED
      BY <1>0, <1>1, <2>2, <3>1 DEF SequentialInv, TypeOK, Ended, Index
  <2> QED
    BY <2>1, <2>2
<1> QED
  BY <1>2 DEF Counted

-----------------------------------------------------------------------------
(* The three side by side.                                                 *)

Machines == Running /\ L!Inv /\ F!Inv

LEMMA MachinesRun == Spec3 => []Machines
<1>1. Init3 => Machines
  BY IterationStarts, LoopStarts, FormsStart DEF Init3, Machines
<1>2. Machines /\ [Next3]_vars3 => Machines'
  <2> SUFFICES ASSUME Machines, [Next3]_vars3 PROVE Machines'
    OBVIOUS
  <2>1. [Next]_vars /\ [L!Next]_loopVars /\ [F!Next]_formVars
    <3>1. CASE Iterates(Next)
      BY <3>1 DEF Iterates
    <3>2. CASE Loops
      BY <3>2 DEF Loops
    <3>3. CASE Asks(F!Next)
      BY <3>3 DEF Asks
    <3>4. CASE UNCHANGED vars3
      BY <3>4 DEF vars3
    <3> QED
      BY <3>1, <3>2, <3>3, <3>4 DEF Next3
  <2> QED
    BY <2>1, IterationGoesOn, LoopGoesOn, FormsGoOn DEF Machines
<1> QED
  BY <1>1, <1>2, PTL DEF Spec3

\* For every list, mode and number of threads, loop count and set of asking
\* nodes: what an iteration puts out is in the order of its list, whatever the
\* order in which its children complete, and no child outlives it; no round of
\* a loop reads another's variables or follows the break; a node asks with one
\* form and ends as its form says.
THEOREM Invariance == Spec3 => []ContainersInv
<1>1. Machines => ContainersInv
  BY OrderFollows DEF Machines, ContainersInv
<1> QED
  BY <1>1, MachinesRun, PTL

\* Where errors are kept, the output of an item is at its place.
THEOREM OutputsKeepTheirPlaces == Spec3 => []PlacesKept
<1>1. Machines => PlacesKept
  BY PlacesFollow DEF Machines
<1> QED
  BY <1>1, MachinesRun, PTL

\* The usage of every child, of an iteration or of a loop, is added once.
THEOREM UsageIsCounted == Spec3 => []UsageOfEveryChild
<1>1. Machines => UsageOfEveryChild
  BY UsageFollows, LoopCounts DEF Machines, UsageOfEveryChild
<1> QED
  BY <1>1, MachinesRun, PTL

-----------------------------------------------------------------------------
(* The runs of nodes.                                                      *)

EventTypes == Dispatched \cup ResultTypes \cup {"child", "started"}
OwnId == IF saved # NoId THEN saved ELSE "new"

\* What every run keeps, whatever it does: the events so far begin with the one
\* that says so, and carry one id.
EventAt(i) ==
  /\ out[i].type \in EventTypes
  /\ out[i].type = "started" <=> i = 1
  /\ out[i].type # "child" => out[i].id = OwnId
EventInv ==
  /\ kind \in Kinds /\ attempt \in 1..MaxRuns /\ saved \in {NoId, "kept"} /\ xid \in {NoId, OwnId}
  /\ out \in Seq(Range(out))
  /\ stage # "idle" => xid = OwnId /\ Len(out) > 0
  /\ \A i \in 1..Len(out) : EventAt(i)

\* And, unless its _run is one of which nothing is known and goes astray: a result
\* is the last event, after which the run is over or at least yields no more.
HasAnswered == kind = "any" /\ mem = "answered"
ResultAt(i) ==
  out[i].type \in ResultTypes => i = Len(out) /\ (stage \in {"over", "idle"} \/ HasAnswered)
ResultInv ==
  /\ \A i \in 1..Len(out) : ResultAt(i)
  /\ stage = "over" \/ HasAnswered => out[Len(out)].type \in ResultTypes
RunInv == EventInv /\ (~IsAstray => ResultInv)

\* The stream of a selector has been closed; and was not gone on with after that.
IsClosed(s) == \E i \in 1..Len(out) : out[i].selector = s /\ out[i].type = "final"
FinalIsLast(s) ==
  \A i, j \in 1..Len(out) :
    out[i].selector = s /\ out[j].selector = s /\ out[i].type = "final" => j <= i

HasSucceeded == stage = "over" /\ out[Len(out)].type = "succeeded"

\* Of a run of an LLM node: its one stream is closed as the last thing before the
\* result, and the holder has the usage as soon as the answer is complete.
LlmInv ==
  /\ DOMAIN mem = {"text", "usage", "holder", "structured", "streamed", "files", "paramsOf",
                   "format", "result"}
  /\ \A i \in 1..Len(out) : /\ out[i].selector \in {"", "text"}
                            /\ out[i].type = "final" => out[i].selector = "text"
  /\ FinalIsLast("text")
  /\ IsClosed("text") => stage \in {"llm-final", "over", "idle"}
  /\ stage = "llm-final" \/ HasSucceeded => IsClosed("text")
  /\ stage \in {"llm-context", "llm-prompt", "llm-invoke", "llm-stream"} => mem.holder = 0
  /\ stage \in {"llm-context", "llm-prompt", "llm-invoke"} => mem.usage = 0
  /\ stage \in {"llm-answered", "llm-final"} => mem.holder = mem.usage
  /\ stage = "over" =>
       mem.result.usage = IF IsClosed("text") \/ mem.holder # 0 THEN mem.usage ELSE 0

\* Of a run of a tool node: the streams are closed at its end, each of those that
\* finals names is still to be.  (A variable called text shares the stream of the
\* text, of which nothing is said then.)
Streamed == {"text"} \cup DOMAIN mem.variables
ToolStreams == {"text"} \cup ToolVariables
ToolInv ==
  /\ DOMAIN mem = {"text", "variables", "files", "finals", "sent", "usage", "result"}
  /\ DOMAIN mem.variables \subseteq ToolVariables
  /\ \A i \in 1..Len(out) : out[i].selector \in {""} \cup Streamed
  /\ stage = "run" => \A i \in 1..Len(out) : out[i].selector = ""
  /\ stage \in {"run", "tool-message"} => \A s \in ToolStreams : ~IsClosed(s)
  /\ \A s \in ToolStreams : FinalIsLast(s) \/ (s = "text" /\ "text" \in DOMAIN mem.variables)
  /\ stage = "tool-final" =>
       /\ mem.finals \in Seq(DOMAIN mem.variables)
       /\ \A i, j \in 1..Len(mem.finals) : mem.finals[i] = mem.finals[j] => i = j
       /\ \A s \in Streamed \ Range(mem.finals) : IsClosed(s)
       /\ \A s \in Range(mem.finals) \ {"text"} : ~IsClosed(s)
  /\ HasSucceeded => \A s \in Streamed : IsClosed(s)

\* Of a call of a Slim action: what waits in the pipe was printed by the process.
SlimInv ==
  /\ DOMAIN mem = {"action", "expect", "pipe", "exit", "wrote", "left", "held", "answer"}
  /\ mem.pipe \in Seq(Lines)

WorkerInv ==
  /\ RunInv
  /\ kind = "llm" => LlmInv
  /\ kind = "tool" => ToolInv
  /\ kind = "slim" => SlimInv

-----------------------------------------------------------------------------
(* Events.                                                                 *)

\* A sequence with one more element.
LEMMA Appended ==
  ASSUME NEW q, q \in Seq(Range(q)), NEW e
  PROVE  /\ Append(q, e) \in Seq(Range(Append(q, e))) /\ Len(q) \in Nat
         /\ Len(Append(q, e)) = Len(q) + 1 /\ Append(q, e)[Len(q) + 1] = e
         /\ \A i \in 1..Len(q) : Append(q, e)[i] = q[i]
<1> DEFINE u == Append(q, e)
           S == Range(q) \cup {e}
<1>1. q \in Seq(S) /\ e \in S
  BY SeqMonotonic
<1> HIDE DEF S
<1>2. /\ u \in Seq(S) /\ Len(q) \in Nat /\ Len(u) = Len(q) + 1 /\ u[Len(q) + 1] = e
      /\ \A i \in 1..Len(q) : u[i] = q[i]
  BY <1>1, AppendProperties
<1> HIDE DEF u
<1>3. Len(u) \in Nat /\ u \in [1..Len(u) -> S]
  BY <1>2, LenProperties
<1>4. u \in [1..Len(u) -> Range(u)]
  BY <1>3 DEF Range
<1>5. u \in Seq(Range(u))
  BY ONLY <1>3, <1>4, SeqDef
<1> QED
  BY <1>2, <1>5 DEF u

\* A sequence of one element.
LEMMA OneEvent ==
  ASSUME NEW e, NEW u, u = <<e>> PROVE u \in Seq(Range(u)) /\ Len(u) = 1 /\ u[1] = e
<1>1. u \in Seq({e}) /\ Len(u) = 1 /\ u[1] = e /\ DOMAIN u = {1}
  OBVIOUS
<1>2. Range(u) = {e}
  BY <1>1 DEF Range
<1> QED
  BY <1>1, <1>2

\* What one more event does to the streams.
LEMMA StreamsAfter ==
  ASSUME out \in Seq(Range(out)), NEW e, out' = Append(out, e)
  PROVE  /\ \A s : IsClosed(s)' <=> IsClosed(s) \/ (e.selector = s /\ e.type = "final")
         /\ \A s : e.selector # s /\ FinalIsLast(s) => FinalIsLast(s)'
         /\ \A s : ~IsClosed(s) => FinalIsLast(s)'
<1> DEFINE n == Len(out)
<1>1. /\ n \in Nat /\ Len(out') = n + 1 /\ out'[n + 1] = e
      /\ \A i \in 1..n : out'[i] = out[i]
  BY Appended
<1> HIDE DEF n
<1>2. 1..(n + 1) = (1..n) \cup {n + 1}
  BY <1>1
<1>3. ASSUME NEW s PROVE IsClosed(s)' <=> IsClosed(s) \/ (e.selector = s /\ e.type = "final")
  BY <1>1, <1>2 DEF IsClosed, n
<1>4. ASSUME NEW s, e.selector # s, FinalIsLast(s) PROVE FinalIsLast(s)'
  BY <1>1, <1>2, <1>4 DEF FinalIsLast, n
<1>5. ASSUME NEW s, ~IsClosed(s) PROVE FinalIsLast(s)'
  BY <1>1, <1>2, <1>5 DEF FinalIsLast, IsClosed, n
<1> QED
  BY <1>3, <1>4, <1>5

\* A step of a _run: the event it adds to the others, if any.  That of a kind that
\* is known ends with its result.
StepWith(e) == out' = Append(out, e)
Own(type, selector, text) == StepWith(Event(type, selector, text))
Within == stage \notin {"idle", "over"}
AnyRunStep ==
  /\ Within /\ stage' # "idle" /\ UNCHANGED <<kind, xid, saved, attempt>>
  /\ \/ out' = out
     \/ \E type \in EventTypes \ {"started"} : \E selector, text : Own(type, selector, text)
RunStep ==
  /\ Within /\ stage' # "idle" /\ UNCHANGED <<kind, xid, saved, attempt>>
  /\ \/ out' = out /\ stage' # "over"
     \/ \E type \in EventTypes \ {"started"} : \E selector, text :
          Own(type, selector, text) /\ (type \in ResultTypes <=> stage' = "over")

\* A new event leaves those before it alone.
LEMMA OneMoreEvent ==
  ASSUME EventInv, NEW type, NEW selector, NEW text, Own(type, selector, text)
  PROVE  /\ out' \in Seq(Range(out')) /\ Len(out) \in Nat /\ Len(out') = Len(out) + 1
         /\ \A i \in 1..Len(out) : out'[i] = out[i]
         /\ out'[Len(out')].type = type
         /\ type # "child" => out'[Len(out')].id = xid
<1> DEFINE e == Event(type, selector, text)
<1>1. e.type = type /\ (type # "child" => e.id = xid)
  BY DEF Event, EventOf
<1> HIDE DEF e
<1>2. out \in Seq(Range(out)) /\ out' = Append(out, e)
  BY DEF EventInv, Own, StepWith, e
<1>3. /\ out' \in Seq(Range(out')) /\ Len(out) \in Nat /\ Len(out') = Len(out) + 1
      /\ \A i \in 1..Len(out) : out'[i] = out[i]
      /\ out'[Len(out) + 1] = e
  BY ONLY <1>2, Appended
<1> QED
  BY <1>1, <1>3

\* Whatever a _run does in a step, its events are well-formed.
LEMMA EventsKept == ASSUME EventInv, AnyRunStep PROVE EventInv'
<1>1. CASE out' = out
  BY <1>1 DEF EventInv, EventAt, AnyRunStep, Within, OwnId
<1>2. ASSUME NEW type \in EventTypes \ {"started"}, NEW selector, NEW text,
             Own(type, selector, text)
      PROVE  EventInv'
  <2>1. /\ out' \in Seq(Range(out')) /\ Len(out) \in Nat /\ Len(out') = Len(out) + 1
        /\ \A i \in 1..Len(out) : out'[i] = out[i]
        /\ out'[Len(out')].type = type
        /\ type # "child" => out'[Len(out')].id = xid
    BY <1>2, OneMoreEvent
  <2>2. Len(out) > 0 /\ xid = OwnId /\ OwnId' = OwnId /\ xid' = xid /\ stage' # "idle"
    BY DEF EventInv, AnyRunStep, Within, OwnId
  <2>3. \A i \in 1..Len(out) : EventAt(i)
    BY DEF EventInv
  <2>4. ASSUME NEW i \in 1..Len(out') PROVE EventAt(i)'
    <3>1. CASE i = Len(out')
      <4>1. out'[i].type = type /\ type \in EventTypes \ {"started"} /\ i # 1
        BY <2>1, <2>2, <3>1
      <4>2. type # "child" => out'[i].id = OwnId'
        BY <2>1, <2>2, <3>1
      <4> QED
        BY ONLY <4>1, <4>2 DEF EventAt
    <3>2. CASE i \in 1..Len(out)
      <4>1. EventAt(i) /\ out'[i] = out[i]
        BY <2>1, <2>3, <3>2
      <4> QED
        BY ONLY <4>1, <2>2 DEF EventAt
    <3> QED
      BY <2>1, <3>1, <3>2
  <2>5. /\ kind' \in Kinds /\ attempt' \in 1..MaxRuns /\ saved' \in {NoId, "kept"}
        /\ xid' \in {NoId, OwnId'} /\ xid' = OwnId' /\ Len(out') > 0
    BY <2>1, <2>2 DEF EventInv, AnyRunStep
  <2> QED
    BY <2>1, <2>4, <2>5 DEF EventInv
<1> QED
  BY <1>1, <1>2 DEF AnyRunStep

\* A step of a kind that is known keeps what every run keeps.
LEMMA RunStepKeeps == ASSUME RunInv, RunStep, kind # "any" PROVE RunInv'
<1>1. EventInv /\ AnyRunStep /\ kind' # "any" /\ ~IsAstray /\ ~HasAnswered /\ ~HasAnswered'
  BY DEF RunInv, RunStep, AnyRunStep, IsAstray, HasAnswered
<1>2. EventInv'
  BY <1>1, EventsKept
<1>3. \A i \in 1..Len(out) : out[i].type \notin ResultTypes
  BY <1>1 DEF RunInv, ResultInv, ResultAt, RunStep, Within
<1>4. CASE out' = out /\ stage' # "over"
  BY <1>1, <1>2, <1>3, <1>4 DEF RunInv, ResultInv, ResultAt
<1>5. ASSUME NEW type \in EventTypes \ {"started"}, NEW selector, NEW text,
             Own(type, selector, text), type \in ResultTypes <=> stage' = "over"
      PROVE  RunInv'
  <2>1. /\ Len(out) \in Nat /\ Len(out') = Len(out) + 1
        /\ \A i \in 1..Len(out) : out'[i] = out[i]
        /\ out'[Len(out')].type = type
    BY <1>1, <1>5, OneMoreEvent
  <2>2. \A i \in 1..Len(out') : ResultAt(i)'
    <3> TAKE i \in 1..Len(out')
    <3>1. CASE i = Len(out')
      BY <1>5, <2>1, <3>1 DEF ResultAt
    <3>2. CASE i \in 1..Len(out)
      BY <1>3, <2>1, <3>2 DEF ResultAt
    <3> QED
      BY <2>1, <3>1, <3>2
  <2> QED
    BY <1>1, <1>2, <1>5, <2>1, <2>2 DEF RunInv, ResultInv
<1> QED
  BY <1>4, <1>5 DEF RunStep

\* The statements a _run is made of, each with the step the run goes on with.
GoesOn(step) == RunStep /\ stage' = step
Amid(step) == Within /\ step \notin {"idle", "over"}

\* The types of the events that a statement may add.
LEMMA StepTypes ==
  /\ {"chunk", "final"} \subseteq EventTypes \ {"started"}
  /\ (Dispatched \ {"pause"}) \cup {"child"} \subseteq EventTypes \ {"started"}
  /\ ResultTypes \subseteq EventTypes \ {"started"}
  /\ \A type \in (Dispatched \ {"pause"}) \cup {"child"} : type \notin ResultTypes
  /\ "chunk" \notin ResultTypes /\ "final" \notin ResultTypes
BY DEF EventTypes, ResultTypes, Dispatched, OutputEvents, FormEvents, ContainerEvents

\* A statement that shows nothing.
LEMMA SilentStep ==
  ASSUME NEW step, Amid(step), Silently(step) PROVE GoesOn(step) /\ out' = out
BY DEF Amid, Silently, Becomes, RunStep, GoesOn

\* A statement that shows an event of some type.
LEMMA EventStep ==
  ASSUME NEW step, Within, step # "idle", NEW type \in EventTypes \ {"started"}, NEW selector, NEW text,
         Own(type, selector, text), Becomes(step), type \in ResultTypes <=> step = "over"
  PROVE  GoesOn(step)
BY DEF Becomes, RunStep, GoesOn

\* A chunk of a stream.
LEMMA StreamStep ==
  ASSUME NEW step, Amid(step), NEW selector, NEW text, Stream(selector, text, step)
  PROVE  GoesOn(step) /\ Own("chunk", selector, text)
<1>1. Own("chunk", selector, text) /\ Becomes(step)
  BY DEF Stream, Own, StepWith
<1> QED
  BY <1>1, EventStep, StepTypes DEF Amid

\* The last chunk of a stream.
LEMMA FinalStep ==
  ASSUME NEW step, Amid(step), NEW selector, Final(selector, step)
  PROVE  GoesOn(step) /\ Own("final", selector, <<>>)
<1>1. Own("final", selector, <<>>) /\ Becomes(step)
  BY DEF Final, Own, StepWith
<1> QED
  BY <1>1, EventStep, StepTypes DEF Amid

\* An event that is not the result.
LEMMA YieldStep ==
  ASSUME NEW step, Amid(step), NEW type \in (Dispatched \ {"pause"}) \cup {"child"}, Yield(type, step)
  PROVE  GoesOn(step) /\ Own(type, "", <<>>)
<1>1. Own(type, "", <<>>) /\ Becomes(step)
  BY DEF Yield, Emit, Own, StepWith
<1> QED
  BY <1>1, EventStep, StepTypes DEF Amid

\* A result ends the run; so does an exception, the return of a result, a pause.
LEMMA LastStep ==
  ASSUME Within, NEW type \in ResultTypes, Emit(type), Becomes("over")
  PROVE  GoesOn("over") /\ Own(type, "", <<>>)
<1>1. Own(type, "", <<>>)
  BY DEF Emit, Own, StepWith
<1> QED
  BY <1>1, EventStep, StepTypes

\* A _run that raises.
LEMMA RaiseStep ==
  ASSUME Within, Raise PROVE GoesOn("over") /\ Own("failed", "", <<>>)
BY LastStep DEF Raise, ResultTypes

\* A _run that returns.
LEMMA CompleteStep ==
  ASSUME Within, NEW status, Complete(status)
  PROVE  GoesOn("over") /\ Own(ResultEvent(status), "", <<>>)
<1>1. ResultEvent(status) \in ResultTypes
  BY DEF ResultEvent, ResultTypes
<1> QED
  BY <1>1, LastStep DEF Complete, ResultThen

\* A _run that pauses.
LEMMA PauseStep == ASSUME Within, Yield("pause", "over") PROVE GoesOn("over")
BY LastStep DEF Yield, ResultTypes

\* The event of a statement, for the streams.
LEMMA EventShown ==
  ASSUME RunInv, NEW type, NEW selector, NEW text, Own(type, selector, text)
  PROVE  /\ \A s : IsClosed(s)' <=> IsClosed(s) \/ (selector = s /\ type = "final")
         /\ \A s : selector # s /\ FinalIsLast(s) => FinalIsLast(s)'
         /\ \A s : ~IsClosed(s) => FinalIsLast(s)'
         /\ \A i \in 1..Len(out') : \/ i \in 1..Len(out) /\ out'[i] = out[i]
                                    \/ out'[i].selector = selector /\ out'[i].type = type
         /\ out'[Len(out')].type = type
<1> DEFINE e == Event(type, selector, text)
<1>1. e.type = type /\ e.selector = selector
  BY DEF Event, EventOf
<1> HIDE DEF e
<1>2. out \in Seq(Range(out)) /\ out' = Append(out, e)
  BY DEF RunInv, EventInv, Own, StepWith, e
<1>3. /\ Len(out) \in Nat /\ Len(out') = Len(out) + 1
      /\ \A i \in 1..Len(out) : out'[i] = out[i]
      /\ out'[Len(out) + 1] = e
  BY <1>2, Appended
<1>4. \A i \in 1..Len(out') : i \in 1..Len(out) \/ i = Len(out) + 1
  BY <1>3
<1>5. /\ \A s : IsClosed(s)' <=> IsClosed(s) \/ (e.selector = s /\ e.type = "final")
      /\ \A s : e.selector # s /\ FinalIsLast(s) => FinalIsLast(s)'
      /\ \A s : ~IsClosed(s) => FinalIsLast(s)'
  BY <1>2, StreamsAfter
<1> QED
  BY <1>1, <1>3, <1>4, <1>5

-----------------------------------------------------------------------------
(* The worker; nodes of which nothing is known; calls.                     *)

\* A run begins with one event, under the id that was restored if there is one.
LEMMA BeginKeeps == ASSUME WorkerInv, Begin PROVE WorkerInv'
<1> DEFINE e == EventOf("started", xid', "", <<>>)
<1>1. /\ stage = "idle" /\ stage' = "run" /\ UNCHANGED <<kind, saved, attempt>>
      /\ kind # "any" => mem' = mem
      /\ out' = <<e>>
  BY DEF Begin
<1>2. xid' = OwnId /\ OwnId' = OwnId
  BY <1>1 DEF WorkerInv, RunInv, EventInv, Begin, EnsureExecutionId, RestoredId, OwnId, NoId
<1>3. e.type = "started" /\ e.selector = "" /\ e.id = OwnId'
  BY <1>2 DEF EventOf
<1> HIDE DEF e
<1>4. out' \in Seq(Range(out')) /\ Len(out') = 1 /\ out'[1] = e
  BY ONLY <1>1, OneEvent
<1>5. 1..Len(out') = {1} /\ Len(out') > 0
  BY ONLY <1>4
<1>6. "started" \in EventTypes /\ "started" \notin ResultTypes
  BY DEF EventTypes, ResultTypes
<1>7. out'[1].type = "started" /\ out'[1].selector = "" /\ out'[1].id = OwnId'
  BY <1>3, <1>4
<1>8. RunInv'
  <2>1. kind' \in Kinds /\ attempt' \in 1..MaxRuns /\ saved' \in {NoId, "kept"} /\ xid' \in {NoId, OwnId'}
    BY <1>1, <1>2 DEF WorkerInv, RunInv, EventInv
  <2>2. xid' = OwnId' /\ Len(out') > 0 /\ stage' # "over"
    BY <1>1, <1>2, <1>5
  <2>3. \A i \in 1..Len(out') :
          /\ out'[i].type \in EventTypes
          /\ out'[i].type = "started" <=> i = 1
          /\ out'[i].type # "child" => out'[i].id = OwnId'
          /\ out'[i].type \notin ResultTypes
    BY <1>5, <1>6, <1>7
  <2> QED
    BY <1>4, <2>1, <2>2, <2>3 DEF RunInv, EventInv, EventAt, ResultInv, ResultAt, HasAnswered, Begin
<1>9. \A s : ~IsClosed(s)' /\ FinalIsLast(s)'
  BY <1>5, <1>7 DEF IsClosed, FinalIsLast
<1>10. \A i \in 1..Len(out') : out'[i].selector = "" /\ out'[i].type # "final"
  BY <1>5, <1>7
<1>11. kind = "llm" => LlmInv'
  BY <1>1, <1>9, <1>10 DEF WorkerInv, LlmInv, HasSucceeded
<1>12. kind = "tool" => ToolInv'
  BY <1>1, <1>9, <1>10 DEF WorkerInv, ToolInv, HasSucceeded, Streamed
<1>13. kind = "slim" => SlimInv'
  BY <1>1 DEF WorkerInv, SlimInv
<1> QED
  BY <1>1, <1>8, <1>11, <1>12, <1>13 DEF WorkerInv

\* A retry keeps the object, with its id, and the events until it begins.
LEMMA RunAgainKeeps == ASSUME WorkerInv, RunAgain PROVE WorkerInv'
<1>1. /\ stage = "over" /\ attempt < MaxRuns /\ stage' = "idle" /\ attempt' = attempt + 1
      /\ UNCHANGED <<kind, mem, out, xid, saved>>
  BY DEF RunAgain
<1>2. MaxRuns \in Nat
  BY RunAssumption
<1>3. RunInv'
  BY <1>1, <1>2 DEF WorkerInv, RunInv, EventInv, EventAt, OwnId, ResultInv, ResultAt, HasAnswered, IsAstray
<1>4. \A s : /\ IsClosed(s)' <=> IsClosed(s)
             /\ FinalIsLast(s)' <=> FinalIsLast(s)
  BY <1>1 DEF IsClosed, FinalIsLast
<1>5. kind = "llm" => LlmInv'
  BY <1>1, <1>4 DEF WorkerInv, LlmInv, HasSucceeded
<1>6. kind = "tool" => ToolInv'
  BY <1>1, <1>4 DEF WorkerInv, ToolInv, HasSucceeded, Streamed
<1>7. kind = "slim" => SlimInv'
  BY <1>1 DEF WorkerInv, SlimInv
<1> QED
  BY <1>1, <1>3, <1>5, <1>6, <1>7 DEF WorkerInv

\* A step of a run of another kind than those with an invariant of their own.
LEMMA OtherKeeps ==
  ASSUME WorkerInv, RunStep, kind \notin {"any", "llm", "tool", "slim"} PROVE WorkerInv'
BY RunStepKeeps DEF WorkerInv, RunStep

\* What a step of a node of which nothing is known does: an event, or none, and
\* what that makes of its answer.
LEMMA AnySteps ==
  ASSUME RunInv, AnyStep
  PROVE  /\ kind = "any" /\ AnyRunStep
         /\ \/ mem' = "astray"
            \/ /\ mem = "open" /\ mem' = "open" /\ stage' = "run"
               /\ \E type \in EventTypes \ ResultTypes : Own(type, "", <<>>)
            \/ /\ mem = "open" /\ mem' = "answered"
               /\ \E type \in ResultTypes : Own(type, "", <<>>)
            \/ mem = "answered" /\ mem' = mem /\ stage = "run" /\ out' = out
<1>1. kind = "any" /\ Within
  BY DEF AnyStep, AnyYields, AnyPauses, AnyResults, AnyRaises, AnyReturns, AnyEnds, CanYield, Within
<1>2. ASSUME NEW type \in EventTypes \ {"started"}, NEW step \in {"run", "over"}, Emit(type), Becomes(step)
      PROVE  AnyRunStep /\ Own(type, "", <<>>) /\ stage' = step
  <2>1. Own(type, "", <<>>)
    BY <1>2 DEF Emit, Own, StepWith
  <2>2. stage' = step /\ stage' # "idle" /\ UNCHANGED <<kind, xid, saved, attempt>>
    BY <1>2 DEF Becomes
  <2> QED
    BY <1>1, <2>1, <2>2 DEF AnyRunStep
<1>3. ASSUME NEW type \in ResultTypes, NEW step \in {"run", "over"}, Emit(type), Becomes(step), Answers
      PROVE  /\ AnyRunStep /\ Own(type, "", <<>>)
             /\ mem' = "astray" \/ (mem = "open" /\ mem' = "answered")
  BY <1>2, <1>3, StepTypes DEF Answers
<1>4. CASE AnyYields
  <2>1. PICK type \in (Dispatched \ {"pause"}) \cup {"child"} : Yield(type, "run")
    BY <1>4 DEF AnyYields
  <2>2. type \in EventTypes \ {"started"} /\ type \notin ResultTypes
    BY <2>1, StepTypes
  <2>3. AnyRunStep /\ Own(type, "", <<>>) /\ stage' = "run"
    BY <1>2, <2>1, <2>2 DEF Yield
  <2> QED
    BY <1>1, <1>4, <2>2, <2>3 DEF AnyYields, Mentions
<1>5. CASE AnyPauses
  <2>1. "pause" \in ResultTypes
    BY DEF ResultTypes
  <2> QED
    BY <1>1, <1>3, <1>5, <2>1 DEF AnyPauses, Yield
<1>6. \A s : ResultEvent(s) \in ResultTypes
  BY DEF ResultEvent, ResultTypes
<1>7. CASE AnyResults
  BY <1>1, <1>3, <1>6, <1>7 DEF AnyResults, ResultThen
<1>8. CASE AnyRaises
  BY <1>1, <1>3, <1>8 DEF AnyRaises, Raise, ResultTypes
<1>9. CASE AnyReturns
  BY <1>1, <1>3, <1>6, <1>9 DEF AnyReturns, Complete, ResultThen
<1>10. CASE AnyEnds
  <2>1. AnyRunStep /\ out' = out /\ stage = "run"
    BY <1>1, <1>10 DEF AnyEnds, Silently, Becomes, AnyRunStep
  <2> QED
    BY <1>1, <1>10, <2>1 DEF AnyEnds
<1> QED
  BY <1>4, <1>5, <1>7, <1>8, <1>9, <1>10 DEF AnyStep

\* A node of which nothing is known keeps what every run keeps.
LEMMA AnyKeeps == ASSUME WorkerInv, AnyStep PROVE WorkerInv'
<1>1. kind = "any" /\ kind' = "any" /\ AnyRunStep /\ RunInv /\ EventInv
  BY AnySteps DEF WorkerInv, RunInv, AnyRunStep
<1>2. EventInv'
  BY <1>1, EventsKept
<1>3. mem = "open" => \A i \in 1..Len(out) : out[i].type \notin ResultTypes
  BY <1>1 DEF RunInv, ResultInv, ResultAt, HasAnswered, IsAstray, AnyRunStep, Within
<1>4. ASSUME NEW type \in EventTypes, Own(type, "", <<>>), mem = "open",
             \/ type \notin ResultTypes /\ stage' = "run" /\ mem' = "open"
             \/ type \in ResultTypes /\ mem' = "answered"
      PROVE  ResultInv'
  <2>1. /\ Len(out) \in Nat /\ Len(out') = Len(out) + 1
        /\ \A i \in 1..Len(out) : out'[i] = out[i]
        /\ out'[Len(out')].type = type
    BY <1>1, <1>4, OneMoreEvent
  <2>2. \A i \in 1..Len(out') : ResultAt(i)'
    <3> TAKE i \in 1..Len(out')
    <3>1. CASE i = Len(out')
      BY <1>1, <1>4, <2>1, <3>1 DEF ResultAt, HasAnswered
    <3>2. CASE i \in 1..Len(out)
      BY <1>3, <1>4, <2>1, <3>2 DEF ResultAt
    <3> QED
      BY <2>1, <3>1, <3>2
  <2>3. stage' = "over" \/ HasAnswered' => out'[Len(out')].type \in ResultTypes
    BY <1>4, <2>1 DEF HasAnswered
  <2> QED
    BY <2>2, <2>3 DEF ResultInv
<1>5. CASE mem' = "astray"
  BY <1>1, <1>2, <1>5 DEF RunInv, IsAstray, WorkerInv
<1>6. CASE mem = "open" /\ mem' = "open" /\ stage' = "run"
           /\ \E type \in EventTypes \ ResultTypes : Own(type, "", <<>>)
  <2>1. RunInv'
    BY <1>2, <1>4, <1>6 DEF RunInv
  <2> QED
    BY <1>1, <2>1 DEF WorkerInv
<1>7. CASE mem = "open" /\ mem' = "answered" /\ \E type \in ResultTypes : Own(type, "", <<>>)
  <2>1. RunInv'
    BY <1>2, <1>4, <1>7, StepTypes DEF RunInv
  <2> QED
    BY <1>1, <2>1 DEF WorkerInv
<1>8. CASE mem = "answered" /\ mem' = mem /\ stage = "run" /\ out' = out
  <2>1. ResultInv /\ HasAnswered /\ HasAnswered' /\ Len(out) > 0
    BY <1>1, <1>8 DEF RunInv, EventInv, HasAnswered, IsAstray
  <2>2. ResultInv'
    BY <1>8, <2>1 DEF ResultInv, ResultAt
  <2> QED
    BY <1>1, <1>2, <2>2 DEF RunInv, WorkerInv
<1> QED
  BY <1>1, <1>5, <1>6, <1>7, <1>8, AnySteps DEF WorkerInv

\* So does a call of a model.
LEMMA ModelKeeps == ASSUME WorkerInv, ModelStep PROVE WorkerInv'
<1>1. kind = "model" /\ Within
  BY DEF ModelStep, ModelInvoke, ModelMerge, ModelMergeFails, ModelMerged, ModelChunk, ModelNext,
     ModelClosed, ModelStreamFails, ModelStreamEnds, ModelAfter, CallAt, Within
<1>2. Amid("model-read") /\ Amid("model-after") /\ Amid("model-chunk") /\ Amid("closed")
  BY <1>1 DEF Amid
<1>3. (Raise => RunStep) /\ (Complete("succeeded") => RunStep)
  BY <1>1, RaiseStep, CompleteStep DEF GoesOn
<1>4. /\ Silently("model-read") => RunStep
      /\ Silently("model-after") => RunStep
      /\ Silently("closed") => RunStep
  BY <1>2, SilentStep DEF GoesOn
<1>5. \A text : Stream("model", text, "model-chunk") => RunStep
  BY <1>2, StreamStep DEF GoesOn
<1>6. \A m : TellError(m) => RunStep
  BY <1>3 DEF TellError
<1>7. ModelInvoke => RunStep
  BY <1>3, <1>4, <1>6 DEF ModelInvoke
<1>8. ModelMerge => RunStep
  BY <1>4, <1>6 DEF ModelMerge
<1>9. ModelMergeFails \/ ModelMerged => RunStep
  BY <1>4, <1>6 DEF ModelMergeFails, ModelMerged
<1>10. ModelChunk => RunStep
  BY <1>5 DEF ModelChunk
<1>11. ModelNext => RunStep
  BY <1>3, <1>4 DEF ModelNext
<1>12. ModelClosed \/ ModelStreamFails \/ ModelStreamEnds => RunStep
  BY <1>3, <1>4 DEF ModelClosed, ModelStreamFails, ModelStreamEnds
<1>13. ModelAfter => RunStep
  BY <1>3 DEF ModelAfter
<1>14. RunStep
  BY <1>7, <1>8, <1>9, <1>10, <1>11, <1>12, <1>13 DEF ModelStep
<1> QED
  BY <1>1, <1>14, OtherKeeps

\* And a call of a Slim action, with lines in its pipe that the process printed.
LEMMA SlimKeeps == ASSUME WorkerInv, SlimStep PROVE WorkerInv'
<1>1. kind = "slim" /\ Within
  BY DEF SlimStep, SlimCallerStep, SlimPredefined, SlimStart, SlimRead, SlimEof, SlimClose, SlimDone,
     SlimReturns, SlimAbandoned, SlimProcessStep, SlimWrites, SlimExits, SlimDies, Runs, Calls, IsOpen, Within
<1>2. SlimInv
  BY <1>1 DEF WorkerInv
<1>3. Amid("slim-read") /\ Amid("slim-done") /\ Amid("slim-close") /\ Amid("slim-wait")
  BY <1>1 DEF Amid
<1>4. (Raise => RunStep) /\ (Complete("succeeded") => RunStep)
  BY <1>1, RaiseStep, CompleteStep DEF GoesOn
<1>5. /\ Silently("slim-read") => RunStep
      /\ Silently("slim-done") => RunStep
      /\ Silently("slim-close") => RunStep
      /\ Silently("slim-wait") => RunStep
  BY <1>3, SilentStep DEF GoesOn
<1>6. \A text : Stream("answer", text, "slim-read") => RunStep
  BY <1>3, StreamStep DEF GoesOn
<1>7. SlimPredefined => RunStep /\ SlimInv'
  BY <1>2, <1>4 DEF SlimPredefined, SlimInv
<1>8. SlimStart => RunStep /\ SlimInv'
  BY <1>2, <1>4, <1>5 DEF SlimStart, SlimInv
<1>9. SlimWrites \/ SlimExits \/ SlimDies => RunStep /\ SlimInv'
  <2>1. ASSUME UNCHANGED <<kind, stage, out, xid, saved, attempt>> PROVE RunStep
    BY <1>1, <2>1 DEF RunStep, Within
  <2>2. SlimWrites => RunStep /\ SlimInv'
    BY <1>2, <2>1 DEF SlimWrites, SlimInv
  <2>3. SlimExits => RunStep /\ SlimInv'
    BY <1>2, <2>1 DEF SlimExits, SlimInv
  <2>4. SlimDies => RunStep /\ SlimInv'
    BY <1>2, <2>1 DEF SlimDies, SlimInv
  <2> QED
    BY <2>2, <2>3, <2>4
<1>10. SlimRead => RunStep /\ SlimInv'
  <2> SUFFICES ASSUME SlimRead PROVE RunStep /\ SlimInv'
    OBVIOUS
  <2> DEFINE e == Head(mem.pipe)
             m == [mem EXCEPT !.pipe = Tail(@)]
  <2>1. e \in Lines /\ m.pipe \in Seq(Lines) /\ DOMAIN m = DOMAIN mem
    BY <1>2, HeadTailProperties DEF SlimRead, SlimInv
  <2>2. \/ e \in Chunks /\ ReadChunk(m, e)
        \/ mem' = m /\ (Silently("slim-read") \/ Silently("slim-done") \/ Silently("slim-close"))
    BY <2>1 DEF SlimRead, Lines, Chunks
  <2> HIDE DEF e, m
  <2>3. mem' \in {m, [m EXCEPT !.held = Append(@, e)]} /\ RunStep
    BY <1>4, <1>5, <1>6, <2>2 DEF ReadChunk
  <2> QED
    BY <1>2, <2>1, <2>3 DEF SlimInv
<1>11. SlimEof \/ SlimClose \/ SlimReturns \/ SlimAbandoned => RunStep /\ SlimInv'
  BY <1>2, <1>4, <1>5 DEF SlimEof, SlimClose, SlimReturns, SlimAbandoned, SlimInv
<1>12. SlimDone => RunStep /\ SlimInv'
  BY <1>2, <1>4, <1>5 DEF SlimDone, SlimInv
<1>13. RunStep /\ SlimInv'
  BY <1>7, <1>8, <1>9, <1>10, <1>11, <1>12 DEF SlimStep, SlimCallerStep, SlimProcessStep
<1> QED
  BY <1>1, <1>13, RunStepKeeps DEF WorkerInv, RunStep
-----------------------------------------------------------------------------
(* LLM nodes.                                                              *)

LlmFields ==
  {"text", "usage", "holder", "structured", "streamed", "files", "paramsOf", "format", "result"}

\* What an event that is not the end of the stream leaves as it was, if the stream
\* is still open.
TextStreamInv ==
  /\ \A i \in 1..Len(out) : /\ out[i].selector \in {"", "text"}
                            /\ out[i].type = "final" => out[i].selector = "text"
  /\ FinalIsLast("text")
TextIsOpen == ~IsClosed("text")

\* Types of events that close no stream.
LEMMA NotFinal == {"chunk", "retriever", "succeeded", "failed"} \subseteq EventTypes \ {"final"}
BY DEF EventTypes, ResultTypes, Dispatched, OutputEvents, FormEvents, ContainerEvents

\* An event that is not the end of the stream leaves it open.
LEMMA TextGoesOn ==
  ASSUME RunInv, TextStreamInv,
         NEW type \in EventTypes \ {"final"}, NEW selector, NEW text, Own(type, selector, text),
         selector = "" \/ (selector = "text" /\ TextIsOpen)
  PROVE  TextStreamInv' /\ (TextIsOpen' <=> TextIsOpen)
<1>1. /\ IsClosed("text")' <=> IsClosed("text") \/ (selector = "text" /\ type = "final")
      /\ selector # "text" /\ FinalIsLast("text") => FinalIsLast("text")'
      /\ ~IsClosed("text") => FinalIsLast("text")'
      /\ \A i \in 1..Len(out') : \/ i \in 1..Len(out) /\ out'[i] = out[i]
                                 \/ out'[i].selector = selector /\ out'[i].type = type
  BY EventShown
<1>2. FinalIsLast("text")'
  BY <1>1 DEF TextStreamInv, TextIsOpen
<1>3. \A i \in 1..Len(out') : /\ out'[i].selector \in {"", "text"}
                              /\ out'[i].type = "final" => out'[i].selector = "text"
  BY <1>1 DEF TextStreamInv
<1> QED
  BY <1>1, <1>2, <1>3 DEF TextStreamInv, TextIsOpen

\* The last chunk of the text, while it is open, comes after all others.
LEMMA TextCloses ==
  ASSUME RunInv, TextStreamInv, TextIsOpen, Own("final", "text", <<>>)
  PROVE  TextStreamInv' /\ ~TextIsOpen'
<1>1. /\ IsClosed("text")' /\ FinalIsLast("text")'
      /\ \A i \in 1..Len(out') : \/ i \in 1..Len(out) /\ out'[i] = out[i]
                                 \/ out'[i].selector = "text"
  BY EventShown DEF TextIsOpen
<1> QED
  BY <1>1 DEF TextStreamInv, TextIsOpen

\* Without an event the stream is as it was.
LEMMA TextRests ==
  ASSUME TextStreamInv, out' = out PROVE TextStreamInv' /\ (TextIsOpen' <=> TextIsOpen)
BY DEF TextStreamInv, TextIsOpen, IsClosed, FinalIsLast

\* A failure before the stream is closed.
LEMMA LlmFailing ==
  ASSUME RunInv, TextStreamInv, Within, TextIsOpen,
         NEW m, DOMAIN m = LlmFields, m.holder \in {0, m.usage}, LlmFails(m)
  PROVE  RunStep /\ LlmInv'
<1>1. GoesOn("over") /\ Own("failed", "", <<>>) /\ mem' = [m EXCEPT !.result = [usage |-> m.holder]]
  BY CompleteStep DEF LlmFails, ResultEvent
<1>2. TextStreamInv' /\ TextIsOpen'
  BY <1>1, TextGoesOn, NotFinal
<1>3. out'[Len(out')].type = "failed"
  BY <1>1, EventShown
<1>4. DOMAIN mem' = LlmFields /\ mem'.result.usage = m.holder /\ mem'.holder = m.holder /\ mem'.usage = m.usage
  BY <1>1 DEF LlmFields
<1>5. mem'.result.usage = IF ~TextIsOpen' \/ mem'.holder # 0 THEN mem'.usage ELSE 0
  BY <1>2, <1>4
<1>6. stage' = "over" /\ RunStep
  BY <1>1 DEF GoesOn
<1> QED
  BY <1>2, <1>3, <1>4, <1>5, <1>6 DEF LlmInv, TextStreamInv, HasSucceeded, LlmFields, TextIsOpen

\* A step that leaves the stream open: what the holder has to have then.
LEMMA LlmOpen ==
  ASSUME TextStreamInv', TextIsOpen', DOMAIN mem' = LlmFields,
         \/ stage' \in {"llm-context", "llm-prompt", "llm-invoke"} /\ mem'.holder = 0 /\ mem'.usage = 0
         \/ stage' = "llm-stream" /\ mem'.holder = 0
         \/ stage' = "llm-answered" /\ mem'.holder = mem'.usage
  PROVE  LlmInv'
BY DEF LlmInv, TextStreamInv, HasSucceeded, LlmFields, TextIsOpen

\* Each step of an LLM node keeps what is said of its stream and its usage.
LEMMA LlmKeeps == ASSUME WorkerInv, LlmStep PROVE WorkerInv'
<1>1. /\ kind = "llm" /\ Within
      /\ stage \in {"run", "llm-context", "llm-prompt", "llm-invoke", "llm-stream", "llm-answered",
                    "llm-final"}
  BY DEF LlmStep, LlmInputs, LlmContext, LlmPrepare, LlmBlocking, LlmStreams, LlmChunk, LlmRaises,
     LlmStreamEnds, LlmBuild, LlmSucceeds, At, Within
<1>2. RunInv /\ LlmInv /\ TextStreamInv /\ DOMAIN mem = LlmFields
  BY <1>1 DEF WorkerInv, LlmInv, TextStreamInv, LlmFields
<1>3. stage # "llm-final" => TextIsOpen
  BY <1>1, <1>2 DEF LlmInv, Within, TextIsOpen
<1>4. /\ stage \in {"llm-context", "llm-prompt", "llm-invoke", "llm-stream"} => mem.holder = 0
      /\ stage \in {"llm-context", "llm-prompt", "llm-invoke"} => mem.usage = 0
      /\ stage \in {"llm-answered", "llm-final"} => mem.holder = mem.usage
  BY <1>2 DEF LlmInv
<1>5. \A step : step \notin {"idle", "over"} => Amid(step)
  BY <1>1 DEF Amid
<1>6. ASSUME NEW step, step \notin {"idle", "over"}, Silently(step), stage # "llm-final"
      PROVE  RunStep /\ stage' = step /\ TextStreamInv' /\ TextIsOpen'
  BY <1>2, <1>3, <1>5, <1>6, SilentStep, TextRests DEF GoesOn
<1>7. ASSUME NEW m, DOMAIN m = LlmFields, m.holder \in {0, m.usage}, LlmFails(m), stage # "llm-final"
      PROVE  RunStep /\ LlmInv'
  BY <1>1, <1>2, <1>3, <1>7, LlmFailing
<1>8. LlmInputs => RunStep /\ LlmInv'
  <2> SUFFICES ASSUME LlmInputs PROVE RunStep /\ LlmInv'
    OBVIOUS
  <2> DEFINE fresh == [mem EXCEPT !.text = <<>>, !.usage = 0, !.holder = 0, !.structured = FALSE,
                                  !.streamed = FALSE, !.result = <<>>]
  <2>1. DOMAIN fresh = LlmFields /\ fresh.holder = 0 /\ fresh.usage = 0
    BY <1>2 DEF LlmFields
  <2>2. stage = "run" /\ ((mem' = fresh /\ Silently("llm-context")) \/ LlmFails(fresh))
    BY DEF LlmInputs, At
  <2> HIDE DEF fresh
  <2>3. CASE mem' = fresh /\ Silently("llm-context")
    BY <1>6, <2>1, <2>2, <2>3, LlmOpen
  <2>4. CASE LlmFails(fresh)
    BY <1>7, <2>1, <2>2, <2>4
  <2> QED
    BY <2>2, <2>3, <2>4
<1>9. LlmContext => RunStep /\ LlmInv'
  <2> SUFFICES ASSUME LlmContext PROVE RunStep /\ LlmInv'
    OBVIOUS
  <2>1. stage = "llm-context"
    BY DEF LlmContext, At
  <2>2. CASE mem' = mem /\ Yield("retriever", "llm-prompt")
    <3>1. "retriever" \in (Dispatched \ {"pause"}) \cup {"child"}
      BY DEF Dispatched, OutputEvents, FormEvents, ContainerEvents
    <3>2. GoesOn("llm-prompt") /\ Own("retriever", "", <<>>)
      BY <1>5, <2>2, <3>1, YieldStep
    <3>3. TextStreamInv' /\ TextIsOpen'
      BY <1>2, <1>3, <2>1, <3>2, TextGoesOn, NotFinal
    <3> QED
      BY <1>2, <1>4, <2>1, <2>2, <3>2, <3>3, LlmOpen DEF GoesOn
  <2>3. CASE mem' = mem /\ Silently("llm-prompt")
    BY <1>2, <1>4, <1>6, <2>1, <2>3, LlmOpen
  <2>4. CASE LlmFails(mem)
    BY <1>2, <1>4, <1>7, <2>1, <2>4
  <2> QED
    BY <2>2, <2>3, <2>4 DEF LlmContext
<1>10. LlmPrepare => RunStep /\ LlmInv'
  <2> SUFFICES ASSUME LlmPrepare PROVE RunStep /\ LlmInv'
    OBVIOUS
  <2> DEFINE m == [mem EXCEPT !.paramsOf = IF @ = 0 THEN attempt ELSE @]
  <2>1. stage = "llm-prompt" /\ ((mem' = m /\ Silently("llm-invoke")) \/ LlmFails(m))
    BY DEF LlmPrepare, At
  <2>2. DOMAIN m = LlmFields /\ m.holder = 0 /\ m.usage = 0
    BY <1>2, <1>4, <2>1 DEF LlmFields
  <2> HIDE DEF m
  <2>3. CASE mem' = m /\ Silently("llm-invoke")
    BY <1>6, <2>1, <2>2, <2>3, LlmOpen
  <2>4. CASE LlmFails(m)
    BY <1>7, <2>1, <2>2, <2>4
  <2> QED
    BY <2>1, <2>3, <2>4
<1>11. ASSUME NEW m, DOMAIN m = LlmFields, NEW t
       PROVE  DOMAIN Taken(m, t) = LlmFields /\ Taken(m, t).holder = m.holder /\ Taken(m, t).usage = m.usage
  BY <1>11 DEF Taken, LlmFields
<1>12. ASSUME NEW m, DOMAIN m = LlmFields, NEW u, NEW s
       PROVE  /\ DOMAIN Metadata(m, u, s) = LlmFields /\ Metadata(m, u, s).holder = m.holder
              /\ m.usage = 0 => Metadata(m, u, s).usage = u
  BY <1>12 DEF Metadata, LlmFields
<1>13. LlmBlocking => RunStep /\ LlmInv'
  <2> SUFFICES ASSUME LlmBlocking PROVE RunStep /\ LlmInv'
    OBVIOUS
  <2>1. PICK t \in Tokens, u \in {1, 2}, s \in BOOLEAN :
          mem' = [Metadata(Taken(mem, t), u, s) EXCEPT !.holder = u]
    BY DEF LlmBlocking
  <2>2. stage = "llm-invoke" /\ Silently("llm-answered")
    BY DEF LlmBlocking, At
  <2> DEFINE m == Metadata(Taken(mem, t), u, s)
  <2>3. DOMAIN m = LlmFields /\ m.usage = u
    BY <1>2, <1>4, <1>11, <1>12, <2>2
  <2>4. mem' = [m EXCEPT !.holder = u]
    BY <2>1
  <2> HIDE DEF m
  <2>5. DOMAIN mem' = LlmFields /\ mem'.holder = mem'.usage
    BY <2>3, <2>4 DEF LlmFields
  <2> QED
    BY <1>6, <2>2, <2>5, LlmOpen
<1>14. LlmStreams => RunStep /\ LlmInv'
  <2> SUFFICES ASSUME LlmStreams PROVE RunStep /\ LlmInv'
    OBVIOUS
  <2>1. stage = "llm-invoke" /\ mem' = [mem EXCEPT !.streamed = TRUE] /\ Silently("llm-stream")
    BY DEF LlmStreams, At
  <2>2. DOMAIN mem' = LlmFields /\ mem'.holder = 0
    BY <1>2, <1>4, <2>1 DEF LlmFields
  <2> QED
    BY <1>6, <2>1, <2>2, LlmOpen
<1>15. LlmChunk => RunStep /\ LlmInv'
  <2> SUFFICES ASSUME LlmChunk PROVE RunStep /\ LlmInv'
    OBVIOUS
  <2>1. stage = "llm-stream" /\ mem.holder = 0
    BY <1>4 DEF LlmChunk, At
  <2>2. PICK u \in {0, 1, 2}, s \in BOOLEAN :
          \/ \E t \in Tokens :
               mem' = Metadata(Taken(mem, t), u, s) /\ Stream("text", <<t>>, "llm-stream")
          \/ mem' = Metadata(mem, u, s) /\ Silently("llm-stream")
    BY DEF LlmChunk
  <2>3. CASE mem' = Metadata(mem, u, s) /\ Silently("llm-stream")
    BY <1>2, <1>6, <1>12, <2>1, <2>3, LlmOpen
  <2>4. ASSUME NEW t \in Tokens,
               mem' = Metadata(Taken(mem, t), u, s), Stream("text", <<t>>, "llm-stream")
        PROVE  RunStep /\ LlmInv'
    <3>1. GoesOn("llm-stream") /\ Own("chunk", "text", <<t>>)
      BY <1>5, <2>4, StreamStep
    <3>2. TextStreamInv' /\ TextIsOpen'
      BY <1>2, <1>3, <2>1, <3>1, TextGoesOn, NotFinal
    <3>3. DOMAIN mem' = LlmFields /\ mem'.holder = 0
      BY <1>2, <1>11, <1>12, <2>1, <2>4
    <3> QED
      BY <3>1, <3>2, <3>3, LlmOpen DEF GoesOn
  <2> QED
    BY <2>2, <2>3, <2>4
<1>16. LlmRaises => RunStep /\ LlmInv'
  BY <1>2, <1>4, <1>7 DEF LlmRaises, At
<1>17. LlmStreamEnds => RunStep /\ LlmInv'
  <2> SUFFICES ASSUME LlmStreamEnds PROVE RunStep /\ LlmInv'
    OBVIOUS
  <2>1. stage = "llm-stream" /\ mem' = [mem EXCEPT !.holder = mem.usage] /\ Silently("llm-answered")
    BY DEF LlmStreamEnds, At
  <2>2. DOMAIN mem' = LlmFields /\ mem'.holder = mem'.usage
    BY <1>2, <2>1 DEF LlmFields
  <2> QED
    BY <1>6, <2>1, <2>2, LlmOpen
<1>18. LlmBuild => RunStep /\ LlmInv'
  <2> SUFFICES ASSUME LlmBuild PROVE RunStep /\ LlmInv'
    OBVIOUS
  <2>1. stage = "llm-answered" /\ mem.holder = mem.usage
    BY <1>4 DEF LlmBuild, At
  <2>2. CASE LlmFails(mem)
    BY <1>2, <1>7, <2>1, <2>2
  <2>3. CASE mem' = mem /\ Final("text", "llm-final")
    <3>1. GoesOn("llm-final") /\ Own("final", "text", <<>>)
      BY <1>5, <2>3, FinalStep
    <3>2. TextStreamInv' /\ ~TextIsOpen'
      BY <1>2, <1>3, <2>1, <3>1, TextCloses
    <3>3. RunStep /\ stage' = "llm-final"
      BY <3>1 DEF GoesOn
    <3> QED
      BY <1>2, <2>1, <2>3, <3>2, <3>3 DEF LlmInv, TextStreamInv, HasSucceeded, LlmFields, TextIsOpen
  <2> QED
    BY <2>2, <2>3 DEF LlmBuild
<1>19. LlmSucceeds => RunStep /\ LlmInv'
  <2> SUFFICES ASSUME LlmSucceeds PROVE RunStep /\ LlmInv'
    OBVIOUS
  <2>1. stage = "llm-final" /\ Complete("succeeded") /\ ~TextIsOpen
    BY <1>2 DEF LlmSucceeds, At, LlmInv, TextIsOpen
  <2>2. GoesOn("over") /\ Own("succeeded", "", <<>>)
    BY <1>1, <2>1, CompleteStep DEF ResultEvent
  <2>3. TextStreamInv' /\ ~TextIsOpen'
    BY <1>2, <2>1, <2>2, TextGoesOn, NotFinal
  <2>4. DOMAIN mem' = LlmFields /\ mem'.result.usage = mem.usage /\ mem'.usage = mem.usage
    BY <1>2 DEF LlmSucceeds, LlmFields
  <2>5. RunStep /\ stage' = "over"
    BY <2>2 DEF GoesOn
  <2> QED
    BY <2>3, <2>4, <2>5 DEF LlmInv, TextStreamInv, HasSucceeded, LlmFields, TextIsOpen
<1>20. RunStep /\ LlmInv'
  BY <1>8, <1>9, <1>10, <1>13, <1>14, <1>15, <1>16, <1>17, <1>18, <1>19 DEF LlmStep
<1> QED
  BY <1>1, <1>20, RunStepKeeps DEF WorkerInv, RunStep

-----------------------------------------------------------------------------
(* Tool nodes.                                                             *)

\* A sequence without repetitions.
Once(q) == \A i, j \in 1..Len(q) : q[i] = q[j] => i = j

\* The variables of a tool as a list: all of them, each of them once.
LEMMA Enumerated ==
  ASSUME NEW S, IsFiniteSet(S)
  PROVE  SetToSeq(S) \in Seq(S) /\ Once(SetToSeq(S)) /\ Range(SetToSeq(S)) = S
<1> DEFINE n == Cardinality(S)
           q == SetToSeq(S)
<1>1. n \in Nat /\ \E f \in [1..n -> S] : IsInjective(f)
  <2>1. n \in Nat /\ ExistsBijection(1..n, S)
    BY FS_CardinalityType
  <2> QED
    BY <2>1 DEF ExistsBijection, Bijection, Injection
<1>2. q \in [1..n -> S] /\ IsInjective(q)
  BY <1>1 DEF SetToSeq
<1> HIDE DEF q
<1>3. q \in Seq(S) /\ Len(q) = n
  BY <1>1, <1>2
<1>4. Once(q)
  BY <1>2, <1>3 DEF Once, IsInjective
<1>5. Range(q) = S
  <2>1. q \in Injection(1..n, S)
    BY <1>2 DEF Injection
  <2>2. Cardinality(1..n) = n
    BY <1>1, FS_Interval
  <2>3. q \in Surjection(1..n, S)
    <3> HIDE DEF n
    <3> QED
      BY <2>1, <2>2, FS_Injection DEF n
  <2> QED
    BY <1>2, <2>3 DEF Surjection, Range
<1> QED
  BY <1>3, <1>4, <1>5 DEF q

\* The rest of a list without repetitions is without its head.
LEMMA TakenFirst ==
  ASSUME NEW S, NEW q \in Seq(S), q # <<>>, Once(q)
  PROVE  /\ Tail(q) \in Seq(S) /\ Once(Tail(q)) /\ Head(q) \in Range(q)
         /\ Range(Tail(q)) = Range(q) \ {Head(q)}
<1> DEFINE n == Len(q)
           t == Tail(q)
<1>1. n \in Nat \ {0} /\ Head(q) = q[1] /\ DOMAIN q = 1..n
  OBVIOUS
<1>2. /\ t \in Seq(S) /\ Len(t) = n - 1 /\ DOMAIN t = 1..(n - 1)
      /\ \A i \in 1..(n - 1) : t[i] = q[i + 1]
  BY HeadTailProperties, LenProperties
<1> HIDE DEF n, t
<1>3. \A i \in 1..(n - 1) : i + 1 \in 1..n /\ i + 1 # 1
  BY <1>1
<1>4. Once(t)
  <2> SUFFICES ASSUME NEW i \in 1..(n - 1), NEW j \in 1..(n - 1), t[i] = t[j] PROVE i = j
    BY <1>2 DEF Once
  <2>1. q[i + 1] = q[j + 1]
    BY <1>2
  <2>2. i + 1 = j + 1
    BY <1>3, <2>1 DEF Once, n
  <2> QED
    BY <1>1, <2>2
<1>5. Range(t) = {q[i] : i \in 2..n}
  <2>1. \A k \in 2..n : k - 1 \in 1..(n - 1) /\ t[k - 1] = q[k]
    BY <1>1, <1>2
  <2>2. \A i \in 1..(n - 1) : i + 1 \in 2..n /\ t[i] = q[i + 1]
    BY <1>1, <1>2
  <2>3. Range(t) = {t[i] : i \in 1..(n - 1)}
    BY <1>2 DEF Range
  <2> QED
    BY ONLY <2>1, <2>2, <2>3
<1>6. 1..n = {1} \cup 2..n /\ 1 \notin 2..n
  BY <1>1
<1>7. \A i \in 2..n : q[i] # q[1]
  BY <1>1, <1>6 DEF Once, n
<1>8. Range(q) = {q[i] : i \in 1..n}
  BY <1>1 DEF Range
<1> QED
  BY <1>1, <1>2, <1>4, <1>5, <1>6, <1>7, <1>8 DEF t

ToolFields == {"text", "variables", "files", "finals", "sent", "usage", "result"}

Variables == DOMAIN mem.variables

\* What is said of the streams of a tool.
ToolStreamsInv ==
  /\ Variables \subseteq ToolVariables
  /\ \A i \in 1..Len(out) : out[i].selector \in {"", "text"} \cup Variables
  /\ \A s \in ToolStreams : FinalIsLast(s) \/ (s = "text" /\ "text" \in Variables)
AllOpen == \A s \in ToolStreams : ~IsClosed(s)
MoreVariables == Variables \subseteq Variables' /\ Variables' \subseteq ToolVariables

\* Without an event the streams of a tool are as they were, new ones are open.
LEMMA ToolRests ==
  ASSUME MoreVariables, ToolStreamsInv, out' = out
  PROVE  ToolStreamsInv' /\ (AllOpen => AllOpen')
<1>1. \A s : IsClosed(s)' = IsClosed(s) /\ FinalIsLast(s)' = FinalIsLast(s)
  BY DEF IsClosed, FinalIsLast
<1>2. \A i \in 1..Len(out') : out'[i].selector \in {"", "text"} \cup Variables'
  BY DEF ToolStreamsInv, MoreVariables
<1>3. \A s \in ToolStreams : FinalIsLast(s)' \/ (s = "text" /\ "text" \in Variables')
  BY <1>1 DEF ToolStreamsInv, MoreVariables
<1>4. AllOpen => AllOpen'
  BY <1>1 DEF AllOpen
<1> QED
  BY <1>2, <1>3, <1>4 DEF ToolStreamsInv, MoreVariables

\* A stream that is named once more is open or shared.
LEMMA ToolGoesOn ==
  ASSUME MoreVariables, RunInv, ToolStreamsInv,
         NEW type, NEW selector, NEW text, Own(type, selector, text),
         selector = "" \/ (selector \in {"text"} \cup Variables' /\ (AllOpen \/ ~IsClosed(selector)))
                       \/ (selector = "text" /\ "text" \in Variables')
  PROVE  /\ ToolStreamsInv'
         /\ \A s \in ToolStreams : IsClosed(s)' <=> IsClosed(s) \/ (selector = s /\ type = "final")
<1>1. /\ \A s : IsClosed(s)' <=> IsClosed(s) \/ (selector = s /\ type = "final")
      /\ \A s : selector # s /\ FinalIsLast(s) => FinalIsLast(s)'
      /\ \A s : ~IsClosed(s) => FinalIsLast(s)'
      /\ \A i \in 1..Len(out') : \/ i \in 1..Len(out) /\ out'[i] = out[i]
                                 \/ out'[i].selector = selector /\ out'[i].type = type
  BY EventShown
<1>2. \A i \in 1..Len(out') : out'[i].selector \in {"", "text"} \cup Variables'
  BY <1>1 DEF ToolStreamsInv, MoreVariables
<1>3. ASSUME NEW s \in ToolStreams PROVE FinalIsLast(s)' \/ (s = "text" /\ "text" \in Variables')
  <2>1. FinalIsLast(s) \/ (s = "text" /\ "text" \in Variables')
    BY DEF ToolStreamsInv, MoreVariables
  <2>2. CASE selector # s
    BY <1>1, <2>1, <2>2
  <2>3. CASE selector = s
    <3>1. s # ""
      BY DEF ToolStreams, ToolVariables
    <3>2. ~IsClosed(s) \/ (s = "text" /\ "text" \in Variables')
      BY <2>3, <3>1 DEF AllOpen
    <3> QED
      BY <1>1, <3>2
  <2> QED
    BY <2>2, <2>3
<1> QED
  BY <1>1, <1>2, <1>3 DEF ToolStreamsInv, MoreVariables

\* A step that stores no variable opens no stream.
LEMMA ToolRemains ==
  ASSUME ToolStreamsInv, mem'.variables = mem.variables
  PROVE  Variables' = Variables /\ MoreVariables
BY DEF ToolStreamsInv, MoreVariables, Variables

\* An event that ends no stream leaves them all as they were.
LEMMA ToolStays ==
  ASSUME MoreVariables, RunInv, ToolStreamsInv,
         NEW type \in EventTypes \ {"final"}, NEW selector, NEW text, Own(type, selector, text),
         selector = "" \/ (selector \in {"text"} \cup Variables' /\ AllOpen)
  PROVE  ToolStreamsInv' /\ \A s \in ToolStreams : IsClosed(s)' <=> IsClosed(s)
<1>1. /\ ToolStreamsInv'
      /\ \A s \in ToolStreams : IsClosed(s)' <=> IsClosed(s) \/ (selector = s /\ type = "final")
  BY ToolGoesOn
<1> QED
  BY <1>1

\* A step while messages still come.
LEMMA ToolOpen ==
  ASSUME ToolStreamsInv', AllOpen', DOMAIN mem' = ToolFields, stage' = "tool-message"
  PROVE  ToolInv'
BY DEF ToolInv, ToolStreamsInv, AllOpen, ToolFields, Streamed, Variables, HasSucceeded

\* A step while streams are closed.
LEMMA ToolCloses ==
  ASSUME ToolStreamsInv', DOMAIN mem' = ToolFields, stage' = "tool-final",
         NEW q \in Seq(Variables'), mem'.finals = q, Once(q),
         \A s \in (({"text"} \cup Variables') \ Range(q)) : IsClosed(s)',
         \A s \in Range(q) \ {"text"} : ~IsClosed(s)'
  PROVE  ToolInv'
BY DEF ToolInv, ToolStreamsInv, ToolFields, Streamed, Variables, HasSucceeded, Once

\* A tool that fails, at whatever step.
LEMMA ToolFailing ==
  ASSUME RunInv, Within, DOMAIN mem = ToolFields, ToolStreamsInv, ToolFails
  PROVE  RunStep /\ ToolInv'
<1>1. GoesOn("over") /\ Own("failed", "", <<>>)
  BY RaiseStep, CompleteStep DEF ToolFails, ResultEvent
<1>2. DOMAIN mem' = ToolFields /\ mem'.variables = mem.variables
  BY DEF ToolFails, ToolFields
<1>3. ToolStreamsInv'
  BY <1>1, <1>2, ToolRemains, ToolGoesOn
<1>4. out'[Len(out')].type = "failed" /\ stage' = "over" /\ RunStep
  BY <1>1, EventShown DEF GoesOn
<1> QED
  BY <1>2, <1>3, <1>4 DEF ToolInv, ToolStreamsInv, ToolFields, Streamed, Variables, HasSucceeded

\* A message that shows nothing, and one that does.
LEMMA ToolSilent ==
  ASSUME RunInv, Within, ToolStreamsInv, AllOpen, DOMAIN mem' = ToolFields, MoreVariables,
         Silently("tool-message")
  PROVE  RunStep /\ ToolInv'
<1>1. GoesOn("tool-message") /\ out' = out
  BY SilentStep DEF Amid
<1>2. ToolStreamsInv' /\ AllOpen'
  BY <1>1, ToolRests
<1> QED
  BY <1>1, <1>2, ToolOpen DEF GoesOn

\* A message of which a chunk is shown.
LEMMA ToolShows ==
  ASSUME RunInv, Within, ToolStreamsInv, AllOpen, DOMAIN mem' = ToolFields, MoreVariables,
         NEW selector \in {"text"} \cup Variables', NEW text, Stream(selector, text, "tool-message")
  PROVE  RunStep /\ ToolInv'
<1>1. GoesOn("tool-message") /\ Own("chunk", selector, text)
  BY StreamStep DEF Amid
<1>2. /\ ToolStreamsInv'
      /\ \A s \in ToolStreams : IsClosed(s)' <=> IsClosed(s)
  BY <1>1, ToolStays, NotFinal
<1>3. AllOpen'
  BY <1>2 DEF AllOpen
<1> QED
  BY <1>1, <1>2, <1>3, ToolOpen DEF GoesOn

\* Each step of a tool node keeps what is said of its streams.
LEMMA ToolKeeps == ASSUME WorkerInv, ToolStep PROVE WorkerInv'
<1>1. kind = "tool" /\ Within /\ stage \in {"run", "tool-message", "tool-final"}
  BY DEF ToolStep, ToolInvoke, ToolText, ToolFile, ToolOther, ToolVariable, ToolVariableStream,
     ToolRaises, ToolStreamEnds, ToolFinal, ToolSucceeds, Sends, ToolAt, Within
<1>2. RunInv /\ ToolInv /\ ToolStreamsInv /\ DOMAIN mem = ToolFields
  BY <1>1 DEF WorkerInv, ToolInv, ToolStreamsInv, ToolFields, Streamed, Variables
<1>3. stage \in {"run", "tool-message"} => AllOpen
  BY <1>2 DEF ToolInv, AllOpen
<1>4. mem'.variables = mem.variables => Variables' = Variables /\ MoreVariables
  BY <1>2, ToolRemains
<1>5. ToolFails => RunStep /\ ToolInv'
  BY <1>1, <1>2, ToolFailing
<1>6. ToolInvoke => RunStep /\ ToolInv'
  <2> SUFFICES ASSUME ToolInvoke PROVE RunStep /\ ToolInv'
    OBVIOUS
  <2>1. stage = "run"
    BY DEF ToolInvoke, ToolAt
  <2>2. CASE ~ToolFails
    <3>1. /\ mem' = [mem EXCEPT !.text = <<>>, !.variables = <<>>, !.files = 0, !.finals = <<>>,
                                !.sent = 0, !.usage = 0, !.result = <<>>]
          /\ Silently("tool-message")
      BY <2>2 DEF ToolInvoke
    <3>2. DOMAIN mem' = ToolFields /\ mem'.variables = <<>>
      BY <1>2, <3>1 DEF ToolFields
    <3>3. Variables' = {}
      BY <3>2 DEF Variables
    <3>4. GoesOn("tool-message") /\ out' = out
      BY <1>1, <3>1, SilentStep DEF Amid
    <3>5. \A i \in 1..Len(out') : out'[i].selector = ""
      BY <1>2, <2>1, <3>4 DEF ToolInv
    <3>6. \A s \in ToolStreams : FinalIsLast(s)' /\ ~IsClosed(s)'
      BY <3>5 DEF FinalIsLast, IsClosed, ToolStreams, ToolVariables
    <3>7. ToolStreamsInv' /\ AllOpen'
      BY <3>3, <3>5, <3>6 DEF ToolStreamsInv, AllOpen
    <3> QED
      BY <3>2, <3>4, <3>7, ToolOpen DEF GoesOn
  <2> QED
    BY <1>5, <2>2
<1>7. Sends => stage = "tool-message" /\ AllOpen
  BY <1>3 DEF Sends, ToolAt
<1>8. ToolText => RunStep /\ ToolInv'
  <2> SUFFICES ASSUME ToolText PROVE RunStep /\ ToolInv'
    OBVIOUS
  <2>1. PICK t \in {"word", "link"}, f \in {0, 1} :
          /\ mem' = [Sent(mem) EXCEPT !.text = Append(@, t), !.files = @ + f]
          /\ Stream("text", <<t>>, "tool-message")
    BY DEF ToolText
  <2>2. DOMAIN mem' = ToolFields /\ mem'.variables = mem.variables
    BY <1>2, <2>1 DEF Sent, ToolFields
  <2>3. AllOpen
    BY <1>7 DEF ToolText
  <2> QED
    BY <1>1, <1>2, <1>4, <2>1, <2>2, <2>3, ToolShows
<1>9. ToolFile \/ ToolOther => RunStep /\ ToolInv'
  <2> SUFFICES ASSUME ToolFile \/ ToolOther PROVE RunStep /\ ToolInv'
    OBVIOUS
  <2>1. \E f \in {0, 1} : mem' = [Sent(mem) EXCEPT !.files = @ + f]
    BY DEF ToolFile, ToolOther
  <2>2. DOMAIN mem' = ToolFields /\ mem'.variables = mem.variables
    BY <1>2, <2>1 DEF Sent, ToolFields
  <2>3. AllOpen /\ Silently("tool-message")
    BY <1>7 DEF ToolFile, ToolOther
  <2> QED
    BY <1>1, <1>2, <1>4, <2>2, <2>3, ToolSilent
<1>10. ASSUME NEW name \in ToolVariables, NEW value, mem' = SetVariable(mem, name, value)
       PROVE  DOMAIN mem' = ToolFields /\ MoreVariables /\ name \in Variables'
  <2> DEFINE vs == [n \in DOMAIN mem.variables \cup {name} |->
                      IF n = name THEN value ELSE mem.variables[n]]
  <2>1. DOMAIN Sent(mem) = ToolFields /\ Sent(mem).variables = mem.variables
    BY <1>2 DEF Sent, ToolFields
  <2>2. mem' = [Sent(mem) EXCEPT !.variables = vs]
    BY <1>10, <2>1 DEF SetVariable, ToolFields
  <2>3. DOMAIN vs = DOMAIN mem.variables \cup {name}
    OBVIOUS
  <2> HIDE DEF vs
  <2>4. DOMAIN mem' = ToolFields /\ mem'.variables = vs
    BY <2>1, <2>2 DEF ToolFields
  <2> QED
    BY <1>2, <2>3, <2>4 DEF MoreVariables, ToolStreamsInv, Variables
<1>11. ToolVariable => RunStep /\ ToolInv'
  <2> SUFFICES ASSUME ToolVariable PROVE RunStep /\ ToolInv'
    OBVIOUS
  <2>1. \E name \in ToolVariables, value \in {<<"word">>, NotText} : mem' = SetVariable(mem, name, value)
    BY DEF ToolVariable
  <2>2. AllOpen /\ Silently("tool-message")
    BY <1>7 DEF ToolVariable
  <2> QED
    BY <1>1, <1>2, <1>10, <2>1, <2>2, ToolSilent
<1>12. ToolVariableStream => RunStep /\ ToolInv'
  <2> SUFFICES ASSUME ToolVariableStream PROVE RunStep /\ ToolInv'
    OBVIOUS
  <2>1. PICK name \in ToolVariables : \E value :
          mem' = SetVariable(mem, name, value) /\ Stream(name, <<"word">>, "tool-message")
    BY DEF ToolVariableStream
  <2>2. AllOpen
    BY <1>7 DEF ToolVariableStream
  <2> QED
    BY <1>1, <1>2, <1>10, <2>1, <2>2, ToolShows
<1>13. ToolRaises => RunStep /\ ToolInv'
  BY <1>5 DEF ToolRaises
<1>14. ToolStreamEnds => RunStep /\ ToolInv'
  <2> SUFFICES ASSUME ToolStreamEnds PROVE RunStep /\ ToolInv'
    OBVIOUS
  <2> DEFINE q == SetToSeq(Variables)
  <2>1. AllOpen /\ mem' = [mem EXCEPT !.finals = q] /\ Final("text", "tool-final")
    BY <1>3 DEF ToolStreamEnds, ToolAt, Variables
  <2>2. DOMAIN mem' = ToolFields /\ mem'.variables = mem.variables /\ mem'.finals = q
    BY <1>2, <2>1 DEF ToolFields
  <2>3. q \in Seq(Variables) /\ Once(q) /\ Range(q) = Variables
    <3>1. IsFiniteSet({}) /\ IsFiniteSet({"v"}) /\ IsFiniteSet({"v"} \cup {"text"})
      BY FS_EmptySet, FS_Singleton, FS_AddElement
    <3>2. ToolVariables = {"v"} \cup {"text"} /\ Variables \subseteq ToolVariables
      BY <1>2 DEF ToolVariables, ToolStreamsInv
    <3>3. IsFiniteSet(Variables)
      BY <3>1, <3>2, FS_Subset
    <3> QED
      BY <3>3, Enumerated
  <2> HIDE DEF q
  <2>4. GoesOn("tool-final") /\ Own("final", "text", <<>>)
    BY <1>1, <2>1, FinalStep DEF Amid
  <2>5. Variables' = Variables /\ MoreVariables /\ Variables \subseteq ToolVariables
    BY <1>2, <1>4, <2>2 DEF ToolStreamsInv
  <2>6. /\ ToolStreamsInv'
        /\ \A s \in ToolStreams : IsClosed(s)' <=> IsClosed(s) \/ "text" = s
    BY <1>2, <2>1, <2>4, <2>5, ToolGoesOn
  <2>7. \A s \in ToolStreams : IsClosed(s)' <=> s = "text"
    BY <2>1, <2>6 DEF AllOpen
  <2>8. \A s \in (({"text"} \cup Variables) \ Range(q)) : IsClosed(s)'
    BY <2>3, <2>7 DEF ToolStreams
  <2>9. \A s \in Range(q) \ {"text"} : ~IsClosed(s)'
    BY <2>3, <2>5, <2>7 DEF ToolStreams
  <2>10. stage' = "tool-final" /\ RunStep
    BY <2>4 DEF GoesOn
  <2> QED
    BY <2>2, <2>3, <2>5, <2>6, <2>8, <2>9, <2>10, ToolCloses
<1>15. stage = "tool-final" =>
         /\ mem.finals \in Seq(Variables) /\ Once(mem.finals)
         /\ \A s \in (({"text"} \cup Variables) \ Range(mem.finals)) : IsClosed(s)
         /\ \A s \in Range(mem.finals) \ {"text"} : ~IsClosed(s)
  BY <1>2 DEF ToolInv, Once, Streamed, Variables
<1>16. ToolFinal => RunStep /\ ToolInv'
  <2> SUFFICES ASSUME ToolFinal PROVE RunStep /\ ToolInv'
    OBVIOUS
  <2> DEFINE q == mem.finals
             h == Head(q)
  <2>1. stage = "tool-final" /\ q # <<>> /\ mem' = [mem EXCEPT !.finals = Tail(q)] /\ Final(h, "tool-final")
    BY DEF ToolFinal, ToolAt
  <2>2. DOMAIN mem' = ToolFields /\ mem'.variables = mem.variables /\ mem'.finals = Tail(q)
    BY <1>2, <2>1 DEF ToolFields
  <2>3. /\ q \in Seq(Variables) /\ Once(q)
        /\ \A s \in (({"text"} \cup Variables) \ Range(q)) : IsClosed(s)
        /\ \A s \in Range(q) \ {"text"} : ~IsClosed(s)
    BY <1>15, <2>1
  <2> HIDE DEF q, h
  <2>4. /\ Tail(q) \in Seq(Variables) /\ Once(Tail(q)) /\ h \in Range(q) /\ h \in Variables
        /\ Range(Tail(q)) = Range(q) \ {h}
    <3>1. h \in Variables
      BY <2>1, <2>3, HeadTailProperties DEF h
    <3> QED
      BY <2>1, <2>3, <3>1, TakenFirst DEF h
  <2>5. GoesOn("tool-final") /\ Own("final", h, <<>>)
    BY <1>1, <2>1, FinalStep DEF Amid
  <2>6. Variables' = Variables /\ MoreVariables /\ Variables \subseteq ToolVariables
    BY <1>2, <1>4, <2>2 DEF ToolStreamsInv
  <2>7. h \in {"text"} \cup Variables' /\ (~IsClosed(h) \/ (h = "text" /\ "text" \in Variables'))
    BY <2>3, <2>4, <2>6
  <2>8. /\ ToolStreamsInv'
        /\ \A s \in ToolStreams : IsClosed(s)' <=> IsClosed(s) \/ h = s
    BY <1>2, <2>5, <2>6, <2>7, ToolGoesOn
  <2>9. \A s \in (({"text"} \cup Variables) \ Range(Tail(q))) : IsClosed(s)'
    BY <2>3, <2>4, <2>6, <2>8 DEF ToolStreams
  <2>10. \A s \in Range(Tail(q)) \ {"text"} : ~IsClosed(s)'
    <3>1. Range(q) \subseteq Variables
      BY <2>3 DEF Range
    <3> QED
      BY <2>3, <2>4, <2>6, <2>8, <3>1 DEF ToolStreams
  <2>11. stage' = "tool-final" /\ RunStep
    BY <2>5 DEF GoesOn
  <2> QED
    BY <2>2, <2>4, <2>6, <2>8, <2>9, <2>10, <2>11, ToolCloses
<1>17. ToolSucceeds => RunStep /\ ToolInv'
  <2> SUFFICES ASSUME ToolSucceeds PROVE RunStep /\ ToolInv'
    OBVIOUS
  <2>1. stage = "tool-final" /\ mem.finals = <<>>
    BY DEF ToolSucceeds, ToolAt
  <2>2. CASE ~ToolFails
    <3>1. PICK u \in {0, 1} :
            mem' = [mem EXCEPT !.usage = u,
                               !.result = [usage |-> u, text |-> IF "text" \in DOMAIN mem.variables
                                                                 THEN mem.variables["text"] ELSE mem.text]]
      BY <2>2 DEF ToolSucceeds
    <3>2. Complete("succeeded")
      BY <2>2 DEF ToolSucceeds
    <3>3. DOMAIN mem' = ToolFields /\ mem'.variables = mem.variables
      BY <1>2, <3>1 DEF ToolFields
    <3>4. GoesOn("over") /\ Own("succeeded", "", <<>>)
      BY <1>1, <3>2, CompleteStep DEF ResultEvent
    <3>5. \A s \in {"text"} \cup Variables : IsClosed(s)
      <4>1. Range(mem.finals) = {}
        BY <2>1 DEF Range
      <4> QED
        BY <1>15, <2>1, <4>1
    <3>6. Variables' = Variables /\ MoreVariables /\ Variables \subseteq ToolVariables
      BY <1>2, <1>4, <3>3 DEF ToolStreamsInv
    <3>7. /\ ToolStreamsInv'
          /\ \A s \in ToolStreams : IsClosed(s)' <=> IsClosed(s)
      BY <1>2, <3>4, <3>6, ToolStays, NotFinal
    <3>8. \A s \in {"text"} \cup Variables' : IsClosed(s)'
      BY <3>5, <3>6, <3>7 DEF ToolStreams
    <3>9. stage' = "over" /\ RunStep
      BY <3>4 DEF GoesOn
    <3> QED
      BY <3>3, <3>7, <3>8, <3>9
      DEF ToolInv, ToolStreamsInv, ToolFields, Streamed, Variables, HasSucceeded
  <2> QED
    BY <1>5, <2>2
<1>18. RunStep /\ ToolInv'
  BY <1>6, <1>8, <1>9, <1>11, <1>12, <1>13, <1>14, <1>16, <1>17 DEF ToolStep
<1> QED
  BY <1>1, <1>18, RunStepKeeps DEF WorkerInv, RunStep

-----------------------------------------------------------------------------
(* All of them.                                                            *)

\* Nodes of every kind begin with what is said of them.
LEMMA WorkerStarts == RunsInit => WorkerInv
<1> SUFFICES ASSUME RunsInit PROVE WorkerInv
  OBVIOUS
<1>1. /\ kind \in Kinds /\ stage = "idle" /\ out = <<>> /\ attempt = 1
      /\ xid = NoId /\ saved \in {NoId, "kept"}
  BY DEF RunsInit, BaseInit
<1>2. 1..Len(out) = {} /\ out \in Seq(Range(out)) /\ ~HasAnswered
  <2>1. kind = "any" => mem = "open"
    BY DEF RunsInit, BaseInit
  <2> QED
    BY <1>1, <2>1 DEF Range, HasAnswered
<1>3. RunInv
  BY <1>1, <1>2, RunAssumption DEF RunInv, EventInv, ResultInv
<1>4. \A s : ~IsClosed(s) /\ FinalIsLast(s)
  BY <1>2 DEF IsClosed, FinalIsLast
<1>5. kind = "llm" => LlmInv
  <2>1. kind = "llm" => LlmInit
    BY DEF RunsInit, BaseInit
  <2>2. LlmInit => DOMAIN mem = LlmFields
    BY DEF LlmInit, LlmFields
  <2> QED
    BY <1>1, <1>2, <1>4, <2>1, <2>2 DEF LlmInv, LlmFields, HasSucceeded
<1>6. kind = "tool" => ToolInv
  <2>1. kind = "tool" => ToolInit
    BY DEF RunsInit, BaseInit
  <2>2. ToolInit => DOMAIN mem = ToolFields /\ mem.variables = <<>>
    BY DEF ToolInit, ToolFields
  <2>3. DOMAIN <<>> = {}
    OBVIOUS
  <2> QED
    BY <1>1, <1>2, <1>4, <2>1, <2>2, <2>3 DEF ToolInv, ToolFields, HasSucceeded
<1>7. kind = "slim" => SlimInv
  <2>1. kind = "slim" => SlimInit
    BY DEF RunsInit, BaseInit
  <2>2. SlimInit => DOMAIN mem = {"action", "expect", "pipe", "exit", "wrote", "left", "held", "answer"}
                     /\ mem.pipe = <<>>
    BY DEF SlimInit
  <2>3. <<>> \in Seq(Lines)
    OBVIOUS
  <2> QED
    BY <2>1, <2>2, <2>3 DEF SlimInv
<1> QED
  BY <1>3, <1>5, <1>6, <1>7 DEF WorkerInv

\* Every step of a run keeps the invariant.
LEMMA WorkerGoesOn == WorkerInv /\ (BaseStep \/ LlmStep \/ SlimStep \/ ModelStep \/ ToolStep) => WorkerInv'
BY BeginKeeps, RunAgainKeeps, AnyKeeps, LlmKeeps, SlimKeeps, ModelKeeps, ToolKeeps DEF BaseStep

\* What does not concern the worker keeps it too.
LEMMA WorkerRests == WorkerInv /\ UNCHANGED nodeVars => WorkerInv'
<1> SUFFICES ASSUME WorkerInv, UNCHANGED nodeVars PROVE WorkerInv'
  OBVIOUS
<1>1. UNCHANGED <<kind, stage, mem, out, xid, saved, attempt>>
  BY DEF nodeVars
<1>2. RunInv'
  BY <1>1 DEF WorkerInv, RunInv, EventInv, EventAt, OwnId, ResultInv, ResultAt, HasAnswered, IsAstray
<1>3. \A s : IsClosed(s)' = IsClosed(s) /\ FinalIsLast(s)' = FinalIsLast(s)
  BY <1>1 DEF IsClosed, FinalIsLast
<1>4. kind = "llm" => LlmInv'
  BY <1>1, <1>3 DEF WorkerInv, LlmInv, HasSucceeded
<1>5. kind = "tool" => ToolInv'
  BY <1>1, <1>3 DEF WorkerInv, ToolInv, HasSucceeded, Streamed
<1>6. kind = "slim" => SlimInv'
  BY <1>1 DEF WorkerInv, SlimInv
<1> QED
  BY <1>1, <1>2, <1>4, <1>5, <1>6 DEF WorkerInv

\* What the invariant says in the words of the run.
LEMMA RunsWell ==
  ASSUME WorkerInv
  PROVE  /\ RunsTypeOK /\ OneResult /\ OneExecutionId
         /\ Succeeded => HasSucceeded
         /\ out \in Seq(Range(out)) /\ DOMAIN out = 1..Len(out)
<1>1. RunInv
  BY DEF WorkerInv
<1>2. out \in Seq(Range(out)) /\ Len(out) \in Nat /\ DOMAIN out = 1..Len(out)
  BY <1>1 DEF RunInv, EventInv
<1>3. \A e \in Range(out) : \E i \in 1..Len(out) : e = out[i]
  BY <1>2 DEF Range
<1>4. RunsTypeOK
  BY <1>1, <1>3 DEF RunInv, EventInv, EventAt, RunsTypeOK, EventTypes, OwnId, NoId
<1>5. OneResult
  <2>1. out # <<>> => out[1].type = "started" /\ Count("started") = 1
    <3> SUFFICES ASSUME out # <<>> PROVE out[1].type = "started" /\ Count("started") = 1
      OBVIOUS
    <3>1. 1 \in 1..Len(out)
      BY <1>2
    <3>2. {i \in DOMAIN out : out[i].type = "started"} = {1}
      BY <1>1, <1>2, <3>1 DEF RunInv, EventInv, EventAt
    <3>3. Cardinality({1}) = 1
      BY FS_Singleton
    <3> QED
      BY <1>1, <3>1, <3>2, <3>3 DEF RunInv, EventInv, EventAt, Count
  <2>2. ~IsAstray => \A i \in DOMAIN out : out[i].type \in ResultTypes => i = Len(out)
    BY <1>1, <1>2 DEF RunInv, ResultInv, ResultAt
  <2>3. Finished /\ ~IsAstray => Last(out).type \in ResultTypes
    BY <1>1 DEF RunInv, ResultInv, Finished, Last
  <2> QED
    BY <2>1, <2>2, <2>3 DEF OneResult
<1>6. OneExecutionId
  BY <1>1, <1>3 DEF RunInv, EventInv, EventAt, OneExecutionId, OwnId
<1>7. Succeeded => HasSucceeded
  BY DEF Succeeded, Finished, HasSucceeded, Last
<1> QED
  BY <1>2, <1>4, <1>5, <1>6, <1>7

\* What is said of the streams of a kind of node is what the coordinator asks.
LEMMA StreamsEndWell ==
  ASSUME WorkerInv, kind \in {"llm", "tool"}, NEW s \in Selectors
  PROVE  StreamIsClosed(s) \/ (s = "text" /\ NamesAnOutput)
<1>1. DOMAIN out = 1..Len(out) /\ (Succeeded => HasSucceeded)
  BY RunsWell
<1>2. PICK k \in 1..Len(out) : out[k].selector = s /\ s # ""
  BY <1>1 DEF Selectors, Range
<1>3. FinalIsLast(s) /\ (HasSucceeded => IsClosed(s)) => StreamIsClosed(s)
  <2> SUFFICES ASSUME FinalIsLast(s), HasSucceeded => IsClosed(s) PROVE StreamIsClosed(s)
    OBVIOUS
  <2> DEFINE on == {i \in DOMAIN out : out[i].selector = s}
  <2>1. \A i, j \in on : out[i].type = "final" => j <= i
    BY <1>1 DEF FinalIsLast
  <2>2. Succeeded => \E i \in on : out[i].type = "final"
    BY <1>1 DEF IsClosed
  <2> QED
    BY <2>1, <2>2 DEF StreamIsClosed
<1>4. CASE kind = "llm"
  <2>1. s = "text"
    BY <1>2, <1>4 DEF WorkerInv, LlmInv
  <2> QED
    BY <1>3, <1>4, <2>1 DEF WorkerInv, LlmInv
<1>5. CASE kind = "tool"
  <2>1. s \in Streamed /\ s \in ToolStreams
    BY <1>2, <1>5 DEF WorkerInv, ToolInv, Streamed, ToolStreams
  <2>2. FinalIsLast(s) \/ (s = "text" /\ NamesAnOutput)
    BY <1>5, <2>1 DEF WorkerInv, ToolInv, NamesAnOutput
  <2>3. HasSucceeded => IsClosed(s)
    BY <1>5, <2>1 DEF WorkerInv, ToolInv
  <2> QED
    BY <1>3, <2>2, <2>3
<1> QED
  BY <1>4, <1>5

\* What is said of the holder and the usage is what is asked of the usage.
LEMMA UsageIsKept == ASSUME WorkerInv PROVE LlmUsageKept
<1> SUFFICES ASSUME kind = "llm", Finished
             PROVE  mem.result.usage = IF Count("final") = 1 \/ mem.holder # 0 THEN mem.usage ELSE 0
  BY DEF LlmUsageKept
<1>1. LlmInv /\ stage = "over" /\ DOMAIN out = 1..Len(out) /\ Len(out) \in Nat
  BY RunsWell DEF WorkerInv, RunInv, EventInv, Finished
<1> DEFINE finals == {i \in DOMAIN out : out[i].type = "final"}
<1>2. \A i, j \in finals : i = j
  <2>1. \A i \in finals : i \in 1..Len(out) /\ out[i].selector = "text" /\ out[i].type = "final"
    BY <1>1 DEF LlmInv
  <2>2. \A i, j \in finals : i <= j /\ j <= i
    BY <1>1, <2>1 DEF LlmInv, FinalIsLast
  <2> HIDE DEF finals
  <2> QED
    BY <1>1, <2>1, <2>2
<1>3. IsClosed("text") <=> finals # {}
  BY <1>1 DEF LlmInv, IsClosed
<1>4. Cardinality(finals) = 1 <=> finals # {}
  <2>1. CASE finals = {}
    BY <2>1, FS_EmptySet
  <2>2. CASE finals # {}
    <3>1. PICK i : finals = {i}
      BY <1>2, <2>2
    <3> QED
      BY <3>1, FS_Singleton
  <2> QED
    BY <2>1, <2>2
<1>5. Count("final") = 1 <=> IsClosed("text")
  BY <1>3, <1>4 DEF Count
<1> QED
  BY <1>1, <1>5 DEF LlmInv

\* Of a run of a node, of whatever kind, answer and attempt: it has one result and
\* ends with it, its events carry one execution id, a stream is closed once, as its
\* last event and before the node succeeds (of a tool whose variable is called text:
\* its other streams), and the usage of a completed answer is not lost.
THEOREM NodeRunHolds == RunsSpec => []NodeRunInv
<1>1. RunsInit => WorkerInv
  BY WorkerStarts
<1>2. WorkerInv /\ [RunsNext]_runsVars => WorkerInv'
  BY WorkerGoesOn, WorkerRests DEF RunsNext, runsVars
<1>3. WorkerInv => NodeRunInv
  BY RunsWell, StreamsEndWell, UsageIsKept DEF NodeRunInv
<1> QED
  BY <1>1, <1>2, <1>3, PTL DEF RunsSpec

-----------------------------------------------------------------------------
(* The providers of the Slim runtime.                                      *)

Loads == {"loading", "download", "extract", "read"}

ProvidersTypeOK ==
  /\ where \in [Threads -> Loads \cup {"idle", "waiting", "lookup"}]
  /\ wanted \in [Threads -> Providers]
  /\ answer \in [Threads -> {None, "found", "early", "unknown", "error"}]
  /\ lock \in Threads \cup {None} /\ next \in Nat /\ crashes \in Nat /\ raised \in BOOLEAN
  /\ disk \in [Providers -> {"absent", "partial", "whole"}] /\ downloads \in [Providers -> Nat]

\* Who has the lock loads, and has come as far as next says; without the lock
\* nothing is loaded or everything, unless a load has raised.
LoadInv ==
  /\ \A t \in Threads : where[t] \in Loads <=> lock = t
  /\ lock # None => next \in 1..Len(Bindings) /\ DOMAIN loaded = {Bindings[i] : i \in 1..(next - 1)}
  /\ lock = None /\ ~raised => loaded = <<>> \/ DOMAIN loaded = Providers
  /\ \A t \in Threads : where[t] = "lookup" => loaded # <<>>

\* A directory is partly there while the thread with the lock unpacks it, or
\* since a crash; and is there for good once its package was unpacked.
DiskInv ==
  /\ \A t \in Threads : /\ where[t] = "download" => disk[Current] = "absent"
                        /\ where[t] = "extract" => disk[Current] = "partial"
                        /\ where[t] = "read" /\ crashes = 0 => disk[Current] = "whole"
  /\ crashes = 0 =>
       \A p \in Providers : disk[p] = "partial" => p = Current /\ \E t \in Threads : where[t] = "extract"
  /\ crashes = 0 => \A p \in DOMAIN loaded : loaded[p] = "whole"
  /\ \A p \in Providers : downloads[p] <= 1 /\ (downloads[p] = 1 => disk[p] = "whole")

LookupInv == ProvidersTypeOK /\ LoadInv /\ DiskInv /\ KnownUnlessLoading

\* The bindings by their indices.
LEMMA Configured ==
  /\ Len(Bindings) \in Nat \ {0} /\ None \notin Threads
  /\ \A i \in 1..Len(Bindings) : Bindings[i] \in Providers
  /\ {Bindings[i] : i \in 1..Len(Bindings)} = Providers
<1>1. Bindings \in Seq(Providers) /\ Bindings # <<>> /\ None \notin Threads
  BY ProvidersAssumption DEF Providers, None
<1>2. Len(Bindings) \in Nat /\ Len(Bindings) # 0 /\ DOMAIN Bindings = 1..Len(Bindings)
  BY <1>1
<1> QED
  BY <1>1, <1>2 DEF Providers, Range

\* No thread has begun, no provider is loaded, no lock is held.
LEMMA LookupStarts == ProvidersInit => LookupInv
<1> SUFFICES ASSUME ProvidersInit PROVE LookupInv
  OBVIOUS
<1>1. ProvidersTypeOK
  BY DEF ProvidersInit, ProvidersTypeOK, Loads, None
<1>2. LoadInv
  BY Configured DEF ProvidersInit, LoadInv, Loads
<1>3. DiskInv
  BY DEF ProvidersInit, DiskInv
<1>4. KnownUnlessLoading
  BY DEF ProvidersInit, KnownUnlessLoading, None
<1> QED
  BY <1>1, <1>2, <1>3, <1>4 DEF LookupInv

Steps == Loads \cup {"idle", "waiting", "lookup"}

\* One thread moves, the others stay.
LEMMA GoesTo ==
  ASSUME ProvidersTypeOK, NEW t \in Threads, NEW step \in Steps, Goes(t, step)
  PROVE  /\ where' \in [Threads -> Steps]
         /\ \A u \in Threads : where'[u] = IF u = t THEN step ELSE where[u]
BY DEF ProvidersTypeOK, Goes, Steps

\* The test without the lock changes nothing that is shared.
LEMMA FirstTestKeeps ==
  ASSUME LookupInv, NEW t \in Threads, FirstTest(t) PROVE LookupInv'
<1> DEFINE step == IF loaded # <<>> THEN "lookup" ELSE "waiting"
<1>1. /\ where[t] = "idle" /\ Goes(t, step)
      /\ UNCHANGED <<wanted, answer, lock, next, loaded, disk, downloads, raised, crashes>>
  BY DEF FirstTest
<1>2. step \in {"lookup", "waiting"} /\ step \in Steps /\ (step = "lookup" => loaded # <<>>)
  BY DEF Steps
<1> HIDE DEF step
<1>3. /\ where' \in [Threads -> Steps]
      /\ \A u \in Threads : where'[u] = IF u = t THEN step ELSE where[u]
  BY <1>1, <1>2, GoesTo DEF LookupInv
<1>4. ProvidersTypeOK'
  BY <1>1, <1>3 DEF LookupInv, ProvidersTypeOK, Steps
<1>5. \A u \in Threads : /\ where'[u] \in Loads <=> where[u] \in Loads
                         /\ where'[u] \in Loads => where'[u] = where[u]
  BY <1>1, <1>2, <1>3 DEF Loads
<1>6. LoadInv'
  BY <1>1, <1>2, <1>3, <1>5 DEF LookupInv, LoadInv
<1>7. DiskInv'
  BY <1>1, <1>3, <1>5 DEF LookupInv, DiskInv, Current, Loads
<1>8. KnownUnlessLoading'
  BY <1>1 DEF LookupInv, KnownUnlessLoading
<1> QED
  BY <1>4, <1>6, <1>7, <1>8 DEF LookupInv

\* With the lock, a thread loads from the first binding on or finds all loaded.
LEMMA LockAndTestKeeps ==
  ASSUME LookupInv, NEW t \in Threads, LockAndTest(t) PROVE LookupInv'
<1>1. /\ where[t] = "waiting" /\ lock = None
      /\ UNCHANGED <<wanted, answer, loaded, disk, downloads, raised, crashes>>
  BY DEF LockAndTest
<1>2. \A u \in Threads : where[u] \notin Loads
  BY <1>1, Configured DEF LookupInv, LoadInv
<1>3. CASE loaded # <<>>
  <2>1. Goes(t, "lookup") /\ UNCHANGED <<lock, next>>
    BY <1>3 DEF LockAndTest
  <2>2. /\ where' \in [Threads -> Steps]
        /\ \A u \in Threads : where'[u] = IF u = t THEN "lookup" ELSE where[u]
    BY <2>1, GoesTo DEF LookupInv, Steps
  <2>3. ProvidersTypeOK'
    BY <1>1, <2>1, <2>2 DEF LookupInv, ProvidersTypeOK, Steps
  <2>4. \A u \in Threads : where'[u] \notin Loads
    BY <1>2, <2>2 DEF Loads
  <2>5. LoadInv'
    BY <1>1, <1>2, <1>3, <2>1, <2>2, <2>4 DEF LookupInv, LoadInv
  <2>6. DiskInv'
    BY <1>1, <1>2, <2>1, <2>4 DEF LookupInv, DiskInv, Current, Loads
  <2>7. KnownUnlessLoading'
    BY <1>1 DEF LookupInv, KnownUnlessLoading
  <2> QED
    BY <2>3, <2>5, <2>6, <2>7 DEF LookupInv
<1>4. CASE loaded = <<>>
  <2>1. Goes(t, "loading") /\ lock' = t /\ next' = 1
    BY <1>4 DEF LockAndTest
  <2>2. /\ where' \in [Threads -> Steps]
        /\ \A u \in Threads : where'[u] = IF u = t THEN "loading" ELSE where[u]
    BY <2>1, GoesTo DEF LookupInv, Steps, Loads
  <2>3. ProvidersTypeOK'
    BY <1>1, <2>1, <2>2 DEF LookupInv, ProvidersTypeOK, Steps
  <2>4. \A u \in Threads : where'[u] \in Loads <=> u = t
    BY <1>2, <2>2 DEF Loads
  <2>5. LoadInv'
    <3>1. DOMAIN loaded = {} /\ {Bindings[i] : i \in 1..(next' - 1)} = {}
      BY <1>4, <2>1
    <3>2. next' \in 1..Len(Bindings)
      BY <2>1, Configured
    <3>3. \A u \in Threads : where'[u] = "lookup" => loaded # <<>>
      BY <2>2 DEF LookupInv, LoadInv
    <3> QED
      BY <1>1, <2>1, <2>4, <3>1, <3>2, <3>3, Configured DEF LoadInv
  <2>6. DiskInv'
    <3>1. \A u \in Threads : where'[u] \notin {"download", "extract", "read"}
      BY <1>2, <2>2 DEF Loads
    <3>2. crashes = 0 => \A p \in Providers : disk[p] # "partial"
      BY <1>2 DEF LookupInv, DiskInv, Loads
    <3> QED
      BY <1>1, <3>1, <3>2 DEF LookupInv, DiskInv
  <2>7. KnownUnlessLoading'
    BY <1>1 DEF LookupInv, KnownUnlessLoading
  <2> QED
    BY <2>3, <2>5, <2>6, <2>7 DEF LookupInv
<1> QED
  BY <1>3, <1>4

\* What a step within a load knows.
LEMMA Loading ==
  ASSUME LookupInv, NEW t \in Threads, where[t] \in Loads
  PROVE  /\ lock = t /\ lock # None /\ next \in 1..Len(Bindings) /\ Current \in Providers
         /\ \A u \in Threads : u # t => where[u] \notin Loads
  BY Configured DEF LookupInv, LoadInv, Current

\* A load that raises leaves nobody loading; the directory of the provider is as
\* it was or has been removed.
LEMMA RaisingKeeps ==
  ASSUME LookupInv, NEW t \in Threads, where[t] \in Loads, LoadRaises(t),
         UNCHANGED <<wanted, next, loaded, downloads, crashes>>,
         \/ disk' = disk /\ where[t] # "extract"
         \/ disk' = [disk EXCEPT ![Current] = "absent"] /\ where[t] = "extract"
  PROVE  LookupInv'
<1>1. /\ lock = t /\ next \in 1..Len(Bindings) /\ Current \in Providers
      /\ \A u \in Threads : u # t => where[u] \notin Loads
  BY Loading
<1>2. Goes(t, "idle") /\ answer' = [answer EXCEPT ![t] = "error"] /\ lock' = None /\ raised' = TRUE
  BY DEF LoadRaises
<1>3. /\ where' \in [Threads -> Steps]
      /\ \A u \in Threads : where'[u] = IF u = t THEN "idle" ELSE where[u]
  BY <1>2, GoesTo DEF LookupInv, Steps
<1>4. \A u \in Threads : where'[u] \notin Loads
  BY <1>1, <1>3 DEF Loads
<1>5. ProvidersTypeOK'
  BY <1>1, <1>2, <1>3 DEF LookupInv, ProvidersTypeOK, Steps
<1>6. LoadInv'
  BY <1>2, <1>3, <1>4, Configured DEF LookupInv, LoadInv
<1>7. DiskInv'
  <2>1. crashes = 0 => \A p \in Providers : disk'[p] # "partial"
    <3>1. CASE where[t] # "extract"
      <4>1. \A u \in Threads : where[u] # "extract"
        BY <1>1, <3>1 DEF Loads
      <4> QED
        BY <3>1, <4>1 DEF LookupInv, DiskInv
    <3>2. CASE where[t] = "extract"
      BY <1>1, <3>2 DEF LookupInv, ProvidersTypeOK, DiskInv
    <3> QED
      BY <3>1, <3>2
  <2>2. \A p \in Providers : downloads'[p] <= 1 /\ (downloads'[p] = 1 => disk'[p] = "whole")
    <3>1. CASE where[t] # "extract"
      BY <3>1 DEF LookupInv, DiskInv
    <3>2. CASE where[t] = "extract"
      BY <1>1, <3>2 DEF LookupInv, ProvidersTypeOK, DiskInv
    <3> QED
      BY <3>1, <3>2
  <2>3. \A u \in Threads : where'[u] \notin {"download", "extract", "read"}
    BY <1>4 DEF Loads
  <2>4. crashes' = 0 => \A p \in DOMAIN loaded' : loaded'[p] = "whole"
    BY DEF LookupInv, DiskInv
  <2> QED
    BY <2>1, <2>2, <2>3, <2>4 DEF DiskInv
<1>8. KnownUnlessLoading'
  BY <1>2 DEF KnownUnlessLoading
<1> QED
  BY <1>5, <1>6, <1>7, <1>8 DEF LookupInv

\* The thread that loads comes to the next step of the same provider.
Advances(t, step) ==
  /\ where[t] \in Loads /\ step \in Loads /\ Goes(t, step)
  /\ UNCHANGED <<wanted, answer, lock, next, loaded, raised, crashes>>

\* A step within the load of one provider, by the thread with the lock.
LEMMA AdvancingKeeps ==
  ASSUME LookupInv, NEW t \in Threads, NEW step, Advances(t, step)
  PROVE  /\ \A u \in Threads : where'[u] = IF u = t THEN step ELSE where[u]
         /\ \A u \in Threads : u # t => where'[u] \notin Loads
         /\ where' \in [Threads -> Steps]
         /\ LoadInv' /\ KnownUnlessLoading'
<1>1. /\ lock = t /\ next \in 1..Len(Bindings) /\ Current \in Providers
      /\ \A u \in Threads : u # t => where[u] \notin Loads
  BY Loading DEF Advances
<1>2. /\ where' \in [Threads -> Steps]
      /\ \A u \in Threads : where'[u] = IF u = t THEN step ELSE where[u]
  BY GoesTo DEF LookupInv, Steps, Advances
<1>3. \A u \in Threads : where'[u] \in Loads <=> where[u] \in Loads
  BY <1>2 DEF Advances
<1>4. step # "lookup"
  BY DEF Advances, Loads
<1>5. LoadInv'
  BY <1>2, <1>3, <1>4 DEF Advances, LookupInv, LoadInv
<1>6. KnownUnlessLoading'
  BY DEF Advances, LookupInv, KnownUnlessLoading
<1> QED
  BY <1>1, <1>2, <1>5, <1>6

\* A package that is on the disk is read, one that is absent is downloaded.
LEMMA FindRootKeeps ==
  ASSUME LookupInv, NEW t \in Threads, FindRoot(t) PROVE LookupInv'
<1> DEFINE step == IF disk[Current] = "absent" THEN "download" ELSE "read"
<1>1. where[t] = "loading" /\ Advances(t, step) /\ UNCHANGED <<disk, downloads>>
  BY DEF FindRoot, Advances, Loads
<1>2. step \in {"download", "read"} /\ (step = "download" <=> disk[Current] = "absent")
  OBVIOUS
<1> HIDE DEF step
<1>3. /\ \A u \in Threads : where'[u] = IF u = t THEN step ELSE where[u]
      /\ \A u \in Threads : u # t => where'[u] \notin Loads
      /\ where' \in [Threads -> Steps] /\ LoadInv' /\ KnownUnlessLoading'
  BY <1>1, AdvancingKeeps
<1>4. Current' = Current /\ Current \in Providers /\ \A u \in Threads : u # t => where[u] \notin Loads
  BY <1>1, Loading DEF Advances, Current
<1>5. ProvidersTypeOK'
  BY <1>1, <1>3 DEF LookupInv, ProvidersTypeOK, Steps, Advances
<1>6. crashes = 0 => \A p \in Providers : disk[p] # "partial"
  BY <1>1, <1>4 DEF LookupInv, DiskInv, Loads
<1>7. step = "read" /\ crashes = 0 => disk[Current] = "whole"
  BY <1>2, <1>4, <1>6 DEF LookupInv, ProvidersTypeOK
<1>8. \A u \in Threads : where'[u] \in {"download", "extract", "read"} => u = t /\ where'[u] = step
  BY <1>3 DEF Loads
<1>9. DiskInv'
  BY <1>1, <1>2, <1>4, <1>6, <1>7, <1>8 DEF LookupInv, DiskInv, Advances
<1> QED
  BY <1>3, <1>5, <1>9 DEF LookupInv

\* A download leaves a directory that is partly there.
LEMMA DownloadKeeps ==
  ASSUME LookupInv, NEW t \in Threads, Download(t) PROVE LookupInv'
<1>1. where[t] = "download" /\ where[t] \in Loads /\ UNCHANGED <<wanted, next, loaded, downloads, crashes>>
  BY DEF Download, Loads
<1>2. CASE LoadRaises(t) /\ disk' = disk
  BY <1>1, <1>2, RaisingKeeps
<1>3. CASE Goes(t, "extract") /\ disk' = [disk EXCEPT ![Current] = "partial"]
           /\ UNCHANGED <<answer, lock, raised>>
  <2>1. Advances(t, "extract")
    BY <1>1, <1>3 DEF Advances, Loads
  <2>2. /\ \A u \in Threads : where'[u] = IF u = t THEN "extract" ELSE where[u]
        /\ \A u \in Threads : u # t => where'[u] \notin Loads
        /\ where' \in [Threads -> Steps] /\ LoadInv' /\ KnownUnlessLoading'
    BY <2>1, AdvancingKeeps
  <2>3. Current' = Current /\ Current \in Providers /\ \A u \in Threads : u # t => where[u] \notin Loads
    BY <1>1, Loading DEF Current
  <2>4. /\ disk' \in [Providers -> {"absent", "partial", "whole"}]
        /\ \A p \in Providers : disk'[p] = IF p = Current THEN "partial" ELSE disk[p]
    BY <1>3, <2>3 DEF LookupInv, ProvidersTypeOK
  <2>5. ProvidersTypeOK'
    BY <1>1, <1>3, <2>2, <2>4 DEF LookupInv, ProvidersTypeOK, Steps
  <2>6. \A u \in Threads : where[u] # "extract"
    BY <1>1, <2>3 DEF Loads
  <2>7. crashes = 0 => \A p \in Providers : disk[p] # "partial"
    BY <2>6 DEF LookupInv, DiskInv
  <2>8. \A u \in Threads : where'[u] \in {"download", "extract", "read"} => u = t /\ where'[u] = "extract"
    BY <2>2 DEF Loads
  <2>9. \A p \in Providers : downloads'[p] <= 1 /\ (downloads'[p] = 1 => disk'[p] = "whole")
    <3>1. disk[Current] = "absent"
      BY <1>1 DEF LookupInv, DiskInv
    <3> QED
      BY <1>1, <2>4, <3>1 DEF LookupInv, DiskInv
  <2>10. DiskInv'
    <3>1. crashes' = 0 => \A p \in Providers : disk'[p] = "partial" => p = Current'
      BY <1>1, <2>3, <2>4, <2>7
    <3>2. where'[t] = "extract"
      BY <2>2
    <3>3. disk'[Current'] = "partial"
      BY <2>3, <2>4
    <3>4. crashes' = 0 => \A p \in DOMAIN loaded' : loaded'[p] = "whole"
      BY <1>1 DEF LookupInv, DiskInv
    <3> QED
      BY <2>8, <2>9, <3>1, <3>2, <3>3, <3>4 DEF DiskInv
  <2> QED
    BY <2>2, <2>5, <2>10 DEF LookupInv
<1> QED
  BY <1>2, <1>3 DEF Download

\* When a package is unpacked it is whole, once and for all.
LEMMA ExtractKeeps ==
  ASSUME LookupInv, NEW t \in Threads, Extract(t) PROVE LookupInv'
<1>1. where[t] = "extract" /\ where[t] \in Loads /\ UNCHANGED <<wanted, next, loaded, crashes>>
  BY DEF Extract, Loads
<1>2. CASE LoadRaises(t) /\ disk' = [disk EXCEPT ![Current] = "absent"] /\ UNCHANGED downloads
  BY <1>1, <1>2, RaisingKeeps
<1>3. CASE /\ Goes(t, "read") /\ disk' = [disk EXCEPT ![Current] = "whole"]
           /\ downloads' = [downloads EXCEPT ![Current] = @ + 1]
           /\ UNCHANGED <<answer, lock, raised>>
  <2>1. Advances(t, "read")
    BY <1>1, <1>3 DEF Advances, Loads
  <2>2. /\ \A u \in Threads : where'[u] = IF u = t THEN "read" ELSE where[u]
        /\ \A u \in Threads : u # t => where'[u] \notin Loads
        /\ where' \in [Threads -> Steps] /\ LoadInv' /\ KnownUnlessLoading'
    BY <2>1, AdvancingKeeps
  <2>3. Current' = Current /\ Current \in Providers
    BY <1>1, Loading DEF Current
  <2>4. /\ disk' \in [Providers -> {"absent", "partial", "whole"}]
        /\ \A p \in Providers : disk'[p] = IF p = Current THEN "whole" ELSE disk[p]
        /\ downloads \in [Providers -> Nat] /\ downloads' \in [Providers -> Nat]
        /\ \A p \in Providers : downloads'[p] = IF p = Current THEN downloads[p] + 1 ELSE downloads[p]
    BY <1>3, <2>3 DEF LookupInv, ProvidersTypeOK
  <2>5. ProvidersTypeOK'
    BY <1>1, <1>3, <2>2, <2>4 DEF LookupInv, ProvidersTypeOK, Steps
  <2>6. \A p \in Providers : downloads'[p] <= 1 /\ (downloads'[p] = 1 => disk'[p] = "whole")
    <3>1. disk[Current] = "partial"
      BY <1>1 DEF LookupInv, DiskInv
    <3>2. downloads[Current] = 0
      BY <2>3, <2>4, <3>1 DEF LookupInv, DiskInv
    <3> QED
      BY <2>4, <3>2 DEF LookupInv, DiskInv
  <2>7. crashes = 0 => \A p \in Providers : disk'[p] # "partial"
    BY <2>4 DEF LookupInv, DiskInv
  <2>8. \A u \in Threads : where'[u] \in {"download", "extract", "read"} => u = t /\ where'[u] = "read"
    BY <2>2 DEF Loads
  <2>9. DiskInv'
    <3>1. disk'[Current'] = "whole"
      BY <2>3, <2>4
    <3>2. crashes' = 0 => \A p \in DOMAIN loaded' : loaded'[p] = "whole"
      BY <1>1 DEF LookupInv, DiskInv
    <3> QED
      BY <1>1, <2>6, <2>7, <2>8, <3>1, <3>2 DEF DiskInv
  <2> QED
    BY <2>2, <2>5, <2>9 DEF LookupInv
<1> QED
  BY <1>2, <1>3 DEF Extract

\* A provider that was read is loaded; after the last the lock is free.
LEMMA ReadKeeps ==
  ASSUME LookupInv, NEW t \in Threads, Read(t) PROVE LookupInv'
<1>1. where[t] = "read" /\ where[t] \in Loads /\ UNCHANGED <<wanted, disk, downloads, crashes>>
  BY DEF Read, Loads
<1>2. CASE LoadRaises(t) /\ UNCHANGED <<loaded, next>>
  BY <1>1, <1>2, RaisingKeeps
<1>3. CASE ~(LoadRaises(t) /\ UNCHANGED <<loaded, next>>)
  <2> DEFINE all == next = Len(Bindings)
             step == IF all THEN "lookup" ELSE "loading"
  <2>1. /\ loaded' = [p \in DOMAIN loaded \cup {Current} |->
                        IF p = Current THEN disk[p] ELSE loaded[p]]
        /\ next' = next + 1 /\ Goes(t, step) /\ (IF all THEN lock' = None ELSE lock' = lock)
        /\ UNCHANGED <<answer, raised>>
    BY <1>3 DEF Read
  <2>2. /\ lock = t /\ next \in 1..Len(Bindings) /\ Current \in Providers
        /\ \A u \in Threads : u # t => where[u] \notin Loads
        /\ DOMAIN loaded = {Bindings[i] : i \in 1..(next - 1)}
    BY <1>1, Loading DEF LookupInv, LoadInv
  <2>3. step \in {"lookup", "loading"} /\ (step = "loading" <=> ~all) /\ step \in Steps
    BY DEF Steps, Loads
  <2> HIDE DEF step
  <2>4. /\ where' \in [Threads -> Steps]
        /\ \A u \in Threads : where'[u] = IF u = t THEN step ELSE where[u]
    BY <2>1, <2>3, GoesTo DEF LookupInv
  <2>5. DOMAIN loaded' = {Bindings[i] : i \in 1..next} /\ loaded' # <<>> /\ next \in Nat
    <3>1. DOMAIN loaded' = {Bindings[i] : i \in 1..(next - 1)} \cup {Bindings[next]} /\ next \in Nat \ {0}
      BY <2>1, <2>2, Configured DEF Current
    <3>2. 1..next = (1..(next - 1)) \cup {next}
      BY <3>1
    <3>3. DOMAIN loaded' = {Bindings[i] : i \in 1..next} /\ Bindings[next] \in DOMAIN loaded'
      BY <3>1, <3>2
    <3>4. DOMAIN <<>> = {}
      OBVIOUS
    <3> QED
      BY <3>1, <3>3, <3>4
  <2>6. ProvidersTypeOK'
    BY <1>1, <2>1, <2>2, <2>4, <2>5 DEF LookupInv, ProvidersTypeOK, Steps
  <2>7. LoadInv'
    <3>1. \A u \in Threads : where'[u] \in Loads <=> lock' = u
      BY <2>1, <2>2, <2>3, <2>4, Configured DEF Loads
    <3>2. lock' # None => next' \in 1..Len(Bindings) /\ DOMAIN loaded' = {Bindings[i] : i \in 1..(next' - 1)}
      <4>1. lock' # None => next # Len(Bindings) /\ next' = next + 1
        BY <2>1
      <4>2. lock' # None => next' \in 1..Len(Bindings) /\ next' - 1 = next
        BY <2>2, <4>1, Configured
      <4> QED
        BY <2>5, <4>2
    <3>3. lock' = None => DOMAIN loaded' = Providers
      BY <2>1, <2>2, <2>5, Configured
    <3> QED
      BY <2>5, <3>1, <3>2, <3>3 DEF LoadInv
  <2>8. DiskInv'
    <3>1. \A u \in Threads : where'[u] \notin {"download", "extract", "read"}
      BY <2>2, <2>3, <2>4 DEF Loads
    <3>2. crashes = 0 => \A p \in Providers : disk[p] # "partial"
      BY <1>1, <2>2 DEF LookupInv, DiskInv, Loads
    <3>3. crashes = 0 => \A p \in DOMAIN loaded' : loaded'[p] = "whole"
      BY <1>1, <2>1 DEF LookupInv, DiskInv
    <3> QED
      BY <1>1, <3>1, <3>2, <3>3 DEF LookupInv, DiskInv
  <2>9. KnownUnlessLoading'
    BY <2>1 DEF LookupInv, KnownUnlessLoading
  <2> QED
    BY <2>6, <2>7, <2>8, <2>9 DEF LookupInv
<1> QED
  BY <1>2, <1>3

\* A lookup finds what is loaded, and all is loaded unless somebody loads.
LEMMA LookupKeeps ==
  ASSUME LookupInv, NEW t \in Threads, Lookup(t) PROVE LookupInv'
<1> DEFINE a == IF wanted[t] \in DOMAIN loaded THEN "found" ELSE IF lock # None THEN "early" ELSE "unknown"
<1>1. /\ where[t] = "lookup" /\ Goes(t, "idle") /\ answer' = [answer EXCEPT ![t] = a]
      /\ UNCHANGED <<wanted, lock, next, loaded, disk, downloads, raised, crashes>>
  BY DEF Lookup
<1>2. /\ where' \in [Threads -> Steps]
      /\ \A u \in Threads : where'[u] = IF u = t THEN "idle" ELSE where[u]
  BY <1>1, GoesTo DEF LookupInv, Steps
<1>3. a \in {"found", "early", "unknown"} /\ (a = "unknown" => raised)
  <2>1. wanted[t] \in Providers /\ loaded # <<>>
    BY <1>1 DEF LookupInv, ProvidersTypeOK, LoadInv
  <2> QED
    BY <2>1 DEF LookupInv, LoadInv
<1> HIDE DEF a
<1>4. ProvidersTypeOK'
  BY <1>1, <1>2, <1>3 DEF LookupInv, ProvidersTypeOK, Steps
<1>5. \A u \in Threads : /\ where'[u] \in Loads <=> where[u] \in Loads
                         /\ where'[u] \in Loads => where'[u] = where[u]
  BY <1>1, <1>2 DEF Loads
<1>6. LoadInv'
  BY <1>1, <1>2, <1>5 DEF LookupInv, LoadInv
<1>7. DiskInv'
  BY <1>1, <1>2, <1>5 DEF LookupInv, DiskInv, Current, Loads
<1>8. KnownUnlessLoading'
  BY <1>1, <1>3 DEF LookupInv, KnownUnlessLoading, ProvidersTypeOK
<1> QED
  BY <1>4, <1>6, <1>7, <1>8 DEF LookupInv

\* After a crash only the disk is as it was.
LEMMA CrashKeeps ==
  ASSUME LookupInv, Crash PROVE LookupInv'
<1>1. lock' = None /\ next' = 1 /\ crashes' = crashes + 1 /\ raised' = FALSE
  BY DEF Crash
<1>2. where' = [t \in Threads |-> "idle"] /\ answer' = [t \in Threads |-> None]
  BY DEF Crash
<1>3. loaded' = <<>> /\ UNCHANGED <<wanted, disk, downloads>>
  BY DEF Crash
<1>4. crashes \in Nat /\ crashes' \in Nat /\ crashes' # 0 /\ next' \in Nat
  BY <1>1 DEF LookupInv, ProvidersTypeOK
<1>5. ProvidersTypeOK'
  <2>1. /\ where' \in [Threads -> Loads \cup {"idle", "waiting", "lookup"}]
        /\ answer' \in [Threads -> {None, "found", "early", "unknown", "error"}]
    BY <1>2
  <2>2. lock' \in Threads \cup {None} /\ raised' \in BOOLEAN
    BY <1>1
  <2>3. /\ wanted' \in [Threads -> Providers]
        /\ disk' \in [Providers -> {"absent", "partial", "whole"}] /\ downloads' \in [Providers -> Nat]
    BY <1>3 DEF LookupInv, ProvidersTypeOK, Providers
  <2> QED
    BY <1>4, <2>1, <2>2, <2>3 DEF ProvidersTypeOK, Providers
<1>6. \A t \in Threads : where'[t] = "idle" /\ answer'[t] = None
  BY <1>2
<1>7. LoadInv'
  BY <1>1, <1>3, <1>6, Configured DEF LoadInv, Loads
<1>8. DiskInv'
  BY <1>3, <1>4, <1>6 DEF LookupInv, DiskInv
<1>9. KnownUnlessLoading'
  BY <1>6 DEF KnownUnlessLoading, None
<1> QED
  BY <1>5, <1>7, <1>8, <1>9 DEF LookupInv

\* Every step of a thread, a load that raises and a crash keep the invariant.
LEMMA LookupGoesOn == LookupInv /\ ProvidersStep => LookupInv'
<1> SUFFICES ASSUME LookupInv, ProvidersStep PROVE LookupInv'
  OBVIOUS
<1>1. CASE Crash
  BY <1>1, CrashKeeps
<1>2. ASSUME NEW t \in Threads,
             FirstTest(t) \/ LockAndTest(t) \/ FindRoot(t) \/ Download(t) \/ Extract(t) \/ Read(t) \/ Lookup(t)
      PROVE  LookupInv'
  BY <1>2, FirstTestKeeps, LockAndTestKeeps, FindRootKeeps, DownloadKeeps, ExtractKeeps, ReadKeeps,
     LookupKeeps
<1> QED
  BY <1>1, <1>2 DEF ProvidersStep

\* The steps of other machines keep it too.
LEMMA LookupRests == LookupInv /\ UNCHANGED providerVars => LookupInv'
BY DEF providerVars, LookupInv, ProvidersTypeOK, LoadInv, DiskInv, KnownUnlessLoading, Current

\* Of the providers of the Slim runtime, whatever threads look them up and
\* however often the program crashes: one thread loads at a time, a configured
\* provider is unknown only after a load that raised, and none is read from a
\* directory that is partly there unless the program once crashed.
THEOREM ProvidersHold == RunsSpec => []ProvidersOK
<1>1. RunsInit => LookupInv
  BY LookupStarts DEF RunsInit
<1>2. LookupInv /\ [RunsNext]_runsVars => LookupInv'
  BY LookupGoesOn, LookupRests DEF RunsNext, runsVars
<1>3. LookupInv => ProvidersOK
  <2> SUFFICES ASSUME LookupInv PROVE ProvidersOK
    OBVIOUS
  <2>1. FromWholePackages
    BY DEF LookupInv, DiskInv, FromWholePackages
  <2> QED
    BY <2>1 DEF LookupInv, LoadInv, Loads, ProvidersOK
<1> QED
  BY <1>1, <1>2, <1>3, PTL DEF RunsSpec
=============================================================================
