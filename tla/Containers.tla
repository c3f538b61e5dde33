----------------------------- MODULE Containers -----------------------------
(***************************************************************************)
(* The nodes whose run is long: iteration, loop, and two nodes that ask    *)
(* for input.  They share no state, so that one run holds the three        *)
(* machines side by side: the initial state picks the one that moves, the  *)
(* other two rest.                                                         *)
(***************************************************************************)
EXTENDS Iteration

CONSTANTS Inner, LoopCount, MaxAttempts, Askers   \* see Loop and InputForms

VARIABLES
  machine,
  lpc, lattempt, llimit, lround, lstamp, lvar, lreached, lbroke, loutputs, lusage, lused,
  form, past, seen, asker, handle, forms, run

loopVars ==
  <<lpc, lattempt, llimit, lround, lstamp, lvar, lreached, lbroke, loutputs, lusage, lused>>
formVars == <<form, past, seen, asker, handle, forms, run>>

L == INSTANCE Loop WITH
  pc <- lpc, attempt <- lattempt, limit <- llimit, round <- lround, stamp <- lstamp,
  loopVar <- lvar, reached <- lreached, broke <- lbroke, outputs <- loutputs,
  usage <- lusage, used <- lused
F == INSTANCE InputForms WITH at <- asker
ASSUME ContainersAssumption == L!Bounds

Init3 ==
  /\ Init /\ L!Init /\ F!Init
  /\ \/ machine = "iteration"
     \/ machine \in {"loop", "forms"} /\ items = 1 /\ mode = "terminated" /\ ~parallel /\ ~flatten

Iterates(step) == machine = "iteration" /\ step /\ UNCHANGED <<machine, loopVars, formVars>>
Loops == machine = "loop" /\ L!Next /\ UNCHANGED <<machine, vars, formVars>>
Asks(step) == machine = "forms" /\ step /\ UNCHANGED <<machine, vars, loopVars>>

Next3 == Iterates(Next) \/ Loops \/ Asks(F!Next)
vars3 == <<machine, vars, loopVars, formVars>>

\* The fairness of FairSpec in Iteration and in InputForms.
Spec3 ==
  /\ Init3 /\ [][Next3]_vars3
  /\ WF_vars3(Iterates(NodeStep)) /\ WF_vars3(Iterates(PoolStep))
  /\ WF_vars3(Asks(F!Pause)) /\ WF_vars3(Asks(F!Resume))
  /\ \A n \in Askers : WF_vars3(Asks(F!NodeRuns(n)))

-----------------------------------------------------------------------------
\* The invariants of the three: outputs in the order of the list and no child
\* left running; no round with variables of another and none after the break;
\* one form per node and ends that agree with it.
ContainersInv == Inv /\ L!Inv /\ F!Inv

\* The usage of every child that ran, of an iteration or of a loop, is added to
\* the node's once, whatever the child and the node end with.
UsageOfEveryChild == UsageAddedOnce /\ L!UsageOfEveryRound

\* The iteration node ends.
IterationEnds == machine = "iteration" ~> Ended

\* An answer or a timeout, whenever it comes, is seen by the node that asked, unless
\* the run is stopped because a form has expired.
AnswerIsSeen == machine = "forms" => F!AnswerIsSeen

\* A form that was submitted makes its node take the edge of the action: see
\* module InputForms.
SubmittedTakesAction == F!SubmittedTakesAction
=============================================================================
