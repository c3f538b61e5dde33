----------------------------- MODULE InputForms -----------------------------
(***************************************************************************)
(* The nodes that ask somebody for input: HumanInputNode.  A node finds    *)
(* its form in a repository, creates it if there is none, and asks the     *)
(* engine for a pause; after a resumption it runs again and looks at what  *)
(* has become of the form.                                                 *)
(*                                                                         *)
(* Recipients, the sweep that marks forms timed out and the application    *)
(* that resumes runs act on their own, between the steps of a node too.    *)
(***************************************************************************)
EXTENDS Integers

CONSTANT Askers   \* the nodes that ask, in parallel branches of one run

VARIABLES
  form,      \* node -> the status of its form, or none
  past,      \* node -> its expiration_time has gone by
  seen,      \* node -> the status get_form returned, in the run of the node under way
  at,        \* node -> ready, looking, paused or ended
  handle,    \* node -> the edge_source_handle of its result
  forms,     \* history: node -> forms created
  run        \* running, paused or over

vars == <<form, past, seen, at, handle, forms, run>>

Statuses == {"waiting", "submitted", "timeout", "expired"}
Timeout == "__timeout"

Init ==
  /\ form = [n \in Askers |-> "none"]
  /\ past = [n \in Askers |-> FALSE]
  /\ seen = [n \in Askers |-> "none"]
  /\ at = [n \in Askers |-> "ready"]
  /\ handle = [n \in Askers |-> "none"]
  /\ forms = [n \in Askers |-> 0]
  /\ run = "running"

-----------------------------------------------------------------------------
(* The run of a node.                                                      *)

Becomes(n, state) == at' = [at EXCEPT ![n] = state]

\* A slip: the form is read once and kept.
GetFormCached(n) ==
  /\ at[n] = "ready" /\ run = "running"
  /\ seen' = [seen EXCEPT ![n] = IF @ = "none" THEN form[n] ELSE @]
  /\ Becomes(n, "looking")
  /\ UNCHANGED <<form, past, handle, forms, run>>

GetForm(n) ==
  /\ at[n] = "ready" /\ run = "running"
  /\ seen' = [seen EXCEPT ![n] = form[n]]
  /\ Becomes(n, "looking")
  /\ UNCHANGED <<form, past, handle, forms, run>>

Create(n) ==
  /\ at[n] = "looking" /\ seen[n] = "none"
  /\ form' = [form EXCEPT ![n] = "waiting"]
  /\ forms' = [forms EXCEPT ![n] = @ + 1]
  /\ Becomes(n, "paused")
  /\ UNCHANGED <<past, seen, handle, run>>

TimedOut(n) == seen[n] \in {"timeout", "expired"} \/ past[n]

End(n, h) ==
  /\ Becomes(n, "ended") /\ handle' = [handle EXCEPT ![n] = h]
  /\ UNCHANGED <<form, past, seen, forms, run>>

TakeTimeout(n) ==
  at[n] = "looking" /\ seen[n] # "none" /\ TimedOut(n) /\ End(n, Timeout)

AskAgain(n) ==
  /\ at[n] = "looking" /\ seen[n] = "waiting" /\ ~TimedOut(n)
  /\ Becomes(n, "paused")
  /\ UNCHANGED <<form, past, seen, handle, forms, run>>

TakeAnswer(n) ==
  at[n] = "looking" /\ seen[n] = "submitted" /\ ~TimedOut(n) /\ End(n, "action")

-----------------------------------------------------------------------------
(* The engine, and those outside.                                          *)

\* A pause was asked for, and no node is executing any more.
Pause ==
  /\ run = "running" /\ \A n \in Askers : at[n] \in {"paused", "ended"}
  /\ run' = IF \E n \in Askers : at[n] = "paused" THEN "paused" ELSE "over"
  /\ UNCHANGED <<form, past, seen, at, handle, forms>>

\* Every paused node runs again.  A run with an expired form "is stopped and will
\* not resume" (enums.py); one that was resumed just before goes on.
Resume ==
  /\ run = "paused" /\ \A n \in Askers : form[n] # "expired"
  /\ run' = "running"
  /\ at' = [n \in Askers |-> IF at[n] = "paused" THEN "ready" ELSE at[n]]
  /\ UNCHANGED <<form, past, seen, handle, forms>>

Mark(n, status) ==
  /\ form[n] = "waiting" /\ form' = [form EXCEPT ![n] = status]
  /\ UNCHANGED <<past, seen, at, handle, forms, run>>

\* A form is answered while it waits and its time has not come.
Submit(n) == ~past[n] /\ Mark(n, "submitted")
Sweep(n) == past[n] /\ Mark(n, "timeout")
Expire(n) == Mark(n, "expired")

TimeGoesBy(n) ==
  /\ form[n] # "none" /\ ~past[n]
  /\ past' = [past EXCEPT ![n] = TRUE]
  /\ UNCHANGED <<form, seen, at, handle, forms, run>>

NodeRuns(n) == GetForm(n) \/ Create(n) \/ TakeTimeout(n) \/ AskAgain(n) \/ TakeAnswer(n)
Outside(n) == Submit(n) \/ Sweep(n) \/ Expire(n) \/ TimeGoesBy(n)
Next == Pause \/ Resume \/ \E n \in Askers : NodeRuns(n) \/ Outside(n)
Spec == Init /\ [][Next]_vars

\* The engine runs its nodes, and the application resumes a run that may resume.
FairSpec == Spec /\ WF_vars(Pause) /\ WF_vars(Resume) /\ \A n \in Askers : WF_vars(NodeRuns(n))

-----------------------------------------------------------------------------
\* Type invariant: the state is well-formed.
TypeOK ==
  /\ form \in [Askers -> Statuses \cup {"none"}] /\ past \in [Askers -> BOOLEAN]
  /\ seen \in [Askers -> Statuses \cup {"none"}]
  /\ at \in [Askers -> {"ready", "looking", "paused", "ended"}]
  /\ handle \in [Askers -> {"none", "action", Timeout}]
  /\ forms \in [Askers -> Nat] /\ run \in {"running", "paused", "over"}
  /\ \A n \in Askers : handle[n] = "none" <=> at[n] # "ended"

\* However often a run is resumed, a node asks with one form.
OneForm == \A n \in Askers : forms[n] <= 1

\* A node ends along the edge its form calls for: by an answer only if there
\* is one, by the timeout only if the form's time is up.
EndsAsItsForm ==
  \A n \in Askers :
    /\ handle[n] = "action" => form[n] = "submitted"
    /\ handle[n] = Timeout => past[n] \/ form[n] \in {"timeout", "expired"}

\* What a node has seen of its form is still so, but for a form that waits.
SeenInv ==
  \A n \in Askers :
    /\ form[n] = "none" <=> forms[n] = 0
    /\ seen[n] \in {"submitted", "timeout", "expired"} => form[n] = seen[n]
    /\ seen[n] = "waiting" => form[n] # "none"
    /\ at[n] = "looking" /\ seen[n] = "none" => form[n] = "none"

\* The state is well-formed, nobody is asked twice, and ends agree with forms.
Inv == TypeOK /\ OneForm /\ EndsAsItsForm /\ SeenInv

\* An answer that arrives between two looks of the node, or while it is about
\* to pause, is seen after the next resumption; a form that times out too: unless
\* a form expires, after which nobody resumes the run.
AnswerIsSeen ==
  \A n \in Askers :
    (form[n] \in {"submitted", "timeout"} \/ past[n]) ~>
      at[n] = "ended" \/ \E m \in Askers : form[m] = "expired"

\* "SUBMITTED: execution resumes along the selected action edge" (enums.py).
SubmittedTakesAction ==
  \A n \in Askers : form[n] = "submitted" /\ at[n] = "ended" => handle[n] = "action"
=============================================================================
