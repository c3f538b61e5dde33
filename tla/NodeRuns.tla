------------------------------ MODULE NodeRuns ------------------------------
(***************************************************************************)
(* Runs of nodes that talk to something outside, side by side: Init        *)
(* chooses what is looked at, a node or a call of one kind or the          *)
(* providers of the Slim runtime; the others rest.                         *)
(***************************************************************************)
EXTENDS LlmNode, SlimCall, ModelCall, ToolNode, SlimProviders

runsVars == <<nodeVars, providerVars>>

IsLookup == kind = "providers"

RunsInit ==
  /\ ProvidersInit
  /\ \/ BaseInit("any") /\ mem = "open"
     \/ BaseInit("llm") /\ LlmInit
     \/ BaseInit("tool") /\ ToolInit
     \/ BaseInit("slim") /\ SlimInit
     \/ BaseInit("model") /\ ModelInit
     \/ BaseInit("providers") /\ saved = NoId /\ mem = <<>>
  /\ IsLookup \/ \A t \in Threads : wanted[t] = Bindings[1]

RunsNext ==
  \/ ~IsLookup /\ (BaseStep \/ LlmStep \/ SlimStep \/ ModelStep \/ ToolStep) /\ UNCHANGED providerVars
  \/ IsLookup /\ ProvidersStep /\ UNCHANGED nodeVars

\* A worker goes on with the node it has; the process of a call prints what it has
\* to print, while there is room in its pipe, and exits.
RunsFairness ==
  /\ WF_runsVars(Begin /\ UNCHANGED providerVars)
  /\ WF_runsVars(SlimCallerStep /\ UNCHANGED providerVars)
  /\ WF_runsVars(SlimProcessStep /\ UNCHANGED providerVars)

RunsSpec == RunsInit /\ [][RunsNext]_runsVars /\ RunsFairness

-----------------------------------------------------------------------------
\* Type invariant: the worker's part of the state is well-formed.
RunsTypeOK ==
  /\ kind \in Kinds /\ attempt \in 1..MaxRuns
  /\ xid \in {NoId, "new", "kept"} /\ saved \in {NoId, "kept"}
  /\ \A e \in Range(out) : e.type \in Dispatched \cup ResultTypes \cup {"child", "started"}

\* A run of a node, of whatever kind and attempt, keeps what the engine and the
\* response coordinator rely on: one result and it is the last event (of a kind of
\* which nothing is known, unless its _run goes astray), one execution id, streams that are closed once and for all before the node
\* succeeds; and what a failed model call has cost is not lost.
NodeRunInv ==
  /\ RunsTypeOK /\ OneResult /\ OneExecutionId /\ LlmUsageKept
  /\ kind \in {"llm", "tool"} =>
       \A s \in Selectors : StreamIsClosed(s) \/ (s = "text" /\ NamesAnOutput)

\* What a node has shown piece by piece is what it ends with.
AnswersAreShown ==
  LlmTextIsShown /\ ToolTextIsShown /\ SlimAnswerIsWhole /\ ModelAnswerIsWhole

\* The instance that is checked.
TwoBindings == <<"p1", "p2">>
=============================================================================
