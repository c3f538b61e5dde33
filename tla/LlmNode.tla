------------------------------ MODULE LlmNode ------------------------------
(***************************************************************************)
(* The run of LLMNode: the prompt is prepared, the model invoked, and what *)
(* it streams handed on piece by piece.  A text is a sequence of tokens:   *)
(* words, images (which are saved first and shown as a link), and the tags *)
(* that open and close a block of reasoning.                               *)
(***************************************************************************)
EXTENDS NodeRun

CONSTANT MaxTokens   \* bound: tokens a model answers with

Tokens == {"word", "image", "open", "close"}

\* The locals of _run, and two attributes that outlive it: the files saved so
\* far, and the run in which the templates among the parameters were filled in.
LlmInit ==
  mem \in [text : {<<>>}, usage : {0}, holder : {0}, structured : {FALSE}, streamed : {FALSE},
           files : {0}, paramsOf : {0}, format : {"tagged", "separated"}, result : {<<>>}]

\* _split_reasoning: blocks from an opening tag to the first closing one are
\* taken out; a tag without its counterpart stays.
Split(text) ==
  LET step(acc, t) ==
        IF acc.open = <<>>
        THEN IF t = "open" THEN [acc EXCEPT !.open = <<t>>] ELSE [acc EXCEPT !.clean = Append(@, t)]
        ELSE IF t = "close" THEN [acc EXCEPT !.open = <<>>, !.reasoning = @ \o Tail(acc.open)]
        ELSE [acc EXCEPT !.open = Append(@, t)]
      end == FoldLeft(step, [clean |-> <<>>, reasoning |-> <<>>, open |-> <<>>], text)
  IN  [clean |-> end.clean \o end.open, reasoning |-> end.reasoning]

Extracted(text, format) ==
  IF format = "tagged" THEN [clean |-> text, reasoning |-> <<>>] ELSE Split(text)

At(step) == kind = "llm" /\ stage = step

\* A slip: a failure forgets what the model has cost.
LlmFailsForFree(m) == mem' = [m EXCEPT !.result = [usage |-> 0]] /\ Complete("failed")

\* The handlers of _run: the result keeps the usage known so far.
LlmFails(m) == mem' = [m EXCEPT !.result = [usage |-> m.holder]] /\ Complete("failed")

\* The variables the prompt and its Jinja templates name are fetched, which
\* fails if one is missing.
LlmInputs ==
  /\ At("run")
  /\ LET fresh == [mem EXCEPT !.text = <<>>, !.usage = 0, !.holder = 0, !.structured = FALSE,
                              !.streamed = FALSE, !.result = <<>>]
     IN  (mem' = fresh /\ Silently("llm-context")) \/ LlmFails(fresh)

\* The context: an event if there is one, a failure if an item has no content.
LlmContext ==
  /\ At("llm-context")
  /\ \/ UNCHANGED mem /\ (Yield("retriever", "llm-prompt") \/ Silently("llm-prompt"))
     \/ LlmFails(mem)

\* The templates among the parameters of the shared model instance are replaced
\* by their values, once; then the messages are built (module LlmPrompt).
LlmPrepare ==
  /\ At("llm-prompt")
  /\ LET m == [mem EXCEPT !.paramsOf = IF @ = 0 THEN attempt ELSE @]
     IN  (mem' = m /\ Silently("llm-invoke")) \/ LlmFails(m)

-----------------------------------------------------------------------------
(* The answer.                                                             *)

\* A token is taken over; an image is saved before.
Taken(m, t) == [m EXCEPT !.text = Append(@, t), !.files = IF t = "image" THEN @ + 1 ELSE @]

\* The usage is the first one with prompt tokens; it is there when the stream ends.
Metadata(m, u, s) == [m EXCEPT !.usage = IF @ = 0 THEN u ELSE @, !.structured = @ \/ s]

\* The model answers in one piece, with its usage: nothing is streamed.
LlmBlocking ==
  /\ At("llm-invoke")
  /\ \E t \in Tokens, u \in {1, 2}, s \in BOOLEAN :
       mem' = [Metadata(Taken(mem, t), u, s) EXCEPT !.holder = u]
  /\ Silently("llm-answered")

LlmStreams ==
  At("llm-invoke") /\ mem' = [mem EXCEPT !.streamed = TRUE] /\ Silently("llm-stream")

\* One result of the stream: a token at most, and what else comes with it.
LlmChunk ==
  /\ At("llm-stream") /\ Len(mem.text) < MaxTokens
  /\ \E u \in {0, 1, 2}, s \in BOOLEAN :
       \/ \E t \in Tokens :
            mem' = Metadata(Taken(mem, t), u, s) /\ Stream("text", <<t>>, "llm-stream")
       \/ mem' = Metadata(mem, u, s) /\ mem' # mem /\ Silently("llm-stream")

\* The invocation, the stream, saving an image or parsing the structured
\* output raises: the usage of an answer that was not completed is lost.
LlmRaises == (At("llm-invoke") \/ At("llm-stream")) /\ LlmFails(mem)

LlmStreamEnds ==
  At("llm-stream") /\ mem' = [mem EXCEPT !.holder = mem.usage] /\ Silently("llm-answered")

\* Process data and outputs are built, which may raise; then the stream of the
\* text is closed.
LlmBuild ==
  /\ At("llm-answered")
  /\ \/ UNCHANGED mem /\ Final("text", "llm-final")
     \/ LlmFails(mem)

\* A slip: the reasoning is left in the text that is handed on.
LlmSucceedsTagged ==
  /\ At("llm-final")
  /\ mem' = [mem EXCEPT !.result =
               [usage |-> mem.usage, text |-> mem.text,
                reasoning |-> Extracted(mem.text, mem.format).reasoning, files |-> mem.files]]
  /\ Complete("succeeded")

\* The result; the node takes the reasoning out of a text it was taken out of.
LlmSucceeds ==
  /\ At("llm-final")
  /\ LET e == Extracted(mem.text, mem.format)
     IN  mem' = [mem EXCEPT !.result =
                   [usage |-> mem.usage, text |-> Extracted(e.clean, mem.format).clean,
                    reasoning |-> e.reasoning, files |-> mem.files]]
  /\ Complete("succeeded")

LlmStep ==
  \/ LlmInputs \/ LlmContext \/ LlmPrepare \/ LlmBlocking \/ LlmStreams \/ LlmChunk
  \/ LlmRaises \/ LlmStreamEnds \/ LlmBuild \/ LlmSucceeds

-----------------------------------------------------------------------------
\* What was shown while the node ran.
Shown == ShownOn("text")

\* Reference definition of a block: an opening tag with a closing one after it
\* begins a block unless it lies in one, which ends at the first closing tag.
IsBlock(t, i, j) ==
  /\ i < j /\ t[i] = "open" /\ t[j] = "close"
  /\ \A k \in i..(j - 1) : t[k] # "close"
BlockStarts(t, i) ==
  /\ \E j \in DOMAIN t : IsBlock(t, i, j)
  /\ \A h \in 1..(i - 1) : \A j \in DOMAIN t : IsBlock(t, h, j) => j < i
Hidden(t) ==
  {k \in DOMAIN t : \E i, j \in DOMAIN t : IsBlock(t, i, j) /\ BlockStarts(t, i) /\ k \in i..j}

\* The text a downstream node reads is the one that was shown, but for the
\* blocks of reasoning, and those only if they are to be separated.
LlmTextIsShown ==
  kind = "llm" /\ Succeeded /\ mem.streamed =>
    LET kept == IF mem.format = "tagged" THEN DOMAIN Shown ELSE DOMAIN Shown \ Hidden(Shown)
    IN  mem.result.text = FoldLeft(LAMBDA acc, k : IF k \in kept THEN Append(acc, Shown[k]) ELSE acc,
                                   <<>>, [k \in DOMAIN Shown |-> k])

\* An answer that was completed is paid for, whatever comes after it.
LlmUsageKept ==
  kind = "llm" /\ Finished =>
    mem.result.usage = IF Count("final") = 1 \/ mem.holder # 0 THEN mem.usage ELSE 0
=============================================================================
