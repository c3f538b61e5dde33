------------------------------ MODULE SlimCall ------------------------------
(***************************************************************************)
(* One call of SlimRuntime: a process is started for the action, its       *)
(* request written to its standard input, and the events it prints are     *)
(* read one line at a time.  A call of a language model streams chunks or  *)
(* collects them to one result; every other action wants one payload.      *)
(*                                                                         *)
(* The process writes and exits on its own; what it has written waits in a *)
(* pipe, and while that is full it cannot write, so cannot end.  Here a    *)
(* run of the "node" is the call: its chunks are what the caller gets, an  *)
(* exception of the call its failure.                                      *)
(*                                                                         *)
(* However the call ends, once the process has been started it is waited   *)
(* for, and nothing reads its pipe then.  (An exception of what consumes   *)
(* the events keeps the generator that waits until it has been handled;    *)
(* the call counts as over after that.)                                    *)
(***************************************************************************)
EXTENDS NodeRun

CONSTANTS
  Actions,    \* the actions to consider, among those below
  PipeSize,   \* events the pipe holds
  MaxWrites   \* bound: events one process writes

-----------------------------------------------------------------------------
(* Actions that want one payload, and the field they read from it.         *)

TextActions ==
  [get_llm_num_tokens |-> "num_tokens", invoke_text_embedding |-> "embeddings",
   invoke_multimodal_embedding |-> "embeddings", get_text_embedding_num_tokens |-> "num_tokens"]
RankActions == [invoke_rerank |-> "docs", invoke_multimodal_rerank |-> "docs"]
SpeechActions ==
  [invoke_tts |-> "result", get_tts_model_voices |-> "voices", invoke_speech2text |-> "result",
   invoke_moderation |-> "result"]
Validations ==
  [validate_provider_credentials |-> "result", validate_model_credentials |-> "result"]
SchemaAction == "get_ai_model_schemas"

LlmActions == {"invoke_llm streamed", "invoke_llm collected"}
Required == UNION {DOMAIN TextActions, DOMAIN RankActions, DOMAIN SpeechActions, DOMAIN Validations}
ASSUME SlimActions == Actions \subseteq LlmActions \cup Required \cup {SchemaAction}

\* Lines the process prints; "odd" is none it should print, "misfit" a chunk of
\* another shape than the action wants.
Lines == {"message", "text", "part", "structured", "misfit", "odd", "done", "error"}
Chunks == {"text", "part", "structured", "misfit"}
NotStarted == 8
NotExited == 9

SlimInit ==
  mem \in [action : Actions, expect : BOOLEAN, pipe : {<<>>}, exit : {NotStarted},
           wrote : {<<>>}, left : {0}, held : {<<>>}, answer : {<<>>}]

IsLlm == mem.action \in LlmActions
Streams == mem.action = "invoke_llm streamed"

Calls(step) == kind = "slim" /\ stage = step
IsOpen == kind = "slim" /\ stage \in {"slim-read", "slim-close", "slim-done", "slim-wait"}

\* A model the provider's package declares needs no process.
SlimPredefined ==
  /\ Calls("run") /\ mem.action = SchemaAction
  /\ mem' = [mem EXCEPT !.exit = NotStarted, !.wrote = <<>>, !.answer = <<"predefined">>]
  /\ Complete("succeeded")

\* The provider is looked up and the payload built; the process is started and
\* its input closed.  How much it will print is its own affair.
SlimStart ==
  /\ Calls("run")
  /\ \E n \in 0..MaxWrites :
       mem' = [mem EXCEPT !.pipe = <<>>, !.exit = NotExited, !.wrote = <<>>, !.left = n,
                          !.held = <<>>, !.answer = <<>>]
  /\ Silently("slim-read") \/ Raise

Wrote(e) == e \in Range(mem.wrote)

Runs == IsOpen /\ mem.exit = NotExited

\* The process, which has nothing to say after "done" or "error".
SlimWrites ==
  /\ Runs /\ mem.left > 0 /\ Len(mem.pipe) < PipeSize
  /\ \E e \in Lines :
       mem' = [mem EXCEPT !.pipe = Append(@, e), !.wrote = Append(@, e),
                          !.left = IF e \in {"done", "error"} THEN 0 ELSE @ - 1]
  /\ UNCHANGED <<kind, stage, out, xid, saved, attempt>>

\* It exits when it has printed everything, or dies before.
SlimExits ==
  /\ Runs /\ mem.left = 0
  /\ \E code \in {0, 1} : mem' = [mem EXCEPT !.exit = code]
  /\ UNCHANGED <<kind, stage, out, xid, saved, attempt>>

SlimDies ==
  /\ Runs /\ mem.left > 0
  /\ mem' = [mem EXCEPT !.exit = 1]
  /\ UNCHANGED <<kind, stage, out, xid, saved, attempt>>

SlimProcessStep == SlimWrites \/ SlimExits

-----------------------------------------------------------------------------
(* Reading.                                                                *)

\* A chunk of a language model is parsed and handed on (what collects, keeps
\* it); a misfit raises.  Chunks of the other actions are kept as they are.
ReadChunk(m, e) ==
  IF IsLlm /\ e = "misfit"
  THEN mem' = m /\ Silently("slim-close")
  ELSE /\ mem' = [m EXCEPT !.held = Append(@, e)]
       /\ IF Streams THEN Stream("answer", <<e>>, "slim-read") ELSE Silently("slim-read")

\* One line; "done" and "error" are the last that is read.
SlimRead ==
  /\ Calls("slim-read") /\ mem.pipe # <<>>
  /\ LET e == Head(mem.pipe)
         m == [mem EXCEPT !.pipe = Tail(@)]
     IN  CASE e \in Chunks -> ReadChunk(m, e)
           [] e = "message" -> mem' = m /\ Silently("slim-read")
           [] e = "done" -> mem' = m /\ Silently("slim-done")
           [] e \in {"odd", "error"} -> mem' = m /\ Silently("slim-close")

\* A slip: the end of the output is taken for the end of the answer.
SlimEofTrusted ==
  /\ Calls("slim-read") /\ mem.pipe = <<>> /\ mem.exit # NotExited
  /\ UNCHANGED mem /\ Silently("slim-done")

\* A slip: a process that failed is not noticed.
SlimEofUnnoticed ==
  /\ Calls("slim-read") /\ mem.pipe = <<>> /\ mem.exit = 0
  /\ UNCHANGED mem /\ Silently("slim-done")

\* The output ends without a last line: only the exit code tells whether the
\* process was done.
SlimEof ==
  /\ Calls("slim-read") /\ mem.pipe = <<>> /\ mem.exit # NotExited
  /\ UNCHANGED mem
  /\ IF mem.exit = 0 THEN Silently("slim-done") ELSE Raise

\* Who reads the stream gives it up: the generator is closed.
SlimAbandoned ==
  /\ Calls("slim-read") /\ Streams /\ mem.held # <<>>
  /\ UNCHANGED mem /\ Silently("slim-close")

\* The process is waited for, then the exception goes on.
SlimClose == Calls("slim-close") /\ mem.exit # NotExited /\ UNCHANGED mem /\ Raise

\* _collect_llm_result: the text of all chunks, or their parts if there is none.
Collected(held) ==
  LET text == SelectSeq(held, LAMBDA e : e = "text")
  IN  IF text # <<>> THEN text ELSE SelectSeq(held, LAMBDA e : e = "part")

\* The accumulator of the structured output: one that was asked for must have come.
StructuredMissing == IsLlm /\ mem.expect /\ "structured" \notin Range(mem.held)

\* The last chunk is the payload, of which only a schema may be absent.
PayloadMissing ==
  ~IsLlm /\ IF mem.held = <<>> THEN mem.action # SchemaAction ELSE Last(mem.held) = "misfit"

Answer ==
  CASE Streams -> mem.held
    [] IsLlm /\ ~Streams -> Collected(mem.held)
    [] OTHER -> IF mem.held = <<>> THEN <<>> ELSE <<Last(mem.held)>>

\* After the last line.
SlimDone ==
  /\ Calls("slim-done")
  /\ IF StructuredMissing
     THEN UNCHANGED mem /\ Silently("slim-close")
     ELSE mem' = [mem EXCEPT !.answer = Answer] /\ Silently("slim-wait")

\* The generator that reads is closed, which waits for the process; its exit code
\* is not looked at.  A validation may be refused, a field of the payload missing.
SlimReturns ==
  /\ Calls("slim-wait") /\ mem.exit # NotExited
  /\ UNCHANGED mem
  /\ \/ ~PayloadMissing /\ Complete("succeeded")
     \/ (PayloadMissing \/ mem.action \in Required) /\ Raise

SlimCallerStep ==
  \/ SlimPredefined \/ SlimStart \/ SlimRead \/ SlimEof
  \/ SlimClose \/ SlimDone \/ SlimReturns

SlimStep == SlimCallerStep \/ SlimAbandoned \/ SlimProcessStep \/ SlimDies

-----------------------------------------------------------------------------
\* An answer has all the process wrote before it was done, in order, and comes
\* only from a process that has ended and neither reported an error nor died
\* half-way.  (Text and parts mixed in one answer that is collected: the parts
\* are dropped.)
SlimAnswerIsWhole ==
  kind = "slim" /\ Succeeded /\ mem.answer # <<"predefined">> =>
    LET chunks == SelectSeq(mem.wrote, LAMBDA e : e \in Chunks)
        content == SelectSeq(chunks, LAMBDA e : e # "structured")
    IN  /\ mem.exit \in {0, 1} /\ (Wrote("done") \/ mem.exit = 0)
        /\ ~Wrote("error") /\ ~Wrote("odd")
        /\ Streams => mem.answer = chunks /\ ShownOn("answer") = chunks
        /\ IsLlm /\ ~Streams => mem.answer = content \/ {"text", "part"} \subseteq Range(content)
        /\ ~IsLlm => mem.answer = (IF chunks = <<>> THEN <<>> ELSE <<Last(chunks)>>)

\* The process has more to print than the pipe holds, and is waited for.
SlimBlocked ==
  Runs /\ stage \in {"slim-close", "slim-wait"} /\ mem.left > 0 /\ Len(mem.pipe) = PipeSize

\* A call ends, unless the process is waited for while its output is unread and
\* fills the pipe: nobody waits for a line that never comes, or for a process that
\* can end.  (Nothing drains the pipe of a process that is waited for, so such a
\* call hangs until somebody kills it.)
SlimCallEnds == kind = "slim" => []<>(stage = "over" \/ SlimBlocked)
=============================================================================
