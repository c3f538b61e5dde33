------------------------------ MODULE ModelCall ------------------------------
(***************************************************************************)
(* One call of LargeLanguageModel.invoke: the runtime is asked for an      *)
(* answer, and callbacks are told what becomes of it.  A runtime may give  *)
(* chunks where a whole result was asked for, which are then merged.       *)
(*                                                                         *)
(* A run of the "node" is the call, as in SlimCall; a caller that stops    *)
(* reading closes the generator at a chunk.                                *)
(***************************************************************************)
EXTENDS NodeRun

CONSTANT MaxChunks   \* bound: chunks of one answer

\* What a chunk carries: text, a list of parts, or a piece of a tool call, which
\* may lack an id, a name or both.
NoPiece == ""
Pieces == [type : {"piece"}, id : {NoPiece, "x", "y"}, name : {NoPiece, "f"}]
Contents == [type : {"text", "part"}]
IsPiece(c) == c.type = "piece"

\* Callbacks that fail are logged, or raise when raise_error is set.
ModelInit ==
  mem \in [streamed : BOOLEAN, raises : BOOLEAN, told : {<<>>}, given : {<<>>},
           content : {<<>>}, calls : {<<>>}]

CallAt(step) == kind = "model" /\ stage = step

Tell(m, what) == [m EXCEPT !.told = Append(@, what)]

\* The callbacks of an error come before the error is raised; whether they raise
\* one of their own makes no difference.
TellError(m) == mem' = Tell(m, "error") /\ Raise

-----------------------------------------------------------------------------
(* Tool calls, merged from their pieces.                                   *)

\* A slip: a piece without an id belongs to the first call.
FirstCallFor(calls, id) ==
  LET same == {i \in DOMAIN calls : calls[i].id = id}
  IN  IF id = NoPiece THEN IF calls = <<>> THEN 0 ELSE 1
      ELSE IF same # {} THEN CHOOSE i \in same : TRUE ELSE Len(calls) + 1

\* Which call a piece belongs to: the one with its id, a new one, or, without an
\* id, the one created last (0 if there is none).
CallFor(calls, id) ==
  LET same == {i \in DOMAIN calls : calls[i].id = id}
  IN  IF id = NoPiece THEN Len(calls)
      ELSE IF same # {} THEN CHOOSE i \in same : TRUE ELSE Len(calls) + 1

\* A name without an id gets a new id: the number of the chunk stands for it.
IdOf(piece, number) ==
  IF piece.name # NoPiece /\ piece.id = NoPiece THEN ToString(number) ELSE piece.id

Merge(calls, i, id, number) ==
  IF i <= Len(calls) THEN [calls EXCEPT ![i].arguments = Append(@, number)]
  ELSE Append(calls, [id |-> id, arguments |-> <<number>>])

-----------------------------------------------------------------------------
(* The call.                                                               *)

\* The runtime raises, gives a result, or an iterator of chunks.
ModelInvoke ==
  /\ CallAt("run")
  /\ LET m == [mem EXCEPT !.told = <<"before">>, !.given = <<>>, !.content = <<>>, !.calls = <<>>]
     IN  \/ mem' = m /\ (Silently("model-read") \/ Silently("model-after"))
         \/ mem' = m /\ m.raises /\ Raise
         \/ TellError(m)

Given(c) == [mem EXCEPT !.given = Append(@, c)]

\* Not streamed: chunks are merged.  A first piece of nothing is an error.
ModelMerge ==
  /\ CallAt("model-read") /\ ~mem.streamed /\ Len(mem.given) < MaxChunks
  /\ \/ \E c \in Contents :
          /\ mem' = [Given(c) EXCEPT !.content = Append(@, c)]
          /\ Silently("model-read")
     \/ \E c \in Pieces :
          LET number == Len(mem.given) + 1
              id == IdOf(c, number)
              i == CallFor(mem.calls, id)
          IN  IF i = 0 THEN TellError(mem)
              ELSE /\ mem' = [Given(c) EXCEPT !.calls = Merge(mem.calls, i, id, number)]
                   /\ Silently("model-read")

\* The iterator raises while it is merged: still within the call.
ModelMergeFails == CallAt("model-read") /\ ~mem.streamed /\ TellError(mem)

\* The text, or the parts if there is no text.
ModelMerged ==
  /\ CallAt("model-read") /\ ~mem.streamed
  /\ LET text == SelectSeq(mem.content, LAMBDA c : c.type = "text")
     IN  mem' = IF text = <<>> THEN mem ELSE [mem EXCEPT !.content = text]
  /\ Silently("model-after")

\* Streamed: a chunk is handed on.
ModelChunk ==
  /\ CallAt("model-read") /\ mem.streamed /\ Len(mem.given) < MaxChunks
  /\ \E c \in Contents \cup {[type |-> "piece", id |-> "x", name |-> "f"]} :
       mem' = Given(c) /\ Stream("model", <<c>>, "model-chunk")

\* The caller asks for the next chunk: callbacks hear of the last one, then its
\* content, not its pieces of tool calls, is kept.  One that raises ends the
\* call without an error callback.
ModelNext ==
  /\ CallAt("model-chunk")
  /\ LET c == Last(mem.given)
     IN  \/ /\ mem' = Tell(IF IsPiece(c) THEN mem ELSE [mem EXCEPT !.content = Append(@, c)], "chunk")
            /\ Silently("model-read")
         \/ mem.raises /\ mem' = Tell(mem, "chunk") /\ Raise

\* The caller closes the generator: nobody is told.
ModelClosed == CallAt("model-chunk") /\ UNCHANGED mem /\ Silently("closed")

\* The stream raises: the callbacks of an error are not told.
ModelStreamFails == CallAt("model-read") /\ mem.streamed /\ UNCHANGED mem /\ Raise

ModelStreamEnds == CallAt("model-read") /\ mem.streamed /\ UNCHANGED mem /\ Silently("model-after")

\* The callbacks are told the result; one that raises takes it from the caller.
ModelAfter ==
  /\ CallAt("model-after")
  /\ mem' = Tell(mem, "after")
  /\ Complete("succeeded") \/ (mem.raises /\ Raise)

ModelStep ==
  \/ ModelInvoke \/ ModelMerge \/ ModelMergeFails \/ ModelMerged
  \/ ModelChunk \/ ModelNext \/ ModelClosed \/ ModelStreamFails
  \/ ModelStreamEnds \/ ModelAfter

-----------------------------------------------------------------------------
\* Callbacks can account for every call: they hear of it first, of each chunk
\* before the next one is read, and of a result or an error at most once, as the
\* last thing; a call that succeeds has told them its whole result.
ModelIsTold ==
  LET told == mem.told
      chunks == SelectSeq(told, LAMBDA t : t = "chunk")
  IN  /\ told # <<>> => told[1] = "before"
      /\ \A i \in DOMAIN told : told[i] \in {"after", "error"} => i = Len(told)
      /\ mem.streamed /\ stage = "model-read" => Len(chunks) = Len(mem.given)
      /\ Succeeded => Last(told) = "after"
      /\ Succeeded /\ mem.streamed => mem.content = SelectSeq(mem.given, LAMBDA c : ~IsPiece(c))

\* A tool call that came in pieces is put together again: a piece with an id is
\* with the first one of that id, one that opens a call is on its own, and any
\* other one with the call opened last before it; all in order.
ToolCallsAreWhole ==
  LET opens(i) ==
        /\ IsPiece(mem.given[i])
        /\ \/ mem.given[i].id # NoPiece
              /\ \A j \in 1..(i - 1) : IsPiece(mem.given[j]) => mem.given[j].id # mem.given[i].id
           \/ mem.given[i].id = NoPiece /\ mem.given[i].name # NoPiece
      first(i) ==
        IF mem.given[i].id # NoPiece
        THEN CHOOSE j \in 1..i : opens(j) /\ mem.given[j].id = mem.given[i].id
        ELSE CHOOSE j \in 1..i : opens(j) /\ \A k \in (j + 1)..i : ~opens(k)
      pieces == SelectSeq([i \in DOMAIN mem.given |-> i], LAMBDA i : IsPiece(mem.given[i]))
      openings == SelectSeq(pieces, opens)
  IN  Succeeded /\ ~mem.streamed =>
        [c \in DOMAIN mem.calls |-> mem.calls[c].arguments] =
        [c \in DOMAIN openings |-> SelectSeq(pieces, LAMBDA i : first(i) = openings[c])]

\* What a call of a model tells and returns agrees with what the runtime gave.
ModelAnswerIsWhole == kind = "model" => ModelIsTold /\ ToolCallsAreWhole
=============================================================================
