------------------------------ MODULE ToolNode ------------------------------
(***************************************************************************)
(* The run of ToolNode: parameters are filled in, the tool invoked, and    *)
(* each message it sends turned into outputs and pieces of streams.  The   *)
(* text and every variable a tool streams are streams of their own.        *)
(***************************************************************************)
EXTENDS NodeRun

CONSTANT MaxMessages   \* bound: messages of a tool

\* Variables a tool may set: one of its own, and one called as an output is.
ToolVariables == {"v", "text"}
NotText == <<"not a text">>

ToolInit ==
  mem \in [text : {<<>>}, variables : {<<>>}, files : {0}, finals : {<<>>}, sent : {0},
           usage : {0}, result : {<<>>}]

ToolAt(step) == kind = "tool" /\ stage = step
Sends == ToolAt("tool-message") /\ mem.sent < MaxMessages
Sent(m) == [m EXCEPT !.sent = @ + 1]

\* A ToolNodeError is a failed result; another exception leaves _run.  Either
\* way the run has failed, and the runtime is not asked for the usage.
ToolFails == mem' = [mem EXCEPT !.result = [usage |-> 0]] /\ (Complete("failed") \/ Raise)

\* A slip: no return after the result of an invocation that failed.
ToolInvokeGoesOn ==
  /\ ToolAt("run")
  /\ mem' = [mem EXCEPT !.text = <<>>, !.variables = <<>>, !.files = 0, !.finals = <<>>,
                        !.sent = 0, !.usage = 0, !.result = <<>>]
  /\ Silently("tool-message") \/ ResultThen("failed", "tool-message")

\* The runtime of the tool, its parameters, the invocation: each may fail.
ToolInvoke ==
  /\ ToolAt("run")
  /\ \/ /\ mem' = [mem EXCEPT !.text = <<>>, !.variables = <<>>, !.files = 0, !.finals = <<>>,
                              !.sent = 0, !.usage = 0, !.result = <<>>]
        /\ Silently("tool-message")
     \/ ToolFails

\* A text or a link: a piece of the text.  A link may come with a file.
ToolText ==
  /\ Sends
  /\ \E t \in {"word", "link"}, f \in {0, 1} :
       /\ t = "word" => f = 0
       /\ mem' = [Sent(mem) EXCEPT !.text = Append(@, t), !.files = @ + f]
       /\ Stream("text", <<t>>, "tool-message")

\* Links to files, images and blobs: they are resolved or saved, nothing is shown.
ToolFile ==
  Sends /\ mem' = [Sent(mem) EXCEPT !.files = @ + 1] /\ Silently("tool-message")

\* A file as it is; an object or a log line, which leave texts and files alone.
ToolOther ==
  /\ Sends
  /\ \E f \in {0, 1} : mem' = [Sent(mem) EXCEPT !.files = @ + f]
  /\ Silently("tool-message")

SetVariable(m, name, value) ==
  [Sent(m) EXCEPT !.variables = [n \in DOMAIN @ \cup {name} |-> IF n = name THEN value ELSE @[n]]]

\* A variable that is set as a whole.
ToolVariable ==
  /\ Sends
  /\ \E name \in ToolVariables, value \in {<<"word">>, NotText} : mem' = SetVariable(mem, name, value)
  /\ Silently("tool-message")

\* A piece of a variable that is streamed; adding it to one that is no text raises.
ToolVariableStream ==
  /\ Sends
  /\ \E name \in ToolVariables :
       LET old == IF name \in DOMAIN mem.variables THEN mem.variables[name] ELSE <<>>
       IN  /\ old # NotText
           /\ mem' = SetVariable(mem, name, Append(old, "word"))
           /\ Stream(name, <<"word">>, "tool-message")

\* A message without its payload or file, a stream that raises.
ToolRaises == ToolAt("tool-message") /\ ToolFails

\* A slip: the streams of the variables are left open.
ToolStreamEndsText ==
  /\ ToolAt("tool-message")
  /\ mem' = [mem EXCEPT !.finals = <<>>]
  /\ Final("text", "tool-final")

\* The messages are over: the stream of the text is closed, then those of the
\* variables, streamed or not.
ToolStreamEnds ==
  /\ ToolAt("tool-message")
  /\ mem' = [mem EXCEPT !.finals = SetToSeq(DOMAIN mem.variables)]
  /\ Final("text", "tool-final")

ToolFinal ==
  /\ ToolAt("tool-final") /\ mem.finals # <<>>
  /\ mem' = [mem EXCEPT !.finals = Tail(@)]
  /\ Final(Head(mem.finals), "tool-final")

\* The usage, and the outputs: a variable hides the output it has the name of.
ToolSucceeds ==
  /\ ToolAt("tool-final") /\ mem.finals = <<>>
  /\ \/ \E u \in {0, 1} :
          mem' = [mem EXCEPT !.usage = u,
                             !.result = [usage |-> u, text |-> IF "text" \in DOMAIN mem.variables
                                                               THEN mem.variables["text"] ELSE mem.text]]
        /\ Complete("succeeded")
     \/ ToolFails

ToolStep ==
  \/ ToolInvoke \/ ToolText \/ ToolFile \/ ToolOther \/ ToolVariable \/ ToolVariableStream
  \/ ToolRaises \/ ToolStreamEnds \/ ToolFinal \/ ToolSucceeds

-----------------------------------------------------------------------------
\* A tool that names a variable as an output is called: that stream is closed
\* twice, which the coordinator refuses.
NamesAnOutput == kind = "tool" /\ "text" \in DOMAIN mem.variables

\* The text is the one that was shown.
ToolTextIsShown == kind = "tool" /\ Succeeded /\ ~NamesAnOutput => mem.result.text = ShownOn("text")
=============================================================================
