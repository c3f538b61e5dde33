------------------------------- MODULE LlmPrompt -------------------------------
(***************************************************************************)
(* The messages a model is sent.  The program builds them in two places,   *)
(* LLMNode and llm_utils (for the classifier): from a chat template or a   *)
(* completion template, the history, the query and files.  A text is a     *)
(* sequence of words; env holds what surrounds the template:               *)
(*   context, query, files, contextFiles, vision, renderer, memory         *)
(*   (<<>> or <<history>>), config (<<>> or the memory configuration),     *)
(*   model (features, its context size, the rules and the values of its    *)
(*   parameters).                                                          *)
(***************************************************************************)
EXTENDS Integers, Sequences, FiniteSets, SequencesExt, FiniteSetsExt, Functions

CONSTANT DefaultTokens   \* what history may take of a model of unknown size

Text(words) == [type |-> "text", data |-> words]
Media == {"image", "document"}

\* Files of other types are named in a text.
ToPart(file) == [type |-> IF file.type \in Media THEN file.type ELSE "text", data |-> <<file.name>>]
ToParts(files) == [i \in DOMAIN files |-> ToPart(files[i])]

\* The content is a list of parts, or a text by itself; calls: it names tool calls.
Message(role, parts) == [role |-> role, list |-> TRUE, parts |-> parts, calls |-> FALSE]
IsEmpty(m) == ~m.calls /\ IF m.list THEN m.parts = <<>> ELSE m.parts[1].data = <<>>

Piece(kind, words, files) == [kind |-> kind, words |-> words, files |-> files]
WordsOf(pieces, context) ==
  FlattenSeq([i \in DOMAIN pieces |-> IF pieces[i].kind = "context" THEN context ELSE pieces[i].words])
FilesIn(pieces) == FlattenSeq([i \in DOMAIN pieces |-> SelectSeq(pieces[i].files, LAMBDA f : f.type \in Media)])

-----------------------------------------------------------------------------
(* Templates.                                                              *)

\* The text of a message, then the files its variables hold.
BasicMessages(m, context) ==
  LET text == WordsOf(m.pieces, context)
      files == FilesIn(m.pieces)
  IN  (IF text = <<>> THEN <<>> ELSE <<Message(m.role, <<Text(text)>>)>>)
      \o (IF files = <<>> THEN <<>> ELSE <<Message(m.role, ToParts(files))>>)

\* A Jinja template is rendered without the context, an empty one to nothing.
JinjaMessage(m) == Message(m.role, <<Text(WordsOf(m.pieces, <<>>))>>)

MessagesFor(m, env) == IF m.jinja THEN <<JinjaMessage(m)>> ELSE BasicMessages(m, env.context)

\* No template is rendered without a renderer, no message has the role of a tool.
CannotRender(m, env) == m.jinja /\ m.pieces # <<>> /\ ~env.renderer
IsRefused(m, env) == CannotRender(m, env) \/ (m.role = "tool" /\ MessagesFor(m, env) # <<>>)

ListMessages(template, env) == FlattenSeq([i \in DOMAIN template |-> MessagesFor(template[i], env)])

QueryMessages(env) ==
  IF env.query = <<>> THEN <<>>
  ELSE ListMessages(<<[role |-> "user", jinja |-> FALSE, pieces |-> <<Piece("words", env.query, <<>>)>>]>>, env)

-----------------------------------------------------------------------------
(* History.                                                                *)

\* The last rule that stands for max_tokens has a say.
MaxTokens(model) ==
  LET rules == SelectSeq(model.rules, LAMBDA r : r.name = "max_tokens" \/ r.template = "max_tokens")
      value(name) == IF name \in DOMAIN model.parameters THEN model.parameters[name] ELSE 0
  IN  IF rules = <<>> THEN 0
      ELSE LET r == rules[Len(rules)] IN IF value(r.name) # 0 THEN value(r.name) ELSE value(r.template)

RestTokens(model, used) ==
  IF model.context = 0 THEN DefaultTokens ELSE Max({model.context - MaxTokens(model) - used, 0})

\* The memory's own choice: the last messages that fit, each of one token.
LastMessages(history, limit, windows) ==
  LET n == Min({limit, Len(history)} \cup windows) IN SubSeq(history, Len(history) - n + 1, Len(history))

\* The messages of the prompt itself are not counted.
History(env) ==
  IF env.memory = <<>> \/ env.config = <<>> THEN <<>>
  ELSE LastMessages(env.memory[1], RestTokens(env.model, 0),
                    IF env.config[1].enabled THEN {env.config[1].size} ELSE {})

PartText(part) ==
  CASE part.type = "text" -> part.data [] part.type = "image" -> <<"[image]">> [] OTHER -> <<>>
HistoryText(messages) ==
  FlattenSeq([i \in DOMAIN messages |->
    LET m == messages[i]
    IN  IF m.role \notin {"user", "assistant"} THEN <<>>
        ELSE <<m.role>> \o FlattenSeq([j \in DOMAIN m.parts |-> PartText(m.parts[j])])])

\* Without a place of its own the history stands before the text, even if it is empty.
MergeMemory(text, memory) ==
  IF "#histories#" \in Range(text)
  THEN FlattenSeq([i \in DOMAIN text |-> IF text[i] = "#histories#" THEN memory ELSE <<text[i]>>])
  ELSE memory \o <<"newline">> \o text

\* The content is a list, so the query stands first, whether or not the text
\* names a place for it.
MergeQuery(text, query) == IF query = <<>> THEN text ELSE query \o <<"newline">> \o text

-----------------------------------------------------------------------------
(* Files, and what the model cannot take.                                  *)

\* A slip: the files take the place of the last message.
ReplaceFiles(messages, files, vision) ==
  IF ~vision \/ files = <<>> THEN messages
  ELSE Front(messages) \o <<Message("user", ToParts(files))>>

AppendFiles(messages, files, vision) ==
  IF ~vision \/ files = <<>> THEN messages
  ELSE LET last == messages[Len(messages)]
       IN  IF messages # <<>> /\ last.role = "user" /\ last.list
           THEN [messages EXCEPT ![Len(messages)].parts = ToParts(files) \o @]
           ELSE Append(messages, Message("user", ToParts(files)))

Supports(model, type) == type = "text" \/ type \in model.features

\* What is left of a message; a single text stands by itself.
Supported(m, model) ==
  LET parts == SelectSeq(m.parts, LAMBDA part : Supports(model, part.type))
  IN  IF ~m.list THEN m
      ELSE [m EXCEPT !.parts = parts, !.list = ~(Len(parts) = 1 /\ parts[1].type = "text")]

AllSupported(messages, model) == [i \in DOMAIN messages |-> Supported(messages[i], model)]
Filter(messages, model) == SelectSeq(AllSupported(messages, model), LAMBDA m : ~IsEmpty(m))
\* llm_utils looks at the parts alone: an empty text stays, tool calls do not count.
UtilsFilter(messages, model) ==
  LET kept(m) == IF m.list THEN Supported(m, model).parts # <<>> ELSE ~IsEmpty(m)
  IN  AllSupported(SelectSeq(messages, kept), model)

-----------------------------------------------------------------------------
(* The prompt: an error or the messages.                                   *)

Raised(err) == [err |-> err, messages |-> <<>>]

ChatMessages(template, env) == ListMessages(template, env) \o History(env) \o QueryMessages(env)

CompletionText(template, env) ==
  MergeQuery(MergeMemory(WordsOf(template.pieces, IF template.jinja THEN <<>> ELSE env.context), HistoryText(History(env))),
             env.query)
LacksPrefix(env) == env.memory # <<>> /\ env.config # <<>> /\ ~env.config[1].prefixed

Assembled(messages, env) == AppendFiles(AppendFiles(messages, env.files, env.vision), env.contextFiles, env.vision)

Finished(messages) == IF messages = <<>> THEN Raised("NoPromptFoundError") ELSE [err |-> "none", messages |-> messages]

\* mode is "chat", with a sequence of messages, or "completion", with one text.
Prompt(mode, template, env) ==
  CASE \E i \in DOMAIN template : IsRefused(template[i], env) -> Raised("template")
    [] mode = "completion" /\ LacksPrefix(env) -> Raised("MemoryRolePrefixRequiredError")
    [] OTHER ->
         LET messages == IF mode = "chat" THEN ChatMessages(template, env)
                         ELSE <<Message("user", <<Text(CompletionText(template[1], env))>>)>>
         IN  [err |-> "none", messages |-> Assembled(messages, env)]

FetchPrompt(mode, template, env) ==
  LET prompt == Prompt(mode, template, env)
  IN  IF prompt.err # "none" THEN prompt ELSE Finished(Filter(prompt.messages, env.model))
UtilsFetchPrompt(mode, template, env) ==
  LET prompt == Prompt(mode, template, env)
  IN  IF prompt.err # "none" THEN prompt ELSE Finished(UtilsFilter(prompt.messages, env.model))

-----------------------------------------------------------------------------
(* Parameters of the model: a text with references is filled in, cut, and   *)
(* read as a number if it is one.                                          *)

Reads(words) == IF Len(words) = 1 /\ words[1] \in {"0.7", "true"} THEN "literal" ELSE "text"
ResolveParameters(parameters, values, longest) ==
  [name \in DOMAIN parameters |->
     LET p == parameters[name]
         word(w) == IF w \in DOMAIN values THEN values[w] ELSE w
         text == [i \in DOMAIN p.words |-> word(p.words[i])]
         short == SubSeq(text, 1, Min({longest, Len(text)}))
     IN  IF p.kind = "text" /\ Range(p.words) \cap DOMAIN values # {}
         THEN [kind |-> Reads(short), words |-> short] ELSE p]

-----------------------------------------------------------------------------
(* What is expected of a prompt.                                           *)

Named(parts, name) == Len(SelectSeq(parts, LAMBDA part : part.type \in Media /\ part.data = <<name>>))
Shown(messages, name) == SumFunction([i \in DOMAIN messages |-> Named(messages[i].parts, name)])

\* The files that should be seen: of the template, the history, the node, its context.
GivenParts(mode, template, env) ==
  (IF mode = "chat"
   THEN FlattenSeq([i \in DOMAIN template |-> IF template[i].jinja THEN <<>> ELSE ToParts(FilesIn(template[i].pieces))])
        \o FlattenSeq([i \in DOMAIN History(env) |-> History(env)[i].parts])
   ELSE <<>>)
  \o (IF env.vision THEN ToParts(env.files \o env.contextFiles) ELSE <<>>)

\* Every file the model can take is in the prompt as often as it was given, and no
\* other; the query is what the last message ends with (begins with, for a
\* completion, whose text follows).
NothingIsLost(mode, template, env, prompt) ==
  prompt.err = "none" =>
    LET last == prompt.messages[Len(prompt.messages)]
        text == last.parts[Len(last.parts)].data
    IN  /\ \A part \in Range(GivenParts(mode, template, env)) :
             part.type \in Media =>
               Shown(prompt.messages, part.data[1]) =
                 IF Supports(env.model, part.type) THEN Named(GivenParts(mode, template, env), part.data[1]) ELSE 0
        /\ env.query # <<>> =>
             last.role = "user" /\ IF mode = "chat" THEN text = env.query ELSE IsPrefix(env.query, text)

\* The two builders build one prompt; but llm_utils also sends empty texts, and not
\* a message of which only its tool calls are left.
BuildersAgree(llm, utils) ==
  SelectSeq(llm.messages, LAMBDA m : m.parts # <<>>) = SelectSeq(utils.messages, LAMBDA m : ~IsEmpty(m))

\* Once the parameters are filled in they stay, whatever the variables hold later.
FilledInOnce(parameters, values, later, longest) ==
  LET once == ResolveParameters(parameters, values, longest)
  IN  /\ ResolveParameters(once, later, longest) = once
      /\ \A name \in DOMAIN once : once[name] = parameters[name] \/ Len(once[name].words) <= longest
=============================================================================
