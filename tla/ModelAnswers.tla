---------------------------- MODULE ModelAnswers ----------------------------
(***************************************************************************)
(* The two nodes that ask a model for something they can use: the          *)
(* parameter extractor and the question classifier.  The prompt each       *)
(* builds, and what it makes of the answer.                                *)
(*                                                                         *)
(* The text of an answer is a sequence of tokens: for the extractor,       *)
(* opening and closing brackets, the same within a string of a JSON        *)
(* document ('{ and '}), words, and "pairs", which stands for the given    *)
(* members of an object; for the classifier, the tags of a block of        *)
(* thought in either case, fences, brackets, words, and "one", "two" for   *)
(* the members of two objects, given as [named, id].                       *)
(***************************************************************************)
EXTENDS Conditions

CONSTANTS DefaultTokens,   \* what a prompt leaves of a model of unknown size
          Reserve          \* tokens kept for the extractor's examples

P == INSTANCE LlmPrompt

Opens == {"{", "[", "'{"}
Closes == {"}", "]", "'}"}
Matches(open, close) == IF open = "[" THEN close = "]" ELSE close \in {"}", "'}"}

-----------------------------------------------------------------------------
(* Finding the object.                                                     *)

\* extract_json: the part up to the bracket that closes the first, or up to one
\* that does not match; brackets in strings count.
ExtractJson(text) ==
  LET step(acc, i) ==
        CASE acc.end # 0 -> acc
          [] acc.end = 0 /\ text[i] \in Opens -> [acc EXCEPT !.stack = Append(@, text[i])]
          [] acc.end = 0 /\ text[i] \in Closes ->
               IF acc.stack = <<>> \/ ~Matches(acc.stack[Len(acc.stack)], text[i]) THEN [acc EXCEPT !.end = i]
               ELSE [stack |-> Front(acc.stack), end |-> IF Len(acc.stack) = 1 THEN i + 1 ELSE 0]
          [] OTHER -> acc
  IN  SubSeq(text, 1, FoldLeft(step, [stack |-> <<>>, end |-> 0], [i \in DOMAIN text |-> i]).end - 1)

\* json.loads: an object, or nothing.
Parsed(text, pairs) ==
  CASE text = <<"{", "}">> -> <<Dict(<<>>)>>
    [] text \in {<<"{", "pairs", "}">>, <<"{", "pairs", "'}", "}">>, <<"{", "pairs", "'{", "}">>} -> <<Dict(pairs)>>
    [] text = <<"{", "{", "pairs", "}", "}">> -> <<Dict(<<<<"inner", Dict(pairs)>>>>)>>
    [] OTHER -> <<>>

From(text, i) == SubSeq(text, i, Len(text))
FirstObject(text, pairs) ==
  LET found == {i \in DOMAIN text : text[i] \in Opens /\ Parsed(ExtractJson(From(text, i)), pairs) # <<>>}
  IN  IF found = {} THEN <<>>
      ELSE Parsed(ExtractJson(From(text, CHOOSE i \in found : \A j \in found : i <= j)), pairs)

\* An answer with a tool call is not searched otherwise.
ObjectOfCall(arguments, pairs) == FirstObject(arguments, pairs)

-----------------------------------------------------------------------------
(* Checking and normalising it.  A parameter has a name, a type, whether   *)
(* it is required, and the options it may take.                            *)

Unset == <<"unset", "">>
ValueOf(pairs, name, default) ==
  LET given == SelectSeq(pairs, LAMBDA p : p[1] = name) IN IF given = <<>> THEN default ELSE given[1][2]

DefaultResult(parameters) ==
  LET given == SelectSeq(parameters, LAMBDA p : p.type \in {"number", "boolean", "string"})
  IN  [i \in DOMAIN given |->
         <<given[i].name, CASE given[i].type = "number" -> Whole(0) [] given[i].type = "boolean" -> Bool(FALSE)
                            [] given[i].type = "string" -> Text(<<>>)>>]

ErrorOf(p, pairs) ==
  LET v == ValueOf(pairs, p.name, NoneValue)
  IN  CASE p.required /\ ValueOf(pairs, p.name, Unset) = Unset -> "RequiredParameterMissingError"
        [] ~IsValid(p.type, v) -> "InvalidValueTypeError"
        [] p.type = "string" /\ p.options # {} /\ v \notin p.options -> "InvalidSelectValueError"
        [] OTHER -> "none"

\* A slip: as many as are expected will do.
ValidateCount(parameters, pairs) == IF Len(parameters) # Len(pairs) THEN "InvalidNumberOfParametersError" ELSE "none"

Validate(parameters, pairs) ==
  LET errors == SelectSeq([i \in DOMAIN parameters |-> ErrorOf(parameters[i], pairs)], LAMBDA e : e # "none")
  IN  CASE Len(parameters) # Len(pairs) -> "InvalidNumberOfParametersError"
        [] errors # <<>> -> errors[1]
        [] OTHER -> "none"

\* Text is read as a float if it has a point, as an integer otherwise.
TransformNumber(v) ==
  CASE IsNumber(v) -> ToInt(v)
    [] IsNumeral(v) -> IF HasPoint(v) THEN Fraction(Amount(v)) ELSE Whole(Amount(v) \div 2)
    [] OTHER -> Unset

\* A parameter that is a boolean may be given as an integer, an element may not.
TransformScalar(type, v, element) ==
  CASE type = "number" -> TransformNumber(v)
    [] type = "boolean" -> IF Class(v) = "bool" THEN v ELSE IF Class(v) = "int" /\ ~element THEN Bool(Content(v) # 0) ELSE Unset
    [] type = "string" -> IF Class(v) = "str" THEN v ELSE Unset
    [] type = "object" -> IF Class(v) = "dict" THEN v ELSE Unset

TransformValue(type, v) ==
  CASE v = Unset -> Unset
    [] v # Unset /\ type \notin ArrayTypes -> TransformScalar(type, v, FALSE)
    [] OTHER -> IF ~IsList(v) THEN Unset
                ELSE List(SelectSeq([i \in DOMAIN Items(v) |-> TransformScalar(ElementType[type], Items(v)[i], TRUE)],
                                    LAMBDA x : x # Unset))

DefaultValue(type) ==
  CASE type \in ArrayTypes -> List(<<>>) [] type = "string" -> Text(<<>>)
    [] type = "number" -> Whole(0) [] type = "boolean" -> Bool(FALSE)

TransformResult(parameters, pairs) ==
  [i \in DOMAIN parameters |->
     LET p == parameters[i]
         v == TransformValue(p.type, ValueOf(pairs, p.name, Unset))
     IN  <<p.name, IF v = Unset THEN DefaultValue(p.type) ELSE v>>]

-----------------------------------------------------------------------------
(* The run, from the model's answer: how it ended, its text, the arguments *)
(* of its first tool call if there is one, and what they say.              *)

Ended(status, success, outputs) == [status |-> status, success |-> success, outputs |-> outputs]

RunExtractor(parameters, answer) ==
  IF answer.kind # "answer" THEN Ended("failed", FALSE, <<>>)
  ELSE LET object == IF answer.calls # <<>> THEN ObjectOfCall(answer.calls[1], answer.pairs)
                     ELSE FirstObject(answer.text, answer.pairs)
           pairs == IF object = <<>> THEN <<>> ELSE Content(object[1])
           unfound == answer.calls = <<>> /\ pairs = <<>>
           result == IF unfound THEN DefaultResult(parameters) ELSE pairs
       IN  Ended("succeeded", ~unfound /\ Validate(parameters, result) = "none", TransformResult(parameters, result))

-----------------------------------------------------------------------------
(* The prompt.  A node has a mode, a way of reasoning, a query, an         *)
(* instruction, a history (<<>> or <<messages>>) with its window, files.   *)

HasTools(model) == model.features \cap {"tool-call", "multi-tool-call"} # {}

Plain(role, words) == [role |-> role, jinja |-> FALSE, pieces |-> <<P!Piece("words", words, <<>>)>>]
MemoryText(node, limit) ==
  IF node.memory = <<>> THEN <<>> ELSE P!HistoryText(P!LastMessages(node.memory[1], limit, {node.window}))
SystemText(node, limit) == <<"rules">> \o MemoryText(node, limit) \o node.instruction

ChatTemplate(node, query, limit) == [err |-> "none", messages |-> <<Plain("system", SystemText(node, limit)), Plain("user", query)>>]
FunctionTemplate(node, query, limit) ==
  IF node.mode = "chat" THEN ChatTemplate(node, query, limit) ELSE P!Raised("InvalidModelModeError")
JsonTemplate(node, query, limit) ==
  CASE node.mode = "chat" -> ChatTemplate(node, query, limit)
    [] node.mode = "completion" ->
         [err |-> "none", messages |-> <<Plain("user", SystemText(node, limit) \o query \o <<"structure">>)>>]
    [] OTHER -> P!Raised("InvalidModelModeError")

Env(model, files, vision) ==
  [context |-> <<>>, query |-> <<>>, files |-> files, contextFiles |-> <<>>, vision |-> vision, renderer |-> TRUE,
   memory |-> <<>>, config |-> <<>>, model |-> model]
Compiled(node, template, model, files, vision) ==
  IF template.err # "none" THEN template ELSE P!FetchPrompt(node.mode, template.messages, Env(model, files, vision))

\* The memory's own count: a token for a part of a message.
Tokens(messages) == SumFunction([i \in DOMAIN messages |-> Len(messages[i].parts)])

\* What the prompt leaves for history; the template is the one of tool calls as
\* soon as the model has them, whichever way of reasoning the node is set to.
Rest(node, query, model) ==
  LET template == IF HasTools(model) THEN FunctionTemplate([node EXCEPT !.memory = <<>>], query, 0)
                  ELSE JsonTemplate([node EXCEPT !.memory = <<>>], query, 0)
      prompt == Compiled(node, template, model, <<>>, FALSE)
  IN  IF prompt.err # "none" THEN [err |-> prompt.err, tokens |-> 0]
      ELSE [err |-> "none", tokens |-> P!RestTokens(model, Tokens(prompt.messages) + Reserve)]

Example(role, calls) == [P!Message(role, <<P!Text(<<"example">>)>>) EXCEPT !.calls = calls]
FunctionExamples == <<Example("user", FALSE), Example("assistant", TRUE), Example("tool", TRUE), Example("assistant", FALSE)>>
ChatExamples == <<Example("user", FALSE), Example("assistant", FALSE)>>

\* Before the last message of a user, or before the last message if there is none.
WithExamples(prompt, examples) ==
  LET users == {i \in DOMAIN prompt.messages : prompt.messages[i].role = "user"}
      at == IF users = {} THEN Len(prompt.messages) ELSE CHOOSE i \in users : \A j \in users : j <= i
  IN  IF prompt.err # "none" THEN prompt
      ELSE [prompt EXCEPT !.messages = SubSeq(@, 1, at - 1) \o examples \o SubSeq(@, at, Len(@))]

\* The query is put into its frame before the tokens are counted.
FunctionPrompt(node, model) ==
  LET query == node.query \o <<"structure">>
      rest == Rest(node, query, model)
  IN  IF rest.err # "none" THEN P!Raised(rest.err)
      ELSE WithExamples(Compiled(node, FunctionTemplate(node, query, rest.tokens), model, node.files, node.vision), FunctionExamples)

\* Here the tokens of the bare query are counted; only a chat frames it, with examples.
JsonPrompt(node, model) ==
  LET rest == Rest(node, node.query, model)
      query == IF node.mode = "chat" THEN <<"structure">> \o node.query ELSE node.query
      prompt == Compiled(node, JsonTemplate(node, query, rest.tokens), model, node.files, node.vision)
  IN  IF rest.err # "none" THEN P!Raised(rest.err)
      ELSE IF node.mode = "chat" THEN WithExamples(prompt, ChatExamples) ELSE prompt

\* A schema that names no language model is refused before.
ExtractorPrompt(node, model) ==
  CASE model.type = "missing" -> P!Raised("ModelSchemaNotFoundError")
    [] model.type = "other" -> P!Raised("InvalidModelTypeError")
    [] model.type = "llm" ->
         CASE HasTools(model) /\ node.reasoning = "function_call" -> FunctionPrompt(node, model)
           [] ~(HasTools(model) /\ node.reasoning = "function_call") /\ node.mode \in {"completion", "chat"} -> JsonPrompt(node, model)
           [] OTHER -> P!Raised("InvalidModelModeError")

-----------------------------------------------------------------------------
(* What is expected, said without the search and the checks.               *)

\* The object found is the first part of the text that is one, if no string in the
\* text holds a bracket.
FindsFirstObject(text, pairs) ==
  Range(text) \cap {"'{", "'}"} = {} =>
    LET ends(i) == {j \in i..Len(text) : Parsed(SubSeq(text, i, j), pairs) # <<>>}
        starts == {i \in DOMAIN text : ends(i) # {}}
    IN  IF starts = {} THEN FirstObject(text, pairs) = <<>>
        ELSE LET i == CHOOSE k \in starts : \A l \in starts : k <= l
             IN  \E j \in ends(i) : FirstObject(text, pairs) = Parsed(SubSeq(text, i, j), pairs)

\* Whatever the model answers, a node that succeeds gives every parameter a value
\* of its type; it says that it was successful just when the object found has the
\* parameters and no others, each with a valid value that is one of its options,
\* and then the values are the model's (booleans among numbers turned).
ParametersAreTyped(parameters, answer, result) ==
  LET object == IF answer.calls # <<>> THEN FirstObject(answer.calls[1], answer.pairs)
                ELSE FirstObject(answer.text, answer.pairs)
      pairs == IF object = <<>> THEN <<>> ELSE Content(object[1])
      names == {parameters[i].name : i \in DOMAIN parameters}
  IN  result.status = "succeeded" =>
        /\ \A i \in DOMAIN parameters :
             LET v == ValueOf(result.outputs, parameters[i].name, Unset)
             IN  v # Unset /\ IsValid(parameters[i].type, v) /\ (parameters[i].type = "number" => Class(v) # "bool")
        /\ result.success <=>
             /\ {pairs[i][1] : i \in DOMAIN pairs} = names
             /\ pairs # <<>> \/ answer.calls # <<>>
             /\ \A i \in DOMAIN parameters :
                  LET v == ValueOf(pairs, parameters[i].name, NoneValue)
                  IN  IsValid(parameters[i].type, v) /\ (parameters[i].options # {} => v \in parameters[i].options)
        /\ result.success =>
             \A i \in DOMAIN parameters :
               LET v == ValueOf(pairs, parameters[i].name, NoneValue)
                   turned == IF IsList(v) THEN List([j \in DOMAIN Items(v) |-> ToInt(Items(v)[j])]) ELSE ToInt(v)
               IN  ValueOf(result.outputs, parameters[i].name, Unset) \in {v, turned}

\* A prompt is built unless the model is none or the mode is not one that it can
\* have; completion is none of a model with tools.  It ends with the query and the
\* files, after the examples; an answer to a call follows the call; and history
\* does not take more than the prompt leaves.
PromptIsFramed(node, model, prompt) ==
  /\ (prompt.err = "none") <=> model.type = "llm" /\ (node.mode = "chat" \/ (node.mode = "completion" /\ ~HasTools(model)))
  /\ prompt.err = "none" =>
       LET last == prompt.messages[Len(prompt.messages)]
           text == last.parts[Len(last.parts)].data
           examples == {i \in DOMAIN prompt.messages : prompt.messages[i].parts[1].data = <<"example">>}
       IN  /\ last.role = "user" /\ Range(node.query) \subseteq Range(text) /\ "structure" \in Range(text)
           /\ node.vision => \A f \in Range(node.files) :
                P!Supports(model, P!ToPart(f).type) => P!ToPart(f) \in Range(last.parts)
           /\ node.mode = "chat" => examples # {} /\ examples = (Len(prompt.messages) - Cardinality(examples))..(Len(prompt.messages) - 1)
           /\ \A i \in examples : prompt.messages[i].role = "tool" => prompt.messages[i - 1].calls
           /\ HasTools(model) /\ node.reasoning = "function_call" <=> \E i \in examples : prompt.messages[i].calls

-----------------------------------------------------------------------------
(* The classifier: the text of the answer.                                 *)

\* A slip: the tags go, the thoughts stay.
StripTags(text) == SelectSeq(text, LAMBDA t : t \notin {"<think>", "</think>"})

\* Blocks are looked for in any case, once there is a tag in lower case; one that
\* never ends stays.
StripThinkTags(text) ==
  LET step(acc, t) ==
        IF acc.open = <<>> THEN IF t \in {"<think>", "<THINK>"} THEN [acc EXCEPT !.open = <<t>>] ELSE [acc EXCEPT !.kept = Append(@, t)]
        ELSE IF t = "</think>" THEN [acc EXCEPT !.open = <<>>] ELSE [acc EXCEPT !.open = Append(@, t)]
      end == FoldLeft(step, [kept |-> <<>>, open |-> <<>>], text)
  IN  IF "<think>" \notin Range(text) THEN text ELSE end.kept \o end.open

\* The markers a token holds (a tick is a short fence): a longer one holds the
\* shorter ones.
Holds(token, marker) ==
  \/ token = marker
  \/ marker = "fence" /\ token = "json fence"
  \/ marker = "tick" /\ token \in {"fence", "json fence"}
Places(text, marker) == {i \in DOMAIN text : Holds(text[i], marker)}
FirstMarker(text, markers) == SelectSeq(markers, LAMBDA marker : Places(text, marker) # {})

\* json.loads of what stands between the markers: an object, a list of objects,
\* a number; or nothing.
Loaded(text) ==
  CASE text \in {<<"{", "one", "}">>, <<"[", "{", "one", "}", "]">>} -> "one"
    [] text \in {<<"{", "two", "}">>, <<"[", "{", "two", "}", "]">>} -> "two"
    [] text = <<"5">> -> "number"
    [] OTHER -> "error"

\* From the first marker of the first kind there is to the last of the first kind
\* there is after it; lists of one object stand for it.
ParseMarkdown(text) ==
  LET starts == FirstMarker(text, <<"json fence", "fence", "tick", "{", "[">>)
      at == Min(Places(text, starts[1]))
      start == IF starts[1] \in {"{", "["} THEN at ELSE at + 1
      after == [i \in DOMAIN text |-> IF i < start THEN "" ELSE text[i]]
      ends == FirstMarker(after, <<"fence", "tick", "}", "]">>)
      end == Max(Places(after, ends[1]))
  IN  IF starts = <<>> \/ ends = <<>> THEN "error"
      ELSE Loaded(SubSeq(text, start, IF ends[1] \in {"}", "]"} THEN end ELSE end - 1))

-----------------------------------------------------------------------------
(* The class.                                                              *)

ClassLabel(classes, i) == IF classes[i].label = "" THEN <<"CLASS", i>> ELSE <<classes[i].label, 0>>
TheClass(classes, i) == [err |-> "none", id |-> classes[i].id, name |-> classes[i].name, label |-> ClassLabel(classes, i)]
NoClass(err) == [err |-> err, id |-> "", name |-> "", label |-> <<"", 0>>]

\* The first class, unless an object names another by its id; of classes of one id
\* the last counts.  A number cannot be asked for its keys, nor an id that is a list
\* be looked up.
ResolveCategory(classes, text, objects) ==
  LET parsed == ParseMarkdown(StripThinkTags(text))
  IN  CASE parsed = "error" -> NoClass("ValueError")
        [] parsed = "number" -> NoClass("TypeError")
        [] OTHER ->
             LET o == objects[parsed]
                 named == {i \in DOMAIN classes : classes[i].id = o.id}
             IN  CASE ~o.named \/ o.id = "absent" -> TheClass(classes, 1)
                   [] o.named /\ o.id = "a list" -> NoClass("TypeError")
                   [] OTHER -> IF named = {} THEN TheClass(classes, 1)
                               ELSE [TheClass(classes, Max(named)) EXCEPT !.id = o.id]

-----------------------------------------------------------------------------
(* The run.                                                                *)

\* The call ends with its completed event, without one, or with an error; only
\* errors of a value are caught, with the usage known then.
InvokeClassifier(call) ==
  CASE call.kind = "completed" -> [err |-> "none", text |-> call.text, usage |-> call.usage]
    [] call.kind = "ended" -> [err |-> "none", text |-> <<>>, usage |-> 0]
    [] OTHER -> [err |-> call.kind, text |-> <<>>, usage |-> 0]

Failure(err, usage) ==
  [status |-> IF err = "ValueError" THEN "failed" ELSE "raised", usage |-> IF err = "ValueError" THEN usage ELSE 0,
   class |-> NoClass(err), handle |-> ""]
RunClassifier(classes, call) ==
  LET answer == InvokeClassifier(call)
      class == ResolveCategory(classes, answer.text, call.objects)
  IN  CASE answer.err # "none" -> Failure(answer.err, 0)
        [] answer.err = "none" /\ class.err # "none" -> Failure(class.err, answer.usage)
        [] OTHER -> [status |-> "succeeded", usage |-> answer.usage, class |-> class, handle |-> class.id]

-----------------------------------------------------------------------------
(* The prompt.                                                             *)

\* History stands in the rules, with or without a memory configuration; the names
\* of the classes are those of the configuration.
ClassifierTemplate(node, limit) ==
  LET history == IF node.memory = <<>> THEN <<>>
                 ELSE P!HistoryText(P!LastMessages(node.memory[1], limit, node.windows))
      question == node.query \o <<"classes">> \o node.instruction
  IN  CASE node.mode = "chat" ->
             <<Plain("system", <<"rules">> \o history), Plain("user", <<"example">>), Plain("assistant", <<"example">>),
               Plain("user", <<"example">>), Plain("assistant", <<"example">>), Plain("user", question)>>
        [] node.mode = "completion" -> <<Plain("user", <<"rules">> \o history \o question)>>
        [] OTHER -> <<>>

ClassifierEnv(node, model, files) ==
  [context |-> <<>>, query |-> <<>>, files |-> files, contextFiles |-> <<>>, vision |-> files # <<>> /\ node.vision,
   renderer |-> TRUE, memory |-> node.memory, config |-> <<>>, model |-> model]

ClassifierRest(node, model) ==
  LET bare == [node EXCEPT !.memory = <<>>]
      prompt == P!UtilsFetchPrompt(node.mode, ClassifierTemplate(bare, 0), ClassifierEnv(bare, model, <<>>))
  IN  P!RestTokens(model, Tokens(prompt.messages))

\* A mode that is none is refused before anything is built.
ClassifierPrompt(node, model) ==
  IF node.mode \notin {"chat", "completion"} THEN P!Raised("InvalidModelTypeError")
  ELSE P!UtilsFetchPrompt(node.mode, ClassifierTemplate(node, ClassifierRest(node, model)), ClassifierEnv(node, model, node.files))

-----------------------------------------------------------------------------
\* A classifier that succeeds takes a branch of one of its classes, and shows that
\* class's name and label; an answer that is an object, by itself or fenced, after
\* whatever thoughts, naming a class decides which; an answer that can be read costs
\* what the model says; and nothing is lost but to a value of the wrong shape.
TakesItsClass(classes, call, result) ==
  LET named == {i \in DOMAIN classes : classes[i].id = call.objects["one"].id}
      thought == {<<>>, <<"<think>", "{", "two", "}", "</think>">>}
      answers == {<<"{", "one", "}">>, <<"json fence", "{", "one", "}", "fence">>, <<"word", "{", "one", "}", "word">>}
  IN  /\ result.status = "succeeded" =>
           \E i \in DOMAIN classes :
             /\ result.handle = classes[i].id /\ result.class.id = classes[i].id
             /\ result.class.name = classes[i].name /\ result.class.label = ClassLabel(classes, i)
      /\ call.kind = "completed" /\ call.objects["one"].named /\ named # {}
           /\ (\E t \in thought, a \in answers : call.text = t \o a)
           => result.status = "succeeded" /\ result.handle = call.objects["one"].id
      /\ call.kind = "completed" /\ result.status # "raised" => result.usage = call.usage
      /\ result.status = "raised" => \/ call.kind \notin {"completed", "ended"}
                                     \/ "5" \in Range(call.text) \/ "a list" \in {call.objects[o].id : o \in {"one", "two"}}

\* The prompt shows history once, in its rules; its last message holds the question
\* and every file the model can take.
QuestionComesLast(node, model, prompt) ==
  prompt.err = "none" =>
    LET last == prompt.messages[Len(prompt.messages)]
        text == last.parts[Len(last.parts)].data
        words == FlattenSeq([i \in DOMAIN prompt.messages |-> prompt.messages[i].parts[Len(prompt.messages[i].parts)].data])
        fits == P!LastMessages(node.memory[1], ClassifierRest(node, model), node.windows)
    IN  /\ last.role = "user" /\ Range(node.query) \subseteq Range(text) /\ "classes" \in Range(text)
        /\ node.vision => \A f \in Range(node.files) :
             P!Supports(model, P!ToPart(f).type) => P!ToPart(f) \in Range(last.parts)
        /\ node.memory # <<>> =>
             Len(SelectSeq(words, LAMBDA w : w = "said")) = Len(SelectSeq(P!HistoryText(fits), LAMBDA w : w = "said"))
=============================================================================
