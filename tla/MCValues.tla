------------------------------ MODULE MCValues ------------------------------
(***************************************************************************)
(* Instance of the modules about values for TLC.  Init chooses a job: the  *)
(* assigner nodes or the runtime state with their steps, or one of the     *)
(* computations, which takes one step from its input to its result.        *)
(***************************************************************************)
EXTENDS VariableAssigner, RuntimeState

VARIABLES job, input, result

L == INSTANCE Conditions
H == INSTANCE CodeAndHttp WITH
  CodeLimits <- [depth |-> 2, number |-> 8, precise |-> FALSE, string |-> 2, array |-> 2],
  SizeLimits <- [file |-> 2, text |-> 1],
  Unreadable <- {""}
D == INSTANCE Documents WITH ApiConfigured <- TRUE
M == INSTANCE LlmPrompt WITH DefaultTokens <- 2
E == INSTANCE ModelAnswers WITH DefaultTokens <- 2, Reserve <- 1

vars == <<assignerVars, runtimeVars, job, input, result>>
NoResult == <<>>

SeqsUpTo2(S) == {<<>>} \cup {<<x>> : x \in S} \cup {<<x, y>> : x \in S, y \in S}
Options(S) == {<<>>} \cup {<<x>> : x \in S}

-----------------------------------------------------------------------------
(* Assigners and the runtime state.                                        *)

TheAssigners == {"a", "b"}
Item(target, op, from, value) == [target |-> target, op |-> op, input |-> from, value |-> value]
Second(items) == [version |-> 2, items |-> items]
First(target, op, value) == [version |-> 1, items |-> <<Item(target, op, "variable", value)>>]
ThePrograms ==
  {Second(<<Item("n", "+=", "constant", Whole(1)), Item("l", "append", "variable", "n")>>),
   Second(<<Item("n", "/=", "constant", Whole(8)), Item("l", "append", "variable", "f"), Item("n", "clear", "variable", "n")>>),
   Second(<<Item("l", "remove-first", "variable", "l"), Item("n", "set", "constant", Str("x"))>>),
   Second(<<Item("n", "-=", "constant", Fraction(1))>>),
   Second(<<Item("l", "extend", "variable", "l"), Item("f", "over-write", "variable", "n")>>),
   First("n", "over-write", "l"), First("l", "append", "f"), First("l", "clear", "l")}
OneProgram == CHOOSE p \in ThePrograms : p.version = 1
TheNodes == {"a"}

-----------------------------------------------------------------------------
(* Values and types; the pool.                                             *)

Scalars == {NoneValue, Bool(TRUE), Whole(1), Fraction(3), Fraction(2), Str("a"), Dict(<<>>), File("f")}
Lists == {List(s) : s \in SeqsUpTo2(Scalars)}
         \cup {List(s) : s \in SeqsUpTo2({List(<<>>), List(<<Whole(1)>>), List(<<Str("a")>>), Whole(1)})}
TypeInputs == [value : Scalars \cup Lists, type : Types]

Inner == Dict(<<<<"k", Whole(2)>>, <<"n", NoneValue>>>>)
PoolValues == {Whole(1), Str("a"), File("f"), Inner, Dict(<<<<"o", Inner>>, <<"k", Str("b")>>>>), List(<<Inner>>)}
Rag(node, name, v) == [node |-> node, name |-> name, value |-> v]
Pools ==
  {FromBootstrap(system, <<>>, [c |-> Inner], rag) :
     system \in {<<>>, [k |-> Str("s"), x |-> Whole(3)]},
     rag \in {<<>>, <<Rag("d", "k", Whole(1)), Rag("e", "k", Whole(2)), Rag("d", "k", Whole(3))>>}}
PartOf(reference, words) == [reference |-> reference, words |-> words]
Parts == {PartOf(TRUE, <<"sys", "k">>), PartOf(TRUE, <<"rag", "d", "k">>), PartOf(TRUE, <<"conversation", "c", "o", "k">>),
          PartOf(TRUE, <<"a", "v">>), PartOf(FALSE, <<"word">>), PartOf(FALSE, <<"sys", "k">>), PartOf(FALSE, <<"x", "y">>)}
PoolInputs == [pool : Pools, selector : {<<"a", "v">>, <<"sys", "k">>, <<"conversation", "c">>, <<"sys", "new">>},
               value : PoolValues, parts : SeqsUpTo2(Parts)]

-----------------------------------------------------------------------------
(* Outputs of a code node.                                                 *)

CodeStr(n, nul) == Str([length |-> n, nul |-> nul])
CodeScalars == {NoneValue, Bool(TRUE), Whole(1), Whole(-5), Whole(5), Fraction(2), Fraction(3), CodeStr(1, FALSE), CodeStr(2, TRUE), CodeStr(3, FALSE)}
CodeObjects == {Dict(<<>>), Dict(<<<<"k", Whole(1)>>>>), Dict(<<<<"k", Bool(TRUE)>>>>), Dict(<<<<"k", Dict(<<<<"k", Whole(1)>>>>)>>>>),
                Dict(<<<<"k", Whole(1)>>, <<"l", Whole(1)>>>>)}
CodeLists == {List(s) : s \in SeqsUpTo2({NoneValue, Bool(TRUE), Whole(1), Whole(-5), Fraction(3), CodeStr(1, TRUE), List(<<>>)} \cup CodeObjects)}
             \cup {List(<<Whole(1), Whole(1), Whole(1)>>), List(<<Bool(TRUE), Bool(TRUE), Bool(TRUE)>>)}
OutputOf(name, type, children) == [name |-> name, type |-> type, children |-> children]
CodeOutputs ==
  {OutputOf("o", t, <<>>) : t \in {"number", "string", "boolean", "array[number]", "array[string]", "array[boolean]", "array[object]", "object", "file"}}
  \cup {OutputOf("o", t, <<<<OutputOf("k", "number", <<>>)>>>>) : t \in {"object", "array[object]"}}
CodeInputs ==
  [pairs : {<<<<"o", v>>>> : v \in CodeScalars \cup CodeObjects \cup CodeLists}, schema : Options({<<o>> : o \in CodeOutputs})]
  \cup [pairs : SeqsUpTo2({<<"o", Whole(1)>>, <<"p", CodeStr(1, FALSE)>>}),
        schema : Options({<<OutputOf("o", "number", <<>>), OutputOf("p", "string", <<>>)>>, <<OutputOf("p", "boolean", <<>>)>>})]
\* A list of lists stands where no schema describes it.
RECURSIVE HasNested(_)
HasNested(v) ==
  CASE IsList(v) -> \E x \in Range(Items(v)) : IsList(x) \/ HasNested(x)
    [] Class(v) = "dict" -> \E i \in DOMAIN Content(v) : HasNested(Content(v)[i][2])
    [] OTHER -> FALSE

-----------------------------------------------------------------------------
(* Conditions and branches.                                                *)

Numerals == {L!Numeral(<<"1">>, 2, FALSE), L!Numeral(<<"1", ".", "0">>, 2, TRUE), L!Numeral(<<"1", ".", "5">>, 3, TRUE), L!Numeral(<<"0">>, 0, FALSE)}
Words == {L!Text(<<>>), L!Text(<<"a">>), L!Text(<<"a", "b">>), L!Text(<<"true">>)}
Operands == Numerals \cup Words \cup {NoneValue, Bool(TRUE), Bool(FALSE), Whole(1), Whole(2), Fraction(2), Fraction(3), Dict(<<>>)}
            \cup {List(<<>>), List(<<L!Text(<<"a">>)>>), List(<<Bool(TRUE), Bool(FALSE)>>), List(<<L!Text(<<"a">>), L!Text(<<"b">>)>>)}
FileOf(name) == File(L!Text(<<name>>))
Sub(op, v) == [op |-> op, value |-> v]
Subs == {Sub("contains", L!Text(<<"a">>)), Sub("not contains", L!Text(<<"a">>)), Sub("is", L!Text(<<"b">>))}
ConditionPool == [x |-> Whole(1), t |-> L!Text(<<"a", "b">>), b |-> Bool(FALSE), fs |-> List(<<FileOf("a"), FileOf("b")>>), e |-> NoneValue]
Condition(variable, op, v) == [variable |-> variable, op |-> op, value |-> v, subs |-> <<>>, joined |-> "and"]
SomeConditions ==
  {Condition("x", "=", L!Numeral(<<"1">>, 2, FALSE)), Condition("x", ">=", L!Numeral(<<"1", ".", "5">>, 3, TRUE)), Condition("x", "=", L!Numeral(<<"1", ".", "0">>, 2, TRUE)),
   Condition("t", "contains", L!Text(<<"b">>)), Condition("t", "start with", L!Text(<<"b">>)), Condition("b", "is", L!Text(<<"true">>)),
   Condition("b", "is", L!Text(<<"a">>)), Condition("e", "exists", NoneValue), Condition("unknown", "empty", NoneValue),
   Condition("fs", "contains", NoneValue)}
  \cup {[Condition("fs", "contains", NoneValue) EXCEPT !.subs = s, !.joined = j] :
          s \in SeqsUpTo2(Subs) \ {<<>>}, j \in {"and", "or"}}
FewConditions == {c \in SomeConditions : c.variable \in {"x", "t"}}
Cases(ids) == [id : ids, operator : {"and", "or"}, conditions : SeqsUpTo2(FewConditions)]

-----------------------------------------------------------------------------
(* Lists.                                                                  *)

Record(id, key) == [id |-> id, keys |-> [a \in {"", "size", "name", "type"} |-> key]]
ListKeys == [string |-> {<<"a">>, <<"a", "b">>, <<>>}, number |-> {2, 4, 3}, boolean |-> {TRUE, FALSE}]
RecordLists(kind) ==
  {[i \in 1..n |-> Record(i, keys[i])] : n \in {0, 3}, keys \in [1..3 -> ListKeys[kind]]}
FilterOf(attribute, op, v) == [attribute |-> attribute, op |-> op, value |-> v]
TextFilters == {FilterOf("", "contains", L!Text(<<"a">>)), FilterOf("", "not empty", L!Text(<<>>)), FilterOf("", "in", L!Text(<<"a", "b">>)),
                FilterOf("", "=", L!Text(<<"a">>))}
NumberFilters == {FilterOf("", ">=", L!Numeral(<<"1", ".", "5">>, 3, TRUE)), FilterOf("", "#", L!Numeral(<<"2">>, 4, FALSE)), FilterOf("", "<", L!Text(<<"a">>))}
BooleanFilters == {FilterOf("", "is", Bool(TRUE)), FilterOf("", "is not", Bool(TRUE)), FilterOf("", "is", L!Text(<<"a">>))}
Filters(kind) ==
  CASE kind = "string" -> TextFilters [] kind = "number" -> NumberFilters [] kind = "boolean" -> BooleanFilters
FileFilters == {FilterOf("name", "start with", L!Text(<<"a">>)), FilterOf("type", "in", List(<<L!Text(<<"a">>)>>)),
                FilterOf("type", "is", L!Text(<<"a">>)), FilterOf("owner", "is", L!Text(<<"a">>)), FilterOf("name", "is", Bool(TRUE))}
ListConfigs(filters, attribute) ==
  [filter : SeqsUpTo2(filters), extract : Options({L!Numeral(<<"2">>, 4, FALSE), L!Numeral(<<"0">>, 0, FALSE)}),
   order : Options([attribute : {attribute}, descending : BOOLEAN]), limit : Options({-1, 2})]

-----------------------------------------------------------------------------
(* Requests.                                                               *)

Ref(name) == [ref |-> TRUE, text |-> name]
RequestPools == {[k |-> "one", u |-> "http://a"], [k |-> "two", u |-> "https://a"], [k |-> "", u |-> "nowhere"]}
NoAuth == [type |-> "no-auth", key |-> H!Plain(""), header |-> "", scheme |-> "bearer"]
Auths == {NoAuth} \cup [type : {"api-key"}, key : {Ref("k"), H!Plain("fixed")}, header : {"", "X-Key"}, scheme : {"bearer", "custom"}]
BodyItem(type, key, value, file) == [type |-> type, key |-> key, value |-> value, file |-> file]
Bodies ==
  {[type |-> t, data |-> <<>>] : t \in {"absent", "none", "json", "form-data"}}
  \cup {[type |-> t, data |-> <<BodyItem("text", H!Plain("f"), Ref("k"), "")>>] : t \in {"raw-text", "json", "x-www-form-urlencoded", "form-data"}}
  \cup {[type |-> t, data |-> <<BodyItem("file", H!Plain("f"), H!Plain(""), file)>>] : t \in {"binary", "form-data"}, file \in {"one", "two", "gone", "missing"}}
  \cup {[type |-> "form-data", data |-> <<BodyItem("file", Ref("k"), H!Plain(""), "one"), BodyItem("file", H!Plain("one"), H!Plain(""), "two")>>]}
TheFiles == [one |-> <<[name |-> "n", reference |-> TRUE, remote |-> FALSE, loads |-> TRUE]>>,
             gone |-> <<[name |-> "g", reference |-> TRUE, remote |-> FALSE, loads |-> FALSE]>>,
             two |-> <<[name |-> "m", reference |-> FALSE, remote |-> FALSE, loads |-> TRUE],
                       [name |-> "o", reference |-> FALSE, remote |-> TRUE, loads |-> TRUE]>>]
HeaderLines == {<<>>, <<<<H!Plain("Content-Type"), H!Plain("text/csv")>>>>, <<<<H!Plain("content-type"), Ref("k")>>, <<H!Plain("X-Key"), H!Plain("own")>>>>}
RequestConfigs ==
  [auth : Auths, url : {Ref("u"), H!Plain("http://a")}, method : {"get", "options"}, headers : HeaderLines, params : {<<<<H!Plain("q"), Ref("k")>>>>},
   body : Bodies, timeout : {0}, strategy : {FALSE}, retry : {FALSE}]
Answers == {[success |-> s, disposition |-> d, type |-> t, marked |-> FALSE, size |-> z] :
              s \in BOOLEAN, d \in {"", "attachment"}, t \in {"text", "application/octet-stream", "unreachable"}, z \in 1..3}
RequestInputs ==
  [config : RequestConfigs, pool : RequestPools, later : RequestPools, answer : {CHOOSE a \in Answers : a.success}]
  \cup [config : [auth : {NoAuth}, url : {Ref("u")}, method : {"get"}, headers : {<<>>}, params : {<<>>}, body : Bodies,
                   timeout : {0}, strategy : BOOLEAN, retry : BOOLEAN],
        pool : RequestPools, later : RequestPools, answer : Answers]

-----------------------------------------------------------------------------
(* Documents.                                                              *)

Cells == {<<"w">>, <<"w", "newline", "v">>, <<"w", "|">>, <<>>}
Rows == {<<h>> : h \in SeqsUpTo2(Cells) \ {<<>>}} \cup {<<<<c>>, <<d>>>> : c \in Cells, d \in Cells}
Captions == [speaker : {"", "Ann", "Bob"}, words : {<<"hello">>, <<"so", "long">>}]
Document(content) == [broken |-> FALSE, content |-> content]
FileAs(extension, document) ==
  [extension |-> extension, type |-> "", remote |-> FALSE, url |-> FALSE, downloads |-> TRUE, document |-> document]
Tables ==
  {FileAs(".csv", Document(r)) : r \in Rows} \cup {FileAs(".xlsx", Document(<<[readable |-> TRUE, rows |-> r]>>)) : r \in Rows}
  \cup {FileAs(".docx", Document(<<[kind |-> "table", rows |-> r]>>)) : r \in Rows}
TypedFile == [FileAs("", Document(<<<<"w">>>>)) EXCEPT !.type = "text/plain"]
OtherFiles ==
  {FileAs(".txt", Document(<<<<"w">>>>)), FileAs(".pdf", Document(<<<<"w">>>>)), FileAs(".doc", [broken |-> TRUE, content |-> <<>>]), TypedFile,
   [TypedFile EXCEPT !.remote = TRUE], [TypedFile EXCEPT !.remote = TRUE, !.url = TRUE], [TypedFile EXCEPT !.downloads = FALSE],
   FileAs(".properties", Document(<<<<"a", "=", "b", ":">>, <<"#", "c">>, <<"!", "c", "=", "d">>, <<"d", ":", "e">>, <<"f">>, <<>>>>))}
\* MIME types name captions; their extension stands for plain text.
CaptionFiles ==
  {[FileAs("", Document(cs)) EXCEPT !.type = "text/vtt"] : cs \in SeqsUpTo2(Captions) \cup {<<a, b, a>> : a \in Captions, b \in Captions}}
DocumentInputs == [variable : {"array", "missing", "other"}, files : SeqsUpTo2(OtherFiles) \cup {<<f>> : f \in Tables \cup CaptionFiles}]

-----------------------------------------------------------------------------
(* Prompts.                                                                *)

Image(name) == [name |-> name, type |-> "image"]
Other(name) == [name |-> name, type |-> "custom"]
Said(role, parts) == [M!Message(role, parts) EXCEPT !.list = FALSE]
TheHistory == <<Said("user", <<M!Text(<<"said">>)>>), [M!Message("assistant", <<[type |-> "image", data |-> <<"h">>]>>) EXCEPT !.calls = TRUE],
                M!Message("tool", <<M!Text(<<"done">>)>>), M!Message("user", <<M!Text(<<"said">>), [type |-> "image", data |-> <<"h">>]>>)>>
TemplateMessage(role, jinja, pieces) == [role |-> role, jinja |-> jinja, pieces |-> pieces]
SomePieces == {<<>>, <<M!Piece("words", <<"w">>, <<>>), M!Piece("context", <<>>, <<>>)>>, <<M!Piece("files", <<>>, <<Image("t"), Other("u")>>)>>,
               <<M!Piece("words", <<"#histories#", "w">>, <<>>)>>}
TemplateMessages(mode) ==
  [role : {"system", "user"}, jinja : BOOLEAN, pieces : SomePieces]
  \cup (IF mode = "chat" THEN {TemplateMessage("tool", FALSE, <<M!Piece("words", <<"w">>, <<>>)>>)} ELSE {})
Models ==
  {[type |-> "llm", features |-> f, context |-> c, rules |-> <<[name |-> "max", template |-> "max_tokens"]>>, parameters |-> [max_tokens |-> 1]] :
     f \in {{}, {"image"}, {"image", "tool-call"}}, c \in {0, 3, 9}}
PlainModels == {m \in Models : "tool-call" \notin m.features /\ m.context < 9}
Memories == {<<>>, <<TheHistory>>}
PromptInputs(theMode) ==
  [kind : {"prompt"}, mode : {theMode},
   template : {<<m>> : m \in TemplateMessages(theMode)},
   env : [context : {<<>>, <<"c">>}, query : {<<>>, <<"q">>}, files : {<<>>, <<Image("f"), Other("o")>>}, contextFiles : {<<>>, <<Image("f")>>},
          vision : BOOLEAN, renderer : BOOLEAN, memory : Memories, config : Options([enabled : BOOLEAN, size : {1}, prefixed : BOOLEAN]),
          model : PlainModels]]
Setting(kind, words) == [kind |-> kind, words |-> words]
ParameterInputs ==
  [kind : {"parameters"},
   parameters : {[temperature |-> s] : s \in {Setting("text", <<"#v#">>), Setting("text", <<"w", "#v#", "w">>), Setting("text", <<"w", "w", "w", "w">>), Setting("literal", <<"0.7">>)}},
   values : [{"#v#"} -> {"0.7", "w"}], later : [{"#v#"} -> {"0.7", "w"}]]
ExtractorInputs ==
  [kind : {"extractor"},
   node : [mode : {"chat", "completion", "other"}, reasoning : {"function_call", "prompt"}, query : {<<"q">>}, instruction : {<<>>, <<"i">>},
           memory : Memories, window : {2}, files : {<<>>, <<Image("f"), Other("o")>>}, vision : BOOLEAN],
   model : Models \cup {[m EXCEPT !.type = t] : m \in Models, t \in {"missing", "other"}}]
ClassifierInputs ==
  [kind : {"classifier"},
   node : [mode : {"chat", "completion", "other"}, query : {<<"q">>}, instruction : {<<>>, <<"i">>}, memory : Memories, windows : {{}, {2}},
           files : {<<>>, <<Image("f"), Other("o")>>}, vision : BOOLEAN],
   model : Models]

-----------------------------------------------------------------------------
(* What is made of answers.                                                *)

Parameter(name, type, required, options) == [name |-> name, type |-> type, required |-> required, options |-> options]
ParameterLists ==
  {<<Parameter("p", t, r, {})>> : t \in {"string", "number", "boolean", "array[string]", "array[number]", "array[object]", "array[boolean]"}, r \in BOOLEAN}
  \cup {<<Parameter("p", "string", TRUE, {L!Text(<<"a">>)})>>, <<>>, <<Parameter("p", "number", TRUE, {}), Parameter("o", "boolean", FALSE, {})>>}
AnswerValues == {NoneValue, Bool(TRUE), Whole(1), Fraction(3), L!Text(<<"a">>), L!Numeral(<<"1", ".", "5">>, 3, TRUE), L!Numeral(<<"1">>, 2, FALSE), Dict(<<>>)}
AnswerLists == {List(s) : s \in SeqsUpTo2({Bool(TRUE), Whole(1), L!Text(<<"a">>), L!Numeral(<<"1">>, 2, FALSE), Dict(<<>>)})}
AnswerPairs ==
  {<<>>} \cup {<<<<"p", v>>>> : v \in AnswerValues \cup AnswerLists} \cup {<<<<"x", Whole(1)>>>>}
  \cup {<<<<"p", v>>, <<o, w>>>> : v \in {Whole(1), L!Text(<<"a">>)}, w \in {Bool(FALSE), Whole(0), NoneValue}, o \in {"o", "x"}}
Object == <<"{", "pairs", "}">>
Answer(kind, text, calls, pairs) == [kind |-> kind, text |-> text, calls |-> calls, pairs |-> pairs]
ExtractInputs ==
  [parameters : ParameterLists,
   answer : {Answer("answer", Object, calls, pairs) : calls \in {<<>>, <<Object>>}, pairs \in AnswerPairs}
            \cup {Answer("answer", <<"{", "}">>, calls, <<>>) : calls \in {<<>>, <<<<"w">>>>, <<<<>>>>}}
            \cup {Answer(kind, <<>>, <<>>, <<>>) : kind \in {"raises", "invalid"}}]
  \cup [parameters : {<<Parameter("p", "number", TRUE, {})>>},
        answer : {Answer("answer", text, <<>>, <<<<"p", Whole(1)>>>>) :
                    text \in UNION {[1..n -> {"{", "}", "[", "]", "pairs", "'}"}] : n \in 0..5}}]

ClassOf(id, name, label) == [id |-> id, name |-> name, label |-> label]
TheClasses == {<<ClassOf("1", "a", ""), ClassOf("2", "b", "second")>>, <<ClassOf("1", "a", "first")>>, <<ClassOf("1", "a", ""), ClassOf("1", "b", "")>>}
TheObjects == [one : [named : BOOLEAN, id : {"1", "2", "9", "absent", "a list"}], two : {[named |-> TRUE, id |-> "1"]}]
Thoughts == {<<>>, <<"<think>", "{", "two", "}", "</think>">>, <<"<THINK>", "{", "two", "}", "</think>">>, <<"<think>", "word">>}
Replies == {<<>>, <<"word">>, <<"{", "one", "}">>, <<"[", "{", "two", "}", "]">>, <<"json fence", "{", "one", "}", "fence">>, <<"fence", "5", "fence">>,
            <<"word", "{", "one", "}", "word">>, <<"tick", "word", "tick", "{", "one", "}">>, <<"json fence", "{", "two", "}">>}
ClassifyInputs ==
  [classes : TheClasses,
   call : [kind : {"completed", "ended", "ValueError", "InvokeError"}, text : {t \o r : t \in Thoughts, r \in Replies}, usage : {2}, objects : TheObjects]]

-----------------------------------------------------------------------------
ComputedInputs ==
  \/ job = "extract" /\ input \in ExtractInputs
  \/ job = "classify" /\ input \in ClassifyInputs
  \/ job = "prompt" /\ input \in PromptInputs("chat") \cup PromptInputs("completion") \cup ParameterInputs \cup ExtractorInputs \cup ClassifierInputs
  \/ job = "types" /\ input \in TypeInputs
  \/ job = "pool" /\ input \in PoolInputs
  \/ job = "code" /\ input \in CodeInputs
  \/ job = "compare" /\ input \in [left : Operands, right : Operands]
  \/ job = "conditions" /\ input \in [conditions : SeqsUpTo2(SomeConditions), operator : {"and", "or"}]
  \/ job = "branch" /\ input \in [cases : {<<a, b>> : a \in Cases({"one"}), b \in Cases({"two"})}]
  \/ job = "list" /\ \/ \E kind \in {"string", "number", "boolean"} :
                          input \in [kind : {kind}, config : ListConfigs(Filters(kind), ""), records : RecordLists(kind)]
                     \/ input \in [kind : {"file"}, config : ListConfigs(FileFilters, "name"), records : RecordLists("string")]
  \/ job = "request" /\ input \in RequestInputs
  \/ job = "documents" /\ input \in DocumentInputs

Init ==
  /\ AssignerInit /\ RuntimeInit /\ result = NoResult
  /\ \/ job = "assign" /\ input = <<>>
     \/ program = [n \in TheAssigners |-> OneProgram] /\ (ComputedInputs \/ (job = "runtime" /\ input = <<>>))

Compute ==
  /\ result = NoResult
  /\ \/ job = "types" /\ result' = <<<<BuiltType(input.value), TypedAs(input.type, Cast(input.value, input.type))>>>>
     \/ job = "pool" /\ result' = <<ConvertTemplate(Add(input.pool, input.selector, input.value), input.parts)>>
     \/ job = "code" /\ result' = <<H!Transformed(input.pairs, input.schema, 1)>>
     \/ job = "compare" /\ result' = <<L!EqualTo(input.left, input.right)>>
     \/ job = "conditions" /\ result' = <<L!ProcessConditions(ConditionPool, input.conditions, input.operator)>>
     \/ job = "branch" /\ result' = <<L!IfElse(ConditionPool, input.cases)>>
     \/ job = "list" /\ result' = <<L!RunListOperator(input.config, input.kind, input.records)>>
     \/ job = "request" /\ result' = <<H!Attempts(input.config, input.pool, input.later, TheFiles, input.answer)>>
     \/ job = "extract" /\ result' = <<E!RunExtractor(input.parameters, input.answer)>>
     \/ job = "classify" /\ result' = <<E!RunClassifier(input.classes, input.call)>>
     \/ job = "prompt" /\ result' =
          CASE input.kind = "prompt" -> <<M!FetchPrompt(input.mode, input.template, input.env), M!UtilsFetchPrompt(input.mode, input.template, input.env)>>
            [] input.kind = "parameters" -> <<M!ResolveParameters(input.parameters, input.values, 2)>>
            [] input.kind = "extractor" -> <<E!ExtractorPrompt(input.node, input.model)>>
            [] input.kind = "classifier" -> <<E!ClassifierPrompt(input.node, input.model)>>
     \/ job = "documents" /\ result' = <<D!RunExtractor(input.variable, input.files)>>
  /\ UNCHANGED <<assignerVars, runtimeVars, job, input>>

Next ==
  \/ Compute
  \/ job = "assign" /\ AssignerStep /\ UNCHANGED <<runtimeVars, job, input, result>>
  \/ job = "runtime" /\ RuntimeStep /\ UNCHANGED <<assignerVars, job, input, result>>

Spec == Init /\ [][Next]_vars

-----------------------------------------------------------------------------
Finished(j) == job = j /\ result # NoResult

\* Values have one type however it is found, and outputs of a code node are what
\* its schema says: see FindsOneType, TakesWhatIsValid, OutputsFit.
ValuesAreTyped ==
  /\ job = "types" => FindsOneType(input.value) /\ TakesWhatIsValid(input.type, input.value)
  /\ Finished("code") => /\ H!OutputsFit(input.pairs, input.schema, result[1])
                    /\ H!RaisesOnNestedLists(result[1], HasNested(input.pairs[1][2]))
  /\ Finished("extract") => /\ E!ParametersAreTyped(input.parameters, input.answer, result[1])
                       /\ E!FindsFirstObject(input.answer.text, input.answer.pairs)

\* The pool keeps what it is given, whoever writes to it.
PoolIsKept ==
  /\ FailureLeavesPool /\ EffectOfItems /\ PoolIsLoadable
  /\ job = "pool" => /\ PoolKeeps(input.pool, input.selector, input.value)
                     /\ TemplateIsFilled(Add(input.pool, input.selector, input.value), input.parts)

\* Branches and lists are decided by what their conditions say.
BranchesAndLists ==
  /\ job = "compare" => L!ComparisonsAgree(input.left, input.right)
  /\ Finished("conditions") => L!OrderIsIrrelevant(ConditionPool, input.conditions, input.operator, result[1])
  /\ Finished("classify") => E!TakesItsClass(input.classes, input.call, result[1])
  /\ Finished("branch") => L!BranchIsFirst(ConditionPool, input.cases, result[1])
  /\ Finished("list") => L!ListIsKept(input.config, input.kind, input.records, result[1])

\* What is sent, to a server or to a model, and what is read of a document is what
\* was configured and written.
RequestsAndTexts ==
  /\ Finished("request") => H!RequestsAreAsConfigured(input.config, input.pool, input.later, TheFiles, input.answer, result[1])
  /\ Finished("prompt") =>
       CASE input.kind = "prompt" -> /\ M!NothingIsLost(input.mode, input.template, input.env, result[1])
                                     /\ M!BuildersAgree(result[1], result[2])
         [] input.kind = "parameters" -> M!FilledInOnce(input.parameters, input.values, input.later, 2)
         [] input.kind = "extractor" -> E!PromptIsFramed(input.node, input.model, result[1])
         [] input.kind = "classifier" -> E!QuestionComesLast(input.node, input.model, result[1])
  /\ Finished("documents") => D!TextsAreKept(input.variable, input.files, result[1])
=============================================================================
