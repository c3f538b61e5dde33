----------------------------- MODULE CodeAndHttp -----------------------------
(***************************************************************************)
(* The code node and the HTTP request node.                                *)
(*                                                                         *)
(* What a code node makes of the object its program returns: each output   *)
(* is checked against the schema, or against the limits alone where there  *)
(* is no schema, and numbers and strings are normalised.  A schema is a    *)
(* sequence of [name, type, children]; children is a sequence of at most   *)
(* one schema.                                                             *)
(***************************************************************************)
EXTENDS PyValues

CONSTANTS
  CodeLimits,   \* [depth, number, precise, string, array]
  SizeLimits,   \* [file, text]
  Unreadable    \* texts of which repair_json makes nothing that is JSON

Ok(v) == [err |-> "none", value |-> v]
Bad(err) == [err |-> err, value |-> NoneValue]
Invalid == Bad("OutputValidationError")
IsOk(o) == o.err = "none"
InOrder(outcomes, value(_)) ==   \* the first error, or the values
  LET bad == SelectSeq(outcomes, LAMBDA o : ~IsOk(o))
  IN  IF bad # <<>> THEN bad[1] ELSE Ok(value([i \in DOMAIN outcomes |-> outcomes[i].value]))

-----------------------------------------------------------------------------
(* Single values.  A string is its length and whether it holds a NUL.      *)

CheckString(v) ==
  IF v = NoneValue THEN Ok(v)
  ELSE IF Content(v).length > CodeLimits.string THEN Invalid
  ELSE Ok(Str([length |-> IF Content(v).nul THEN Content(v).length - 1 ELSE Content(v).length, nul |-> FALSE]))

IsPrecise(v) == Class(v) = "float" /\ Content(v) % 2 = 1
\* A slip: only the upper bound is looked at.
CheckNumberAbove(v) ==
  IF v = NoneValue THEN Ok(v)
  ELSE IF Halves(v) > CodeLimits.number \/ (IsPrecise(v) /\ ~CodeLimits.precise) THEN Invalid
  ELSE Ok(v)

CheckNumber(v) ==
  IF v = NoneValue THEN Ok(v)
  ELSE IF Halves(v) > CodeLimits.number \/ Halves(v) < -CodeLimits.number
          \/ (IsPrecise(v) /\ ~CodeLimits.precise) THEN Invalid
  ELSE Ok(v)

BoolToInt(o) == IF Class(o.value) = "bool" THEN Ok(ToInt(o.value)) ELSE o
NumberOutput(v) ==
  IF v # NoneValue /\ ~IsNumber(v) THEN Invalid
  ELSE LET checked == CheckNumber(v) IN IF IsOk(checked) THEN BoolToInt(checked) ELSE checked
StringOutput(v) == IF Class(v) \in {"str", "none"} THEN CheckString(v) ELSE Invalid

-----------------------------------------------------------------------------
(* Arrays of a declared type.                                              *)

\* outcomes are those of the elements, one by one.
ArrayOutput(v, longest, outcomes) ==
  CASE v = NoneValue -> Ok(v)
    [] ~IsList(v) \/ Len(Items(v)) > longest -> Invalid
    [] OTHER -> InOrder(outcomes, List)

\* Elements must be numbers, of any size; None is no number.
ArrayNumberOutput(v) ==
  LET outcome(x) == IF IsNumber(x) THEN BoolToInt(Ok(x)) ELSE Invalid
  IN  ArrayOutput(v, CodeLimits.array, [i \in DOMAIN Items(v) |-> outcome(Items(v)[i])])
ArrayStringOutput(v) == ArrayOutput(v, CodeLimits.array, [i \in DOMAIN Items(v) |-> StringOutput(Items(v)[i])])
ArrayBooleanOutput(v) ==   \* of any length
  LET outcome(x) == IF Class(x) \in {"bool", "none"} THEN Ok(x) ELSE Invalid
  IN  ArrayOutput(v, Len(Items(v)), [i \in DOMAIN Items(v) |-> outcome(Items(v)[i])])

-----------------------------------------------------------------------------
(* Objects, and what no schema describes.                                  *)

RECURSIVE Transformed(_, _, _)

\* Elements of one kind: numbers, strings, or objects.  A list whose first element
\* is None is not looked at, and a list of lists ends in an AttributeError.
UntypedList(items, depth) ==
  LET first == Head(items)
      all(classes) == Class(first) \in classes /\ \A x \in Range(items) : Class(x) \in classes \cup {"none"}
  IN  CASE items = <<>> -> Ok(NoneValue)
        [] items # <<>> /\ first = NoneValue -> Ok(NoneValue)
        [] OTHER ->
             CASE all({"bool", "int", "float"}) -> InOrder([i \in DOMAIN items |-> CheckNumber(items[i])], List)
               [] all({"str"}) -> InOrder([i \in DOMAIN items |-> CheckString(items[i])], List)
               [] all({"dict"}) ->
                    InOrder([i \in DOMAIN items |-> IF items[i] = NoneValue THEN Ok(NoneValue)
                                                    ELSE Transformed(Content(items[i]), <<>>, depth + 1)], List)
               [] all({"list"}) -> IF depth + 1 > CodeLimits.depth THEN Bad("DepthLimitError") ELSE Bad("AttributeError")
               [] OTHER -> Invalid

Untyped(v, depth) ==
  CASE Class(v) = "dict" -> Transformed(Content(v), <<>>, depth + 1)
    [] Class(v) \in {"int", "float"} -> CheckNumber(v)
    [] Class(v) = "str" -> CheckString(v)
    [] Class(v) = "list" -> UntypedList(Items(v), depth)
    [] Class(v) \in {"bool", "none"} -> Ok(v)
    [] OTHER -> Invalid

ObjectOutput(v, children, depth) ==
  CASE v = NoneValue -> Ok(v)
    [] Class(v) = "dict" -> Transformed(Content(v), children, depth + 1)
    [] OTHER -> Invalid

ArrayObjectOutput(v, children, depth) ==
  ArrayOutput(v, CodeLimits.array, [i \in DOMAIN Items(v) |-> ObjectOutput(Items(v)[i], children, depth)])

\* Types that are not listed are refused; a boolean is taken as it comes.
SchemaOutput(output, v, depth) ==
  CASE output.type = "object" -> ObjectOutput(v, output.children, depth)
    [] output.type = "number" -> NumberOutput(v)
    [] output.type = "string" -> StringOutput(v)
    [] output.type = "boolean" -> Ok(v)
    [] output.type = "array[number]" -> ArrayNumberOutput(v)
    [] output.type = "array[string]" -> ArrayStringOutput(v)
    [] output.type = "array[object]" -> ArrayObjectOutput(v, output.children, depth)
    [] output.type = "array[boolean]" -> ArrayBooleanOutput(v)
    [] OTHER -> Invalid

Field(pairs, name) == SelectSeq(pairs, LAMBDA p : p[1] = name)

\* Without a schema the object is kept as it is; with one it must have the schema's
\* outputs and no others.
Transformed(pairs, schema, depth) ==
  IF depth > CodeLimits.depth THEN Bad("DepthLimitError")
  ELSE IF schema = <<>>
  THEN InOrder([i \in DOMAIN pairs |-> Untyped(pairs[i][2], depth)], LAMBDA values : Dict(pairs))
  ELSE LET outputs == schema[1]
           one(o) == IF Field(pairs, o.name) = <<>> THEN Invalid
                     ELSE SchemaOutput(o, Field(pairs, o.name)[1][2], depth)
           all == InOrder([i \in DOMAIN outputs |-> one(outputs[i])],
                          LAMBDA values : Dict([i \in DOMAIN values |-> <<outputs[i].name, values[i]>>]))
       IN  IF IsOk(all) /\ Len(outputs) # Len(pairs) THEN Bad("CodeNodeError") ELSE all

\* The node: errors of the check fail it, anything else is raised.
CodeStatus(outcome) ==
  CASE IsOk(outcome) -> "succeeded"
    [] outcome.err \in {"OutputValidationError", "DepthLimitError", "CodeNodeError"} -> "failed"
    [] OTHER -> "raised"

-----------------------------------------------------------------------------
(* What a reader of the schema expects, said without the checks.           *)

ElementClass(type) == IF type = "array[string]" THEN "str" ELSE "bool"

RECURSIVE Fits(_, _, _)
FitsObject(pairs, schema, depth) ==
  /\ depth <= CodeLimits.depth
  /\ schema # <<>> => /\ {schema[1][i].name : i \in DOMAIN schema[1]} = {pairs[i][1] : i \in DOMAIN pairs}
                      /\ \A i \in DOMAIN schema[1] :
                           Fits(schema[1][i], Field(pairs, schema[1][i].name)[1][2], depth)
Fits(output, v, depth) ==
  \/ v = NoneValue
  \/ CASE output.type = "object" -> Class(v) = "dict" /\ FitsObject(Content(v), output.children, depth + 1)
       [] output.type = "array[object]" ->
            IsList(v) /\ \A x \in Range(Items(v)) : Fits([output EXCEPT !.type = "object"], x, depth)
       [] output.type = "number" ->
            /\ Class(v) \in {"int", "float"}
            /\ Halves(v) <= CodeLimits.number /\ Halves(v) >= -CodeLimits.number
       [] output.type = "string" -> Class(v) = "str" /\ Content(v).length <= CodeLimits.string /\ ~Content(v).nul
       [] output.type = "boolean" -> TRUE     \* nobody looks
       [] output.type = "array[number]" -> IsList(v) /\ \A x \in Range(Items(v)) : Class(x) \in {"int", "float"}
       [] output.type \in {"array[string]", "array[boolean]"} ->
            IsList(v) /\ \A x \in Range(Items(v)) : Class(x) \in {"none", ElementClass(output.type)}

\* A code node that succeeds has the outputs its schema names, each of its type and
\* within the limits it is checked for, nothing nested deeper than the limit; its
\* outputs are stable (checking them again changes nothing); and what the variable
\* pool makes of an array is of the declared type, unless it is empty or holds None.
OutputsFit(pairs, schema, outcome) ==
  IsOk(outcome) =>
    /\ FitsObject(Content(outcome.value), schema, 1)
    /\ Transformed(Content(outcome.value), schema, 1) = outcome
    /\ schema # <<>> =>
         \A i \in DOMAIN schema[1] :
           LET v == Field(Content(outcome.value), schema[1][i].name)[1][2]
           IN  IsList(v) /\ Items(v) # <<>> /\ NoneValue \notin Range(Items(v)) /\ schema[1][i].type # "boolean"
                 => BuiltType(v) = schema[1][i].type

\* Nothing but a list of lists under no schema makes the check itself fail.
RaisesOnNestedLists(outcome, nested) == CodeStatus(outcome) = "raised" => nested

-----------------------------------------------------------------------------
(* The HTTP request node: what it sends for its configuration and the      *)
(* pool, and what it makes of the answer.  The configuration is an object  *)
(* the node keeps: a retry runs with what the attempt before left in it.   *)
(* A template is [ref, text]: a reference to a variable, or plain text.    *)

Plain(text) == [ref |-> FALSE, text |-> text]
Render(pool, t) == IF t.ref /\ t.text \in DOMAIN pool THEN pool[t.text] ELSE t.text

\* Header names differ in case only; the client takes them for one.
Lower(name) == CASE name = "Content-Type" -> "content-type" [] name = "Authorization" -> "authorization" [] OTHER -> name

-----------------------------------------------------------------------------
(* Preparing the request: [error, request] of a configuration.             *)

\* A slip: the key is rendered for one request, the configuration keeps the template.
KeyKept(config, pool) == config

\* The key is rendered into the configuration itself.
KeyRendered(config, pool) ==
  IF config.auth.type # "api-key" THEN config ELSE [config EXCEPT !.auth.key = Plain(Render(pool, config.auth.key))]

\* A setting of 0 or none takes the default.
Timeout(config, default) == IF config.timeout = 0 THEN default ELSE config.timeout

\* Lines "key: value", rendered after they are cut; later keys do not replace earlier.
Params(config, pool) ==
  [i \in DOMAIN config.params |-> <<Render(pool, config.params[i][1]), Render(pool, config.params[i][2])>>]
\* Headers are rendered before they are cut; of one name the last value stays.
Headers(config, pool) ==
  FoldLeft(LAMBDA h, line : (Render(pool, line[1]) :> <<"plain", Render(pool, line[2])>>) @@ h, <<>>, config.headers)

NeedsOneItem == {"raw-text", "json", "binary"}
\* The last selector of each key, at the place of the first; files that cannot be
\* sent are left out; multipart needs one, so there is a placeholder.
Placeholder == <<"placeholder", "">>
Sendable(f) == f.reference \/ f.remote
SentFiles(body, pool, files) ==
  LET items == SelectSeq(body.data, LAMBDA item : item.type = "file")
      key(i) == Render(pool, items[i].key)
      selectors == FoldLeft(LAMBDA found, item : (Render(pool, item.key) :> item.file) @@ found, <<>>, items)
      of(k) == IF selectors[k] \in DOMAIN files THEN SelectSeq(files[selectors[k]], Sendable) ELSE <<>>
      named(k) == [n \in DOMAIN of(k) |-> <<k, of(k)[n]>>]
  IN  FlattenSeq([i \in DOMAIN items |-> IF \E j \in 1..i - 1 : key(j) = key(i) THEN <<>> ELSE named(key(i))])
Entries(sent) == [i \in DOMAIN sent |-> <<sent[i][1], sent[i][2].name>>]
\* A slip: there is no placeholder.
FilesAlone(body, pool, files) == Entries(SentFiles(body, pool, files))
RequestFiles(body, pool, files) ==
  IF SentFiles(body, pool, files) = <<>> THEN <<Placeholder>> ELSE Entries(SentFiles(body, pool, files))

\* Fields by their names, the last of each name; a form keeps files out of them.
Fields(items, pool) ==
  FoldLeft(LAMBDA fields, item : (Render(pool, item.key) :> Render(pool, item.value)) @@ fields, <<>>, items)

Body(body, pool, files) ==
  LET none == [content |-> <<>>, data |-> <<>>, files |-> <<>>]
      texts == SelectSeq(body.data, LAMBDA item : item.type = "text")
  IN  CASE body.type \in {"absent", "none"} -> none
        [] body.type \in {"raw-text", "json"} -> [none EXCEPT !.content = <<Render(pool, body.data[1].value)>>]
        [] body.type = "binary" -> [none EXCEPT !.content = <<files[body.data[1].file][1].name>>]
        [] body.type = "x-www-form-urlencoded" -> [none EXCEPT !.data = Fields(body.data, pool)]
        [] body.type = "form-data" -> [none EXCEPT !.data = Fields(texts, pool), !.files = RequestFiles(body, pool, files)]

\* An array of files is not the one file a binary body needs.
NoBinaryFile(body, files) ==
  body.type = "binary" /\ (body.data[1].file \notin DOMAIN files \/ Len(files[body.data[1].file]) # 1)

\* The file manager may raise anything when a file is fetched.
FetchRaises(body, pool, files) ==
  \/ body.type = "binary" /\ ~files[body.data[1].file][1].loads
  \/ body.type = "form-data" /\ \E sent \in Range(SentFiles(body, pool, files)) : ~sent[2].loads

PrepareError(config, pool, files) ==
  CASE config.auth.type = "api-key" /\ Render(pool, config.auth.key) = "" -> "AuthorizationConfigError"
    [] Render(pool, config.url) \notin {"http://a", "https://a"} -> "InvalidURLError"
    [] config.body.type \in NeedsOneItem /\ Len(config.body.data) # 1 -> "RequestBodyError"
    [] config.body.type = "json" /\ Render(pool, config.body.data[1].value) \in Unreadable -> "RequestBodyError"
    [] NoBinaryFile(config.body, files) -> "FileFetchError"
    [] FetchRaises(config.body, pool, files) -> "other"
    [] config.method = "options" -> "InvalidHttpMethodError"
    [] OTHER -> "none"

AuthHeader(auth, pool) ==
  IF auth.type # "api-key" THEN <<>>
  ELSE LET name == IF auth.header = "" THEN "Authorization" ELSE auth.header
       IN  (name :> <<auth.scheme, Render(pool, auth.key)>>)

DefaultType(type) ==
  CASE type = "json" -> "application/json" [] type = "raw-text" -> "text/plain"
    [] type = "x-www-form-urlencoded" -> "application/x-www-form-urlencoded" [] OTHER -> ""

\* The client names the boundary of a multipart body, so no content type goes with
\* files; other bodies get the one of their type unless there is one.
WithContentType(headers, body, requestFiles) ==
  LET given == {n \in DOMAIN headers : Lower(n) = "content-type"}
  IN  IF body.type = "form-data" /\ requestFiles # <<>> THEN [n \in DOMAIN headers \ given |-> headers[n]]
      ELSE IF DefaultType(body.type) # "" /\ given = {} THEN ("Content-Type" :> <<"plain", DefaultType(body.type)>>) @@ headers
      ELSE headers

Request(config, pool, files) ==
  LET body == Body(config.body, pool, files)
      headers == AuthHeader(config.auth, pool) @@ Headers(config, pool)
  IN  [url |-> Render(pool, config.url), params |-> Params(config, pool), body |-> body,
       headers |-> WithContentType(headers, config.body, body.files), retries |-> 0,
       timeout |-> Timeout(config, 10)]

Stars == <<"stars", "">>
\* The log shows the header of the key with stars.
Masked(config, headers) ==
  LET name == IF config.auth.header = "" THEN "Authorization" ELSE config.auth.header
  IN  IF config.auth.type # "api-key" THEN headers
      ELSE [n \in DOMAIN headers |-> IF Lower(n) = Lower(name) THEN Stars ELSE headers[n]]

-----------------------------------------------------------------------------
(* The answer: [success, disposition, type, marked, size].                 *)

\* A disposition with a name, or as an attachment, makes a file; text does not, nor
\* does what an application sends if it is text or begins like it.
IsFile(answer) ==
  \/ answer.disposition \in {"attachment", "named"}
  \/ answer.type \in {"image", "audio", "video"}
  \/ answer.type = "application/octet-stream" /\ ~answer.marked

TooLarge(answer) == answer.size > (IF IsFile(answer) THEN SizeLimits.file ELSE SizeLimits.text)

\* A failed answer fails the node only if it knows what to do about it; the file of
\* an answer is stored in either case.
NodeResult(config, error, answer) ==
  LET failed(type) == [status |-> "failed", type |-> type, files |-> 0, body |-> FALSE]
  IN  IF error = "other" THEN [failed(error) EXCEPT !.status = "raised"]
      ELSE IF error # "none" THEN failed(error)
      ELSE IF answer.type = "unreachable" THEN failed("HttpRequestNodeError")
      ELSE IF TooLarge(answer) THEN failed("ResponseSizeError")
      ELSE [status |-> IF ~answer.success /\ (config.strategy \/ config.retry) THEN "failed" ELSE "succeeded",
            type |-> IF ~answer.success /\ (config.strategy \/ config.retry) THEN "HTTPResponseCodeError" ELSE "none",
            files |-> IF IsFile(answer) THEN 1 ELSE 0, body |-> ~IsFile(answer)]

\* Two runs of one node, the pool having changed between them.
Attempts(config, pool, later, files, answer) ==
  LET kept == KeyRendered(config, pool)
      attempt(c, p) ==
        LET error == PrepareError(c, p, files)
        IN  [sent |-> IF error \in {"none", "InvalidHttpMethodError"} THEN <<Request(c, p, files)>> ELSE <<>>,
             result |-> NodeResult(c, error, answer)]
      attempts == [i \in 1..2 |-> attempt(<<config, kept>>[i], <<pool, later>>[i])]
  IN  [requests |-> [i \in 1..2 |-> attempts[i].sent], results |-> [i \in 1..2 |-> attempts[i].result],
       config |-> kept]

-----------------------------------------------------------------------------
\* Each attempt sends what the configuration says of the pool as it is then, but for
\* the key, which is the first attempt's; a key goes with every request and the log
\* shows no header with it.  A request has one content type and a body of its own type, a
\* multipart one at least one entry and no content type, its files those of the last
\* selector of their key.  Only an answer that was
\* taken as it is has outputs, a body or a file and never both, and where nobody
\* asked for it to fail, a failed answer is an answer.
RequestsAreAsConfigured(config, pool, later, files, answer, a) ==
  \A i \in {j \in 1..2 : a.requests[j] # <<>>} :
    LET request == a.requests[i][1]
        result == a.results[i]
        now == IF i = 1 THEN pool ELSE later
        contentTypes == {n \in DOMAIN request.headers : Lower(n) = "content-type"}
        given == {n \in {config.headers[k][1].text : k \in DOMAIN config.headers} : Lower(n) = "content-type"}
        keys == {n \in DOMAIN request.headers : request.headers[n] = <<config.auth.scheme, Render(pool, config.auth.key)>>}
    IN    /\ request.url = Render(now, config.url)
          /\ config.auth.type = "api-key" =>
               keys # {} /\ \A n \in keys : Masked(config, request.headers)[n] = Stars
          /\ Cardinality(given) <= 1 =>
               Cardinality(contentTypes) = (IF config.body.type = "form-data" THEN 0
                                            ELSE IF DefaultType(config.body.type) # "" \/ given # {} THEN 1 ELSE 0)
          /\ config.body.type = "form-data" <=> request.body.files # <<>>
          /\ \A entry \in Range(request.body.files) \ {Placeholder} :
               \E k \in DOMAIN config.body.data :
                 LET item == config.body.data[k]
                     ofKey(n) == config.body.data[n].type = "file" /\ Render(now, config.body.data[n].key) = entry[1]
                 IN  /\ ofKey(k) /\ ~\E n \in k + 1..Len(config.body.data) : ofKey(n)
                     /\ \E f \in Range(files[item.file]) : Sendable(f) /\ f.name = entry[2]
          /\ Placeholder \in Range(request.body.files) => Len(request.body.files) = 1
          /\ result.body \/ result.files > 0 => ~(result.body /\ result.files > 0) /\ ~TooLarge(answer)
          /\ ~answer.success /\ ~config.strategy /\ ~config.retry =>
               (result.status = "failed" => result.files = 0 /\ ~result.body)
          /\ result.status = "succeeded" /\ ~answer.success => ~config.strategy /\ ~config.retry
=============================================================================
