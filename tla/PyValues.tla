------------------------------ MODULE PyValues ------------------------------
(***************************************************************************)
(* Values as nodes exchange them, the types the program gives them, and    *)
(* the pool that holds them.                                               *)
(* A value is a pair of its Python class and its content: <<"int", 3>>,    *)
(* <<"list", sequence>>, <<"dict", its items>>.  A float counts halves.    *)
(***************************************************************************)
EXTENDS Integers, Sequences, FiniteSets, SequencesExt, Functions

NoneValue == <<"none", "">>
Bool(b) == <<"bool", b>>
Whole(n) == <<"int", n>>
Fraction(halves) == <<"float", halves>>
Str(s) == <<"str", s>>
List(s) == <<"list", s>>
Dict(pairs) == <<"dict", pairs>>
File(f) == <<"file", f>>

Class(v) == v[1]
Content(v) == v[2]
IsList(v) == Class(v) = "list"
Items(v) == Content(v)
IsNumber(v) == Class(v) \in {"bool", "int", "float"}   \* isinstance(v, (int, float))
Halves(v) ==
  CASE Class(v) = "bool" -> IF Content(v) THEN 2 ELSE 0
    [] Class(v) = "int" -> 2 * Content(v)
    [] Class(v) = "float" -> Content(v)

-----------------------------------------------------------------------------
(* SegmentType.                                                            *)

ScalarType ==
  [none |-> "none", bool |-> "boolean", int |-> "integer", float |-> "float", str |-> "string",
   dict |-> "object", file |-> "file"]
Numerical == {"number", "integer", "float"}

ElementType == [t \in {"array[string]", "array[number]", "array[object]", "array[file]", "array[boolean]"} |->
  CASE t = "array[string]" -> "string" [] t = "array[number]" -> "number" [] t = "array[object]" -> "object"
    [] t = "array[file]" -> "file" [] t = "array[boolean]" -> "boolean"]
ArrayTypes == DOMAIN ElementType \cup {"array[any]"}
Types == Range(ScalarType) \cup Numerical \cup ArrayTypes

\* The array type of lists whose elements all have type t.
ArrayOf(t) ==
  CASE t = "none" -> "array[any]"
    [] t \in Numerical -> "array[number]"
    [] t \in {"string", "object", "file", "boolean"} -> CHOOSE a \in DOMAIN ElementType : ElementType[a] = t

RECURSIVE InferType(_)
InferType(v) ==
  IF ~IsList(v) THEN ScalarType[Class(v)]
  ELSE LET types == {InferType(x) : x \in Range(Items(v))}
       IN  IF Cardinality(types) # 1
           THEN IF types \subseteq Numerical THEN "array[number]" ELSE "array[any]"
           ELSE IF types \subseteq ArrayTypes THEN "array[any]" ELSE ArrayOf(CHOOSE t \in types : TRUE)

\* build_segment: a segment for each element first, then one for the list.
RECURSIVE BuiltType(_)
BuiltType(v) ==
  IF ~IsList(v) THEN ScalarType[Class(v)]
  ELSE LET types == {BuiltType(x) : x \in Range(Items(v))}
       IN  IF types \subseteq ArrayTypes THEN "array[any]"
           ELSE IF Cardinality(types) # 1
           THEN IF types \subseteq Numerical THEN "array[number]" ELSE "array[any]"
           ELSE ArrayOf(CHOOSE t \in types : TRUE)

IsValidScalar(type, v) ==
  CASE type = "boolean" -> Class(v) = "bool"
    [] type \in Numerical -> IsNumber(v)
    [] type = "string" -> Class(v) = "str"
    [] type = "object" -> Class(v) = "dict"
    [] type = "file" -> Class(v) = "file"
    [] type = "none" -> Class(v) = "none"
    [] OTHER -> FALSE

\* _validate_array looks at all elements, at the first, or at none.
IsValidArray(type, v, look) ==
  /\ IsList(v)
  /\ \/ Items(v) = <<>> \/ type = "array[any]" \/ look = "none"
     \/ look = "first" /\ IsValidScalar(ElementType[type], Head(Items(v)))
     \/ look = "all" /\ \A x \in Range(Items(v)) : IsValidScalar(ElementType[type], x)

IsValid(type, v) ==
  IF type \in ArrayTypes THEN IsValidArray(type, v, "all") ELSE IsValidScalar(type, v)

ToInt(v) == IF Class(v) = "bool" THEN Whole(IF Content(v) THEN 1 ELSE 0) ELSE v

\* cast_value: booleans that stand where numbers are expected.
Cast(v, type) ==
  IF type \in {"integer", "number"} THEN ToInt(v)
  ELSE IF type = "array[number]" /\ IsList(v) /\ \A x \in Range(Items(v)) : Class(x) = "bool"
  THEN List([i \in DOMAIN Items(v) |-> ToInt(Items(v)[i])])
  ELSE v

\* Types without a zero value: file, array[file], none.
ZeroValue(type) ==
  CASE type \in ArrayTypes \ {"array[file]"} -> List(<<>>)
    [] type = "object" -> Dict(<<>>)
    [] type = "string" -> Str("")
    [] type \in {"integer", "number"} -> Whole(0)
    [] type = "float" -> Fraction(0)
    [] type = "boolean" -> Bool(FALSE)
    [] OTHER -> NoneValue

-----------------------------------------------------------------------------
(* build_segment_with_type: the type of the segment, or "mismatch".        *)

EmptyArrayType(type) == IF type \in ArrayTypes THEN type ELSE "mismatch"

MatchedType(type, inferred) ==
  IF inferred = type \/ (type = "number" /\ inferred \in {"integer", "float"}) THEN inferred ELSE "mismatch"

TypedAs(type, v) ==
  IF v = NoneValue THEN IF type = "none" THEN "none" ELSE "mismatch"
  ELSE IF v = List(<<>>) THEN EmptyArrayType(type)
  ELSE MatchedType(type, InferType(v))

\* What pydantic accepts for a variable of the type when a stored pool is read:
\* an integer may come as a whole float or a boolean.
Loadable(type, v) ==
  CASE type = "integer" -> IsNumber(v) /\ Halves(v) % 2 = 0
    [] type = "array[any]" -> IsList(v)
    [] type = "array[string]" -> IsList(v) /\ \A x \in Range(Items(v)) : Class(x) = "str"
    [] type = "array[number]" -> IsList(v) /\ \A x \in Range(Items(v)) : IsNumber(x)
    [] OTHER -> IsValid(type, v)

-----------------------------------------------------------------------------
(* The variable pool: node -> (name -> value), read by selectors.  The     *)
(* first two elements of a selector name a variable, further ones an       *)
(* attribute of a file or a path of keys.  A template's text is cut at its *)
(* references {{#node.name#}}; a part is kept as its words between dots.   *)

Nothing == <<>>            \* no segment
Segment(v) == <<v>>

\* add: only whole variables are stored.
Add(pool, selector, v) ==
  IF Len(selector) # 2 THEN pool
  ELSE LET names == IF selector[1] \in DOMAIN pool THEN pool[selector[1]] ELSE <<>>
       IN  (selector[1] :> ((selector[2] :> v) @@ names)) @@ pool

\* Variables of three sources get a selector under their source's name; those of a
\* RAG pipeline are gathered into one object per node, the last value of a name.
FromBootstrap(system, environment, conversation, rag) ==
  LET last(i) == \A j \in i + 1..Len(rag) : rag[j].node # rag[i].node \/ rag[j].name # rag[i].name
      places(node) == SelectSeq([i \in DOMAIN rag |-> i], LAMBDA i : rag[i].node = node /\ last(i))
      object(node) == Dict([k \in DOMAIN places(node) |-> <<rag[places(node)[k]].name, rag[places(node)[k]].value>>])
  IN  [sys |-> system, env |-> environment, conversation |-> conversation,
       rag |-> [node \in {r.node : r \in Range(rag)} |-> object(node)]]

Has(pool, selector) ==
  Len(selector) >= 2 /\ selector[1] \in DOMAIN pool /\ selector[2] \in DOMAIN pool[selector[1]]

Attributes == {"name", "url"}
FileAttribute(f, attr) == IF attr \in Attributes THEN Segment(Str(attr)) ELSE Nothing

KeyOf(v, key) ==
  IF Class(v) # "dict" THEN Nothing
  ELSE LET found == SelectSeq(Content(v), LAMBDA p : p[1] = key)
       IN  IF found = <<>> THEN Nothing ELSE Segment(found[1][2])

\* A path goes through objects; it does not enter a list.
Nested(v, path) ==
  FoldLeft(LAMBDA seg, key : IF seg = Nothing THEN Nothing ELSE KeyOf(seg[1], key), Segment(v), path)

\* A slip: a path of several keys is cut to its first.
GetFirstKey(pool, selector) ==
  IF ~Has(pool, selector) THEN Nothing
  ELSE LET v == pool[selector[1]][selector[2]]
       IN  IF Len(selector) = 2 THEN Segment(v)
           ELSE IF Class(v) = "file" THEN FileAttribute(v, selector[3]) ELSE KeyOf(v, selector[3])

Get(pool, selector) ==
  IF ~Has(pool, selector) THEN Nothing
  ELSE LET v == pool[selector[1]][selector[2]]
           path == SubSeq(selector, 3, Len(selector))
       IN  IF path = <<>> THEN Segment(v)
           ELSE IF Class(v) = "file" THEN FileAttribute(v, path[1])
           ELSE Nested(v, path)

GetVariable(pool, selector) ==
  IF Len(selector) = 2 /\ Has(pool, selector) THEN Segment(pool[selector[1]][selector[2]]) ELSE Nothing

\* remove: all of a node, or one variable; an unknown node gets an empty entry.
Removed(pool, selector) ==
  CASE selector = <<>> -> pool
    [] Len(selector) = 1 -> (selector[1] :> <<>>) @@ pool
    [] OTHER -> LET names == IF selector[1] \in DOMAIN pool THEN pool[selector[1]] ELSE <<>>
                IN  (selector[1] :> [n \in DOMAIN names \ {selector[2]} |-> names[n]]) @@ pool

\* convert_template: a part with a dot, be it a reference or not, is looked up.
RenderedPart(pool, part) ==
  IF Len(part.words) > 1 /\ Get(pool, part.words) # Nothing
  THEN Get(pool, part.words)[1] ELSE <<"text", part.words>>
ConvertTemplate(pool, parts) == [i \in DOMAIN parts |-> RenderedPart(pool, parts[i])]

GetByPrefix(pool, prefix) == IF prefix \in DOMAIN pool THEN pool[prefix] ELSE <<>>

\* flatten: one name for each variable; those of one node may go without prefix.
Flatten(pool, unprefixed) ==
  LET selectors == {<<n, v>> : n \in DOMAIN pool, v \in UNION {DOMAIN pool[m] : m \in DOMAIN pool}}
      stored == {s \in selectors : s[2] \in DOMAIN pool[s[1]]}
      named(s) == IF s[1] = unprefixed THEN <<s[2]>> ELSE s
  IN  {[name |-> named(s), value |-> pool[s[1]][s[2]]] : s \in stored}

-----------------------------------------------------------------------------
\* The two ways the program finds the type of a value agree (but for an empty
\* list), and a value is valid for its own type and can be loaded as such.
FindsOneType(v) ==
  /\ BuiltType(v) = InferType(v) \/ v = List(<<>>)
  /\ IsValid(BuiltType(v), v) /\ Loadable(BuiltType(v), v)

\* A value that is taken for a type is valid for it; and what is valid for the
\* type it is built for is taken once it has been cast, unless numbers and
\* booleans are mixed, a number is of the other kind, or any list is meant.
TakesWhatIsValid(type, v) ==
  LET taken == TypedAs(type, Cast(v, type)) # "mismatch"
  IN  /\ taken => IsValid(type, v)
      /\ IsValid(type, v) => \/ taken
                             \/ type = "array[any]"
                             \/ type \in {"integer", "float"}
                             \/ type = "array[number]" /\ "bool" \in {Class(x) : x \in Range(Items(v))}
      /\ ZeroValue(type) # NoneValue => TypedAs(type, ZeroValue(type)) # "mismatch"

\* What is stored is read back whole and key by key, until it is removed; nothing
\* else changes, and what can be read by its selector is also found under its node.
PoolKeeps(pool, selector, v) ==
  LET with == Add(pool, selector, v)
      without == Removed(with, selector)
      others == {s \in {<<n, x>> : n \in DOMAIN pool, x \in UNION {DOMAIN pool[m] : m \in DOMAIN pool}} : s # selector}
  IN  /\ Get(with, selector) = Segment(v) /\ GetVariable(with, selector) = Segment(v)
      /\ Class(v) = "dict" =>
           \A i \in DOMAIN Content(v) :
             LET key == Content(v)[i][1]
                 inner == Content(v)[i][2]
             IN  /\ Get(with, selector \o <<key>>) = Segment(inner)
                 /\ Class(inner) = "dict" =>
                      \A j \in DOMAIN Content(inner) :
                        Get(with, selector \o <<key, Content(inner)[j][1]>>) = Segment(Content(inner)[j][2])
      /\ Get(without, selector) = Nothing
      /\ \A s \in others : Get(with, s) = Get(pool, s) /\ Get(without, s) = Get(pool, s)
      /\ GetByPrefix(with, selector[1])[selector[2]] = v
      /\ [name |-> selector, value |-> v] \in Flatten(with, "")

\* A template shows a value for each reference that can be resolved and leaves its
\* text as it is, unless a piece of the text reads like a selector.
TemplateIsFilled(pool, parts) ==
  LET rendered == ConvertTemplate(pool, parts)
  IN  \A i \in DOMAIN parts :
        IF parts[i].reference /\ Get(pool, parts[i].words) # Nothing
        THEN rendered[i] = Get(pool, parts[i].words)[1]
        ELSE Get(pool, parts[i].words) = Nothing => rendered[i] = <<"text", parts[i].words>>
=============================================================================
