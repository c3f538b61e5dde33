------------------------------- MODULE Conditions -------------------------------
(***************************************************************************)
(* Conditions of branching nodes and loops, and the list operator, which   *)
(* compares the elements of a list.  A condition compares one variable     *)
(* with what is expected; several are joined under "and" and "or".         *)
(* The outcome of a comparison is true, false, or an exception.  A text is *)
(* a sequence of letters; one that reads as a number is a Numeral.         *)
(***************************************************************************)
EXTENDS PyValues

Outcome(b) == IF b THEN "true" ELSE "false"
Negated(o) == CASE o = "true" -> "false" [] o = "false" -> "true" [] OTHER -> o

\* The text of a number, written with a point or without, says which number it is.
Numeral(letters, halves, point) == <<"str", letters, halves, point>>
IsNumeral(v) == Class(v) = "str" /\ Len(v) = 4
Amount(numeral) == numeral[3]
HasPoint(numeral) == numeral[4]
Text(letters) == <<"str", letters>>
\* Values other than texts, as str() gives them, are a letter of their own.
Letters(v) == IF Class(v) = "str" THEN Content(v) ELSE <<Class(v)>>

Falsy(v) ==
  \/ v = NoneValue \/ v = Bool(FALSE) \/ v = Text(<<>>) \/ v = List(<<>>) \/ v = Dict(<<>>)
  \/ Class(v) \in {"int", "float"} /\ Halves(v) = 0

Part(part, whole) == \E i, j \in 1..Len(whole) + 1 : SubSeq(whole, i, j - 1) = part
StartsWith(whole, part) == Len(part) <= Len(whole) /\ SubSeq(whole, 1, Len(part)) = part
EndsWith(whole, part) == Len(part) <= Len(whole) /\ SubSeq(whole, Len(whole) - Len(part) + 1, Len(whole)) = part

-----------------------------------------------------------------------------
(* Comparisons.                                                            *)

\* Texts and lists; what else is not empty is refused.
Includes(v, e) ==
  CASE Falsy(v) -> "false"
    [] ~Falsy(v) /\ Class(v) = "str" -> Outcome(Part(Letters(e), Content(v)))
    [] ~Falsy(v) /\ IsList(v) -> Outcome(e \in Range(Items(v)))
    [] OTHER -> "raises"
NotIncludes(v, e) == Negated(Includes(v, e))

OfTexts(op, v, e) ==
  IF Falsy(v) THEN "false"
  ELSE IF Class(v) # "str" \/ Class(e) # "str" THEN "raises"
       ELSE Outcome(IF op = "start with" THEN StartsWith(Content(v), Content(e)) ELSE EndsWith(Content(v), Content(e)))

\* None is neither something nor is it not.
Is(v, e) == IF v = NoneValue THEN "false" ELSE IF Class(v) \in {"str", "bool"} THEN Outcome(v = e) ELSE "raises"
IsNot(v, e) == IF v = NoneValue THEN "false" ELSE Negated(Is(v, e))

In(v, e) == IF Falsy(v) THEN "false" ELSE IF IsList(e) THEN Outcome(v \in Range(Items(e))) ELSE "raises"
NotIn(v, e) == Negated(In(v, e))

AllOf(v, e) ==
  CASE ~IsList(e) \/ ~\E class \in {"str", "bool"} : \A x \in Range(Items(e)) : Class(x) = class -> "raises"
    [] IsList(e) /\ (Falsy(v) \/ Class(v) \notin {"list", "str"}) -> "false"
    [] IsList(e) /\ Class(v) = "str" -> Outcome(\A x \in Range(Items(e)) : Class(x) = "str" /\ Part(Content(x), Content(v)))
    [] OTHER -> Outcome(Range(Items(e)) \subseteq Range(Items(v)))

\* Equality turns what is expected into the class of the value, int() refusing a
\* point; every text but the empty one is True.
EqualTo(v, e) ==
  CASE v = NoneValue -> "false"
    [] Class(v) = "bool" -> IF Class(e) \in {"bool", "int", "str"} THEN Outcome(Content(v) = ~Falsy(e)) ELSE "raises"
    [] Class(v) = "int" -> IF (IsNumeral(e) /\ ~HasPoint(e)) \/ IsNumber(e)
                           THEN Outcome(Content(v) = (IF IsNumeral(e) THEN Amount(e) ELSE Halves(e)) \div 2)
                           ELSE "raises"
    [] Class(v) = "float" -> IF IsNumeral(e) THEN Outcome(Content(v) = Amount(e))
                             ELSE IF IsNumber(e) THEN Outcome(Content(v) = Halves(e)) ELSE "raises"
    [] OTHER -> "raises"
NotEqualTo(v, e) == IF v = NoneValue THEN "false" ELSE Negated(EqualTo(v, e))

\* A slip: at most is taken for less than.
OrderedStrictly(op, v, e) ==
  CASE v = NoneValue -> "false"
    [] v # NoneValue /\ (~IsNumber(v) \/ ~(IsNumeral(e) \/ IsNumber(e))) -> "raises"
    [] OTHER -> LET expected == IF IsNumeral(e) THEN Amount(e) ELSE Halves(e)
                IN  Outcome(IF op \in {">", ">="} THEN Halves(v) > expected ELSE Halves(v) < expected)

\* Order compares numbers as they are written.
Ordered(op, v, e) ==
  CASE v = NoneValue -> "false"
    [] v # NoneValue /\ (~IsNumber(v) \/ ~(IsNumeral(e) \/ IsNumber(e))) -> "raises"
    [] OTHER -> LET value == Halves(v)
                    expected == IF IsNumeral(e) THEN Amount(e) ELSE Halves(e)
                IN  Outcome(CASE op = ">" -> value > expected [] op = "<" -> value < expected
                              [] op = ">=" -> value >= expected [] op = "<=" -> value <= expected)

Evaluate(op, v, e) ==
  CASE op = "contains" -> Includes(v, e) [] op = "not contains" -> NotIncludes(v, e)
    [] op \in {"start with", "end with"} -> OfTexts(op, v, e)
    [] op = "is" -> Is(v, e) [] op = "is not" -> IsNot(v, e)
    [] op = "empty" -> Outcome(Falsy(v)) [] op = "not empty" -> Outcome(~Falsy(v))
    [] op = "=" -> EqualTo(v, e) [] op = "#" -> NotEqualTo(v, e)
    [] op \in {">", "<", ">=", "<="} -> Ordered(op, v, e)
    [] op \in {"null", "not exists"} -> Outcome(v = NoneValue) [] op \in {"not null", "exists"} -> Outcome(v # NoneValue)
    [] op = "in" -> In(v, e) [] op = "not in" -> NotIn(v, e)
    [] op = "all of" -> AllOf(v, e)

-----------------------------------------------------------------------------
(* Lists of conditions.                                                    *)

\* What is expected of a boolean is turned into one; a text must be true, false or
\* a whole number.
ToBool(e) ==
  CASE Class(e) = "bool" -> e
    [] e \in {Text(<<"true">>), Text(<<"false">>)} -> Bool(Content(e) = <<"true">>)
    [] IsNumeral(e) /\ ~HasPoint(e) -> Bool(Amount(e) # 0)
    [] OTHER -> <<"error", "">>
Prepared(v, e) ==
  IF e = NoneValue \/ InferType(v) \notin {"boolean", "array[boolean]"} THEN e
  ELSE IF IsList(e) THEN List([i \in DOMAIN Items(e) |-> ToBool(Items(e)[i])]) ELSE ToBool(e)
CannotPrepare(e) == Class(e) = "error" \/ (IsList(e) /\ \E x \in Range(Items(e)) : Class(x) = "error")

\* The files of a list, one attribute of each (extensions with their dot): "not"
\* asks all of them, other operators one.  No file is passed over, nor a condition.
SubOutcome(files, sub) ==
  LET results == {Evaluate(sub.op, f, sub.value) : f \in Range(files)}
  IN  CASE "raises" \in results -> "raises"
        [] "raises" \notin results /\ sub.op \in {"not contains", "is not", "not in", "not empty", "not null", "not exists"} ->
             Outcome("false" \notin results)
        [] OTHER -> Outcome("true" \in results)

Joined(operator, outcomes) ==
  IF operator = "and" THEN Outcome("false" \notin Range(outcomes)) ELSE Outcome("true" \in Range(outcomes))
SubConditions(files, subs, operator) ==
  LET outcomes == [i \in DOMAIN subs |-> SubOutcome(files, subs[i])]
  IN  IF "raises" \in Range(outcomes) THEN "raises" ELSE Joined(operator, outcomes)

\* A condition on a variable of the pool; one that is missing raises.
ConditionOutcome(pool, c) ==
  IF c.variable \notin DOMAIN pool THEN "raises"
  ELSE LET v == pool[c.variable]
       IN  IF InferType(v) = "array[file]" /\ c.op \in {"contains", "not contains", "all of"}
           THEN IF c.subs = <<>> THEN "raises"
                ELSE SubConditions([i \in DOMAIN Items(v) |-> Content(Items(v)[i])], c.subs, c.joined)
           ELSE LET e == IF c.op \in {"exists", "not exists"} THEN NoneValue ELSE Prepared(v, c.value)
                IN  IF CannotPrepare(e) THEN "raises" ELSE Evaluate(c.op, v, e)

\* A slip: the last condition decides.
LastCondition(pool, conditions, operator) ==
  FoldLeft(LAMBDA acc, c : ConditionOutcome(pool, c), Outcome(operator = "and"), conditions)

\* One condition after the other until the result is certain.
ProcessConditions(pool, conditions, operator) ==
  LET decided(o) == o = "raises" \/ o = (IF operator = "and" THEN "false" ELSE "true")
      next(acc, c) == IF decided(acc) THEN acc ELSE ConditionOutcome(pool, c)
  IN  FoldLeft(next, Outcome(operator = "and"), conditions)

\* An if-else node goes the way of its first case that holds; what raises fails it.
IfElse(pool, cases) ==
  LET outcomes == [i \in DOMAIN cases |-> ProcessConditions(pool, cases[i].conditions, cases[i].operator)]
      reached == SelectSeq([i \in DOMAIN cases |-> i], LAMBDA i : outcomes[i] # "false")
  IN  IF reached = <<>> THEN "false"
      ELSE IF outcomes[reached[1]] = "raises" THEN "failed" ELSE cases[reached[1]].id

-----------------------------------------------------------------------------
Opposites == {<<"contains", "not contains">>, <<"is", "is not">>, <<"=", "#">>, <<"<", ">=">>, <<">", "<=">>,
              <<"in", "not in">>, <<"empty", "not empty">>, <<"null", "not null">>, <<"exists", "not exists">>}

\* Of two opposite comparisons exactly one holds, unless both raise or there is no
\* value; and equality agrees with order, but for the booleans, for which equality
\* asks only whether a text is empty, and for texts with a point, which it refuses.
\* What a text starts or ends with it contains, if it reads as a number or not.
ComparisonsAgree(v, e) ==
  /\ \A pair \in Opposites :
       LET outcomes == [op \in Range(pair) |-> Evaluate(op, v, e)]
           yes == outcomes[pair[1]]
           no == outcomes[pair[2]]
       IN  no = Negated(yes) \/ (v = NoneValue /\ yes = "false" /\ no = "false")
  /\ \A op \in {"start with", "end with"} : OfTexts(op, v, e) = "true" => Includes(v, e) = "true"
  /\ Class(v) \in {"int", "float"} /\ (IsNumeral(e) \/ IsNumber(e)) =>
       LET equal == EqualTo(v, e)
           between == \A op \in {"<=", ">="} : Ordered(op, v, e) = "true"
       IN  IF Class(v) = "int" /\ IsNumeral(e) /\ HasPoint(e) THEN equal = "raises"
           ELSE IF Class(v) = "int" /\ Class(e) = "float" THEN between => equal = "true"
           ELSE equal = Outcome(between)

\* The order of conditions does not matter, unless one of them raises and whether
\* it is reached depends on it; without exceptions the result is the logical one.
OrderIsIrrelevant(pool, conditions, operator, outcome) ==
  LET outcomes == [i \in DOMAIN conditions |-> ConditionOutcome(pool, conditions[i])]
      certain == IF operator = "and" THEN "false" ELSE "true"
  IN  /\ "raises" \notin Range(outcomes) =>
           /\ outcome = Joined(operator, outcomes)
           /\ outcome = ProcessConditions(pool, Reverse(conditions), operator)
      /\ outcome = "raises" => "raises" \in Range(outcomes)
      /\ certain \notin Range(outcomes) /\ "raises" \in Range(outcomes) => outcome = "raises"

\* The way that is taken is the first whose conditions hold, all or one of them,
\* whatever later ones would raise; no node fails unless a condition raises, and none
\* goes the other way when a case holds that can be decided.
BranchIsFirst(pool, cases, way) ==
  LET outcomes(i) == [k \in DOMAIN cases[i].conditions |-> ConditionOutcome(pool, cases[i].conditions[k])]
      clear(i) == "raises" \notin Range(outcomes(i))
      holds(i) == clear(i) /\ Joined(cases[i].operator, outcomes(i)) = "true"
  IN  /\ \A i \in DOMAIN cases :
           holds(i) /\ (\A j \in 1..i - 1 : clear(j) /\ ~holds(j)) => way = cases[i].id
      /\ way = "failed" => \E i \in DOMAIN cases : ~clear(i)
      /\ way = "false" => \A i \in DOMAIN cases : ~holds(i)

-----------------------------------------------------------------------------
(* The list operator node: filter, extract, order and limit a list of      *)
(* strings, numbers, booleans or files, always in this order.  A record is *)
(* [id, keys]; what it is compared by (the value itself, or an attribute   *)
(* of a file) is a key: a text, a number or a boolean.                     *)

Done(records) == [status |-> "succeeded", records |-> records]
Failed == [status |-> "failed", records |-> <<>>]      \* a ListOperatorError
Raised == [status |-> "raised", records |-> <<>>]      \* any other exception
Ran(o) == o.status = "succeeded"

-----------------------------------------------------------------------------
(* Filter.                                                                 *)

StringFilter(op, key, value) ==
  CASE op \in {"contains", "not contains"} -> (op = "contains") = Part(value, key)
    [] op \in {"is", "is not"} -> (op = "is") = (key = value)
    [] op \in {"in", "not in"} -> (op = "in") = Part(key, value)
    [] op \in {"empty", "not empty"} -> (op = "empty") = (key = <<>>)
    [] op = "start with" -> StartsWith(key, value)
    [] op = "end with" -> EndsWith(key, value)
StringOperators == {"contains", "not contains", "is", "is not", "in", "not in", "empty", "not empty", "start with", "end with"}

NumberFilter(op, key, value) ==
  CASE op = "=" -> key = value [] op = "#" -> key # value [] op = "<" -> key < value [] op = "<=" -> key <= value
    [] op = ">" -> key > value [] op = ">=" -> key >= value
NumberOperators == {"=", "#", "<", "<=", ">", ">="}

\* What an attribute of a file is compared as.
KindOf(kind, attribute) ==
  CASE kind # "file" -> kind
    [] kind = "file" /\ attribute = "size" -> "number"
    [] kind = "file" /\ attribute \in {"name", "extension", "mime_type", "url", "related_id"} -> "string"
    [] kind = "file" /\ attribute \in {"type", "transfer_method"} -> "choice"
    [] OTHER -> "unknown"

\* One condition.  An operator of another kind is an error of the node; a value of
\* another class is one for texts, else an exception.  For files an operator comes
\* to light when there is a file to look at.
Filtered(kind, c, records) ==
  LET as == KindOf(kind, c.attribute)
      kept(test(_)) == Done(SelectSeq(records, LAMBDA r : test(r.keys[c.attribute])))
      text == Class(c.value) = "str"
      looks == kind # "file" \/ records # <<>>
      among(k) == IF text THEN Part(k, Content(c.value)) ELSE Text(k) \in Range(Items(c.value))
      refused == kind = "file" /\ Class(c.value) = "bool"
  IN  CASE refused -> Raised
        [] ~refused /\ as = "unknown" -> Failed
        [] ~refused /\ as = "boolean" ->
             IF Class(c.value) # "bool" THEN Raised
             ELSE IF c.op \notin {"is", "is not"} THEN Failed
             ELSE kept(LAMBDA k : (c.op = "is") = (k = Content(c.value)))
        [] ~refused /\ as = "choice" ->
             IF looks /\ c.op \notin {"in", "not in"} THEN Failed ELSE kept(LAMBDA k : (c.op = "in") = among(k))
        [] ~refused /\ as = "string" ->
             IF ~text \/ (looks /\ c.op \notin StringOperators) THEN Failed
             ELSE kept(LAMBDA k : StringFilter(c.op, k, Content(c.value)))
        [] ~refused /\ as = "number" ->
             IF ~text THEN Failed
             ELSE IF ~looks THEN Done(records)
             ELSE IF ~IsNumeral(c.value) THEN Raised
             ELSE IF c.op \notin NumberOperators THEN Failed
             ELSE kept(LAMBDA k : NumberFilter(c.op, k, Amount(c.value)))

Filter(kind, conditions, records) ==
  FoldLeft(LAMBDA o, c : IF Ran(o) THEN Filtered(kind, c, o.records) ELSE o, Done(records), conditions)

-----------------------------------------------------------------------------
(* Extract, order, limit.                                                  *)

\* A slip: the serial counts from 0.
ExtractFromZero(serial, records) ==
  IF ~IsNumeral(serial) \/ HasPoint(serial) \/ Amount(serial) < 0 THEN Raised
  ELSE LET i == Amount(serial) \div 2 + 1 IN IF i > Len(records) THEN Failed ELSE Done(<<records[i]>>)

\* The serial counts from 1; int() refuses a point, and 0 is no ListOperatorError.
Extract(serial, records) ==
  IF ~IsNumeral(serial) \/ HasPoint(serial) \/ Amount(serial) < 2 THEN Raised
  ELSE LET i == Amount(serial) \div 2 IN IF i > Len(records) THEN Failed ELSE Done(<<records[i]>>)

\* Texts are compared letter by letter.
Rank(letter) == CASE letter = "a" -> 1 [] letter = "b" -> 2 [] OTHER -> 3
Less(kind, a, b) ==
  CASE kind = "number" -> a < b
    [] kind = "boolean" -> b /\ ~a
    [] OTHER -> \E n \in 0..Len(b) - 1 :
                  /\ n <= Len(a) /\ SubSeq(a, 1, n) = SubSeq(b, 1, n)
                  /\ n = Len(a) \/ (n < Len(a) /\ Rank(a[n + 1]) < Rank(b[n + 1]))

\* sorted(): stable, and stable in reverse too.
Order(kind, order, records) ==
  LET as == KindOf(kind, order.attribute)
      before(i, j) ==
        LET a == records[i].keys[order.attribute]
            b == records[j].keys[order.attribute]
            first == IF order.descending THEN Less(as, b, a) ELSE Less(as, a, b)
            last == IF order.descending THEN Less(as, a, b) ELSE Less(as, b, a)
        IN  first \/ (~last /\ i < j)
  IN  IF as = "unknown" THEN Failed
      ELSE Done([p \in DOMAIN records |-> records[CHOOSE i \in DOMAIN records : Cardinality({j \in DOMAIN records : before(j, i)}) = p - 1]])

\* A Python slice: a negative size leaves as many out at the end.
Limit(size, records) ==
  SubSeq(records, 1, IF size < 0 THEN (IF Len(records) + size < 0 THEN 0 ELSE Len(records) + size)
                     ELSE IF size < Len(records) THEN size ELSE Len(records))

-----------------------------------------------------------------------------
(* The node.  Each step of the configuration is enabled or absent.         *)

Present(option) == option # <<>>

Listed(config, kind, records) ==
  LET filtered == Filter(kind, config.filter, records)
      extracted == IF Ran(filtered) /\ Present(config.extract) THEN Extract(config.extract[1], filtered.records) ELSE filtered
      ordered == IF Ran(extracted) /\ Present(config.order) THEN Order(kind, config.order[1], extracted.records) ELSE extracted
  IN  IF Ran(ordered) /\ Present(config.limit) THEN Done(Limit(config.limit[1], ordered.records)) ELSE ordered

\* Nothing is done to an empty value; lists of other types are refused.
RunListOperator(config, kind, records) ==
  IF records = <<>> THEN Done(<<>>)
  ELSE IF kind \notin {"string", "number", "boolean", "file"} THEN Failed
  ELSE Listed(config, kind, records)

Records(o) == [first |-> IF o.records = <<>> THEN <<>> ELSE <<Head(o.records)>>,
               last |-> IF o.records = <<>> THEN <<>> ELSE <<o.records[Len(o.records)]>>]

-----------------------------------------------------------------------------
\* Whatever is configured, the result holds records of the list, each as often as
\* there: those that pass all filters, in an order that respects the key and, among
\* equals, that of the list; the extracted one is the serial-th that passed.  A
\* limit shows no more records than it says (the default of -1 drops the last).
ListIsKept(config, kind, records, o) ==
  LET ids(s) == [i \in DOMAIN s |-> s[i].id]
      passed == Filter(kind, config.filter, records).records
      place(r) == CHOOSE i \in DOMAIN records : records[i].id = r.id
  IN  Ran(o) /\ records # <<>> =>
        /\ IsInjective(ids(o.records)) /\ Range(o.records) \subseteq Range(passed)
        /\ config.order = <<>> => \A i, j \in DOMAIN o.records : i < j => place(o.records[i]) < place(o.records[j])
        /\ config.order # <<>> =>
             \A i, j \in DOMAIN o.records : i < j =>
               LET key(r) == r.keys[config.order[1].attribute]
                   as == KindOf(kind, config.order[1].attribute)
                   a == key(o.records[i])
                   b == key(o.records[j])
               IN  /\ ~(IF config.order[1].descending THEN Less(as, a, b) ELSE Less(as, b, a))
                   /\ a = b => place(o.records[i]) < place(o.records[j])
        /\ config.extract # <<>> /\ config.limit = <<>> =>
             LET serial == Amount(config.extract[1]) \div 2
             IN  serial \in DOMAIN passed /\ o.records = <<passed[serial]>>
        /\ config.extract = <<>> /\ config.limit = <<>> => Range(o.records) = Range(passed)
        /\ config.limit # <<>> /\ config.limit[1] >= 0 => Len(o.records) <= config.limit[1]
        /\ Records(o).first # <<>> => Records(o).first[1] \in Range(records)
=============================================================================
