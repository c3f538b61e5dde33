-------------------------- MODULE VariableAssigner --------------------------
(***************************************************************************)
(* Nodes that assign to variables of the workflow.  A node works on a copy *)
(* of the variable pool (version 2) or on the pool itself (version 1) and  *)
(* asks for its updates by events; the dispatcher writes them to the pool  *)
(* when it gets to them, whole values.  Nodes run in threads of their own, *)
(* and other nodes' outputs are added to the pool meanwhile.               *)
(***************************************************************************)
EXTENDS PyValues

CONSTANTS
  Assigners,   \* the nodes
  Programs     \* what a node may be set to do

VARIABLES
  program,   \* node -> [version, items]
  pool,      \* variable -> [type, value]
  step,      \* node -> idle, copying, applying, emitting, ended, done, failed
  uncopied,  \* node -> variables deepcopy has still to visit
  working,   \* node -> its copy of the pool
  updates,   \* node -> variables it has still to ask for
  events,    \* updates and results on their way to the dispatcher
  before,    \* history: node -> the pool when it began
  after,     \* history: node -> the pool when its success was dispatched
  alone      \* history: nodes since whose beginning nobody else has written

assignerVars == <<program, pool, step, uncopied, working, updates, events, before, after, alone>>

NoPool == <<>>
Output == "output"   \* the variable another node stores

InitialPool ==
  [v \in {"n", "l", "f"} |->
     CASE v = "n" -> [type |-> "integer", value |-> Whole(4)]
       [] v = "l" -> [type |-> "array[number]", value |-> List(<<Whole(1)>>)]
       [] v = "f" -> [type |-> "float", value |-> Fraction(1)]]

AssignerInit ==
  /\ program \in [Assigners -> Programs] /\ pool = InitialPool
  /\ step = [n \in Assigners |-> "idle"] /\ uncopied = [n \in Assigners |-> {}]
  /\ working = [n \in Assigners |-> NoPool] /\ updates = [n \in Assigners |-> <<>>]
  /\ before = [n \in Assigners |-> NoPool] /\ after = [n \in Assigners |-> NoPool]
  /\ events = <<>> /\ alone = {}

-----------------------------------------------------------------------------
(* One operation on a variable.                                            *)

NoValueOperations == {"clear", "remove-first", "remove-last"}
Arithmetic == {"+=", "-=", "*=", "/="}

IsSupported(type, op) ==
  CASE op \in {"over-write", "clear"} -> TRUE
    [] op = "set" -> type \in Numerical \cup {"object", "string", "boolean"}
    [] op \in Arithmetic -> type \in Numerical
    [] OTHER -> type \in ArrayTypes

\* Where the value may come from.
InputIsSupported(type, op, input) ==
  IF input = "variable" THEN op # "set" /\ op \notin Arithmetic
  ELSE \/ op \in {"over-write", "set"} /\ type \notin ArrayTypes
       \/ op \in Arithmetic /\ type \in Numerical

IsElement(type, v) == IF type = "array[any]" THEN Class(v) \in {"str", "bool", "int", "float", "dict"}
                      ELSE type # "array[file]" /\ IsValidScalar(ElementType[type], v)

ValueIsValid(type, op, v) ==
  CASE op \in NoValueOperations -> TRUE
    [] type \in Numerical -> IsNumber(v) /\ ~(op = "/=" /\ Halves(v) = 0)
    [] type \in ArrayTypes /\ op = "append" -> IsElement(type, v)
    [] type \in ArrayTypes /\ op \in {"extend", "over-write"} ->
         IsList(v) /\ \A x \in Range(Items(v)) : IsElement(type, x)
    [] OTHER -> type \in {"string", "boolean", "object"} /\ IsValidScalar(type, v)

\* Python arithmetic: int with int stays int but for "/".
Computed(op, a, b) ==
  LET exact == CASE op = "+=" -> Halves(a) + Halves(b) [] op = "-=" -> Halves(a) - Halves(b)
                 [] op = "*=" -> (Halves(a) * Halves(b)) \div 2 [] op = "/=" -> (2 * Halves(a)) \div Halves(b)
  IN  IF op # "/=" /\ "float" \notin {Class(a), Class(b)} THEN Whole(exact \div 2) ELSE Fraction(exact)

Handled(var, op, v) ==
  CASE op \in {"over-write", "set"} -> v
    [] op = "clear" -> ZeroValue(var.type)
    [] op = "append" -> List(Append(Items(var.value), v))
    [] op = "extend" -> List(Items(var.value) \o Items(v))
    [] op \in Arithmetic -> Computed(op, var.value, v)
    [] op = "remove-first" -> IF var.value = List(<<>>) THEN var.value ELSE List(Tail(Items(var.value)))
    [] op = "remove-last" -> IF var.value = List(<<>>) THEN var.value ELSE List(Front(Items(var.value)))

\* An item's value: itself, or what the copy has for the variable it names; for
\* an object it may be its text.
ReadsVariable(item) == item.input = "variable" /\ item.op \notin NoValueOperations
InputOf(item, p) ==
  CASE item.op \in NoValueOperations -> NoneValue
    [] ReadsVariable(item) -> p[item.value].value
    [] item.op = "set" /\ p[item.target].type = "object" /\ item.value = Str("{}") -> Dict(<<>>)
    [] OTHER -> item.value

Unsupported(item, p) ==
  \/ item.target \notin DOMAIN p
  \/ ~IsSupported(p[item.target].type, item.op)
  \/ ~InputIsSupported(p[item.target].type, item.op, item.input)
  \/ ReadsVariable(item) /\ item.value \notin DOMAIN p

\* Python refuses to compute with what version 1 wrote over a variable (that a
\* list can be multiplied is left out).
CannotCompute(var, op) ==
  \/ op \in Arithmetic /\ ~IsNumber(var.value)
  \/ op \in {"append", "extend", "remove-first", "remove-last"} /\ ~IsList(var.value)

\* _apply_item on a working pool, for all items; the first that is refused fails
\* the node, and one whose variable has no value is passed over.
AppliedTo(items, p) ==
  LET apply(acc, item) ==
        IF acc.failed \/ Unsupported(item, acc.pool) THEN [acc EXCEPT !.failed = TRUE]
        ELSE LET v == InputOf(item, acc.pool)
                 target == acc.pool[item.target]
             IN  IF ReadsVariable(item) /\ v = NoneValue THEN acc
                 ELSE IF ~ValueIsValid(target.type, item.op, v) \/ CannotCompute(target, item.op)
                 THEN [acc EXCEPT !.failed = TRUE]
                 ELSE [failed |-> FALSE, order |-> Append(acc.order, item.target),
                       pool |-> [acc.pool EXCEPT ![item.target].value = Handled(target, item.op, v)]]
  IN  FoldLeft(apply, [failed |-> FALSE, order |-> <<>>, pool |-> p], items)

\* Version 1: one assignment, of another variable's value or without one, unchecked.
AppliedV1(item, p) ==
  LET failed == \/ item.target \notin DOMAIN p
                \/ item.op # "clear" /\ item.value \notin DOMAIN p
                \/ item.op = "append" /\ p[item.target].type \notin ArrayTypes
      income == IF item.op = "clear" THEN ZeroValue(p[item.target].type) ELSE p[item.value].value
  IN  IF failed THEN [failed |-> TRUE, order |-> <<>>, pool |-> p]
      ELSE [failed |-> FALSE, order |-> <<item.target>>,
            pool |-> [p EXCEPT ![item.target].value =
                        IF item.op = "append" THEN List(Append(Items(@), income)) ELSE income]]

Effect(prog, p) == IF prog.version = 1 THEN AppliedV1(prog.items[1], p) ELSE AppliedTo(prog.items, p)

-----------------------------------------------------------------------------
(* Steps of a node.                                                        *)

\* Version 1 reads the pool as it is; what it refuses is raised.
RunV1(n) ==
  /\ step[n] = "idle" /\ program[n].version = 1
  /\ LET e == Effect(program[n], pool)
     IN  /\ working' = [working EXCEPT ![n] = e.pool]
         /\ updates' = [updates EXCEPT ![n] = e.order]
         /\ step' = [step EXCEPT ![n] = IF e.failed THEN "failing" ELSE "emitting"]
  /\ before' = [before EXCEPT ![n] = pool] /\ alone' = alone \cup {n}
  /\ UNCHANGED <<program, pool, uncopied, events, after>>

\* Version 2 begins to copy the pool.
Copy(n) ==
  /\ step[n] = "idle" /\ program[n].version = 2 /\ step' = [step EXCEPT ![n] = "copying"]
  /\ uncopied' = [uncopied EXCEPT ![n] = DOMAIN pool]
  /\ before' = [before EXCEPT ![n] = pool] /\ alone' = alone \cup {n}
  /\ UNCHANGED <<program, pool, working, updates, events, after>>

\* deepcopy visits one variable after the other, and raises when one was added.
CopyOne(n) ==
  /\ step[n] = "copying" /\ uncopied[n] # {}
  /\ IF DOMAIN pool # DOMAIN before[n]
     THEN /\ step' = [step EXCEPT ![n] = "ended"]
          /\ events' = Append(events, [kind |-> "failed", node |-> n])
          /\ UNCHANGED <<uncopied, working>>
     ELSE /\ \E v \in uncopied[n] :
               /\ uncopied' = [uncopied EXCEPT ![n] = @ \ {v}]
               /\ working' = [working EXCEPT ![n] = (v :> pool[v]) @@ @]
          /\ UNCHANGED <<step, events>>
  /\ UNCHANGED <<program, pool, updates, before, after, alone>>

\* A slip: what was applied before an item fails is asked for nevertheless.
ApplyUntilFailure(n) ==
  /\ step[n] = "copying" /\ uncopied[n] = {}
  /\ LET e == Effect(program[n], working[n])
     IN  /\ working' = [working EXCEPT ![n] = e.pool]
         /\ updates' = [updates EXCEPT ![n] = e.order]
         /\ step' = [step EXCEPT ![n] = IF e.failed THEN "failing" ELSE "emitting"]
  /\ UNCHANGED <<program, pool, uncopied, events, before, after, alone>>

\* All items are applied to the copy, then each variable is asked for once.
Apply(n) ==
  /\ step[n] = "copying" /\ uncopied[n] = {}
  /\ LET e == Effect(program[n], working[n])
     IN  /\ working' = [working EXCEPT ![n] = e.pool]
         /\ updates' = [updates EXCEPT ![n] = IF e.failed THEN <<>> ELSE e.order]
         /\ step' = [step EXCEPT ![n] = IF e.failed THEN "failing" ELSE "emitting"]
  /\ UNCHANGED <<program, pool, uncopied, events, before, after, alone>>

\* An update with the variable's last value, in the order of the first updates
\* (dict.fromkeys); after them the result.
Emit(n) ==
  /\ step[n] \in {"emitting", "failing"}
  /\ IF updates[n] # <<>>
     THEN LET v == Head(updates[n])
          IN  /\ events' = Append(events, [kind |-> "updated", node |-> n, name |-> v, variable |-> working[n][v]])
              /\ updates' = [updates EXCEPT ![n] = SelectSeq(@, LAMBDA w : w # v)]
              /\ UNCHANGED step
     ELSE /\ events' = Append(events, [kind |-> IF step[n] = "failing" THEN "failed" ELSE "succeeded", node |-> n])
          /\ step' = [step EXCEPT ![n] = "ended"] /\ UNCHANGED updates
  /\ UNCHANGED <<program, pool, uncopied, working, before, after, alone>>

\* The dispatcher: a variable that is updated is stored as it is.
Dispatch ==
  /\ events # <<>> /\ events' = Tail(events)
  /\ LET e == Head(events)
     IN  CASE e.kind = "updated" -> /\ pool' = [pool EXCEPT ![e.name] = e.variable]
                                    /\ alone' = alone \cap {e.node}
                                    /\ UNCHANGED <<step, after>>
           [] e.kind = "succeeded" -> /\ after' = [after EXCEPT ![e.node] = pool]
                                      /\ step' = [step EXCEPT ![e.node] = "done"]
                                      /\ UNCHANGED <<pool, alone>>
           [] e.kind = "failed" -> step' = [step EXCEPT ![e.node] = "failed"] /\ UNCHANGED <<pool, alone, after>>
  /\ UNCHANGED <<program, uncopied, working, updates, before>>

\* Another node succeeds: its output is added to the pool.
StoreOutput ==
  /\ Output \notin DOMAIN pool /\ \E n \in Assigners : step[n] = "copying"
  /\ pool' = (Output :> [type |-> "string", value |-> Str("x")]) @@ pool
  /\ alone' = {}
  /\ UNCHANGED <<program, step, uncopied, working, updates, events, before, after>>

AssignerStep ==
  \/ Dispatch \/ StoreOutput
  \/ \E n \in Assigners : RunV1(n) \/ Copy(n) \/ CopyOne(n) \/ Apply(n) \/ Emit(n)

-----------------------------------------------------------------------------
\* A node that fails leaves the pool alone.
FailureLeavesPool ==
  \A n \in Assigners : step[n] \in {"failing", "failed"} =>
    \A i \in DOMAIN events : events[i].kind = "updated" => events[i].node # n

\* A node nobody wrote beside has the effect of its items, one after the other,
\* on the pool it found.  (Two nodes that read and write one variable at the
\* same time may lose one update: each writes back a whole value.)
EffectOfItems ==
  \A n \in alone : after[n] # NoPool => after[n] = Effect(program[n], before[n]).pool

\* A pool can be read back from a snapshot, but for an integer that was divided
\* or set to a fraction, and what version 1 wrote or appended, whose type it does not
\* compare with the variable's.
PoolIsLoadable ==
  \A v \in DOMAIN pool :
    \/ Loadable(pool[v].type, pool[v].value)
    \/ pool[v].type = "integer" /\ Class(pool[v].value) = "float"
    \/ \E n \in Assigners : program[n].version = 1 /\ program[n].items[1].target = v /\ program[n].items[1].op # "clear"
=============================================================================
