----------------------------- MODULE Expressions -----------------------------
(***************************************************************************)
(* PromQL expressions (promql-parser/src/ast.rs), the types they evaluate  *)
(* to (promql-engine/src/value_type.rs), and what the engine refuses about *)
(* them before it runs any: the rules on binary operators (plan.rs         *)
(* check_expr) and on calls (function.rs check_call).                      *)
(*                                                                         *)
(* A node is a record with its kind and its operands.  Positions in the    *)
(* text are left out, and an Option is a sequence of at most one value.    *)
(***************************************************************************)
EXTENDS Integers, Sequences, FiniteSets, SequencesExt, FiniteSetsExt, Functions

CONSTANT NaN   \* a float that is no number

None == <<>>
Some(v) == <<v>>

MetricName == "__name__"

Selector(name, matchers) ==
  [kind |-> "selector", name |-> name, matchers |-> matchers, offset |-> 0,
   timestamp |-> None, startOrEnd |-> None, anchored |-> FALSE, smoothed |-> FALSE]
Number(val) == [kind |-> "number", val |-> val]
Text(val) == [kind |-> "string", val |-> val]
Paren(e) == [kind |-> "paren", expr |-> e]
Unary(op, e) == [kind |-> "unary", op |-> op, expr |-> e]
Binary(op, lhs, rhs, matching, returnBool) ==
  [kind |-> "binary", op |-> op, lhs |-> lhs, rhs |-> rhs, matching |-> matching,
   returnBool |-> returnBool]
Matrix(selector, range) == [kind |-> "matrix", selector |-> selector, range |-> range]
Subquery(e, range) ==
  [kind |-> "subquery", expr |-> e, range |-> range, offset |-> 0, timestamp |-> None,
   startOrEnd |-> None]
Call(name, args) == [kind |-> "call", name |-> name, args |-> args]
Aggregation(op, e, param, grouping, without) ==
  [kind |-> "aggregate", op |-> op, expr |-> e, param |-> param, grouping |-> grouping,
   without |-> without]

\* VectorMatching, as its Default has it.
DefaultMatching ==
  [card |-> "one_to_one", on |-> FALSE, labels |-> <<>>, include |-> <<>>,
   fillLeft |-> None, fillRight |-> None]

IsSetOp(op) == op \in {"and", "or", "unless"}
IsComparison(op) == op \in {"==", "!=", ">", "<", ">=", "<="}
HasFill(matching) == matching.fillLeft # None \/ matching.fillRight # None

\* Variant: a call's arguments and an aggregation's parameter are not walked.
OperandsOutsideCalls(e) ==
  CASE e.kind \in {"paren", "unary", "subquery"} -> <<e.expr>>
    [] e.kind = "matrix" -> <<e.selector>>
    [] e.kind = "binary" -> <<e.lhs, e.rhs>>
    [] e.kind = "aggregate" -> <<e.expr>>
    [] OTHER -> <<>>

\* What a node is made of, in the order check_expr goes through it.
Operands(e) ==
  CASE e.kind \in {"paren", "unary", "subquery"} -> <<e.expr>>
    [] e.kind = "matrix" -> <<e.selector>>
    [] e.kind = "binary" -> <<e.lhs, e.rhs>>
    [] e.kind = "call" -> e.args
    [] e.kind = "aggregate" -> e.param \o <<e.expr>>
    [] OTHER -> <<>>

\* The nodes an expression is checked in: each after what it is made of.
RECURSIVE Walk(_)
Walk(e) == FlattenSeq([n \in DOMAIN Operands(e) |-> Walk(Operands(e)[n])]) \o <<e>>

RECURSIVE Unwrapped(_)
Unwrapped(e) == IF e.kind = "paren" THEN Unwrapped(e.expr) ELSE e

\* The text of a query that is a string and nothing else.
StringLiteral(e) == IF Unwrapped(e).kind = "string" THEN Some(Unwrapped(e).val) ELSE None

-----------------------------------------------------------------------------
(***************************************************************************)
(* Types.  Of the table of functions, the rows the inputs call.            *)
(***************************************************************************)
Signature(args, variadic, returns) == [args |-> args, variadic |-> variadic, returns |-> returns]

Signatures ==
  [abs |-> Signature(<<"vector">>, 0, "vector"),
   absent |-> Signature(<<"vector">>, 0, "vector"),
   absent_over_time |-> Signature(<<"matrix">>, 0, "vector"),
   changes |-> Signature(<<"matrix">>, 0, "vector"),
   clamp |-> Signature(<<"vector", "scalar", "scalar">>, 0, "vector"),
   clamp_max |-> Signature(<<"vector", "scalar">>, 0, "vector"),
   count_over_time |-> Signature(<<"matrix">>, 0, "vector"),
   deriv |-> Signature(<<"matrix">>, 0, "vector"),
   last_over_time |-> Signature(<<"matrix">>, 0, "vector"),
   minute |-> Signature(<<"vector">>, 1, "vector"),
   pi |-> Signature(<<>>, 0, "scalar"),
   scalar |-> Signature(<<"vector">>, 0, "scalar"),
   sort |-> Signature(<<"vector">>, 0, "vector"),
   sort_by_label |-> Signature(<<"vector", "string">>, -1, "vector"),
   sum_over_time |-> Signature(<<"matrix">>, 0, "vector"),
   time |-> Signature(<<>>, 0, "scalar"),
   timestamp |-> Signature(<<"vector">>, 0, "vector"),
   vector |-> Signature(<<"scalar">>, 0, "vector")]

\* The names the table does not hold but holds in lower case.
Misspelled == {"ABS", "Sum_Over_Time"}

RECURSIVE ValueType(_)
ValueType(e) ==
  CASE e.kind \in {"selector", "aggregate"} -> "vector"
    [] e.kind \in {"matrix", "subquery"} -> "matrix"
    [] e.kind = "number" -> "scalar"
    [] e.kind = "string" -> "string"
    [] e.kind \in {"paren", "unary"} -> ValueType(e.expr)
    [] e.kind = "call" -> IF e.name \in DOMAIN Signatures THEN Signatures[e.name].returns ELSE "vector"
    [] e.kind = "binary" ->
         IF ValueType(e.lhs) = "scalar" /\ ValueType(e.rhs) = "scalar" THEN "scalar" ELSE "vector"

-----------------------------------------------------------------------------
(***************************************************************************)
(* Refusals.  A query that breaks several rules is refused for the first.  *)
(***************************************************************************)
QueryError(what) == [kind |-> "query", what |-> what]
UnsupportedError(what) == [kind |-> "unsupported", what |-> what]

FirstBroken(rules) ==
  LET broken == {n \in DOMAIN rules : rules[n].broken}
  IN  IF broken = {} THEN None ELSE Some(rules[Min(broken)].error)

Rule(broken, what) == [broken |-> broken, error |-> QueryError(what)]

\* check_binary.
BinaryRules(b) ==
  LET lhs == ValueType(b.lhs)
      rhs == ValueType(b.rhs)
      vectors == lhs = "vector" /\ rhs = "vector"
      matching == ToSet(b.matching)
  IN  <<Rule(b.returnBool /\ ~IsComparison(b.op), "bool on a non-comparison"),
        Rule(IsComparison(b.op) /\ ~b.returnBool /\ lhs = "scalar" /\ rhs = "scalar",
             "comparison between scalars without bool"),
        Rule(\E m \in matching : m.on /\ ToSet(m.include) \cap ToSet(m.labels) # {},
             "label in ON and GROUP clause"),
        Rule(~({lhs, rhs} \subseteq {"scalar", "vector"}), "operand types"),
        Rule(\E m \in matching : ~vectors /\ m.labels # <<>>, "matching of a scalar"),
        Rule(\E m \in matching : ~vectors /\ HasFill(m), "fill of a scalar"),
        Rule(\E m \in matching : vectors /\ IsSetOp(b.op) /\ m.card # "one_to_one",
             "grouping of a set operator"),
        Rule(\E m \in matching : vectors /\ IsSetOp(b.op) /\ HasFill(m), "fill of a set operator"),
        Rule(IsSetOp(b.op) /\ ~vectors, "set operator on a scalar")>>

CheckNode(e) == IF e.kind = "binary" THEN FirstBroken(BinaryRules(e)) ELSE None

\* check_expr: the first node of the tree that breaks a rule.
CheckExpr(e) ==
  LET nodes == Walk(e)
      bad == {n \in DOMAIN nodes : CheckNode(nodes[n]) # None}
  IN  IF bad = {} THEN None ELSE CheckNode(nodes[Min(bad)])

Arity(signature, given) ==
  LET least == Len(signature.args) - (IF signature.variadic = 0 THEN 0 ELSE 1)
  IN  /\ least <= given
      /\ signature.variadic >= 0 => given <= least + signature.variadic

\* The type the n-th argument is held to: past the declared ones, the last's.
Wanted(signature, n) == signature.args[Min({n, Len(signature.args)})]

\* check_call: the arity, then every argument's type.
CheckCall(c) ==
  IF c.name \notin DOMAIN Signatures
  THEN Some(IF c.name \in Misspelled THEN UnsupportedError("the function") ELSE QueryError("unknown function"))
  ELSE LET signature == Signatures[c.name]
       IN  IF ~Arity(signature, Len(c.args)) THEN Some(QueryError("arity"))
           ELSE IF \E n \in DOMAIN c.args : ValueType(c.args[n]) # Wanted(signature, n)
           THEN Some(QueryError("argument type"))
           ELSE None
=============================================================================
