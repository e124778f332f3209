------------------------------- MODULE Planner -------------------------------
(***************************************************************************)
(* Planning an expression over a step grid (promql-engine/src/plan.rs).    *)
(*                                                                         *)
(* Planning asks the store for every selector it meets, in the order it    *)
(* meets them, and stops at the first error; asked keeps what the store    *)
(* was asked by then.  A plan is a tree of nodes, with the label columns   *)
(* each answers with.  What a node answers is Execution's.                 *)
(*                                                                         *)
(* Times are integers, and time() is the time itself.  Numbers are         *)
(* integers and NaN.                                                       *)
(***************************************************************************)
EXTENDS Expressions, StepGrid

CONSTANTS
  LabelNames,        \* every label a store or an expression names
  MaxSteps,          \* aggregate::MAX_STEPS
  DefaultLookback,   \* RangeQuery::DEFAULT_LOOKBACK
  MinuteLength, HourLength   \* the calendar: seconds in a minute, minutes in an hour

-----------------------------------------------------------------------------
(***************************************************************************)
(* Operators on values (binary.rs Op) and functions of one (elementwise.rs)*)
(***************************************************************************)
Computed(op, x, y) ==
  IF x = NaN \/ y = NaN THEN NaN
  ELSE CASE op = "+" -> x + y [] op = "-" -> x - y [] op = "*" -> x * y

\* A NaN differs from everything and compares no other way.
Compares(op, x, y) ==
  IF x = NaN \/ y = NaN THEN op = "!="
  ELSE CASE op = "==" -> x = y [] op = "!=" -> x # y [] op = ">" -> x > y
         [] op = "<" -> x < y [] op = ">=" -> x >= y [] op = "<=" -> x <= y

\* Op::value: None for a sample that is left out.
OpValue(op, x, y, returnBool) ==
  IF ~IsComparison(op) THEN Some(Computed(op, x, y))
  ELSE IF returnBool THEN Some(IF Compares(op, x, y) THEN 1 ELSE 0)
  ELSE IF Compares(op, x, y) THEN Some(x) ELSE None

OpDropsName(op, returnBool) == ~IsSetOp(op) /\ (IsComparison(op) => returnBool)

AtMost(x, y) == IF x = NaN \/ y = NaN THEN NaN ELSE Min({x, y})
AtLeast(x, y) == IF x = NaN \/ y = NaN THEN NaN ELSE Max({x, y})

\* Of elementwise::Func, what the inputs call; "neg" is the sign's.
Elementwise == {"abs", "clamp", "clamp_max", "minute", "timestamp"}

\* Bound::clamp: a NaN bound is not inverted.
Crossed(low, high) == low # NaN /\ high # NaN /\ high < low

\* Func::bind: inverted bounds leave no sample of any row.
Inverted(func, args) == func = "clamp" /\ Crossed(args[1], args[2])

\* map_fn, where a NaN stays one.
MapFn(func, v) ==
  IF v = NaN THEN NaN
  ELSE CASE func = "abs" -> IF v < 0 THEN -v ELSE v
         [] func = "neg" -> -v
         [] func = "minute" -> (v \div MinuteLength) % HourLength

MapValue(func, args, t, v) ==
  CASE func = "timestamp" -> t
    [] func = "clamp" -> AtLeast(args[1], AtMost(args[2], v))
    [] func = "clamp_max" -> AtMost(args[1], v)
    [] OTHER -> MapFn(func, v)

-----------------------------------------------------------------------------
(***************************************************************************)
(* Scalar expressions, folded while planning (scalar.rs).                  *)
(***************************************************************************)
Folded(value) == [error |-> None, value |-> value]
NotFolded(error) == [error |-> Some(error), value |-> NaN]

FoldCall(c, t) ==
  IF CheckCall(c) # None THEN NotFolded(CheckCall(c)[1])
  ELSE CASE c.name = "time" -> Folded(t)
         [] c.name = "pi" -> Folded(3)
         [] OTHER -> NotFolded(UnsupportedError("the function"))

RECURSIVE Fold(_, _)
Fold(e, t) ==
  CASE e.kind = "number" -> Folded(e.val)
    [] e.kind = "paren" -> Fold(e.expr, t)
    [] e.kind = "unary" ->
         LET v == Fold(e.expr, t)
         IN  IF v.error # None \/ e.op = "+" THEN v ELSE Folded(MapValue("neg", <<>>, t, v.value))
    [] e.kind = "binary" ->
         LET lhs == Fold(e.lhs, t)
             rhs == Fold(e.rhs, t)
         IN  IF lhs.error # None THEN lhs
             ELSE IF rhs.error # None THEN rhs
             ELSE Folded(OpValue(e.op, lhs.value, rhs.value, TRUE)[1])
    [] e.kind = "call" -> FoldCall(e, t)
    [] OTHER -> NotFolded(UnsupportedError("no scalar"))

-----------------------------------------------------------------------------
(***************************************************************************)
(* The planner: its source and its query are p's.                          *)
(***************************************************************************)
GridOf(p) ==
  [start |-> p.query.start, end |-> p.query.end, step |-> p.query.step, window |-> 0,
   offset |-> 0, at |-> NoAt]

QuerySteps(p) == Steps(GridOf(p))

Failure(error) == [error |-> Some(error), asked |-> <<>>, names |-> {}, plan |-> None]
Answer(names, plan) == [error |-> None, asked |-> <<>>, names |-> names, plan |-> plan]

\* A node over one that is planned, or the error in the way.
Over(input, names, plan) ==
  IF input.error # None THEN input ELSE [input EXCEPT !.names = names, !.plan = plan]

NoAbove == [func |-> None, grouping |-> None]
Under(func, grouping) == [func |-> Some(func), grouping |-> grouping]

\* scalar_series: the value at every step, or the first error.
ScalarSeries(p, e) ==
  LET bad == {t \in QuerySteps(p) : Fold(e, t).error # None}
  IN  IF bad # {} THEN Failure(Fold(e, Min(bad)).error[1])
      ELSE Answer({}, [node |-> "table", values |-> [t \in QuerySteps(p) |-> Fold(e, t).value]])

\* Variant: the first step's value stands for all.
ConstantAtFirst(p, e) == Fold(e, p.query.start)

\* constant: a scalar that does not move from one step to the next.
Constant(p, e) ==
  LET bad == {t \in QuerySteps(p) : Fold(e, t).error # None \/ Fold(e, t) # Fold(e, p.query.start)}
  IN  IF bad = {} THEN Fold(e, p.query.start)
      ELSE IF Fold(e, Min(bad)).error # None THEN Fold(e, Min(bad))
      ELSE NotFolded(UnsupportedError("a scalar argument that changes between steps"))

-----------------------------------------------------------------------------
(***************************************************************************)
(* Selectors.                                                              *)
(***************************************************************************)
LabelOf(labels, name) == IF name \in DOMAIN labels THEN labels[name] ELSE ""

MatcherHolds(m, labels) ==
  LET equal == LabelOf(labels, m.name) = m.value IN IF m.op = "=" THEN equal ELSE ~equal

EffectiveMatchers(vs) ==
  vs.matchers \o (IF vs.name = "" THEN <<>>
                  ELSE <<[name |-> MetricName, op |-> "=", value |-> vs.name]>>)

Matching(source, vs) ==
  {n \in DOMAIN source :
     \A k \in DOMAIN EffectiveMatchers(vs) :
       MatcherHolds(EffectiveMatchers(vs)[k], source[n].labels)}

\* Variant: end() is where the query begins.
ResolveAtStart(vs, query) ==
  CASE vs.timestamp # None -> vs.timestamp[1]
    [] vs.timestamp = None /\ vs.startOrEnd # None -> query.start
    [] OTHER -> NoAt

\* resolve_at: a timestamp outranks start() and end().
ResolveAt(vs, query) ==
  CASE vs.timestamp # None -> vs.timestamp[1]
    [] vs.timestamp = None /\ vs.startOrEnd = Some("start") -> query.start
    [] vs.timestamp = None /\ vs.startOrEnd = Some("end") -> query.end
    [] OTHER -> NoAt

ParamsOf(p, vs, window) ==
  [start |-> p.query.start, end |-> p.query.end, step |-> p.query.step, window |-> window,
   offset |-> vs.offset, at |-> ResolveAt(vs, p.query)]

\* Variant: an offset is taken as it is.
SelectorErrorUnbound(p, vs, window) ==
  LET at == ResolveAt(vs, p.query)
  IN  IF window = NaN \/ vs.offset = NaN THEN Some(QueryError("no duration"))
      ELSE FirstBroken(<<Rule(at # NoAt /\ ~WithinBound(at), "@ out of range"),
                         Rule(~WithinBound(window), "range out of range")>>)

\* duration_ms, check_selector_bounds and the check of a range, in their order.
SelectorError(p, vs, window) ==
  LET at == ResolveAt(vs, p.query)
  IN  IF window = NaN \/ vs.offset = NaN THEN Some(QueryError("no duration"))
      ELSE FirstBroken(<<Rule(at # NoAt /\ ~WithinBound(at), "@ out of range"),
                         Rule(~WithinBound(vs.offset), "offset out of range"),
                         Rule(~WithinBound(window), "range out of range")>>)

\* reject_unsupported_modifiers: of those, what an input can spell.
RejectsModifiers(vs) == vs.anchored \/ vs.smoothed

\* scan: the store is asked, under the hints, for the series of one selector.
Scan(p, vs, params, range, above) ==
  IF RejectsModifiers(vs)
  THEN Failure(UnsupportedError("the anchored and smoothed modifiers"))
  ELSE LET series == Matching(p.source, vs)
       IN  [error |-> None,
            asked |-> <<[params |-> params, select |-> SelectRange(params), range |-> range,
                         func |-> above.func, grouping |-> above.grouping]>>,
            names |-> UNION {DOMAIN p.source[n].labels : n \in series},
            plan |-> [node |-> "scan", series |-> series, grouping |-> above.grouping]]

\* A kernel over a scan, and the columns it leaves.
Evaluated(p, vs, window, range, above, kernel, dropsName) ==
  LET params == ParamsOf(p, vs, window)
      scan == Scan(p, vs, params, range, above)
      names == IF dropsName THEN scan.names \ {MetricName} ELSE scan.names
      error == SelectorError(p, vs, window)
  IN  IF error # None THEN Failure(error[1])
      ELSE Over(scan, names, [node |-> "kernel", kernel |-> kernel, params |-> params,
                              names |-> names, input |-> scan.plan])

\* selector, for the value or the time of the sample picked.
PlanSelector(p, vs, above, pick) ==
  Evaluated(p, vs, p.query.lookback, None, above, pick, pick = "timestamp")

-----------------------------------------------------------------------------
(***************************************************************************)
(* Functions of a range selector.                                          *)
(***************************************************************************)
\* Of range::Func, what the inputs call.
RangeFuncs == {"changes", "count_over_time", "last_over_time", "present_over_time", "sum_over_time"}

AnchoredSafe == {"changes", "delta", "increase", "rate", "resets"}
SmoothedSafe == {"delta", "increase", "rate"}

\* check_range_modifiers, on the first argument that is a range of a selector.
CheckRangeModifiers(c) ==
  LET ranges == {n \in DOMAIN c.args : /\ Unwrapped(c.args[n]).kind = "matrix"
                                       /\ Unwrapped(c.args[n]).selector.kind = "selector"}
      vs == Unwrapped(c.args[Min(ranges)]).selector
      safe == IF vs.anchored THEN AnchoredSafe ELSE SmoothedSafe
  IN  ranges = {} \/ (vs.anchored \/ vs.smoothed => c.name \in safe)

\* range_over: func over the selector of the call, which the store hears as name.
RangeOver(p, c, func, name, grouping) ==
  LET ms == Unwrapped(c.args[1])
  IN  IF ms.kind # "matrix" \/ ms.selector.kind # "selector"
      THEN Failure(UnsupportedError("not a range selector"))
      ELSE Evaluated(p, ms.selector, ms.range, Some(ms.range), Under(name, grouping), func,
                     func # "last_over_time")

RangeFunction(p, c, above) ==
  IF ~CheckRangeModifiers(c) THEN Failure(QueryError("modifier and function"))
  ELSE IF c.name \notin RangeFuncs THEN Failure(UnsupportedError("the function"))
  ELSE RangeOver(p, c, c.name, c.name, above.grouping)

\* matrix: a range selector that is the whole of an instant query.
PlanMatrix(p, ms) ==
  LET vs == ms.selector
      params == ParamsOf(p, vs, ms.range)
      scan == Scan(p, vs, params, Some(ms.range), NoAbove)
      error == SelectorError(p, vs, ms.range)
  IN  CASE vs.kind # "selector" -> Failure(UnsupportedError("a range selector over it"))
        [] vs.kind = "selector" /\ error # None -> Failure(error[1])
        [] OTHER -> Over(scan, scan.names, [node |-> "window", params |-> params,
                                            names |-> scan.names, input |-> scan.plan])

-----------------------------------------------------------------------------
(***************************************************************************)
(* The nodes over an input that is planned.                                *)
(***************************************************************************)
MapNode(input, func, args, names) ==
  Over(input, names, [node |-> "map", func |-> func, args |-> args, names |-> names,
                      input |-> input.plan])

ScalarNode(input) == Over(input, {}, [node |-> "scalar", input |-> input.plan])

\* absent::labels_for: a name that comes up again is dropped for good, unless it
\* is for an equality that is the name's first.
AbsentLabels(arg) ==
  LET e == Unwrapped(arg)
      vs == IF e.kind = "matrix" THEN e.selector ELSE e
      named(n) == {k \in DOMAIN vs.matchers : vs.matchers[k].name = n}
      equal(n) == {k \in named(n) : vs.matchers[k].op = "="}
      kept == {n \in LabelNames \ {MetricName} : equal(n) # {} /\ Min(equal(n)) = Max(named(n))}
  IN  IF vs.kind # "selector" THEN <<>>
      ELSE [n \in kept |-> vs.matchers[Min(equal(n))].value]

AbsentNode(arg, input) ==
  Over(input, DOMAIN AbsentLabels(arg),
       [node |-> "absent", labels |-> AbsentLabels(arg), input |-> input.plan])

\* labels::group_keys.
GroupKeys(names, agg) ==
  IF agg.without THEN names \ ({MetricName} \cup agg.grouping) ELSE names \cap agg.grouping

\* Variant: the metric name is part of what ignoring leaves.
MatchKeysNamed(names, matching) ==
  IF matching.on THEN ToSet(matching.labels) ELSE names \ ToSet(matching.labels)

\* vector_vector's match signature.
MatchKeys(names, matching) ==
  IF matching.on THEN ToSet(matching.labels)
  ELSE names \ ({MetricName} \cup ToSet(matching.labels))

Sorts == {"sort", "sort_by_label"}

\* Op::from_token of aggregate.rs, of the operators that take no parameter.
Aggregators == {"sum", "avg", "count", "min", "max", "group", "stddev", "stdvar"}

\* What a `by` lets the store know it reads; a `without` says nothing.
GroupingOf(agg) == IF agg.without THEN None ELSE Some(agg.grouping)

\* Variant: an operator hands down what is above it.
AboveOperandPassed(above) == above

\* What vector_vector tells the store is above its operands: nothing.
AboveOperand(above) == NoAbove

RECURSIVE PlanExpr(_, _, _)

PlanTimestamp(p, c, above) ==
  IF Unwrapped(c.args[1]).kind = "selector"
  THEN PlanSelector(p, Unwrapped(c.args[1]), Under("timestamp", above.grouping), "timestamp")
  ELSE LET input == PlanExpr(p, c.args[1], Under("timestamp", above.grouping))
       IN  MapNode(input, "timestamp", <<>>, input.names \ {MetricName})

\* elementwise: the scalars, then the vector, or the time where none is given.
PlanElementwise(p, c, above) ==
  LET folded == [n \in 1 .. Len(c.args) - 1 |-> Constant(p, c.args[n + 1])]
      bad == {n \in DOMAIN folded : folded[n].error # None}
      input == IF c.args = <<>> THEN ScalarSeries(p, Call("time", <<>>))
               ELSE PlanExpr(p, c.args[1], Under(c.name, above.grouping))
  IN  IF bad # {} THEN Failure(folded[Min(bad)].error[1])
      ELSE MapNode(input, c.name, [n \in DOMAIN folded |-> folded[n].value],
                   input.names \ {MetricName})

PlanSort(p, c) ==
  LET input == PlanExpr(p, c.args[1], Under(c.name, None))
  IN  IF \E n \in 2 .. Len(c.args) : c.args[n].kind # "string"
      THEN Failure(QueryError("label names as string literals"))
      ELSE IF p.query.start # p.query.end THEN input
      ELSE Over(input, input.names, [node |-> "sort", input |-> input.plan])

PlanCall(p, c, above) ==
  IF CheckCall(c) # None THEN Failure(CheckCall(c)[1])
  ELSE CASE c.name = "vector" -> ScalarSeries(p, c.args[1])
         [] c.name = "absent" ->
              AbsentNode(c.args[1], PlanExpr(p, c.args[1], Under(c.name, None)))
         [] c.name = "absent_over_time" ->
              AbsentNode(c.args[1], RangeOver(p, c, "present_over_time", c.name, None))
         [] c.name = "scalar" -> ScalarNode(PlanExpr(p, c.args[1], Under(c.name, None)))
         [] c.name # "scalar" /\ Signatures[c.name].returns = "scalar" -> ScalarSeries(p, c)
         [] c.name = "timestamp" -> PlanTimestamp(p, c, above)
         [] c.name \in Elementwise \ {"timestamp"} -> PlanElementwise(p, c, above)
         [] c.name \in Sorts -> PlanSort(p, c)
         [] OTHER -> RangeFunction(p, c, above)

PlanUnary(p, u, above) ==
  LET input == PlanExpr(p, u.expr, above)
  IN  IF ValueType(u.expr) = "scalar" THEN ScalarSeries(p, u)
      ELSE IF u.op = "+" THEN input
      ELSE MapNode(input, "neg", <<>>, input.names \ {MetricName})

VectorScalar(p, b, vector, scalar, swap) ==
  LET value == Constant(p, scalar)
      input == PlanExpr(p, vector, NoAbove)
      names == IF OpDropsName(b.op, b.returnBool) THEN input.names \ {MetricName} ELSE input.names
  IN  IF value.error # None THEN Failure(value.error[1])
      ELSE Over(input, names, [node |-> "operator", op |-> b.op, returnBool |-> b.returnBool,
                               scalar |-> value.value, swap |-> swap, names |-> names,
                               input |-> input.plan])

\* binary_op: what was written, or the default; names are read as sets.
MatchingOf(b) == IF b.matching = None THEN DefaultMatching ELSE b.matching[1]

VectorVector(p, b, above) ==
  LET matching == MatchingOf(b)
      lhs == PlanExpr(p, b.lhs, AboveOperand(above))
      rhs == PlanExpr(p, b.rhs, AboveOperand(above))
      names == lhs.names \cup rhs.names \cup (IF matching.on THEN ToSet(matching.labels) ELSE {})
      both == [rhs EXCEPT !.asked = lhs.asked \o rhs.asked]
  IN  IF lhs.error # None THEN lhs
      ELSE Over(both, names, [node |-> "pair", op |-> b.op, returnBool |-> b.returnBool,
                              matching |-> matching, keys |-> MatchKeys(names, matching),
                              names |-> names, lhs |-> lhs.plan, rhs |-> rhs.plan])

PlanBinary(p, b, above) ==
  LET lhs == ValueType(b.lhs)
      rhs == ValueType(b.rhs)
  IN  CASE lhs = "vector" /\ rhs = "scalar" -> VectorScalar(p, b, b.lhs, b.rhs, FALSE)
        [] lhs = "scalar" /\ rhs = "vector" -> VectorScalar(p, b, b.rhs, b.lhs, TRUE)
        [] lhs = "vector" /\ rhs = "vector" -> VectorVector(p, b, above)
        [] OTHER -> ScalarSeries(p, b)

PlanAggregate(p, agg) ==
  LET input == PlanExpr(p, agg.expr, Under(agg.op, GroupingOf(agg)))
      keys == GroupKeys(input.names, agg)
  IN  IF agg.op \notin Aggregators \/ agg.param # None
      THEN Failure(UnsupportedError("the aggregation"))
      ELSE Over(input, keys, [node |-> "group", op |-> agg.op, keys |-> keys, input |-> input.plan])

PlanExpr(p, e, above) ==
  CASE e.kind = "selector" -> PlanSelector(p, e, above, "value")
    [] e.kind = "paren" -> PlanExpr(p, e.expr, above)
    [] e.kind = "aggregate" -> PlanAggregate(p, e)
    [] e.kind = "call" -> PlanCall(p, e, above)
    [] e.kind = "binary" -> PlanBinary(p, e, above)
    [] e.kind = "unary" -> PlanUnary(p, e, above)
    [] e.kind = "number" -> ScalarSeries(p, e)
    [] OTHER -> Failure(UnsupportedError("the expression"))

-----------------------------------------------------------------------------
(***************************************************************************)
(* A whole query.                                                          *)
(***************************************************************************)
WithLookback(query) == [query EXCEPT !.lookback = IF @ <= 0 THEN DefaultLookback ELSE @]

Validate(query) ==
  FirstBroken(<<Rule(query.step <= 0, "step"), Rule(query.start > query.end, "end before start"),
                Rule(~WithinBound(query.start), "start out of range"),
                Rule(~WithinBound(query.end), "end out of range"),
                Rule(~WithinBound(WithLookback(query).lookback), "lookback out of range")>>)

\* range_selector: the range selector a whole query is, however parenthesised.
RangeSelector(e) == IF Unwrapped(e).kind = "matrix" THEN Some(Unwrapped(e)) ELSE None

PlanGrid(p, e) ==
  IF StepCount(GridOf(p)) > MaxSteps THEN Failure(QueryError("too many steps"))
  ELSE IF RangeSelector(e) # None THEN PlanMatrix(p, RangeSelector(e)[1])
  ELSE PlanExpr(p, e, NoAbove)

\* plan and plan_instant, for a query over the grid or at an instant.
PlanQuery(source, query, e) ==
  LET asked == [source |-> source, query |-> WithLookback(query), projected |-> FALSE]
  IN  IF Validate(query) # None THEN Failure(Validate(query)[1])
      ELSE IF CheckExpr(e) # None THEN Failure(CheckExpr(e)[1])
      ELSE IF ~query.instant /\ ValueType(e) \notin {"scalar", "vector"}
      THEN Failure(QueryError("expression type"))
      ELSE PlanGrid(asked, e)
=============================================================================
