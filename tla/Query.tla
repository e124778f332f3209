-------------------------------- MODULE Query --------------------------------
(***************************************************************************)
(* A query from its text to its answer (promql-engine/src/engine.rs): it   *)
(* is parsed (Parser), planned against a store (Planner), executed         *)
(* (Execution), and read back as the type the expression has.              *)
(***************************************************************************)
EXTENDS Parser, Execution

CONSTANTS
  Store,   \* the series: labels, and samples in order
  Asks     \* a sequence of what queries are asked over: a grid, or an instant

VARIABLES
  query,    \* the grid, the lookback, and whether it is one instant
  planned,  \* the plan, or the error and what the store was asked before it
  result

vars == <<parserVars, query, planned, result>>

-----------------------------------------------------------------------------
(***************************************************************************)
(* What an expression means, step by step and with no plan: the answers a  *)
(* planned query is held to.  A vector is a sequence of labelled values, a *)
(* scalar a vector of one that has no labels, and every vector has every   *)
(* label, "" for one it lacks.  Only what is computed of one window, one   *)
(* value, or the values of one group at a step, is shared with the plan.   *)
(***************************************************************************)

Vector(elements) == [failed |-> FALSE, vector |-> elements]
NoLabels == Widened(<<>>)
Scalar(v) == Vector(<<[labels |-> NoLabels, value |-> v]>>)

Without(labels, names) == [n \in LabelNames |-> IF n \in names THEN "" ELSE labels[n]]
OnlyOf(labels, names) == Without(labels, LabelNames \ names)
Nameless(labels) == Without(labels, {MetricName})

-----------------------------------------------------------------------------
\* Where the window of a selector ends.
EndOf(p, vs, t) ==
  (IF vs.timestamp # None THEN vs.timestamp[1]
   ELSE IF vs.startOrEnd = Some("start") THEN p.query.start
   ELSE IF vs.startOrEnd = Some("end") THEN p.query.end ELSE t) - vs.offset

Named(vs, labels) == vs.name # "" => LabelOf(labels, MetricName) = vs.name

\* The windows of the series a selector selects, those with no sample left out.
Windows(p, vs, length, t) ==
  LET window(n) == [labels |-> Widened(p.source[n].labels),
                    samples |-> InWindow(p.source[n].samples, EndOf(p, vs, t), length)]
      selected == SelectSeq([n \in DOMAIN p.source |-> n],
                    LAMBDA n : /\ Named(vs, p.source[n].labels)
                               /\ \A k \in DOMAIN vs.matchers : MatcherHolds(vs.matchers[k], p.source[n].labels))
  IN  SelectSeq([k \in DOMAIN selected |-> window(selected[k])], LAMBDA w : w.samples # <<>>)

Valued(windows, kernel, drops) ==
  [n \in DOMAIN windows |->
     [labels |-> IF drops THEN Nameless(windows[n].labels) ELSE windows[n].labels,
      value |-> KernelValue(kernel, windows[n].samples)]]

Ranged(p, c, t) == LET ms == Unwrapped(c.args[1]) IN Windows(p, ms.selector, ms.range, t)

AbsentMeaning(arg, none) ==
  IF none THEN Vector(<<[labels |-> Widened(AbsentLabels(arg)), value |-> 1]>>) ELSE Vector(<<>>)

-----------------------------------------------------------------------------
\* Two vectors, matched on the labels a matching says.
SideLabels(matching, labels) ==
  IF matching.on THEN OnlyOf(labels, ToSet(matching.labels))
  ELSE Without(labels, ToSet(matching.labels) \cup {MetricName})

Meets(matching, x, S) ==
  \E n \in DOMAIN S : SideLabels(matching, S[n].labels) = SideLabels(matching, x.labels)

SetMeaning(b, m, lhs, rhs) ==
  CASE b.op = "and" -> SelectSeq(lhs, LAMBDA x : Meets(m, x, rhs))
    [] b.op = "unless" -> SelectSeq(lhs, LAMBDA x : ~Meets(m, x, rhs))
    [] b.op = "or" -> lhs \o SelectSeq(rhs, LAMBDA x : ~Meets(m, x, lhs))

\* The labels of a pair: the many side's, or what one-to-one matches on, and
\* those the one side includes.
PairedLabels(b, m, many, one) ==
  LET renamed == IF OpDropsName(b.op, b.returnBool) THEN Nameless(many) ELSE many
      base == IF m.card # "one_to_one" THEN renamed
              ELSE IF m.on THEN OnlyOf(renamed, ToSet(m.labels)) ELSE Without(renamed, ToSet(m.labels))
  IN  [n \in LabelNames |-> IF n \in ToSet(m.include) THEN one[n] ELSE base[n]]

\* Every pair of a many and a one, a fill standing in for the one that is not
\* there; of an operator, lhs and rhs are the values in the order written.
Pairs(b, m, manys, ones) ==
  LET flipped == m.card = "one_to_many"
      pair(many, x, one, y) ==
        [labels |-> PairedLabels(b, m, many, one), key |-> SideLabels(m, many),
         lhs |-> IF flipped THEN y ELSE x, rhs |-> IF flipped THEN x ELSE y]
      of(x) == SelectSeq(ones, LAMBDA o : SideLabels(m, o.labels) = SideLabels(m, x.labels))
      matched(x) == [k \in DOMAIN of(x) |-> pair(x.labels, x.value, of(x)[k].labels, of(x)[k].value)]
      alone(x) == IF of(x) # <<>> \/ m.fillRight = None THEN <<>>
                  ELSE <<pair(x.labels, x.value, SideLabels(m, x.labels), m.fillRight[1])>>
      left(o) == IF Meets(m, o, manys) \/ m.fillLeft = None THEN <<>>
                 ELSE <<pair(SideLabels(m, o.labels), m.fillLeft[1], o.labels, o.value)>>
  IN  FlattenSeq([n \in DOMAIN manys |-> matched(manys[n]) \o alone(manys[n])])
        \o FlattenSeq([n \in DOMAIN ones |-> left(ones[n])])

\* Two of the one side for a match, two matches of a one-to-one, and two pairs of
\* one match that end up with the same labels.
Ambiguous(m, manys, ones, pairs) ==
  \/ \E j, k \in DOMAIN ones :
       /\ j # k /\ SideLabels(m, ones[j].labels) = SideLabels(m, ones[k].labels)
       /\ Meets(m, ones[j], manys) \/ HasFill(m)
  \/ \E j, k \in DOMAIN pairs :
       /\ j # k /\ pairs[j].key = pairs[k].key
       /\ m.card = "one_to_one" \/ pairs[j].labels = pairs[k].labels

\* The values that are there, of elements with labels.
Kept(elements) ==
  LET kept == SelectSeq(elements, LAMBDA x : x.value # None)
  IN  [n \in DOMAIN kept |-> [labels |-> kept[n].labels, value |-> kept[n].value[1]]]

Matched(b, m, manys, ones, pairs) ==
  [failed |-> Ambiguous(m, manys, ones, pairs),
   vector |-> Kept([n \in DOMAIN pairs |->
                      [labels |-> pairs[n].labels,
                       value |-> OpValue(b.op, pairs[n].lhs, pairs[n].rhs, b.returnBool)]])]

PairMeaning(b, m, manys, ones) == Matched(b, m, manys, ones, Pairs(b, m, manys, ones))

\* A vector and a scalar: a comparison keeps the vector's value.
ScalarMeaning(b, vector, scalar, vectorFirst) ==
  LET value(v) == IF vectorFirst THEN OpValue(b.op, v, scalar, b.returnBool)
                  ELSE OpValue(b.op, scalar, v, b.returnBool)
      kept == SelectSeq(vector, LAMBDA x : value(x.value) # None)
      filters == IsComparison(b.op) /\ ~b.returnBool
  IN  [n \in DOMAIN kept |->
         IF filters THEN kept[n]
         ELSE [labels |-> Nameless(kept[n].labels), value |-> value(kept[n].value)[1]]]

-----------------------------------------------------------------------------
Mapped(vector, func, args, t) ==
  IF Inverted(func, args) THEN <<>>
  ELSE [n \in DOMAIN vector |-> [labels |-> Nameless(vector[n].labels),
                                 value |-> MapValue(func, args, t, vector[n].value)]]

Grouped(e, vector) ==
  LET key(x) == IF e.without THEN Without(x.labels, e.grouping \cup {MetricName})
                ELSE OnlyOf(x.labels, e.grouping)
      keys == AsSeq({key(vector[n]) : n \in DOMAIN vector})
      values(k) == LET of == SelectSeq(vector, LAMBDA x : key(x) = k) IN [n \in DOMAIN of |-> of[n].value]
  IN  [n \in DOMAIN keys |-> [labels |-> keys[n], value |-> GroupValue(e.op, values(keys[n]))]]

\* Of a call whose first argument means arg, and the others these scalars.
CallMeaning(p, c, arg, scalars, t) ==
  LET selector == Unwrapped(c.args[1])
  IN
  CASE c.name \in {"vector", "sort", "sort_by_label"} -> arg
    [] c.name = "time" -> Scalar(t)
    [] c.name = "pi" -> Scalar(3)
    [] c.name = "scalar" ->
         [arg EXCEPT !.vector = Scalar(IF Len(@) = 1 THEN @[1].value ELSE NaN).vector]
    [] c.name = "absent" ->
         [AbsentMeaning(c.args[1], arg.vector = <<>>) EXCEPT !.failed = arg.failed]
    [] c.name = "absent_over_time" -> AbsentMeaning(c.args[1], Ranged(p, c, t) = <<>>)
    [] c.name \in RangeFuncs -> Vector(Valued(Ranged(p, c, t), c.name, c.name # "last_over_time"))
    [] c.name = "timestamp" /\ selector.kind = "selector" ->
         Vector(Valued(Windows(p, selector, p.query.lookback, t), "timestamp", TRUE))
    [] c.name = "minute" /\ c.args = <<>> -> Vector(Mapped(Scalar(t).vector, c.name, <<>>, t))
    [] OTHER -> [arg EXCEPT !.vector = Mapped(@, c.name, scalars, t)]

Joined(b, m, lhs, rhs) ==
  CASE ValueType(b) = "scalar" -> Scalar(OpValue(b.op, lhs[1].value, rhs[1].value, TRUE)[1])
    [] ValueType(b.lhs) = "vector" /\ ValueType(b.rhs) = "scalar" ->
         Vector(ScalarMeaning(b, lhs, rhs[1].value, TRUE))
    [] ValueType(b.lhs) = "scalar" /\ ValueType(b.rhs) = "vector" ->
         Vector(ScalarMeaning(b, rhs, lhs[1].value, FALSE))
    [] OTHER -> IF IsSetOp(b.op) THEN Vector(SetMeaning(b, m, lhs, rhs))
           ELSE IF m.card = "one_to_many" THEN PairMeaning(b, m, rhs, lhs)
           ELSE PairMeaning(b, m, lhs, rhs)

BinaryMeaning(b, lhs, rhs) ==
  [Joined(b, IF b.matching = None THEN DefaultMatching ELSE b.matching[1], lhs.vector, rhs.vector)
     EXCEPT !.failed = @ \/ lhs.failed \/ rhs.failed]

RECURSIVE Means(_, _, _)
Means(p, e, t) ==
  CASE e.kind = "selector" -> Vector(Valued(Windows(p, e, p.query.lookback, t), "value", FALSE))
    [] e.kind = "number" -> Scalar(e.val)
    [] e.kind = "paren" \/ (e.kind = "unary" /\ e.op = "+") -> Means(p, e.expr, t)
    [] e.kind = "unary" /\ e.op = "-" ->
         [Means(p, e.expr, t) EXCEPT !.vector = Mapped(@, "neg", <<>>, t)]
    [] e.kind = "binary" -> BinaryMeaning(e, Means(p, e.lhs, t), Means(p, e.rhs, t))
    [] e.kind = "call" ->
         CallMeaning(p, e, Means(p, e.args[1], t),
                     [n \in 1 .. Len(e.args) - 1 |-> Means(p, e.args[n + 1], t).vector[1].value], t)
    [] e.kind = "aggregate" -> [Means(p, e.expr, t) EXCEPT !.vector = Grouped(e, @)]

-----------------------------------------------------------------------------
\* The rows of a whole query: of every step, or of a range selector's window.
MatrixMeaning(p, ms) ==
  LET windows == Windows(p, ms.selector, ms.range, p.query.start)
  IN  Rows([n \in DOMAIN windows |->
              [labels |-> windows[n].labels,
               at |-> [t \in {s[1] : s \in ToSet(windows[n].samples)} |->
                         (CHOOSE s \in ToSet(windows[n].samples) : s[1] = t)[2]]]])

StepMeaning(p, e, t) ==
  LET means == Means(p, e, t)
  IN  [failed |-> means.failed,
       rows |-> [n \in DOMAIN means.vector |->
                   [labels |-> means.vector[n].labels, at |-> [u \in {t} |-> means.vector[n].value]]]]

Meant(p, e) ==
  LET steps == AsSeq(QuerySteps(p))
      means == [n \in DOMAIN steps |-> StepMeaning(p, e, steps[n])]
  IN  Finalized(IF Unwrapped(e).kind = "matrix" THEN MatrixMeaning(p, Unwrapped(e))
                ELSE [failed |-> \E n \in DOMAIN means : means[n].failed,
                      rows |-> FlattenSeq([n \in DOMAIN means |-> means[n].rows])])

-----------------------------------------------------------------------------
(***************************************************************************)
(* A query.                                                                *)
(***************************************************************************)
Tree == parsed[1]
Plan == planned[1]
Asked == [source |-> Store, query |-> WithLookback(query), projected |-> FALSE]

\* instant_query_async reads the answer by the type of the expression, and a
\* scalar has one sample.
ReadAs(type, answer) ==
  IF answer.failed THEN [kind |-> "refused"]
  ELSE IF query.instant /\ type = "scalar"
  THEN IF Cardinality(answer.samples) = 1
       THEN [kind |-> "scalar", value |-> (CHOOSE s \in answer.samples : TRUE).value]
       ELSE [kind |-> "schema error"]
  ELSE [kind |-> IF query.instant THEN type ELSE "matrix", samples |-> answer.samples]

-----------------------------------------------------------------------------
Init ==
  /\ ParserInit
  /\ \E n \in DOMAIN Asks : query = Asks[n]
  /\ planned = None /\ result = None

Parse == ParserNext /\ UNCHANGED <<query, planned, result>>

\* A string is answered without a plan, at an instant.
AnswerString ==
  /\ phase = "parsed" /\ query.instant /\ StringLiteral(Tree) # None /\ result = None
  /\ result' = Some([kind |-> "string", value |-> StringLiteral(Tree)[1]])
  /\ UNCHANGED <<parserVars, query, planned>>

Prepare ==
  /\ phase = "parsed" /\ planned = None
  /\ ~(query.instant /\ StringLiteral(Tree) # None)
  /\ planned' = Some(PlanQuery(Store, query, Tree))
  /\ UNCHANGED <<parserVars, query, result>>

Answered ==
  /\ planned # None /\ Plan.error = None /\ result = None
  /\ result' = Some(ReadAs(ValueType(Tree), Execute(Asked, Plan.plan)))
  /\ UNCHANGED <<parserVars, query, planned>>

Next == Parse \/ AnswerString \/ Prepare \/ Answered

Spec == Init /\ [][Next]_vars

-----------------------------------------------------------------------------
\* Every part of a tree, whatever holds it.
RECURSIVE Parts(_)
Parts(e) ==
  LET held == {e[f] : f \in DOMAIN e \cap {"expr", "lhs", "rhs", "selector"}}
      listed == UNION {ToSet(e[f]) : f \in DOMAIN e \cap {"args", "param"}}
  IN  {e} \cup UNION {Parts(x) : x \in held \cup listed}

\* What a store is asked for is what an i64 holds: no sum of a bound of the grid
\* or an @, a window and an offset is past it.
Unsaturated(params) ==
  LET ends == WindowEnds(params)
  IN  /\ ends.lo - params.window - params.offset \in IntMin .. IntMax
      /\ ends.hi - params.offset \in IntMin .. IntMax

\* A store is asked only for a query that is sound as a whole: no rule is broken
\* by any operator in it, however deep, or in a part planned later, and what it
\* is asked for did not saturate (plan.rs check_expr, validate).
AskedOnlyForSoundQueries ==
  planned # None /\ Plan.asked # <<>> =>
    /\ \A e \in Parts(Tree) : CheckNode(e) = None
    /\ \A n \in DOMAIN Plan.asked : Unsaturated(Plan.asked[n].params)

\* A plan that runs answers what the expression means, at every step: the same
\* samples, or a refusal where it is ambiguous, and a scalar is one number.
PlanAnswersTheExpression ==
  planned # None /\ result # None => result[1] = ReadAs(ValueType(Tree), Meant(Asked, Tree))

\* The `by` a store hears names every label that is read off its series, as the
\* comment on SelectHints::grouping has it: a source that left the others blank
\* would change no answer.
GroupingNamesWhatIsRead ==
  planned # None /\ Plan.error = None =>
    Execute([Asked EXCEPT !.projected = TRUE], Plan.plan) = Execute(Asked, Plan.plan)

\* The nodes of a plan.
RECURSIVE Nodes(_)
Nodes(plan) ==
  {plan} \cup UNION {Nodes(plan[f]) : f \in DOMAIN plan \cap {"input", "lhs", "rhs"}}

\* The modifiers a plan was built with are read back off it as they were, as the
\* comment on Matching::parse has it ("anything this cannot spell is a plan it did
\* not write"): the text of a match says which labels it is on.
MatchingReadsBack ==
  planned # None /\ Plan.error = None =>
    \A node \in Nodes(Plan.plan) :
      node.node = "pair" => ReadBack(node.matching) = Some(node.matching)
=============================================================================
