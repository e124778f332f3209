------------------------------ MODULE Execution ------------------------------
(***************************************************************************)
(* What the nodes of a plan answer, by the contracts of the parts the      *)
(* other modules check: a kernel's sample at a step is of the window there *)
(* (SeriesState), an aggregation's of the rows of its group there          *)
(* (Aggregate), a pairing's what MatchGroup says of each match group, and  *)
(* absent and scalar see every row (Ungrouped).  Blocks are joined: which  *)
(* of them a step is answered in is StepGrid's.                            *)
(*                                                                         *)
(* A row is a label per column and a value at some of the steps.           *)
(***************************************************************************)
EXTENDS Planner

\* What the text of a label name is read as in a list of names: the names between
\* its commas, or None if a parenthesis in it ends the list.
CONSTANT NamesIn

Rows(rows) == [failed |-> FALSE, rows |-> rows]

Restricted(labels, names) == [n \in names |-> LabelOf(labels, n)]
Widened(labels) == Restricted(labels, LabelNames)

\* The values a function on the steps gives, as far as it gives any.
Present(S, value(_)) == LET some == {t \in S : value(t) # None} IN [t \in some |-> value(t)[1]]

MapRows(rows, Change(_)) == [n \in DOMAIN rows |-> Change(rows[n])]

AsSeq(S) == FoldSet(LAMBDA x, seq : Append(seq, x), <<>>, S)
SumOf(values) == FoldLeft(LAMBDA x, y : Computed("+", x, y), 0, values)

-----------------------------------------------------------------------------
\* The samples of a series in a store's answer, of which a window takes some.
Scanned(samples, params) ==
  SelectSeq(samples, LAMBDA s : SelectRange(params).lo <= s[1] /\ s[1] <= SelectRange(params).hi)

InWindow(samples, end, window) ==
  SelectSeq(samples, LAMBDA s : end - window < s[1] /\ s[1] <= end)

KernelValue(kernel, w) ==
  CASE kernel \in {"value", "last_over_time"} -> Last(w)[2]
    [] kernel = "timestamp" -> Last(w)[1]
    [] kernel = "count_over_time" -> Len(w)
    [] kernel = "present_over_time" -> 1
    [] kernel = "sum_over_time" -> SumOf([n \in DOMAIN w |-> w[n][2]])
    [] kernel = "changes" -> Cardinality({n \in 2 .. Len(w) : w[n][2] # w[n - 1][2]})

KernelRow(node, series) ==
  LET samples == Scanned(series.samples, node.params)
      window(t) == InWindow(samples, WindowEnd(node.params, t), node.params.window)
  IN  [labels |-> Restricted(series.labels, node.names),
       at |-> Present(Steps(node.params),
                      LAMBDA t : IF window(t) = <<>> THEN None
                                 ELSE Some(KernelValue(node.kernel, window(t))))]

\* matrix.rs: the samples themselves, at their own times.
WindowRow(node, series) ==
  LET end == WindowEnd(node.params, node.params.start)
      w == InWindow(Scanned(series.samples, node.params), end, node.params.window)
  IN  [labels |-> Restricted(series.labels, node.names),
       at |-> [t \in {w[n][1] : n \in DOMAIN w} |-> (CHOOSE s \in ToSet(w) : s[1] = t)[2]]]

-----------------------------------------------------------------------------
\* Bound: the scalar goes back to the side it was written on, and a sample that
\* passes a comparison keeps its own value.
OperatorSample(node, v) ==
  LET result == IF node.swap THEN OpValue(node.op, node.scalar, v, node.returnBool)
                ELSE OpValue(node.op, v, node.scalar, node.returnBool)
  IN  IF IsComparison(node.op) /\ ~node.returnBool /\ result # None THEN Some(v) ELSE result

\* An aggregation's value of the values of a group at a step.
GroupValue(op, values) ==
  CASE op = "sum" -> SumOf(values)
    [] op = "count" -> Len(values)
    [] op = "group" -> 1
    [] op = "min" -> Min(ToSet(values))
    [] op = "max" -> Max(ToSet(values))

ValuesAt(rows, t) ==
  LET there == SelectSeq(rows, LAMBDA r : t \in DOMAIN r.at) IN [n \in DOMAIN there |-> there[n].at[t]]

StepsOf(rows) == UNION {DOMAIN rows[n].at : n \in DOMAIN rows}

GroupRow(op, labels, rows) ==
  [labels |-> labels, at |-> [t \in StepsOf(rows) |-> GroupValue(op, ValuesAt(rows, t))]]

GroupRows(node, rows) ==
  LET groups == {Restricted(rows[n].labels, node.keys) : n \in DOMAIN rows}
      members(g) == SelectSeq(rows, LAMBDA r : Restricted(r.labels, node.keys) = g)
  IN  AsSeq({GroupRow(node.op, g, members(g)) : g \in groups})

-----------------------------------------------------------------------------
\* A match group: its rows have ids, and a fill has one as well.
Nobody == NaN   \* neither a row nor an error
Group == INSTANCE MatchGroup
           WITH Schema <- LabelNames, Name <- MetricName, Empty <- "", None <- Nobody

FillLeft == 1000
FillRight == 1001

OpClass(node) ==
  CASE IsSetOp(node.op) -> node.op
    [] IsComparison(node.op) -> IF node.returnBool THEN "bool" ELSE "filter"
    [] OTHER -> "arithmetic"

\* What a match group is told: steps are counted from 0.
PairQuery(p, node, sides) ==
  [op |-> OpClass(node), card |-> node.matching.card, on |-> node.matching.on,
   labels |-> ToSet(node.matching.labels), include |-> ToSet(node.matching.include),
   fillLhs |-> IF node.matching.fillLeft = None THEN Nobody ELSE FillLeft,
   fillRhs |-> IF node.matching.fillRight = None THEN Nobody ELSE FillRight,
   rows |-> {[id |-> n, side |-> sides[n].side, labels |-> Widened(sides[n].row.labels),
              steps |-> {i \in 0 .. StepCount(GridOf(p)) - 1 :
                           StepAt(GridOf(p), i) \in DOMAIN sides[n].row.at}] : n \in DOMAIN sides}]

\* The value behind an id at a step.
PairedValue(node, sides, id, t) ==
  CASE id = FillLeft -> node.matching.fillLeft[1]
    [] id = FillRight -> node.matching.fillRight[1]
    [] OTHER -> sides[id].row.at[t]

\* One group's rows, a series for every label set among its samples.
PairGroup(p, node, sides) ==
  LET query == PairQuery(p, node, sides)
      answers == [i \in 0 .. StepCount(GridOf(p)) - 1 |-> Group!Expected(query, i)]
      samples == UNION {answers[i].samples : i \in DOMAIN answers}
      value(s) ==
        LET t == StepAt(GridOf(p), s.step)
            lhs == PairedValue(node, sides, s.lhs, t)
        IN  IF IsSetOp(node.op) THEN Some(lhs)
            ELSE OpValue(node.op, lhs, PairedValue(node, sides, s.rhs, t), node.returnBool)
      row(labels) ==
        LET here == {s \in samples : s.labels = labels /\ value(s) # None}
        IN  [labels |-> Restricted(labels, node.names),
             at |-> [t \in {StepAt(GridOf(p), s.step) : s \in here} |->
                       value(CHOOSE s \in here : StepAt(GridOf(p), s.step) = t)[1]]]
  IN  [failed |-> \E i \in DOMAIN answers : answers[i].error # Nobody,
       rows |-> AsSeq({row(s.labels) : s \in samples})]

\* Matching::literal, and Matching::parse of it: the aggregation is told the
\* modifiers as a text that does not quote a name.
ReadBack(matching) ==
  LET names == matching.labels \o matching.include
      read(list) == FlattenSeq([n \in DOMAIN list |-> NamesIn[list[n]][1]])
  IN  IF \E n \in DOMAIN names : NamesIn[names[n]] = None THEN None
      ELSE Some([matching EXCEPT !.labels = read(@), !.include = read(@)])

PairRows(p, node, lhs, rhs) ==
  LET tag(rows, side) == [n \in DOMAIN rows |-> [side |-> side, row |-> rows[n]]]
      sides == tag(lhs, "lhs") \o tag(rhs, "rhs")
      key(s) == Restricted(s.row.labels, node.keys)
      keys == AsSeq({key(sides[n]) : n \in DOMAIN sides})
      read == ReadBack(node.matching)
      call == [node EXCEPT !.matching = read[1]]
      groups == [n \in DOMAIN keys |-> PairGroup(p, call, SelectSeq(sides, LAMBDA s : key(s) = keys[n]))]
  IN  IF read = None THEN [failed |-> TRUE, rows |-> <<>>]
      ELSE [failed |-> \E n \in DOMAIN groups : groups[n].failed,
            rows |-> FlattenSeq([n \in DOMAIN groups |-> groups[n].rows])]

-----------------------------------------------------------------------------
\* absent and scalar answer once, for the rows as a whole.
AbsentRow(p, labels, rows) ==
  [labels |-> labels, at |-> [t \in QuerySteps(p) \ StepsOf(rows) |-> 1]]

\* Variant: of several samples at a step the last is the scalar.
ScalarRowLast(p, rows) ==
  [labels |-> <<>>,
   at |-> [t \in QuerySteps(p) |-> IF t \in StepsOf(rows) THEN Last(ValuesAt(rows, t)) ELSE NaN]]

ScalarRow(p, rows) ==
  [labels |-> <<>>,
   at |-> [t \in QuerySteps(p) |-> IF Len(ValuesAt(rows, t)) = 1 THEN ValuesAt(rows, t)[1] ELSE NaN]]

MappedRow(node, row) ==
  [labels |-> Restricted(row.labels, node.names),
   at |-> [t \in IF Inverted(node.func, node.args) THEN {} ELSE DOMAIN row.at |->
             MapValue(node.func, node.args, t, row.at[t])]]

OperatorRow(node, row) ==
  [labels |-> Restricted(row.labels, node.names),
   at |-> Present(DOMAIN row.at, LAMBDA t : OperatorSample(node, row.at[t]))]

\* A source's series, where one that takes a grouping for a projection drops
\* the labels it does not name.
SeriesOf(p, scan) ==
  LET names(labels) == IF p.projected /\ scan.grouping # None THEN DOMAIN labels \cap scan.grouping[1]
                       ELSE DOMAIN labels
  IN  MapRows(AsSeq(scan.series),
              LAMBDA n : [p.source[n] EXCEPT !.labels = Restricted(@, names(@))])

RECURSIVE Run(_, _)
Run(p, node) ==
  LET input == Run(p, node.input)
      series == SeriesOf(p, node.input)
  IN
  CASE node.node = "table" -> Rows(<<[labels |-> <<>>, at |-> node.values]>>)
    [] node.node = "kernel" -> Rows(MapRows(series, LAMBDA s : KernelRow(node, s)))
    [] node.node = "window" -> Rows(MapRows(series, LAMBDA s : WindowRow(node, s)))
    [] node.node = "map" -> [input EXCEPT !.rows = MapRows(@, LAMBDA r : MappedRow(node, r))]
    [] node.node = "operator" -> [input EXCEPT !.rows = MapRows(@, LAMBDA r : OperatorRow(node, r))]
    [] node.node = "absent" -> [input EXCEPT !.rows = <<AbsentRow(p, node.labels, @)>>]
    [] node.node = "scalar" -> [input EXCEPT !.rows = <<ScalarRow(p, @)>>]
    [] node.node = "group" -> [input EXCEPT !.rows = GroupRows(node, @)]
    [] node.node = "sort" -> input
    [] node.node = "pair" ->
         LET lhs == Run(p, node.lhs)
             rhs == Run(p, node.rhs)
             pairs == PairRows(p, node, lhs.rows, rhs.rows)
         IN  [pairs EXCEPT !.failed = @ \/ lhs.failed \/ rhs.failed]

-----------------------------------------------------------------------------
\* finalize: a label set's samples, none of which may be shared by two rows.
NonEmpty(labels) == {<<n, labels[n]>> : n \in {m \in DOMAIN labels : labels[m] # ""}}

Finalized(run) ==
  LET clash == \E m, n \in DOMAIN run.rows :
                 /\ m # n /\ NonEmpty(run.rows[m].labels) = NonEmpty(run.rows[n].labels)
                 /\ DOMAIN run.rows[m].at \cap DOMAIN run.rows[n].at # {}
  IN  IF run.failed \/ clash THEN [failed |-> TRUE, samples |-> {}]
      ELSE [failed |-> FALSE,
            samples |-> UNION {{[labels |-> NonEmpty(run.rows[n].labels), t |-> t,
                                 value |-> run.rows[n].at[t]] : t \in DOMAIN run.rows[n].at} :
                               n \in DOMAIN run.rows}]

Execute(p, plan) == Finalized(Run(p, plan))
=============================================================================
