----------------------------- MODULE TestEngine -----------------------------
(***************************************************************************)
(* The engine behind the conformance harness                               *)
(* (promql-conformance/src/datafusion.rs and result.rs): each eval seeds a *)
(* store of its own from the load blocks above it, and what the engine     *)
(* says is put in the terms a script is compared in.                       *)
(*                                                                         *)
(* The engine under test is an input.  A build gives every query a way of  *)
(* answering: right, or wrong in a way an engine has been.  A query is a   *)
(* record: its text, its tree, whether it parses with every gate open, the *)
(* gates the stock parser would raise, the words in its text, and the type *)
(* of its answer, with the value of a scalar or a string.                  *)
(***************************************************************************)
EXTENDS Script

CONSTANTS
  Lookback,   \* how far back a selector looks for a sample
  WrongBy     \* how far off the answers of a wrong build are

-----------------------------------------------------------------------------
(***************************************************************************)
(* The store of an eval.                                                   *)
(***************************************************************************)
\* Empty values drop out first, as they do in a store.
StoredLabels(pairs) == LabelsOf(SelectSeq(pairs, LAMBDA pair : pair[2] # ""))

\* Value i of a series is i - 1 intervals from the epoch; an omitted one is no sample.
Samples(desc, interval) ==
  LET given == {i \in DOMAIN desc.values : desc.values[i] # Omitted}
  IN  [t \in {(i - 1) * interval : i \in given} |->
         desc.values[Max({i \in given : (i - 1) * interval = t})]]

\* Variant: the first write wins.
WriteOnce(store, desc, interval) ==
  LET labels == StoredLabels(desc.labels)
      new == Samples(desc, interval)
      samples == IF labels \in DOMAIN store THEN store[labels] @@ new ELSE new
  IN  (labels :> samples) @@ store

\* A later write of the same label set at the same time wins.
Write(store, desc, interval) ==
  LET labels == StoredLabels(desc.labels)
      new == Samples(desc, interval)
      samples == IF labels \in DOMAIN store THEN new @@ store[labels] ELSE new
  IN  (labels :> samples) @@ store

\* The load blocks as one store, each with its own interval.
MergeBlocks(load) ==
  FoldLeft(LAMBDA store, block :
             FoldLeft(LAMBDA sofar, desc : Write(sofar, desc, block.interval), store, block.series),
           <<>>, load)

-----------------------------------------------------------------------------
(***************************************************************************)
(* The selectors of a query, and the series they match.                    *)
(***************************************************************************)
RECURSIVE Selectors(_)
\* Every selector of a tree, those of an aggregation's parameter included.
Selectors(tree) ==
  CASE tree.node = "selector" -> {tree.matchers}
    [] tree.node = "literal" -> {}
    [] OTHER -> UNION {Selectors(tree.args[n]) : n \in DOMAIN tree.args}

RECURSIVE HasSubquery(_)
HasSubquery(tree) ==
  \/ tree.node = "subquery"
  \/ tree.node \notin {"selector", "literal"} /\ \E n \in DOMAIN tree.args : HasSubquery(tree.args[n])

\* A label that is not there compares as the empty value.  A matcher has the set of
\* the values its text stands for, one of them for = and !=, and matches those or
\* the others.
Matches(matcher, labels) ==
  LET value == IF matcher.label \in DOMAIN labels THEN labels[matcher.label] ELSE ""
  IN  (value \in matcher.values) = (matcher.op \in {"=", "=~"})

MatchesAll(matchers, labels) == \A m \in matchers : Matches(m, labels)

\* A regex that does not compile.
Uncompiled(matchers) == \E m \in matchers : m.values = Bad

-----------------------------------------------------------------------------
(***************************************************************************)
(* The engine under test: rows of points for the label sets selected, in   *)
(* an order of its own, or an error.  Code outside this module; what it    *)
(* should answer is the subject of the other specifications.               *)
(***************************************************************************)
\* A set as a sequence, in an order that depends on the set alone.
InSomeOrder(set) == FoldSet(LAMBDA x, seq : Append(seq, x), <<>>, set)

Selected(query, store) ==
  {labels \in DOMAIN store : \E m \in Selectors(query.tree) : MatchesAll(m, labels)}

\* The samples a selector takes at a time: the last one, unless it is stale.
LiveAt(samples, at) ==
  LET seen == {t \in DOMAIN samples : t <= at /\ t > at - Lookback}
  IN  IF seen = {} \/ samples[Max(seen)] = Stale THEN {} ELSE {Max(seen)}

Point(t, v) == [t |-> t, v |-> v]

\* Numbers in ascending order.
InOrder(set) ==
  [n \in 1 .. Cardinality(set) |-> CHOOSE x \in set : Cardinality({y \in set : y < x}) = n - 1]

TimesOf(range) == {range.start + k * range.step : k \in 0 .. (range.end - range.start) \div range.step}

\* The points of a series over a set of times, and those in the window of a range.
StepPoints(samples, times) ==
  LET live == {t \in times : LiveAt(samples, t) # {}}
  IN  [n \in 1 .. Cardinality(live) |->
         LET t == InOrder(live)[n] IN Point(t, samples[Max(LiveAt(samples, t))])]

WindowPoints(samples, at) ==
  LET seen == {t \in DOMAIN samples : t <= at /\ t > at - Lookback /\ samples[t] # Stale}
  IN  [n \in 1 .. Cardinality(seen) |-> Point(InOrder(seen)[n], samples[InOrder(seen)[n]])]

Rows(query, store, Points(_)) ==
  LET rows == [labels \in Selected(query, store) |-> Points(store[labels])]
      kept == InSomeOrder({labels \in DOMAIN rows : rows[labels] # <<>>})
  IN  [n \in DOMAIN kept |-> [labels |-> kept[n], points |-> rows[kept[n]]]]

Shifted(value) == IF value \in {NaN, Stale} THEN 0 ELSE value + WrongBy

\* A row per block, as a store of blocks answers a range query.
Halved(row) ==
  IF Len(row.points) < 2 THEN <<row>>
  ELSE <<[row EXCEPT !.points = SubSeq(@, 1, 1)], [row EXCEPT !.points = Tail(@)]>>

Doubled(row) == [row EXCEPT !.points = Append(@, Point(Head(@).t + 1, Head(@).v))]

Shift(row) == [row EXCEPT !.points = [n \in DOMAIN @ |-> Point(@[n].t, Shifted(@[n].v))]]

\* How the rows of a right answer come out of a build.
Bent(way, rows) ==
  CASE way = "wrong" -> [n \in DOMAIN rows |-> Shift(rows[n])]
    [] way = "short" -> IF rows = <<>> THEN <<>> ELSE Tail(rows)
    [] way = "reversed" -> Reverse(rows)
    [] way = "doubled" -> [n \in DOMAIN rows |-> Doubled(rows[n])]
    [] way = "halved" -> FlattenSeq([n \in DOMAIN rows |-> Halved(rows[n])])
    [] OTHER -> rows

Raised(what) == [is |-> "raised", what |-> what]

Answered(type, way, query, store, Points(_)) ==
  [is |-> type, rows |-> Bent(way, Rows(query, store, Points))]

Constant(way, query) ==
  IF way = "wrong" /\ query.type = "scalar" THEN Shifted(query.value) ELSE query.value

\* An error of each kind, for the builds that raise them and the queries none can answer.
Refused(query) == ~query.parses \/ \E m \in Selectors(query.tree) : Uncompiled(m)

Refusal(way, query) ==
  CASE Refused(query) -> <<Raised("user error")>>
    [] ~Refused(query) /\ way = "unsupported" -> <<Raised("unsupported")>>
    [] ~Refused(query) /\ way = "refuses" -> <<Raised("user error")>>
    [] ~Refused(query) /\ way = "broken" -> <<Raised("internal")>>
    [] OTHER -> <<>>

InnerInstant(way, query, store, at) ==
  CASE Refusal(way, query) # <<>> -> Refusal(way, query)[1]
    [] Refusal(way, query) = <<>> /\ query.type = "vector" ->
         Answered("vector", way, query, store, LAMBDA samples : StepPoints(samples, {at}))
    [] Refusal(way, query) = <<>> /\ query.type = "matrix" ->
         Answered("matrix", way, query, store, LAMBDA samples : WindowPoints(samples, at))
    [] OTHER -> [is |-> query.type, value |-> Constant(way, query)]

\* A range query has no string and no range vector; a scalar is a series of no labels.
InnerRange(way, query, store, range) ==
  LET times == TimesOf(range)
  IN  CASE Refusal(way, query) # <<>> -> Refusal(way, query)[1]
        [] Refusal(way, query) = <<>> /\ query.type \in {"string", "matrix"} -> Raised("user error")
        [] Refusal(way, query) = <<>> /\ query.type = "scalar" ->
             [is |-> "matrix",
              rows |-> <<[labels |-> <<>>,
                          points |-> [n \in 1 .. Cardinality(times) |->
                                        Point(range.start + (n - 1) * range.step, Constant(way, query))]]>>]
        [] OTHER ->
             Answered("matrix", way, query, store, LAMBDA samples : StepPoints(samples, times))

-----------------------------------------------------------------------------
(***************************************************************************)
(* The seam: rows to series, and errors by what they say of the query.     *)
(***************************************************************************)
\* One series per label set, its rows joined in order; two rows that do not
\* follow one another are no series.
Joined(rows, labels) ==
  FlattenSeq([n \in DOMAIN rows |-> IF rows[n].labels = labels THEN rows[n].points ELSE <<>>])

SeriesOfRows(rows) ==
  LET first == SelectSeq([n \in DOMAIN rows |-> n],
                         LAMBDA n : \A m \in 1 .. n - 1 : rows[m].labels # rows[n].labels)
  IN  [k \in DOMAIN first |->
         [labels |-> rows[first[k]].labels, points |-> Joined(rows, rows[first[k]].labels)]]

Decoded(rows) ==
  \A n \in DOMAIN SeriesOfRows(rows) :
    LET points == SeriesOfRows(rows)[n].points
    IN  \A k \in 1 .. Len(points) - 1 : points[k].t < points[k + 1].t

MatrixOf(rows) == IF Decoded(rows) THEN [is |-> "matrix", rows |-> SeriesOfRows(rows)] ELSE [is |-> "other"]

\* A query the engine rejects is an answer, a feature it lacks is not built yet,
\* and the rest is a bug.
Failure(what) ==
  CASE what = "unsupported" -> [is |-> "unsupported"]
    [] what = "user error" -> [is |-> "error"]
    [] OTHER -> [is |-> "other"]

\* Every sample of a vector is stamped with the time of the query, and a series
\* of it has one.
VectorOf(rows, at) ==
  LET series == SeriesOfRows(rows)
  IN  IF ~Decoded(rows) \/ \E n \in DOMAIN series : Len(series[n].points) # 1 THEN [is |-> "other"]
      ELSE [is |-> "vector",
            rows |-> [n \in DOMAIN series |->
                        [labels |-> series[n].labels, t |-> at, v |-> series[n].points[1].v]]]

RangeQuery(way, load, query, range) ==
  LET answer == InnerRange(way, query, MergeBlocks(load), range)
  IN  IF answer.is = "raised" THEN Failure(answer.what) ELSE MatrixOf(answer.rows)

\* An engine without instant queries answers with a range query of one step.
InstantQuery(way, load, query, at) ==
  LET answer == InnerInstant(way, query, MergeBlocks(load), at)
  IN  CASE way = "ranged" ->
             RangeQuery(way, load, query, [start |-> at, end |-> at, step |-> 1])
        [] way # "ranged" /\ answer.is = "raised" -> Failure(answer.what)
        [] way # "ranged" /\ answer.is = "vector" -> VectorOf(answer.rows, at)
        [] way # "ranged" /\ answer.is = "matrix" -> MatrixOf(answer.rows)
        [] OTHER -> answer
=============================================================================
