------------------------------ MODULE Verdicts ------------------------------
(***************************************************************************)
(* How one eval of a script is judged                                      *)
(* (promql-conformance/src/prometheus/run.rs): what of the loaded data it  *)
(* may read, which flags its query needs, and whether the engine's answer  *)
(* is the one expected.                                                    *)
(*                                                                         *)
(* Values are integers, the smallest normal float is the constant          *)
(* MinPositive and the tolerance is 1 / Precision.                         *)
(***************************************************************************)
EXTENDS TestEngine

CONSTANTS
  Precision,    \* one over the relative tolerance
  MinPositive,  \* the smallest normal value
  BaseName,     \* name -> what is left of it without _bucket, _sum or _count, or None
  FeatureFlags, \* the parser's flags, in its order
  GatedByFile   \* files whose syntax has no productions yet -> the flag they need

Abs(x) == IF x < 0 THEN -x ELSE x

\* A stale marker equals a stale marker only, and a NaN a NaN; near zero the
\* tolerance is relative to the smallest normal value.
AlmostEqual(a, b) ==
  CASE Stale \in {a, b} -> a = b
    [] Stale \notin {a, b} /\ NaN \in {a, b} -> a = b
    [] {a, b} \cap {Stale, NaN} = {} /\ a = b -> TRUE
    [] OTHER -> LET sum == Abs(a) + Abs(b)
                IN  Precision * Abs(a - b) < IF a = 0 \/ b = 0 \/ sum < MinPositive THEN MinPositive ELSE sum

-----------------------------------------------------------------------------
(***************************************************************************)
(* What an eval sees of the blocks above it.                               *)
(***************************************************************************)
\* The series a block holds as native histograms: its `{{` lines, and what
\* load_with_nhcb derives from the classic ones, without their suffix and `le`.
NativeLines(load) ==
  {load.unsupported[n].labels :
     n \in {m \in DOMAIN load.unsupported : load.unsupported[m].reason = "NativeHistogram"}}

Derived(labels) ==
  [name \in DOMAIN labels \ {"le"} |->
     IF name = "__name__" THEN BaseName[labels[name]] ELSE labels[name]]

HistogramSeries(load) ==
  NativeLines(load) \cup
  (IF ~load.with_nhcb THEN {}
   ELSE {Derived(labels) :
           labels \in {x \in {LabelsOf(load.parsed[n].labels) : n \in DOMAIN load.parsed} :
                         "__name__" \in DOMAIN x /\ BaseName[x["__name__"]] # None}})

BlockOfLoad(load) ==
  [series |-> load.parsed, interval |-> load.interval,
   unloaded |-> {load.unsupported[n].labels : n \in DOMAIN load.unsupported},
   histograms |-> HistogramSeries(load)]

\* May the query read one of the series?  One of unknown labels matches every
\* selector; a query nobody parses is taken to read the names it mentions.
Selects(query, series) ==
  /\ series # {}
  /\ IF query.parses
     THEN \E m \in Selectors(query.tree) :
            /\ ~Uncompiled(m)
            /\ \E labels \in series : labels = Unknown \/ MatchesAll(m, labels)
     ELSE \/ Unknown \in series
          \/ \E labels \in series \ {Unknown} :
               "__name__" \in DOMAIN labels /\ labels["__name__"] \in query.words

InBlocks(active, Part(_)) == UNION {Part(active[n]) : n \in DOMAIN active}

HasHistograms(eval, active) ==
  \/ \E n \in DOMAIN eval.unsupported : eval.unsupported[n].reason = "NativeHistogram"
  \/ Selects(eval.query, InBlocks(active, LAMBDA block : block.histograms))

\* The flags the stock parse names, in the parser's order, or the file's.
GatingFlags(file, query) ==
  LET needed == SelectSeq(FeatureFlags, LAMBDA flag : flag \in query.gates)
  IN  CASE needed # <<>> -> needed
        [] needed = <<>> /\ ~query.parses /\ file \in DOMAIN GatedByFile -> <<GatedByFile[file]>>
        [] OTHER -> <<>>

-----------------------------------------------------------------------------
(***************************************************************************)
(* The answer against what is expected.                                    *)
(***************************************************************************)
\* What to compare as: by what the script says, then by the kind of query.
Shape(eval) ==
  CASE eval.expected.kind \in {"string", "scalar"} -> eval.expected.kind
    [] eval.expected.kind \notin {"string", "scalar"} /\ eval.range_vector # None -> "matrix"
    [] OTHER -> IF eval.timing.kind = "range" THEN "matrix" ELSE "vector"

\* Expected rows with their points: value i is i - 1 steps from the start.
ExpectedRows(eval, start, step) ==
  IF eval.expected.kind # "series" THEN <<>>
  ELSE [n \in DOMAIN eval.expected.rows |->
          LET row == eval.expected.rows[n]
              given == SelectSeq([i \in DOMAIN row.desc.values |-> i],
                                 LAMBDA i : row.desc.values[i] # Omitted)
          IN  [labels |-> LabelsOf(row.desc.labels), pos |-> row.pos,
               points |-> [k \in DOMAIN given |->
                             Point(start + (given[k] - 1) * step, row.desc.values[given[k]])]]]

\* The vector of an instant query, or that of a one-step matrix, whose series have
\* a point or none; with more the harness itself is wrong.
NormaliseVector(answer) ==
  CASE answer.is = "vector" -> <<answer.rows>>
    [] answer.is = "matrix" ->
         IF \E n \in DOMAIN answer.rows : Len(answer.rows[n].points) > 1 THEN <<>>
         ELSE LET kept == SelectSeq(answer.rows, LAMBDA row : row.points # <<>>)
              IN  <<[n \in DOMAIN kept |->
                       [labels |-> kept[n].labels, t |-> kept[n].points[1].t, v |-> kept[n].points[1].v]]>>
    [] OTHER -> <<>>

NormaliseScalar(answer) ==
  CASE answer.is = "scalar" -> <<answer.value>>
    [] answer.is = "matrix" ->
         IF Len(answer.rows) = 1 /\ Len(answer.rows[1].points) = 1 THEN <<answer.rows[1].points[1].v>>
         ELSE <<>>
    [] OTHER -> <<>>

\* A row expected without a value is expected to be NaN.
FirstValue(row) == IF row.points = <<>> THEN NaN ELSE row.points[1].v

\* The answer's row of a label set: the last one, as a map keeps it.
RowOf(got, labels) == got[Max({n \in DOMAIN got : got[n].labels = labels})]

HasRow(got, labels) == \E n \in DOMAIN got : got[n].labels = labels

\* Variant: the counts are not compared.
CompareVectorWithin(want, got, ordered) ==
  IF ordered /\ Len(want) <= Len(got)
  THEN LET byPos == SortSeq(want, LAMBDA v, w : v.pos < w.pos)
       IN  \A n \in DOMAIN byPos :
             byPos[n].labels = got[n].labels /\ AlmostEqual(FirstValue(byPos[n]), got[n].v)
  ELSE \A n \in DOMAIN want :
         /\ HasRow(got, want[n].labels)
         /\ AlmostEqual(FirstValue(want[n]), RowOf(got, want[n].labels).v)

CompareVector(want, got, ordered) ==
  /\ Len(want) = Len(got)
  /\ IF ordered
     THEN LET byPos == SortSeq(want, LAMBDA v, w : v.pos < w.pos)
          IN  \A n \in DOMAIN byPos :
                byPos[n].labels = got[n].labels /\ AlmostEqual(FirstValue(byPos[n]), got[n].v)
     ELSE \A n \in DOMAIN want :
            /\ HasRow(got, want[n].labels)
            /\ AlmostEqual(FirstValue(want[n]), RowOf(got, want[n].labels).v)

SamePoint(want, got) == want.t = got.t /\ AlmostEqual(want.v, got.v)

CompareMatrix(want, got) ==
  /\ Len(want) = Len(got)
  /\ \A n \in DOMAIN want :
       /\ HasRow(got, want[n].labels)
       /\ LET points == RowOf(got, want[n].labels).points
          IN  /\ Len(want[n].points) = Len(points)
              /\ \A k \in DOMAIN points : SamePoint(want[n].points[k], points[k])

\* A failure that is expected is any failure; otherwise a failure never passes.
Verify(eval, answer) ==
  IF eval.expect.fail # None THEN answer.is = "error"
  ELSE
    /\ answer.is # "error"
    /\ CASE Shape(eval) = "string" -> answer.is = "string" /\ answer.value = eval.expected.text
         [] Shape(eval) = "scalar" ->
              \E v \in ToSet(NormaliseScalar(answer)) : AlmostEqual(eval.expected.value, v)
         [] Shape(eval) = "vector" ->
              \E got \in ToSet(NormaliseVector(answer)) :
                CompareVector(ExpectedRows(eval, 0, 0), got, eval.expect.ordered)
         [] OTHER ->
              LET range == IF eval.range_vector # None THEN eval.range_vector ELSE eval.timing
              IN  answer.is = "matrix" /\ CompareMatrix(ExpectedRows(eval, range.start, range.step), answer.rows)

\* An eval is asked only if its rows and all the data it may read can be read; a
\* block that loads nothing is not handed over.
Evaluate(way, eval, active) ==
  LET blocks == SelectSeq(active, LAMBDA block : block.series # <<>>)
      answer == IF eval.timing.kind = "instant"
                THEN InstantQuery(way, blocks, eval.query, eval.timing.at)
                ELSE RangeQuery(way, blocks, eval.query, eval.timing)
  IN  CASE \/ eval.unsupported # <<>>
           \/ Selects(eval.query, InBlocks(active, LAMBDA block : block.unloaded)) -> "skipped"
        [] OTHER ->
             CASE answer.is = "unsupported" -> "unsupported"
               [] answer.is = "other" -> "fail"
               [] OTHER -> IF Verify(eval, answer) THEN "pass" ELSE "fail"

\* An eval of experimental syntax runs like any other, and its verdict says so.
RunEval(way, file, eval, active) ==
  [flags |-> GatingFlags(file, eval.query), is |-> Evaluate(way, eval, active)]

IsGated(verdict) == verdict.flags # <<>>

IsPass(verdict) == ~IsGated(verdict) /\ verdict.is = "pass"

\* The query and the time it is asked at; an ordinal where a file repeats both.
CaseKey(eval) == <<eval.query.text, eval.timing>>

ExpectedCount(eval) ==
  CASE eval.expected.kind = "series" -> Len(eval.expected.rows)
    [] eval.expected.kind \in {"scalar", "string"} -> 1
    [] OTHER -> 0

-----------------------------------------------------------------------------
(***************************************************************************)
(* The evals the engine is held to                                         *)
(* (promql-conformance/src/prometheus/supported.rs), and where it stands   *)
(* (report.rs).  The list has a batch per file: the cases that must pass,  *)
(* or a keyword, of which "all" is the only good one.  An outcome is an    *)
(* eval that ran: its file, its id, its verdict, and what it is about.     *)
(***************************************************************************)

Keyword(word) == [form |-> "keyword", word |-> word]
Cases(ids) == [form |-> "cases", ids |-> ids]
All == Keyword("all")

IsAll(batch) == batch.form = "keyword" /\ batch.word = "all"

\* A keyword covers whatever the file has.
CoversCase(batch, id) == batch.form = "keyword" \/ id \in batch.ids

Covers(list, file, id) == file \in DOMAIN list /\ CoversCase(list[file], id)

BadKeyword(list) == \E file \in DOMAIN list : list[file].form = "keyword" /\ ~IsAll(list[file])

Ran(outcomes) == {outcomes[n] : n \in DOMAIN outcomes}

FilesOf(outcomes) == {o.file : o \in Ran(outcomes)}

OfFile(outcomes, file) == {o \in Ran(outcomes) : o.file = file}

PassingIds(outcomes, file) == {o.id : o \in {p \in OfFile(outcomes, file) : IsPass(p.verdict)}}

\* Variant: "all" is never taken back.
KeepsAllAlways(outcomes, previous, file) == file \in DOMAIN previous /\ IsAll(previous[file])

KeepsAll(outcomes, previous, file) ==
  /\ file \in DOMAIN previous /\ IsAll(previous[file])
  /\ \A o \in OfFile(outcomes, file) : IsPass(o.verdict)

\* The list a run makes: "all" stays where every eval of the file passes, and is
\* downgraded to the cases that do where not; a file with none is left out.
FromOutcomes(outcomes, previous) ==
  [file \in {f \in FilesOf(outcomes) :
               KeepsAll(outcomes, previous, f) \/ PassingIds(outcomes, f) # {}} |->
     IF KeepsAll(outcomes, previous, file) THEN All ELSE Cases(PassingIds(outcomes, file))]

Violation(kind, file, id) == [kind |-> kind, file |-> file, id |-> id]

\* Where the list and a run disagree.
Unlisted(list, outcomes) ==
  {Violation("unlisted", o.file, o.id) :
     o \in {p \in Ran(outcomes) : IsPass(p.verdict) /\ ~Covers(list, p.file, p.id)}}

Regressed(list, outcomes) ==
  {Violation("regressed", o.file, o.id) :
     o \in {p \in Ran(outcomes) : ~IsPass(p.verdict) /\ Covers(list, p.file, p.id)}}

MissingFiles(list, outcomes) ==
  {Violation("missing file", file, None) : file \in DOMAIN list \ FilesOf(outcomes)}

Orphaned(list, outcomes) ==
  UNION {{Violation("orphaned", file, id) :
            id \in list[file].ids \ {o.id : o \in OfFile(outcomes, file)}} :
           file \in {f \in DOMAIN list \cap FilesOf(outcomes) : list[f].form = "cases"}}

\* Variant: what no longer runs is not missed.
CheckListRan(list, outcomes) == Unlisted(list, outcomes) \cup Regressed(list, outcomes)

CheckList(list, outcomes) ==
  Unlisted(list, outcomes) \cup Regressed(list, outcomes)
    \cup MissingFiles(list, outcomes) \cup Orphaned(list, outcomes)

-----------------------------------------------------------------------------
(***************************************************************************)
(* The report.                                                             *)
(***************************************************************************)
\* Variant: an eval is filed under subqueries only while it fails.
CategoryByVerdict(o) ==
  CASE IsGated(o.verdict) -> "flag-gated"
    [] ~IsGated(o.verdict) /\ o.histograms -> "native histograms"
    [] ~IsGated(o.verdict) /\ ~o.histograms /\ o.subquery /\ o.verdict.is # "pass" -> "subquery"
    [] OTHER -> "core"

\* The part of the language an eval is about, first match wins.
Category(o) ==
  CASE IsGated(o.verdict) -> "flag-gated"
    [] ~IsGated(o.verdict) /\ o.histograms -> "native histograms"
    [] ~IsGated(o.verdict) /\ ~o.histograms /\ o.subquery -> "subquery"
    [] OTHER -> "core"

\* Looking through a gate.
Passed(o) == o.verdict.is = "pass"

Reason(o) ==
  CASE Category(o) # "core" \/ Passed(o) -> None
    [] Category(o) = "core" /\ o.verdict.is = "unsupported" -> "missing feature"
    [] OTHER -> "unattributed"

Count(outcomes, Test(_)) == Cardinality({n \in DOMAIN outcomes : Test(outcomes[n])})

\* Variant: a gated eval that passes is a pass of its file.
FileStatsThroughGates(outcomes, file) ==
  LET here(o) == o.file = file
      counted(o) == here(o) /\ Category(o) # "flag-gated"
  IN  [evals |-> Count(outcomes, counted),
       passed |-> Count(outcomes, LAMBDA o : here(o) /\ Passed(o)),
       skipped |-> Count(outcomes, LAMBDA o : counted(o) /\ o.verdict.is = "skipped"),
       gated |-> Count(outcomes, LAMBDA o : here(o) /\ Category(o) = "flag-gated"),
       histograms |-> Count(outcomes, LAMBDA o : here(o) /\ Category(o) = "native histograms"),
       subqueries |-> Count(outcomes, LAMBDA o : here(o) /\ Category(o) = "subquery"),
       core_passed |-> Count(outcomes, LAMBDA o : here(o) /\ Category(o) = "core" /\ Passed(o))]

\* The standing of one file; what is gated counts under nothing else.
FileStats(outcomes, file) ==
  LET here(o) == o.file = file
      counted(o) == here(o) /\ Category(o) # "flag-gated"
  IN  [evals |-> Count(outcomes, counted),
       passed |-> Count(outcomes, LAMBDA o : counted(o) /\ Passed(o)),
       skipped |-> Count(outcomes, LAMBDA o : counted(o) /\ o.verdict.is = "skipped"),
       gated |-> Count(outcomes, LAMBDA o : here(o) /\ Category(o) = "flag-gated"),
       histograms |-> Count(outcomes, LAMBDA o : here(o) /\ Category(o) = "native histograms"),
       subqueries |-> Count(outcomes, LAMBDA o : here(o) /\ Category(o) = "subquery"),
       core_passed |-> Count(outcomes, LAMBDA o : here(o) /\ Category(o) = "core" /\ Passed(o))]

CoreEvals(stats) == stats.evals - stats.histograms - stats.subqueries

PerFile(outcomes) == [file \in FilesOf(outcomes) |-> FileStats(outcomes, file)]

\* Passing and total evals of a category, and per flag: an eval that needs two
\* flags counts under both.
CategoryCounts(outcomes, category) ==
  [passed |-> Count(outcomes, LAMBDA o : Category(o) = category /\ Passed(o)),
   total |-> Count(outcomes, LAMBDA o : Category(o) = category)]

GatedByFlag(outcomes) ==
  [n \in DOMAIN FeatureFlags |->
     [passed |-> Count(outcomes, LAMBDA o : FeatureFlags[n] \in ToSet(o.verdict.flags) /\ Passed(o)),
      total |-> Count(outcomes, LAMBDA o : FeatureFlags[n] \in ToSet(o.verdict.flags))]]

\* What is written next to the list: the tables of the roadmap.
Inventory(outcomes) ==
  [categories |-> [c \in {"core", "native histograms", "subquery", "flag-gated"} |->
                     CategoryCounts(outcomes, c)],
   flags |-> GatedByFlag(outcomes),
   missing |-> Count(outcomes, LAMBDA o : Reason(o) = "missing feature"),
   unattributed |-> [file \in {o.file : o \in {p \in Ran(outcomes) : Reason(p) = "unattributed"}} |->
                       {o.id : o \in {p \in OfFile(outcomes, file) : Reason(p) = "unattributed"}}],
   files |-> PerFile(outcomes)]
=============================================================================
