------------------------------- MODULE Script -------------------------------
(***************************************************************************)
(* The scanner of promqltest scripts                                       *)
(* (promql-conformance/src/prometheus/script.rs): a file is cut into       *)
(* commands at its blank lines, a load block gives the series lines that   *)
(* can be read and keeps note of those that cannot, an eval block gives    *)
(* the query, when it is asked and what it must answer.                    *)
(*                                                                         *)
(* A line is a record whose kind says how its text begins: blank, comment, *)
(* clear, load, eval, the expect lines by their shape, number, series, or  *)
(* unread.  What the regexes and the grammar of series find in the text    *)
(* are fields: Bad where they find nothing, times in milliseconds.  A line *)
(* made of the tokens of a series, whatever its kind, has them under       *)
(* `tokens`, and another what can be read of its labels under `labels`.    *)
(*                                                                         *)
(* The tokens of a series description (promql-parser/src/actions.rs from   *)
(* metric_with_name on, and the rules metric, label_set, series_values and *)
(* series_item of grammar.y) are a label set and a sequence of items that  *)
(* each stand for one value or a run: a record of the name before its      *)
(* braces or None, its labels as pairs, where a quoted string alone is a   *)
(* pair of None and the string, and its items.  A gap is `_`; a value is a *)
(* number or a word, with or without a step; and both may have a count, the *)
(* number after `x`.                                                       *)
(***************************************************************************)
EXTENDS Integers, Sequences, FiniteSets, FiniteSetsExt, SequencesExt

CONSTANTS
  Unknown,   \* the labels of a line that has none that can be read
  Bad,       \* what a malformed text or a duration that does not parse reads as
  Omitted,   \* a value left out of a series, `_`
  None,      \* no such part
  Stale,     \* the stale marker
  NaN,       \* an ordinary NaN
  MaxRepeat  \* MAX_REPEAT_COUNT: the most a count may say

ASSUME MaxRepeatAssumption == MaxRepeat \in Nat

-----------------------------------------------------------------------------
(***************************************************************************)
(* Label sets.                                                             *)
(***************************************************************************)
LabelItem(pair) == IF pair[1] = None THEN <<"__name__", pair[2]>> ELSE pair

\* A name in front goes first and takes the empty labels out; one in the braces
\* leaves them.
MetricWithName(name, labels) ==
  <<<<"__name__", name>>>> \o SelectSeq(labels, LAMBDA pair : pair[2] # "")

Metric(text) ==
  LET labels == [n \in DOMAIN text.labels |-> LabelItem(text.labels[n])]
  IN  IF text.name = None THEN labels ELSE MetricWithName(text.name, labels)

-----------------------------------------------------------------------------
(***************************************************************************)
(* Values.                                                                 *)
(***************************************************************************)
\* The sum of two floats: of a stale marker and a number it is a NaN that is no
\* stale marker, since a sum is never a signalling NaN.
Plus(x, y) == IF {x, y} \cap {NaN, Stale} # {} THEN NaN ELSE x + y

\* MAX_DESCRIPTION_VALUES: what one longest run expands to.
MaxValues == MaxRepeat + 1

Uint(count) == IF count > MaxRepeat THEN Bad ELSE count

\* Variant: a run of gaps has one for time zero, as a run of values has.
RepeatOmittedToo(count) == [n \in 1 .. count + 1 |-> Omitted]

\* A run of gaps is as many as its count says.
RepeatOmitted(count) == [n \in 1 .. count |-> Omitted]

\* A run of values has one more, for time zero; the step is added every time, and a
\* run without one adds zero.
SeriesRepeat(start, step, count) ==
  LET val[n \in 0 .. count] == IF n = 0 THEN start ELSE Plus(val[n - 1], step)
  IN  [n \in 1 .. count + 1 |-> val[n - 1]]

StaleValue(word) == IF word = "stale" THEN Stale ELSE Bad

SeriesValue(item) == IF item.word # None THEN StaleValue(item.word) ELSE item.value

\* A step is only read where a count follows.
SeriesItem(item) ==
  LET count == IF item.times = None THEN None ELSE Uint(item.times)
  IN  CASE count = Bad -> Bad
        [] item.is = "gap" /\ count # Bad -> IF count = None THEN <<Omitted>> ELSE RepeatOmitted(count)
        [] OTHER ->
             CASE SeriesValue(item) = Bad \/ (count = None /\ item.step # None) -> Bad
               [] SeriesValue(item) # Bad /\ count = None /\ item.step = None -> <<SeriesValue(item)>>
               [] OTHER -> SeriesRepeat(SeriesValue(item), IF item.step = None THEN 0 ELSE item.step, count)

\* Variant: each run is bounded, the line is not.
ExtendUnbounded(values, more) == IF Bad \in {values, more} THEN Bad ELSE values \o more

\* All the runs of a line share one bound.
ExtendValues(values, more) ==
  IF Bad \in {values, more} \/ Len(values) + Len(more) > MaxValues THEN Bad ELSE values \o more

SeriesValues(items) ==
  FoldLeft(LAMBDA values, item : ExtendValues(values, SeriesItem(item)), <<>>, items)

\* The description a text reads as, or none.
SeriesDescription(text) ==
  LET values == SeriesValues(text.items)
  IN  IF values = Bad THEN <<>> ELSE <<[labels |-> Metric(text), values |-> values]>>

-----------------------------------------------------------------------------
(***************************************************************************)
(* The lines of a script.                                                  *)
(***************************************************************************)

Blank == [kind |-> "blank"]

\* Whole-line comments are blanked, so they end a block as an empty line does.
Clean(lines) == [n \in DOMAIN lines |-> IF lines[n].kind = "comment" THEN Blank ELSE lines[n]]

\* The line after a block: the first blank one.
BlockEnd(lines, start) ==
  Min({Len(lines) + 1} \cup {n \in DOMAIN lines : n > start /\ lines[n].kind = "blank"})

Fault(what, line) == [kind |-> "fault", what |-> what, line |-> line]

\* A line as the grammar of series reads it: one series, or none.
SeriesOf(line) == IF "tokens" \in DOMAIN line THEN SeriesDescription(line.tokens) ELSE <<>>

\* Labels as written, a name perhaps repeated: the last value of a name counts.
LabelsOf(pairs) ==
  [name \in {pairs[n][1] : n \in DOMAIN pairs} |->
     pairs[Max({n \in DOMAIN pairs : pairs[n][1] = name})][2]]

\* The label part of a line whose values the grammar rejects.
SeriesLabels(line) ==
  CASE "tokens" \in DOMAIN line -> LabelsOf(Metric(line.tokens))
    [] "labels" \in DOMAIN line -> line.labels
    [] OTHER -> Unknown

\* A line that does not read is kept, with why: `{{` is a native histogram.
UnsupportedLine(line) ==
  [labels |-> SeriesLabels(line),
   reason |-> IF line.kind = "unread" /\ line.braces THEN "NativeHistogram" ELSE "ParseError"]

-----------------------------------------------------------------------------
(***************************************************************************)
(* Load blocks.                                                            *)
(***************************************************************************)
Block(lines, i) == SubSeq(lines, i + 1, BlockEnd(lines, i) - 1)

ReadSeries(body) == FlattenSeq([n \in DOMAIN body |-> SeriesOf(body[n])])

Unreadable(body) ==
  LET lost == SelectSeq(body, LAMBDA line : SeriesOf(line) = <<>>)
  IN  [n \in DOMAIN lost |-> UnsupportedLine(lost[n])]

ReadLoad(lines, i) ==
  LET directive == lines[i]
  IN  CASE directive.form = Bad -> Fault("MissingLoadDirective", i)
        [] directive.interval = Bad -> Fault("InvalidInterval", i)
        [] OTHER ->
             [kind |-> "load", line |-> i, interval |-> directive.interval,
              with_nhcb |-> directive.form = "load_with_nhcb",
              parsed |-> ReadSeries(Block(lines, i)), unsupported |-> Unreadable(Block(lines, i))]

-----------------------------------------------------------------------------
(***************************************************************************)
(* Eval blocks.                                                            *)
(***************************************************************************)
NoExpect == [fail |-> None, ordered |-> FALSE, annotations |-> FALSE]

\* An expect line and the prefix of eval set the same fields; a match is kept
\* with a failure, and of warn, info and their no_ forms that there was one.
ApplyExpect(expect, what, match) ==
  CASE what = "fail" -> [expect EXCEPT !.fail = match]
    [] what = "ordered" -> [expect EXCEPT !.ordered = TRUE]
    [] OTHER -> [expect EXCEPT !.annotations = TRUE]

ParseRange(range, line) ==
  CASE Bad \in {range.start, range.end, range.step} -> Fault("BadDuration", line)
    [] range.end < range.start -> Fault("BackwardsRange", line)
    [] OTHER -> [kind |-> "range", start |-> range.start, end |-> range.end, step |-> range.step]

\* The directive: the regex of instant queries, where at is 0 unless given, then
\* the one of range queries, which takes no `ordered`.
Timing(directive, line) ==
  CASE directive.form = "instant" ->
         IF directive.at = Bad THEN Fault("BadDuration", line)
         ELSE [kind |-> "instant", at |-> IF directive.at = None THEN 0 ELSE directive.at]
    [] directive.form = "range" /\ directive.modifier # "ordered" -> ParseRange(directive.range, line)
    [] OTHER -> Fault("MalformedEval", line)

\* What has been read of an eval block: it is open until a bare number or a fault
\* ends it, and pos counts the value rows, readable or not.
EmptyEval(directive, timing) ==
  [open |-> TRUE, fault |-> None, timing |-> timing, range_vector |-> None,
   expect |-> IF directive.modifier = None THEN NoExpect
              ELSE ApplyExpect(NoExpect, directive.modifier, "any"),
   expected |-> [kind |-> "nothing"], rows |-> <<>>, unsupported |-> <<>>, pos |-> 0]

Failed(read, what, line) == [read EXCEPT !.open = FALSE, !.fault = Fault(what, line)]

ReadRangeVector(read, row, line) ==
  IF row.range = Bad THEN Failed(read, "MalformedExpect", line)
  ELSE LET range == ParseRange(row.range, line)
       IN  IF range.kind = "fault" THEN [read EXCEPT !.open = FALSE, !.fault = range]
           ELSE [read EXCEPT !.range_vector = range]

ReadString(read, row, line) ==
  IF row.text = Bad THEN Failed(read, "MalformedExpect", line)
  ELSE [read EXCEPT !.expected = [kind |-> "string", text |-> row.text]]

ReadExpect(read, row, line) ==
  IF row.what = Bad THEN Failed(read, "MalformedExpect", line)
  ELSE [read EXCEPT !.expect = ApplyExpect(@, row.what, row.match)]

\* Variant: a bare number is one more row.
ReadNumberOpen(read, row) == [read EXCEPT !.expected = [kind |-> "scalar", value |-> row.value]]

\* A bare number is the whole result: the rest of the block is not read.
ReadNumber(read, row) ==
  [read EXCEPT !.open = FALSE, !.expected = [kind |-> "scalar", value |-> row.value]]

ReadValues(read, row, line) ==
  LET pos == read.pos + 1
      series == SeriesOf(row)
  IN  CASE series = <<>> ->
             [read EXCEPT !.pos = pos, !.unsupported = Append(@, UnsupportedLine(row))]
        [] /\ series # <<>>
           /\ read.timing.kind = "instant" /\ read.range_vector = None /\ Len(series[1].values) > 1 ->
             Failed(read, "MultipleInstantValues", line)
        [] OTHER -> [read EXCEPT !.pos = pos, !.rows = Append(@, [desc |-> series[1], pos |-> pos])]

ReadRow(read, row, line) ==
  CASE row.kind = "expect range" -> ReadRangeVector(read, row, line)
    [] row.kind = "expect string" -> ReadString(read, row, line)
    [] row.kind = "expect" -> ReadExpect(read, row, line)
    [] row.kind = "number" -> ReadNumber(read, row)
    [] OTHER -> ReadValues(read, row, line)

ReadRows(read, lines, i) ==
  FoldLeftDomain(
    LAMBDA sofar, n : IF sofar.open THEN ReadRow(sofar, Block(lines, i)[n], i + n) ELSE sofar,
    read, Block(lines, i))

\* Value rows, where there are any, are what the query must answer.
ReadEval(lines, i) ==
  LET timing == Timing(lines[i], i)
      read == ReadRows(EmptyEval(lines[i], timing), lines, i)
  IN  CASE timing.kind = "fault" -> timing
        [] timing.kind # "fault" /\ read.fault # None -> read.fault
        [] OTHER ->
             [kind |-> "eval", line |-> i, query |-> lines[i].query, timing |-> timing,
              range_vector |-> read.range_vector, expect |-> read.expect,
              expected |-> IF read.rows # <<>> THEN [kind |-> "series", rows |-> read.rows]
                           ELSE read.expected,
              unsupported |-> read.unsupported]

\* The command at a line that is not blank, by its first word; `clear` takes its
\* own line only.
CommandAt(lines, i) ==
  CASE lines[i].kind = "clear" -> [kind |-> "clear", line |-> i]
    [] lines[i].kind = "load" -> ReadLoad(lines, i)
    [] lines[i].kind = "eval" -> ReadEval(lines, i)
    [] OTHER -> Fault("UnknownCommand", i)

NextLine(lines, i) == IF lines[i].kind = "clear" THEN i + 1 ELSE BlockEnd(lines, i)
=============================================================================
