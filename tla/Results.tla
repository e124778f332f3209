------------------------------ MODULE Results ------------------------------
(***************************************************************************)
(* What happens to the rows at the root of a plan: an explicit sort puts   *)
(* them in the order of their keys (sort.rs), finalize                     *)
(* (promql-engine/src/labelset.rs) drops the empty ones, orders the rest   *)
(* by labels and block, and refuses two rows of one label set that share a *)
(* timestamp; coalesce (promql-engine/src/series.rs) then joins the rows   *)
(* of a label set into the series of a Prometheus matrix.                  *)
(*                                                                         *)
(* A row is an id, its labels (a value per label column, 0 for a label it  *)
(* does not have), the start of its block, the times it has samples at, a  *)
(* value, which is its one sample's in an instant query, and its place, a  *)
(* batch and a row there.  In the matrix the id of a row stands for the    *)
(* values of its samples.  The batches of one plan share one schema, so    *)
(* the schema checks have nothing to refuse.                               *)
(***************************************************************************)
EXTENDS Integers, Sequences, FiniteSets, FiniteSetsExt, SequencesExt

CONSTANTS
  NaN,           \* a number above every other, as it is in Arrow's total order
  ColumnNames,   \* the label names of the schema, in order
  Text,          \* the label values' bytes, in byte order; value 0 is the empty one
  Queries        \* sets of the rows at the root, [sort, batches]: none, or a call's, sorts them

-----------------------------------------------------------------------------
(***************************************************************************)
(* The keys sort, sort_desc, sort_by_label and sort_by_label_desc order    *)
(* rows by: byte strings, whose bytewise order is to be the order of the Go *)
(* comparators.  A string is a sequence of bytes.                          *)
(***************************************************************************)
Nul == 0         \* DIGITS: opens an encoded run of digits
EscapeByte == 255
Zero == 48
DigitBytes == Zero .. Zero + 9
Separator == <<Nul, Nul>>

FirstBytes(x, n) == SubSeq(x, 1, n)

\* Bytewise order, which is also the order of a list of keys.
Precedes(x, y, less(_, _)) ==
  \E n \in 1 .. Len(y) :
    /\ n <= Len(x) + 1 /\ FirstBytes(x, n - 1) = FirstBytes(y, n - 1)
    /\ n = Len(x) + 1 \/ less(x[n], y[n])

BytesBefore(x, y) == Precedes(x, y, LAMBDA a, b : a < b)

\* A byte that only a key's own marks may be is escaped.
Escape(s) == FlattenSeq([n \in DOMAIN s |-> IF s[n] = Nul THEN <<Nul, EscapeByte>> ELSE <<s[n]>>])

IsDigit(b) == b \in DigitBytes

\* The maximal runs of digits and of other bytes.
Runs(s) ==
  LET starts == {n \in DOMAIN s : n = 1 \/ IsDigit(s[n]) # IsDigit(s[n - 1])}
      end(start) == Min({n - 1 : n \in {m \in starts : m > start}} \cup {Len(s)})
      nth(k) == CHOOSE n \in starts : Cardinality({m \in starts : m < n}) = k - 1
  IN  [k \in 1 .. Cardinality(starts) |-> SubSeq(s, nth(k), end(nth(k)))]

Significant(run) ==
  LET zeros == Max({n \in 0 .. Len(run) : \A m \in 1 .. n : run[m] = Zero})
  IN  SubSeq(run, zeros + 1, Len(run))

BigEndian(n) == <<n \div 2^24, (n \div 2^16) % 256, (n \div 2^8) % 256, n % 256>>

\* Variant: a number is its digits, however many.
DigitsKeyUncounted(run) == <<Nul>> \o Significant(run)

\* A number is as many digits as it has, then these.
DigitsKey(run) == <<Nul>> \o BigEndian(Len(Significant(run))) \o Significant(run)

\* The first byte decides between a number and a text.
NaturalKey(s) ==
  IF s = <<>> THEN <<>>
  ELSE LET key(run) == IF IsDigit(run[1]) THEN DigitsKey(run) ELSE Escape(run)
       IN  <<IF IsDigit(s[1]) THEN Zero ELSE s[1]>>
             \o FlattenSeq([k \in DOMAIN Runs(s) |-> key(Runs(s)[k])])

\* The labels a series has, by name: a column is a name and what it holds.
SetKey(columns) ==
  FlattenSeq([n \in DOMAIN columns |->
                IF columns[n].value = <<>> THEN <<>>
                ELSE Escape(columns[n].name) \o Separator \o Escape(columns[n].value) \o Separator])

LabelValue(columns, name) ==
  LET carried == {n \in DOMAIN columns : columns[n].name = name}
  IN  IF carried = {} THEN <<>> ELSE columns[CHOOSE n \in carried : TRUE].value

ByLabel(func) == func \in {"sort_by_label", "sort_by_label_desc"}
Ascends(func) == func \in {"sort", "sort_by_label"}

\* exprs: the value is the last sample's, and a row without one has none, which is
\* after every value.  NaN is last whichever way the values go.
ValueKeys(func, values) ==
  LET none == values = <<>>
      nan == IF none THEN 2 ELSE IF Last(values) = NaN THEN 1 ELSE 0
  IN  <<[key |-> <<nan>>, ascends |-> TRUE],
        [key |-> IF none THEN <<>> ELSE <<Last(values)>>, ascends |-> Ascends(func)]>>

LabelKeys(func, labels, columns) ==
  [n \in 1 .. Len(labels) + 1 |->
     [key |-> IF n <= Len(labels) THEN NaturalKey(LabelValue(columns, labels[n])) ELSE SetKey(columns),
      ascends |-> Ascends(func)]]

Keys(sort, row) ==
  IF ByLabel(sort.func) THEN LabelKeys(sort.func, sort.labels, row.columns)
  ELSE ValueKeys(sort.func, row.values)

KeyBefore(a, b) == IF a.ascends THEN BytesBefore(a.key, b.key) ELSE BytesBefore(b.key, a.key)

KeysBefore(x, y) == Precedes(x, y, KeyBefore)

-----------------------------------------------------------------------------
TextAssumption ==
  /\ \A v, w \in DOMAIN Text : v < w => BytesBefore(Text[v], Text[w])
  /\ \A m, n \in DOMAIN ColumnNames : m < n => BytesBefore(ColumnNames[m], ColumnNames[n])
ASSUME TextAssumption

VARIABLES
  query,     \* the collected batches, and the sort at the root of the plan
  rows,      \* the rows kept, in the order they are checked and answered in
  from,      \* the row the duplicate check, then the join, has reached
  pending,   \* rows of the label run being checked, by first time
  spans,     \* the rows a walk of the heads goes through
  heads,     \* the walk's heads: a time, its span, its place there
  walked,    \* what the walk has passed: its last time, or the samples joined
  outcome,   \* "sorting" and "collected", "checking", "refused", "joining" and "joined"
  answer,    \* the batches handed back
  matrix     \* the series joined so far

vars == <<query, rows, from, pending, spans, heads, walked, outcome, answer, matrix>>

Rejected == <<>>
NoSort == <<>>
First(row) == Head(row.times)
LastOf(row) == Last(row.times)

-----------------------------------------------------------------------------
(***************************************************************************)
(* The order of the rows.                                                  *)
(***************************************************************************)
HasMore(labels, f) == \E g \in DOMAIN labels : g > f /\ labels[g] # 0

\* Variant: a missing label sorts as an empty value.
BeforeByValue(x, y) ==
  LET differ == {f \in DOMAIN x : x[f] # y[f]} IN differ # {} /\ x[Min(differ)] < y[Min(differ)]

\* labels.Compare read off the columns: is x before y?
Before(x, y) ==
  LET differ == {f \in DOMAIN x : x[f] # y[f]}
      f == Min(differ)
  IN  /\ differ # {}
      /\ CASE x[f] # 0 /\ y[f] = 0 -> HasMore(y, f)
           [] x[f] = 0 /\ y[f] # 0 -> ~HasMore(x, f)
           [] OTHER -> x[f] < y[f]

RowLess(x, y) == Before(x.labels, y.labels) \/ (x.labels = y.labels /\ x.start < y.start)

\* A stable sort: equal rows stay in the order they came in.
Sorted(seq, less) ==
  LET ahead(n) == {m \in DOMAIN seq : less[m][n] \/ (~less[n][m] /\ m < n)}
  IN  [k \in DOMAIN seq |-> seq[CHOOSE n \in DOMAIN seq : Cardinality(ahead(n)) = k - 1]]

TextOf(v) == IF v = 0 THEN <<>> ELSE Text[v]

Columns(row) == [f \in DOMAIN row.labels |-> [name |-> ColumnNames[f], value |-> TextOf(row.labels[f])]]

SortKeysOf(row) ==
  Keys(query.sort[1],
       [columns |-> Columns(row), values |-> IF row.times = <<>> THEN <<>> ELSE <<row.value>>])

\* A batch without its empty rows, which renumbers the others.
DropEmpty(batch) ==
  LET kept == SelectSeq(batch, LAMBDA row : row.times # <<>>)
  IN  [n \in DOMAIN kept |-> [kept[n] EXCEPT !.at[2] = n]]

Batches == [b \in DOMAIN query.batches |-> DropEmpty(query.batches[b])]

Collected == FlattenSeq(Batches)

OrderedRows(seq) ==
  Sorted(seq, [m \in DOMAIN seq |-> [n \in DOMAIN seq |-> RowLess(seq[m], seq[n])]])

-----------------------------------------------------------------------------
(***************************************************************************)
(* Runs of one label set, and walks over the rows of one.                  *)
(***************************************************************************)
\* The end of the run of one label set that begins at n.
RunEnd(seq, n) ==
  Min({m \in n + 1 .. Len(seq) + 1 : m = Len(seq) + 1 \/ seq[m].labels # seq[n].labels})

\* Each row ends before the next begins.
Disjoint(seq) == \A n \in 1 .. Len(seq) - 1 : LastOf(seq[n]) < First(seq[n + 1])

ByFirst(seq) ==
  Sorted(seq, [m \in DOMAIN seq |-> [n \in DOMAIN seq |-> First(seq[m]) < First(seq[n])]])

\* Variant: only the row before counts.
ComponentEndByLast(seq) ==
  Min({m \in 2 .. Len(seq) + 1 : m = Len(seq) + 1 \/ First(seq[m]) > LastOf(seq[m - 1])})

\* The rows from the first whose bounds are connected by overlaps.
ComponentEnd(seq) ==
  Min({m \in 2 .. Len(seq) + 1 :
         m = Len(seq) + 1 \/ First(seq[m]) > Max({LastOf(seq[k]) : k \in 1 .. m - 1})})

HeadsOf(seq) == {[time |-> First(seq[n]), span |-> n, point |-> 1] : n \in DOMAIN seq}

Earliest(head) ==
  \A other \in heads : head.time < other.time \/ (head.time = other.time /\ head.span <= other.span)

\* What the heap holds once a head is popped and its span's next time pushed.
Popped(head) ==
  LET times == spans[head.span].times
  IN  (heads \ {head}) \cup
        IF head.point = Len(times) THEN {}
        ELSE {[head EXCEPT !.time = times[head.point + 1], !.point = @ + 1]}

-----------------------------------------------------------------------------
Init ==
  /\ \E n \in DOMAIN Queries : query \in Queries[n]
  /\ rows = <<>>
  /\ from = 1 /\ pending = <<>> /\ spans = <<>> /\ heads = {} /\ walked = <<>>
  /\ outcome = IF query.sort = NoSort THEN "collected" ELSE "sorting"
  /\ answer = Rejected /\ matrix = <<>>

\* DataFusion's sort of the root, merged into one partition: rows of equal keys may
\* come in any order.
SortRows ==
  /\ outcome = "sorting"
  /\ LET given == FlattenSeq(query.batches)
         keys == [n \in DOMAIN given |-> SortKeysOf(given[n])]
     IN  \E order \in Permutations(DOMAIN given) :
           /\ \A m, n \in DOMAIN given : m < n => ~KeysBefore(keys[order[n]], keys[order[m]])
           /\ query' = [query EXCEPT !.batches =
                           <<[k \in DOMAIN given |-> [given[order[k]] EXCEPT !.at = <<1, k>>]]>>]
  /\ outcome' = "collected"
  /\ UNCHANGED <<rows, from, pending, spans, heads, walked, answer, matrix>>

\* OrderedRows::new: the order the rows are checked in.
Order ==
  /\ outcome = "collected"
  /\ rows' = OrderedRows(Collected)
  /\ outcome' = "checking"
  /\ UNCHANGED <<query, from, pending, spans, heads, walked, answer, matrix>>

\* reject_same_labelset, one label run: disjoint bounds need no walk.
CheckRun ==
  /\ outcome = "checking" /\ pending = <<>> /\ heads = {} /\ from <= Len(rows)
  /\ LET run == SubSeq(rows, from, RunEnd(rows, from) - 1)
     IN  pending' = IF Disjoint(run) THEN <<>> ELSE ByFirst(run)
  /\ from' = RunEnd(rows, from)
  /\ UNCHANGED <<query, rows, spans, heads, walked, outcome, answer, matrix>>

\* One connected component of the run; a lone row cannot collide.
CheckComponent ==
  /\ outcome = "checking" /\ pending # <<>> /\ heads = {}
  /\ LET end == ComponentEnd(pending)
         component == SubSeq(pending, 1, end - 1)
     IN  /\ pending' = SubSeq(pending, end, Len(pending))
         /\ IF end > 2 THEN spans' = component /\ heads' = HeadsOf(component)
            ELSE UNCHANGED <<spans, heads>>
  /\ walked' = <<>>
  /\ UNCHANGED <<query, rows, from, outcome, answer, matrix>>

\* reject_overlapping_timestamps: a time that comes up twice in a row is shared.
CheckTime ==
  /\ outcome = "checking"
  /\ \E head \in heads :
       /\ Earliest(head)
       /\ IF walked = <<head.time>>
          THEN outcome' = "refused" /\ heads' = {} /\ UNCHANGED walked
          ELSE walked' = <<head.time>> /\ heads' = Popped(head) /\ UNCHANGED outcome
  /\ UNCHANGED <<query, rows, from, pending, spans, answer, matrix>>

\* Adjacent rows of one batch are one slice of it.
SliceEnds ==
  {n \in DOMAIN rows :
     n = Len(rows) \/ rows[n + 1].at # <<rows[n].at[1], rows[n].at[2] + 1>>}

Slices ==
  LET slice(n) == SubSeq(rows, Max({0} \cup {m \in SliceEnds : m < n}) + 1, n)
  IN  [k \in 1 .. Cardinality(SliceEnds) |->
         slice(CHOOSE n \in SliceEnds : Cardinality({m \in SliceEnds : m < n}) = k - 1)]

\* Variant: the order of an explicit sort is not kept.
PreserveNever == FALSE

\* prepare_plan: an explicit sort at the root is the order of the result.
Preserve == query.sort # NoSort

\* The rows pass: handed back in label order, or as they came for an explicit sort.
Answer ==
  /\ outcome = "checking" /\ pending = <<>> /\ heads = {} /\ from > Len(rows)
  /\ answer' = IF Preserve \/ rows = Collected THEN Batches ELSE Slices
  /\ outcome' = IF Preserve THEN "joined" ELSE "joining"
  /\ from' = 1 /\ walked' = <<>> /\ spans' = <<>>
  /\ UNCHANGED <<query, rows, pending, heads, matrix>>

-----------------------------------------------------------------------------
(***************************************************************************)
(* coalesce, over the rows decoded from the answer.                        *)
(***************************************************************************)
Samples(row) == [n \in DOMAIN row.times |-> [time |-> row.times[n], value |-> row.id]]

Series(row, samples) == [labels |-> row.labels, samples |-> samples]

\* Variant: the rows of a run are joined as they come.
JoinRunUnmerged ==
  /\ outcome = "joining" /\ heads = {} /\ spans = <<>> /\ from <= Len(rows)
  /\ LET run == SubSeq(rows, from, RunEnd(rows, from) - 1)
     IN  matrix' = Append(matrix, Series(rows[from],
                                         FlattenSeq([n \in DOMAIN run |-> Samples(run[n])])))
  /\ from' = RunEnd(rows, from) /\ walked' = <<>>
  /\ UNCHANGED <<query, rows, pending, spans, heads, outcome, answer>>

\* A run of one row, or of rows in time order, is its rows' samples in turn.
JoinRun ==
  /\ outcome = "joining" /\ heads = {} /\ spans = <<>> /\ from <= Len(rows)
  /\ LET run == SubSeq(rows, from, RunEnd(rows, from) - 1)
     IN  IF Disjoint(run)
         THEN /\ matrix' = Append(matrix, Series(rows[from],
                                                FlattenSeq([n \in DOMAIN run |-> Samples(run[n])])))
              /\ from' = RunEnd(rows, from)
              /\ UNCHANGED <<spans, heads>>
         ELSE spans' = run /\ heads' = HeadsOf(run) /\ UNCHANGED <<from, matrix>>
  /\ walked' = <<>>
  /\ UNCHANGED <<query, rows, pending, outcome, answer>>

\* Otherwise they are merged by time; a time twice is an error.
JoinSample ==
  /\ outcome = "joining"
  /\ \E head \in heads :
       /\ Earliest(head)
       /\ IF walked # <<>> /\ Last(walked).time = head.time
          THEN outcome' = "refused by the join" /\ heads' = {} /\ UNCHANGED walked
          ELSE /\ walked' = Append(walked, [time |-> head.time, value |-> spans[head.span].id])
               /\ heads' = Popped(head)
               /\ UNCHANGED outcome
  /\ UNCHANGED <<query, rows, from, pending, spans, answer, matrix>>

JoinedRun ==
  /\ outcome = "joining" /\ heads = {} /\ spans # <<>>
  /\ matrix' = Append(matrix, Series(rows[from], walked))
  /\ from' = RunEnd(rows, from)
  /\ spans' = <<>> /\ walked' = <<>>
  /\ UNCHANGED <<query, rows, pending, heads, outcome, answer>>

Joined ==
  /\ outcome = "joining" /\ heads = {} /\ spans = <<>> /\ from > Len(rows)
  /\ outcome' = "joined"
  /\ UNCHANGED <<query, rows, from, pending, spans, heads, walked, answer, matrix>>

Next ==
  \/ SortRows \/ Order
  \/ CheckRun \/ CheckComponent \/ CheckTime \/ Answer
  \/ JoinRun \/ JoinSample \/ JoinedRun \/ Joined

Spec == Init /\ [][Next]_vars

-----------------------------------------------------------------------------
Given == UNION {ToSet(query.batches[b]) : b \in DOMAIN query.batches}

\* The result is refused exactly when two rows that ended up with one label set
\* have a sample at the same time, whatever order they came in, and though most
\* runs are passed on their bounds alone. What passes never fails in the join.
RefusedOnDuplicatesOnly ==
  LET duplicates == \E x, y \in Given : /\ x.id # y.id /\ x.labels = y.labels
                                        /\ ToSet(x.times) \cap ToSet(y.times) # {}
  IN  /\ outcome = "refused" => duplicates
      /\ outcome \in {"joining", "joined"} => ~duplicates
      /\ outcome # "refused by the join"

\* labels.Compare as it is defined, over the labels a series has, by name.
LabelList(labels) ==
  LET has == {f \in DOMAIN labels : labels[f] # 0}
  IN  [n \in 1 .. Cardinality(has) |->
         LET f == CHOOSE f \in has : Cardinality({g \in has : g < f}) = n - 1 IN <<f, labels[f]>>]

ListBefore(x, y) ==
  LET same(n) == n <= Len(x) /\ n <= Len(y) /\ \A m \in 1 .. n : x[m] = y[m]
      common == Max({n \in 0 .. Len(x) : same(n)})
      next == common + 1
  IN  \/ common = Len(x) /\ common < Len(y)
      \/ /\ common < Len(x) /\ common < Len(y)
         /\ \/ x[next][1] < y[next][1]
            \/ x[next][1] = y[next][1] /\ x[next][2] < y[next][2]

\* natsort.Compare as sort.rs describes it: run by run, two runs of digits as
\* numbers, anything else bytewise; the empty string first.
Number(run) == FoldLeft(LAMBDA n, digit : 10 * n + digit - Zero, 0, run)

RunBefore(a, b) ==
  IF IsDigit(a[1]) /\ IsDigit(b[1]) THEN Number(a) < Number(b) ELSE BytesBefore(a, b)

NaturallyBefore(x, y) ==
  LET a == Runs(x)
      b == Runs(y)
      same(m) == ~RunBefore(a[m], b[m]) /\ ~RunBefore(b[m], a[m])
  IN  \E n \in 1 .. Len(b) :
        /\ n <= Len(a) + 1 /\ \A m \in 1 .. n - 1 : same(m)
        /\ n = Len(a) + 1 \/ RunBefore(a[n], b[n])

\* x before y as Prometheus sorts them, upwards: by the first label named on which
\* they differ, then as label sets.
LabelsAhead(labels, x, y) ==
  LET value(row, n) == LabelValue(Columns(row), labels[n])
      less(n) == NaturallyBefore(value(x, n), value(y, n))
      more(n) == NaturallyBefore(value(y, n), value(x, n))
  IN  \/ \E n \in DOMAIN labels : less(n) /\ \A m \in 1 .. n - 1 : ~less(m) /\ ~more(m)
      \/ /\ \A n \in DOMAIN labels : ~less(n) /\ ~more(n)
         /\ ListBefore(LabelList(x.labels), LabelList(y.labels))

\* NaN last, whichever way.
ValueAhead(func, x, y) ==
  \/ x.value # NaN /\ y.value = NaN
  \/ /\ NaN \notin {x.value, y.value}
     /\ IF func = "sort" THEN x.value < y.value ELSE y.value < x.value

\* Under an explicit sort the answer is in the order asked for: by value with NaN
\* last, or by labels, numbers in them as numbers, though rows are compared by
\* their keys alone; empty rows and the label order of the check leave it alone.
SortedAsAsked ==
  outcome = "joined" /\ query.sort # NoSort =>
    LET flat == FlattenSeq(answer)
        sort == query.sort[1]
        ahead(x, y) == CASE ~ByLabel(sort.func) -> ValueAhead(sort.func, x, y)
                         [] sort.func = "sort_by_label" -> LabelsAhead(sort.labels, x, y)
                         [] OTHER -> LabelsAhead(sort.labels, y, x)
    IN  \A m, n \in DOMAIN flat : m < n => ~ahead(flat[n], flat[m])

\* The matrix has one series per label set, with every sample of its rows in time
\* order, each with its own row's value.
MatrixIsMerged ==
  outcome = "joined" /\ query.sort = NoSort =>
    /\ {s.labels : s \in ToSet(matrix)} = {row.labels : row \in ToSet(rows)}
    /\ \A m, n \in DOMAIN matrix : m # n => matrix[m].labels # matrix[n].labels
    /\ \A s \in ToSet(matrix) :
         /\ \A n \in 2 .. Len(s.samples) : s.samples[n - 1].time < s.samples[n].time
         /\ ToSet(s.samples) = UNION {ToSet(Samples(row)) : row \in {r \in Given : r.labels = s.labels}}

\* The answer is the nonempty rows, without an explicit sort in the order of their
\* labels, then of their blocks, rows alike in both as they came, and merged into one
\* series per label set; with one, in the order asked for.
AnswerIsInOrder ==
  /\ outcome \in {"joining", "joined"} =>
       LET flat == FlattenSeq(answer)
           ahead(x, y) == \/ ListBefore(LabelList(x.labels), LabelList(y.labels))
                          \/ x.labels = y.labels /\ x.start < y.start
                          \/ x.labels = y.labels /\ x.start = y.start /\ x.id < y.id
       IN  /\ {row.id : row \in ToSet(flat)} = {row.id : row \in {r \in Given : r.times # <<>>}}
           /\ \A m, n \in DOMAIN flat : m < n /\ query.sort = NoSort => ahead(flat[m], flat[n])
  /\ SortedAsAsked
  /\ MatrixIsMerged
=============================================================================
