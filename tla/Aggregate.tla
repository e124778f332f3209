------------------------------ MODULE Aggregate ------------------------------
(***************************************************************************)
(* Grouped (promql-engine/src/aggregate.rs): the lanes behind sum, avg,    *)
(* min and the other aggregations, one cell per group and step.            *)
(*                                                                         *)
(* A group's cells are one dense span of the grid that grows either way;   *)
(* a one-step query keeps its groups in one flat span instead.  Partial    *)
(* accumulators hand per-step states to the final one, a prefix of their   *)
(* groups at a time.  The kernels are abstracted to what they fold and in  *)
(* which order; a call of update_batch or merge_batch is one step per row. *)
(***************************************************************************)
EXTENDS Integers, Sequences, SequencesExt, FiniteSetsExt

CONSTANTS
  IntMin, IntMax,  \* the bounds of an i64
  Byte,            \* the bits of a byte of a bitmap
  Partials,        \* the partial accumulators
  Final,           \* the accumulator that merges their states
  None,            \* an Option's None
  Scenarios        \* the grids and inputs a run considers

ASSUME AggregateAssumption ==
  /\ IntMin \in Int /\ IntMax \in Int /\ IntMin < 0 /\ 0 < IntMax
  /\ Byte \in Nat \ {0}
  /\ Final \notin Partials /\ None \notin Seq(Int)

\* One series: its group's key and its timestamps; a FILTER drops some rows.
InputRow == [id : Nat, key : Nat, times : Seq(Int), skipped : BOOLEAN]

\* The planner's bound on a query's times keeps the width of a grid an i64.
Grids ==
  {g \in [start : IntMin .. IntMax, step : 1 .. IntMax, len : 1 .. IntMax + 1] :
     (g.len - 1) * g.step <= IntMax /\ g.start + (g.len - 1) * g.step <= IntMax}

ASSUME ScenarioAssumption ==
  \A s \in Scenarios : s.grid \in Grids /\ s.input \in [Partials -> Seq(Seq(InputRow))]

\* An id stands for one row, of one partial: it is what tells the samples in the
\* cells apart, and nothing the code reads.
ASSUME RowsAssumption ==
  \A s \in Scenarios : \A p, q \in Partials :
    \A m \in DOMAIN FlattenSeq(s.input[p]), n \in DOMAIN FlattenSeq(s.input[q]) :
      FlattenSeq(s.input[p])[m].id = FlattenSeq(s.input[q])[n].id => p = q /\ m = n

Accumulators == Partials \cup {Final}

VARIABLES
  grid,      \* Grid
  input,     \* each partial's batches
  taken,     \* how many of them it was given
  skipping,  \* partials whose rows go through convert_to_state from now on
  keys,      \* each accumulator's groups, by group index
  store,     \* each accumulator's Storage
  callee, call,  \* the accumulator in a call and the rows that call still has
  sent,      \* the state rows each partial has on their way to the final
  answers,   \* the rows evaluate returned
  failed     \* the row an error named

vars == <<grid, input, taken, skipping, keys, store, callee, call, sent, answers, failed>>

-----------------------------------------------------------------------------
(***************************************************************************)
(* The grid: timestamps to indices, a run of consecutive ones at a time.   *)
(***************************************************************************)
OnGrid(t) ==
  LET offset == t - grid.start
  IN  /\ offset \in 0 .. IntMax
      /\ offset % grid.step = 0
      /\ offset \div grid.step < grid.len

Index(t) == (t - grid.start) \div grid.step
Timestamp(i) == grid.start + i * grid.step

\* Where a run opens: the step after the one before does not fit or is another.
Follows(times, k) ==
  times[k - 1] + grid.step <= IntMax /\ times[k] = times[k - 1] + grid.step


Edges(times) == {k \in 2 .. Len(times) : ~Follows(times, k)}

Runs(times) ==
  {[from |-> s, to |-> Min({e \in Edges(times) \cup {Len(times) + 1} : e > s}) - 1] :
     s \in Edges(times) \cup {k \in DOMAIN times : k = 1}}

RunOf(times, k) == CHOOSE r \in Runs(times) : r.from <= k /\ k <= r.to

\* Variant: the end of a run is taken to be on the grid because its start is.
AcceptedByStarts(times) ==
  /\ \A k \in Edges(times) : times[k] > times[k - 1]
  /\ \A r \in Runs(times) : OnGrid(times[r.from])

\* What try_runs lets through.
Accepted(times) ==
  /\ \A k \in Edges(times) : times[k] > times[k - 1]
  /\ \A r \in Runs(times) : OnGrid(times[r.from]) /\ OnGrid(times[r.to])

-----------------------------------------------------------------------------
(***************************************************************************)
(* A cell: what was folded into it, in order, and how many merges of two   *)
(* states that took.  A contribution is a series and a timestamp.          *)
(***************************************************************************)
Fresh == [of |-> <<>>, merges |-> 0]
Add(cell, value) == [cell EXCEPT !.of = Append(@, value)]

\* Variant: the later state is folded first.
MergeBackwards(cell, state) ==
  [of |-> state.of \o cell.of, merges |-> cell.merges + state.merges + 1]

Merge(cell, state) ==
  [of |-> cell.of \o state.of, merges |-> cell.merges + state.merges + 1]

\* Variant: a state is merged even into a cell nothing has reached.
TakenMerging(cell, seen, row, k) ==
  IF row.partial THEN Merge(cell, row.values[k]) ELSE Add(cell, row.values[k])

\* copy_run: a state is taken verbatim, whatever the fresh cell holds.
Copied(cell, state) == [cell EXCEPT !.of = state.of, !.merges = state.merges]

\* A value is added; a state is copied into a fresh cell, merged into another.
Taken(cell, seen, row, k) ==
  IF ~row.partial THEN Add(cell, row.values[k])
  ELSE IF seen THEN Merge(cell, row.values[k]) ELSE Copied(cell, row.values[k])

(***************************************************************************)
(* A span: cells start .. len - 1 are the grid from first on, the cells    *)
(* before them are headroom.  moved counts the cells rebases have moved.   *)
(***************************************************************************)
Cells(n, fill) == [i \in 0 .. n - 1 |-> fill]
Resize(cells, n, fill) ==
  [i \in 0 .. n - 1 |-> IF i \in DOMAIN cells THEN cells[i] ELSE fill]
Prepend(cells, count, n, fill) ==
  [i \in 0 .. n - 1 |-> IF i < count THEN fill ELSE cells[i - count]]

NewSpan == [first |-> 0, start |-> 0, len |-> 0, seen |-> Cells(0, FALSE),
            lanes |-> Cells(0, Fresh), moved |-> 0]

Active(span) == span.len - span.start

Widen(span, len) ==
  [span EXCEPT !.len = len, !.seen = Resize(@, len, FALSE), !.lanes = Resize(@, len, Fresh)]

\* count more cells of headroom.
Rebase(span, count) ==
  [span EXCEPT !.len = @ + count, !.start = @ + count, !.moved = @ + span.len,
               !.seen = Prepend(@, count, span.len + count, FALSE),
               !.lanes = Prepend(@, count, span.len + count, Fresh)]

\* Variant: only the headroom this row needs.
HeadroomExact(span, left) == left - span.start

\* Double the span, and stop at grid zero.
Headroom(span, left) ==
  LET doubled == IF left - span.start > span.len THEN left - span.start ELSE span.len
      origin == span.first - span.start
  IN  IF doubled < origin THEN doubled ELSE origin

\* Variant: the cells move and the position of the first one does not.
IncludeUnmoved(old, first, last) ==
  LET span == IF Active(old) = 0 THEN [old EXCEPT !.first = first] ELSE old
      left == IF first < span.first THEN span.first - first ELSE 0
      end == IF last + 1 > span.first + Active(span) THEN last + 1
             ELSE span.first + Active(span)
      roomy == IF left > span.start THEN Rebase(span, Headroom(span, left)) ELSE span
      moved == [roomy EXCEPT !.first = @ - left]
      needed == moved.start + end - moved.first
  IN  IF needed > moved.len THEN Widen(moved, needed) ELSE moved

\* Make the span hold the grid's first .. last.
Include(old, first, last) ==
  LET span == IF Active(old) = 0 THEN [old EXCEPT !.first = first] ELSE old
      left == IF first < span.first THEN span.first - first ELSE 0
      end == IF last + 1 > span.first + Active(span) THEN last + 1
             ELSE span.first + Active(span)
      roomy == IF left > span.start THEN Rebase(span, Headroom(span, left)) ELSE span
      moved == [roomy EXCEPT !.start = @ - left, !.first = @ - left]
      needed == moved.start + end - moved.first
  IN  IF needed > moved.len THEN Widen(moved, needed) ELSE moved

\* local_index finds every run of the row inside the span.
Local(span, times) ==
  \A r \in Runs(times) :
    /\ Index(times[r.from]) >= span.first
    /\ Index(times[r.from]) - span.first + (r.to - r.from + 1) <= Active(span)

\* The bits set_run sets: whole bytes at once, the two ends one by one.
BitsSet(from, to) ==
  LET first == (from + Byte - 1) \div Byte
      last == to \div Byte
  IN  IF first >= last THEN from .. to - 1
      ELSE from .. first * Byte - 1 \cup first * Byte .. last * Byte - 1
             \cup last * Byte .. to - 1

\* Write a row whose k-th sample goes to cell at[k].
Write(span, row, at) ==
  LET bits == UNION {BitsSet(at[r.from], at[r.to] + 1) : r \in Runs(row.times)}
      hits(i) == {k \in DOMAIN at : at[k] = i}
  IN  [span EXCEPT
         !.seen = [i \in DOMAIN @ |-> @[i] \/ i \in bits],
         !.lanes = [i \in DOMAIN @ |->
                      IF hits(i) = {} THEN @[i]
                      ELSE Taken(@[i], span.seen[i], row, Min(hits(i)))]]

At(span, times) ==
  [k \in DOMAIN times |->
     LET r == RunOf(times, k)
     IN  span.start + Index(times[r.from]) - span.first + (k - r.from)]

-----------------------------------------------------------------------------
(***************************************************************************)
(* Storage: one flat span over the groups, or a span per group.            *)
(***************************************************************************)
SingleStep == grid.len = 1

NewStore == [flat |-> NewSpan, spans |-> <<>>, heap |-> 0]

Charged(sum, span) == sum + span.len
SpanBytes(spans) == FoldLeft(Charged, 0, spans)

Grow(st, groups) ==
  IF SingleStep
  THEN IF groups > st.flat.len THEN [st EXCEPT !.flat = Widen(@, groups)] ELSE st
  ELSE [st EXCEPT !.spans = [g \in 1 .. groups |->
                               IF g \in DOMAIN @ THEN @[g] ELSE NewSpan]]

\* What prepare makes of the span a row goes to.
Prepared(span, times) ==
  IF times = <<>> THEN span
  ELSE Include(span, Index(times[1]), Index(times[Len(times)]))

Acceptable(st, row) ==
  /\ Accepted(row.times)
  /\ ~SingleStep /\ row.times # <<>> =>
       /\ OnGrid(row.times[1]) /\ OnGrid(row.times[Len(row.times)])
       /\ Index(row.times[1]) <= Index(row.times[Len(row.times)])
       /\ Local(Prepared(st.spans[row.group], row.times), row.times)

\* Variant: the heap is charged the span's size again.
AddSeriesRecharged(st, row) ==
  IF SingleStep
  THEN [st EXCEPT !.flat = Write(@, row, [k \in DOMAIN row.times |-> row.group - 1])]
  ELSE LET span == Prepared(st.spans[row.group], row.times)
       IN  [st EXCEPT !.heap = @ + span.len,
                      !.spans[row.group] = Write(span, row, At(span, row.times))]

AddSeries(st, row) ==
  IF SingleStep
  THEN [st EXCEPT !.flat = Write(@, row, [k \in DOMAIN row.times |-> row.group - 1])]
  ELSE LET span == Prepared(st.spans[row.group], row.times)
       IN  [st EXCEPT !.heap = @ - st.spans[row.group].len + span.len,
                      !.spans[row.group] = Write(span, row, At(span, row.times))]

\* Variant: the flat span keeps the groups it emitted.
ReleaseSpans(st, n) ==
  IF SingleStep THEN st ELSE
  [st EXCEPT !.heap = @ - SpanBytes(SubSeq(st.spans, 1, n)),
             !.spans = SubSeq(@, n + 1, Len(@))]

Release(st, n) ==
  IF SingleStep
  THEN [st EXCEPT !.flat = [Widen(@, @.len - n) EXCEPT
                              !.seen = [i \in 0 .. st.flat.len - n - 1 |-> st.flat.seen[i + n]],
                              !.lanes = [i \in 0 .. st.flat.len - n - 1 |-> st.flat.lanes[i + n]]]]
  ELSE [st EXCEPT !.heap = @ - SpanBytes(SubSeq(st.spans, 1, n)),
                  !.spans = SubSeq(@, n + 1, Len(@))]

\* The cells of a group, and the seen ones as a list row.
View(st, g) ==
  IF SingleStep
  THEN [span |-> st.flat, start |-> g - 1, len |-> 1, first |-> 0]
  ELSE [span |-> st.spans[g], start |-> st.spans[g].start, len |-> Active(st.spans[g]),
        first |-> st.spans[g].first]

Kept(view) ==
  LET seen == {s \in 0 .. view.len - 1 : view.span.seen[view.start + s]}
  IN  [k \in 1 .. Cardinality(seen) |->
         CHOOSE s \in seen : Cardinality({e \in seen : e < s}) = k - 1]

ListRow(st, g, key) ==
  LET view == View(st, g)
      kept == Kept(view)
  IN  [key |-> key,
       times |-> [k \in DOMAIN kept |-> Timestamp(view.first + kept[k])],
       values |-> [k \in DOMAIN kept |-> view.span.lanes[view.start + kept[k]]]]

Emitted(a, n) == [g \in 1 .. n |-> ListRow(store[a], g, keys[a][g])]

-----------------------------------------------------------------------------
Init ==
  /\ \E s \in Scenarios : grid = s.grid /\ input = s.input
  /\ taken = [p \in Partials |-> 0] /\ skipping = {}
  /\ keys = [a \in Accumulators |-> <<>>]
  /\ store = [a \in Accumulators |-> NewStore]
  /\ callee = None /\ call = <<>>
  /\ sent = [p \in Partials |-> <<>>] /\ answers = <<>> /\ failed = None

Idle == call = <<>> /\ failed = None

\* DataFusion numbers the groups of a batch before it hands the batch over.
InternedWith(ks, r) == IF r.key \in ToSet(ks) THEN ks ELSE Append(ks, r.key)
Interned(known, rows) == FoldLeft(InternedWith, known, rows)

GroupOf(ks, key) == CHOOSE g \in DOMAIN ks : ks[g] = key

Contributions(row) == [k \in DOMAIN row.times |-> <<row.id, row.times[k]>>]

Open(a, rows, feed) ==
  LET ks == Interned(keys[a], rows)
  IN  /\ keys' = [keys EXCEPT ![a] = ks]
      /\ store' = [store EXCEPT ![a] = Grow(@, Len(ks))]
      /\ callee' = a
      /\ call' = feed

UnskippedWith(kept, r) == IF r.skipped THEN kept ELSE Append(kept, r)
Unskipped(rows) == FoldLeft(UnskippedWith, <<>>, rows)

\* update_batch on a partial's next batch.
Update(p) ==
  /\ Idle /\ p \notin skipping /\ taken[p] < Len(input[p])
  /\ LET rows == input[p][taken[p] + 1]
         ks == Interned(keys[p], rows)
     IN  Open(p, rows, [n \in DOMAIN Unskipped(rows) |->
                          LET r == Unskipped(rows)[n]
                          IN  [group |-> GroupOf(ks, r.key), times |-> r.times,
                               values |-> Contributions(r), partial |-> FALSE]])
  /\ taken' = [taken EXCEPT ![p] = @ + 1]
  /\ UNCHANGED <<grid, input, skipping, sent, answers, failed>>

\* merge_batch on the next rows of one partial.
MergeBatch(p) ==
  /\ Idle /\ sent[p] # <<>>
  /\ LET rows == Head(sent[p])
         ks == Interned(keys[Final], rows)
     IN  Open(Final, rows, [n \in DOMAIN rows |->
                              [group |-> GroupOf(ks, rows[n].key), times |-> rows[n].times,
                               values |-> rows[n].values, partial |-> TRUE]])
  /\ sent' = [sent EXCEPT ![p] = Tail(@)]
  /\ UNCHANGED <<grid, input, taken, skipping, answers, failed>>

\* add_series, and merge_batch's loop: one row of the call.
FoldRow ==
  /\ call # <<>> /\ failed = None
  /\ Acceptable(store[callee], Head(call))
  /\ store' = [store EXCEPT ![callee] = AddSeries(@, Head(call))]
  /\ call' = Tail(call)
  /\ UNCHANGED <<grid, input, taken, skipping, keys, callee, sent, answers, failed>>

RejectRow ==
  /\ call # <<>> /\ failed = None
  /\ ~Acceptable(store[callee], Head(call))
  /\ failed' = Head(call).times
  /\ UNCHANGED <<grid, input, taken, skipping, keys, store, callee, call, sent, answers>>

Drain(a, n) ==
  /\ keys' = [keys EXCEPT ![a] = SubSeq(@, n + 1, Len(@))]
  /\ store' = [store EXCEPT ![a] = Release(@, n)]

\* state(EmitTo::First(n)), or All of them.
State(p, n) ==
  /\ Idle /\ n \in 1 .. Len(keys[p])
  /\ sent' = [sent EXCEPT ![p] = Append(@, Emitted(p, n))]
  /\ Drain(p, n)
  /\ UNCHANGED <<grid, input, taken, skipping, callee, call, answers, failed>>

\* DataFusion stops aggregating a partial's rows: they pass through.
SkipPartial(p) ==
  /\ Idle /\ keys[p] = <<>> /\ p \notin skipping /\ taken[p] > 0
  /\ skipping' = skipping \cup {p}
  /\ UNCHANGED <<grid, input, taken, keys, store, callee, call, sent, answers, failed>>

\* convert_to_state: each row is a group of its own, a skipped one an empty row.
Converted(r) ==
  [key |-> r.key, times |-> IF r.skipped THEN <<>> ELSE r.times,
   values |-> IF r.skipped THEN <<>>
              ELSE [k \in DOMAIN r.times |-> Add(Fresh, Contributions(r)[k])]]

Convert(p) ==
  /\ Idle /\ p \in skipping /\ taken[p] < Len(input[p])
  /\ LET rows == input[p][taken[p] + 1]
         refused == {n \in DOMAIN rows : ~rows[n].skipped /\ ~Accepted(rows[n].times)}
     IN  \/ /\ refused = {}
            /\ sent' = [sent EXCEPT ![p] =
                          Append(@, [n \in DOMAIN rows |-> Converted(rows[n])])]
            /\ UNCHANGED failed
         \/ /\ refused # {}
            /\ failed' = rows[Min(refused)].times
            /\ UNCHANGED sent
  /\ taken' = [taken EXCEPT ![p] = @ + 1]
  /\ UNCHANGED <<grid, input, skipping, keys, store, callee, call, answers>>

\* A group no row or state still on its way belongs to.
Settled(key) ==
  \A p \in Partials :
    /\ \A n \in taken[p] + 1 .. Len(input[p]) :
         \A r \in ToSet(input[p][n]) : r.key # key
    /\ key \notin ToSet(keys[p])
    /\ \A rows \in ToSet(sent[p]) : \A r \in ToSet(rows) : r.key # key

\* evaluate(EmitTo::First(n)), or All of them.
Evaluate(n) ==
  /\ Idle /\ n \in 1 .. Len(keys[Final])
  /\ \A g \in 1 .. n : Settled(keys[Final][g])
  /\ answers' = answers \o Emitted(Final, n)
  /\ Drain(Final, n)
  /\ UNCHANGED <<grid, input, taken, skipping, callee, call, sent, failed>>

Next ==
  \/ \E p \in Partials : Update(p) \/ MergeBatch(p) \/ SkipPartial(p) \/ Convert(p)
  \/ \E p \in Partials : \E n \in 1 .. Len(keys[p]) : State(p, n)
  \/ \E n \in 1 .. Len(keys[Final]) : Evaluate(n)
  \/ FoldRow \/ RejectRow

Spec == Init /\ [][Next]_vars

-----------------------------------------------------------------------------
Cell == [of : Seq(Seq(Int)), merges : Nat]

SpanOK(span) ==
  /\ span.first \in Nat /\ span.start \in Nat /\ span.len \in Nat /\ span.moved \in Nat
  /\ span.start <= span.len
  /\ span.seen \in [0 .. span.len - 1 -> BOOLEAN]
  /\ span.lanes \in [0 .. span.len - 1 -> Cell]

\* The type invariant: an accumulator has a place for each group DataFusion knows,
\* and no other.
TypeOK ==
  /\ \A p \in Partials : taken[p] \in 0 .. Len(input[p])
  /\ skipping \subseteq Partials
  /\ \A a \in Accumulators :
       /\ keys[a] \in Seq(Nat)
       /\ SpanOK(store[a].flat) /\ \A g \in DOMAIN store[a].spans : SpanOK(store[a].spans[g])
       /\ store[a].heap \in Nat
       /\ Len(keys[a]) = IF SingleStep THEN store[a].flat.len ELSE Len(store[a].spans)
  /\ call # <<>> => callee \in Accumulators /\ Head(call).group \in DOMAIN keys[callee]

\* Every cell that holds something: where it is, its group's key and its time.
InStore(a) ==
  UNION {LET row == ListRow(store[a], g, keys[a][g])
         IN  {[place |-> <<"store", g, k>>, key |-> row.key, time |-> row.times[k],
               cell |-> row.values[k]] : k \in DOMAIN row.times} : g \in DOMAIN keys[a]}

InRows(tag, rows) ==
  UNION {{[place |-> <<tag, n, k>>, key |-> rows[n].key, time |-> rows[n].times[k],
           cell |-> rows[n].values[k]] : k \in DOMAIN rows[n].times} : n \in DOMAIN rows}

InCall ==
  UNION {{[place |-> <<"call", n, k>>, key |-> keys[callee][call[n].group],
           time |-> call[n].times[k],
           cell |-> IF call[n].partial THEN call[n].values[k]
                    ELSE Add(Fresh, call[n].values[k])] :
            k \in DOMAIN call[n].times} : n \in DOMAIN call}

Everywhere ==
  (UNION {{<<a, x>> : x \in InStore(a)} : a \in Accumulators})
    \cup (UNION {{<<p, x>> : x \in InRows("sent", FlattenSeq(sent[p]))} : p \in Partials})
    \cup {<<None, x>> : x \in InCall \cup InRows("answer", answers)}

WellFormed(times) ==
  /\ \A k \in DOMAIN times : \E i \in 0 .. grid.len - 1 : times[k] = Timestamp(i)
  /\ \A j, k \in DOMAIN times : j < k => times[j] < times[k]

Given == UNION {UNION {ToSet(input[p][n]) : n \in 1 .. taken[p]} : p \in Partials}

\* However spans grow and whichever prefixes leave early, every sample an
\* accumulator was given is in one cell, of its own group and its own step,
\* once: no rebase, prefix emission or merge loses, repeats or misplaces it.
EachSampleOnce ==
  LET everywhere == Everywhere
      hits(x, r, k) == {n \in DOMAIN x[2].cell.of : x[2].cell.of[n] = <<r.id, r.times[k]>>}
      found(r, k) == {x \in everywhere : hits(x, r, k) # {}}
  IN  failed = None =>
        \A r \in {g \in Given : WellFormed(g.times)} : \A k \in DOMAIN r.times :
          IF r.skipped THEN found(r, k) = {}
          ELSE /\ Cardinality(found(r, k)) = 1
               /\ \A x \in found(r, k) :
                    /\ x[2].key = r.key /\ x[2].time = r.times[k]
                    /\ Cardinality(hits(x, r, k)) = 1

\* The rows of one partial's input, in order.
Sequence(p) == [n \in DOMAIN FlattenSeq(input[p]) |-> FlattenSeq(input[p])[n].id]

\* A merge always joins two states that hold something, and an empty one is
\* never emitted: a first state is taken verbatim, because a merge into a fresh
\* Kahan or Welford state is not a copy, and an absent step is not a zero.
MergesJoinTwo == \A x \in Everywhere : x[2].cell.merges < Len(x[2].cell.of)

\* Rows of one partition are folded in the order they arrived, through any
\* number of partial states, and no state is folded into nothing: the float sums
\* are those of that order.
ArrivalOrder ==
  /\ MergesJoinTwo
  /\ \A x \in Everywhere : \A p \in Partials :
       LET of == x[2].cell.of
           place(n) == CHOOSE i \in DOMAIN Sequence(p) : Sequence(p)[i] = of[n][1]
           own == {n \in DOMAIN of : of[n][1] \in ToSet(Sequence(p))}
       IN  \A m, n \in own : m < n => place(m) < place(n)

Spans == {store[a].flat : a \in Accumulators}
           \cup UNION {ToSet(store[a].spans) : a \in Accumulators}

\* The cached heap size, which DataFusion's memory accounting reads, is the size
\* of the spans there are.
HeapIsSpans == \A a \in Accumulators : store[a].heap = SpanBytes(store[a].spans)

\* Headroom is never wider than the span it serves and never passes grid zero,
\* and all the cells rebases ever moved are at most twice the cells there are,
\* even where every row is before the last; there is a place for every group and
\* what they are charged for is what they take.
SpansStayLean ==
  /\ TypeOK /\ HeapIsSpans
  /\ \A span \in Spans :
       /\ span.start <= Active(span) /\ span.start <= span.first
       /\ span.moved <= 2 * span.len

\* A row is refused exactly when its timestamps are not ascending steps of the
\* grid, though only the ends of its runs are looked at.
FailsOnlyMalformed ==
  /\ failed # None => ~WellFormed(failed)
  /\ failed = None =>
       \A r \in Given :
         \/ r.skipped \/ WellFormed(r.times)
         \/ \E n \in DOMAIN call : ~call[n].partial /\ call[n].times = r.times
=============================================================================
