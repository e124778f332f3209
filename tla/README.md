# promql-rs in TLA+

promql-rs evaluates PromQL over Apache DataFusion: a query is parsed, planned
as a DataFusion plan with a handful of operators of its own, run over Arrow
batches that a store streams in, and organised into a result. These modules
model the parts of it that are hard to get right and hard to test: sample
streams cut into blocks, chunks, batches and budgets, folds that suspend
anywhere, partial aggregates that meet in any order, a planner whose plans
have to mean what the query says, the harness whose verdicts the project steers
by, and the tool that keeps its vendored grammar. TLC checks every module on
small instances; TLAPS proves the central theorems for every instance.

Paths are relative to `src/promql-engine/src/` unless they name another crate.

## 1. The system

| Component | State it keeps | Operations | Talks to |
|---|---|---|---|
| Lexer, parser (`promql-parser`) | cursor, flags, tokens; per-parse error list | tokenise, reduce a production | its text; the planner reads its tree |
| Durations (`promql-common`) | none | parse, print | parser, planner, EXPLAIN |
| Planner (`plan.rs`, `value_type.rs`, `params.rs`) | selector and stage counters | check, plan a node, compute a selector's range | parser tree in; DataFusion plan and `SelectHints` out |
| Source contract, reference store (`source.rs`, `memory.rs`, `series.rs`) | immutable series | `select`, cut into blocks, deal to partitions, slice, chunk | planner (hints); evaluator (rows) |
| Evaluation stream (`series_eval/exec.rs`, `state.rs`) | input batch and cursor, one open fold, output batch, budget, reservation | poll: read, push, finish, emit, charge, yield, release | DataFusion (poll, wake, drop), source stream, folds, memory pool |
| Folds (`buffer.rs`, `range.rs`, `selector.rs`) | claimed time, window cursors, buffered samples, sweep, next step | push a chunk, suspend, resume, close | evaluation stream |
| Aggregation (`aggregate.rs`) | per group a span of cells, accounted heap | update, state, merge, evaluate, emit a prefix | DataFusion's hash aggregate |
| Binary operators (`binary.rs`) | pools of label sets and per-step cells of both sides | update, state, merge, pair | DataFusion's hash aggregate |
| Absent and scalar (`absent.rs`, `to_scalar.rs`) | one cell per step | mark or fold, state, merge, evaluate | DataFusion's ungrouped aggregate |
| Elementwise, labels, sort, matrix (`elementwise.rs`, `labels.rs`, `sort.rs`, `matrix.rs`) | none | map a batch of rows | DataFusion's projections |
| Engine, results (`engine.rs`, `labelset.rs`) | session, optional runtime, prepared plans | prepare, execute, finalize | all of the above |
| Conformance harness (`promql-conformance`) | commands read, load blocks since a clear, outcomes, the list of supported evals | scan, load, clear, eval, compare, tabulate, check or bless the list | engine; parser; `SUPPORTED.toml` |
| Grammar synchronisation (`promql-sync`) | vendored files, manifest of hashes, pinned revision, generated grammar | pull, check, generate | upstream over HTTP; the parser's build |

What is hard about it:

* **Suspension.** A poll has a budget of work. A fold may stop between any two
  samples, the stream between any two rows, and both resume from their cursors.
* **Cuts.** The same samples arrive cut into blocks (which decide which steps
  an operator answers), chunks (which may overlap), slices, and batches. Every
  answer must be independent of every cut.
* **Partial states.** Each stateful operator runs as several accumulators whose
  states are serialised, dealt out and merged in any order.
* **Incremental bookkeeping.** Spans, drained buffers, renumbered groups and
  cached sizes are updated in place and never recomputed.
* **Stages.** A query is checked, planned and executed by different code: a name
  dropped late, a label read early, a scalar folded once for all steps, an `@`
  resolved in one place and read in another each change an answer far away.
* **Ends.** Streams end by exhaustion, errors, refused memory and cancellation.
* **Crashes between writes.** A pull writes files, a manifest and a revision one
  after another, and may stop between or inside any of them.
* **Verdicts that stand in for correctness.** A harness that reads one line off,
  keeps a block too long or compares too loosely reports green and says nothing.
* **Boundaries.** Timestamps are i64 milliseconds; remainders, offsets and `@`
  produce every sign.

What makes each component correct is stated with its module below. The hazards,
each at its line, are listed in `PROJECT.json`.

## 2. Modules

A module holds a component; `MC*` modules give constants for TLC; `*Proofs`
modules hold the theorems about a component, and `SequenceFacts` the lemmas on
sequences, prefixes and folds they share.

### StepGrid, MemorySource: who answers which step

`StepGrid` is the arithmetic of `params.rs`: `ForBlock` is the grid a block
answers, `SelectRange` what a selector reads, both with their saturating i64
operations. `MemorySource` is `memory.rs`'s `select` as a state machine: `CutBlock`
is one turn of the loop that cuts time into blocks (clip with the reach-back,
drop empty rows), `WholeBlock` the one block of a store without `block_ms`, and
`Deliver` hands one partition over: the parts it is dealt of every block,
chunked or whole, packed into batches.

* `EachStepInOneBlock`: every step of the query is answered by exactly one of
  the blocks, and its window in that block is its window in the store, so no
  block needs another's samples.
* `StreamOrder`: a series' chunks of a block stay in one partition, adjacent and
  in time order, and batches and chunks neither lose nor repeat a sample.

### WindowBuffer, OneStepSelector, SeriesState: the fold of one series

`SeriesAnswers` says what the answers of a series are: the samples its chunks
*claim* (a chunk loses every sample no later than one an earlier chunk already
claimed), and each step's value read from its window. `OrderedAnswers` is the
abstract specification of a fold: those answers, in order, one by one, none
revised, then closed. Both folds implement it (`AnswersInOrder`).

`WindowBuffer` models `buffer.rs` and the sliding kernels of `range.rs`: `push`
with its loops unrolled into actions between which the budget may run out
(`EndRow`, `DropRow`, `SkipTail`, `IngestSlice`, the kernel's turns, the
returns), `close`, the ring of held samples with its deferred drain, borrowed
slices, and the sweep. Kernels: the selector, a plain range function, counters,
and sliding extrema. Values are small integers with `NaN` and `Stale`; the
folds of floats are abstracted to the picks a kernel makes of its window.
`OneStepSelector` models the one-step path, which keeps a single candidate.
`SeriesState` is the choice between the two (`exec.rs` opens one state or the
other) and composes them.

* `StateInBounds`: cursors stay inside what is held across drains and borrows.
* `HeldIsTheWindow`: a completed chunk has claimed its tail, the incremental
  sweep equals a recomputation, what is held is bounded by the window and not by
  the series, and the one-step candidate is the latest claimed sample in it.
* `AnswersInOrder`: both folds implement `OrderedAnswers`, and end.

### SeriesStream: the driver

`SeriesStream` is `exec.rs`'s `poll_inner` and everything it calls: the input
(arrival, wake-up registration), the batch cursor, the open fold, the output,
the budget and the turns of a poll, the reservation, errors and the drop of the
stream. The fold is abstracted to the work it takes and the answers it yields,
which is all the driver reads of it. `RowStream` is its abstract specification.

* `RowsInOrder`: it implements `RowStream`, liveness included.
* `BatchesAreBounded`, `ReservationCoversHeld`, `SleepsSafely`, `EndsReleased`.

### Aggregate: grouped aggregation

`Aggregate` models `Grouped` of `aggregate.rs`: partial accumulators and a
final one, spans of cells that grow either way (`Include`, with its headroom),
prefix emission with renumbering (`Release`), partial states copied or merged
run by run, the pass-through of `convert_to_state`, the incremental heap size
and the refusal of malformed timestamps at i64's edge. Cells hold the sequence
of samples folded into them, so that order and multiplicity can be seen.

* `EachSampleOnce`: every sample is in one cell, of its group and step, once.
* `ArrivalOrder`: a partition's rows are folded as they arrived, through any
  number of states, and no state is merged into a cell nothing has reached.
* `SpansStayLean`: headroom and the work of moving cells are bounded, there is a
  place for every group, and the cached heap size is the size.
* `FailsOnlyMalformed`: rows that are not ascending steps of the grid, and only
  those, are refused.

### Pairing: binary operators

`Pairing` models `binary.rs` for one match group: interning of label sets, the
per-step cells of each side, partial states and their remapping, the set
operators, one-to-one and many-to-one matching with fills and the two matching
errors. The operators' arithmetic is abstracted to a pair of operands.

* `AnswersTheRows`: the result is the definition's, whatever the order of
  arrival and the partition into accumulators; values keep their labels through
  every merge, and a value is read where there is exactly one.

### Results, Ungrouped: what leaves a plan

`Results` models `labelset.rs`'s `finalize` and `series.rs`'s `coalesce`: rows
arrive cut into blocks and batches in any order; `finalize` drops the empty
ones, orders them by labels and block or keeps the order of an explicit sort at
the root (`engine.rs` decides which: `Preserve`), refuses duplicates, and a
matrix is coalesced. Its first part is `sort.rs`: the byte strings that stand for
natural order, for label sets and for NaN-last. The sort itself is DataFusion's
and may leave rows of equal keys in any order. Label values are numbered in byte
order and spelled in bytes for the keys; the empty value is the absent label, as
in the code.

* `RefusedOnDuplicatesOnly`: an answer is refused exactly when one label set has
  two samples of one time, wherever the rows were cut.
* `AnswerIsInOrder`: without an explicit sort rows are in the order of labels;
  with one, in the order the query asked for, compared with the comparators
  `sort.rs` describes (numbers in a label value as numbers, NaN last both ways,
  ties by the whole label set), not with keys. A matrix has one series per label
  set.

`Ungrouped` models the two aggregates without groups, `absent.rs` and
`to_scalar.rs`, whose partial states are rows that are folded again, and the
labels `absent` takes from the matchers of its selector.

* `AnswersTheInput`: the answer of every order of arrival and every tree of
  merges is that of the rows, with the labels of names matched once, by equality.

### Expressions, Parser, Planner, Execution, Query: from text to answer

These follow one query through the stages of `engine.rs`:

* `Expressions` is the tree (`ast.rs`), its types (`value_type.rs`) and what
  `check_expr` and `function.rs` refuse, as operators.
* `Parser` is a state machine: one action per grammar action of
  `promql-parser`, over the stack of symbol values and the shared error list of
  `ParserCtx`. The generated LR automaton is an input, as the sequence of
  reductions it performs; a gate reports its feature and goes on.
* `Planner` is `plan.rs`: a plan is a tree of nodes, and planning one also says
  what the store is asked (`SelectHints`) in which order, and which error ends
  it. Selector bounds, `@` and `offset`, scalar folding, matching keys, dropped
  names and the grouping handed down are there; table and stage names are not.
* `Execution` runs a plan by the contracts the other modules check: a kernel's
  value is of the window there (`SeriesState`), an aggregation's of its group
  (`Aggregate`), a pairing's what `MatchGroup` says (`Pairing` is checked
  against that same operator), absent and scalar see all rows (`Ungrouped`),
  and a result with a label set twice at one time is refused (`Results`).
* `Query` opens with the reference, `Meaning`: the value of an expression at
  one step by recursion over the tree, with no plan, no name dropping ahead of
  time, no folding and no hints. Only what is computed of one window, one value
  or one group's values is shared with `Execution`. Then it composes the stages:
  `Parse`, `AnswerString` (no plan), `Prepare`, `Answered`.

Properties:

* `AcceptedIsEnabled`: an accepted expression uses no experimental function,
  selector or fill whose feature is off. Three of the four flags are modelled;
  the fourth, for duration expressions, guards forms that are not ported.
* `AskedOnlyForSoundQueries`: a store is asked only for an expression no rule
  refuses anywhere in it, with bounds that did not saturate.
* `PlanAnswersTheExpression`: what a plan that runs answers is what the
  expression means at every step; it is refused exactly when that is ambiguous.
* `GroupingNamesWhatIsRead`: a store that blanked every label the grouping hint
  does not name would change no answer.
* `MatchingReadsBack` (violated): see Findings.

What the modules keep that a reader may not expect, because the code does it:
`up + abs(1)` asks the store for `up` before the type error of `abs(1)` is
found, although `function.rs:8` says that is settled before anything is planned
(the property above is about `check_expr`'s rules); `sum(a, b)` keeps the last
argument and `sum()` parses as the number 0 (actions.rs); a repeated `offset` or
`@` overwrites, and one on anything but a selector or a subquery is dropped;
`absent_over_time` skips the range modifier check; with `group_right`,
`fill_right` fills the left side; `x[0s]` is accepted.

### Lexer, Durations: tokens, and what durations mean

`Lexer` models `promql-parser`'s `lexer.rs`: a state function per token class,
one action per branch of it, over sequences of characters. `state` is the state
function that runs next, `open` the flags the functions share. The parser of
queries does not read these tokens (its lexer is generated).

`Durations` is `promql-common/src/model/time.rs`: the scanner with its word of
64 bits that is checked before it wraps (`Accumulate`), the two tables of units,
the conversions and the printer, over characters. The last part of `Lexer`
(`ReadSpec`) composes the two along the path a literal takes: the lexer delimits
it, an action parses the text again by another grammar (`actions.rs`), the
planner makes milliseconds of its seconds, EXPLAIN prints it.

* `TokensTile`: tokens and what is ignored between them tile the input, in order.
* `AcceptedIsBalanced`: an input without an error closes all it opens.
* `LiteralMeans`: a duration token is its numbers times its units, when they are
  whole, in order and fit; otherwise it is refused, and never wraps.
* `PrintsBack`: what is printed for a duration, or one near it on either side of
  zero, reads back as the same, and what is under a millisecond does not change how
  the rest is printed (a week and a nanosecond is `1w1ns`).
* `Terminates`: no state function hands over to another for ever.

### Script, TestEngine, Verdicts, Harness

The conformance harness, bottom up. `Script` is `script.rs`: a line is a record
whose kind says how its text begins, and commands are cut from lines at blanks;
and, first, how a line of data becomes labels and values (`actions.rs`,
`grammar.y`): runs, omitted values, counts and their two limits. `TestEngine` is
`datafusion.rs` and `result.rs`: the store merged from the load blocks, the way
an answer is put in the terms of a script, and the engine as an input which is
right or wrong in one of nine ways (values off, rows lost, reversed, doubled or
split in two, unsupported, refused, broken, or an instant asked as a range).
`Verdicts` is `run.rs` (what an eval may read, which flags gate it, and the
comparison), then `supported.rs` and `report.rs`. `Harness` is the
machine of `tests/promqltest.rs`: scan every file, run it command by command,
then check the list or bless it; between runs the engine is rebuilt, the corpus
is pinned anew, and hands edit the list.

* `LinesReadOnce`: every line that is not blank is a command or under exactly
  one, each line of a load a series or kept as unread.
* `StoreIsWhatWasLoaded`: an eval is asked of what the lines above it write
  since the last clear, each block at its interval, the later line winning.
* `VerdictsAreFair`: an eval is not judged where a row, or data it may read,
  could not be read; otherwise it passes exactly if the engine's answer is the
  one its lines state.
* `TablesAddUp`, `DenominatorsHoldStill`: the columns of the report add up to
  their totals, and while the corpus stays pinned no rebuilt engine moves an eval
  from one category to another.
* `BlessedIsGreen`, `RatchetHolds`: a list made from a run is green against it,
  and what passed in a green run since the list was last written still passes in
  the next one, unless the corpus has lost it from a file declared all.

### Yacc, Vendor: the vendored grammar

`Yacc` is `yacc.rs`, `sidecar.rs` and `emitter.rs` over tokens: the reader of
goyacc files one token at a time, the rules the roots reach, the alternatives
that are kept, their actions. `Vendor` is `main.rs`: `pull` with one action per
file fetched and one per write after it (report, manifest, revision), `check`,
and `generate-grammar`. A pull fails at any call (`Fail`) or is killed in the
middle of a write (`CutWrite`), and hands edit the copies between commands. A
hash stands for its contents.

* `GreenIsOneRevision`: a check that passes vouches for whole revisions.
* `PullLands`: a pull that ends well has adopted its revision, whatever state it
  started from; only the pinned revision may lag, after a pull that was stopped
  between its last two writes.
* `NothingIsLost`: a grammar that is read, its `%prec` at the end of alternatives
  as goyacc has it, has been read whole: written down again, its rules are the
  tokens of the file. Behind `%prec X` only line ends count as nothing.
* `GeneratedIsClosed`, `SameLanguage`: the generated grammar needs nothing that
  is not there, and has upstream's language of sentences without what is skipped.

## 3. Runs

| Run | Bounds | Shows |
|---|---|---|
| `memory_source` | 2 series over 8 instants; grids of 1 to 5 steps, all signs of offset, `@`; block widths under, at, over the step; 1-2 partitions, chunks of 1+ samples | every cut is exact |
| `series_state` | 4 series of up to 12 samples in 1-3 chunks that overlap, repeat times, end stale; 5 grids; budgets of 1, 2 and 15 units; allowance of 2 samples; the one-step path on ordered triples of chunks around the window | both folds, under every suspension |
| `series_stream` | up to 3 raw rows of 5 shapes, cut into two batches anywhere; budget 2, 2 turns, batch of 1 or 3 rows and 2 samples | the driver, safety and liveness |
| `aggregate` | 2 partials, 2-3 keys, 4-step and 1-step grids, 8 descending steps, malformed lists of up to 3 times on a grid that ends at the last instant | grouped aggregation |
| `pairing` | every operator and cardinality, up to 4 rows of one match group over 2 steps, 2 partials | binary operators |
| `results` | 2 label names, up to 3 rows of up to 3 samples in 2 blocks and 2 batches; value sorts of 3 rows with NaN and none; label sorts of every pair of 40 values of NUL, `!`, `0`, `7`, `a` | organisation of a result, and explicit sorts |
| `ungrouped` | up to 3 rows over 2-3 steps, 2 partials, all matcher lists of up to 3 | absent and scalar |
| `lexer` | every input of up to 3-5 characters of seven alphabets, and longer ones; units of 288 down to 1, durations up to 999 | the tokenizer, safety and termination; durations |
| `query` | 169 expressions with every node kind and modifier, as 193 inputs with features on and off; 5 series of 2 to 4 samples; 10 grids and instants, among them ones that must be refused or would saturate | a query from its reductions to its answer |
| `harness` | files of up to 3 lines of an alphabet of every kind of line; every load, question and expected answer with every way of answering; 3 corpora of 2 files, up to 2 pins, 4 builds, 3 hand edits of the list and 4 runs; counts up to 3 | the harness and its ratchet |
| `sync` | 2 sets, 3 revisions that share files, 2 faults, 3 pulls or 2 and an edit; grammars of 3 rules under several sidecars; every token sequence of up to 4 in a rule part, 3 in a head | crashes, edits and checks in any order; the generator |
| `query_names` | 3 matches on quoted label names | finding: names are read back as others |

i64 is scaled down (8 bits in `query`, 6 or 7 elsewhere, 4 in `aggregate`) so
that its ends are reached; `query` scales the planner's `i64::MAX / 4` margin
and its step limit with it (42 and 5), a minute to 2 units and an hour to 3; nothing in the modules depends on the width. The bounds are chosen by
case, not by size: each input set holds a representative of every branch of the
code (the runs fire every action), every relative order of two chunks, and
budgets that stop the code at every point it can stop at. Two of each actor
(series, chunks, partials, partitions) suffice for a wrong interaction of two to
appear; a third row or chunk shows the return to an earlier one. A third pull
meets what a pull left that was stopped when repairing what another left.
`MaxRepeat` (1,000,000 in the code) is 3, so that a count over it and a line
over its sum occur.

`CHECK_DEADLOCK FALSE` is set where a run ends: a closed fold, an ended stream,
an evaluated accumulator, and the last pull or run of a setup have no next step.

**Fairness.** `SeriesState`'s two folds are loops of a synchronous
call: weak fairness of `Next` says that the call is executed. `SeriesStream` has
weak fairness of `Poll` (the runtime polls a woken task), `Run` (a poll runs to
its end), `InputArrives` (a source answers in the end) and `Demand` (the consumer
asks again). Nothing is assumed of cancellation. A woken flag that is lost is a
task never polled, so liveness under these assumptions is what `SleepsSafely`
needs in order to matter. `Lexer` has weak fairness of `Next`: `run` is a loop.
The other modules state safety only: the harness and the sync tool are commands
a person runs, and nothing makes them run.

## 4. Proofs

Every theorem below holds for every value of the constants, rests on their named
assumptions, which TLC evaluates in the runs, and on nothing else.

**Sequences** (`SequenceFacts`). What the other proofs need about prefixes,
concatenations, positions in order, and folds. The prover cannot apply an
induction rule to a predicate it is given, so a fact about every element is had
from a set with a least element (`Induct`, `Least`: the set of the counterexamples
would have one), and a fold from its recursive function, one step at a time.

**Grid arithmetic** (`MemorySourceProofs`, first part) needs no specification.
`DivGalois` (a floor quotient as a Galois connection) gives exactness of the two
roundings (`FirstIndexExact`, `LastIndexExact`), and `ForBlockExact` follows: a
block answers exactly the steps whose window ends in it, for every grid, sign,
offset and `@`. `AdjacentBlocksPartitionSteps` concludes that blocks that share
no instant share no step. `PlannedRangeDoesNotSaturate` shows that the planner's
bound (`i64::MAX / 4` per term, `plan.rs`) keeps every saturating operation of
`select_range` exact.

**The cut of a store** (`MemorySourceProofs`, second part):
`EveryStepInOneBlock` is the run's `EachStepInOneBlock` for every store, query
and block width. It is not inductive, since it speaks of a finished cut. `IInv`
adds `CutSoFar` (the blocks ascend without a gap up to the cursor) and
`RowsWhole` (each holds every sample that a window ending in it may read).
`ForBlockExact` turns "the window's end lies in this block" into "this block
answers the step", and `RowsWhole` makes the answer the store's.

**The stream of a partition** (`MemorySourceProofs`, third part):
`StreamsKeepOrder` is the run's `StreamOrder` for every store, query, number of
partitions, hash, chunk width and batch size, chunked or not. The invariant
`Dealing` adds what the cut does not say: a block is not empty in time and holds
rows of its own series under their own names (`BlockOK`), nothing is handed over
before the cut is finished, and what is handed over is a stream of its partition
(`Handed`). That `Assembled` makes one is shown along the samples' way: a finite
set of times has one ascending sequence (`AscendingExact`, by ranks), greedy
chunking loses none of it and keeps the chunks apart (`ChunkBoundsExact`), a
partition is dealt its parts block by block (`PartitionRowsExact`), each part is
cut into rows (`CuttingExact`), and batching moves no row (`BatchesFlatten`).
`SpreadSites` says from which part each row of the joined stream comes, so that
the order of the parts becomes the order of the rows, and `SpreadSpread` that
reading a series out of the stream is reading it out of each part. It rests on
two facts of a store, named in `SourceAssumption`: a series has finitely many
samples, and every series has a hash.

**The fold of a series** (`SeriesStateProofs`), for every series whose chunks
ascend in time (`docs/series-source.md`; times may repeat, chunks may overlap in
any way), every grid, kernel and budget, whichever owner holds it.

* *Bounds* (`StateInBoundsAlways`). `WindowInv` joins the types, `InBounds` and
  `Grounded`: where the program counter is inside a row there is one, its position
  is inside it and what is lent is a part of it. The lemmas bound each turn of a
  kernel, each return and each drain.
* *The sweep* (`FoldsHoldTheWindow`). What a sweep must hold is said over ordinals
  of one growing sequence of samples (`Tracks`), so that neither a drain, which
  renumbers, nor the change from a lent slice to the buffer disturbs it. There is
  one lemma for each move of an edge (entering, leaving, dropping a beaten
  candidate) and one for the empty window. Stale markers never enter a range
  kernel (`NoneStale`), which the counter's pairs and the extremum's order need.
* *Claims* (same theorem). `ClaimInv` follows the watermark through a row: before
  it the latest last time of the earlier chunks, inside it between the sample last
  read and the next one, after it the latest again, over the time that an
  allowance cut in a run of equal times has to give back.
* *The candidate* (`CandidateIsTheLatest`). The reference is a fold over the
  chunks; `MergedGrows` unrolls it by one. `Caught` says that the selector's
  watermark sees of a chunk exactly what the fold sees, although it also counts
  what the fold has dropped (`UnseenIsTheRest`); `PickIsLatest` that the pick from
  the tail is the latest of the window, an empty or late chunk leaving the old one.
* *The answers* (`AnswersComeInOrder`). A series implements `OrderedAnswers` step by
  step, which is the safety half of the run's `AnswersInOrder`. The reference reads
  the window of a step off the whole series, the fold off what it holds, so
  `FoldInv` relates the two: how many samples of the whole have been read
  (`ReadInv`), that what is held are those of them that a later step can read
  (`HoldsInv`), that no edge has passed its end of the window (`EdgeInv`), that a
  sweep lacks nothing but a sample about to enter (`SlackInv`), that a pinned value
  is the first step's (`PinnedInv`), and that what is out are the answers of the
  steps so far (`OutInv`). A step is answered once the watermark has reached the end
  of its window, and then nothing unread is in it (`ReadyCovers`), so that what is
  held shows the same window (`WindowAtStep`) and the sweep the same picks
  (`SweepPicks`), those of an extremum being the first best sample of the window
  (`ExtremeIsBest`). That closing answers everything needs the ends of all windows
  to be within an i64, as the planner's bound has them (`BufferAssumption`).

**The driver** (`SeriesStreamProofs`), for every source and every value of the
budgets. The properties are not inductive: a batch stays bounded because of what
`update` checked two actions earlier. `IInv` adds

* `Placed`: where the poll is, which of batch, cursor and fold exist;
* `RowInHand`: a row about to be pushed exists and has samples left;
* `OutputFits`: the output under construction is already bounded, and when a
  row is copied there is room for it;
* `Charged`: between checkpoints only marked work is uncharged.

There is one lemma per conjunct, one step per action in each, joined by
`NextIInv`. The theorems `TypesHold`, `BatchBounds`, `SleepSafety`, `EndRelease`
and `ReservationIsExact` are its projections. `RowsAccounted` adds an equation to
it: what was handed over, then the output under construction, then the answer of
the open fold, then the promise of what is unread, is the promise of the source.
An action moves a boundary of that concatenation and nothing else, so
`ImplementsRowStream` follows: initial states and steps of the driver are initial
states and steps, or stutters, of `RowStream`. They rest on `StreamAssumption`:
positive budgets, and inputs that are finite sequences.

**Aggregation** (`AggregateProofs`). First the helpers every row goes through:
`IncludeIsExact` (after `Span::include` the step has a place, every cell that held
samples still does, new cells are empty, headroom and the work of moving cells
stay bounded; one lemma per operation of the code) and `AcceptedIsWellFormed`
(timestamps are accepted exactly if they are ascending steps of the grid,
although the code looks at the ends of runs only). Then the whole accumulator:
`RefusesOnlyMalformed` and `StaysLean` are the run's `FailsOnlyMalformed` and
`SpansStayLean`. `IInv` holds what a row may be (`InputsOK`, `KeysOK`), that
every store has a lean span for each of its groups and their size (`StoresOK`),
what a state under way is made of (`SentOK`), and which groups the call that runs
may still reach (`CallOK`).

`FoldsInArrivalOrder` is the run's `ArrivalOrder`. Order in a cell is not
inductive: where a cell goes next, and behind what, depends on everything ahead of
it. The invariant (`Trails`) is an equation for each partial, key and time instead.
What the final accumulator holds of the partial's rows (answered, stored, in the
call that runs), and behind it what the partial has (sent, stored, in the call),
is what its batches gave, in order. A fold moves the line between what is stored
and what the call has; a drain moves rows from a store to those sent or answered;
a merge moves the first state sent to the final's call, behind all it holds. Each
is one law of concatenation (`OpenHolds`, `FoldRowHolds`, `DrainHolds`,
`TrailMoves`), given that a list row says just what its cells hold. The pass-through
needs the partial empty (`skipping` only where it has no key), or its rows would
overtake those it holds. `AllSound` beside it says that stored and sent states
are full and theirs, that a call's rows fit their groups, and that rows have
different ids (`RowsAssumption`; ids are how the model names samples).

`KeepsEachSampleOnce` is the run's `EachSampleOnce`, on the same equation. What the
final accumulator and the partial have of a key and a time, one behind the other,
is what was given of it, in order; so a sample given is in it (`GivenHas`), a
sample in it was given, and none is in it twice (`HasPieces`: an id that stands in
order in a whole stands in one of its pieces). The pieces are the places a cell may
be in (answered, a store, a state sent, a row of the call), and `SpreadApart` goes
on into each: two cells with the sample are one. Only the rows of a call that have
not been folded need more than the equation, since they bear timestamps and no
cells: `CallIsGiven` says that they are rows taken, none of them filtered.

**Absent and scalar** (`UngroupedProofs`): `AnswersTheInputAlways` is the run's
property for any number of accumulators. The invariant deals the rows given so
far over the places they may be in, an accumulator or a state under way; each
place holds what its rows say together, and to merge two places is to join their
rows. The labels of `absent` are a fold over the matchers, read prefix by prefix.

**The tokenizer** (`LexerProofs`), for every input and keyword table. `IInv` says
of each state function where it may begin (`Handed`: its token not begun, its
first character there, its bracket or quote open), that the cursor is inside the
input (`CursorOK`) and that the end comes last (`EndIsLast`), beside the two
properties, which are inductive with these. There is one lemma per state
function. `CursorStaysInside`, `TokensTileAlways` and `AcceptedBalances` are its
projections. The last part is about durations: `AccumulateIsExact` shows for every
table of units and word that the check before the product and the one after the
sum leave nothing that wraps; `MillisSurvive` that milliseconds that fit come
back.

**The vendored files** (`VendorProofs`), for every number of revisions, files and
commands, and every failure and edit between them. `GreenCheckIsOneRevision` and
`PullAdoptsItsRevision` are the run's `GreenIsOneRevision` and `PullLands`. The
invariant has four parts: `ManifestOK`, a manifest is one revision's or was cut
(a mixture is never written); `MetaOK`, where no pull was stopped between its
last two writes the pinned revision and the manifest agree (`CertainIsSettled`);
`PullOK`, what the running pull has fetched is the target's and is on disk; and
the two properties, which speak of the last command only. One lemma per action,
joined by `NextIInv`. `WhatIsGeneratedIsClosed` is `GeneratedIsClosed`: a second
invariant (`GInv`) says that every copy is a text and that what was emitted was
emitted of a grammar read from one, which needs the types of the reader, token by
token (`ReadTokenType`, `ParseType`). The rest is of one state: `Reachable` takes
as many rounds as the grammar has rules, each round before the last adds a rule
or there is nothing left to add, and there are no more rules than rounds, so it
is closed (`ReachableIsClosed`), and it is inside every set that is
(`ReachableIsLeast`). That a token is renamed to a token is assumed of every
sidecar, as `grammar-tokens.toml` has it. `ReadingLosesNothing` is `NothingIsLost`,
for texts of any length: an induction along the text (`ReadsOn`) whose claim
(`ReadSo`) is that the reader has failed, or is before the rules and knows whether
a directive has taken the line, or is within them and what it has, written down
with the alternative it is in (`Said`), is every token since the mark that opened
them, or has ended at the next one. Each reader function adds one token at the end
of what is said, or none for what only ends something (`ReadWithin`). The
hypothesis on `%prec` came out of this proof: with a line end between `%prec X`
and a further name the reader does move the name before the `%prec`, which the run
did not show while its rules had no line ends. That no token is spelled like the
model's value for "no %prec" is an assumption on the setups.

Only model-checked:

* liveness: the fairness halves of `RowsInOrder` and `AnswersInOrder`, and
  `Terminates`; fairness and ENABLED are out of the prover's reach;
* `HistoryIsAWindow`, which bounds what a fold holds; `LiteralMeans`, `PrintsBack`,
  `AnswersTheRows`, `AnswerIsInOrder`, `RefusedOnDuplicatesOnly`: not attempted;
* `SameLanguage`, which compares derivations of two grammars;
* what is in `Query` and `Harness`, whose modules recurse over trees and scripts.

## 5. Findings

One disagreement is a run of its own:

* `query_names`: `Matching::literal` (`binary.rs:408`) spells label names into a
  text unquoted, and `parse` reads them back from it when the plan runs. The
  grammar admits a string as a label, so `on("job, pod")` is planned on one
  label and answered with two others, and a name with `)` in it fails the query;
  `binary.rs:450` says what cannot be spelled was not written by the planner.

The others were met while modelling. The modules do what the code does in each
case, and no run states the opposite.

* Rows of one operand that a name-dropping function left with equal labels are
  one series of a match group, and its last value is read at a count of two
  (`binary.rs:949`); `binary.rs:1208` says a value is read only at a count of one.
  `MCPairing` has rows of equal labels at different steps only, so `AnswersTheRows`
  is silent about these.
* `lex_escape` passes over the first digit of `\x`, `\u`, `\U` and octal escapes
  (`promql-parser/src/lexer.rs:635`); upstream's `lexEscape`, of which it is a
  port, reads it (`upstream/lex.go:805`). It also accepts `.0m`, `1.5m` and
  `1m1h`, which the parse of the literal refuses.
* In a series description `stale x N` adds 0.0 to the stale marker. The constant
  (`actions.rs`, `STALE_NAN`, called a quiet NaN there) is a signalling one, which
  the addition makes quiet, so only the first value is a marker; upstream appends
  the value itself.
* The header `Manifest::save` writes (`promql-sync/src/main.rs:524`) says hashes
  are verified on startup and that the tool refuses to proceed on a mismatch;
  `pull` never compares them.
* `check` compares the vendored files with `MANIFEST.toml` and looks for strays;
  `docs/parser-sync.md:334` says it validates the integrity of `sync-meta.toml`
  as well, which it never opens.
* A pull that is stopped after the manifest is saved and before the revision is
  leaves a stale `pinned_upstream_sha`, and repeating it mends nothing: no file
  changes, so neither is written (hence `uncertain` in `PullLands`).
* A `sync-meta.toml` cut to nothing is valid TOML, and the next pull writes it
  without the translation tables it had.
* A rule all of whose alternatives are filtered out is emitted with a
  placeholder, an alternative that derives nothing. Character literals do not
  pass verbatim (`yacc.rs:320`): the emitter quotes them again. The semicolon of
  a rule is optional only after an action.
* The message of `expect fail` is read (`script.rs:218`) and never compared
  (`run.rs:499`); `expect ordered` on a range is ignored; a bare number after
  rows replaces nothing and is dropped; a label set that is expected twice is
  compared loosely.
* A file that is fully green but has gated evals becomes a regression when its
  entry is promoted to `all`, as the report suggests (`report.rs:205`): `all`
  binds the gated evals too, which never count as passed, while `run.rs:88` says
  they are left out of the totals and the list.
* Without blocks, `select` hands over rows without a sample, which
  `docs/series-source.md:112` excludes; `source.rs:92` documents `step_ms` as
  `None` for an instant query, where `plan.rs:540` always sets it.

## 6. Not modelled

* Float arithmetic (folds, `rate`'s extrapolation, quantiles): TLC has no floats.
* The accumulator of a call without grouping columns (`aggregate.rs`), whose
  cells are those of one group without a span; DataFusion's spilling.
* Encoding and validation of Arrow layouts, metrics, EXPLAIN, error wording: a
  change of representation, no state that a property could be about.
* Regular expressions and label rewriting: string work on one row, no state
  between rows.
* The node that plans the evaluation stream, and the tables of tokens:
  construction and data.
* The generated LR automaton, which is generated; HTTP and TOML.
* Concurrent executions of one prepared query: each builds its own operators,
  and what they share (the plan, the runtime's pool) is DataFusion's.

## 7. Plan

Done, in order of importance: which block answers a step, the fold of a series,
its driver, aggregation, binary operators, results and sorts, the ungrouped
aggregates, the tokenizer, the path of a query through parser, planner and
execution, durations along a literal's path, the conformance harness with its
series descriptions, the grammar synchronisation; and the proofs of section 4.

Left, in this order:

1. `PreparedQuery` (`engine.rs`): one plan executed twice, concurrently, and
   after a cancellation; the blocking entry points.
2. The state of the one-group accumulator of `aggregate.rs`.
3. Proofs: `HistoryIsAWindow`, from what `FoldInv` says of the held samples.
