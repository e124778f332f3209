---------------------------- MODULE MemorySource ----------------------------
(***************************************************************************)
(* MemorySeriesSource::select (promql-engine/src/memory.rs): the reference *)
(* store.  It cuts the select's window ends into blocks, gives each block  *)
(* every sample its windows reach, spreads whole series over partitions,   *)
(* splits them into chunks and packs the chunks into batches.              *)
(*                                                                         *)
(* The engine answers each block alone, with the steps of the query's grid *)
(* that StepGrid!ForBlock gives it; ForBlock is what composes the two.     *)
(*                                                                         *)
(* A series is its row in the stored order; a sample is its timestamp.     *)
(***************************************************************************)
EXTENDS StepGrid, Sequences, FiniteSets, SequencesExt

CONSTANTS
  NoWidth,   \* block_ms = None, chunk_ms = None
  Stores,    \* the stored series a run considers: sequences of sets of times
  Queries,   \* the grids a run considers
  Layouts    \* the store's modes a run considers

ASSUME SourceAssumption ==
  /\ NoWidth \notin Int
  /\ Stores \subseteq Seq({times \in SUBSET Int : IsFiniteSet(times)})
  /\ Queries \subseteq {p \in Grids : Planned(p)}
  /\ \A l \in Layouts :
       /\ l.blockMs \in (Nat \ {0}) \cup {NoWidth}
       /\ l.chunkMs \in Nat \cup {NoWidth}
       /\ l.partitions \in Nat \ {0} /\ l.rowsPerBatch \in Nat \ {0}
       /\ l.hash \in Seq(Nat) /\ \A s \in Stores : Len(s) <= Len(l.hash)

VARIABLES
  stored,     \* the stored batch: one set of sample times per series
  grid,       \* the query's grid, from which the select's hints follow
  layout,     \* blockMs, chunkMs, partitions, rowsPerBatch, and the hash of
              \* each series' label set
  start,      \* cut_into_blocks' cursor: where the next block begins
  blocks,     \* the blocks cut so far, each with its series' samples
  delivered   \* the batches of each partition assembled so far

vars == <<stored, grid, layout, start, blocks, delivered>>

Series == DOMAIN stored
Partitions == 0 .. layout.partitions - 1

\* SelectHints: the scan range and the window it reaches back by.
Hints == [lo |-> SelectRange(grid).lo, hi |-> SelectRange(grid).hi, window |-> grid.window]

Later(a, b) == IF a > b THEN a ELSE b
Earlier(a, b) == IF a < b THEN a ELSE b

\* series::clip: both bounds inclusive.
Clip(times, lo, hi) == {t \in times : lo <= t /\ t <= hi}

\* One series' part of a block.
Part(s, block, times) == [series |-> s, block |-> block, times |-> times]

\* clip and with_block over every stored series, in stored order.
BlockOf(block, lo, hi) ==
  [bounds |-> block,
   rows   |-> [s \in Series |-> Part(s, block, Clip(stored[s], lo, hi))]]

\* series::drop_empty: the rows left keep the order of their series.
DropEmpty(b) == [b EXCEPT !.rows = Restrict(@, {s \in Series : b.rows[s].times # {}})]

\* partition_by_labels: a series' rows keep their order and their partition.
Assign(s) == IF layout.partitions = 1 THEN 0 ELSE layout.hash[s] % layout.partitions

\* The one sequence of a finite set in which each is later than those before it.
Ascending(times) ==
  CHOOSE ts \in [1 .. Cardinality(times) -> times] : \A i, j \in DOMAIN ts : i < j => ts[i] < ts[j]

Dealt(rows, n) ==
  LET own == Ascending({s \in DOMAIN rows : Assign(s) = n})
  IN  [i \in DOMAIN own |-> rows[own[i]]]

\* Variant: a partition's newest block comes first.
PartitionRowsNewestFirst(n) ==
  FlattenSeq([k \in DOMAIN blocks |-> Dealt(blocks[Len(blocks) + 1 - k].rows, n)])

PartitionRows(n) == FlattenSeq([k \in DOMAIN blocks |-> Dealt(blocks[k].rows, n)])

\* The rows split_into_chunks makes of one series: greedy runs of at most
\* chunk_ms span, and one empty row for a series with no samples.
Row(part, ts) == [series |-> part.series, block |-> part.block, ts |-> ts]

ChunkedWith(chunks, t) ==
  IF chunks # <<>> /\ t - Head(Last(chunks)) <= layout.chunkMs
  THEN [chunks EXCEPT ![Len(chunks)] = Append(@, t)]
  ELSE Append(chunks, <<t>>)

ChunkBounds(ts) == FoldLeft(ChunkedWith, <<>>, ts)

Chunks(part) ==
  IF part.times = {} THEN << Row(part, <<>>) >>
  ELSE LET cs == ChunkBounds(Ascending(part.times))
       IN  [k \in DOMAIN cs |-> Row(part, cs[k])]

\* Variant: only full batches are handed over.
FullBatches(rows, n) ==
  [k \in 1 .. Len(rows) \div n |-> SubSeq(rows, (k - 1) * n + 1, k * n)]

Batches(rows, n) ==
  [k \in 1 .. (Len(rows) + n - 1) \div n |->
     SubSeq(rows, (k - 1) * n + 1, Earlier(k * n, Len(rows)))]

\* split_into_chunks, or slice_rows, where no rows are still one batch.
Assembled(n) ==
  LET parts == PartitionRows(n)
  IN  IF layout.chunkMs # NoWidth
      THEN Batches(FlattenSeq([k \in DOMAIN parts |-> Chunks(parts[k])]), layout.rowsPerBatch)
      ELSE IF parts = <<>> THEN << <<>> >>
      ELSE Batches([k \in DOMAIN parts |-> Row(parts[k], Ascending(parts[k].times))],
                   layout.rowsPerBatch)

-----------------------------------------------------------------------------
Init ==
  /\ stored \in Stores
  /\ grid \in Queries
  /\ layout \in Layouts
  /\ start = Hints.lo + Hints.window
  /\ blocks = <<>>
  /\ delivered = [n \in {} |-> <<>>]

Cut == start > Hints.hi

\* Variant: a block holds only the samples inside it, without the reach-back.
CutBlockWithoutReach ==
  /\ layout.blockMs # NoWidth
  /\ start <= Hints.hi
  /\ LET end   == (start \div layout.blockMs + 1) * layout.blockMs
         block == [start |-> start, end |-> Earlier(end, IntMax)]
     IN  /\ blocks' = Append(blocks, DropEmpty(BlockOf(block, start, Earlier(end - 1, Hints.hi))))
         /\ start' = end
  /\ UNCHANGED <<stored, grid, layout, delivered>>

\* cut_into_blocks: one turn of its loop.
CutBlock ==
  /\ layout.blockMs # NoWidth
  /\ start <= Hints.hi
  /\ LET end   == (start \div layout.blockMs + 1) * layout.blockMs
         block == [start |-> start, end |-> Earlier(end, IntMax)]
     IN  /\ blocks' = Append(blocks,
                        DropEmpty(BlockOf(block, Later(start - Hints.window, Hints.lo),
                                          Earlier(end - 1, Hints.hi))))
         /\ start' = end
  /\ UNCHANGED <<stored, grid, layout, delivered>>

\* The default: one block over the whole window-end domain.
WholeBlock ==
  /\ layout.blockMs = NoWidth
  /\ start <= Hints.hi
  /\ LET block == [start |-> SatAdd(Hints.lo, Hints.window), end |-> SatAdd(Hints.hi, 1)]
     IN  /\ blocks' = << BlockOf(block, Hints.lo, Hints.hi) >>
         /\ start' = block.end
  /\ UNCHANGED <<stored, grid, layout, delivered>>

\* Concatenate a partition's blocks, chunk them and hand the batches over.
Deliver(n) ==
  /\ Cut
  /\ n \notin DOMAIN delivered
  /\ delivered' = [m \in DOMAIN delivered \cup {n} |-> IF m = n THEN Assembled(n) ELSE delivered[m]]
  /\ UNCHANGED <<stored, grid, layout, start, blocks>>

Next ==
  \/ CutBlock
  \/ WholeBlock
  \/ \E n \in Partitions : Deliver(n)

Spec == Init /\ [][Next]_vars

-----------------------------------------------------------------------------
Answers(k) == Steps(ForBlock(grid, blocks[k].bounds))

SamplesIn(k, s) == IF s \in DOMAIN blocks[k].rows THEN blocks[k].rows[s].times ELSE {}

(***************************************************************************)
(* A block answers its steps alone: for every step it answers, the samples *)
(* it holds of a series inside the step's window are all the store has     *)
(* there.  The reach-back by window_ms is what makes it true at the edge.  *)
(***************************************************************************)
BlocksAnswerAlone ==
  \A k \in DOMAIN blocks : \A t \in Answers(k) : \A s \in Series :
    \A u \in stored[s] :
      WindowEnd(grid, t) - grid.window < u /\ u <= WindowEnd(grid, t)
        => u \in SamplesIn(k, s)

(***************************************************************************)
(* Every step whose window end the cursor has passed is answered by        *)
(* exactly one of the blocks cut so far, and no other step by any: the     *)
(* blocks a select returns answer the whole grid once, wherever block      *)
(* edges fall between the steps and under any offset or @, and each from   *)
(* the samples of its own block alone.                                     *)
(***************************************************************************)
EachStepInOneBlock ==
  /\ BlocksAnswerAlone
  /\ \A t \in Steps(grid) :
      IF WindowEnd(grid, t) < start
      THEN \E k \in DOMAIN blocks :
             /\ t \in Answers(k)
             /\ \A j \in DOMAIN blocks : t \in Answers(j) => j = k
      ELSE \A k \in DOMAIN blocks : t \notin Answers(k)

RowsOf(n) == FlattenSeq(delivered[n])

(***************************************************************************)
(* The order every reader relies on, over a partition's whole stream and   *)
(* never a batch: blocks ascend without overlap, a series' chunks of one   *)
(* block are consecutive and ascend, and a series has one partition.       *)
(***************************************************************************)
PartitionsInOrder ==
  /\ \A n \in DOMAIN delivered : \A i, j \in DOMAIN RowsOf(n) :
       LET a == RowsOf(n)[i] b == RowsOf(n)[j]
       IN  i < j =>
             /\ a.block = b.block \/ a.block.end <= b.block.start
             /\ a.block = b.block /\ a.series = b.series =>
                  /\ \A k \in i .. j : RowsOf(n)[k].series = a.series
                  /\ Last(a.ts) < Head(b.ts)
  /\ \A m, n \in DOMAIN delivered : m # n =>
       {RowsOf(m)[i].series : i \in DOMAIN RowsOf(m)}
         \cap {RowsOf(n)[i].series : i \in DOMAIN RowsOf(n)} = {}

(***************************************************************************)
(* Partitioning, chunking and batching lose and repeat nothing: once all   *)
(* partitions are handed over, the chunks of a series in a block hold      *)
(* exactly the block's samples of it, each once.                           *)
(***************************************************************************)
Complete == DOMAIN delivered = Partitions

ChunksHoldTheBlock ==
  Complete =>
    \A k \in DOMAIN blocks, s \in Series :
      LET rows == RowsOf(Assign(s))
          own(r) == IF r.series = s /\ r.block = blocks[k].bounds THEN r.ts ELSE <<>>
      IN  FlattenSeq([i \in DOMAIN rows |-> own(rows[i])]) = Ascending(SamplesIn(k, s))

(***************************************************************************)
(* What a reader of the partitions relies on: their order, and that        *)
(* together they are the blocks.                                           *)
(***************************************************************************)
StreamOrder == PartitionsInOrder /\ ChunksHoldTheBlock
=============================================================================
