-------------------------- MODULE MemorySourceProofs --------------------------
(***************************************************************************)
(* What MemorySeriesSource::select promises the engine, for every store,   *)
(* query and layout: its blocks answer the whole grid once, each from the  *)
(* samples it holds, and its partitions hand over the blocks' samples,     *)
(* each once and in order.                                                 *)
(*                                                                         *)
(* ForBlockExact says which steps a block answers; the invariant says how  *)
(* far the cut has come and what each block of it holds.  For the          *)
(* delivery, the lemmas follow the samples from the block to the stream:   *)
(* a finite set in order, its chunks, the parts a partition is dealt, the  *)
(* rows they are cut into, the batches.                                    *)
(***************************************************************************)
EXTENDS MemorySource, SequenceFacts

-----------------------------------------------------------------------------
(***************************************************************************)
(* What params.rs promises of the grid arithmetic, for every grid and      *)
(* every block.                                                            *)
(***************************************************************************)
\* Flooring division by a positive divisor, and the multiple it leaves below a.
LEMMA DivFloor ==
  ASSUME NEW a \in Int, NEW d \in Int, d > 0
  PROVE  /\ a \div d \in Int
         /\ (a \div d) * d <= a
         /\ a < (a \div d) * d + d
  BY SMT

\* Multiples of a step keep the order of their indices (StepAt, params.rs).
LEMMA MulMono ==
  ASSUME NEW i \in Int, NEW j \in Int, NEW d \in Int, d > 0
  PROVE  (i * d <= j * d) <=> (i <= j)
  BY SMT

\* The multiple after, the multiple before, and the first two (StepAt).
LEMMA MulSucc ==
  ASSUME NEW i \in Int, NEW j \in Int, NEW d \in Int
  PROVE  /\ i * d \in Int
         /\ (i + j) * d = i * d + j * d
         /\ (i - j) * d = i * d - j * d
         /\ 0 * d = 0 /\ 1 * d = d
  BY SMT

\* A multiple of the divisor is at or below a exactly up to the floor.
LEMMA DivGalois ==
  ASSUME NEW a \in Int, NEW d \in Int, d > 0, NEW i \in Int
  PROVE  (i * d <= a) <=> (i <= a \div d)
<1> DEFINE q == a \div d
<1>1. q \in Int /\ q * d <= a /\ a < q * d + d
  BY DivFloor
<1>2. ASSUME i <= q PROVE i * d <= a
  <2>1. i * d <= q * d  BY <1>1, <1>2, MulMono
  <2>2. i * d \in Int /\ q * d \in Int  BY <1>1, MulSucc
  <2> QED BY <1>1, <2>1, <2>2
<1>3. ASSUME ~(i <= q) PROVE ~(i * d <= a)
  <2>1. q + 1 <= i  BY <1>1, <1>3
  <2>2. (q + 1) * d <= i * d  BY <1>1, <2>1, MulMono
  <2>3. (q + 1) * d = q * d + d /\ i * d \in Int /\ q * d \in Int
    BY <1>1, MulSucc
  <2> QED BY <1>1, <2>2, <2>3
<1> QED BY <1>2, <1>3

(***************************************************************************)
(* FirstIndex is exact: a step at or after the query's start has its       *)
(* window end at or past lo exactly from FirstIndex on.                    *)
(***************************************************************************)
LEMMA FirstIndexExact ==
  ASSUME NEW p \in Grids, p.step > 0, NEW lo \in Int, NEW i \in Nat
  PROVE  /\ FirstIndex(p, lo) \in Nat
         /\ (lo <= StepAt(p, i) - p.offset) <=> (FirstIndex(p, lo) <= i)
<1> DEFINE d == p.step
           a == lo + p.offset - p.start
           q == a \div d
           first == IF q < 0 THEN 0 ELSE q
<1>1. d \in Int /\ d > 0 /\ a \in Int /\ p.start \in Int /\ p.offset \in Int
  BY DEF Grids
<1>2. q \in Int /\ q * d <= a /\ a < q * d + d
  BY <1>1, DivFloor
<1>3. i * d \in Int /\ q * d \in Int /\ first \in Nat /\ first * d \in Int /\ 0 * d = 0
  BY <1>1, <1>2, MulSucc
<1>4. (lo <= StepAt(p, i) - p.offset) <=> (a <= i * d)
  BY <1>1, <1>3 DEF StepAt
<1>5. (StepAt(p, first) < lo + p.offset) <=> (first * d < a)
  BY <1>1, <1>3 DEF StepAt
<1>6. FirstIndex(p, lo) = IF first * d < a THEN first + 1 ELSE first
  BY <1>5 DEF FirstIndex
<1>7. (i * d <= q * d <=> i <= q) /\ (first * d <= i * d <=> first <= i)
  BY <1>1, <1>2, <1>3, MulMono
<1>8. (q + 1) * d = q * d + d /\ ((q + 1) * d <= i * d <=> q + 1 <= i)
  BY <1>1, <1>2, MulSucc, MulMono
<1>9. CASE first * d < a
  <2>1. first = q
    <3>1. CASE q < 0
      <4>1. 0 < a  BY <1>3, <1>9, <3>1
      <4>2. (q + 1) * d <= 0 * d  BY <1>1, <1>2, <3>1, MulMono
      <4> QED BY <1>1, <1>2, <1>3, <1>8, <4>1, <4>2
    <3>2. CASE ~(q < 0)  BY <3>2
    <3> QED BY <3>1, <3>2
  <2>2. (a <= i * d) <=> q + 1 <= i
    BY <1>1, <1>2, <1>3, <1>7, <1>8, <1>9, <2>1
  <2> QED BY <1>2, <1>3, <1>4, <1>6, <1>9, <2>1, <2>2
<1>10. CASE ~(first * d < a)
  <2>1. ASSUME first <= i PROVE a <= i * d
    BY <1>1, <1>3, <1>7, <1>10, <2>1
  <2>2. ASSUME a <= i * d PROVE first <= i
    <3>1. CASE q < 0  BY <1>3, <3>1
    <3>2. CASE ~(q < 0)
      <4>1. q * d <= i * d  BY <1>1, <1>2, <1>3, <2>2
      <4> QED BY <1>2, <1>7, <3>2, <4>1, <1>3
    <3> QED BY <3>1, <3>2
  <2> QED BY <1>3, <1>4, <1>6, <1>10, <2>1, <2>2
<1> QED BY <1>9, <1>10

(***************************************************************************)
(* LastIndex is exact: a grid step has its window end before hi exactly    *)
(* up to LastIndex.                                                        *)
(***************************************************************************)
LEMMA LastIndexExact ==
  ASSUME NEW p \in Grids, p.step > 0, StepCount(p) \in Int, NEW hi \in Int,
         NEW i \in 0 .. StepCount(p) - 1
  PROVE  /\ LastIndex(p, hi) \in Int
         /\ LastIndex(p, hi) <= StepCount(p) - 1
         /\ (StepAt(p, i) - p.offset < hi) <=> (i <= LastIndex(p, hi))
<1> DEFINE d == p.step
           a == hi + p.offset - 1 - p.start
           q == a \div d
<1>1. d \in Int /\ d > 0 /\ a \in Int /\ p.start \in Int /\ p.offset \in Int /\ i \in Int
  BY DEF Grids
<1>2. q \in Int  BY <1>1, DivFloor
<1>3. i * d \in Int  BY <1>1, MulSucc
<1>4. (StepAt(p, i) - p.offset < hi) <=> (i * d <= a)
  BY <1>1, <1>3 DEF StepAt
<1>5. (i * d <= a) <=> (i <= q)
  BY <1>1, DivGalois
<1> QED BY <1>2, <1>4, <1>5 DEF LastIndex

\* The cut grid between two indices of the grid is those indices' steps.
LEMMA SubGridCount ==
  ASSUME NEW p \in Grids, p.step > 0, NEW m \in Int, NEW n \in Int, m <= n
  PROVE  StepCount([p EXCEPT !.start = StepAt(p, m), !.end = StepAt(p, n)]) = n - m + 1
<1> DEFINE d == p.step
           g == [p EXCEPT !.start = StepAt(p, m), !.end = StepAt(p, n)]
           w == StepAt(p, n) - StepAt(p, m)
<1>1. d \in Int /\ d > 0 /\ p.start \in Int /\ m * d \in Int /\ n * d \in Int
  BY MulSucc DEF Grids
<1>2. g.step = d /\ g.start = StepAt(p, m) /\ g.end = StepAt(p, n)
  BY DEF Grids
<1>3. w = (n - m) * d /\ w \in Int /\ m * d <= n * d
  BY <1>1, MulSucc, MulMono DEF StepAt
<1>4. ~(g.step <= 0) /\ ~(g.end < g.start)
  BY <1>1, <1>2, <1>3 DEF StepAt
<1>5. w \div d \in Int /\ (w \div d) * d <= w /\ w < (w \div d) * d + d
  BY <1>1, <1>3, DivFloor
<1>6. n - m <= w \div d
  BY <1>1, <1>3, DivGalois
<1>7. w \div d <= n - m
  BY <1>1, <1>3, <1>5, MulMono
<1> QED BY <1>2, <1>4, <1>5, <1>6, <1>7 DEF StepCount

\* A grid has a natural number of steps (Params::step_count).
LEMMA StepCountType ==
  ASSUME NEW p \in Grids
  PROVE  StepCount(p) \in Nat
<1>1. CASE p.step <= 0 \/ p.end < p.start
  BY <1>1 DEF StepCount
<1>2. CASE ~(p.step <= 0 \/ p.end < p.start)
  <2>1. p.step \in Int /\ p.step > 0 /\ p.end - p.start \in Int /\ 0 <= p.end - p.start
    BY <1>2 DEF Grids
  <2>2. (p.end - p.start) \div p.step \in Int
    BY <2>1, DivFloor
  <2>3. 0 * p.step <= p.end - p.start
    BY <2>1, MulSucc
  <2>4. 0 <= (p.end - p.start) \div p.step
    BY <2>1, <2>3, DivGalois
  <2> QED BY <1>2, <2>2, <2>4 DEF StepCount
<1> QED BY <1>1, <1>2

\* Params::empty has no step.
LEMMA EmptyGridSteps ==
  ASSUME NEW p \in Grids
  PROVE  Steps(EmptyGrid(p)) = {}
<1>1. EmptyGrid(p).start = 1 /\ EmptyGrid(p).end = 0
  BY DEF EmptyGrid, Grids
<1>2. StepCount(EmptyGrid(p)) = 0
  BY <1>1 DEF StepCount
<1> QED BY <1>2 DEF Steps

(***************************************************************************)
(* A block answers exactly the steps whose window end lies in it: the      *)
(* contract of Params::for_block, for every grid, block, offset and @.     *)
(* Nothing is answered from the reach-back a block repeats and no step of  *)
(* the block is dropped, wherever the block's edges fall.                  *)
(***************************************************************************)
THEOREM ForBlockExact ==
  ASSUME NEW p \in Grids, p.step > 0, NEW b \in Blocks
  PROVE  Steps(ForBlock(p, b)) =
           {t \in Steps(p) : b.start <= WindowEnd(p, t) /\ WindowEnd(p, t) < b.end}
<1> DEFINE n == StepCount(p)
           first == FirstIndex(p, b.start)
           last == LastIndex(p, b.end)
           g == [p EXCEPT !.start = StepAt(p, first), !.end = StepAt(p, last)]
<1>1. n \in Nat /\ b.start \in Int /\ b.end \in Int
  BY StepCountType DEF Blocks
<1>2. CASE p.at # NoAt
  <2>1. \A t \in Steps(p) : WindowEnd(p, t) = p.at - p.offset
    BY <1>2 DEF WindowEnd
  <2>2. CASE b.start <= p.at - p.offset /\ p.at - p.offset < b.end
    BY <1>2, <2>1, <2>2 DEF ForBlock
  <2>3. CASE ~(b.start <= p.at - p.offset /\ p.at - p.offset < b.end)
    BY <1>2, <2>1, <2>3, EmptyGridSteps DEF ForBlock
  <2> QED BY <2>2, <2>3
<1>3. CASE p.at = NoAt
  <2>1. first \in Nat
    BY <1>1, FirstIndexExact
  <2>2. ASSUME NEW i \in 0 .. n - 1
        PROVE  (b.start <= WindowEnd(p, StepAt(p, i)) /\ WindowEnd(p, StepAt(p, i)) < b.end)
                 <=> (first <= i /\ i <= last)
    <3>1. i \in Nat /\ n \in Int  BY <1>1
    <3>2. (b.start <= StepAt(p, i) - p.offset) <=> (first <= i)
      BY <1>1, <3>1, FirstIndexExact
    <3>3. (StepAt(p, i) - p.offset < b.end) <=> (i <= last)
      BY <1>1, <3>1, LastIndexExact
    <3> QED BY <1>3, <3>2, <3>3 DEF WindowEnd
  <2>3. last \in Int /\ last <= n - 1
    <3>1. p.step \in Int /\ b.end + p.offset - 1 - p.start \in Int
      BY <1>1 DEF Grids
    <3>2. (b.end + p.offset - 1 - p.start) \div p.step \in Int
      BY <3>1, DivFloor
    <3> QED BY <1>1, <3>2 DEF LastIndex
  <2>4. CASE first > last
    <3>1. \A i \in 0 .. n - 1 : ~(first <= i /\ i <= last)
      BY <1>1, <2>1, <2>3, <2>4
    <3>2. ForBlock(p, b) = EmptyGrid(p)
      BY <1>3, <2>4 DEF ForBlock
    <3> QED BY <2>2, <3>1, <3>2, EmptyGridSteps DEF Steps
  <2>5. CASE ~(first > last)
    <3>1. first <= last  BY <2>1, <2>3, <2>5
    <3>2. ForBlock(p, b) = g
      BY <1>3, <2>5 DEF ForBlock
    <3>3. StepCount(g) = last - first + 1
      <4>1. ASSUME NEW i \in Int, NEW j \in Int, i <= j
            PROVE  StepCount([p EXCEPT !.start = StepAt(p, i), !.end = StepAt(p, j)])
                     = j - i + 1
        BY <4>1, SubGridCount
      <4>2. first \in Int /\ last \in Int  BY <2>1, <2>3
      <4> HIDE DEF first, last
      <4> QED BY <3>1, <4>1, <4>2
    <3>4. g.start = StepAt(p, first) /\ g.step = p.step
      BY DEF Grids
    <3>5. ASSUME NEW k \in Int PROVE StepAt(g, k) = StepAt(p, first + k)
      <4>1. p.step \in Int /\ p.start \in Int  BY DEF Grids
      <4>2. (first + k) * p.step = first * p.step + k * p.step
            /\ first * p.step \in Int /\ k * p.step \in Int
        BY <2>1, <4>1, MulSucc
      <4> QED BY <3>4, <4>1, <4>2 DEF StepAt
    <3>6. Steps(g) = {StepAt(p, i) : i \in first .. last}
      <4>1. ASSUME NEW k \in 0 .. (last - first + 1) - 1
            PROVE  StepAt(g, k) \in {StepAt(p, i) : i \in first .. last}
        <5>1. first + k \in first .. last  BY <2>1, <2>3
        <5> QED BY <3>5, <5>1
      <4>2. ASSUME NEW i \in first .. last
            PROVE  StepAt(p, i) \in {StepAt(g, k) : k \in 0 .. (last - first + 1) - 1}
        <5>1. i - first \in 0 .. (last - first + 1) - 1 /\ first + (i - first) = i
          BY <2>1, <2>3
        <5>2. StepAt(g, i - first) = StepAt(p, i)
          BY <3>5, <5>1
        <5> QED BY <5>1, <5>2
      <4> QED BY <3>3, <4>1, <4>2 DEF Steps
    <3>7. \A i : i \in first .. last <=> i \in 0 .. n - 1 /\ first <= i /\ i <= last
      BY <1>1, <2>1, <2>3
    <3> QED BY <2>2, <3>2, <3>6, <3>7 DEF Steps
  <2> QED BY <2>4, <2>5
<1> QED BY <1>2, <1>3

(***************************************************************************)
(* Two blocks that share no instant share no step, and two adjacent blocks *)
(* answer together what their union answers: however a store cuts time,    *)
(* no step is answered twice and none falls between two blocks.            *)
(***************************************************************************)
THEOREM AdjacentBlocksPartitionSteps ==
  ASSUME NEW p \in Grids, p.step > 0,
         NEW a \in Int, NEW b \in Int, NEW c \in Int, a <= b, b <= c
  PROVE  LET left  == ForBlock(p, [start |-> a, end |-> b])
             right == ForBlock(p, [start |-> b, end |-> c])
             whole == ForBlock(p, [start |-> a, end |-> c])
         IN  /\ Steps(left) \cap Steps(right) = {}
             /\ Steps(left) \cup Steps(right) = Steps(whole)
<1> DEFINE l == [start |-> a, end |-> b]
           r == [start |-> b, end |-> c]
           w == [start |-> a, end |-> c]
<1>1. l \in Blocks /\ r \in Blocks /\ w \in Blocks
  BY DEF Blocks
<1>2. \A t \in Steps(p) : WindowEnd(p, t) \in Int
  <2>1. ASSUME NEW i \in Int PROVE StepAt(p, i) \in Int
    BY MulSucc DEF StepAt, Grids
  <2> QED BY <2>1 DEF Steps, WindowEnd, Grids
<1>3. \A t \in Steps(p) : /\ ~(WindowEnd(p, t) < b /\ b <= WindowEnd(p, t))
                          /\ a <= WindowEnd(p, t) /\ WindowEnd(p, t) < c
                               <=> \/ a <= WindowEnd(p, t) /\ WindowEnd(p, t) < b
                                   \/ b <= WindowEnd(p, t) /\ WindowEnd(p, t) < c
  BY <1>2
<1>4. /\ Steps(ForBlock(p, l)) = {t \in Steps(p) : a <= WindowEnd(p, t) /\ WindowEnd(p, t) < b}
      /\ Steps(ForBlock(p, r)) = {t \in Steps(p) : b <= WindowEnd(p, t) /\ WindowEnd(p, t) < c}
      /\ Steps(ForBlock(p, w)) = {t \in Steps(p) : a <= WindowEnd(p, t) /\ WindowEnd(p, t) < c}
  BY <1>1, ForBlockExact
<1> QED BY <1>3, <1>4

(***************************************************************************)
(* Under the planner's bounds the scan range never saturates, so it is the *)
(* first window end widened by the whole window: the claim plan.rs makes   *)
(* for validate and MAX_TIME_MS.                                           *)
(***************************************************************************)
THEOREM PlannedRangeDoesNotSaturate ==
  ASSUME NEW p \in Grids, Planned(p)
  PROVE  /\ SelectRange(p).lo = WindowEnds(p).lo - p.window - p.offset
         /\ SelectRange(p).hi = WindowEnds(p).hi - p.offset
<1>1. /\ WindowEnds(p).lo \in Int /\ WindowEnds(p).hi \in Int
      /\ WithinBound(WindowEnds(p).lo) /\ WithinBound(WindowEnds(p).hi)
  BY DEF WindowEnds, Planned, Grids
<1>2. p.window \in Int /\ p.offset \in Int /\ WithinBound(p.window) /\ WithinBound(p.offset)
  BY DEF Planned, Grids
<1> QED BY <1>1, <1>2, IntAssumption DEF WithinBound, SelectRange, SatSub, Clamp

-----------------------------------------------------------------------------
(***************************************************************************)
(* The source: the invariant of the cut and what follows from it.          *)
(***************************************************************************)
BlockParts == [series : Nat, block : Blocks, times : SUBSET Int]
BlockRows == UNION {[present -> BlockParts] : present \in SUBSET Nat}

ShapesOK ==
  /\ stored \in Seq(SUBSET Int) /\ grid \in Grids /\ Planned(grid)
  /\ layout.blockMs \in (Nat \ {0}) \cup {NoWidth}
  /\ start \in Int /\ blocks \in Seq([bounds : Blocks, rows : BlockRows])

\* The first and the last end of a window.
FirstEnd == Hints.lo + Hints.window
LastEnd == Hints.hi

\* The blocks ascend without a gap up to the cursor.
CutSoFar ==
  /\ \A k \in DOMAIN blocks : blocks[k].bounds.end <= start
  /\ \A j, k \in DOMAIN blocks : j < k => blocks[j].bounds.end <= blocks[k].bounds.start
  /\ \A w \in FirstEnd .. LastEnd :
       w < start =>
         \E k \in DOMAIN blocks : blocks[k].bounds.start <= w /\ w < blocks[k].bounds.end
  /\ layout.blockMs = NoWidth /\ start <= LastEnd => start = FirstEnd /\ blocks = <<>>

\* A sample of the scan that some window ending in the block may read.
MayRead(b, u) ==
  /\ b.bounds.start - grid.window <= u /\ Hints.lo <= u
  /\ u < b.bounds.end /\ u <= Hints.hi

\* A block holds what its windows may read.
RowsWhole ==
  \A k \in DOMAIN blocks : \A s \in Series : \A u \in stored[s] :
    MayRead(blocks[k], u) => u \in SamplesIn(k, s)

IInv == ShapesOK /\ CutSoFar /\ RowsWhole

-----------------------------------------------------------------------------
\* The planner's bounds keep the hints exact and short of the end of time.
LEMMA HintsExact ==
  ASSUME grid \in Grids, Planned(grid)
  PROVE  /\ FirstEnd = WindowEnds(grid).lo - grid.offset
         /\ LastEnd = WindowEnds(grid).hi - grid.offset
         /\ FirstEnd \in Int /\ LastEnd \in Int /\ Hints.lo \in Int
         /\ Hints.hi = LastEnd /\ Hints.window = grid.window /\ Hints.lo + grid.window = FirstEnd
         /\ IntMin <= FirstEnd /\ FirstEnd <= IntMax /\ IntMin <= LastEnd /\ LastEnd < IntMax
         /\ grid.window \in Nat /\ grid.step > 0
<1>1. /\ WindowEnds(grid).lo \in Int /\ WindowEnds(grid).hi \in Int
      /\ WithinBound(WindowEnds(grid).lo) /\ WithinBound(WindowEnds(grid).hi)
  BY DEF WindowEnds, Planned, Grids
<1>2. /\ grid.window \in Nat /\ grid.offset \in Int /\ grid.step > 0
      /\ WithinBound(grid.window) /\ WithinBound(grid.offset)
  BY DEF Planned, Grids
<1>3. /\ Hints.lo = WindowEnds(grid).lo - grid.window - grid.offset
      /\ Hints.hi = WindowEnds(grid).hi - grid.offset /\ Hints.window = grid.window
  BY PlannedRangeDoesNotSaturate DEF Hints
<1> QED BY <1>1, <1>2, <1>3, IntAssumption DEF WithinBound, FirstEnd, LastEnd

\* Every step's window ends inside the scanned domain.
LEMMA EndsScanned ==
  ASSUME grid \in Grids, Planned(grid), NEW t \in Steps(grid)
  PROVE  WindowEnd(grid, t) \in FirstEnd .. LastEnd
<1>1. PICK i \in 0 .. StepCount(grid) - 1 : t = grid.start + i * grid.step
  BY DEF Steps, StepAt
<1>2. /\ grid.start \in Int /\ grid.end \in Int /\ grid.step \in Int /\ grid.step > 0
      /\ grid.start <= grid.end /\ grid.offset \in Int
  BY DEF Grids, Planned
<1>3. StepCount(grid) = (grid.end - grid.start) \div grid.step + 1
  BY <1>2 DEF StepCount
<1>4. (grid.end - grid.start) \div grid.step \in Int
  BY <1>2, DivFloor
<1>5. i \in Int /\ 0 <= i /\ i <= (grid.end - grid.start) \div grid.step
  BY <1>1, <1>3, <1>4
<1>6. i * grid.step \in Int /\ 0 * grid.step = 0
  BY <1>2, <1>5, MulSucc
<1>7. i * grid.step <= grid.end - grid.start
  BY <1>2, <1>5, DivGalois
<1>8. 0 <= i * grid.step
  BY <1>2, <1>5, <1>6, MulMono
<1>9. grid.start <= t /\ t <= grid.end /\ t \in Int
  BY <1>1, <1>2, <1>6, <1>7, <1>8
<1>10. grid.at \in Int \/ grid.at = NoAt
  BY DEF Grids
<1> QED BY <1>2, <1>9, <1>10, HintsExact DEF WindowEnd, WindowEnds

-----------------------------------------------------------------------------
\* Before the first block nothing is cut, and the cursor is at the first end.
LEMMA InitIInv == Init => IInv
<1> SUFFICES ASSUME Init PROVE IInv
  OBVIOUS
<1>1. stored \in Seq(SUBSET Int) /\ grid \in Grids /\ Planned(grid)
  <2> DEFINE Z == {times \in SUBSET Int : IsFiniteSet(times)}
             V == SUBSET Int
  <2>1. stored \in Seq(Z) /\ grid \in Grids /\ Planned(grid)
    BY SourceAssumption DEF Init
  <2>2. Z \subseteq V
    OBVIOUS
  <2> HIDE DEF Z, V
  <2>3. stored \in Seq(V)
    BY <2>1, <2>2
  <2> QED BY <2>1, <2>3 DEF V
<1>2. layout.blockMs \in (Nat \ {0}) \cup {NoWidth}
  BY SourceAssumption DEF Init
<1>3. start = FirstEnd /\ start \in Int /\ blocks = <<>> /\ DOMAIN blocks = {}
  BY <1>1, HintsExact DEF Init, FirstEnd
<1>4. ShapesOK
  BY <1>1, <1>2, <1>3 DEF ShapesOK
<1>5. CutSoFar
  <2>1. \A w \in FirstEnd .. LastEnd : ~(w < start)
    BY <1>1, <1>3, HintsExact
  <2> QED BY <1>3, <2>1 DEF CutSoFar
<1>6. RowsWhole
  BY <1>3 DEF RowsWhole
<1> QED BY <1>4, <1>5, <1>6 DEF IInv

\* What a block keeps of a series, if it keeps the samples from lo to hi.
LEMMA BlockHolds ==
  ASSUME stored \in Seq(SUBSET Int), NEW b \in Blocks, NEW lo \in Int, NEW hi \in Int
  PROVE  /\ BlockOf(b, lo, hi) \in [bounds : Blocks, rows : BlockRows]
         /\ DropEmpty(BlockOf(b, lo, hi)) \in [bounds : Blocks, rows : BlockRows]
         /\ BlockOf(b, lo, hi).bounds = b /\ DropEmpty(BlockOf(b, lo, hi)).bounds = b
         /\ \A s \in Series : \A u \in stored[s] : lo <= u /\ u <= hi =>
              /\ s \in DOMAIN BlockOf(b, lo, hi).rows
              /\ u \in BlockOf(b, lo, hi).rows[s].times
              /\ s \in DOMAIN DropEmpty(BlockOf(b, lo, hi)).rows
              /\ u \in DropEmpty(BlockOf(b, lo, hi)).rows[s].times
<1> DEFINE all == [s \in Series |-> Part(s, b, Clip(stored[s], lo, hi))]
           present == {s \in Series : all[s].times # {}}
           kept == [s \in present |-> all[s]]
<1>1. Series \in SUBSET Nat /\ \A s \in Series : stored[s] \in SUBSET Int
  BY DEF Series
<1>2. \A s \in Series : all[s] \in BlockParts /\ all[s].times = Clip(stored[s], lo, hi)
  BY <1>1 DEF Part, BlockParts, Clip
<1>3. all \in [Series -> BlockParts] /\ kept \in [present -> BlockParts] /\ present \in SUBSET Nat
  BY <1>1, <1>2
<1>4. all \in BlockRows /\ kept \in BlockRows
  BY <1>1, <1>3 DEF BlockRows
<1>5. BlockOf(b, lo, hi) = [bounds |-> b, rows |-> all]
  BY DEF BlockOf
<1>6. DropEmpty(BlockOf(b, lo, hi)) = [bounds |-> b, rows |-> kept]
  <2>1. Restrict(all, present) = kept
    BY DEF Restrict
  <2>2. DropEmpty(BlockOf(b, lo, hi)) =
          [[bounds |-> b, rows |-> all] EXCEPT !.rows = Restrict(all, present)]
    BY <1>5 DEF DropEmpty
  <2> HIDE DEF all, present, kept
  <2> QED BY <2>1, <2>2
<1>7. ASSUME NEW s \in Series, NEW u \in stored[s], lo <= u, u <= hi
      PROVE  s \in DOMAIN all /\ u \in all[s].times /\ s \in DOMAIN kept /\ u \in kept[s].times
  BY <1>1, <1>2, <1>7 DEF Clip
<1> HIDE DEF all, kept, present
<1> QED BY <1>4, <1>5, <1>6, <1>7

\* The blocks cut so far, as a sequence.
LEMMA BlocksTyped ==
  ASSUME ShapesOK
  PROVE  /\ Len(blocks) \in Nat /\ DOMAIN blocks = 1 .. Len(blocks)
         /\ \A k \in DOMAIN blocks : blocks[k].bounds \in Blocks
<1> DEFINE X == [bounds : Blocks, rows : BlockRows]
<1>1. blocks \in Seq(X)
  BY DEF ShapesOK
<1>2. \A x \in X : x.bounds \in Blocks
  OBVIOUS
<1> HIDE DEF X
<1> QED BY <1>1, <1>2

-----------------------------------------------------------------------------
\* One more block from the cursor on, whose samples reach back by the window.
LEMMA AppendBlock ==
  ASSUME IInv, NEW b \in [bounds : Blocks, rows : BlockRows], NEW next \in Int,
         b.bounds.start = start, b.bounds.end <= next, start <= next,
         \A w \in Int : w <= LastEnd /\ w < next => w < b.bounds.end,
         \A s \in Series : \A u \in stored[s] :
           MayRead(b, u) => s \in DOMAIN b.rows /\ u \in b.rows[s].times,
         layout.blockMs = NoWidth => next > LastEnd,
         blocks' = Append(blocks, b), start' = next, UNCHANGED <<stored, grid, layout>>
  PROVE  IInv'
<1>1. /\ ShapesOK /\ CutSoFar /\ RowsWhole
      /\ FirstEnd' = FirstEnd /\ LastEnd' = LastEnd /\ Hints' = Hints /\ Series' = Series
  BY DEF IInv, FirstEnd, LastEnd, Hints, Series
<1>2. /\ Len(blocks) \in Nat /\ DOMAIN blocks = 1 .. Len(blocks)
      /\ DOMAIN blocks' = 1 .. Len(blocks) + 1
      /\ \A k \in DOMAIN blocks : blocks'[k] = blocks[k] /\ blocks[k].bounds \in Blocks
      /\ blocks'[Len(blocks) + 1] = b /\ b.bounds \in Blocks
      /\ blocks' \in Seq([bounds : Blocks, rows : BlockRows])
  <2> DEFINE X == [bounds : Blocks, rows : BlockRows]
  <2>1. b \in X /\ blocks \in Seq(X) /\ b.bounds \in Blocks
    BY <1>1 DEF ShapesOK
  <2>2. \A k \in DOMAIN blocks : blocks[k].bounds \in Blocks
    BY <1>1, BlocksTyped
  <2> HIDE DEF X
  <2>3. /\ Len(blocks) \in Nat /\ DOMAIN blocks = 1 .. Len(blocks) /\ blocks' \in Seq(X)
        /\ DOMAIN blocks' = 1 .. Len(blocks) + 1 /\ blocks'[Len(blocks) + 1] = b
        /\ \A k \in DOMAIN blocks : blocks'[k] = blocks[k]
    BY <2>1
  <2> QED BY <2>1, <2>2, <2>3 DEF X
<1>3. ShapesOK'
  BY <1>1, <1>2 DEF ShapesOK, Planned
<1>4. FirstEnd \in Int /\ LastEnd \in Int /\ start \in Int
  BY <1>1, HintsExact DEF ShapesOK
<1>5. CutSoFar'
  <2>1. \A k \in DOMAIN blocks' : blocks'[k].bounds.end <= next
    BY SMTT(30), <1>1, <1>2, <1>4 DEF CutSoFar, Blocks
  <2>2. \A j, k \in DOMAIN blocks' :
          j < k => blocks'[j].bounds.end <= blocks'[k].bounds.start
    <3> TAKE j, k \in DOMAIN blocks'
    <3> HAVE j < k
    <3>1. j \in DOMAIN blocks BY <1>2
    <3>2. CASE k \in DOMAIN blocks BY <1>1, <1>2, <3>1, <3>2 DEF CutSoFar
    <3>3. CASE k = Len(blocks) + 1 BY <1>1, <1>2, <3>1, <3>3 DEF CutSoFar
    <3> QED BY <1>2, <3>2, <3>3
  <2>3. ASSUME NEW w \in FirstEnd .. LastEnd, w < next
        PROVE  \E k \in DOMAIN blocks' :
                 blocks'[k].bounds.start <= w /\ w < blocks'[k].bounds.end
    <3>1. CASE w < start
      <4>1. PICK k \in DOMAIN blocks : blocks[k].bounds.start <= w /\ w < blocks[k].bounds.end
        BY <1>1, <3>1 DEF CutSoFar
      <4> QED BY <1>2, <4>1
    <3>2. CASE start <= w
      <4>1. w < b.bounds.end BY <1>4, <2>3
      <4> QED BY <1>2, <3>2, <4>1
    <3> QED BY <1>4, <3>1, <3>2
  <2>4. layout.blockMs = NoWidth => ~(next <= LastEnd)
    BY <1>4
  <2> QED BY <1>1, <2>1, <2>2, <2>3, <2>4 DEF CutSoFar
<1>6. RowsWhole'
  <2> SUFFICES ASSUME NEW k \in DOMAIN blocks', NEW s \in Series, NEW u \in stored[s],
                      MayRead(blocks'[k], u)
               PROVE  s \in DOMAIN blocks'[k].rows /\ u \in blocks'[k].rows[s].times
    BY <1>1 DEF RowsWhole, SamplesIn, MayRead
  <2>1. CASE k \in DOMAIN blocks
    <3>1. u \in SamplesIn(k, s) BY <1>1, <1>2, <2>1 DEF RowsWhole
    <3> QED BY <1>2, <2>1, <3>1 DEF SamplesIn
  <2>2. CASE k = Len(blocks) + 1 BY <1>2, <2>2
  <2> QED BY <1>2, <2>1, <2>2
<1> QED BY <1>3, <1>5, <1>6 DEF IInv

\* One turn of cut_into_blocks.
LEMMA CutBlockIInv ==
  ASSUME IInv, CutBlock PROVE IInv'
<1> DEFINE width == layout.blockMs
           end == (start \div width + 1) * width
           lo == Later(start - Hints.window, Hints.lo)
           hi == Earlier(end - 1, Hints.hi)
           bounds == [start |-> start, end |-> Earlier(end, IntMax)]
           b == DropEmpty(BlockOf(bounds, lo, hi))
<1>1. /\ ShapesOK /\ grid \in Grids /\ Planned(grid) /\ stored \in Seq(SUBSET Int)
      /\ start \in Int /\ width \in Int /\ width > 0 /\ width # NoWidth /\ start <= Hints.hi
  BY DEF IInv, ShapesOK, CutBlock
<1>2. /\ Hints.lo \in Int /\ Hints.hi \in Int /\ Hints.hi = LastEnd /\ LastEnd < IntMax
      /\ Hints.window = grid.window /\ grid.window \in Nat
  BY <1>1, HintsExact
<1>3. end \in Int /\ start < end
  <2>1. /\ start \div width \in Int /\ (start \div width) * width <= start
        /\ start < (start \div width) * width + width
    BY <1>1, DivFloor
  <2>2. end = (start \div width) * width + width /\ (start \div width) * width \in Int
    BY <1>1, <2>1, MulSucc
  <2> HIDE DEF end
  <2> QED BY <1>1, <2>1, <2>2
<1> HIDE DEF end
<1>4. lo \in Int /\ hi \in Int /\ bounds \in Blocks
  BY <1>1, <1>2, <1>3, IntAssumption DEF Later, Earlier, Blocks
<1>5. /\ bounds.start = start /\ bounds.end \in Int /\ bounds.end <= end
      /\ \A w \in Int : w <= LastEnd /\ w < end => w < bounds.end
      /\ \A u \in Int : bounds.start - grid.window <= u /\ Hints.lo <= u => lo <= u
      /\ \A u \in Int : u < bounds.end /\ u <= Hints.hi => u <= hi
  BY <1>1, <1>2, <1>3, IntAssumption DEF Later, Earlier
<1>6. \A s \in Series : stored[s] \subseteq Int
  BY <1>1 DEF Series
<1>7. /\ blocks' = Append(blocks, b) /\ start' = end /\ UNCHANGED <<stored, grid, layout>>
  BY DEF CutBlock, end
<1> HIDE DEF lo, hi, bounds
<1>8. /\ b \in [bounds : Blocks, rows : BlockRows] /\ b.bounds = bounds
      /\ \A s \in Series : \A u \in stored[s] : lo <= u /\ u <= hi =>
           s \in DOMAIN b.rows /\ u \in b.rows[s].times
  BY <1>1, <1>4, BlockHolds
<1> HIDE DEF b
<1>9. \A s \in Series : \A u \in stored[s] :
        MayRead(b, u) => s \in DOMAIN b.rows /\ u \in b.rows[s].times
  <2> TAKE s \in Series
  <2> TAKE u \in stored[s]
  <2> HAVE MayRead(b, u)
  <2>1. u \in Int BY <1>6
  <2>2. lo <= u BY <1>5, <1>8, <2>1 DEF MayRead
  <2>3. u <= hi BY <1>5, <1>8, <2>1 DEF MayRead
  <2> QED BY <1>8, <2>2, <2>3
<1> QED BY <1>1, <1>2, <1>3, <1>5, <1>7, <1>8, <1>9, AppendBlock

\* The one block of a select without block_ms.
LEMMA WholeBlockIInv ==
  ASSUME IInv, WholeBlock PROVE IInv'
<1> DEFINE bounds == [start |-> SatAdd(Hints.lo, Hints.window), end |-> SatAdd(Hints.hi, 1)]
           b == BlockOf(bounds, Hints.lo, Hints.hi)
<1>1. /\ ShapesOK /\ CutSoFar /\ grid \in Grids /\ Planned(grid)
      /\ stored \in Seq(SUBSET Int) /\ layout.blockMs = NoWidth /\ start <= LastEnd
  BY DEF IInv, ShapesOK, WholeBlock, LastEnd
<1>2. start = FirstEnd /\ blocks = <<>>
  BY <1>1 DEF CutSoFar
<1>3. /\ Hints.lo \in Int /\ Hints.hi \in Int /\ Hints.hi = LastEnd /\ LastEnd < IntMax
      /\ IntMin <= LastEnd /\ IntMin <= FirstEnd /\ FirstEnd <= IntMax
      /\ Hints.lo + Hints.window = FirstEnd /\ FirstEnd \in Int
  BY <1>1, HintsExact DEF FirstEnd
<1>4. bounds.start = FirstEnd /\ bounds.end = LastEnd + 1 /\ bounds \in Blocks
  BY <1>3, IntAssumption DEF SatAdd, Clamp, Blocks
<1>5. blocks' = <<b>> /\ start' = bounds.end /\ UNCHANGED <<stored, grid, layout>>
  BY DEF WholeBlock
<1> HIDE DEF bounds
<1>6. /\ b \in [bounds : Blocks, rows : BlockRows] /\ b.bounds = bounds
      /\ \A s \in Series : \A u \in stored[s] : Hints.lo <= u /\ u <= Hints.hi =>
           s \in DOMAIN b.rows /\ u \in b.rows[s].times
  BY <1>1, <1>3, <1>4, BlockHolds
<1> HIDE DEF b
<1>7. blocks' = Append(blocks, b)
  BY <1>2, <1>5
<1>8. \A s \in Series : \A u \in stored[s] :
        MayRead(b, u) => s \in DOMAIN b.rows /\ u \in b.rows[s].times
  <2> TAKE s \in Series
  <2> TAKE u \in stored[s]
  <2> HAVE MayRead(b, u)
  <2> QED BY <1>6 DEF MayRead
<1> QED BY <1>1, <1>2, <1>3, <1>4, <1>5, <1>6, <1>7, <1>8, AppendBlock

\* Handing batches over leaves the blocks as they are.
LEMMA DeliverIInv ==
  ASSUME IInv, UNCHANGED <<stored, grid, layout, start, blocks>> PROVE IInv'
  BY DEF IInv, ShapesOK, CutSoFar, RowsWhole, FirstEnd, LastEnd, Hints, Series, SamplesIn, MayRead, Planned

\* The invariant holds in every behaviour of a select.
THEOREM SelectInvariance == Spec => []IInv
<1>1. IInv /\ [Next]_vars => IInv'
  <2> SUFFICES ASSUME IInv, [Next]_vars PROVE IInv'
    OBVIOUS
  <2>1. CASE CutBlock BY <2>1, CutBlockIInv
  <2>2. CASE WholeBlock BY <2>2, WholeBlockIInv
  <2>3. CASE \E n \in Partitions : Deliver(n) BY <2>3, DeliverIInv DEF Deliver
  <2>4. CASE UNCHANGED vars BY <2>4, DeliverIInv DEF vars
  <2> QED BY <2>1, <2>2, <2>3, <2>4 DEF Next
<1> QED BY <1>1, InitIInv, PTL DEF Spec

-----------------------------------------------------------------------------
\* The steps a block answers, by ForBlockExact.
LEMMA AnswersOf ==
  ASSUME IInv, NEW k \in DOMAIN blocks, NEW t
  PROVE  t \in Answers(k) <=>
           /\ t \in Steps(grid)
           /\ blocks[k].bounds.start <= WindowEnd(grid, t)
           /\ WindowEnd(grid, t) < blocks[k].bounds.end
<1>1. grid \in Grids /\ grid.step > 0 /\ blocks[k].bounds \in Blocks
  BY BlocksTyped DEF IInv, ShapesOK, Planned
<1> QED BY <1>1, ForBlockExact DEF Answers

\* A block's samples are all its windows read (cut_into_blocks' reach-back).
LEMMA AnswersAlone == IInv => BlocksAnswerAlone
<1> SUFFICES ASSUME IInv, NEW k \in DOMAIN blocks, NEW t \in Answers(k), NEW s \in Series,
                    NEW u \in stored[s],
                    WindowEnd(grid, t) - grid.window < u, u <= WindowEnd(grid, t)
             PROVE  u \in SamplesIn(k, s)
  BY DEF BlocksAnswerAlone
<1>1. /\ grid \in Grids /\ Planned(grid) /\ blocks[k].bounds \in Blocks
      /\ u \in Int /\ RowsWhole
  BY BlocksTyped DEF IInv, ShapesOK, Series
<1>2. /\ t \in Steps(grid) /\ blocks[k].bounds.start <= WindowEnd(grid, t)
      /\ WindowEnd(grid, t) < blocks[k].bounds.end
  BY AnswersOf
<1>3. WindowEnd(grid, t) \in FirstEnd .. LastEnd
  BY <1>1, <1>2, EndsScanned
<1>4. MayRead(blocks[k], u)
  BY <1>1, <1>2, <1>3, HintsExact DEF Blocks, MayRead
<1> QED BY <1>1, <1>4 DEF RowsWhole

\* For every store, query, offset, @ and block width, the blocks of a select
\* answer each step of the grid exactly once, and from the samples they hold
\* (cut_into_blocks with Params::for_block).
THEOREM EveryStepInOneBlock == Spec => []EachStepInOneBlock
<1>1. IInv => EachStepInOneBlock
  <2> SUFFICES ASSUME IInv, NEW t \in Steps(grid)
               PROVE  IF WindowEnd(grid, t) < start
                      THEN \E k \in DOMAIN blocks :
                             /\ t \in Answers(k)
                             /\ \A j \in DOMAIN blocks : t \in Answers(j) => j = k
                      ELSE \A k \in DOMAIN blocks : t \notin Answers(k)
    BY AnswersAlone DEF EachStepInOneBlock
  <2> DEFINE w == WindowEnd(grid, t)
  <2>1. /\ grid \in Grids /\ Planned(grid) /\ CutSoFar /\ start \in Int
        /\ DOMAIN blocks \subseteq Nat
        /\ \A k \in DOMAIN blocks : blocks[k].bounds \in Blocks
    BY BlocksTyped DEF IInv, ShapesOK
  <2>2. w \in FirstEnd .. LastEnd /\ w \in Int
    BY <2>1, EndsScanned, HintsExact
  <2>3. \A k \in DOMAIN blocks : t \in Answers(k) <=>
          blocks[k].bounds.start <= w /\ w < blocks[k].bounds.end
    BY AnswersOf
  <2> HIDE DEF w
  <2>4. CASE w < start
    <3>1. PICK k \in DOMAIN blocks : blocks[k].bounds.start <= w /\ w < blocks[k].bounds.end
      BY <2>1, <2>2, <2>4 DEF CutSoFar
    <3>2. ASSUME NEW j \in DOMAIN blocks, t \in Answers(j) PROVE j = k
      <4>1. blocks[j].bounds.start <= w /\ w < blocks[j].bounds.end
        BY <2>3, <3>2
      <4>2. ~(j < k) /\ ~(k < j)
        BY <2>1, <2>2, <3>1, <4>1 DEF CutSoFar, Blocks
      <4> QED BY <2>1, <4>2
    <3> QED BY <2>3, <2>4, <3>1, <3>2 DEF w
  <2>5. CASE ~(w < start)
    <3>1. \A k \in DOMAIN blocks : ~(w < blocks[k].bounds.end)
      BY <2>1, <2>2, <2>5 DEF CutSoFar, Blocks
    <3> QED BY <2>3, <2>5, <3>1 DEF w
  <2> QED BY <2>4, <2>5
<1> QED BY <1>1, SelectInvariance, PTL

-----------------------------------------------------------------------------
(***************************************************************************)
(* A finite set of instants in order.                                      *)
(***************************************************************************)
\* An ascending sequence of all of a set.
AscendingOf(ts, times) ==
  /\ ts \in Seq(Int) /\ \A t : t \in times <=> \E n \in DOMAIN ts : ts[n] = t
  /\ \A i, j \in DOMAIN ts : i < j => ts[i] < ts[j]

\* How many of a set come before an instant: a number for each place of the order.
LEMMA Ranks ==
  ASSUME NEW times, times \in SUBSET Int, IsFiniteSet(times)
  PROVE  /\ Cardinality(times) \in Nat
         /\ \A k \in 1 .. Cardinality(times) :
              \E t \in times : Cardinality({u \in times : u < t}) = k - 1
         /\ \A t, u \in times : t < u =>
              Cardinality({x \in times : x < t}) < Cardinality({x \in times : x < u})
<1> DEFINE n == Cardinality(times)
           Low(t) == {x \in times : x < t}
           rank == [t \in times |-> Cardinality(Low(t))]
<1>1. n \in Nat
  BY FS_CardinalityType
<1>2. ASSUME NEW t \in times
      PROVE  IsFiniteSet(Low(t)) /\ Cardinality(Low(t)) \in Nat /\ Cardinality(Low(t)) < n
  <2>1. Low(t) \in SUBSET times /\ t \notin Low(t)
    OBVIOUS
  <2> HIDE DEF Low
  <2>2. IsFiniteSet(Low(t)) /\ Cardinality(Low(t)) <= n /\ (n = Cardinality(Low(t)) => times = Low(t))
    BY <2>1, FS_Subset
  <2>3. Cardinality(Low(t)) \in Nat
    BY <2>2, FS_CardinalityType
  <2> QED BY <1>1, <2>1, <2>2, <2>3
<1>3. ASSUME NEW t \in times, NEW u \in times, t < u
      PROVE  Cardinality(Low(t)) < Cardinality(Low(u))
  <2>1. Low(t) \in SUBSET Low(u) /\ t \in Low(u) /\ t \notin Low(t)
    <3>1. t \in Int /\ u \in Int /\ \A x \in times : x \in Int
      OBVIOUS
    <3>2. \A x \in times : x < t => x < u
      BY <1>3, <3>1
    <3>3. ~(t < t)
      BY <3>1
    <3> QED BY <1>3, <3>2, <3>3
  <2>2. IsFiniteSet(Low(u)) /\ Cardinality(Low(u)) \in Nat /\ Cardinality(Low(t)) \in Nat
    BY <1>2
  <2> HIDE DEF Low
  <2>3. Cardinality(Low(t)) <= Cardinality(Low(u))
        /\ (Cardinality(Low(u)) = Cardinality(Low(t)) => Low(u) = Low(t))
    BY <2>1, <2>2, FS_Subset
  <2> QED BY <2>1, <2>2, <2>3
<1> DEFINE T == 0 .. n - 1
<1>4. rank \in Injection(times, T)
  <2>1. rank \in [times -> T]
    <3>1. \A t \in times : Cardinality(Low(t)) \in T
      BY <1>1, <1>2
    <3> HIDE DEF Low, T
    <3> QED BY <3>1
  <2>2. ASSUME NEW t \in times, NEW u \in times, rank[t] = rank[u] PROVE t = u
    <3>1. rank[t] = Cardinality(Low(t)) /\ rank[u] = Cardinality(Low(u))
      OBVIOUS
    <3>2. Cardinality(Low(t)) \in Nat /\ Cardinality(Low(u)) \in Nat
      BY <1>2
    <3> DEFINE a == Cardinality(Low(t))
               b == Cardinality(Low(u))
    <3>3. a = b /\ a \in Int /\ t \in Int /\ u \in Int
      BY <2>2, <3>1, <3>2
    <3>4. (t < u => a < b) /\ (u < t => b < a)
      BY <1>3
    <3> HIDE DEF a, b
    <3> QED BY <3>3, <3>4
  <2> HIDE DEF rank, T
  <2> QED BY <2>1, <2>2 DEF Injection, IsInjective
<1>5. IsFiniteSet(T) /\ Cardinality(T) = n
  BY <1>1, FS_Interval
<1> HIDE DEF rank, T
<1>6. rank \in Surjection(times, T)
  BY <1>4, <1>5, FS_Injection
<1>7. \A k \in 1 .. n : \E t \in times : Cardinality(Low(t)) = k - 1
  <2> TAKE k \in 1 .. n
  <2>1. k - 1 \in T
    BY <1>1 DEF T
  <2>2. PICK t \in times : rank[t] = k - 1
    BY <1>6, <2>1 DEF Surjection
  <2> QED BY <2>2 DEF rank
<1> QED BY <1>1, <1>3, <1>7

\* Every finite set of instants has its ascending sequence.
LEMMA AscendingExact ==
  ASSUME NEW times, times \in SUBSET Int, IsFiniteSet(times)
  PROVE  AscendingOf(Ascending(times), times)
<1> DEFINE n == Cardinality(times)
           Low(t) == {x \in times : x < t}
           at == [k \in 1 .. n |-> CHOOSE t \in times : Cardinality(Low(t)) = k - 1]
<1>1. /\ n \in Nat
      /\ \A k \in 1 .. n : \E t \in times : Cardinality(Low(t)) = k - 1
      /\ \A t, u \in times : t < u => Cardinality(Low(t)) < Cardinality(Low(u))
  BY Ranks
<1> HIDE DEF n, Low
<1>2. \A k \in 1 .. n : at[k] \in times /\ Cardinality(Low(at[k])) = k - 1
  <2> TAKE k \in 1 .. n
  <2>1. \E t \in times : Cardinality(Low(t)) = k - 1
    BY <1>1
  <2> QED BY <2>1
<1>3. at \in [1 .. n -> times] /\ DOMAIN at = 1 .. n
  BY <1>2
<1> HIDE DEF at
<1>4. \A i, j \in DOMAIN at : i < j => at[i] < at[j]
  <2> TAKE i, j \in DOMAIN at
  <2> HAVE i < j
  <2>1. i \in 1 .. n /\ j \in 1 .. n /\ i \in Int /\ j \in Int
    BY <1>1, <1>3
  <2>2. at[i] \in Int /\ at[j] \in Int /\ at[i] \in times /\ at[j] \in times
        /\ Cardinality(Low(at[i])) = i - 1 /\ Cardinality(Low(at[j])) = j - 1
    BY <1>2, <2>1
  <2>3. at[i] # at[j]
    BY <2>1, <2>2
  <2>4. ~(at[j] < at[i])
    BY <1>1, <2>1, <2>2
  <2> QED BY <2>2, <2>3, <2>4
<1> DEFINE ts == Ascending(times)
<1>5. ts \in [1 .. n -> times] /\ \A i, j \in DOMAIN ts : i < j => ts[i] < ts[j]
  BY <1>3, <1>4 DEF Ascending, n
<1> HIDE DEF ts
<1>6. DOMAIN ts = 1 .. n /\ ts \in Seq(Int)
  <2>1. ts \in [1 .. n -> Int]
    BY <1>5
  <2> QED BY <1>1, <2>1
<1>7. ASSUME NEW t \in times PROVE \E k \in DOMAIN ts : ts[k] = t
  <2> DEFINE N == 1 .. n
  <2>0. IsFiniteSet(N) /\ Cardinality(N) = n /\ IsFiniteSet(times) /\ Cardinality(times) = n
    BY <1>1, FS_Interval DEF n
  <2>1. ts \in Injection(N, times)
    <3>1. ASSUME NEW i \in N, NEW j \in N, ts[i] = ts[j] PROVE i = j
      <4>1. i \in DOMAIN ts /\ j \in DOMAIN ts /\ ts[i] \in Int /\ i \in Int /\ j \in Int
        BY <1>1, <1>5, <1>6
      <4>2. ~(i < j) /\ ~(j < i)
        BY <1>5, <3>1, <4>1
      <4> QED BY <4>1, <4>2
    <3>2. ts \in [N -> times]
      BY <1>5
    <3> HIDE DEF N
    <3> QED BY <3>1, <3>2 DEF Injection, IsInjective
  <2>2. ts \in Surjection(N, times)
    <3> HIDE DEF N
    <3> QED BY <2>0, <2>1, FS_Injection
  <2> HIDE DEF N
  <2>3. \E k \in N : ts[k] = t
    BY <2>2 DEF Surjection
  <2> QED BY <1>6, <2>3 DEF N
<1>8. \A t : t \in times <=> \E k \in DOMAIN ts : ts[k] = t
  BY <1>5, <1>6, <1>7
<1> QED BY <1>5, <1>6, <1>8 DEF AscendingOf, ts

\* Nothing is in no order.
LEMMA AscendingNone == Ascending({}) = <<>>
<1> DEFINE ts == Ascending({})
           none == {}
<1>1. none \in SUBSET Int /\ IsFiniteSet(none)
  BY FS_EmptySet
<1>2. AscendingOf(ts, none)
  <2> HIDE DEF none
  <2>1. AscendingOf(Ascending(none), none)
    BY <1>1, AscendingExact
  <2> QED BY <2>1 DEF none
<1> HIDE DEF ts
<1>3. ts \in Seq(Int) /\ \A n \in DOMAIN ts : FALSE
  BY <1>2 DEF AscendingOf
<1>4. ts = <<>>
  <2>1. Len(ts) \in Nat /\ DOMAIN ts = 1 .. Len(ts)
    BY <1>3
  <2>2. Len(ts) = 0
    <3>1. 1 \notin 1 .. Len(ts)
      BY <1>3, <2>1
    <3> QED BY <2>1, <3>1
  <2> QED BY <1>3, <2>2
<1> QED BY <1>4 DEF ts

-----------------------------------------------------------------------------
(***************************************************************************)
(* Rows in batches.                                                        *)
(***************************************************************************)
\* The beginning of a sequence up to a, and from there to b.
LEMMA SubSeqJoin ==
  ASSUME NEW X, NEW s, s \in Seq(X), NEW a, a \in 0 .. Len(s), NEW b, b \in a .. Len(s)
  PROVE  /\ SubSeq(s, 1, a) \o SubSeq(s, a + 1, b) = SubSeq(s, 1, b)
         /\ SubSeq(s, 1, a) \in Seq(X) /\ SubSeq(s, a + 1, b) \in Seq(X)
<1> DEFINE l == SubSeq(s, 1, a)
           r == SubSeq(s, a + 1, b)
           w == SubSeq(s, 1, b)
           f == a + 1
<1>1. Len(s) \in Nat /\ a \in Nat /\ b \in Nat /\ a <= b /\ b <= Len(s) /\ f \in Int /\ 1 \in Int
      /\ \A n \in 1 .. Len(s) : s[n] \in X
  OBVIOUS
<1>2. l \in Seq(X) /\ Len(l) = a /\ \A n \in 1 .. a : l[n] = s[n]
  <2>1. \A n \in 1 .. a : s[n] \in X
    BY <1>1
  <2> QED BY <1>1, <2>1, SubSeqProperties
<1>3. w \in Seq(X) /\ Len(w) = b /\ \A n \in 1 .. b : w[n] = s[n]
  <2>1. \A n \in 1 .. b : s[n] \in X
    BY <1>1
  <2> QED BY <1>1, <2>1, SubSeqProperties
<1>4. r \in Seq(X) /\ Len(r) = b - a /\ \A n \in 1 .. b - a : r[n] = s[a + n]
  <2>1. \A n \in f .. b : s[n] \in X
    BY <1>1
  <2>2. r = SubSeq(s, f, b) /\ f = a + 1
    OBVIOUS
  <2> HIDE DEF f
  <2>3. /\ r \in Seq(X) /\ Len(r) = (IF f <= b THEN b - f + 1 ELSE 0)
        /\ \A n \in 1 .. b - f + 1 : r[n] = s[f + n - 1]
    BY <1>1, <2>1, <2>2, SubSeqProperties
  <2> HIDE DEF r
  <2>4. b - f + 1 = b - a /\ Len(r) = b - a
    BY <1>1, <2>2, <2>3
  <2>5. \A n \in 1 .. b - a : f + n - 1 = a + n
    BY <1>1, <2>2
  <2> QED BY <2>3, <2>4, <2>5
<1> HIDE DEF l, r, w
<1>5. /\ l \o r \in Seq(X) /\ Len(l \o r) = Len(l) + Len(r)
      /\ \A n \in 1 .. Len(l) + Len(r) : (l \o r)[n] = IF n <= Len(l) THEN l[n] ELSE r[n - Len(l)]
  BY <1>2, <1>4, ConcatProperties
<1> DEFINE q == l \o r
<1>6. q \in Seq(X) /\ Len(q) = b
  BY <1>1, <1>2, <1>4, <1>5
<1>7. ASSUME NEW n \in 1 .. b PROVE q[n] = w[n]
  <2>1. n \in 1 .. Len(l) + Len(r) /\ Len(l) = a
    BY <1>1, <1>2, <1>4
  <2>2. CASE n <= a
    <3>1. n \in 1 .. a
      BY <1>1, <2>2
    <3> QED BY <1>2, <1>3, <1>5, <2>1, <2>2, <3>1
  <2>3. CASE ~(n <= a)
    <3>1. n - a \in 1 .. b - a /\ a + (n - a) = n
      BY <1>1, <2>3
    <3> QED BY <1>3, <1>4, <1>5, <2>1, <2>3, <3>1
  <2> QED BY <2>2, <2>3
<1> HIDE DEF q
<1>8. q = w
  BY <1>3, <1>6, <1>7
<1> QED BY <1>2, <1>4, <1>8 DEF q, l, r, w

\* Batches, one behind the other, are the rows (slice_rows, split_into_chunks).
LEMMA BatchesFlatten ==
  ASSUME NEW X, NEW rows, rows \in Seq(X), NEW n, n \in Nat \ {0}
  PROVE  /\ Batches(rows, n) \in Seq(Seq(X))
         /\ FlattenSeq(Batches(rows, n)) = rows
<1> DEFINE m == Len(rows)
           count == (m + n - 1) \div n
           upto(k) == Earlier(k * n, m)
           B == Batches(rows, n)
           Z == Seq(X)
<1>1. m \in Nat /\ n \in Int /\ n > 0 /\ m + n - 1 \in Int
  OBVIOUS
<1>2. count \in Int /\ count * n <= m + n - 1 /\ m + n - 1 < count * n + n
  BY <1>1, DivFloor
<1> HIDE DEF count
<1>3. count * n \in Int /\ m <= count * n /\ 0 * n = 0
  BY <1>1, <1>2, MulSucc
<1>4. count \in Nat
  <2>1. CASE count < 0
    <3>1. count + 1 <= 0
      BY <1>2, <2>1
    <3>2. (count + 1) * n <= 0 * n /\ (count + 1) * n = count * n + n
      BY <1>1, <1>2, <3>1, MulMono, MulSucc
    <3> QED BY <1>1, <1>2, <1>3, <3>2
  <2> QED BY <1>2, <2>1
<1>5. ASSUME NEW k \in 0 .. count - 1
      PROVE  /\ k * n \in Nat /\ (k + 1) * n = k * n + n /\ k * n < m
             /\ upto(k) = k * n /\ upto(k + 1) \in k * n .. m
  <2>1. k \in Int /\ 0 <= k /\ k + 1 <= count /\ k \in Nat
    BY <1>4
  <2>2. k * n \in Int /\ (k + 1) * n = k * n + n
    BY <1>1, <2>1, MulSucc
  <2>3. 0 * n <= k * n
    BY <1>1, <2>1, MulMono
  <2>4. (k + 1) * n <= count * n
    BY <1>1, <1>2, <2>1, MulMono
  <2>5. k * n < m
    BY <1>1, <1>2, <1>3, <2>2, <2>4
  <2> QED BY <1>1, <1>3, <2>2, <2>3, <2>5 DEF Earlier
<1>6. upto(0) = 0 /\ upto(count) = m
  BY <1>1, <1>3 DEF Earlier
<1>7. B = [k \in 1 .. count |-> SubSeq(rows, (k - 1) * n + 1, upto(k))]
  BY DEF Batches, count
<1> HIDE DEF B
<1>8. ASSUME NEW k \in 0 .. count - 1
      PROVE  /\ k + 1 \in 1 .. count /\ B[k + 1] = SubSeq(rows, upto(k) + 1, upto(k + 1))
             /\ upto(k) \in 0 .. Len(rows) /\ upto(k + 1) \in upto(k) .. Len(rows)
  <2>1. k + 1 \in 1 .. count /\ (k + 1) - 1 = k
    BY <1>4
  <2>2. B[k + 1] = SubSeq(rows, k * n + 1, upto(k + 1))
    <3> HIDE DEF upto
    <3> QED BY <1>7, <2>1
  <2>3. upto(k) = k * n /\ k * n \in 0 .. m /\ upto(k + 1) \in k * n .. m
    BY <1>1, <1>5
  <2> QED BY <2>1, <2>2, <2>3
<1> HIDE DEF upto
<1>9. ASSUME NEW k \in 0 .. count - 1
      PROVE  /\ B[k + 1] \in Seq(X)
             /\ SubSeq(rows, 1, upto(k)) \o B[k + 1] = SubSeq(rows, 1, upto(k + 1))
  <2> DEFINE a == upto(k)
             b == upto(k + 1)
  <2>1. a \in 0 .. Len(rows) /\ b \in a .. Len(rows) /\ B[k + 1] = SubSeq(rows, a + 1, b)
    BY <1>8
  <2> HIDE DEF a, b
  <2>2. SubSeq(rows, 1, a) \o SubSeq(rows, a + 1, b) = SubSeq(rows, 1, b) /\ SubSeq(rows, a + 1, b) \in Seq(X)
    BY <2>1, SubSeqJoin
  <2> QED BY <2>1, <2>2 DEF a, b
<1>10. B \in Seq(Z)
  <2>1. \A k \in 1 .. count : B[k] \in Z
    <3> TAKE k \in 1 .. count
    <3>1. k - 1 \in 0 .. count - 1 /\ (k - 1) + 1 = k
      BY <1>4
    <3> QED BY <1>9, <3>1
  <2> HIDE DEF Z
  <2>2. B = [k \in 1 .. count |-> B[k]]
    BY <1>7
  <2>3. B \in [1 .. count -> Z]
    BY <2>1, <2>2
  <2> QED BY <1>4, <2>3
<1> DEFINE P(k) == SubSeq(B, 1, k)
           S == {k \in 0 .. count : FlattenSeq(P(k)) = SubSeq(rows, 1, upto(k))}
<1>11. /\ Len(B) = count /\ P(0) = <<>> /\ P(count) = B
       /\ \A k \in 0 .. count - 1 : P(k) \in Seq(Z) /\ P(k + 1) = Append(P(k), B[k + 1])
  <2> HIDE DEF Z
  <2>1. Len(B) = count
    BY <1>4, <1>7, <1>10
  <2> QED BY <1>4, <1>10, <2>1
<1>12. \A k : k \in S <=> k \in 0 .. count /\ FlattenSeq(P(k)) = SubSeq(rows, 1, upto(k))
  OBVIOUS
<1> HIDE DEF P, S
<1>13. 0 \in S
  <2>1. SubSeq(rows, 1, 0) = <<>>
    BY <1>1
  <2>2. 0 \in 0 .. count /\ FlattenSeq(P(0)) = <<>>
    BY <1>4, <1>11, FlattenNone
  <2> QED BY <1>6, <1>12, <2>1, <2>2
<1>14. \A k \in 0 .. count - 1 : k \in S => k + 1 \in S
  <2> SUFFICES ASSUME NEW k \in 0 .. count - 1, k \in S PROVE k + 1 \in S
    OBVIOUS
  <2> DEFINE p == P(k)
             b == B[k + 1]
  <2>1. p \in Seq(Seq(X)) /\ b \in Seq(X) /\ P(k + 1) = Append(p, b)
    BY <1>9, <1>11 DEF Z
  <2>2. FlattenSeq(p) = SubSeq(rows, 1, upto(k))
    BY <1>12
  <2> HIDE DEF p, b
  <2>3. FlattenSeq(Append(p, b)) = FlattenSeq(p) \o b
    BY <2>1, FlattenAppend
  <2>4. SubSeq(rows, 1, upto(k)) \o b = SubSeq(rows, 1, upto(k + 1))
    BY <1>9 DEF b
  <2>5. k + 1 \in 0 .. count
    BY <1>4
  <2> QED BY <1>12, <2>1, <2>2, <2>3, <2>4, <2>5
<1>15. count \in S
  <2>1. count \in 0 .. count
    BY <1>4
  <2> QED BY <1>4, <1>13, <1>14, <2>1, Induct
<1>16. SubSeq(rows, 1, m) = rows
  BY <1>1
<1>17. FlattenSeq(B) = rows
  BY <1>6, <1>11, <1>12, <1>15, <1>16
<1> QED BY <1>10, <1>17 DEF B, Z

-----------------------------------------------------------------------------
(***************************************************************************)
(* Where in a sequence each element of what it is spread to comes from.    *)
(***************************************************************************)
\* Each element of w is one of what F gives for an element of s: the later it is, the
\* later that element, or its place there.
Sited(F, s, w, e, p) ==
  /\ \A i \in DOMAIN w : e[i] \in DOMAIN s /\ p[i] \in DOMAIN F[s[e[i]]] /\ w[i] = F[s[e[i]]][p[i]]
  /\ \A i, j \in DOMAIN w : i < j => e[i] < e[j] \/ (e[i] = e[j] /\ p[i] < p[j])

\* One more element has its sites behind the others.
LEMMA SitesGrow ==
  ASSUME NEW X, NEW F, NEW Y, Spreads(F, Y, X), NEW s, s \in Seq(Y), NEW y, y \in Y,
         NEW w, w \in Seq(X), NEW e, NEW p, Sited(F, s, w, e, p)
  PROVE  \E d, q : Sited(F, Append(s, y), w \o F[y], d, q)
<1> DEFINE t == Append(s, y)
           f == F[y]
           v == w \o f
           a == Len(w)
           d == [i \in DOMAIN v |-> IF i <= a THEN e[i] ELSE Len(s) + 1]
           q == [i \in DOMAIN v |-> IF i <= a THEN p[i] ELSE i - a]
<1>1. f \in Seq(X)
  BY DEF Spreads
<1>2. /\ Len(s) \in Nat /\ DOMAIN s = 1 .. Len(s) /\ DOMAIN t = 1 .. Len(s) + 1
      /\ t[Len(s) + 1] = y /\ \A n \in DOMAIN s : t[n] = s[n]
  OBVIOUS
<1> HIDE DEF f, t
<1>3. /\ a \in Nat /\ DOMAIN w = 1 .. a /\ DOMAIN f = 1 .. Len(f) /\ Len(f) \in Nat
      /\ DOMAIN v = 1 .. a + Len(f)
      /\ \A i \in 1 .. a + Len(f) : v[i] = IF i <= a THEN w[i] ELSE f[i - a]
  BY <1>1, ConcatProperties
<1>4. \A i \in DOMAIN v : d[i] = (IF i <= a THEN e[i] ELSE Len(s) + 1)
                          /\ q[i] = (IF i <= a THEN p[i] ELSE i - a)
  OBVIOUS
<1> HIDE DEF d, q, v, a
<1>5. ASSUME NEW i \in DOMAIN v
      PROVE  /\ i <= a => i \in DOMAIN w /\ v[i] = w[i] /\ d[i] = e[i] /\ q[i] = p[i]
             /\ ~(i <= a) => i - a \in DOMAIN f /\ v[i] = f[i - a] /\ d[i] = Len(s) + 1 /\ q[i] = i - a
  <2>1. i \in 1 .. a + Len(f)
    BY <1>3
  <2>2. i <= a => i \in DOMAIN w
    BY <1>3, <2>1
  <2>3. ~(i <= a) => i - a \in DOMAIN f
    BY <1>3, <2>1
  <2> QED BY <1>3, <1>4, <2>1, <2>2, <2>3
<1>6. ASSUME NEW i \in DOMAIN v
      PROVE  d[i] \in DOMAIN t /\ q[i] \in DOMAIN F[t[d[i]]] /\ v[i] = F[t[d[i]]][q[i]]
  <2>1. CASE i <= a
    <3>1. e[i] \in DOMAIN s /\ p[i] \in DOMAIN F[s[e[i]]] /\ w[i] = F[s[e[i]]][p[i]]
      BY <1>5, <2>1 DEF Sited
    <3>2. e[i] \in DOMAIN t /\ t[e[i]] = s[e[i]]
      BY <1>2, <3>1
    <3> QED BY <1>5, <2>1, <3>1, <3>2
  <2>2. CASE ~(i <= a)
    <3>1. Len(s) + 1 \in DOMAIN t /\ t[Len(s) + 1] = y /\ F[y] = f
      BY <1>2 DEF f
    <3> QED BY <1>5, <2>2, <3>1
  <2> QED BY <2>1, <2>2
<1>7. ASSUME NEW i \in DOMAIN v, NEW j \in DOMAIN v, i < j
      PROVE  d[i] < d[j] \/ (d[i] = d[j] /\ q[i] < q[j])
  <2>1. i \in Int /\ j \in Int /\ a \in Int /\ Len(s) \in Nat
    BY <1>2, <1>3
  <2>2. CASE j <= a
    <3>1. i <= a
      BY <1>7, <2>1, <2>2
    <3> QED BY <1>5, <1>7, <2>2, <3>1 DEF Sited
  <2>3. CASE ~(j <= a) /\ i <= a
    <3>1. d[i] \in 1 .. Len(s)
      BY <1>2, <1>5, <2>3 DEF Sited
    <3>2. d[j] = Len(s) + 1
      BY <1>5, <2>3
    <3> QED BY <2>1, <3>1, <3>2
  <2>4. CASE ~(j <= a) /\ ~(i <= a)
    <3>1. d[i] = d[j] /\ q[i] = i - a /\ q[j] = j - a
      BY <1>5, <2>4
    <3> QED BY <1>7, <2>1, <3>1
  <2> QED BY <2>2, <2>3, <2>4
<1>8. Sited(F, t, v, d, q)
  BY <1>6, <1>7 DEF Sited
<1> QED BY <1>8 DEF t, v, f

\* Whatever is spread has its sites.
LEMMA SpreadSites ==
  ASSUME NEW X, NEW Y, NEW F, Spreads(F, Y, X), NEW s, s \in Seq(Y)
  PROVE  \E e, p : Sited(F, s, Spread(F, s), e, p)
<1> DEFINE P(k) == SubSeq(s, 1, k)
           n == Len(s)
           S == {k \in 0 .. n : \E e, p : Sited(F, P(k), Spread(F, P(k)), e, p)}
<1>1. /\ n \in Nat /\ P(0) = <<>> /\ P(n) = s /\ \A k \in 0 .. n : P(k) \in Seq(Y)
      /\ \A k \in 0 .. n - 1 :
           /\ k \in 0 .. n /\ k + 1 \in 0 .. n /\ s[k + 1] \in Y
           /\ P(k + 1) = Append(P(k), s[k + 1])
  OBVIOUS
<1>2. \A k : k \in S <=> k \in 0 .. n /\ \E e, p : Sited(F, P(k), Spread(F, P(k)), e, p)
  OBVIOUS
<1> HIDE DEF S, P, n
<1>3. 0 \in S
  <2> DEFINE none == <<>>
  <2>1. Spread(F, none) = none
    BY SpreadNone
  <2>2. DOMAIN none = {}
    OBVIOUS
  <2> HIDE DEF none
  <2>3. Sited(F, none, none, none, none)
    BY <2>2 DEF Sited
  <2>4. 0 \in 0 .. n /\ P(0) = none
    BY <1>1 DEF none
  <2> QED BY <1>2, <2>1, <2>3, <2>4
<1>4. \A k \in 0 .. n - 1 : k \in S => k + 1 \in S
  <2> SUFFICES ASSUME NEW k \in 0 .. n - 1, k \in S PROVE k + 1 \in S
    OBVIOUS
  <2> DEFINE r == P(k)
             y == s[k + 1]
             w == Spread(F, r)
  <2>1. r \in Seq(Y) /\ y \in Y /\ P(k + 1) = Append(r, y) /\ k + 1 \in 0 .. n
    BY <1>1
  <2>2. PICK e, p : Sited(F, r, w, e, p)
    BY <1>2
  <2> HIDE DEF r, y
  <2>3. w \in Seq(X) /\ Spread(F, Append(r, y)) = w \o F[y]
    BY <2>1, SpreadType, SpreadAppend
  <2> HIDE DEF w
  <2>4. \E d, q : Sited(F, Append(r, y), w \o F[y], d, q)
    BY <2>1, <2>2, <2>3, SitesGrow
  <2> QED BY <1>2, <2>1, <2>3, <2>4
<1>5. n \in S
  <2>1. n \in 0 .. n BY <1>1
  <2>2. \A k \in 0 .. n : k \in S BY <1>1, <1>3, <1>4, Induct
  <2> QED BY <2>1, <2>2
<1> QED BY <1>1, <1>2, <1>5

\* For each element, what G gives for each of what F gives for it.
Through(H, F, G, Y) == H = [y \in Y |-> Spread(G, F[y])]

\* What each element of a spread sequence is spread to is what its elements give, spread.
LEMMA SpreadSpread ==
  ASSUME NEW X, NEW Y, NEW Z, NEW F, Spreads(F, Y, X), NEW G, Spreads(G, X, Z),
         NEW H, Through(H, F, G, Y), NEW s, s \in Seq(Y)
  PROVE  Spreads(H, Y, Z) /\ Spread(G, Spread(F, s)) = Spread(H, s)
<1>h. H = [y \in Y |-> Spread(G, F[y])]
  BY DEF Through
<1>0. \A y \in Y : F[y] \in Seq(X)
  BY DEF Spreads
<1>1. \A y \in Y : Spread(G, F[y]) \in Seq(Z)
  <2> TAKE y \in Y
  <2> DEFINE f == F[y]
  <2>1. f \in Seq(X)
    BY <1>0
  <2> HIDE DEF f
  <2>2. Spread(G, f) \in Seq(Z)
    BY <2>1, SpreadType
  <2> QED BY <2>2 DEF f
<1>2. Spreads(H, Y, Z)
  <2> DEFINE V == Seq(Z)
  <2>1. \A y \in Y : Spread(G, F[y]) \in V
    BY <1>1
  <2> HIDE DEF V
  <2>2. H \in [Y -> V]
    BY <1>h, <2>1
  <2> QED BY <2>2 DEF Spreads, V
<1> DEFINE P(k) == SubSeq(s, 1, k)
           n == Len(s)
           S == {k \in 0 .. n : Spread(G, Spread(F, P(k))) = Spread(H, P(k))}
<1>3. /\ n \in Nat /\ P(0) = <<>> /\ P(n) = s /\ \A k \in 0 .. n : P(k) \in Seq(Y)
      /\ \A k \in 0 .. n - 1 :
           /\ k \in 0 .. n /\ k + 1 \in 0 .. n /\ s[k + 1] \in Y
           /\ P(k + 1) = Append(P(k), s[k + 1])
  OBVIOUS
<1>4. \A k : k \in S <=> k \in 0 .. n /\ Spread(G, Spread(F, P(k))) = Spread(H, P(k))
  OBVIOUS
<1>5. \A y \in Y : H[y] = Spread(G, F[y])
  BY <1>h
<1> HIDE DEF S, P, n
<1>6. 0 \in S
  <2>1. 0 \in 0 .. n /\ P(0) = <<>>
    BY <1>3
  <2>2. Spread(F, <<>>) = <<>> /\ Spread(G, <<>>) = <<>> /\ Spread(H, <<>>) = <<>>
    BY SpreadNone
  <2> QED BY <1>4, <2>1, <2>2
<1>7. \A k \in 0 .. n - 1 : k \in S => k + 1 \in S
  <2> SUFFICES ASSUME NEW k \in 0 .. n - 1, k \in S PROVE k + 1 \in S
    OBVIOUS
  <2> DEFINE r == P(k)
             y == s[k + 1]
             f == F[y]
             w == Spread(F, r)
  <2>1. r \in Seq(Y) /\ y \in Y /\ P(k + 1) = Append(r, y) /\ k + 1 \in 0 .. n
    BY <1>3
  <2>2. f \in Seq(X) /\ H[y] = Spread(G, f)
    BY <1>0, <1>5, <2>1
  <2>3. Spread(G, w) = Spread(H, r)
    BY <1>4
  <2> HIDE DEF r, y
  <2>4. w \in Seq(X) /\ Spread(F, Append(r, y)) = w \o f
    BY <2>1, SpreadType, SpreadAppend
  <2>5. Spread(H, Append(r, y)) = Spread(H, r) \o H[y]
    <3>1. Spreads(H, Y, Z) /\ r \in Seq(Y) /\ y \in Y
      BY <1>2, <2>1
    <3> QED BY ONLY <3>1, SpreadAppend
  <2> HIDE DEF w, f
  <2>6. Spread(G, w \o f) = Spread(G, w) \o Spread(G, f)
    BY <2>2, <2>4, SpreadConcat
  <2> QED BY <1>4, <2>1, <2>2, <2>3, <2>4, <2>5, <2>6
<1>8. n \in S
  <2>1. n \in 0 .. n BY <1>3
  <2>2. \A k \in 0 .. n : k \in S BY <1>3, <1>6, <1>7, Induct
  <2> QED BY <2>1, <2>2
<1> QED BY <1>2, <1>3, <1>4, <1>8

-----------------------------------------------------------------------------
(***************************************************************************)
(* The chunks of a series.                                                 *)
(***************************************************************************)
\* ChunkedWith as a function.
Chunking == [ct \in Seq(Seq(Int)) \X Int |-> ChunkedWith(ct[1], ct[2])]

\* It takes chunks and a sample to chunks.
LEMMA ChunkingType ==
  /\ Chunking \in [Seq(Seq(Int)) \X Int -> Seq(Seq(Int))]
  /\ \A c \in Seq(Seq(Int)), t \in Int : Chunking[<<c, t>>] = ChunkedWith(c, t)
<1> DEFINE Z == Seq(Int)
           X == Seq(Z)
<1>1. ASSUME NEW c \in X, NEW t \in Int PROVE ChunkedWith(c, t) \in X
  <2>1. <<t>> \in Z /\ \A z \in Z : Append(z, t) \in Z
    OBVIOUS
  <2> HIDE DEF Z
  <2>2. CASE c # <<>> /\ t - Head(Last(c)) <= layout.chunkMs
    <3>1. Len(c) \in DOMAIN c /\ c[Len(c)] \in Z
      BY <2>2
    <3> DEFINE a == Append(c[Len(c)], t)
    <3>2. a \in Z
      BY <2>1, <3>1
    <3>3. ChunkedWith(c, t) = [c EXCEPT ![Len(c)] = a]
      BY <2>2 DEF ChunkedWith
    <3> HIDE DEF a
    <3> QED BY <3>1, <3>2, <3>3
  <2>3. CASE ~(c # <<>> /\ t - Head(Last(c)) <= layout.chunkMs)
    <3> DEFINE o == <<t>>
    <3>1. ChunkedWith(c, t) = Append(c, o)
      BY <2>3, Zenon DEF ChunkedWith
    <3>2. o \in Z
      BY <2>1
    <3> HIDE DEF o
    <3> QED BY <3>1, <3>2
  <2> QED BY <2>2, <2>3
<1>2. Chunking = [ct \in X \X Int |-> ChunkedWith(ct[1], ct[2])]
  BY DEF Chunking
<1> HIDE DEF X
<1>3. \A ct \in X \X Int : ChunkedWith(ct[1], ct[2]) \in X
  BY <1>1
<1>4. Chunking \in [X \X Int -> X]
  BY <1>2, <1>3
<1>5. \A c \in X, t \in Int : Chunking[<<c, t>>] = ChunkedWith(c, t)
  BY <1>2
<1> QED BY <1>4, <1>5 DEF X, Z

\* ChunkBounds is a solution of its recursion.
LEMMA ChunkBoundsFolds ==
  ASSUME NEW s \in Seq(Int)
  PROVE  FoldsTo(Seq(Seq(Int)), Chunking, <<>>, s, ChunkBounds(s))
<1> DEFINE X == Seq(Seq(Int))
           H == Chunking
           none == <<>>
           Iter == CHOOSE iter : iter = [T \in SUBSET DOMAIN s |->
                     IF T = {} THEN <<>> ELSE ChunkedWith(iter[T \ {Max(T)}], s[Max(T)])]
<1>1. ChunkBounds(s) = Iter[DOMAIN s]
  BY Zenon DEF ChunkBounds, FoldLeft, MapThenFoldSet
<1>2. \A c \in X, t \in Int : H[<<c, t>>] = ChunkedWith(c, t)
  BY ChunkingType
<1>3. H \in [X \X Int -> X] /\ none \in X
  BY ChunkingType
<1> HIDE DEF X, H, none
<1>4. PICK g \in [SUBSET DOMAIN s -> X] : FoldsOver(H, none, s, g)
  BY <1>3, FoldExists, Zenon
<1>5. \A T \in SUBSET DOMAIN s : T # {} =>
        Max(T) \in DOMAIN s /\ s[Max(T)] \in Int /\ T \ {Max(T)} \in SUBSET DOMAIN s
  <2> TAKE T \in SUBSET DOMAIN s
  <2> HAVE T # {}
  <2>1. Len(s) \in Nat /\ DOMAIN s = 1 .. Len(s)
    OBVIOUS
  <2>2. T \in SUBSET (1 .. Len(s))
    BY <2>1
  <2>3. Max(T) \in T
    BY <2>1, <2>2, MaxIn, Zenon
  <2>4. Max(T) \in DOMAIN s
    BY <2>3
  <2> QED BY <2>4
<1>6. \A T \in SUBSET DOMAIN s :
        g[T] = IF T = {} THEN <<>> ELSE ChunkedWith(g[T \ {Max(T)}], s[Max(T)])
  <2> TAKE T \in SUBSET DOMAIN s
  <2>1. CASE T = {}
    BY <1>4, <2>1 DEF FoldsOver, none
  <2>2. CASE T # {}
    <3>1. g[T] = H[<<g[T \ {Max(T)}], s[Max(T)]>>]
      BY <1>4, <2>2 DEF FoldsOver
    <3>2. g[T \ {Max(T)}] \in X /\ s[Max(T)] \in Int
      BY <1>4, <1>5, <2>2
    <3> QED BY <1>2, <2>2, <3>1, <3>2
  <2> QED BY <2>1, <2>2
<1>7. g = [T \in SUBSET DOMAIN s |->
             IF T = {} THEN <<>> ELSE ChunkedWith(g[T \ {Max(T)}], s[Max(T)])]
  <2>1. g = [T \in SUBSET DOMAIN s |-> g[T]]
    BY <1>4
  <2> QED BY <1>6, <2>1
<1>8. Iter = [T \in SUBSET DOMAIN s |->
                IF T = {} THEN <<>> ELSE ChunkedWith(Iter[T \ {Max(T)}], s[Max(T)])]
  BY <1>7, Zenon
<1> HIDE DEF Iter
<1>9. Iter[{}] = none
  BY <1>8 DEF none
<1>10. FoldsWithin(X, H, s, Iter)
  <2> SUFFICES ASSUME NEW T \in SUBSET DOMAIN s, T # {}, Iter[T \ {Max(T)}] \in X
               PROVE  Iter[T] = H[<<Iter[T \ {Max(T)}], s[Max(T)]>>]
    BY DEF FoldsWithin
  <2>1. Iter[T] = ChunkedWith(Iter[T \ {Max(T)}], s[Max(T)])
    BY <1>8
  <2> QED BY <1>2, <1>5, <2>1
<1>11. FoldsTo(X, H, none, s, Iter[DOMAIN s])
  BY <1>3, <1>9, <1>10, FoldPrefixes
<1> QED BY <1>1, <1>11, Zenon DEF X, H, none

\* The chunks are the first k samples, none is empty, and each ends before the next begins.
Chunked(c, ts, k) ==
  /\ c \in Seq(Seq(Int)) /\ FlattenSeq(c) = SubSeq(ts, 1, k)
  /\ \A m \in DOMAIN c : c[m] # <<>> /\ \E n \in 1 .. k : Last(c[m]) = ts[n]
  /\ \A i, j \in DOMAIN c : i < j => Last(c[i]) < Head(c[j])

\* A sample later than all of them is one more of the last chunk, or a chunk of its own.
LEMMA ChunkGrows ==
  ASSUME NEW ts, ts \in Seq(Int), \A i, j \in DOMAIN ts : i < j => ts[i] < ts[j],
         NEW k, k \in 0 .. Len(ts) - 1, NEW c, Chunked(c, ts, k), NEW t, t = ts[k + 1]
  PROVE  Chunked(ChunkedWith(c, t), ts, k + 1)
<1> DEFINE Z == Seq(Int)
           n == Len(c)
           before == SubSeq(ts, 1, k)
           now == SubSeq(ts, 1, k + 1)
<1>1. /\ k \in Nat /\ k + 1 \in DOMAIN ts /\ t \in Int /\ DOMAIN ts = 1 .. Len(ts) /\ Len(ts) \in Nat
      /\ before \in Seq(Int) /\ now = Append(before, t)
      /\ \A i \in 1 .. k : i \in DOMAIN ts /\ ts[i] \in Int /\ ts[i] < t
  <2>1. /\ k \in Nat /\ k + 1 \in DOMAIN ts /\ t \in Int /\ DOMAIN ts = 1 .. Len(ts) /\ Len(ts) \in Nat
        /\ before \in Seq(Int) /\ now = Append(before, t)
    OBVIOUS
  <2>2. ASSUME NEW i \in 1 .. k PROVE i \in DOMAIN ts /\ ts[i] \in Int /\ ts[i] < t
    <3> DEFINE l == k + 1
    <3>1. i \in DOMAIN ts /\ i < l
      BY <2>1
    <3>2. l \in DOMAIN ts /\ ts[l] = t
      BY <2>1
    <3> HIDE DEF l, Z, n, before, now
    <3>3. ts[i] < ts[l] /\ ts[i] \in Int
      BY <3>1, <3>2
    <3> QED BY <3>1, <3>2, <3>3
  <2> QED BY <2>1, <2>2
<1>2. /\ c \in Seq(Z) /\ FlattenSeq(c) = before
      /\ n \in Nat /\ DOMAIN c = 1 .. n
      /\ \A m \in DOMAIN c : c[m] \in Z /\ c[m] # <<>> /\ \E i \in 1 .. k : Last(c[m]) = ts[i]
      /\ \A i, j \in DOMAIN c : i < j => Last(c[i]) < Head(c[j])
  BY DEF Chunked
<1>3. \A m \in DOMAIN c : Last(c[m]) < t
  BY <1>1, <1>2
<1> HIDE DEF before, now
<1>4. CASE c # <<>> /\ t - Head(Last(c)) <= layout.chunkMs
  <2> DEFINE last == c[n]
             front == SubSeq(c, 1, n - 1)
             grown == Append(last, t)
             d == [c EXCEPT ![n] = grown]
  <2>1. n \in DOMAIN c /\ n - 1 \in Nat /\ last \in Seq(Int) /\ last # <<>>
    <3>1. c \in Seq(Z) /\ n \in Nat /\ DOMAIN c = 1 .. n
      BY <1>2
    <3>2. n # 0
      <4> HIDE DEF Z
      <4> QED BY <1>4, <3>1
    <3>3. n \in DOMAIN c /\ n - 1 \in Nat
      BY <3>1, <3>2
    <3> QED BY <1>2, <3>3
  <2>2. ChunkedWith(c, t) = d
    BY <1>4 DEF ChunkedWith
  <2>3. grown \in Z /\ grown # <<>> /\ Last(grown) = t /\ Head(grown) = Head(last)
    <3> HIDE DEF last
    <3>1. /\ grown \in Seq(Int) /\ Len(grown) = Len(last) + 1 /\ Len(last) \in Nat
          /\ grown[Len(last) + 1] = t /\ \A i \in 1 .. Len(last) : grown[i] = last[i]
      BY <1>1, <2>1
    <3>2. Len(last) # 0
      BY <2>1
    <3>3. grown # <<>> /\ 1 \in 1 .. Len(last)
      <4> HIDE DEF grown
      <4>1. Len(grown) # 0 /\ 1 \in 1 .. Len(last)
        BY <3>1, <3>2
      <4> QED BY <4>1
    <3>4. Last(grown) = t
      BY <3>1 DEF Last
    <3>5. Head(grown) = grown[1] /\ Head(last) = last[1]
      BY <2>1, <3>1, <3>3
    <3> HIDE DEF grown
    <3> QED BY <3>1, <3>3, <3>4, <3>5
  <2> HIDE DEF grown, last
  <2>4. /\ d \in Seq(Z) /\ DOMAIN d = DOMAIN c /\ d[n] = grown
        /\ \A m \in DOMAIN c : m # n => d[m] = c[m]
    <3> HIDE DEF Z
    <3> QED BY <1>2, <2>1, <2>3
  <2>5. front \in Seq(Z) /\ c = Append(front, last) /\ d = Append(front, grown)
    <3> HIDE DEF Z
    <3>1. front \in Seq(Z) /\ Len(front) = n - 1 /\ \A m \in 1 .. n - 1 : front[m] = c[m]
      BY <1>2, <2>1
    <3> HIDE DEF front, d
    <3>0. ASSUME NEW q, q \in Seq(Z), Len(q) = n, \A m \in 1 .. n - 1 : q[m] = c[m]
          PROVE  q = Append(front, q[n])
      <4> DEFINE x == q[n]
                 w == Append(front, x)
      <4>1. x \in Z /\ n \in Nat /\ n - 1 \in Nat /\ n \in 1 .. n
        BY <1>2, <2>1, <3>0
      <4> HIDE DEF x
      <4>2. /\ w \in Seq(Z) /\ Len(w) = n /\ w[n] = x
            /\ \A m \in 1 .. n - 1 : w[m] = front[m]
        BY <3>1, <4>1
      <4> HIDE DEF w
      <4>3. \A m \in 1 .. n : q[m] = w[m]
        <5> TAKE m \in 1 .. n
        <5>1. m = n \/ m \in 1 .. n - 1
          BY <4>1
        <5> QED BY <3>0, <3>1, <4>2, <5>1 DEF x
      <4>4. q = w
        BY <3>0, <4>2, <4>3
      <4> QED BY <4>4 DEF w, x
    <3>2. c = Append(front, last)
      <4>1. c = Append(front, c[n])
        BY <1>2, <3>0
      <4> QED BY <4>1 DEF last
    <3>3. d = Append(front, grown)
      <4>1. d \in Seq(Z) /\ Len(d) = n /\ \A m \in 1 .. n - 1 : d[m] = c[m]
        <5>1. d \in Seq(Z) /\ DOMAIN d = 1 .. n
          BY <1>2, <2>4
        <5>2. Len(d) = n
          BY <1>2, <5>1
        <5>3. \A m \in 1 .. n - 1 : m \in DOMAIN c /\ m # n
          <6>1. n \in Nat /\ DOMAIN c = 1 .. n
            BY <1>2
          <6> HIDE DEF n
          <6> TAKE m \in 1 .. n - 1
          <6>2. m \in 1 .. n /\ m # n
            BY <6>1
          <6> QED BY <6>1, <6>2
        <5> QED BY <2>4, <5>1, <5>2, <5>3
      <4>2. d = Append(front, d[n])
        BY <3>0, <4>1
      <4> QED BY <2>4, <4>2
    <3> QED BY <3>1, <3>2, <3>3
  <2> HIDE DEF d, front
  <2>6. FlattenSeq(d) = now
    <3> DEFINE f == FlattenSeq(front)
    <3>1. FlattenSeq(Append(front, last)) = f \o last /\ FlattenSeq(Append(front, grown)) = f \o grown
      BY <2>1, <2>3, <2>5, FlattenAppend
    <3>2. f \in Seq(Int)
      BY <2>5, FlattenType
    <3> HIDE DEF f
    <3>3. f \o Append(last, t) = Append(f \o last, t)
      <4>1. last \in Seq(Int) /\ f \in Seq(Int) /\ t \in Int
        BY <1>1, <2>1, <3>2
      <4> QED BY ONLY <4>1, ConcatAppend
    <3> QED BY <1>1, <1>2, <2>5, <3>1, <3>3 DEF grown
  <2>7. \A m \in DOMAIN d : d[m] # <<>> /\ \E i \in 1 .. k + 1 : Last(d[m]) = ts[i]
    <3> TAKE m \in DOMAIN d
    <3>1. CASE m = n
      <4>1. k + 1 \in 1 .. k + 1
        BY <1>1
      <4> QED BY <2>3, <2>4, <3>1, <4>1
    <3>2. CASE m # n
      <4>1. PICK i \in 1 .. k : Last(c[m]) = ts[i]
        BY <1>2, <2>4
      <4>2. i \in 1 .. k + 1
        BY <1>1
      <4> QED BY <1>2, <2>4, <3>2, <4>1, <4>2
    <3> QED BY <3>1, <3>2
  <2>8. \A i, j \in DOMAIN d : i < j => Last(d[i]) < Head(d[j])
    <3> TAKE i, j \in DOMAIN d
    <3> HAVE i < j
    <3>1. i \in 1 .. n /\ j \in 1 .. n /\ i # n
      BY <1>2, <2>4
    <3>2. Last(c[i]) < Head(c[j])
      BY <1>2, <2>4
    <3>3. d[i] = c[i] /\ Head(d[j]) = Head(c[j])
      BY <2>3, <2>4, <3>1 DEF last
    <3> QED BY <3>2, <3>3
  <2> QED BY <2>2, <2>4, <2>6, <2>7, <2>8 DEF Chunked, now, Z
<1>5. CASE ~(c # <<>> /\ t - Head(Last(c)) <= layout.chunkMs)
  <2> DEFINE one == <<t>>
             d == Append(c, one)
  <2>1. ChunkedWith(c, t) = d
    BY <1>5, Zenon DEF ChunkedWith
  <2>2. one \in Z /\ one # <<>> /\ Last(one) = t /\ Head(one) = t
    BY <1>1 DEF Last
  <2>3. FlattenSeq(d) = now
    <3> HIDE DEF one
    <3>1. FlattenSeq(d) = FlattenSeq(c) \o one
      BY <1>2, <2>2, FlattenAppend
    <3>2. Append(before, t) = before \o <<t>>
      BY <1>1, Ones
    <3> QED BY <1>1, <1>2, <3>1, <3>2 DEF one
  <2> HIDE DEF one
  <2>4. /\ d \in Seq(Z) /\ DOMAIN d = 1 .. n + 1 /\ d[n + 1] = one
        /\ \A m \in DOMAIN c : d[m] = c[m]
        /\ \A m \in DOMAIN d : m # n + 1 => m \in DOMAIN c
    <3> HIDE DEF Z
    <3> QED BY <1>2, <2>2
  <2> HIDE DEF d
  <2>5. \A m \in DOMAIN d : d[m] # <<>> /\ \E i \in 1 .. k + 1 : Last(d[m]) = ts[i]
    <3> TAKE m \in DOMAIN d
    <3>1. CASE m = n + 1
      <4>1. k + 1 \in 1 .. k + 1
        BY <1>1
      <4> QED BY <2>2, <2>4, <3>1, <4>1
    <3>2. CASE m # n + 1
      <4>0. m \in DOMAIN c /\ d[m] = c[m]
        BY <2>4, <3>2
      <4>1. PICK i \in 1 .. k : Last(c[m]) = ts[i]
        BY <1>2, <4>0
      <4>2. i \in 1 .. k + 1
        BY <1>1
      <4> QED BY <1>2, <4>0, <4>1, <4>2
    <3> QED BY <3>1, <3>2
  <2>6. \A i, j \in DOMAIN d : i < j => Last(d[i]) < Head(d[j])
    <3> TAKE i, j \in DOMAIN d
    <3> HAVE i < j
    <3>1. i \in 1 .. n + 1 /\ j \in 1 .. n + 1 /\ i \in DOMAIN c /\ d[i] = c[i]
      <4>1. n \in Nat /\ i \in 1 .. n + 1 /\ j \in 1 .. n + 1
        BY <1>2, <2>4
      <4> HIDE DEF n
      <4>2. i # n + 1
        BY <4>1
      <4> QED BY <2>4, <4>1, <4>2
    <3>2. CASE j = n + 1
      BY <1>3, <2>2, <2>4, <3>1, <3>2
    <3>3. CASE j # n + 1
      <4>1. j \in DOMAIN c /\ d[j] = c[j]
        BY <1>2, <2>4, <3>1, <3>3
      <4> QED BY <1>2, <3>1, <4>1
    <3> QED BY <3>2, <3>3
  <2> QED BY <2>1, <2>3, <2>4, <2>5, <2>6 DEF Chunked, now, Z
<1> QED BY <1>4, <1>5

\* All the samples are chunked.
LEMMA ChunkBoundsExact ==
  ASSUME NEW ts, ts \in Seq(Int), \A i, j \in DOMAIN ts : i < j => ts[i] < ts[j]
  PROVE  Chunked(ChunkBounds(ts), ts, Len(ts))
<1> DEFINE m == Len(ts)
<1>1. PICK R \in [0 .. m -> Seq(Seq(Int))] :
        FoldsAlong(Chunking, <<>>, ts, R) /\ R[m] = ChunkBounds(ts)
  BY ChunkBoundsFolds DEF FoldsTo
<1> DEFINE S == {k \in 0 .. m : Chunked(R[k], ts, k)}
<1>2. /\ m \in Nat /\ SubSeq(ts, 1, 0) = <<>>
      /\ \A k \in 0 .. m - 1 : k \in 0 .. m /\ k + 1 \in 0 .. m /\ ts[k + 1] \in Int
  OBVIOUS
<1>3. \A k : k \in S <=> k \in 0 .. m /\ Chunked(R[k], ts, k)
  OBVIOUS
<1> HIDE DEF S, m
<1>4. 0 \in S
  <2> DEFINE none == <<>>
  <2>1. none \in Seq(Seq(Int)) /\ \A i \in DOMAIN none : FALSE
    OBVIOUS
  <2>2. FlattenSeq(none) = SubSeq(ts, 1, 0)
    BY <1>2, FlattenNone
  <2> HIDE DEF none
  <2>3. Chunked(none, ts, 0)
    BY <2>1, <2>2 DEF Chunked
  <2>4. R[0] = none
    BY <1>1 DEF FoldsAlong, none
  <2>5. 0 \in 0 .. m
    BY <1>2
  <2> QED BY <1>3, <2>3, <2>4, <2>5, Zenon
<1>5. \A k \in 0 .. m - 1 : k \in S => k + 1 \in S
  <2> SUFFICES ASSUME NEW k \in 0 .. m - 1, k \in S PROVE k + 1 \in S
    OBVIOUS
  <2> DEFINE c == R[k]
             t == ts[k + 1]
  <2>1. R[k + 1] = Chunking[<<c, t>>] /\ c \in Seq(Seq(Int)) /\ t \in Int
    BY <1>1, <1>2 DEF FoldsAlong, m
  <2>2. Chunked(c, ts, k) /\ t = ts[k + 1] /\ k \in 0 .. Len(ts) - 1
    BY <1>3 DEF m
  <2> HIDE DEF c, t
  <2>3. R[k + 1] = ChunkedWith(c, t)
    BY <2>1, ChunkingType
  <2>4. Chunked(ChunkedWith(c, t), ts, k + 1)
    BY <2>2, ChunkGrows
  <2> QED BY <1>2, <1>3, <2>3, <2>4
<1>6. m \in S
  <2>1. m \in 0 .. m BY <1>2
  <2>2. \A k \in 0 .. m : k \in S BY <1>2, <1>4, <1>5, Induct
  <2> QED BY <2>1, <2>2
<1> QED BY <1>1, <1>3, <1>6 DEF m

-----------------------------------------------------------------------------
(***************************************************************************)
(* What the partitions are assembled from.                                 *)
(***************************************************************************)
LayoutOK ==
  /\ layout.partitions \in Nat \ {0} /\ layout.rowsPerBatch \in Nat \ {0}
  /\ layout.hash \in Seq(Nat) /\ Len(stored) <= Len(layout.hash)
  /\ \A s \in Series : IsFiniteSet(stored[s])

\* A block is not empty, and its rows are those of series, under their own names.
BlockOK(b) ==
  /\ b.bounds.start < b.bounds.end
  /\ DOMAIN b.rows \subseteq Series
  /\ \A s \in DOMAIN b.rows :
       /\ b.rows[s].series = s /\ b.rows[s].block = b.bounds
       /\ b.rows[s].times \in SUBSET Int /\ IsFiniteSet(b.rows[s].times)

\* The blocks, the layout and the stored series are such.
LaidOut == IInv /\ LayoutOK /\ \A k \in DOMAIN blocks : BlockOK(blocks[k])

\* The rows a block is given (clip, with_block, drop_empty).
LEMMA BlockOfOK ==
  ASSUME stored \in Seq(SUBSET Int), LayoutOK, NEW b, b \in Blocks, b.start < b.end,
         NEW lo, lo \in Int, NEW hi, hi \in Int
  PROVE  BlockOK(BlockOf(b, lo, hi)) /\ BlockOK(DropEmpty(BlockOf(b, lo, hi)))
<1> DEFINE all == [s \in Series |-> Part(s, b, Clip(stored[s], lo, hi))]
           present == {s \in Series : all[s].times # {}}
           kept == [s \in present |-> all[s]]
<1>1. \A s \in Series : /\ all[s].series = s /\ all[s].block = b
                        /\ all[s].times \in SUBSET Int /\ IsFiniteSet(all[s].times)
  <2> TAKE s \in Series
  <2>1. stored[s] \in SUBSET Int /\ IsFiniteSet(stored[s])
    BY DEF Series, LayoutOK
  <2> DEFINE c == Clip(stored[s], lo, hi)
             t == stored[s]
  <2>2. c \in SUBSET t
    BY DEF Clip
  <2>3. all[s] = [series |-> s, block |-> b, times |-> c]
    BY DEF Part
  <2> HIDE DEF c, t
  <2>4. IsFiniteSet(c) /\ c \in SUBSET Int
    <3>1. IsFiniteSet(t) /\ t \in SUBSET Int
      BY <2>1 DEF t
    <3> QED BY <2>2, <3>1, FS_Subset
  <2> HIDE DEF all
  <2> QED BY <2>3, <2>4
<1>2. BlockOf(b, lo, hi) = [bounds |-> b, rows |-> all]
  BY DEF BlockOf
<1>3. DropEmpty(BlockOf(b, lo, hi)) = [bounds |-> b, rows |-> kept]
  <2>1. Restrict(all, present) = kept
    BY DEF Restrict
  <2>2. DropEmpty(BlockOf(b, lo, hi)) =
          [[bounds |-> b, rows |-> all] EXCEPT !.rows = Restrict(all, present)]
    BY <1>2 DEF DropEmpty
  <2> HIDE DEF all, present, kept
  <2> QED BY <2>1, <2>2
<1>4. /\ DOMAIN all = Series /\ DOMAIN kept \subseteq Series
      /\ \A s \in DOMAIN kept : kept[s] = all[s]
  OBVIOUS
<1> HIDE DEF all, kept, present
<1>5. ASSUME NEW f, DOMAIN f \subseteq Series, \A s \in DOMAIN f : f[s] = all[s]
      PROVE  BlockOK([bounds |-> b, rows |-> f])
  BY <1>1, <1>5 DEF BlockOK
<1> QED BY <1>2, <1>3, <1>4, <1>5

\* The parts of the blocks, and the rows they are split into.
PartsOf == {p \in BlockParts : p.series \in Series /\ IsFiniteSet(p.times) /\ p.block.start < p.block.end}
RowsOfParts == [series : Nat, block : Blocks, ts : Seq(Int)]

\* The parts of a block that its partition is dealt, in stored order.
DealtOf(d, b, n) ==
  /\ d \in Seq(PartsOf)
  /\ \A i \in DOMAIN d :
       d[i].series \in DOMAIN b.rows /\ Assign(d[i].series) = n /\ d[i] = b.rows[d[i].series]
  /\ \A i, j \in DOMAIN d : i < j => d[i].series < d[j].series
  /\ \A s \in DOMAIN b.rows : Assign(s) = n => \E i \in DOMAIN d : d[i] = b.rows[s]

\* Dealing picks a block's own rows of the partition, in stored order (partition_by_labels).
LEMMA DealtExact ==
  ASSUME stored \in Seq(SUBSET Int), NEW b, BlockOK(b), b.rows \in BlockRows, NEW n
  PROVE  DealtOf(Dealt(b.rows, n), b, n)
<1> DEFINE S == {s \in DOMAIN b.rows : Assign(s) = n}
           own == Ascending(S)
           rows == b.rows
<1>1. Len(stored) \in Nat /\ Series = 1 .. Len(stored) /\ Series \in SUBSET Int /\ IsFiniteSet(Series)
  <2>1. Len(stored) \in Nat /\ Series = 1 .. Len(stored)
    BY DEF Series
  <2>2. IsFiniteSet(1 .. Len(stored))
    BY <2>1, FS_Interval
  <2> QED BY <2>1, <2>2
<1>2. DOMAIN rows \subseteq Series /\ S \subseteq DOMAIN rows
  BY DEF BlockOK
<1>3. S \in SUBSET Int /\ IsFiniteSet(S)
  <2>1. S \subseteq Series
    BY <1>2
  <2>2. IsFiniteSet(S)
    BY <1>1, <2>1, FS_Subset
  <2> QED BY <1>1, <2>1, <2>2
<1>4. \A s \in DOMAIN rows : rows[s] \in PartsOf /\ rows[s].series = s
  <2> TAKE s \in DOMAIN rows
  <2>1. /\ rows[s].series = s /\ rows[s].block = b.bounds /\ b.bounds.start < b.bounds.end
        /\ rows[s].times \in SUBSET Int /\ IsFiniteSet(rows[s].times)
    BY DEF BlockOK
  <2>3. rows[s] \in BlockParts
    BY DEF BlockRows
  <2>2. s \in Series
    BY <1>2
  <2> HIDE DEF rows
  <2> QED BY <2>1, <2>2, <2>3 DEF PartsOf
<1>5. \A s : s \in S <=> s \in DOMAIN rows /\ Assign(s) = n
  OBVIOUS
<1>6. Dealt(b.rows, n) = [i \in DOMAIN own |-> rows[own[i]]]
  BY DEF Dealt
<1> HIDE DEF S
<1>7. AscendingOf(own, S)
  BY <1>3, AscendingExact
<1> HIDE DEF own, rows
<1> DEFINE d == [i \in DOMAIN own |-> rows[own[i]]]
<1>8. /\ own \in Seq(Int) /\ \A i \in DOMAIN own : own[i] \in S
      /\ \A s \in S : \E i \in DOMAIN own : own[i] = s
      /\ \A i, j \in DOMAIN own : i < j => own[i] < own[j]
  BY <1>7 DEF AscendingOf
<1>9. \A i \in DOMAIN own : /\ own[i] \in DOMAIN rows /\ Assign(own[i]) = n
                            /\ d[i] \in PartsOf /\ d[i].series = own[i] /\ d[i] = rows[own[i]]
  BY <1>4, <1>5, <1>8
<1>10. DOMAIN d = DOMAIN own
  OBVIOUS
<1>11. d \in Seq(PartsOf)
  <2>1. Len(own) \in Nat /\ DOMAIN own = 1 .. Len(own)
    BY <1>8
  <2> QED BY <1>9, <2>1
<1> HIDE DEF d
<1>12. \A s \in DOMAIN rows : Assign(s) = n => \E i \in DOMAIN d : d[i] = rows[s]
  <2> TAKE s \in DOMAIN rows
  <2> HAVE Assign(s) = n
  <2>1. PICK i \in DOMAIN own : own[i] = s
    BY <1>5, <1>8
  <2> QED BY <1>9, <1>10, <2>1
<1>13. DealtOf(d, b, n)
  <2>1. \A i \in DOMAIN d : /\ d[i].series \in DOMAIN rows /\ Assign(d[i].series) = n
                            /\ d[i] = rows[d[i].series]
    BY <1>9, <1>10
  <2>2. \A i, j \in DOMAIN d : i < j => d[i].series < d[j].series
    BY <1>8, <1>9, <1>10
  <2> QED BY <1>11, <1>12, <2>1, <2>2, Zenon DEF DealtOf, rows
<1> QED BY <1>6, <1>13 DEF d

\* The parts a partition is dealt: block by block, and in stored order in each.
PartsInOrder(ps, n) ==
  /\ ps \in Seq(PartsOf)
  /\ \A i \in DOMAIN ps :
       /\ Assign(ps[i].series) = n
       /\ \E k \in DOMAIN blocks : /\ ps[i].series \in DOMAIN blocks[k].rows
                                   /\ ps[i] = blocks[k].rows[ps[i].series]
  /\ \A i, j \in DOMAIN ps : i < j =>
       \/ ps[i].block.end <= ps[j].block.start
       \/ ps[i].block = ps[j].block /\ ps[i].series < ps[j].series
  /\ \A k \in DOMAIN blocks : \A s \in DOMAIN blocks[k].rows :
       Assign(s) = n => \E i \in DOMAIN ps : ps[i] = blocks[k].rows[s]

\* What a partition is dealt, over all blocks (select's concatenation of the blocks).
LEMMA PartitionRowsExact ==
  ASSUME LaidOut, NEW n
  PROVE  PartsInOrder(PartitionRows(n), n)
<1> DEFINE BS == {blocks[k] : k \in DOMAIN blocks}
           F == [b \in BS |-> Dealt(b.rows, n)]
           ps == PartitionRows(n)
           X == PartsOf
<1>1. /\ Len(blocks) \in Nat /\ DOMAIN blocks = 1 .. Len(blocks)
      /\ \A k \in DOMAIN blocks : BlockOK(blocks[k]) /\ blocks[k].rows \in BlockRows
      /\ stored \in Seq(SUBSET Int)
  <2>1. blocks \in Seq([bounds : Blocks, rows : BlockRows])
    BY DEF LaidOut, IInv, ShapesOK
  <2> DEFINE Z == [bounds : Blocks, rows : BlockRows]
  <2>2. \A z \in Z : z.rows \in BlockRows
    OBVIOUS
  <2>3. blocks \in Seq(Z)
    BY <2>1
  <2> HIDE DEF Z
  <2>4. \A k \in DOMAIN blocks : blocks[k].rows \in BlockRows
    BY <2>2, <2>3
  <2> QED BY <2>4, BlocksTyped DEF LaidOut, IInv, ShapesOK
<1>2. \A k \in DOMAIN blocks : blocks[k] \in BS
  OBVIOUS
<1>3. blocks \in Seq(BS)
  <2>1. blocks \in Seq([bounds : Blocks, rows : BlockRows])
    BY DEF LaidOut, IInv, ShapesOK
  <2> DEFINE Z == [bounds : Blocks, rows : BlockRows]
  <2> HIDE DEF Z, BS
  <2>2. blocks \in Seq(Z)
    BY <2>1 DEF Z
  <2>3. blocks = [k \in 1 .. Len(blocks) |-> blocks[k]]
    BY <1>1, <2>2
  <2> QED BY <1>1, <1>2, <2>3
<1>4. \A k \in DOMAIN blocks : F[blocks[k]] = Dealt(blocks[k].rows, n)
  BY <1>2
<1>5. \A k \in DOMAIN blocks : DealtOf(F[blocks[k]], blocks[k], n)
  <2> TAKE k \in DOMAIN blocks
  <2>1. DealtOf(Dealt(blocks[k].rows, n), blocks[k], n)
    BY <1>1, DealtExact
  <2> QED BY <1>4, <2>1
<1>6. Spreads(F, BS, X)
  <2> DEFINE V == Seq(X)
  <2>1. \A b \in BS : Dealt(b.rows, n) \in V
    <3> TAKE b \in BS
    <3>1. PICK k \in DOMAIN blocks : b = blocks[k]
      OBVIOUS
    <3>2. F[b] \in Seq(X) /\ F[b] = Dealt(b.rows, n)
      BY <1>5, <3>1 DEF DealtOf
    <3> QED BY <3>2
  <2> HIDE DEF V, BS
  <2>2. F \in [BS -> V]
    BY <2>1
  <2> QED BY <2>2 DEF Spreads, V
<1> HIDE DEF BS, X
<1>7. ps = Spread(F, blocks)
  <2>1. Mapped(F, blocks) = [k \in DOMAIN blocks |-> Dealt(blocks[k].rows, n)]
    BY <1>4 DEF Mapped
  <2> HIDE DEF F
  <2> QED BY <2>1 DEF PartitionRows, Spread
<1> HIDE DEF F, ps
<1>8. PICK e, p : Sited(F, blocks, ps, e, p)
  BY <1>3, <1>6, <1>7, SpreadSites
<1>9. ps \in Seq(X)
  BY <1>3, <1>6, <1>7, SpreadType
<1>10. \A i \in DOMAIN ps :
         /\ e[i] \in DOMAIN blocks /\ ps[i].series \in DOMAIN blocks[e[i]].rows
         /\ ps[i] = blocks[e[i]].rows[ps[i].series] /\ Assign(ps[i].series) = n
         /\ ps[i].block = blocks[e[i]].bounds
  <2> TAKE i \in DOMAIN ps
  <2> DEFINE k == e[i]
             d == F[blocks[k]]
  <2>1. k \in DOMAIN blocks /\ p[i] \in DOMAIN d /\ ps[i] = d[p[i]]
    BY <1>8 DEF Sited
  <2> HIDE DEF k, d
  <2>2. /\ ps[i].series \in DOMAIN blocks[k].rows /\ ps[i] = blocks[k].rows[ps[i].series]
        /\ Assign(ps[i].series) = n
    <3>1. DealtOf(d, blocks[k], n)
      BY <1>5, <2>1 DEF d
    <3> QED BY <2>1, <3>1 DEF DealtOf
  <2>3. ps[i].block = blocks[k].bounds
    BY <1>1, <2>1, <2>2 DEF BlockOK
  <2> QED BY <2>1, <2>2, <2>3 DEF k
<1>11. \A i, j \in DOMAIN ps : i < j =>
         \/ ps[i].block.end <= ps[j].block.start
         \/ ps[i].block = ps[j].block /\ ps[i].series < ps[j].series
  <2> TAKE i, j \in DOMAIN ps
  <2> HAVE i < j
  <2>1. \/ e[i] < e[j] \/ (e[i] = e[j] /\ p[i] < p[j])
    BY <1>8 DEF Sited
  <2>2. CASE e[i] < e[j]
    <3>1. blocks[e[i]].bounds.end <= blocks[e[j]].bounds.start
      BY <1>10, <2>2 DEF LaidOut, IInv, CutSoFar
    <3> QED BY <1>10, <3>1
  <2>3. CASE e[i] = e[j] /\ p[i] < p[j]
    <3> DEFINE k == e[i]
               d == F[blocks[k]]
    <3>1. /\ k \in DOMAIN blocks /\ p[i] \in DOMAIN d /\ ps[i] = d[p[i]]
          /\ p[j] \in DOMAIN d /\ ps[j] = d[p[j]]
      BY <1>8, <2>3 DEF Sited
    <3>2. ps[i].block = ps[j].block
      BY <1>10, <2>3
    <3> HIDE DEF k, d
    <3>3. DealtOf(d, blocks[k], n)
      BY <1>5, <3>1 DEF d
    <3>4. ps[i].series < ps[j].series
      BY <2>3, <3>1, <3>3 DEF DealtOf
    <3> QED BY <3>2, <3>4
  <2> QED BY <2>1, <2>2, <2>3
<1>12. ASSUME NEW k \in DOMAIN blocks, NEW s \in DOMAIN blocks[k].rows, Assign(s) = n
       PROVE  \E i \in DOMAIN ps : ps[i] = blocks[k].rows[s]
  <2> DEFINE d == F[blocks[k]]
             r == blocks[k].rows[s]
  <2>1. DealtOf(d, blocks[k], n)
    BY <1>5
  <2> HIDE DEF d
  <2>2. \E i \in DOMAIN d : d[i] = r
    BY <1>12, <2>1 DEF DealtOf
  <2> HIDE DEF r
  <2>3. Has(d, r)
    BY <2>2 DEF Has
  <2>4. Has(ps, r)
    BY <1>3, <1>6, <1>7, <2>3, SpreadHas DEF d
  <2> QED BY <2>4 DEF Has, r
<1> QED BY <1>9, <1>10, <1>11, <1>12 DEF PartsInOrder, X, ps

-----------------------------------------------------------------------------
(***************************************************************************)
(* What one part is split into.                                            *)
(***************************************************************************)
\* The rows of a part: all its samples once, each row before the next.
CutOf(q, p) ==
  /\ q \in Seq(RowsOfParts)
  /\ \A i \in DOMAIN q : q[i].series = p.series /\ q[i].block = p.block
  /\ \A i, j \in DOMAIN q : i < j => Last(q[i].ts) < Head(q[j].ts)
  /\ FlattenSeq([i \in DOMAIN q |-> q[i].ts]) = Ascending(p.times)

\* A sequence of sequences of samples, a row of the part for each.
LEMMA RowsOfCut ==
  ASSUME NEW p, p \in PartsOf, NEW c, c \in Seq(Seq(Int)), FlattenSeq(c) = Ascending(p.times),
         \A i, j \in DOMAIN c : i < j => Last(c[i]) < Head(c[j])
  PROVE  CutOf([k \in DOMAIN c |-> Row(p, c[k])], p)
<1> DEFINE q == [k \in DOMAIN c |-> Row(p, c[k])]
           Z == Seq(Int)
<1>1. p.series \in Nat /\ p.block \in Blocks
  BY DEF PartsOf, BlockParts
<1>2. Len(c) \in Nat /\ DOMAIN c = 1 .. Len(c) /\ \A k \in DOMAIN c : c[k] \in Z
  OBVIOUS
<1>3. \A k \in DOMAIN c : /\ q[k].series = p.series /\ q[k].block = p.block /\ q[k].ts = c[k]
                          /\ q[k] = [series |-> p.series, block |-> p.block, ts |-> c[k]]
  BY DEF Row
<1>4. DOMAIN q = DOMAIN c
  OBVIOUS
<1> HIDE DEF q
<1>5. \A k \in DOMAIN c : q[k] \in RowsOfParts
  <2> TAKE k \in DOMAIN c
  <2>1. q[k] = [series |-> p.series, block |-> p.block, ts |-> c[k]] /\ c[k] \in Z
    BY <1>2, <1>3
  <2> HIDE DEF Z
  <2>2. q[k] \in [series : Nat, block : Blocks, ts : Z]
    BY <1>1, <2>1
  <2> QED BY <2>2 DEF RowsOfParts, Z
<1>6. q \in Seq(RowsOfParts)
  <2>1. q = [k \in 1 .. Len(c) |-> q[k]]
    BY <1>2, <1>4 DEF q
  <2> QED BY <1>2, <1>5, <2>1
<1>7. [i \in DOMAIN q |-> q[i].ts] = c
  <2>1. c = [k \in DOMAIN c |-> c[k]]
    BY <1>2
  <2> QED BY <1>3, <1>4, <2>1
<1>8. CutOf(q, p)
  BY <1>3, <1>4, <1>6, <1>7 DEF CutOf
<1> QED BY <1>8 DEF q

\* One sequence of samples alone.
LEMMA RowOfWhole ==
  ASSUME NEW p, p \in PartsOf, NEW ts, ts \in Seq(Int), ts = Ascending(p.times)
  PROVE  CutOf(<< Row(p, ts) >>, p)
<1> DEFINE none == <<>>
           Z == Seq(Int)
           c == <<ts>>
<1>1. ts \in Z /\ c \in Seq(Z) /\ c = Append(none, ts) /\ none \in Seq(Z) /\ DOMAIN c = {1} /\ c[1] = ts
  OBVIOUS
<1>2. FlattenSeq(c) = ts
  <2>1. FlattenSeq(none) = <<>>
    BY FlattenNone
  <2>2. FlattenSeq(Append(none, ts)) = FlattenSeq(none) \o ts
    BY <1>1, FlattenAppend
  <2>3. <<>> \o ts = ts
    OBVIOUS
  <2> QED BY <1>1, <2>1, <2>2, <2>3
<1> HIDE DEF c, none, Z
<1>3. CutOf([k \in DOMAIN c |-> Row(p, c[k])], p)
  <2>1. \A i, j \in DOMAIN c : i < j => Last(c[i]) < Head(c[j])
    BY <1>1
  <2> QED BY <1>1, <1>2, <2>1, RowsOfCut DEF Z
<1>4. [k \in DOMAIN c |-> Row(p, c[k])] = << Row(p, ts) >>
  BY <1>1
<1> QED BY <1>3, <1>4

\* split_into_chunks, for one part.
LEMMA ChunksExact ==
  ASSUME NEW p, p \in PartsOf
  PROVE  CutOf(Chunks(p), p)
<1> DEFINE ts == Ascending(p.times)
           c == ChunkBounds(ts)
<1>1. p.times \in SUBSET Int /\ IsFiniteSet(p.times)
  BY DEF PartsOf, BlockParts
<1>2. AscendingOf(ts, p.times)
  BY <1>1, AscendingExact
<1>3. CASE p.times = {}
  <2>1. ts = <<>>
    BY <1>3, AscendingNone
  <2>2. Chunks(p) = << Row(p, ts) >>
    BY <1>3, <2>1 DEF Chunks
  <2> HIDE DEF ts
  <2>3. CutOf(<< Row(p, ts) >>, p)
    <3>1. ts \in Seq(Int) /\ ts = Ascending(p.times)
      BY <1>2 DEF AscendingOf, ts
    <3> QED BY <3>1, RowOfWhole
  <2> QED BY <2>2, <2>3
<1>4. CASE p.times # {}
  <2>1. Chunks(p) = [k \in DOMAIN c |-> Row(p, c[k])]
    BY <1>4 DEF Chunks
  <2> HIDE DEF c, ts
  <2>2. ts \in Seq(Int) /\ \A i, j \in DOMAIN ts : i < j => ts[i] < ts[j]
    BY <1>2 DEF AscendingOf
  <2>3. Chunked(c, ts, Len(ts))
    BY <2>2, ChunkBoundsExact DEF c
  <2>4. SubSeq(ts, 1, Len(ts)) = ts
    BY <2>2
  <2>5. /\ c \in Seq(Seq(Int)) /\ FlattenSeq(c) = Ascending(p.times)
        /\ \A i, j \in DOMAIN c : i < j => Last(c[i]) < Head(c[j])
    BY <2>3, <2>4 DEF Chunked, ts
  <2> QED BY <2>1, <2>5, RowsOfCut
<1> QED BY <1>3, <1>4

-----------------------------------------------------------------------------
(***************************************************************************)
(* What a partition's batches hold, joined.                                *)
(***************************************************************************)
\* The rows of a part, chunked or whole.
CutRows(p) == IF layout.chunkMs # NoWidth THEN Chunks(p) ELSE << Row(p, Ascending(p.times)) >>

Cutting == [p \in PartsOf |-> CutRows(p)]

\* Each part's rows are its samples, chunked or not.
LEMMA CuttingExact ==
  /\ Spreads(Cutting, PartsOf, RowsOfParts)
  /\ \A p \in PartsOf : Cutting[p] = CutRows(p) /\ CutOf(Cutting[p], p)
<1> DEFINE V == Seq(RowsOfParts)
<1>1. \A p \in PartsOf : CutOf(CutRows(p), p)
  <2> TAKE p \in PartsOf
  <2>1. p.times \in SUBSET Int /\ IsFiniteSet(p.times)
    BY DEF PartsOf, BlockParts
  <2>2. AscendingOf(Ascending(p.times), p.times)
    BY <2>1, AscendingExact
  <2>3. CutOf(<< Row(p, Ascending(p.times)) >>, p)
    BY <2>2, RowOfWhole DEF AscendingOf
  <2>4. CutOf(Chunks(p), p)
    BY ChunksExact
  <2> QED BY <2>3, <2>4 DEF CutRows
<1>2. \A p \in PartsOf : CutRows(p) \in V
  BY <1>1 DEF CutOf
<1> HIDE DEF V
<1>3. Cutting \in [PartsOf -> V]
  BY <1>2 DEF Cutting
<1>4. \A p \in PartsOf : Cutting[p] = CutRows(p)
  BY DEF Cutting
<1> QED BY <1>1, <1>3, <1>4 DEF Spreads, V

\* Batching moves no row: the batches joined are the parts cut, in the parts' order.
LEMMA AssembledRows ==
  ASSUME LaidOut, NEW n
  PROVE  FlattenSeq(Assembled(n)) = Spread(Cutting, PartitionRows(n))
<1> DEFINE ps == PartitionRows(n)
           m == layout.rowsPerBatch
           X == RowsOfParts
           none == <<>>
           chunked == FlattenSeq([k \in DOMAIN ps |-> Chunks(ps[k])])
           whole == [k \in DOMAIN ps |-> Row(ps[k], Ascending(ps[k].times))]
<1>1. ps \in Seq(PartsOf)
  BY PartitionRowsExact DEF PartsInOrder
<1>2. m \in Nat \ {0}
  BY DEF LaidOut, LayoutOK
<1>3. Assembled(n) = IF layout.chunkMs # NoWidth THEN Batches(chunked, m)
                     ELSE IF ps = <<>> THEN << <<>> >> ELSE Batches(whole, m)
  BY DEF Assembled
<1> HIDE DEF ps, m, chunked, whole
<1>4. Spread(Cutting, ps) \in Seq(X) /\ \A k \in DOMAIN ps : ps[k] \in PartsOf
  BY <1>1, CuttingExact, SpreadType
<1>5. \A k \in DOMAIN ps : Cutting[ps[k]] = CutRows(ps[k]) /\ CutOf(Cutting[ps[k]], ps[k])
  BY <1>4, CuttingExact
<1>6. CASE layout.chunkMs # NoWidth
  <2>1. chunked = Spread(Cutting, ps)
    <3>1. \A k \in DOMAIN ps : Cutting[ps[k]] = Chunks(ps[k])
      BY <1>5, <1>6 DEF CutRows
    <3>2. Mapped(Cutting, ps) = [k \in DOMAIN ps |-> Chunks(ps[k])]
      BY <3>1 DEF Mapped
    <3> QED BY <3>2 DEF chunked, Spread
  <2>2. FlattenSeq(Batches(chunked, m)) = chunked
    BY <1>2, <1>4, <2>1, BatchesFlatten
  <2> QED BY <1>3, <1>6, <2>1, <2>2 DEF ps
<1>7. CASE layout.chunkMs = NoWidth
  <2>1. /\ Len(ps) \in Nat /\ DOMAIN ps = 1 .. Len(ps)
        /\ DOMAIN whole = DOMAIN ps /\ \A k \in DOMAIN ps : Cutting[ps[k]] = <<whole[k]>>
    BY <1>1, <1>5, <1>7 DEF CutRows, whole
  <2>2. \A k \in DOMAIN ps : whole[k] \in X
    <3> TAKE k \in DOMAIN ps
    <3>1. <<whole[k]>> \in Seq(X)
      BY <1>5, <2>1 DEF CutOf
    <3> QED BY <3>1
  <2>3. whole \in Seq(X)
    <3>1. whole = [k \in 1 .. Len(ps) |-> whole[k]]
      BY <2>1 DEF whole
    <3> QED BY <2>1, <2>2, <3>1
  <2> DEFINE G == [r \in X |-> <<r>>]
  <2>4. Spreads(G, X, X)
    <3> DEFINE V == Seq(X)
    <3>1. \A r \in X : <<r>> \in V
      OBVIOUS
    <3> HIDE DEF V
    <3>2. G \in [X -> V]
      BY <3>1
    <3> QED BY <3>2 DEF Spreads, V
  <2>5. \A k \in DOMAIN whole : G[whole[k]] = <<whole[k]>>
    BY <2>1, <2>2
  <2> HIDE DEF G, X
  <2>6. Spread(G, whole) = whole
    BY <2>3, <2>4, <2>5, SpreadTrivial
  <2>7. Spread(Cutting, ps) = Spread(G, whole)
    BY <2>1, <2>5, SpreadAlike
  <2>8. CASE ps = <<>>
    <3>1. Spread(Cutting, ps) = <<>>
      BY <2>8, CuttingExact, SpreadNone
    <3>2. FlattenSeq(<< <<>> >>) = <<>>
      <4>1. <<none>> = Append(none, none) /\ none \in Seq(Seq(X)) /\ none \in Seq(X)
        OBVIOUS
      <4> HIDE DEF none
      <4>2. FlattenSeq(none) = none
        BY FlattenNone DEF none
      <4>3. FlattenSeq(Append(none, none)) = FlattenSeq(none) \o none
        BY <4>1, FlattenAppend
      <4>4. none \o none = none /\ <<none>> = << <<>> >>
        BY DEF none
      <4> QED BY <4>1, <4>2, <4>3, <4>4 DEF none
    <3> QED BY <1>3, <1>7, <2>8, <3>1, <3>2 DEF ps
  <2>9. CASE ps # <<>>
    <3>1. FlattenSeq(Batches(whole, m)) = whole
      BY <1>2, <2>3, BatchesFlatten
    <3> QED BY <1>3, <1>7, <2>6, <2>7, <2>9, <3>1 DEF ps
  <2> QED BY <2>8, <2>9
<1> QED BY <1>6, <1>7 DEF ps

-----------------------------------------------------------------------------
(***************************************************************************)
(* The stream of one partition: its order, and what it holds of a block.   *)
(***************************************************************************)
RowsInOrder(rows) ==
  \A i, j \in DOMAIN rows : i < j =>
    /\ rows[i].block = rows[j].block \/ rows[i].block.end <= rows[j].block.start
    /\ rows[i].block = rows[j].block /\ rows[i].series = rows[j].series =>
         /\ \A k \in i .. j : rows[k].series = rows[i].series
         /\ Last(rows[i].ts) < Head(rows[j].ts)

\* A row's samples, if it is of the series and the block.
Held(r, s, b) == IF r.series = s /\ r.block = b THEN r.ts ELSE <<>>

HoldsOnce(rows, k, s) ==
  FlattenSeq([i \in DOMAIN rows |-> Held(rows[i], s, blocks[k].bounds)]) = Ascending(SamplesIn(k, s))

Streams(rows, n) ==
  /\ RowsInOrder(rows)
  /\ \A i \in DOMAIN rows : Assign(rows[i].series) = n
  /\ \A k \in DOMAIN blocks : \A s \in Series : Assign(s) = n => HoldsOnce(rows, k, s)

\* The rows of parts in order are in order.
LEMMA CutInOrder ==
  ASSUME NEW ps, NEW n, PartsInOrder(ps, n), NEW rows, rows = Spread(Cutting, ps)
  PROVE  RowsInOrder(rows) /\ \A i \in DOMAIN rows : Assign(rows[i].series) = n
<1>1. ps \in Seq(PartsOf) /\ \A i \in DOMAIN ps : ps[i] \in PartsOf /\ Assign(ps[i].series) = n
  BY DEF PartsInOrder
<1>2. PICK e, p : Sited(Cutting, ps, rows, e, p)
  BY <1>1, CuttingExact, SpreadSites
<1>3. rows \in Seq(RowsOfParts)
  BY <1>1, CuttingExact, SpreadType
<1>4. \A i \in DOMAIN rows :
        /\ e[i] \in DOMAIN ps /\ rows[i].series = ps[e[i]].series /\ rows[i].block = ps[e[i]].block
        /\ ps[e[i]].block.start \in Int /\ ps[e[i]].block.end \in Int
        /\ ps[e[i]].block.start < ps[e[i]].block.end /\ ps[e[i]].series \in Nat
  <2> TAKE i \in DOMAIN rows
  <2> DEFINE part == ps[e[i]]
             q == Cutting[part]
  <2>1. e[i] \in DOMAIN ps /\ p[i] \in DOMAIN q /\ rows[i] = q[p[i]]
    BY <1>2 DEF Sited
  <2>2. part \in PartsOf
    BY <1>1, <2>1
  <2> HIDE DEF part
  <2>3. CutOf(q, part)
    BY <2>2, CuttingExact
  <2> HIDE DEF q
  <2>4. rows[i].series = part.series /\ rows[i].block = part.block
    BY <2>1, <2>3 DEF CutOf
  <2>5. /\ part.block.start \in Int /\ part.block.end \in Int /\ part.block.start < part.block.end
        /\ part.series \in Nat
    BY <2>2 DEF PartsOf, BlockParts, Blocks
  <2> QED BY <2>1, <2>4, <2>5 DEF part
<1>5. \A i, j \in DOMAIN rows : i < j => \/ e[i] < e[j]
                                         \/ e[i] = e[j] /\ p[i] < p[j]
  BY <1>2 DEF Sited
<1>6. \A i, j \in DOMAIN ps : i < j =>
        \/ ps[i].block.end <= ps[j].block.start
        \/ ps[i].block = ps[j].block /\ ps[i].series < ps[j].series
  BY DEF PartsInOrder
<1>7. \A i \in DOMAIN rows : Assign(rows[i].series) = n
  BY <1>1, <1>4
<1>8. DOMAIN ps \subseteq Int /\ DOMAIN rows = 1 .. Len(rows) /\ Len(rows) \in Nat
  BY <1>1, <1>3
<1>9. ASSUME NEW i \in DOMAIN rows, NEW j \in DOMAIN rows, i < j
      PROVE  rows[i].block = rows[j].block \/ rows[i].block.end <= rows[j].block.start
  <2>1. CASE e[i] = e[j]
    BY <1>4, <2>1
  <2>2. CASE e[i] < e[j]
    BY <1>4, <1>6, <2>2
  <2> QED BY <1>5, <1>9, <2>1, <2>2
<1>10. ASSUME NEW i \in DOMAIN rows, NEW j \in DOMAIN rows, i < j,
              rows[i].block = rows[j].block, rows[i].series = rows[j].series
       PROVE  /\ \A k \in i .. j : rows[k].series = rows[i].series
              /\ Last(rows[i].ts) < Head(rows[j].ts)
  <2>1. e[i] = e[j] /\ p[i] < p[j]
    <3>1. ASSUME e[i] < e[j] PROVE FALSE
      <4>1. \/ ps[e[i]].block.end <= ps[e[j]].block.start
            \/ ps[e[i]].block = ps[e[j]].block /\ ps[e[i]].series < ps[e[j]].series
        BY <1>4, <1>6, <3>1
      <4> QED BY <1>4, <1>10, <4>1
    <3> QED BY <1>5, <1>10, <3>1
  <2>2. \A k \in i .. j : e[k] = e[i] /\ k \in DOMAIN rows
    <3> TAKE k \in i .. j
    <3>1. k \in DOMAIN rows /\ (k = i \/ i < k) /\ (k = j \/ k < j)
      BY <1>8
    <3>2. e[i] = e[k] \/ e[i] < e[k]
      BY <1>5, <3>1
    <3>3. e[k] = e[j] \/ e[k] < e[j]
      BY <1>5, <3>1
    <3>4. e[i] \in Int /\ e[k] \in Int /\ e[j] \in Int
      BY <1>4, <1>8, <3>1
    <3> QED BY <2>1, <3>1, <3>2, <3>3, <3>4
  <2>3. \A k \in i .. j : rows[k].series = rows[i].series
    BY <1>4, <2>2
  <2>4. Last(rows[i].ts) < Head(rows[j].ts)
    <3> DEFINE part == ps[e[i]]
               q == Cutting[part]
    <3>1. part \in PartsOf /\ p[i] \in DOMAIN q /\ p[j] \in DOMAIN q /\ rows[i] = q[p[i]] /\ rows[j] = q[p[j]]
      BY <1>1, <1>2, <2>1 DEF Sited
    <3> HIDE DEF part
    <3>2. CutOf(q, part)
      BY <3>1, CuttingExact
    <3> HIDE DEF q
    <3> QED BY <2>1, <3>1, <3>2 DEF CutOf
  <2> QED BY <2>3, <2>4
<1> QED BY <1>7, <1>9, <1>10 DEF RowsInOrder

\* The samples of a part's rows, if the part is of the series and the block.
LEMMA HeldOfPart ==
  ASSUME NEW p, p \in PartsOf, NEW s, NEW b, NEW F, F = [r \in RowsOfParts |-> Held(r, s, b)]
  PROVE  /\ Spreads(F, RowsOfParts, Int)
         /\ Spread(F, Cutting[p]) = IF p.series = s /\ p.block = b THEN Ascending(p.times) ELSE <<>>
<1> DEFINE V == Seq(Int)
           q == Cutting[p]
           X == RowsOfParts
           none == <<>>
<1>1. \A r \in X : r.ts \in V
  BY DEF RowsOfParts
<1>2. none \in V
  OBVIOUS
<1> HIDE DEF V
<1>3. \A r \in X : Held(r, s, b) \in V
  BY <1>1, <1>2 DEF Held, none
<1>4. F \in [X -> V]
  BY <1>3
<1>5. Spreads(F, X, Int)
  BY <1>4 DEF Spreads, V
<1>6. CutOf(q, p)
  BY CuttingExact
<1> HIDE DEF q
<1>7. /\ q \in Seq(X) /\ \A i \in DOMAIN q : q[i] \in X /\ q[i].series = p.series /\ q[i].block = p.block
      /\ FlattenSeq([i \in DOMAIN q |-> q[i].ts]) = Ascending(p.times)
  BY <1>6 DEF CutOf
<1> HIDE DEF X
<1>8. \A i \in DOMAIN q : F[q[i]] = Held(q[i], s, b)
  BY <1>7 DEF X
<1>9. CASE p.series = s /\ p.block = b
  <2>1. \A i \in DOMAIN q : F[q[i]] = q[i].ts
    BY <1>7, <1>8, <1>9 DEF Held
  <2>2. Mapped(F, q) = [i \in DOMAIN q |-> q[i].ts]
    BY <2>1 DEF Mapped
  <2> QED BY <1>5, <1>7, <1>9, <2>2 DEF Spread, q, X
<1>10. CASE ~(p.series = s /\ p.block = b)
  <2>1. \A i \in DOMAIN q : F[q[i]] = <<>>
    BY <1>7, <1>8, <1>10 DEF Held
  <2> DEFINE I == Int
  <2>2. Spreads(F, X, I) /\ q \in Seq(X)
    BY <1>5, <1>7
  <2> HIDE DEF I
  <2>3. Spread(F, q) = <<>>
    BY ONLY <2>1, <2>2, SpreadTrivial
  <2> QED BY <1>5, <1>10, <2>3 DEF q, X
<1> QED BY <1>9, <1>10

\* Blocks with the same bounds are the same block.
LEMMA BoundsTell ==
  ASSUME LaidOut, NEW j \in DOMAIN blocks, NEW k \in DOMAIN blocks, blocks[j].bounds = blocks[k].bounds
  PROVE  j = k
<1>1. /\ j \in Int /\ k \in Int /\ blocks[j].bounds \in Blocks /\ blocks[k].bounds \in Blocks
  BY BlocksTyped DEF LaidOut, IInv
<1>2. blocks[j].bounds.start < blocks[j].bounds.end
  BY DEF LaidOut, BlockOK
<1>3. /\ j < k => blocks[j].bounds.end <= blocks[k].bounds.start
      /\ k < j => blocks[k].bounds.end <= blocks[j].bounds.start
  BY DEF LaidOut, IInv, CutSoFar
<1> QED BY <1>1, <1>2, <1>3 DEF Blocks

\* What the rows of a partition's parts hold of a series in a block is the block's samples of it.
LEMMA PartsHold ==
  ASSUME LaidOut, NEW n, NEW ps, PartsInOrder(ps, n), NEW k \in DOMAIN blocks, NEW s \in Series, Assign(s) = n
  PROVE  HoldsOnce(Spread(Cutting, ps), k, s)
<1> DEFINE b == blocks[k].bounds
           F == [r \in RowsOfParts |-> Held(r, s, b)]
           rows == Spread(Cutting, ps)
           H == [p \in PartsOf |-> Spread(F, Cutting[p])]
<1>1. ps \in Seq(PartsOf) /\ \A i \in DOMAIN ps : ps[i] \in PartsOf
  BY DEF PartsInOrder
<1>2. rows \in Seq(RowsOfParts)
  BY <1>1, CuttingExact, SpreadType
<1> HIDE DEF rows
<1>3. FlattenSeq([i \in DOMAIN rows |-> Held(rows[i], s, b)]) = Spread(F, rows)
  <2>1. \A i \in DOMAIN rows : rows[i] \in RowsOfParts
    BY <1>2
  <2>2. Mapped(F, rows) = [i \in DOMAIN rows |-> Held(rows[i], s, b)]
    BY <2>1 DEF Mapped
  <2> QED BY <2>2 DEF Spread
<1> HIDE DEF F, H
<1>4. \A p \in PartsOf : /\ Spreads(F, RowsOfParts, Int)
                         /\ H[p] = IF p.series = s /\ p.block = b THEN Ascending(p.times) ELSE <<>>
  <2> TAKE p \in PartsOf
  <2>1. /\ Spreads(F, RowsOfParts, Int)
        /\ Spread(F, Cutting[p]) = IF p.series = s /\ p.block = b THEN Ascending(p.times) ELSE <<>>
    BY HeldOfPart DEF F
  <2> QED BY <2>1 DEF H
<1>5. \A i \in DOMAIN ps : \E j \in DOMAIN blocks :
        /\ ps[i].series \in DOMAIN blocks[j].rows /\ ps[i] = blocks[j].rows[ps[i].series]
        /\ ps[i].block = blocks[j].bounds
  <2> TAKE i \in DOMAIN ps
  <2>1. PICK j \in DOMAIN blocks :
          ps[i].series \in DOMAIN blocks[j].rows /\ ps[i] = blocks[j].rows[ps[i].series]
    BY DEF PartsInOrder
  <2>2. ps[i].block = blocks[j].bounds
    BY <2>1 DEF LaidOut, BlockOK
  <2> QED BY <2>1, <2>2
<1>6. \A i \in DOMAIN ps : ps[i].series = s /\ ps[i].block = b =>
        s \in DOMAIN blocks[k].rows /\ ps[i] = blocks[k].rows[s]
  <2> TAKE i \in DOMAIN ps
  <2> HAVE ps[i].series = s /\ ps[i].block = b
  <2>1. PICK j \in DOMAIN blocks :
          /\ ps[i].series \in DOMAIN blocks[j].rows /\ ps[i] = blocks[j].rows[ps[i].series]
          /\ ps[i].block = blocks[j].bounds
    BY <1>5
  <2>2. j = k
    BY <2>1, BoundsTell
  <2> QED BY <2>1, <2>2
<1>7. CASE ps = <<>>
  <2>1. rows = <<>>
    BY <1>7, SpreadNone DEF rows
  <2>2. Spread(F, rows) = <<>>
    BY <2>1, SpreadNone
  <2>3. s \notin DOMAIN blocks[k].rows
    <3>1. DOMAIN ps = {}
      BY <1>7
    <3> QED BY <3>1 DEF PartsInOrder
  <2>4. Ascending(SamplesIn(k, s)) = <<>>
    BY <2>3, AscendingNone DEF SamplesIn
  <2> QED BY <1>3, <2>2, <2>4 DEF HoldsOnce, rows
<1>8. CASE ps # <<>>
  <2>1. Spreads(F, RowsOfParts, Int)
    <3>1. 1 \in DOMAIN ps
      BY <1>1, <1>8
    <3> QED BY <1>1, <1>4, <3>1
  <2>2. Spreads(H, PartsOf, Int) /\ Spread(F, Spread(Cutting, ps)) = Spread(H, ps)
    <3> DEFINE I == Int
               P == PartsOf
               R == RowsOfParts
    <3>1. /\ Spreads(Cutting, P, R) /\ Spreads(F, R, I) /\ ps \in Seq(P)
          /\ Through(H, Cutting, F, P)
      BY <1>1, <2>1, CuttingExact DEF H, Through
    <3> HIDE DEF I, P, R
    <3>2. Spreads(H, P, I) /\ Spread(F, Spread(Cutting, ps)) = Spread(H, ps)
      BY ONLY <3>1, SpreadSpread
    <3> QED BY <3>2 DEF I, P
  <2>3. CASE s \in DOMAIN blocks[k].rows
    <3>1. PICK g \in DOMAIN ps : ps[g] = blocks[k].rows[s]
      BY <2>3 DEF PartsInOrder
    <3>2. ps[g].series = s /\ ps[g].block = b
      BY <2>3, <3>1 DEF LaidOut, BlockOK
    <3>3. H[ps[g]] = Ascending(ps[g].times)
      BY <1>1, <1>4, <3>2
    <3>4. \A i \in DOMAIN ps : i # g => H[ps[i]] = <<>>
      <4> TAKE i \in DOMAIN ps
      <4> HAVE i # g
      <4>1. ~(ps[i].series = s /\ ps[i].block = b)
        <5> SUFFICES ASSUME ps[i].series = s, ps[i].block = b PROVE FALSE
          OBVIOUS
        <5>1. i < g \/ g < i
          BY <1>1
        <5>2. \/ ps[i].block.end <= ps[g].block.start \/ ps[g].block.end <= ps[i].block.start
              \/ ps[i].series < ps[g].series \/ ps[g].series < ps[i].series
          BY <5>1 DEF PartsInOrder
        <5>3. s \in Nat /\ b.start \in Int /\ b.end \in Int /\ b.start < b.end
          <6>1. b \in Blocks /\ b.start < b.end
            BY BlocksTyped DEF LaidOut, IInv, BlockOK
          <6>2. ps[g].series \in Nat
            BY <1>1 DEF PartsOf, BlockParts
          <6> HIDE DEF b
          <6> QED BY <3>2, <6>1, <6>2 DEF Blocks
        <5> QED BY <3>2, <5>2, <5>3
      <4> QED BY <1>1, <1>4, <4>1
    <3>5. Spread(H, ps) = H[ps[g]]
      <4>1. g \in 1 .. Len(ps) /\ DOMAIN ps = 1 .. Len(ps)
        BY <1>1
      <4> QED BY <1>1, <2>2, <3>4, <4>1, SpreadOnly
    <3>6. SamplesIn(k, s) = ps[g].times
      BY <2>3, <3>1 DEF SamplesIn
    <3> QED BY <1>3, <2>2, <3>3, <3>5, <3>6 DEF HoldsOnce, rows
  <2>4. CASE s \notin DOMAIN blocks[k].rows
    <3>1. \A i \in DOMAIN ps : H[ps[i]] = <<>>
      BY <1>1, <1>4, <1>6, <2>4
    <3>2. Spread(H, ps) = <<>>
      BY <1>1, <2>2, <3>1, SpreadTrivial
    <3>3. Ascending(SamplesIn(k, s)) = <<>>
      BY <2>4, AscendingNone DEF SamplesIn
    <3> QED BY <1>3, <2>2, <3>2, <3>3 DEF HoldsOnce, rows
  <2> QED BY <2>3, <2>4
<1> QED BY <1>7, <1>8

\* A partition's batches, joined, are its stream.
LEMMA AssembledStreams ==
  ASSUME LaidOut, NEW n
  PROVE  Streams(FlattenSeq(Assembled(n)), n)
<1> DEFINE ps == PartitionRows(n)
<1>1. PartsInOrder(ps, n)
  BY PartitionRowsExact
<1>2. FlattenSeq(Assembled(n)) = Spread(Cutting, ps)
  BY AssembledRows
<1> HIDE DEF ps
<1>3. /\ RowsInOrder(Spread(Cutting, ps))
      /\ \A i \in DOMAIN Spread(Cutting, ps) : Assign(Spread(Cutting, ps)[i].series) = n
  BY <1>1, CutInOrder
<1>4. \A k \in DOMAIN blocks : \A s \in Series : Assign(s) = n => HoldsOnce(Spread(Cutting, ps), k, s)
  BY <1>1, PartsHold
<1> QED BY <1>2, <1>3, <1>4 DEF Streams

-----------------------------------------------------------------------------
(***************************************************************************)
(* The invariant of the delivery.                                          *)
(***************************************************************************)
\* Nothing is handed over before all is cut, and what is, is a stream of its partition.
Handed ==
  /\ DOMAIN delivered \subseteq Partitions
  /\ \A n \in DOMAIN delivered : Cut /\ Streams(RowsOf(n), n)

BlocksOK == \A k \in DOMAIN blocks : BlockOK(blocks[k])

Dealing == LayoutOK /\ BlocksOK /\ Handed

\* Nothing is handed over yet.
LEMMA InitDealing == Init => Dealing
<1> SUFFICES ASSUME Init PROVE Dealing
  OBVIOUS
<1>1. LayoutOK
  <2>1. /\ layout \in Layouts /\ stored \in Stores
    BY DEF Init
  <2>2. /\ layout.partitions \in Nat \ {0} /\ layout.rowsPerBatch \in Nat \ {0}
        /\ layout.hash \in Seq(Nat) /\ Len(stored) <= Len(layout.hash)
    BY <2>1, SourceAssumption
  <2>3. \A s \in Series : IsFiniteSet(stored[s])
    <3> DEFINE Z == {times \in SUBSET Int : IsFiniteSet(times)}
    <3>1. stored \in Seq(Z)
      BY <2>1, SourceAssumption
    <3>2. \A z \in Z : IsFiniteSet(z)
      OBVIOUS
    <3> HIDE DEF Z
    <3>3. \A s \in DOMAIN stored : stored[s] \in Z
      BY <3>1
    <3> QED BY <3>2, <3>3 DEF Series
  <2> QED BY <2>2, <2>3 DEF LayoutOK
<1>2. DOMAIN blocks = {} /\ DOMAIN delivered = {}
  BY DEF Init
<1> QED BY <1>1, <1>2 DEF Dealing, Handed, BlocksOK

\* A block more, as long as nothing is handed over.
LEMMA BlockKeepsDealing ==
  ASSUME Dealing, IInv, ~Cut, NEW b, BlockOK(b), blocks' = Append(blocks, b),
         UNCHANGED <<stored, grid, layout, delivered>>
  PROVE  Dealing'
<1>1. Len(blocks) \in Nat /\ DOMAIN blocks = 1 .. Len(blocks)
  BY BlocksTyped DEF IInv
<1>2. DOMAIN delivered = {}
  BY DEF Dealing, Handed
<1>3. LayoutOK'
  BY DEF Dealing, LayoutOK, Series
<1>4. \A k \in DOMAIN blocks' : BlockOK(blocks'[k])
  <2> DEFINE X == [bounds : Blocks, rows : BlockRows]
  <2>1. blocks \in Seq(X)
    BY DEF IInv, ShapesOK
  <2> HIDE DEF X
  <2>2. \A k \in DOMAIN blocks' : (k \in DOMAIN blocks /\ blocks'[k] = blocks[k]) \/ blocks'[k] = b
    BY <1>1, <2>1
  <2> QED BY <2>2 DEF Dealing, BlocksOK
<1>5. \A x : BlockOK(x)' <=> BlockOK(x)
  BY DEF BlockOK, Series
<1>6. BlocksOK'
  BY <1>4, <1>5 DEF BlocksOK
<1> QED BY <1>2, <1>3, <1>6 DEF Dealing, Handed

\* Before the end of the scan, a block begins before it ends (cut_into_blocks).
LEMMA CutBlockDealing ==
  ASSUME Dealing, IInv, CutBlock PROVE Dealing'
<1> DEFINE width == layout.blockMs
           end == (start \div width + 1) * width
           lo == Later(start - Hints.window, Hints.lo)
           hi == Earlier(end - 1, Hints.hi)
           bounds == [start |-> start, end |-> Earlier(end, IntMax)]
           b == DropEmpty(BlockOf(bounds, lo, hi))
<1>1. /\ grid \in Grids /\ Planned(grid) /\ stored \in Seq(SUBSET Int)
      /\ start \in Int /\ width \in Int /\ width > 0 /\ start <= Hints.hi
  BY DEF IInv, ShapesOK, CutBlock
<1>2. /\ Hints.lo \in Int /\ Hints.hi \in Int /\ Hints.hi = LastEnd /\ LastEnd < IntMax
      /\ Hints.window = grid.window /\ grid.window \in Nat
  BY <1>1, HintsExact
<1>3. end \in Int /\ start < end
  <2>1. /\ start \div width \in Int /\ (start \div width) * width <= start
        /\ start < (start \div width) * width + width
    BY <1>1, DivFloor
  <2>2. end = (start \div width) * width + width /\ (start \div width) * width \in Int
    BY <1>1, <2>1, MulSucc
  <2> HIDE DEF end
  <2> QED BY <1>1, <2>1, <2>2
<1> HIDE DEF end
<1>4. lo \in Int /\ hi \in Int /\ bounds \in Blocks /\ bounds.start < bounds.end
  BY <1>1, <1>2, <1>3, IntAssumption DEF Later, Earlier, Blocks
<1>5. ~Cut
  BY <1>1, <1>2 DEF Cut
<1>6. blocks' = Append(blocks, b) /\ UNCHANGED <<stored, grid, layout, delivered>>
  BY DEF CutBlock, end
<1> HIDE DEF lo, hi, bounds
<1>7. BlockOK(b)
  BY <1>1, <1>4, BlockOfOK DEF Dealing
<1> HIDE DEF b
<1> QED BY <1>5, <1>6, <1>7, BlockKeepsDealing

\* The one block of a select without block_ms holds at least the last end.
LEMMA WholeBlockDealing ==
  ASSUME Dealing, IInv, WholeBlock PROVE Dealing'
<1> DEFINE bounds == [start |-> SatAdd(Hints.lo, Hints.window), end |-> SatAdd(Hints.hi, 1)]
           b == BlockOf(bounds, Hints.lo, Hints.hi)
<1>1. /\ CutSoFar /\ grid \in Grids /\ Planned(grid) /\ start \in Int
      /\ stored \in Seq(SUBSET Int) /\ layout.blockMs = NoWidth /\ start <= LastEnd
  BY DEF IInv, ShapesOK, WholeBlock, LastEnd
<1>2. start = FirstEnd /\ blocks = <<>>
  BY <1>1 DEF CutSoFar
<1>3. /\ Hints.lo \in Int /\ Hints.hi \in Int /\ Hints.hi = LastEnd /\ LastEnd < IntMax
      /\ IntMin <= LastEnd /\ IntMin <= FirstEnd /\ FirstEnd <= IntMax
      /\ Hints.lo + Hints.window = FirstEnd /\ FirstEnd \in Int
  BY <1>1, HintsExact DEF FirstEnd
<1>4. bounds.start = FirstEnd /\ bounds.end = LastEnd + 1 /\ bounds \in Blocks
  BY <1>3, IntAssumption DEF SatAdd, Clamp, Blocks
<1>5. bounds.start < bounds.end /\ ~Cut
  BY <1>1, <1>2, <1>3, <1>4 DEF Cut
<1>6. blocks' = <<b>> /\ UNCHANGED <<stored, grid, layout, delivered>>
  BY DEF WholeBlock
<1> HIDE DEF bounds
<1>7. BlockOK(b)
  BY <1>1, <1>3, <1>4, <1>5, BlockOfOK DEF Dealing
<1> HIDE DEF b
<1>8. blocks' = Append(blocks, b)
  BY <1>2, <1>6
<1> QED BY <1>5, <1>6, <1>7, <1>8, BlockKeepsDealing

\* A stream stays one as long as the blocks stay as they are.
LEMMA StreamsStay ==
  ASSUME UNCHANGED <<stored, layout, blocks>>
  PROVE  \A rows, n : Streams(rows, n) <=> Streams(rows, n)'
  BY DEF Streams, RowsInOrder, HoldsOnce, Held, SamplesIn, Assign, Series

\* Handing one partition over, or nothing, leaves those handed over as they are.
LEMMA DeliverDealing ==
  ASSUME Dealing, IInv, UNCHANGED <<stored, grid, layout, start, blocks>>,
         \/ delivered' = delivered
         \/ \E n \in Partitions : Deliver(n)
  PROVE  Dealing'
<1>1. LayoutOK' /\ BlocksOK'
  BY DEF Dealing, LayoutOK, Series, BlocksOK, BlockOK
<1>2. (Cut <=> Cut') /\ Partitions' = Partitions
  BY DEF Cut, Partitions, Hints
<1>3. \A rows, n : Streams(rows, n) <=> Streams(rows, n)'
  BY StreamsStay
<1>4. DOMAIN delivered \subseteq Partitions /\ \A n \in DOMAIN delivered : Cut /\ Streams(RowsOf(n), n)
  BY DEF Dealing, Handed
<1>5. CASE delivered' = delivered
  <2>1. \A n : RowsOf(n)' = RowsOf(n)
    BY <1>5 DEF RowsOf
  <2> QED BY <1>1, <1>2, <1>3, <1>4, <1>5, <2>1 DEF Dealing, Handed
<1>6. ASSUME NEW n \in Partitions, Deliver(n) PROVE Dealing'
  <2>1. /\ DOMAIN delivered' = DOMAIN delivered \cup {n}
        /\ \A m \in DOMAIN delivered : m # n => delivered'[m] = delivered[m]
        /\ delivered'[n] = Assembled(n) /\ Cut
    BY <1>6, Zenon DEF Deliver
  <2>2. \A m \in DOMAIN delivered' : Streams(FlattenSeq(delivered'[m]), m)
    <3> TAKE m \in DOMAIN delivered'
    <3>1. CASE m = n
      <4>1. LaidOut
        BY DEF LaidOut, Dealing, BlocksOK
      <4> QED BY <2>1, <3>1, <4>1, AssembledStreams
    <3>2. CASE m # n
      BY <1>4, <2>1, <3>2 DEF RowsOf
    <3> QED BY <3>1, <3>2
  <2>3. \A m \in DOMAIN delivered' : Streams(RowsOf(m), m)'
    BY <1>3, <2>2 DEF RowsOf
  <2> QED BY <1>1, <1>2, <1>4, <2>1, <2>3 DEF Dealing, Handed
<1> QED BY <1>5, <1>6

\* What is handed over is a stream of its partition, in every behaviour of a select.
THEOREM DeliveryInvariance == Spec => [](IInv /\ Dealing)
<1>1. IInv /\ Dealing /\ [Next]_vars => Dealing'
  <2> SUFFICES ASSUME IInv, Dealing, [Next]_vars PROVE Dealing'
    OBVIOUS
  <2>1. CASE CutBlock BY <2>1, CutBlockDealing
  <2>2. CASE WholeBlock BY <2>2, WholeBlockDealing
  <2>3. CASE \E n \in Partitions : Deliver(n)
    <3>1. UNCHANGED <<stored, grid, layout, start, blocks>>
      BY <2>3 DEF Deliver
    <3> QED BY <2>3, <3>1, DeliverDealing
  <2>4. CASE UNCHANGED vars BY <2>4, DeliverDealing DEF vars
  <2> QED BY <2>1, <2>2, <2>3, <2>4 DEF Next
<1>2. IInv' /\ Dealing' <=> (IInv /\ Dealing)'
  OBVIOUS
<1> QED BY <1>1, <1>2, InitDealing, SelectInvariance, PTL DEF Spec

\* The partitions of series that the layout's hash tells apart.
LEMMA AssignTyped ==
  ASSUME Dealing, NEW s \in Series
  PROVE  Assign(s) \in Partitions
<1>1. /\ layout.partitions \in Nat \ {0} /\ layout.hash \in Seq(Nat)
      /\ s \in 1 .. Len(layout.hash)
  BY DEF Dealing, LayoutOK, Series
<1>2. layout.hash[s] \in Nat
  BY <1>1
<1> DEFINE n == layout.partitions
           h == layout.hash[s]
<1>3. n \in Nat \ {0} /\ h \in Nat
  BY <1>1, <1>2
<1>4. Assign(s) = (IF n = 1 THEN 0 ELSE h % n) /\ Partitions = 0 .. n - 1
  BY DEF Assign, Partitions
<1> HIDE DEF n, h
<1> QED BY <1>3, <1>4

\* For every store, query and layout: a partition's blocks ascend, a series' rows of one
\* block are consecutive and ascend, a series has one partition, and once all partitions
\* are handed over the rows of a series in a block are the block's samples of it, each once
\* (partition_by_labels, split_into_chunks and the batching of them, memory.rs).
THEOREM StreamsKeepOrder == Spec => []StreamOrder
<1>1. IInv /\ Dealing => StreamOrder
  <2> SUFFICES ASSUME IInv, Dealing PROVE StreamOrder
    OBVIOUS
  <2>1. \A n \in DOMAIN delivered :
          /\ RowsInOrder(RowsOf(n)) /\ \A i \in DOMAIN RowsOf(n) : Assign(RowsOf(n)[i].series) = n
          /\ \A k \in DOMAIN blocks : \A s \in Series : Assign(s) = n => HoldsOnce(RowsOf(n), k, s)
    BY DEF Dealing, Handed, Streams
  <2>2. ASSUME NEW m \in DOMAIN delivered, NEW n \in DOMAIN delivered, m # n
        PROVE  {RowsOf(m)[i].series : i \in DOMAIN RowsOf(m)}
                 \cap {RowsOf(n)[i].series : i \in DOMAIN RowsOf(n)} = {}
    <3>1. ASSUME NEW i \in DOMAIN RowsOf(m), NEW j \in DOMAIN RowsOf(n),
                 RowsOf(m)[i].series = RowsOf(n)[j].series
          PROVE  FALSE
      BY <2>1, <2>2, <3>1
    <3> QED BY <3>1
  <2>3. PartitionsInOrder
    BY <2>1, <2>2 DEF PartitionsInOrder, RowsInOrder
  <2>4. ChunksHoldTheBlock
    <3> SUFFICES ASSUME Complete, NEW k \in DOMAIN blocks, NEW s \in Series
                 PROVE  LET rows == RowsOf(Assign(s))
                            own(r) == IF r.series = s /\ r.block = blocks[k].bounds THEN r.ts ELSE <<>>
                        IN  FlattenSeq([i \in DOMAIN rows |-> own(rows[i])]) = Ascending(SamplesIn(k, s))
      BY DEF ChunksHoldTheBlock
    <3>1. Assign(s) \in DOMAIN delivered
      BY AssignTyped DEF Complete
    <3>2. HoldsOnce(RowsOf(Assign(s)), k, s)
      BY <2>1, <3>1
    <3> QED BY <3>2 DEF HoldsOnce, Held
  <2> QED BY <2>3, <2>4 DEF StreamOrder
<1> QED BY <1>1, DeliveryInvariance, PTL
=============================================================================
