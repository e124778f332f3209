---------------------------- MODULE WindowBuffer ----------------------------
(***************************************************************************)
(* One series of one block, evaluated as its chunks arrive                 *)
(* (promql-engine/src/buffer.rs, with the kernels of selector.rs and       *)
(* range.rs).                                                              *)
(*                                                                         *)
(* push and close run under a work budget: they return false when it is    *)
(* spent, wherever they are, and are called again with a new one.  Each    *)
(* action here is one turn of one of their loops, so a budget may run out  *)
(* between any two of them.                                                *)
(***************************************************************************)
EXTENDS SeriesAnswers

CONSTANTS
  Ingest,      \* INGEST_SAMPLES
  NoTime,      \* last_t = None
  Unpinned,    \* pinned_value = None
  Inputs       \* the series, grids, kernels and budgets a run considers

ASSUME BufferAssumption ==
  /\ Ingest \in Nat \ {0}
  /\ NoTime \notin Int
  /\ \A i \in Inputs :
       /\ i.kernel \in Kernels /\ i.grid \in Grids /\ i.units \in Nat \ {0}
       /\ i.rows \in Seq(Seq(Sample)) /\ \A r \in DOMAIN i.rows : InTimeOrder(i.rows[r])
       \* The planner's bounds keep every window end an i64.
       /\ \A k \in 0 .. StepCount(i.grid) - 1 : End(i.grid, k) <= IntMax

VARIABLES
  input,     \* kernel, grid, rows (the series' chunks) and units (the budget)
  row,       \* the chunk in hand, or the next one
  position,  \* PushCursor.position
  slice,     \* the borrowed part of the chunk a kernel walks in place
  buf,       \* ts and vs
  base, lo, hi, nextStep, lastT, pinned, sweep,
  budget,    \* WorkBudget.remaining
  pc, out,
  answers    \* history: what the series answers with every chunk at hand

series == <<input, answers>>
vars == <<series, row, position, slice, buf, base, lo, hi, nextStep, lastT, pinned,
          sweep, budget, pc, out>>

history == <<buf, base, lo, hi, nextStep, lastT, pinned, sweep>>

grid == input.grid
kernel == input.kernel
rows == input.rows
steps == StepCount(grid)
IsRange == kernel # "selector"
Sweeps == kernel \in {"counter", "min", "max"}
Pinning == grid.at # NoAt
InKernel == pc \in {"ready", "borrow", "close"}

-----------------------------------------------------------------------------
\* Variant: account_kernel without saturation.
Overspend(n) == budget - n

Spend(n) == IF n < budget THEN budget - n ELSE 0

FinalEnd == IF Pinning \/ steps = 0 THEN WindowEnd(grid, grid.start) ELSE End(grid, steps - 1)

NoWindow == IsRange /\ grid.window <= 0

\* A step is ready when no later sample can land in its window.
ReadyAt(k, last) ==
  k < steps /\ ~NoWindow /\ last # NoTime /\ End(grid, k) <= last
Ready == ReadyAt(nextStep, lastT)

Claimed(last, t) == IF last = NoTime THEN t ELSE Greater(last, t)

\* The samples a kernel walks: ordinal i is at Held[i - base + 1].
Held == IF pc = "borrow" THEN slice ELSE buf
Nth(i) == Held[i - base + 1]
Edge == base + Len(Held)

SweepWork == IF kernel = "counter" THEN Len(sweep) ELSE 0

-----------------------------------------------------------------------------
Init ==
  /\ input \in Inputs
  /\ budget \in 0 .. input.units
  /\ row = 1 /\ position = 0 /\ slice = <<>>
  /\ buf = <<>> /\ base = 0 /\ lo = 0 /\ hi = 0 /\ nextStep = 0
  /\ lastT = NoTime /\ pinned = Unpinned /\ sweep = <<>>
  /\ pc = "between" /\ out = <<>>
  /\ answers = Answers(kernel, grid, rows)

\* A poll brings a new budget: to a suspended call, which resumes, or between
\* two rows.
Poll ==
  /\ budget < input.units
  /\ \/ pc = "between" /\ pc' = pc
     \/ pc = "suspended" /\ pc' = IF row <= Len(rows) THEN "row" ELSE "between"
  /\ budget' = input.units
  /\ UNCHANGED <<series, row, position, slice, history, out>>

\* push's entry.  The first row may follow the close of another series, which
\* may have spent the budget.
Push ==
  /\ pc = "between" /\ row <= Len(rows)
  /\ budget > 0 \/ row = 1
  /\ IF rows[row] = <<>>
     THEN row' = row + 1 /\ UNCHANGED <<pc, position>>
     ELSE /\ pc' = "row" /\ row' = row
          /\ position' = IF lastT = NoTime THEN 0 ELSE Through(rows[row], 0, lastT)
  /\ UNCHANGED <<series, slice, history, budget, out>>

EnterKernel ==
  /\ pc = "row" /\ Ready
  /\ pc' = "ready"
  /\ UNCHANGED <<series, row, position, slice, history, budget, out>>

AtRow == pc = "row" /\ ~Ready
Finished == nextStep >= steps \/ NoWindow

\* push returns: true at the row's end, false on a spent budget.
EndRow ==
  /\ AtRow
  /\ \/ position = Len(rows[row]) /\ pc' = "between" /\ row' = row + 1
     \/ position < Len(rows[row]) /\ budget = 0 /\ pc' = "suspended" /\ row' = row
  /\ UNCHANGED <<series, position, slice, history, budget, out>>

\* Every step is answered: the row is claimed whole, unread.
DropRow ==
  /\ AtRow /\ position < Len(rows[row]) /\ budget > 0 /\ Finished
  /\ nextStep' = steps
  /\ lastT' = Claimed(lastT, Last(rows[row]).t)
  /\ pc' = "between" /\ row' = row + 1
  /\ UNCHANGED <<series, position, slice, buf, base, lo, hi, pinned, sweep, budget, out>>

\* The first position a later step can read.
Alive == Through(rows[row], position, End(grid, nextStep) - grid.window)
Ingesting == AtRow /\ position < Len(rows[row]) /\ budget > 0 /\ ~Finished
DeadEnd == Alive < Len(rows[row]) => rows[row][Alive + 1].t > FinalEnd

\* Variant: a tail that is skipped is not claimed.
SkipTailUnclaimed ==
  /\ Ingesting /\ DeadEnd
  /\ position' = Len(rows[row])
  /\ UNCHANGED <<series, row, slice, history, budget, pc, out>>

\* Nothing left of the row can be read: it is claimed and skipped.
SkipTail ==
  /\ Ingesting /\ DeadEnd
  /\ lastT' = Claimed(lastT, Last(rows[row]).t)
  /\ position' = Len(rows[row])
  /\ UNCHANGED <<series, row, slice, buf, base, lo, hi, nextStep, pinned, sweep,
                 budget, pc, out>>

Allowance ==
  Lesser(budget, Lesser(Ingest, Len(rows[row]) - Alive))

Until == Alive + Allowance

\* The allowance's samples up to the last window end.
Taken == SubSeq(rows[row], Alive + 1, Lesser(Until, Through(rows[row], Alive, FinalEnd)))

\* Variant: a run of equal times is finalised where the allowance ends.
WatermarkInsideRun == rows[row][Until].t

\* The watermark an allowance leaves: one short of a run of equal times it cuts.
Watermark ==
  LET ts == rows[row]
  IN  IF Until < Len(ts) /\ ts[Until + 1].t = ts[Until].t
      THEN ts[Until].t - 1 ELSE ts[Until].t

Borrows ==
  /\ buf = <<>> /\ ~Pinning
  /\ IsRange => \A k \in DOMAIN Taken : Taken[k].v # Stale

IngestSlice ==
  /\ Ingesting /\ ~DeadEnd
  /\ budget' = budget - Allowance
  /\ lastT' = Watermark
  /\ position' = Until
  /\ IF Borrows
     THEN pc' = "borrow" /\ slice' = Taken /\ buf' = buf
     ELSE /\ pc' = pc /\ slice' = slice
          /\ buf' = IF IsRange THEN buf \o Live(Taken)
                    ELSE IF ~Pinning THEN buf \o Taken
                    ELSE IF Taken = <<>> THEN buf ELSE << Last(Taken) >>
  /\ UNCHANGED <<series, row, base, lo, hi, nextStep, pinned, sweep, out>>

-----------------------------------------------------------------------------
(***************************************************************************)
(* advance: the kernels.  Each works on the step nextStep while it is      *)
(* ready and the budget lasts, and its edges outlive a spent budget.       *)
(***************************************************************************)
Working == InKernel /\ Ready /\ budget > 0
Walking == Working /\ ~Pinning

WindowStop == End(grid, nextStep)
WindowStart == WindowStop - grid.window

\* The edges move while the sample at them is due.
LeavesLeft == IsRange /\ lo < Edge /\ Nth(lo).t <= WindowStart
Right == IF IsRange THEN Greater(hi, lo) ELSE hi
EntersRight == Right < Edge /\ Nth(Right).t <= WindowStop

\* Sweep::leave, of a sample that had entered.
AdvanceLeft ==
  /\ Walking /\ LeavesLeft
  /\ lo' = lo + 1
  /\ sweep' = IF lo < hi /\ sweep # <<>> /\ Head(sweep) = lo THEN Tail(sweep) ELSE sweep
  /\ budget' = budget - 1
  /\ UNCHANGED <<series, row, position, slice, buf, base, hi, nextStep, lastT, pinned,
                 pc, out>>

Loses == /\ kernel \in {"min", "max"} /\ sweep # <<>> /\ Nth(Right).v # NaN
         /\ Beaten(kernel, Nth(Last(sweep)).v, Nth(Right).v)

\* Sweep::enter drops one candidate the entering sample beats.
DropBeaten ==
  /\ Walking /\ ~LeavesLeft /\ EntersRight /\ Loses
  /\ sweep' = Front(sweep)
  /\ budget' = budget - 1
  /\ UNCHANGED <<series, row, position, slice, buf, base, lo, hi, nextStep, lastT, pinned,
                 pc, out>>

\* Variant: a pair joins the sweep with its left half outside the window.
AdvanceRightOfBase ==
  /\ Walking /\ ~LeavesLeft /\ EntersRight /\ ~Loses
  /\ hi' = Right + 1
  /\ sweep' = CASE kernel = "counter" ->
                     IF Right > base /\ Less(Nth(Right).v, Nth(Right - 1).v)
                     THEN Append(sweep, Right - 1) ELSE sweep
                [] kernel \in {"min", "max"} ->
                     IF Nth(Right).v = NaN THEN sweep ELSE Append(sweep, Right)
                [] OTHER -> sweep
  /\ budget' = budget - 1
  /\ UNCHANGED <<series, row, position, slice, buf, base, lo, nextStep, lastT, pinned,
                 pc, out>>

\* The sample enters, and its pair or itself joins the sweep.
AdvanceRight ==
  /\ Walking /\ ~LeavesLeft /\ EntersRight /\ ~Loses
  /\ hi' = Right + 1
  /\ sweep' = CASE kernel = "counter" ->
                     IF Right > lo /\ Less(Nth(Right).v, Nth(Right - 1).v)
                     THEN Append(sweep, Right - 1) ELSE sweep
                [] kernel \in {"min", "max"} ->
                     IF Nth(Right).v = NaN THEN sweep ELSE Append(sweep, Right)
                [] OTHER -> sweep
  /\ budget' = budget - 1
  /\ UNCHANGED <<series, row, position, slice, buf, base, lo, nextStep, lastT, pinned,
                 pc, out>>

Window == SubSeq(Held, lo - base + 1, Right - base)

\* The step's value: none, or what the kernel reads and picks.
SelectorValue ==
  IF hi = base THEN <<>>
  ELSE LET s == Nth(hi - 1)
       IN  IF s.t > WindowStart /\ s.v # Stale THEN << Answer(nextStep, <<s>>, <<>>) >>
           ELSE <<>>

SweptPicks ==
  CASE kernel = "counter"        -> [k \in DOMAIN sweep |-> Nth(sweep[k])]
    [] kernel \in {"min", "max"} -> << IF sweep # <<>> THEN Nth(Head(sweep)) ELSE Last(Window) >>
    [] OTHER                     -> Picks(kernel, Window)

RangeValue == IF Window = <<>> THEN <<>> ELSE << Answer(nextStep, Window, SweptPicks) >>

Evaluate ==
  /\ Walking /\ ~LeavesLeft /\ ~EntersRight
  /\ out' = out \o (IF IsRange THEN RangeValue ELSE SelectorValue)
  /\ nextStep' = nextStep + 1
  /\ hi' = Right
  /\ budget' = Spend(1 + IF Sweeps THEN SweepWork ELSE Work(kernel, Right - lo))
  /\ UNCHANGED <<series, row, position, slice, buf, base, lo, lastT, pinned, sweep, pc>>

\* Under @ one value is computed once, of the window or its latest sample.
PinnedWindow ==
  IF IsRange
  THEN SubSeq(buf, Through(buf, 0, WindowStart) + 1, Through(buf, 0, WindowStop))
  ELSE IF buf # <<>> /\ Last(buf).v # Stale THEN << Last(buf) >> ELSE <<>>

PinValue ==
  /\ Working /\ Pinning /\ pinned = Unpinned
  /\ pinned' = PinnedWindow
  /\ budget' = Spend(Work(kernel, Len(PinnedWindow)))
  /\ UNCHANGED <<series, row, position, slice, buf, base, lo, hi, nextStep, lastT, sweep,
                 pc, out>>

RepeatPinned ==
  /\ Working /\ Pinning /\ pinned # Unpinned
  /\ out' = out \o (IF pinned = <<>> THEN <<>>
                    ELSE << Answer(nextStep, pinned, Picks(kernel, pinned)) >>)
  /\ nextStep' = nextStep + 1
  /\ budget' = budget - 1
  /\ UNCHANGED <<series, row, position, slice, buf, base, lo, hi, lastT, pinned, sweep, pc>>

-----------------------------------------------------------------------------
\* advance returns, with no step ready or the budget spent: where it leaves
\* the edges.
Returning == InKernel /\ (~Ready \/ budget = 0)

\* Variant: the right edge is left behind a suspended left edge.
KeptRightBehind == hi

KeptRight == IF Pinning THEN hi ELSE Right
KeptLeft == IF Pinning \/ IsRange THEN lo ELSE Greater(hi - 1, base)

\* Variant: nothing is drained before the last step.
CutNothing == 0

\* reduce_delta: how many samples go.
Cut == LET dead == KeptLeft - base
       IN  IF dead > 0 /\ dead >= Len(buf) \div 2 THEN dead ELSE 0

\* retire_history.
Retire ==
  /\ buf' = <<>>
  /\ base' = Greater(KeptRight, KeptLeft) /\ lo' = base' /\ hi' = base'
  /\ sweep' = <<>>

Reduce ==
  /\ buf' = SubSeq(buf, Cut + 1, Len(buf))
  /\ base' = base + Cut /\ lo' = KeptLeft /\ hi' = KeptRight
  /\ sweep' = sweep

\* push resumes its loop, or returns false.
ReturnToRow ==
  /\ pc = "ready" /\ Returning
  /\ IF nextStep >= steps THEN Retire ELSE Reduce
  /\ pc' = IF Ready THEN "suspended" ELSE "row"
  /\ UNCHANGED <<series, row, position, slice, nextStep, lastT, pinned, budget, out>>

\* The borrowed slice ends: only its reachable suffix is copied.
ReturnSlice ==
  /\ pc = "borrow" /\ Returning
  /\ IF nextStep >= steps THEN Retire
     ELSE /\ buf' = SubSeq(slice, KeptLeft - base + 1, Len(slice))
          /\ base' = KeptLeft /\ lo' = KeptLeft /\ hi' = KeptRight
          /\ sweep' = sweep
  /\ slice' = <<>>
  /\ pc' = "row"
  /\ UNCHANGED <<series, row, position, nextStep, lastT, pinned, budget, out>>

\* close's reset.
Reset ==
  /\ buf' = <<>> /\ base' = 0 /\ lo' = 0 /\ hi' = 0 /\ nextStep' = 0
  /\ lastT' = NoTime /\ pinned' = Unpinned /\ sweep' = <<>>
  /\ pc' = "closed"

\* close, called or resumed: what is left of the grid is ready.
Close ==
  /\ pc = "between" /\ row > Len(rows)
  /\ IF buf # <<>> \/ pinned # Unpinned
     THEN /\ lastT' = IntMax /\ pc' = "close"
          /\ UNCHANGED <<buf, base, lo, hi, nextStep, pinned, sweep>>
     ELSE Reset
  /\ UNCHANGED <<series, row, position, slice, budget, out>>

ReturnToClose ==
  /\ pc = "close" /\ Returning
  /\ IF Ready THEN Reduce /\ pc' = "suspended" /\ UNCHANGED <<nextStep, lastT, pinned>>
     ELSE Reset
  /\ UNCHANGED <<series, row, position, slice, budget, out>>

Kernel == AdvanceLeft \/ DropBeaten \/ AdvanceRight \/ Evaluate \/ PinValue \/ RepeatPinned
Return == ReturnToRow \/ ReturnSlice \/ ReturnToClose
Row == EnterKernel \/ EndRow \/ DropRow \/ SkipTail \/ IngestSlice

Next == Poll \/ Push \/ Row \/ Kernel \/ Return \/ Close

-----------------------------------------------------------------------------
TypeOK ==
  /\ input \in Inputs /\ budget \in 0 .. input.units
  /\ row \in 1 .. Len(rows) + 1 /\ position \in Nat
  /\ pc \in {"between", "row", "suspended", "ready", "borrow", "close", "closed"}
  /\ slice \in Seq(Sample) /\ buf \in Seq(Sample)
  /\ base \in Nat /\ lo \in Nat /\ hi \in Nat /\ nextStep \in 0 .. steps
  /\ lastT \in Int \cup {NoTime}
  /\ pinned \in Seq(Sample) \cup {Unpinned}
  /\ sweep \in Seq(Nat)

(***************************************************************************)
(* The cursors stay inside what is held, across every suspension, every    *)
(* drain of the front and every change from a borrowed slice to the        *)
(* buffer: no kernel indexes outside its slices, and an empty buffer has   *)
(* no edge left in it (push's debug assertions, buffer.rs).                *)
(***************************************************************************)
InBounds ==
  /\ base <= lo /\ lo <= Edge /\ base <= hi /\ hi <= Edge
  /\ ~InKernel => lo <= hi
  /\ buf = <<>> /\ pc # "borrow" => lo = base /\ hi = base

(***************************************************************************)
(* The fold gives exactly the answers of the whole series, in order: none  *)
(* before its window is final, none revised by a later chunk, none lost to *)
(* a suspended call, a drained buffer or a chunk dropped unread, and it    *)
(* closes once all are out.  So does the one-step selector, which holds no *)
(* history: the two owners of SeriesState are interchangeable.             *)
(***************************************************************************)
Fold == INSTANCE OrderedAnswers WITH closed <- pc = "closed"

AnswersInOrder == Fold!Spec

(***************************************************************************)
(* A completed chunk has claimed everything up to its last timestamp, the  *)
(* stale markers a range kernel drops and the tail it never reads          *)
(* included: a later chunk gets no second claim (append, buffer.rs).       *)
(***************************************************************************)
RowsClaimWhole ==
  pc = "between" /\ lastT # IntMax =>
    LET times == {rows[r][Len(rows[r])].t : r \in {q \in 1 .. row - 1 : rows[q] # <<>>}}
    IN  IF times = {} THEN lastT = NoTime
        ELSE lastT \in times /\ \A t \in times : t <= lastT

(***************************************************************************)
(* Sweep: between any two turns it tracks exactly what refolding the       *)
(* samples it has let in would find.  A counter's resets are those inside  *)
(* the window; the extremum's candidates are the samples no later one      *)
(* beats, less those the sample now entering has already beaten.           *)
(***************************************************************************)
SweepIsTheWindow ==
  Sweeps /\ ~Pinning =>
    LET inside == lo .. hi - 1
        found == IF kernel = "counter"
                 THEN {i \in lo .. hi - 2 : Less(Nth(i + 1).v, Nth(i).v)}
                 ELSE {i \in inside : Nth(i).v # NaN /\
                         \A j \in i + 1 .. hi - 1 : ~Beaten(kernel, Nth(i).v, Nth(j).v)}
        beaten == IF kernel = "counter" \/ hi >= Edge THEN {}
                  ELSE {i \in inside : Beaten(kernel, Nth(i).v, Nth(hi).v)}
        tracked == {sweep[n] : n \in DOMAIN sweep}
    IN  /\ tracked \subseteq found /\ found \ tracked \subseteq beaten
        /\ \A m, n \in DOMAIN sweep : m < n => sweep[m] < sweep[n]

(***************************************************************************)
(* What is held is a window, not the series: at most the windows of two    *)
(* steps and two ingestion allowances, doubled by the deferred drain       *)
(* (reduce_delta's comment, buffer.rs).                                    *)
(***************************************************************************)
Fullest ==
  [i \in Inputs |->
     LET counts == {0} \cup {Len(StepWindow(i.grid, Merged(i.rows), k)) :
                               k \in 0 .. StepCount(i.grid) - 1}
     IN  CHOOSE n \in counts : \A m \in counts : m <= n]

HistoryIsAWindow == buf # <<>> /\ ~Pinning => Len(buf) <= 2 * Fullest[input] + Ingest
=============================================================================
