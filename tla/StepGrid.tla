------------------------------ MODULE StepGrid ------------------------------
(***************************************************************************)
(* The step grid every kernel walks: promql-engine/src/params.rs.          *)
(*                                                                         *)
(* A query asks for the steps start, start + step, ... up to end.  Each    *)
(* step reads a window that ends at (the step, or the @ time) minus the    *)
(* offset.  A store cuts time into blocks; ForBlock is the grid cut to the *)
(* steps whose window end lies in one block.                               *)
(***************************************************************************)
EXTENDS Integers

CONSTANTS
  IntMin, IntMax,  \* the bounds of an i64
  MaxTime,         \* MAX_TIME_MS, the planner's bound on every time it plans
  NoAt             \* at_ms = None

ASSUME IntAssumption ==
  /\ IntMin \in Int /\ IntMax \in Int /\ 0 < IntMax /\ IntMax = -IntMin - 1
  /\ MaxTime \in Nat /\ 3 * MaxTime <= IntMax
  /\ NoAt \notin Int

\* i64::saturating_add and saturating_sub.
Clamp(x) == IF x < IntMin THEN IntMin ELSE IF x > IntMax THEN IntMax ELSE x
SatAdd(a, b) == Clamp(a + b)
SatSub(a, b) == Clamp(a - b)

Grids == [start : Int, end : Int, step : Int, window : Int, offset : Int,
          at : Int \cup {NoAt}]

Blocks == [start : Int, end : Int]

\* What the planner lets through: plan.rs validate, check_selector_bounds.
WithinBound(t) == -MaxTime <= t /\ t <= MaxTime

Planned(p) ==
  /\ p.step > 0 /\ p.start <= p.end /\ p.window >= 0
  /\ WithinBound(p.start) /\ WithinBound(p.end)
  /\ WithinBound(p.window) /\ WithinBound(p.offset)
  /\ p.at # NoAt => WithinBound(p.at)

StepCount(p) ==
  IF p.step <= 0 \/ p.end < p.start THEN 0
  ELSE (p.end - p.start) \div p.step + 1

StepAt(p, i) == p.start + i * p.step

Steps(p) == {StepAt(p, i) : i \in 0 .. StepCount(p) - 1}

\* The end of the window a step reads.
WindowEnd(p, t) == (IF p.at = NoAt THEN t ELSE p.at) - p.offset

WindowEnds(p) ==
  IF p.at = NoAt THEN [lo |-> p.start, hi |-> p.end] ELSE [lo |-> p.at, hi |-> p.at]

\* The samples a store is asked for, both bounds inclusive.
SelectRange(p) ==
  [lo |-> SatSub(SatSub(WindowEnds(p).lo, p.window), p.offset),
   hi |-> SatSub(WindowEnds(p).hi, p.offset)]

EmptyGrid(p) == [p EXCEPT !.start = 1, !.end = 0]

\* Variant: the floor is taken for the first step even where it is before lo.
FirstIndexRoundedDown(p, lo) ==
  LET floor == (lo + p.offset - p.start) \div p.step
  IN  IF floor < 0 THEN 0 ELSE floor

\* Index of the first grid step whose window end is at or after lo.
FirstIndex(p, lo) ==
  LET floor == (lo + p.offset - p.start) \div p.step
      first == IF floor < 0 THEN 0 ELSE floor
  IN  IF StepAt(p, first) < lo + p.offset THEN first + 1 ELSE first

\* Index of the last grid step whose window end is before hi.
LastIndex(p, hi) ==
  LET floor == (hi + p.offset - 1 - p.start) \div p.step
  IN  IF floor < StepCount(p) - 1 THEN floor ELSE StepCount(p) - 1

\* The grid cut to the steps that block answers.
ForBlock(p, block) ==
  IF p.at # NoAt
  THEN IF block.start <= p.at - p.offset /\ p.at - p.offset < block.end
       THEN p ELSE EmptyGrid(p)
  ELSE LET first == FirstIndex(p, block.start)
           last == LastIndex(p, block.end)
       IN  IF first > last THEN EmptyGrid(p)
           ELSE [p EXCEPT !.start = StepAt(p, first), !.end = StepAt(p, last)]
=============================================================================
