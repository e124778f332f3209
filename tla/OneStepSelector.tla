--------------------------- MODULE OneStepSelector ---------------------------
(***************************************************************************)
(* The one-step selector: SeriesState::Candidate of                        *)
(* promql-engine/src/buffer.rs.  It keeps no history, only the latest      *)
(* sample that could answer its one step.  SeriesState composes it with    *)
(* WindowBuffer.                                                           *)
(***************************************************************************)
EXTENDS SeriesAnswers

CONSTANTS
  NoTime,    \* last_t = None
  NoSample,  \* sample = None
  Inputs     \* the series and one-step grids a run considers, and the budget

VARIABLES
  input,   \* grid, rows (the series' chunks) and units (the budget)
  row,     \* the next chunk
  sample, lastT,
  budget,  \* WorkBudget.remaining
  closed, out,
  answers  \* history: what the series answers with every chunk at hand

vars == <<input, row, sample, lastT, budget, closed, out, answers>>

grid == input.grid
rows == input.rows
stop == End(grid, 0)

Init ==
  /\ input \in Inputs
  /\ budget \in 0 .. input.units
  /\ row = 1 /\ sample = NoSample /\ lastT = NoTime
  /\ closed = FALSE /\ out = <<>>
  /\ answers = Answers("selector", grid, rows)

Poll ==
  /\ ~closed /\ budget = 0
  /\ budget' = input.units
  /\ UNCHANGED <<input, row, sample, lastT, closed, out, answers>>

Claimed(last, t) == IF last = NoTime THEN t ELSE Greater(last, t)

\* The chunk can still change the pick: it reaches past the window's start,
\* and no earlier chunk has claimed the lookup itself.
CanPick(chunk) ==
  /\ Last(chunk).t > stop - grid.window
  /\ lastT # NoTime => lastT < stop

\* Variant: overlapped samples are read again.
PickedOverlapping(chunk) ==
  LET hi == Through(chunk, 0, stop)
  IN  IF hi > 0 /\ chunk[hi].t > stop - grid.window THEN chunk[hi] ELSE sample

\* The chunk's latest unclaimed sample at or before the lookup, if alive.
Picked(chunk) ==
  LET from == IF lastT = NoTime THEN 0 ELSE Through(chunk, 0, lastT)
      hi   == Through(chunk, from, stop)
  IN  IF hi > from /\ chunk[hi].t > stop - grid.window THEN chunk[hi] ELSE sample

Push ==
  /\ ~closed /\ row <= Len(rows) /\ budget > 0
  /\ budget' = budget - 1
  /\ row' = row + 1
  /\ LET chunk == rows[row]
     IN  IF chunk = <<>> THEN UNCHANGED <<sample, lastT>>
         ELSE /\ lastT' = Claimed(lastT, Last(chunk).t)
              /\ sample' = IF CanPick(chunk) THEN Picked(chunk) ELSE sample
  /\ UNCHANGED <<input, closed, out, answers>>

Close ==
  /\ ~closed /\ row > Len(rows) /\ budget > 0
  /\ budget' = budget - 1
  /\ out' = IF sample # NoSample /\ sample.v # Stale
            THEN << Answer(0, <<sample>>, <<>>) >> ELSE <<>>
  /\ sample' = NoSample /\ lastT' = NoTime /\ closed' = TRUE
  /\ UNCHANGED <<input, row, answers>>

-----------------------------------------------------------------------------
TypeOK ==
  /\ input \in Inputs /\ budget \in 0 .. input.units
  /\ row \in 1 .. Len(rows) + 1
  /\ sample \in Sample \cup {NoSample} /\ lastT \in Int \cup {NoTime}
  /\ closed \in BOOLEAN

(***************************************************************************)
(* The candidate is the latest sample of the chunks pushed so far inside   *)
(* the lookup window, stale markers included: an ineligible chunk keeps an *)
(* older pick, and an overlapping one cannot replace it.                   *)
(***************************************************************************)
CandidateIsLatest ==
  ~closed =>
    LET inside == StepWindow(grid, Merged(SubSeq(rows, 1, row - 1)), 0)
    IN  sample = IF inside = <<>> THEN NoSample ELSE Last(inside)
=============================================================================
