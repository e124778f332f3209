---------------------------- MODULE SeriesState ----------------------------
(***************************************************************************)
(* The two owners of a series (SeriesState of promql-engine/src/buffer.rs) *)
(* and the rule that picks one: a selector that answers one step keeps a   *)
(* candidate, everything else a window.                                    *)
(***************************************************************************)
EXTENDS WindowBuffer

CONSTANTS
  NoSample,      \* sample = None
  OneStepInputs  \* the one-step selectors a run considers

VARIABLE sample

Candidate == INSTANCE OneStepSelector WITH
  Inputs <- OneStepInputs, closed <- pc = "closed"

IsOneStep(i) == i.kernel = "selector" /\ StepCount(i.grid) = 1

ASSUME StateAssumption ==
  /\ NoSample \notin Sample
  /\ \A i \in Inputs : ~IsOneStep(i)
  /\ \A i \in OneStepInputs :
       /\ IsOneStep(i) /\ i.grid \in Grids /\ i.units \in Nat \ {0}
       /\ i.rows \in Seq(Seq(Sample)) /\ \A r \in DOMAIN i.rows : InTimeOrder(i.rows[r])

OneStep == IsOneStep(input)

StateInit ==
  \/ Init /\ sample = NoSample
  \/ /\ pc = "between" /\ Candidate!Init
     /\ position = 0 /\ slice = <<>> /\ buf = <<>> /\ base = 0 /\ lo = 0 /\ hi = 0
     /\ nextStep = 0 /\ pinned = Unpinned /\ sweep = <<>>

CandidateNext ==
  /\ \/ pc' = pc /\ (Candidate!Poll \/ Candidate!Push)
     \/ pc' = "closed" /\ Candidate!Close
  /\ UNCHANGED <<position, slice, buf, base, lo, hi, nextStep, pinned, sweep>>

StateNext ==
  \/ ~OneStep /\ Next /\ UNCHANGED sample
  \/ OneStep /\ CandidateNext

\* The stream polls until the series is closed, and every call runs to its end.
Spec == StateInit /\ [][StateNext]_<<vars, sample>> /\ WF_<<vars, sample>>(StateNext)

(***************************************************************************)
(* The state has its type, and the cursors of a fold stay inside what it   *)
(* holds, across every suspension, every drain of the front and every      *)
(* change from a borrowed slice to the buffer.                             *)
(***************************************************************************)
StateInBounds == IF OneStep THEN Candidate!TypeOK ELSE TypeOK /\ InBounds

(***************************************************************************)
(* What is held is the window's.  A fold has claimed whole chunks, its     *)
(* sweep tracks what refolding the window would find, and its history is   *)
(* bounded by the window.  The candidate is the latest sample of the       *)
(* chunks pushed so far inside the lookup window, stale markers included:  *)
(* an ineligible chunk keeps an older pick, and an overlapping one cannot  *)
(* replace it.                                                             *)
(***************************************************************************)
HeldIsTheWindow ==
  IF OneStep THEN Candidate!CandidateIsLatest
  ELSE RowsClaimWhole /\ SweepIsTheWindow /\ HistoryIsAWindow
=============================================================================
