--------------------------- MODULE OrderedAnswers ---------------------------
(***************************************************************************)
(* What the fold of one series promises whoever drives it: its answers     *)
(* come out one at a time, in step order, none of them ever revised by a   *)
(* chunk that arrives later, and it closes with all of them out.           *)
(***************************************************************************)
EXTENDS Naturals, Sequences

VARIABLES answers, out, closed

view == <<answers, out, closed>>

Init == out = <<>> /\ closed = FALSE

Emit ==
  /\ ~closed /\ Len(out) < Len(answers)
  /\ out' = Append(out, answers[Len(out) + 1])
  /\ UNCHANGED <<answers, closed>>

\* close emits whatever is left.
Finish ==
  /\ ~closed
  /\ closed' = TRUE /\ out' = answers
  /\ UNCHANGED answers

Next == Emit \/ Finish

Spec == Init /\ [][Next]_view /\ WF_view(Next)
=============================================================================
