------------------------------ MODULE RowStream ------------------------------
(***************************************************************************)
(* What a stream of evaluated series promises its consumer: the rows come  *)
(* in their order, each once and never revised, in as many batches as it   *)
(* takes, until all are out or the stream stops early for an error or a    *)
(* cancelled query.                                                        *)
(***************************************************************************)
EXTENDS Naturals, Sequences

VARIABLES rows, delivered, ended

view == <<rows, delivered, ended>>

Init == delivered = <<>> /\ ended = "open"

Deliver ==
  /\ ended = "open"
  /\ \E n \in Len(delivered) + 1 .. Len(rows) : delivered' = SubSeq(rows, 1, n)
  /\ UNCHANGED <<rows, ended>>

Finish ==
  /\ ended = "open" /\ delivered = rows
  /\ ended' = "done"
  /\ UNCHANGED <<rows, delivered>>

Stop ==
  /\ ended = "open"
  /\ ended' \in {"failed", "dropped"}
  /\ UNCHANGED <<rows, delivered>>

Next == Deliver \/ Finish \/ Stop

Spec == Init /\ [][Next]_view /\ WF_view(Next)
=============================================================================
