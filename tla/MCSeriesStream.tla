--------------------------- MODULE MCSeriesStream ---------------------------
(***************************************************************************)
(* SeriesStream on every source of up to three raw rows of a small set, cut *)
(* into two batches anywhere: several chunks of a series, an identity that *)
(* returns in a later block, rows without samples, rows whose work or      *)
(* answers exceed a budget, and empty batches.                             *)
(***************************************************************************)
EXTENDS SeriesStream

R(b, i, w, y) == [block |-> b, id |-> i, work |-> w, yields |-> y]

MCRows == {R(0, 1, 1, 1), R(0, 1, 3, 0), R(0, 2, 0, 0), R(1, 1, 1, 1), R(1, 2, 2, 3)}

\* Blocks ascend, and an identity's rows of one block are together.
Ordered(raw) ==
  \A i, j \in DOMAIN raw : i < j =>
    /\ raw[i].block <= raw[j].block
    /\ raw[i].block = raw[j].block /\ raw[i].id = raw[j].id =>
         \A k \in i .. j : raw[k].id = raw[i].id

MCRaw ==
  UNION {{raw \in [1 .. n -> MCRows] : Ordered(raw)} : n \in 0 .. 3}

Split(raw, k) ==
  << SubSeq(raw, 1, Lesser(k, Len(raw))), SubSeq(raw, Lesser(k, Len(raw)) + 1, Len(raw)) >>

MCInputs ==
  {[batches |-> Split(raw, k), fails |-> f, batchSize |-> n] :
     raw \in MCRaw, k \in {0, 2}, f \in BOOLEAN, n \in {1, 3}}
=============================================================================
