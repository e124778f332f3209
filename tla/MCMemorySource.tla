--------------------------- MODULE MCMemorySource ---------------------------
(***************************************************************************)
(* MemorySource on small stores: two series over eight instants, grids     *)
(* with every sign of offset and with @, block widths below, at and above  *)
(* the step, chunks of one sample and of several.                          *)
(***************************************************************************)
EXTENDS MemorySource

MCIntMin == -64

MCStores ==
  {<<a, b>> : a \in {{0, 1, 2, 3}, {-2, 1, 4}, {-4}}, b \in {{}, {-1, 2, 3}}}

Grid(s, e, d, w, o, a) ==
  [start |-> s, end |-> e, step |-> d, window |-> w, offset |-> o, at |-> a]

MCQueries ==
  {Grid(s, s + n, d, w, o, a) :
     s \in {-1, 0}, n \in {0, 4}, d \in {1, 3}, w \in {1, 3}, o \in {-1, 0, 2},
     a \in {NoAt, 1}}

MCLayouts ==
  {[blockMs |-> b, chunkMs |-> c, partitions |-> n, rowsPerBatch |-> r, hash |-> <<4, 7>>] :
     b \in {NoWidth, 1, 2, 5}, c \in {NoWidth, 0, 1}, n \in {1, 2}, r \in {1, 2}}
=============================================================================
