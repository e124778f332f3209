--------------------------- MODULE MCSeriesState ---------------------------
(***************************************************************************)
(* SeriesState on short series.  Windows: chunks that overlap, repeat a    *)
(* time, end in a stale marker or run past the grid, an allowance of two   *)
(* samples, and budgets small enough to run out between any two turns.     *)
(* Candidates: every way to deal three chunks of a few samples around the  *)
(* lookup window, before it, at its open start, inside, at its end and     *)
(* past it, with stale markers and overlaps.                               *)
(***************************************************************************)
EXTENDS SeriesState

MCIntMin == -64

S(t, v) == [t |-> t, v |-> v]

Ticks(from, vs) == [k \in DOMAIN vs |-> S(from + k, vs[k])]

MCRows ==
  {<< Ticks(0, <<1, 2, 1, 3, 3, 2, 4, 1, 1, 0, 2, 5>>) >>,
   << Ticks(0, <<3, 2, 2>>), Ticks(1, <<9, Stale, 1, 0>>), Ticks(6, <<NaN, 1>>) >>,
   << <<S(1, 2), S(3, 1), S(3, 5), S(3, 0), S(4, NaN)>>, <<>>, <<S(4, 7), S(5, 1), S(9, 2)>> >>,
   << <<S(2, Stale)>>, <<S(2, 1), S(7, Stale)>>, <<S(3, 1), S(8, 1)>> >>}

Grid(s, n, d, w, o, a) ==
  [start |-> s, end |-> s + n * d, step |-> d, window |-> w, offset |-> o, at |-> a]

MCGrids ==
  {Grid(2, 3, 2, 3, 0, NoAt), Grid(1, 8, 1, 2, -1, NoAt), Grid(3, 1, 4, 2, 1, NoAt),
   Grid(2, 1, 1, 3, 0, 4), EmptyGrid(Grid(2, 3, 2, 3, 0, NoAt))}

MCInputs ==
  {[kernel |-> k, grid |-> g, rows |-> r, units |-> u] :
     k \in Kernels, g \in MCGrids, r \in MCRows, u \in {1, 2, 15}}

MCChunks ==
  {<<>>, <<S(1, 1)>>, <<S(2, 1), S(3, 2)>>, <<S(3, Stale)>>, <<S(4, 3), S(6, Stale)>>,
   <<S(1, 4), S(4, NaN), S(5, 5)>>, <<S(5, 6), S(5, 7)>>, <<S(6, 8), S(7, 9)>>}

\* Chunks ascend by first timestamp.
Ordered(cs) ==
  \A i, j \in DOMAIN cs : i < j /\ cs[i] # <<>> /\ cs[j] # <<>> =>
    Head(cs[i]).t <= Head(cs[j]).t

MCChunked == {cs \in [1 .. 3 -> MCChunks] : Ordered(cs)}

MCOneStepGrids == {Grid(5, 0, 1, 3, 0, NoAt), Grid(4, 0, 1, 2, -1, NoAt), Grid(7, 0, 1, 4, 2, 6)}

MCOneStepInputs ==
  {[kernel |-> "selector", grid |-> g, rows |-> r, units |-> u] :
     g \in MCOneStepGrids, r \in MCChunked, u \in {1, 2}}
=============================================================================
