---------------------------- MODULE SeriesAnswers ----------------------------
(***************************************************************************)
(* What one series answers on a grid: the samples its chunks leave once    *)
(* the first chunk has won every overlap, the window of each step, and     *)
(* what a kernel reads of a window (promql-engine/src/selector.rs and      *)
(* range.rs; the overlap rule is docs/series-source.md's, as buffer.rs     *)
(* applies it).                                                            *)
(*                                                                         *)
(* A sample is [t, v].  The floating-point folds are abstracted to what    *)
(* they read: an answer is the samples handed to the fold, and the samples *)
(* the fold adds or picks among them.                                      *)
(***************************************************************************)
EXTENDS StepGrid, Sequences, FiniteSets, SequencesExt

CONSTANTS Stale, NaN  \* the stale marker and any other NaN

ASSUME SampleAssumption == Stale \notin Int /\ NaN \notin Int /\ Stale # NaN

Sample == [t : Int, v : Int \cup {Stale, NaN}]

\* Samples within a chunk ascend by timestamp (docs/series-source.md); a time may repeat.
InTimeOrder(chunk) == \A j, k \in DOMAIN chunk : j < k => chunk[j].t <= chunk[k].t

\* Func, by how its value is computed: a refolded window (peek in constant
\* time), a counter's resets, a running extremum; and the instant selector.
Kernels == {"selector", "refold", "peek", "counter", "min", "max"}

Greater(a, b) == IF a > b THEN a ELSE b
Lesser(a, b) == IF a < b THEN a ELSE b

\* f64's <, which no NaN satisfies.
Less(a, b) == a # NaN /\ b # NaN /\ a < b

\* The first value loses to the second.
Beaten(kernel, a, b) == IF kernel = "max" THEN Less(a, b) ELSE Less(b, a)

\* The members of s at the given positions, in order.
At(s, ks) ==
  [n \in 1 .. Cardinality(ks) |->
     s[CHOOSE k \in ks : Cardinality({j \in ks : j < k}) = n - 1]]

Live(s) == At(s, {k \in DOMAIN s : s[k].v # Stale})

\* partition_point over ascending samples, from a position on.
Through(s, from, time) == from + Cardinality({k \in from + 1 .. Len(s) : s[k].t <= time})

\* raw_increase: the samples before a counter reset.
Resets(w) == At(w, {k \in 1 .. Len(w) - 1 : Less(w[k + 1].v, w[k].v)})

\* min_of and max_of: the first of equal values, the last of only NaNs.
Extreme(kernel, w) ==
  FoldLeft(LAMBDA best, s : IF best.v = NaN \/ Beaten(kernel, best.v, s.v) THEN s ELSE best,
           Head(w), Tail(w))

\* evaluate: what it adds or picks in a window, and the work it is charged.
Picks(kernel, w) ==
  CASE kernel = "counter"        -> Resets(w)
    [] kernel \in {"min", "max"} -> << Extreme(kernel, w) >>
    [] OTHER                     -> <<>>

Work(kernel, n) == IF kernel \in {"selector", "peek"} THEN 0 ELSE n

Answer(k, read, picked) == [step |-> k, read |-> read, picked |-> picked]

End(grid, k) == WindowEnd(grid, StepAt(grid, k))

-----------------------------------------------------------------------------
(***************************************************************************)
(* The answers, as Prometheus defines them, with every chunk at hand.      *)
(***************************************************************************)
\* The first chunk wins: a chunk's samples at or before the last timestamp
\* already seen are not read, stale markers claiming theirs.
Unseen(seen, chunk) ==
  At(chunk, {k \in DOMAIN chunk : seen = <<>> \/ chunk[k].t > Last(seen).t})

Merged(rows) == FoldLeft(LAMBDA seen, chunk : seen \o Unseen(seen, chunk), <<>>, rows)

StepWindow(grid, samples, k) ==
  At(samples, {n \in DOMAIN samples :
                 End(grid, k) - grid.window < samples[n].t /\ samples[n].t <= End(grid, k)})

\* vectorSelectorSingle: the latest sample, unless it is a stale marker.
\* matrixIterSlice: the window without its stale markers, unless it is empty.
AnswerAt(kernel, grid, samples, k) ==
  LET inside == StepWindow(grid, samples, k)
      read   == IF kernel # "selector" THEN Live(inside)
                ELSE IF inside = <<>> \/ Last(inside).v = Stale THEN <<>>
                ELSE << Last(inside) >>
  IN  IF read = <<>> THEN <<>> ELSE << Answer(k, read, Picks(kernel, read)) >>

Answers(kernel, grid, rows) ==
  LET samples == Merged(rows)
  IN  FlattenSeq([k \in 1 .. StepCount(grid) |-> AnswerAt(kernel, grid, samples, k - 1)])
=============================================================================
