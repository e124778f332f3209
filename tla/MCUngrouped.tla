---------------------------- MODULE MCUngrouped ----------------------------
(***************************************************************************)
(* Three steps, three rows with values at any of them, own NaNs included,  *)
(* two partials; and selectors of up to three matchers over two names.     *)
(***************************************************************************)
EXTENDS Ungrouped

\* A row's values, where the third step is reached by the third row alone.
RowValues == UNION {[steps -> {7, NaN}] : steps \in SUBSET {1, 2}}

Rows(a, b) == {[id |-> 1, values |-> a], [id |-> 2, values |-> b],
               [id |-> 3, values |-> (2 :> 8 @@ 3 :> 9)]}

Query(kind, rows, matchers, single) ==
  [kind |-> kind, rows |-> rows, matchers |-> matchers, single |-> single]

Matchers == {[name |-> name, op |-> op, value |-> value] :
               name \in {MetricName, "job", "env"}, op \in {"=", "=~"}, value \in {1, 2}}

MCQueries ==
  {Query(kind, Rows(a, b), <<>>, single) :
     kind \in {"absent", "scalar"}, a, b \in RowValues, single \in BOOLEAN}
  \cup {Query("absent", {}, <<>>, single) : single \in BOOLEAN}
  \cup {Query("scalar", {}, <<>>, single) : single \in BOOLEAN}
  \cup {Query("absent", {}, <<a, b, c>>, FALSE) : a, b, c \in Matchers}
=============================================================================
