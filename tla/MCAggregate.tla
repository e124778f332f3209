---------------------------- MODULE MCAggregate ----------------------------
(* Two partials over a four-step and a one-step grid, and malformed rows    *)
(* beside the end of time.                                                  *)
EXTENDS Aggregate

CONSTANTS P1, P2

MCPartials == {P1, P2}
MCIntMin == -8
MCIntMax == 7

Row(id, key, times) == [id |-> id, key |-> key, times |-> times, skipped |-> FALSE]
Skipped(id, key, times) == [Row(id, key, times) EXCEPT !.skipped = TRUE]

Grid(start, step, len) == [start |-> start, step |-> step, len |-> len]

\* Two keys whose rows reach each other's steps from the right and the left.
Spread ==
  {[grid |-> Grid(0, 2, 4),
    input |-> (P1 :> << <<Row(1, 1, a), Row(2, 2, b)>>, <<Row(3, 1, c)>> >>
            @@ P2 :> << <<Row(4, 2, <<0>>), Skipped(5, 1, <<2>>)>>, <<Row(6, 1, <<2, 4>>)>> >>)] :
     a \in {<<4>>, <<2, 6>>}, b \in {<<2, 4>>, <<>>}, c \in {<<0, 2, 4, 6>>, <<0, 6>>}}

OneStep ==
  {[grid |-> Grid(4, 2, 1),
    input |-> (P1 :> << <<Row(1, 1, <<4>>), Row(2, 2, b)>>, <<Row(3, 3, <<4>>)>> >>
            @@ P2 :> << <<Skipped(5, 1, <<4>>), Row(4, 2, <<4>>)>>, <<Row(6, 1, <<4>>)>> >>)] :
     b \in {<<4>>, <<>>}}

\* Rows that come earlier and earlier.
Descending ==
  {[grid |-> Grid(0, 1, 8),
    input |-> (P1 :> <<[n \in 1 .. 8 \div by |-> Row(n, 1, <<8 - n * by>>)]>> @@ P2 :> <<>>)] :
     by \in {1, 2, 3}}

\* Any short list of times, on and off a grid that ends at the end of time.
Malformed ==
  {[grid |-> g,
    input |-> (P1 :> << <<Row(1, 1, <<g.start>>)>>, <<Row(2, 1, times)>> >> @@ P2 :> <<>>)] :
     g \in {Grid(3, 2, 3), Grid(-8, 3, 3), Grid(3, 2, 1)},
     times \in UNION {[1 .. n -> {-8, -5, -4, -2, 3, 5, 7}] : n \in 1 .. 3}}

MCScenarios == Spread \cup OneStep \cup Descending \cup Malformed
=============================================================================
