------------------------------ MODULE MCPairing ------------------------------
(* One match group over two steps: every operator and cardinality, rows of  *)
(* one series in two blocks, one-side series that take turns, and gaps.     *)
EXTENDS Pairing

CONSTANTS P1, P2

MCPartials == {P1, P2}
MCSchema == {"__name__", "job", "inst"}

L(name, inst) == ("__name__" :> name) @@ ("job" :> "j") @@ ("inst" :> inst)
R(id, side, labels, steps) == [id |-> id, side |-> side, labels |-> labels, steps |-> steps]

Query(op, card, on, labels, include) ==
  [op |-> op, card |-> card, on |-> on, labels |-> labels, include |-> include,
   fillLhs |-> None, fillRhs |-> None, steps |-> 2]

Queries ==
  {Query(op, "one_to_one", TRUE, {"job"}, {}) : op \in Ops}
    \cup {Query(op, card, FALSE, {"inst"}, include) :
            op \in {"arithmetic", "filter"}, card \in {"many_to_one", "one_to_many"},
            include \in {{}, {"inst"}}}

Filled ==
  Queries \cup {[q EXCEPT !.fillLhs = l, !.fillRhs = r] :
                  q \in {x \in Queries : x.op = "arithmetic"},
                  l \in {None, 8}, r \in {None, 9}}

\* No two rows of a side have the same labels at the same step.
Rows ==
  {{R(1, "lhs", L("x", "1"), {0}), R(2, "lhs", L("x", "1"), {1}),
    R(3, "rhs", L("y", "2"), s), R(4, "rhs", L("y", "3"), u)} :
      s \in {{0}, {0, 1}}, u \in {{1}}}
  \cup {{R(1, "lhs", L("x", "1"), {0, 1}), R(2, "lhs", L("z", "1"), s),
         R(3, "rhs", L("y", "1"), u)} : s \in {{}, {0}, {1}}, u \in {{1}, {0, 1}}}
  \cup {{R(1, "lhs", L("x", "1"), {0}), R(2, "lhs", L("x", "2"), s),
         R(3, "rhs", L("x", "1"), {0, 1}), R(4, "rhs", L("x", "2"), u)} :
           s \in {{0}, {1}}, u \in {{1}}}

Case(q, rows, single) ==
  [op |-> q.op, card |-> q.card, on |-> q.on, labels |-> q.labels, include |-> q.include,
   fillLhs |-> q.fillLhs, fillRhs |-> q.fillRhs, steps |-> q.steps, rows |-> rows,
   single |-> single]

MCScenarios == {Case(q, rows, single) : q \in Filled, rows \in Rows, single \in BOOLEAN}
=============================================================================
