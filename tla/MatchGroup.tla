----------------------------- MODULE MatchGroup -----------------------------
(***************************************************************************)
(* One match group of a binary operator between two vectors, by its        *)
(* definition: at each step every series of the one side meets every       *)
(* series of the other (promql-engine/src/binary.rs).  Pairing shows that  *)
(* the accumulator answers this, and a plan's execution relies on it.      *)
(*                                                                         *)
(* A query is the operator's class, its Matching and the rows of both      *)
(* sides, each with an id; a sample names the rows, or the fills, it is    *)
(* computed from.                                                          *)
(***************************************************************************)
EXTENDS Naturals, FiniteSets

CONSTANTS
  Schema, Name,  \* the label columns, and __name__ among them
  Empty,         \* the value of an absent label
  None           \* an Option's None

IsSet(query) == query.op \in {"and", "or", "unless"}
DropsMetricName(query) == query.op \in {"arithmetic", "bool"}
OneSide(query) == IF query.card = "one_to_many" THEN "lhs" ELSE "rhs"
ManySide(query) == IF OneSide(query) = "lhs" THEN "rhs" ELSE "lhs"

Duplicate == "found duplicate series for the match group"
Multiple == "many-to-one matching must be explicit"
NotUnique == "grouping labels must ensure unique matches"

-----------------------------------------------------------------------------
(***************************************************************************)
(* Labels.                                                                 *)
(***************************************************************************)
InSignature(query, name) ==
  IF query.on THEN name \in query.labels ELSE name # Name /\ name \notin query.labels

SignatureOf(query, labels) ==
  [n \in Schema |-> IF InSignature(query, n) THEN labels[n] ELSE Empty]

ResultLabels(query, base, one) ==
  IF IsSet(query) THEN base
  ELSE [n \in Schema |->
          IF n \in query.include THEN one[n]
          ELSE IF \/ n = Name /\ DropsMetricName(query)
                  \/ query.card = "one_to_one" /\ query.on # (n \in query.labels)
               THEN Empty
          ELSE base[n]]

-----------------------------------------------------------------------------
(***************************************************************************)
(* The samples of a step, or the error it ends the query with.             *)
(***************************************************************************)
At(query, side, t) == {r \in query.rows : r.side = side /\ t \in r.steps}

Sample(query, labels, t, one, many) ==
  [labels |-> labels, step |-> t, lhs |-> IF OneSide(query) = "lhs" THEN one ELSE many,
   rhs |-> IF OneSide(query) = "lhs" THEN many ELSE one]

Matches(query, t) ==
  LET ones == At(query, OneSide(query), t)
      manys == At(query, ManySide(query), t)
      paired(base, labels, one, many) ==
        Sample(query, ResultLabels(query, base, labels), t, one, many)
  IN  IF ones = {} /\ query.fillRhs # None
      THEN {paired(m.labels, SignatureOf(query, m.labels), query.fillRhs, m.id) : m \in manys}
      ELSE IF manys = {} /\ query.fillLhs # None
      THEN {paired(SignatureOf(query, o.labels), o.labels, o.id, query.fillLhs) : o \in ones}
      ELSE {paired(m.labels, o.labels, o.id, m.id) : o \in ones, m \in manys}

ExpectedPairs(query, t) ==
  LET matches == Matches(query, t)
      checked == \/ At(query, ManySide(query), t) # {}
                 \/ query.fillLhs # None \/ query.fillRhs # None
  IN  [samples |-> matches,
       error |-> IF checked /\ Cardinality(At(query, OneSide(query), t)) > 1 THEN Duplicate
                 ELSE IF query.card = "one_to_one" /\ Cardinality(matches) > 1 THEN Multiple
                 ELSE IF \E a, b \in matches : a # b /\ a.labels = b.labels THEN NotUnique
                 ELSE None]

ExpectedSet(query, t) ==
  LET lhs == At(query, "lhs", t)
      rhs == At(query, "rhs", t)
      kept == CASE query.op = "and" -> IF rhs # {} THEN lhs ELSE {}
                [] query.op = "unless" -> IF rhs = {} THEN lhs ELSE {}
                [] query.op = "or" -> IF lhs # {} THEN lhs ELSE rhs
  IN  [error |-> None,
       samples |-> {[labels |-> r.labels, step |-> t, lhs |-> r.id, rhs |-> None] : r \in kept}]

Expected(query, t) == IF IsSet(query) THEN ExpectedSet(query, t) ELSE ExpectedPairs(query, t)
=============================================================================
