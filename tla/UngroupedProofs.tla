-------------------------- MODULE UngroupedProofs --------------------------
(***************************************************************************)
(* absent and scalar answer the rows of their input, for every input,      *)
(* every number of partial accumulators and every way to split, order and  *)
(* merge.                                                                  *)
(*                                                                         *)
(* The invariant says of which rows each place speaks: the rows given are  *)
(* dealt out over the accumulators, the states under way and the final     *)
(* aggregate, each row to one place, and what a place holds is what its    *)
(* rows say together.                                                      *)
(***************************************************************************)
EXTENDS Ungrouped, SequenceFacts, FiniteSetTheorems

-----------------------------------------------------------------------------
(***************************************************************************)
(* What some rows say together.                                            *)
(***************************************************************************)
\* The rows of G that reach step t.
Reaching(G, t) == {row \in G : t \in DOMAIN row.values}

Single(T) == \E row \in T : T = {row}

Value(T, t) == (CHOOSE row \in T : TRUE).values[t]

Held(kind, G) ==
  [t \in Steps |->
     IF Reaching(G, t) = {} THEN None
     ELSE IF kind = "absent" THEN 1
     ELSE IF Single(Reaching(G, t)) THEN Value(Reaching(G, t), t) ELSE NaN]

\* The list has samples where the rows of G do, and under scalar says what they do.
Says(list, kind, G) ==
  \A t \in Steps :
    /\ t \in DOMAIN list <=> Reaching(G, t) # {}
    /\ t \in DOMAIN list /\ kind # "absent" => list[t] = Held(kind, G)[t]

\* Rows as QueriesAssumption has them.
Valued(G) == \A row \in G : \A t \in DOMAIN row.values : t \in Steps /\ row.values[t] \in Nat \cup {NaN}

\* A step is held by no row exactly where none reached it.
LEMMA HeldReached ==
  ASSUME NEW G, Valued(G), NEW kind, NEW t \in Steps
  PROVE  Held(kind, G)[t] = None <=> Reaching(G, t) = {}
<1>1. None # NaN /\ None \notin Nat
  BY MarksAssumption
<1>2. CASE Reaching(G, t) = {}
  BY <1>2 DEF Held
<1>3. CASE Reaching(G, t) # {} /\ kind = "absent"
  <2>1. Held(kind, G)[t] = 1
    BY <1>3 DEF Held
  <2> QED BY <1>1, <1>3, <2>1
<1>4. CASE Reaching(G, t) # {} /\ kind # "absent" /\ ~Single(Reaching(G, t))
  <2>1. Held(kind, G)[t] = NaN
    BY <1>4 DEF Held
  <2> QED BY <1>1, <1>4, <2>1
<1>5. CASE Reaching(G, t) # {} /\ kind # "absent" /\ Single(Reaching(G, t))
  <2>1. Held(kind, G)[t] = Value(Reaching(G, t), t)
    BY <1>5 DEF Held
  <2>2. (CHOOSE row \in Reaching(G, t) : TRUE) \in Reaching(G, t)
    BY <1>5
  <2>3. Value(Reaching(G, t), t) \in Nat \cup {NaN}
    BY <2>2 DEF Value, Valued, Reaching
  <2> QED BY <1>1, <1>5, <2>1, <2>3
<1> QED BY <1>2, <1>3, <1>4, <1>5

\* Nothing is said by no rows.
LEMMA NoneHeld ==
  ASSUME NEW kind
  PROVE  Held(kind, {}) = Empty
BY DEF Held, Empty, Reaching

\* Where rows hold nothing, none of them reaches a step.
LEMMA EmptyHeld ==
  ASSUME NEW G, Valued(G), NEW kind, Held(kind, G) = Empty
  PROVE  \A t : Reaching(G, t) = {}
<1> TAKE t
<1>1. CASE t \in Steps
  <2>1. Held(kind, G)[t] = None
    BY <1>1 DEF Empty
  <2> QED BY <1>1, <2>1, HeldReached
<1>2. CASE t \notin Steps
  BY <1>2 DEF Reaching, Valued
<1> QED BY <1>1, <1>2

\* A list folded into what other rows said says what all of them do: one row of each
\* side at a step are several.
LEMMA FoldIsUnion ==
  ASSUME NEW F, NEW B, F \cap B = {}, Valued(F), NEW list, Says(list, query.kind, B)
  PROVE  Fold(Held(query.kind, F), list) = Held(query.kind, F \cup B)
<1> DEFINE kind == query.kind
           said == Held(kind, F)
           both == Held(kind, F \cup B)
<1>0. \A t : Reaching(F \cup B, t) = Reaching(F, t) \cup Reaching(B, t)
  BY DEF Reaching
<1>1. \A t \in Steps : said[t] = None <=> Reaching(F, t) = {}
  BY HeldReached
<1>2. ASSUME NEW t \in Steps
      PROVE  Fold(said, list)[t] = both[t]
  <2>1. Fold(said, list)[t] =
          IF t \notin DOMAIN list THEN said[t]
          ELSE IF kind = "absent" THEN 1
          ELSE IF said[t] = None THEN list[t] ELSE NaN
    BY DEF Fold
  <2>2. t \in DOMAIN list <=> Reaching(B, t) # {}
    BY DEF Says
  <2>3. CASE t \notin DOMAIN list
    <3>1. Reaching(F \cup B, t) = Reaching(F, t)
      BY <1>0, <2>2, <2>3
    <3>2. both[t] = said[t]
      BY <3>1 DEF Held
    <3> QED BY <2>1, <2>3, <3>2
  <2>4. CASE t \in DOMAIN list /\ kind = "absent"
    <3>1. Reaching(F \cup B, t) # {}
      BY <1>0, <2>2, <2>4
    <3>2. both[t] = 1
      BY <2>4, <3>1 DEF Held
    <3> QED BY <2>1, <2>4, <3>2
  <2>5. CASE t \in DOMAIN list /\ kind # "absent" /\ said[t] = None
    <3>1. Reaching(F \cup B, t) = Reaching(B, t)
      BY <1>0, <1>1, <2>5
    <3>2. both[t] = Held(kind, B)[t]
      BY <3>1 DEF Held
    <3>3. list[t] = Held(kind, B)[t]
      BY <2>5 DEF Says
    <3> QED BY <2>1, <2>5, <3>2, <3>3
  <2>6. CASE t \in DOMAIN list /\ kind # "absent" /\ said[t] # None
    <3>1. Reaching(F, t) # {} /\ Reaching(B, t) # {}
      BY <1>1, <2>2, <2>6
    <3>2. Reaching(F, t) \cap Reaching(B, t) = {}
      BY DEF Reaching
    <3>3. Reaching(F \cup B, t) # {} /\ ~Single(Reaching(F \cup B, t))
      BY <1>0, <3>1, <3>2 DEF Single
    <3>4. both[t] = NaN
      BY <2>6, <3>3 DEF Held
    <3> QED BY <2>1, <2>6, <3>4
  <2> QED BY <2>3, <2>4, <2>5, <2>6
<1>3. Fold(said, list) = [t \in Steps |-> Fold(said, list)[t]]
  BY DEF Fold
<1>4. both = [t \in Steps |-> both[t]]
  BY DEF Held
<1> HIDE DEF said, both
<1>5. Fold(said, list) = both
  BY <1>2, <1>3, <1>4
<1> QED BY <1>5 DEF said, both

\* The samples of a row say what it does.
LEMMA RowSays ==
  ASSUME NEW row, Valued({row}), NEW kind
  PROVE  Says(row.values, kind, {row})
<1> SUFFICES ASSUME NEW t \in Steps
             PROVE  /\ t \in DOMAIN row.values <=> Reaching({row}, t) # {}
                    /\ t \in DOMAIN row.values /\ kind # "absent" =>
                         row.values[t] = Held(kind, {row})[t]
  BY DEF Says
<1>1. CASE t \in DOMAIN row.values
  <2>1. Reaching({row}, t) = {row}
    BY <1>1 DEF Reaching
  <2>2. Single({row}) /\ Value({row}, t) = row.values[t]
    BY DEF Single, Value
  <2>3. kind # "absent" => Held(kind, {row})[t] = row.values[t]
    BY <2>1, <2>2 DEF Held
  <2> QED BY <1>1, <2>1, <2>3
<1>2. CASE t \notin DOMAIN row.values
  BY <1>2 DEF Reaching
<1> QED BY <1>1, <1>2

\* So does a state, of the rows of its accumulator.
LEMMA StateSays ==
  ASSUME NEW G, Valued(G), NEW kind
  PROVE  Says(List(Held(kind, G), Reached(Held(kind, G))), kind, G)
<1> DEFINE said == Held(kind, G)
<1>1. \A t \in Steps : said[t] = None <=> Reaching(G, t) = {}
  BY HeldReached
<1> HIDE DEF said
<1>2. \A t \in Steps :
        /\ t \in DOMAIN List(said, Reached(said)) <=> Reaching(G, t) # {}
        /\ t \in DOMAIN List(said, Reached(said)) => List(said, Reached(said))[t] = said[t]
  BY <1>1 DEF List, Reached
<1> QED BY <1>2 DEF Says, said

-----------------------------------------------------------------------------
(***************************************************************************)
(* The rows given, dealt out over the places they can be at.               *)
(***************************************************************************)
AtFinal == <<"final", 0>>
AtPartial(p) == <<"partial", p>>
AtSent(n) == <<"sent", n>>

Places == {AtFinal} \cup {AtPartial(p) : p \in Partials} \cup {AtSent(n) : n \in DOMAIN sent}

\* The rows at a place.
Rows(own, place) == {row \in given : own[row] = place}

Dealt(own) ==
  /\ own \in [given -> Places]
  /\ final = Held(query.kind, Rows(own, AtFinal))
  /\ acc = [p \in Partials |-> Held(query.kind, Rows(own, AtPartial(p)))]
  /\ \A n \in DOMAIN sent : Says(sent[n], query.kind, Rows(own, AtSent(n)))

Shape ==
  /\ query \in Queries /\ given \subseteq query.rows
  /\ \E S : sent \in Seq(S)

IInv == Shape /\ (\E own : Dealt(own)) /\ AnswersTheInput

\* Rows of the query have steps of the grid, and numbers.
LEMMA RowsValued ==
  ASSUME Shape, NEW G, G \subseteq query.rows
  PROVE  Valued(G)
BY QueriesAssumption DEF Shape, Valued

\* The places differ.
LEMMA PlacesApart ==
  ASSUME NEW n, NEW m, NEW p, NEW q
  PROVE  /\ AtFinal # AtPartial(p) /\ AtFinal # AtSent(n) /\ AtPartial(p) # AtSent(n)
         /\ AtSent(n) = AtSent(m) => n = m
         /\ AtPartial(p) = AtPartial(q) => p = q
BY DEF AtFinal, AtPartial, AtSent

\* Init: no row is anywhere.
LEMMA InitDealt == Init => IInv
<1> SUFFICES ASSUME Init PROVE IInv
  OBVIOUS
<1> DEFINE own == [row \in {} |-> AtFinal]
<1>1. given = {} /\ sent = <<>> /\ answer = None /\ final = Empty
      /\ acc = [p \in Partials |-> Empty] /\ query \in Queries
  BY DEF Init
<1>2. Shape
  <2>1. sent \in Seq({})
    BY <1>1
  <2> QED BY <1>1, <2>1 DEF Shape
<1>3. Dealt(own)
  <2>1. own \in [given -> Places]
    BY <1>1
  <2>2. \A place : Rows(own, place) = {}
    BY <1>1 DEF Rows
  <2>3. DOMAIN sent = {}
    BY <1>1
  <2> HIDE DEF own
  <2>4. final = Held(query.kind, Rows(own, AtFinal))
    BY <1>1, <2>2, NoneHeld
  <2>5. acc = [p \in Partials |-> Held(query.kind, Rows(own, AtPartial(p)))]
    BY <1>1, <2>2, NoneHeld
  <2> QED BY <2>1, <2>3, <2>4, <2>5 DEF Dealt
<1>4. AnswersTheInput
  BY <1>1 DEF AnswersTheInput, LabelsOfTheSelector
<1> QED BY <1>2, <1>3, <1>4 DEF IInv

\* A row more reaches one partial.
LEMMA UpdateDeals ==
  ASSUME Shape, NEW own, Dealt(own), NEW p \in Partials, NEW row, Update(p, row)
  PROVE  Shape' /\ \E new : Dealt(new)'
<1> DEFINE kind == query.kind
<1>0. PICK new : new = [r \in given \cup {row} |-> IF r = row THEN AtPartial(p) ELSE own[r]]
  OBVIOUS
<1>1. /\ row \in query.rows /\ row \notin given /\ given' = given \cup {row}
      /\ acc' = [acc EXCEPT ![p] = Fold(@, row.values)]
      /\ query' = query /\ sent' = sent /\ final' = final
  BY DEF Update
<1>2. Shape'
  BY <1>1 DEF Shape
<1>3. \A place : {r \in given' : new[r] = place} =
                   Rows(own, place) \cup (IF place = AtPartial(p) THEN {row} ELSE {})
  BY <1>0, <1>1 DEF Rows
<1>4. new \in [given' -> Places']
  <2>1. Places' = Places /\ AtPartial(p) \in Places
    BY <1>1 DEF Places
  <2> QED BY <1>0, <1>1, <2>1 DEF Dealt
<1> DEFINE G(place) == {r \in given' : new[r] = place}
<1>5. /\ G(AtFinal) = Rows(own, AtFinal)
      /\ G(AtPartial(p)) = Rows(own, AtPartial(p)) \cup {row}
      /\ \A q : q # p => G(AtPartial(q)) = Rows(own, AtPartial(q))
      /\ \A n : G(AtSent(n)) = Rows(own, AtSent(n))
  BY <1>3, PlacesApart
<1>6. Fold(Held(kind, Rows(own, AtPartial(p))), row.values) = Held(kind, G(AtPartial(p)))
  <2>1. Rows(own, AtPartial(p)) \cap {row} = {}
    BY <1>1 DEF Rows
  <2>2. Valued(Rows(own, AtPartial(p))) /\ Valued({row})
    <3>1. Rows(own, AtPartial(p)) \subseteq query.rows /\ {row} \subseteq query.rows
      BY <1>1 DEF Rows, Shape
    <3> QED BY <3>1, RowsValued
  <2>3. Says(row.values, query.kind, {row})
    BY <2>2, RowSays
  <2> QED BY <1>5, <2>1, <2>2, <2>3, FoldIsUnion
<1>7. acc' = [q \in Partials |-> Held(kind, G(AtPartial(q)))]
  <2>1. acc = [q \in Partials |-> Held(kind, Rows(own, AtPartial(q)))]
    BY DEF Dealt
  <2>2. \A q \in Partials : acc'[q] = Held(kind, G(AtPartial(q)))
    <3> TAKE q \in Partials
    <3>1. CASE q = p
      BY <1>1, <1>6, <2>1, <3>1
    <3>2. CASE q # p
      BY <1>1, <1>5, <2>1, <3>2
    <3> QED BY <3>1, <3>2
  <2>3. acc' = [q \in Partials |-> acc'[q]]
    BY <1>1, <2>1
  <2> DEFINE said(q) == Held(kind, G(AtPartial(q)))
  <2>4. \A q \in Partials : acc'[q] = said(q)
    BY <2>2
  <2> HIDE DEF said
  <2>5. acc' = [q \in Partials |-> said(q)]
    BY <2>3, <2>4
  <2> QED BY <2>5 DEF said
<1>8. \A n \in DOMAIN sent' : Says(sent'[n], kind, G(AtSent(n)))
  <2>1. \A n \in DOMAIN sent : Says(sent[n], kind, Rows(own, AtSent(n)))
    BY DEF Dealt
  <2>2. sent' = sent /\ \A n : G(AtSent(n)) = Rows(own, AtSent(n))
    BY <1>1, <1>5
  <2> HIDE DEF G
  <2> QED BY <2>1, <2>2
<1>9. final' = Held(kind, G(AtFinal))
  BY <1>1, <1>5 DEF Dealt
<1>10. Dealt(new)'
  BY <1>1, <1>4, <1>7, <1>8, <1>9 DEF Dealt, Rows
<1> QED BY <1>2, <1>10

\* A row more reaches the aggregate that is not split.
LEMMA UpdateSingleDeals ==
  ASSUME Shape, NEW own, Dealt(own), NEW row, UpdateSingle(row)
  PROVE  Shape' /\ \E new : Dealt(new)'
<1> DEFINE kind == query.kind
<1>0. PICK new : new = [r \in given \cup {row} |-> IF r = row THEN AtFinal ELSE own[r]]
  OBVIOUS
<1>1. /\ row \in query.rows /\ row \notin given /\ given' = given \cup {row}
      /\ final' = Fold(final, row.values)
      /\ query' = query /\ sent' = sent /\ acc' = acc
  BY DEF UpdateSingle
<1>2. Shape'
  BY <1>1 DEF Shape
<1> DEFINE G(place) == {r \in given' : new[r] = place}
<1>3. \A place : G(place) = Rows(own, place) \cup (IF place = AtFinal THEN {row} ELSE {})
  BY <1>0, <1>1 DEF Rows
<1>4. new \in [given' -> Places']
  <2>1. Places' = Places /\ AtFinal \in Places
    BY <1>1 DEF Places
  <2> QED BY <1>0, <1>1, <2>1 DEF Dealt
<1>5. /\ G(AtFinal) = Rows(own, AtFinal) \cup {row}
      /\ \A q : G(AtPartial(q)) = Rows(own, AtPartial(q))
      /\ \A n : G(AtSent(n)) = Rows(own, AtSent(n))
  BY <1>3, PlacesApart
<1>6. Fold(Held(kind, Rows(own, AtFinal)), row.values) = Held(kind, G(AtFinal))
  <2>1. Rows(own, AtFinal) \cap {row} = {}
    BY <1>1 DEF Rows
  <2>2. Valued(Rows(own, AtFinal)) /\ Valued({row})
    <3>1. Rows(own, AtFinal) \subseteq query.rows /\ {row} \subseteq query.rows
      BY <1>1 DEF Rows, Shape
    <3> QED BY <3>1, RowsValued
  <2>3. Says(row.values, query.kind, {row})
    BY <2>2, RowSays
  <2> QED BY <1>5, <2>1, <2>2, <2>3, FoldIsUnion
<1>7. acc' = [q \in Partials |-> Held(kind, G(AtPartial(q)))]
  BY <1>1, <1>5 DEF Dealt
<1>8. \A n \in DOMAIN sent' : Says(sent'[n], kind, G(AtSent(n)))
  <2>1. \A n \in DOMAIN sent : Says(sent[n], kind, Rows(own, AtSent(n)))
    BY DEF Dealt
  <2>2. sent' = sent /\ \A n : G(AtSent(n)) = Rows(own, AtSent(n))
    BY <1>1, <1>5
  <2> HIDE DEF G
  <2> QED BY <2>1, <2>2
<1>9. final' = Held(kind, G(AtFinal))
  BY <1>1, <1>6 DEF Dealt
<1>10. Dealt(new)'
  BY <1>1, <1>4, <1>7, <1>8, <1>9 DEF Dealt, Rows
<1> QED BY <1>2, <1>10

\* An accumulator's rows leave it with its state, behind the states under way.
LEMMA StateDeals ==
  ASSUME Shape, NEW own, Dealt(own), NEW p \in Partials, State(p)
  PROVE  Shape' /\ \E new : Dealt(new)'
<1> DEFINE kind == query.kind
           more == Len(sent) + 1
           list == List(acc[p], Reached(acc[p]))
<1>0. PICK new : new = [r \in given |-> IF own[r] = AtPartial(p) THEN AtSent(more) ELSE own[r]]
  OBVIOUS
<1>1. /\ given' = given /\ final' = final /\ query' = query
      /\ acc' = [acc EXCEPT ![p] = Empty] /\ sent' = Append(sent, list)
  BY DEF State
<1>2. PICK S : sent \in Seq(S)
  BY DEF Shape
<1>3. /\ Len(sent) \in Nat /\ DOMAIN sent = 1 .. Len(sent) /\ DOMAIN sent' = 1 .. more
      /\ sent'[more] = list /\ \A n \in DOMAIN sent : sent'[n] = sent[n]
  <2> HIDE DEF list
  <2> QED BY <1>1, <1>2
<1>4. Shape'
  <2>1. sent \in Seq(S \cup {list}) /\ list \in S \cup {list}
    BY <1>2
  <2>2. sent' \in Seq(S \cup {list})
    <3> HIDE DEF list
    <3> QED BY <1>1, <2>1
  <2> QED BY <1>1, <2>2 DEF Shape
<1>5. \A r \in given : own[r] # AtSent(more)
  <2>1. more \notin DOMAIN sent
    BY <1>3
  <2>2. AtSent(more) \notin Places
    BY <2>1, PlacesApart DEF Places
  <2> QED BY <2>2 DEF Dealt
<1> HIDE DEF list, more
<1>6. new \in [given' -> Places']
  <2>1. \A place \in Places : place \in Places'
    BY <1>3 DEF Places, more
  <2>2. AtSent(more) \in Places'
    BY <1>3 DEF Places, more
  <2> QED BY <1>0, <1>1, <2>1, <2>2 DEF Dealt
<1> DEFINE G(place) == {r \in given' : new[r] = place}
<1>7. /\ G(AtFinal) = Rows(own, AtFinal)
      /\ G(AtPartial(p)) = {}
      /\ G(AtSent(more)) = Rows(own, AtPartial(p))
      /\ \A q : q # p => G(AtPartial(q)) = Rows(own, AtPartial(q))
      /\ \A n : n # more => G(AtSent(n)) = Rows(own, AtSent(n))
  BY <1>0, <1>1, <1>5, PlacesApart DEF Rows
<1>8. acc[p] = Held(kind, Rows(own, AtPartial(p)))
  BY DEF Dealt
<1>9. acc' = [q \in Partials |-> Held(kind, G(AtPartial(q)))]
  <2>1. acc = [q \in Partials |-> Held(kind, Rows(own, AtPartial(q)))]
    BY DEF Dealt
  <2>2. \A q \in Partials : acc'[q] = Held(kind, G(AtPartial(q)))
    <3> TAKE q \in Partials
    <3>1. CASE q = p
      BY <1>1, <1>7, <2>1, <3>1, NoneHeld
    <3>2. CASE q # p
      BY <1>1, <1>7, <2>1, <3>2
    <3> QED BY <3>1, <3>2
  <2>3. acc' = [q \in Partials |-> acc'[q]]
    BY <1>1, <2>1
  <2> DEFINE said(q) == Held(kind, G(AtPartial(q)))
  <2>4. \A q \in Partials : acc'[q] = said(q)
    BY <2>2
  <2> HIDE DEF said
  <2>5. acc' = [q \in Partials |-> said(q)]
    BY <2>3, <2>4
  <2> QED BY <2>5 DEF said
<1>10. \A n \in DOMAIN sent' : Says(sent'[n], kind, G(AtSent(n)))
  <2> TAKE n \in DOMAIN sent'
  <2>1. CASE n = more
    <3>1. Rows(own, AtPartial(p)) \subseteq query.rows
      BY DEF Rows, Shape
    <3>2. Valued(Rows(own, AtPartial(p)))
      BY <3>1, RowsValued
    <3>3. Says(list, kind, Rows(own, AtPartial(p)))
      BY <1>8, <3>2, StateSays DEF list
    <3> QED BY <1>3, <1>7, <2>1, <3>3
  <2>2. CASE n # more
    <3>1. n \in DOMAIN sent
      BY <1>3, <2>2 DEF more
    <3> QED BY <1>3, <1>7, <2>2, <3>1 DEF Dealt
  <2> QED BY <2>1, <2>2
<1>11. final' = Held(kind, G(AtFinal))
  BY <1>1, <1>7 DEF Dealt
<1>12. Dealt(new)'
  BY <1>1, <1>6, <1>9, <1>10, <1>11 DEF Dealt, Rows
<1> QED BY <1>4, <1>12

\* A state's rows join those of the final aggregate, and the states behind it move up.
LEMMA MergeDeals ==
  ASSUME Shape, NEW own, Dealt(own), NEW n \in DOMAIN sent, MergeBatch(n)
  PROVE  Shape' /\ \E new : Dealt(new)'
<1> DEFINE kind == query.kind
           moved(k) == IF k < n THEN k ELSE k + 1
<1>0. PICK new : new = [r \in given |->
                          IF own[r] = AtSent(n) THEN AtFinal
                          ELSE IF \E k \in n + 1 .. Len(sent) : own[r] = AtSent(k)
                          THEN AtSent((CHOOSE k \in n + 1 .. Len(sent) : own[r] = AtSent(k)) - 1)
                          ELSE own[r]]
  OBVIOUS
<1>1. /\ given' = given /\ query' = query /\ acc' = acc
      /\ final' = Fold(final, sent[n]) /\ sent' = RemoveAt(sent, n)
  BY DEF MergeBatch
<1>2. PICK S : sent \in Seq(S)
  BY DEF Shape
<1>3. /\ Len(sent) \in Nat /\ DOMAIN sent = 1 .. Len(sent) /\ n \in 1 .. Len(sent)
      /\ sent' \in Seq(S) /\ DOMAIN sent' = 1 .. Len(sent) - 1
      /\ \A k \in 1 .. Len(sent) - 1 : sent'[k] = sent[moved(k)]
  <2>1. /\ Len(sent) \in Nat /\ DOMAIN sent = 1 .. Len(sent) /\ n \in 1 .. Len(sent)
        /\ n - 1 \in Nat
    BY <1>2
  <2> DEFINE front == SubSeq(sent, 1, n - 1)
             back == SubSeq(sent, n + 1, Len(sent))
  <2>2. /\ front \in Seq(S) /\ Len(front) = n - 1
        /\ \A k \in 1 .. n - 1 : front[k] = sent[k]
    BY <1>2, <2>1
  <2>3. /\ back \in Seq(S) /\ Len(back) = Len(sent) - n
        /\ \A k \in 1 .. Len(sent) - n : back[k] = sent[n + k]
    <3>1. \A k \in n + 1 .. Len(sent) : sent[k] \in S
      BY <1>2, <2>1
    <3>2. back \in Seq(S)
      BY <1>2, <2>1, <3>1
    <3>3. Len(back) = Len(sent) - n
      BY <1>2, <2>1
    <3>4. \A k \in 1 .. Len(sent) - n : back[k] = sent[(n + 1) + k - 1]
      BY <1>2, <2>1
    <3>5. \A k \in 1 .. Len(sent) - n : (n + 1) + k - 1 = n + k
      BY <2>1
    <3> QED BY <3>2, <3>3, <3>4, <3>5
  <2>4. sent' = front \o back
    BY <1>1 DEF RemoveAt
  <2> HIDE DEF front, back
  <2>5. /\ sent' \in Seq(S) /\ Len(sent') = Len(sent) - 1
        /\ \A k \in 1 .. Len(sent) - 1 :
             sent'[k] = IF k <= n - 1 THEN front[k] ELSE back[k - (n - 1)]
    <3>1. /\ front \o back \in Seq(S) /\ Len(front \o back) = Len(front) + Len(back)
          /\ \A k \in 1 .. Len(front) + Len(back) :
               (front \o back)[k] = IF k <= Len(front) THEN front[k] ELSE back[k - Len(front)]
      BY <2>2, <2>3, ConcatProperties
    <3>2. Len(front) + Len(back) = Len(sent) - 1
      BY <2>1, <2>2, <2>3
    <3> QED BY <2>2, <2>4, <3>1, <3>2
  <2>6. \A k \in 1 .. Len(sent) - 1 : sent'[k] = sent[moved(k)]
    <3> TAKE k \in 1 .. Len(sent) - 1
    <3>1. CASE k < n
      <4>1. k \in 1 .. n - 1 /\ k <= n - 1
        BY <2>1, <3>1
      <4> QED BY <2>2, <2>5, <3>1, <4>1
    <3>2. CASE ~(k < n)
      <4>1. ~(k <= n - 1) /\ k - (n - 1) \in 1 .. Len(sent) - n /\ n + (k - (n - 1)) = k + 1
        BY <2>1, <3>2
      <4>2. back[k - (n - 1)] = sent[n + (k - (n - 1))]
        BY <2>3, <4>1
      <4> QED BY <2>5, <3>2, <4>1, <4>2
    <3> QED BY <3>1, <3>2
  <2>7. DOMAIN sent' = 1 .. Len(sent) - 1
    BY <2>5
  <2> QED BY <2>1, <2>5, <2>6, <2>7
<1>4. Shape'
  BY <1>1, <1>3 DEF Shape
<1> DEFINE G(place) == {r \in given' : new[r] = place}
<1>5. \A r \in given :
        /\ own[r] = AtSent(n) => new[r] = AtFinal
        /\ \A k \in n + 1 .. Len(sent) : own[r] = AtSent(k) => new[r] = AtSent(k - 1)
        /\ (\A k \in n .. Len(sent) : own[r] # AtSent(k)) => new[r] = own[r]
  <2> TAKE r \in given
  <2>1. CASE own[r] = AtSent(n)
    <3>1. \A k \in n + 1 .. Len(sent) : own[r] # AtSent(k)
      BY <1>3, <2>1, PlacesApart
    <3> QED BY <1>0, <1>3, <2>1, <3>1
  <2>2. CASE \E k \in n + 1 .. Len(sent) : own[r] = AtSent(k)
    <3>1. PICK k \in n + 1 .. Len(sent) : own[r] = AtSent(k)
      BY <2>2
    <3>2. \A m : own[r] = AtSent(m) => m = k
      BY <3>1, PlacesApart
    <3>3. (CHOOSE m \in n + 1 .. Len(sent) : own[r] = AtSent(m)) = k
      BY <3>1, <3>2
    <3>4. own[r] # AtSent(n) /\ k \in n .. Len(sent)
      BY <1>3, <3>1, <3>2
    <3>5. new[r] = AtSent(k - 1)
      BY <1>0, <3>1, <3>3, <3>4
    <3> QED BY <3>1, <3>2, <3>4, <3>5
  <2>3. CASE own[r] # AtSent(n) /\ ~\E k \in n + 1 .. Len(sent) : own[r] = AtSent(k)
    BY <1>0, <2>3
  <2> QED BY <2>1, <2>2, <2>3
<1>6. \A r \in given :
        \/ own[r] = AtFinal \/ \E p \in Partials : own[r] = AtPartial(p)
        \/ \E k \in 1 .. Len(sent) : own[r] = AtSent(k)
  BY <1>3 DEF Dealt, Places
<1>7. /\ G(AtFinal) = Rows(own, AtFinal) \cup Rows(own, AtSent(n))
      /\ \A p : G(AtPartial(p)) = Rows(own, AtPartial(p))
      /\ \A k \in 1 .. Len(sent) - 1 : G(AtSent(k)) = Rows(own, AtSent(moved(k)))
      /\ \A r \in given : new[r] \in Places'
  <2>1. ASSUME NEW r \in given
        PROVE  /\ new[r] = AtFinal <=> own[r] = AtFinal \/ own[r] = AtSent(n)
               /\ \A p : new[r] = AtPartial(p) <=> own[r] = AtPartial(p)
               /\ \A k \in 1 .. Len(sent) - 1 : new[r] = AtSent(k) <=> own[r] = AtSent(moved(k))
               /\ new[r] \in Places'
    <3>1. CASE own[r] = AtFinal
      <4>1. new[r] = AtFinal
        BY <1>5, <3>1, PlacesApart
      <4> QED BY <3>1, <4>1, PlacesApart DEF Places
    <3>2. CASE \E p \in Partials : own[r] = AtPartial(p)
      <4>1. PICK p \in Partials : own[r] = AtPartial(p)
        BY <3>2
      <4>2. new[r] = AtPartial(p)
        BY <1>5, <4>1, PlacesApart
      <4> QED BY <4>1, <4>2, PlacesApart DEF Places
    <3>3. CASE \E k \in 1 .. Len(sent) : own[r] = AtSent(k)
      <4>1. PICK k \in 1 .. Len(sent) : own[r] = AtSent(k)
        BY <3>3
      <4>2. CASE k = n
        <5>1. new[r] = AtFinal
          BY <1>5, <4>1, <4>2
        <5>2. \A m \in 1 .. Len(sent) - 1 : moved(m) # n
          BY <1>3
        <5> QED BY <4>1, <4>2, <5>1, <5>2, PlacesApart DEF Places
      <4>3. CASE k < n
        <5>1. \A m \in n .. Len(sent) : own[r] # AtSent(m)
          <6> TAKE m \in n .. Len(sent)
          <6>1. m # k
            BY <1>3, <4>3
          <6> QED BY <4>1, <6>1, PlacesApart
        <5>2. new[r] = AtSent(k)
          BY <1>5, <5>1, <4>1
        <5>3. k \in DOMAIN sent'
          BY <1>3, <4>3
        <5>4. \A m \in 1 .. Len(sent) - 1 : k = m <=> k = moved(m)
          BY <1>3, <4>3
        <5>5. AtSent(k) \in Places'
          BY <5>3 DEF Places
        <5>6. k # n
          BY <1>3, <4>3
        <5> QED BY <4>1, <5>2, <5>4, <5>5, <5>6, PlacesApart
      <4>4. CASE k > n
        <5>1. k \in n + 1 .. Len(sent)
          BY <1>3, <4>1, <4>4
        <5>2. new[r] = AtSent(k - 1)
          BY <1>5, <5>1, <4>1
        <5>3. k - 1 \in DOMAIN sent' /\ k # n
          BY <1>3, <5>1
        <5>4. \A m \in 1 .. Len(sent) - 1 : k - 1 = m <=> k = moved(m)
          BY <1>3, <5>1
        <5>5. AtSent(k - 1) \in Places'
          BY <5>3 DEF Places
        <5>6. own[r] # AtFinal /\ own[r] # AtSent(n) /\ new[r] # AtFinal
          BY <4>1, <5>2, <5>3, PlacesApart
        <5>7. \A p : new[r] # AtPartial(p) /\ own[r] # AtPartial(p)
          BY <4>1, <5>2, PlacesApart
        <5>8. \A m : (new[r] = AtSent(m) <=> k - 1 = m) /\ (own[r] = AtSent(m) <=> k = m)
          BY <4>1, <5>2, PlacesApart
        <5> HIDE DEF moved
        <5>9. \A m \in 1 .. Len(sent) - 1 : new[r] = AtSent(m) <=> own[r] = AtSent(moved(m))
          BY <5>4, <5>8
        <5> QED BY <5>2, <5>5, <5>6, <5>7, <5>9
      <4> QED BY <1>3, <4>2, <4>3, <4>4
    <3> QED BY <1>6, <3>1, <3>2, <3>3
  <2> QED BY <1>1, <2>1 DEF Rows
<1>8. new \in [given' -> Places']
  BY <1>0, <1>1, <1>7
<1>9. Fold(Held(kind, Rows(own, AtFinal)), sent[n]) = Held(kind, G(AtFinal))
  <2>1. Rows(own, AtFinal) \cap Rows(own, AtSent(n)) = {}
    BY PlacesApart DEF Rows
  <2>2. Rows(own, AtFinal) \subseteq query.rows
    BY DEF Rows, Shape
  <2>3. Valued(Rows(own, AtFinal))
    BY <2>2, RowsValued
  <2>4. Says(sent[n], query.kind, Rows(own, AtSent(n)))
    BY DEF Dealt
  <2> QED BY <1>7, <2>1, <2>3, <2>4, FoldIsUnion
<1> HIDE DEF G
<1>10. acc' = [q \in Partials |-> Held(kind, G(AtPartial(q)))]
  BY <1>1, <1>7 DEF Dealt
<1>11. \A k \in DOMAIN sent' : Says(sent'[k], kind, G(AtSent(k)))
  <2> TAKE k \in DOMAIN sent'
  <2>1. k \in 1 .. Len(sent) - 1 /\ moved(k) \in DOMAIN sent
    BY <1>3
  <2>2. sent'[k] = sent[moved(k)] /\ G(AtSent(k)) = Rows(own, AtSent(moved(k)))
    BY <1>3, <1>7, <2>1
  <2> HIDE DEF moved
  <2> QED BY <2>1, <2>2 DEF Dealt
<1>12. final' = Held(kind, G(AtFinal))
  BY <1>1, <1>9 DEF Dealt
<1>13. Dealt(new)'
  BY <1>1, <1>8, <1>10, <1>11, <1>12 DEF Dealt, Rows, G
<1> QED BY <1>4, <1>13

-----------------------------------------------------------------------------
(***************************************************************************)
(* The answer.                                                             *)
(***************************************************************************)
\* A set has one element exactly when its cardinality is one.
LEMMA OneIsSingle ==
  ASSUME NEW T, IsFiniteSet(T)
  PROVE  Cardinality(T) = 1 <=> Single(T)
<1>1. Cardinality(T) = 1 => \E row : T = {row}
  BY FS_Singleton
<1>2. \A row : Cardinality({row}) = 1
  BY FS_Singleton
<1> QED BY <1>1, <1>2 DEF Single

\* What the final aggregate answers when nothing is left anywhere else.
LEMMA FinalAnswers ==
  ASSUME Shape, NEW own, Dealt(own), given = query.rows, sent = <<>>,
         \A p \in Partials : acc[p] = Empty
  PROVE  Answered(final) =
           IF query.kind = "absent" THEN [t \in {u \in Steps : Reaching(query.rows, u) = {}} |-> 1]
           ELSE [t \in Steps |-> IF Cardinality(Reaching(query.rows, t)) = 1
                                 THEN Value(Reaching(query.rows, t), t) ELSE NaN]
<1> DEFINE kind == query.kind
           F == Rows(own, AtFinal)
           all == query.rows
<1>1. IsFiniteSet(all)
  BY QueriesAssumption DEF Shape
<1>2. F \subseteq all /\ Valued(F) /\ Valued(all)
  <2>1. F \subseteq all
    BY DEF Rows, Shape
  <2> QED BY <2>1, RowsValued
<1>3. \A t : Reaching(F, t) = Reaching(all, t)
  <2>1. \A row \in all : row \in F \/ \E p \in Partials : row \in Rows(own, AtPartial(p))
    <3>1. DOMAIN sent = {}
      OBVIOUS
    <3> QED BY <3>1 DEF Dealt, Places, Rows
  <2>2. \A p \in Partials : \A t : Reaching(Rows(own, AtPartial(p)), t) = {}
    <3> TAKE p \in Partials
    <3> DEFINE G == Rows(own, AtPartial(p))
    <3>1. G \subseteq all
      BY DEF Rows, Shape
    <3>2. Valued(G)
      BY <3>1, RowsValued
    <3>3. Held(kind, G) = Empty
      BY DEF Dealt
    <3> HIDE DEF G
    <3>4. \A t : Reaching(G, t) = {}
      BY <3>2, <3>3, EmptyHeld
    <3> QED BY <3>4 DEF G
  <2> QED BY <1>2, <2>1, <2>2 DEF Reaching
<1>4. \A t \in Steps : final[t] = None <=> Reaching(all, t) = {}
  <2>1. \A t \in Steps : Held(kind, F)[t] = None <=> Reaching(F, t) = {}
    BY <1>2, HeldReached
  <2> QED BY <1>3, <2>1 DEF Dealt
<1> HIDE DEF F
<1>5. CASE kind = "absent"
  <2>1. Steps \ Reached(final) = {t \in Steps : Reaching(all, t) = {}}
    BY <1>4 DEF Reached
  <2> QED BY <1>5, <2>1 DEF Answered
<1>6. CASE kind # "absent"
  <2>1. ASSUME NEW t \in Steps
        PROVE  (IF final[t] = None THEN NaN ELSE final[t]) =
               IF Cardinality(Reaching(all, t)) = 1 THEN Value(Reaching(all, t), t) ELSE NaN
    <3>1. IsFiniteSet(Reaching(all, t))
      <4>1. Reaching(all, t) \subseteq all
        BY DEF Reaching
      <4> QED BY <1>1, <4>1, FS_Subset
    <3>2. Cardinality(Reaching(all, t)) = 1 <=> Single(Reaching(all, t))
      BY <3>1, OneIsSingle
    <3>3. final[t] = IF Reaching(F, t) = {} THEN None
                     ELSE IF Single(Reaching(F, t)) THEN Value(Reaching(F, t), t) ELSE NaN
      BY <1>6 DEF Dealt, Held, F
    <3>4. final[t] = IF Reaching(all, t) = {} THEN None
                     ELSE IF Single(Reaching(all, t)) THEN Value(Reaching(all, t), t) ELSE NaN
      BY <1>3, <3>3
    <3>5. Single(Reaching(all, t)) => Reaching(all, t) # {}
      BY DEF Single
    <3>6. final[t] = None <=> Reaching(all, t) = {}
      BY <1>4
    <3> HIDE DEF all
    <3> QED BY <3>2, <3>4, <3>5, <3>6
  <2>2. Answered(final) = [t \in Steps |-> IF final[t] = None THEN NaN ELSE final[t]]
    BY <1>6 DEF Answered
  <2> QED BY <1>6, <2>1, <2>2
<1> QED BY <1>5, <1>6

-----------------------------------------------------------------------------
(***************************************************************************)
(* The labels of absent, a fold over the matchers.                         *)
(***************************************************************************)
KeptLabels(ms) ==
  [has : SUBSET {m.name : m \in ToSet(ms)},
   out : SUBSET {[name |-> m.name, value |-> m.value] : m \in ToSet(ms)}]

NoLabel == [has |-> {}, out |-> {}]

\* AfterMatcher as a function.
Matching(ms) == [km \in KeptLabels(ms) \X ToSet(ms) |-> AfterMatcher(km[1], km[2])]

\* One more matcher leaves names and labels of the matchers.
LEMMA AfterTyped ==
  ASSUME NEW ms, NEW kept \in KeptLabels(ms), NEW m \in ToSet(ms)
  PROVE  AfterMatcher(kept, m) \in KeptLabels(ms)
<1> DEFINE Names == {l.name : l \in ToSet(ms)}
           Labels == {[name |-> l.name, value |-> l.value] : l \in ToSet(ms)}
           label == [name |-> m.name, value |-> m.value]
<1>1. m.name \in Names /\ label \in Labels
  OBVIOUS
<1>2. KeptLabels(ms) = [has : SUBSET Names, out : SUBSET Labels]
  BY DEF KeptLabels
<1> HIDE DEF Names, Labels
<1>3. /\ kept.has \in SUBSET Names /\ kept.out \in SUBSET Labels
      /\ kept = [has |-> kept.has, out |-> kept.out]
  BY <1>2
<1>4. [has |-> kept.has \cup {m.name}, out |-> kept.out \cup {label}] \in KeptLabels(ms)
  <2> HIDE DEF label
  <2> QED BY <1>1, <1>2, <1>3
<1>5. [kept EXCEPT !.out = {l \in @ : l.name # m.name}] \in KeptLabels(ms)
  BY <1>2, <1>3
<1> QED BY <1>4, <1>5 DEF AfterMatcher

\* LabelsFor is the labels that fold comes to.
LEMMA LabelsFold ==
  ASSUME NEW ms, ms \in Seq(ToSet(ms))
  PROVE  \E kept : /\ FoldsTo(KeptLabels(ms), Matching(ms), NoLabel, ms, kept)
                   /\ LabelsFor(ms) = kept.out
<1> DEFINE X == KeptLabels(ms)
           Y == ToSet(ms)
           H == Matching(ms)
           base == NoLabel
           Iter == CHOOSE iter : iter = [T \in SUBSET DOMAIN ms |->
                     IF T = {} THEN NoLabel ELSE AfterMatcher(iter[T \ {Max(T)}], ms[Max(T)])]
<1>1. LabelsFor(ms) = Iter[DOMAIN ms].out
  BY Zenon DEF LabelsFor, FoldLeft, MapThenFoldSet, NoLabel
<1>2. H \in [X \X Y -> X] /\ base \in X /\ ms \in Seq(Y)
      /\ \A x \in X, y \in Y : H[<<x, y>>] = AfterMatcher(x, y)
  <2>1. \A x \in X, y \in Y : AfterMatcher(x, y) \in X
    BY AfterTyped
  <2>2. H = [xy \in X \X Y |-> AfterMatcher(xy[1], xy[2])]
    BY DEF Matching
  <2>3. base \in X /\ ms \in Seq(Y)
    BY DEF KeptLabels, NoLabel
  <2> HIDE DEF X, Y, base
  <2>4. \A xy \in X \X Y : AfterMatcher(xy[1], xy[2]) \in X
    BY <2>1
  <2>5. H \in [X \X Y -> X]
    BY <2>2, <2>4
  <2>6. \A x \in X, y \in Y : H[<<x, y>>] = AfterMatcher(x, y)
    BY <2>2
  <2> QED BY <2>3, <2>5, <2>6
<1>3. base = NoLabel
  OBVIOUS
<1> HIDE DEF X, Y, H, base
<1>4. PICK g \in [SUBSET DOMAIN ms -> X] : FoldsOver(H, base, ms, g)
  BY <1>2, FoldExists, Zenon
<1>5. \A T \in SUBSET DOMAIN ms : T # {} =>
        Max(T) \in DOMAIN ms /\ ms[Max(T)] \in Y /\ T \ {Max(T)} \in SUBSET DOMAIN ms
  <2> TAKE T \in SUBSET DOMAIN ms
  <2> HAVE T # {}
  <2>1. DOMAIN ms = 1 .. Len(ms) /\ Len(ms) \in Nat BY <1>2
  <2>2. Max(T) \in T
    BY <2>1, MaxIn
  <2> QED BY <1>2, <2>1, <2>2
<1>6. \A T \in SUBSET DOMAIN ms :
        g[T] = IF T = {} THEN NoLabel ELSE AfterMatcher(g[T \ {Max(T)}], ms[Max(T)])
  <2> TAKE T \in SUBSET DOMAIN ms
  <2>1. CASE T = {} BY <1>3, <1>4, <2>1 DEF FoldsOver
  <2>2. CASE T # {} BY <1>2, <1>4, <1>5, <2>2 DEF FoldsOver
  <2> QED BY <2>1, <2>2
<1>7. g = [T \in SUBSET DOMAIN ms |->
             IF T = {} THEN NoLabel ELSE AfterMatcher(g[T \ {Max(T)}], ms[Max(T)])]
  BY <1>4, <1>6, Zenon
<1>8. Iter = [T \in SUBSET DOMAIN ms |->
             IF T = {} THEN NoLabel ELSE AfterMatcher(Iter[T \ {Max(T)}], ms[Max(T)])]
  BY <1>7, Zenon
<1> HIDE DEF Iter
<1>9. Iter[{}] = base
  BY <1>3, <1>8
<1>10. FoldsWithin(X, H, ms, Iter)
  <2> SUFFICES ASSUME NEW T \in SUBSET DOMAIN ms, T # {}, Iter[T \ {Max(T)}] \in X
               PROVE  Iter[T] = H[<<Iter[T \ {Max(T)}], ms[Max(T)]>>]
    BY DEF FoldsWithin
  <2>1. Iter[T] = AfterMatcher(Iter[T \ {Max(T)}], ms[Max(T)])
    BY <1>8
  <2> QED BY <1>2, <1>5, <2>1
<1>11. FoldsTo(X, H, base, ms, Iter[DOMAIN ms])
  BY <1>2, <1>9, <1>10, FoldPrefixes
<1> QED BY <1>1, <1>3, <1>11, Zenon DEF X, H

\* The matchers of the first k that give their name its label: the name's first
\* equality, and its last matcher so far.
Labelling(ms, k) ==
  {n \in 1 .. k :
     /\ ms[n].name # MetricName /\ ms[n].op = "="
     /\ \A j \in 1 .. k : j # n /\ ms[j].name = ms[n].name => j < n /\ ms[j].op # "="}

\* The names the first k have an equality on.
Equated(ms, k) == {ms[n].name : n \in {j \in 1 .. k : ms[j].name # MetricName /\ ms[j].op = "="}}

LabelsAt(ms, S) == {[name |-> ms[n].name, value |-> ms[n].value] : n \in S}

\* What the fold has kept after the first k.
KeptAfter(ms, k, kept) == kept.has = Equated(ms, k) /\ kept.out = LabelsAt(ms, Labelling(ms, k))

\* One matcher more keeps that.
LEMMA AfterKeeps ==
  ASSUME NEW ms, NEW k \in Nat, NEW kept, KeptAfter(ms, k, kept),
         kept = [has |-> kept.has, out |-> kept.out]
  PROVE  KeptAfter(ms, k + 1, AfterMatcher(kept, ms[k + 1]))
<1> DEFINE m == ms[k + 1]
           label == [name |-> m.name, value |-> m.value]
<1>0. kept.has = Equated(ms, k) /\ kept.out = LabelsAt(ms, Labelling(ms, k))
  BY DEF KeptAfter
<1>1. /\ k + 1 \in 1 .. k + 1 /\ 1 .. k + 1 = (1 .. k) \cup {k + 1} /\ k + 1 \notin 1 .. k
      /\ \A n \in 1 .. k : n < k + 1 /\ n # k + 1 /\ ~(k + 1 < n)
  OBVIOUS
<1>2. \A n \in 1 .. k :
        n \in Labelling(ms, k + 1) <=> n \in Labelling(ms, k) /\ ms[n].name # m.name
  BY <1>1 DEF Labelling
<1>3. k + 1 \in Labelling(ms, k + 1) <=>
        m.name # MetricName /\ m.op = "=" /\ m.name \notin Equated(ms, k)
  BY <1>1 DEF Labelling, Equated
<1>4. Labelling(ms, k) \subseteq 1 .. k /\ Labelling(ms, k + 1) \subseteq (1 .. k) \cup {k + 1}
  BY <1>1 DEF Labelling
<1>5. Equated(ms, k + 1) =
        Equated(ms, k) \cup (IF m.name # MetricName /\ m.op = "=" THEN {m.name} ELSE {})
  BY <1>1 DEF Equated
<1>6. CASE m.name = MetricName
  <2>1. \A n \in Labelling(ms, k) : ms[n].name # m.name
    BY <1>6 DEF Labelling
  <2>2. Labelling(ms, k + 1) = Labelling(ms, k)
    BY <1>2, <1>3, <1>4, <1>6, <2>1
  <2>3. AfterMatcher(kept, m) = kept
    BY <1>6 DEF AfterMatcher
  <2> QED BY <1>0, <1>5, <1>6, <2>2, <2>3 DEF KeptAfter
<1>7. CASE m.name # MetricName /\ m.op = "=" /\ m.name \notin Equated(ms, k)
  <2>1. \A n \in Labelling(ms, k) : ms[n].name # m.name
    BY <1>7 DEF Labelling, Equated
  <2>2. Labelling(ms, k + 1) = Labelling(ms, k) \cup {k + 1}
    BY <1>2, <1>3, <1>4, <1>7, <2>1
  <2>3. LabelsAt(ms, Labelling(ms, k + 1)) = LabelsAt(ms, Labelling(ms, k)) \cup {label}
    BY <2>2 DEF LabelsAt
  <2>4. AfterMatcher(kept, m) = [has |-> kept.has \cup {m.name}, out |-> kept.out \cup {label}]
    BY <1>0, <1>7 DEF AfterMatcher
  <2> QED BY <1>0, <1>5, <1>7, <2>3, <2>4 DEF KeptAfter
<1>8. CASE m.name # MetricName /\ ~(m.op = "=" /\ m.name \notin Equated(ms, k))
  <2>1. Labelling(ms, k + 1) = {n \in Labelling(ms, k) : ms[n].name # m.name}
    BY <1>2, <1>3, <1>4, <1>8
  <2>2. LabelsAt(ms, Labelling(ms, k + 1)) = {l \in LabelsAt(ms, Labelling(ms, k)) : l.name # m.name}
    BY <2>1 DEF LabelsAt
  <2>3. AfterMatcher(kept, m) = [has |-> kept.has, out |-> {l \in kept.out : l.name # m.name}]
    BY <1>0, <1>8 DEF AfterMatcher
  <2>4. Equated(ms, k + 1) = Equated(ms, k)
    BY <1>5, <1>8
  <2> QED BY <1>0, <2>2, <2>3, <2>4 DEF KeptAfter
<1> QED BY <1>6, <1>7, <1>8

\* absent has a name's label exactly when its first equality matcher is its last matcher.
LEMMA LabelsExact ==
  ASSUME NEW ms, ms \in Seq(ToSet(ms))
  PROVE  LabelsFor(ms) = LabelsAt(ms, Labelling(ms, Len(ms)))
<1> DEFINE X == KeptLabels(ms)
           H == Matching(ms)
<1>1. PICK kept : FoldsTo(X, H, NoLabel, ms, kept) /\ LabelsFor(ms) = kept.out
  BY LabelsFold
<1>2. PICK R \in [0 .. Len(ms) -> X] : FoldsAlong(H, NoLabel, ms, R) /\ R[Len(ms)] = kept
  BY <1>1 DEF FoldsTo
<1>3. Len(ms) \in Nat /\ \A k \in 1 .. Len(ms) : ms[k] \in ToSet(ms)
  OBVIOUS
<1> DEFINE S == {k \in 0 .. Len(ms) : KeptAfter(ms, k, R[k])}
<1>4. \A k : k \in S <=> k \in 0 .. Len(ms) /\ KeptAfter(ms, k, R[k])
  OBVIOUS
<1> HIDE DEF S, X, H
<1>5. 0 \in S
  <2>1. R[0] = NoLabel
    BY <1>2 DEF FoldsAlong
  <2>2. 1 .. 0 = {}
    OBVIOUS
  <2>3. Equated(ms, 0) = {} /\ LabelsAt(ms, Labelling(ms, 0)) = {}
    BY <2>2 DEF Equated, LabelsAt, Labelling
  <2> QED BY <1>3, <1>4, <2>1, <2>3 DEF KeptAfter, NoLabel
<1>6. \A k \in 0 .. Len(ms) - 1 : k \in S => k + 1 \in S
  <2> SUFFICES ASSUME NEW k \in 0 .. Len(ms) - 1, k \in S PROVE k + 1 \in S
    OBVIOUS
  <2>1. k \in Nat /\ k \in 0 .. Len(ms) /\ k + 1 \in 1 .. Len(ms) /\ k + 1 \in 0 .. Len(ms)
    BY <1>3
  <2>2. R[k] \in X /\ ms[k + 1] \in ToSet(ms) /\ R[k + 1] = H[<<R[k], ms[k + 1]>>]
    BY <1>2, <1>3, <2>1 DEF FoldsAlong
  <2>3. R[k] = [has |-> R[k].has, out |-> R[k].out]
    BY <2>2 DEF X, KeptLabels
  <2>4. R[k + 1] = AfterMatcher(R[k], ms[k + 1])
    BY <2>2, AfterTyped DEF H, Matching, X
  <2>5. KeptAfter(ms, k, R[k])
    BY <1>4
  <2>6. KeptAfter(ms, k + 1, R[k + 1])
    BY <2>1, <2>3, <2>4, <2>5, AfterKeeps
  <2> QED BY <1>4, <2>1, <2>6
<1>7. Len(ms) \in S
  <2>1. \A k \in 0 .. Len(ms) : k \in S BY <1>3, <1>5, <1>6, Induct
  <2> QED BY <1>3, <2>1
<1>8. KeptAfter(ms, Len(ms), kept)
  BY <1>2, <1>4, <1>7
<1> QED BY <1>1, <1>8 DEF KeptAfter

-----------------------------------------------------------------------------
(***************************************************************************)
(* The invariant.                                                          *)
(***************************************************************************)
\* The answer of a query all of whose rows are at the final aggregate is the input's.
LEMMA EvaluateAnswers ==
  ASSUME Shape, NEW own, Dealt(own), Evaluate
  PROVE  Shape' /\ Dealt(own)' /\ AnswersTheInput'
<1> DEFINE ms == query.matchers
<1>1. /\ given = query.rows /\ sent = <<>> /\ \A p \in Partials : acc[p] = Empty
      /\ query' = query /\ given' = given /\ acc' = acc /\ sent' = sent /\ final' = final
      /\ answer' = [labels |-> IF query.kind = "absent" THEN LabelsFor(ms) ELSE {},
                    values |-> Answered(final)]
  BY DEF Evaluate
<1>2. Shape'
  BY <1>1 DEF Shape
<1>3. Dealt(own)'
  BY <1>1 DEF Dealt, Rows, Places
<1>4. LabelsOfTheSelector'
  <2> SUFFICES ASSUME query.kind = "absent"
               PROVE  LabelsFor(ms) =
                 {[name |-> ms[n].name, value |-> ms[n].value] :
                    n \in {k \in DOMAIN ms :
                             /\ ms[k].name # MetricName /\ ms[k].op = "="
                             /\ \A j \in DOMAIN ms :
                                  j # k /\ ms[j].name = ms[k].name => j < k /\ ms[j].op # "="}}
    BY <1>1 DEF LabelsOfTheSelector
  <2>1. ms \in Seq(ToSet(ms))
    BY QueriesAssumption DEF Shape
  <2> HIDE DEF ms
  <2>2. DOMAIN ms = 1 .. Len(ms)
    BY <2>1
  <2>3. LabelsFor(ms) = LabelsAt(ms, Labelling(ms, Len(ms)))
    BY <2>1, LabelsExact
  <2> QED BY <2>2, <2>3 DEF LabelsAt, Labelling
<1>5. answer'.values = Answered(final)
  BY <1>1
<1>6. Answered(final) =
        IF query.kind = "absent" THEN [t \in {u \in Steps : Reaching(query.rows, u) = {}} |-> 1]
        ELSE [t \in Steps |-> IF Cardinality(Reaching(query.rows, t)) = 1
                              THEN Value(Reaching(query.rows, t), t) ELSE NaN]
  BY <1>1, FinalAnswers
<1>7. AnswersTheInput'
  <2> DEFINE at(t) == {row \in query.rows : t \in DOMAIN row.values}
             only(t) == CHOOSE row \in at(t) : TRUE
             values == IF query.kind = "absent" THEN [t \in {u \in Steps : at(u) = {}} |-> 1]
                       ELSE [t \in Steps |-> IF Cardinality(at(t)) = 1 THEN only(t).values[t] ELSE NaN]
  <2>1. Answered(final) = values
    BY <1>6, Zenon DEF Reaching, Value
  <2>2. query' = query
    BY <1>1
  <2>3. answer'.values = values
    BY <1>5, <2>1, Zenon
  <2> QED BY <1>4, <2>2, <2>3, ZenonT(60) DEF AnswersTheInput
<1> QED BY <1>2, <1>3, <1>7

\* Every other step leaves the answer as it is.
LEMMA NextKeeps == IInv /\ [Next]_vars => IInv'
<1> SUFFICES ASSUME IInv, [Next]_vars PROVE IInv'
  OBVIOUS
<1>1. Shape /\ AnswersTheInput
  BY DEF IInv
<1>2. PICK own : Dealt(own)
  BY DEF IInv
<1>3. answer' = answer /\ query' = query => AnswersTheInput'
  BY <1>1 DEF AnswersTheInput, LabelsOfTheSelector
<1>4. ASSUME NEW row \in query.rows, UpdateSingle(row) PROVE IInv'
  <2>1. answer' = answer /\ query' = query
    BY <1>4 DEF UpdateSingle
  <2> QED BY <1>1, <1>2, <1>3, <1>4, <2>1, UpdateSingleDeals DEF IInv
<1>5. ASSUME NEW p \in Partials, NEW row \in query.rows, Update(p, row) PROVE IInv'
  <2>1. answer' = answer /\ query' = query
    BY <1>5 DEF Update
  <2> QED BY <1>1, <1>2, <1>3, <1>5, <2>1, UpdateDeals DEF IInv
<1>6. ASSUME NEW p \in Partials, State(p) PROVE IInv'
  <2>1. answer' = answer /\ query' = query
    BY <1>6 DEF State
  <2> QED BY <1>1, <1>2, <1>3, <1>6, <2>1, StateDeals DEF IInv
<1>7. ASSUME NEW n \in DOMAIN sent, MergeBatch(n) PROVE IInv'
  <2>1. answer' = answer /\ query' = query
    BY <1>7 DEF MergeBatch
  <2> QED BY <1>1, <1>2, <1>3, <1>7, <2>1, MergeDeals DEF IInv
<1>8. CASE Evaluate
  BY <1>1, <1>2, <1>8, EvaluateAnswers DEF IInv
<1>9. CASE UNCHANGED vars
  <2>1. /\ query' = query /\ given' = given /\ acc' = acc /\ sent' = sent /\ final' = final
        /\ answer' = answer
    BY <1>9 DEF vars
  <2>2. Shape' /\ Dealt(own)'
    BY <1>1, <1>2, <2>1 DEF Shape, Dealt, Rows, Places
  <2> QED BY <1>3, <2>1, <2>2 DEF IInv
<1> QED BY <1>4, <1>5, <1>6, <1>7, <1>8, <1>9 DEF Next

\* For every set of queries, every number of partials and every order of updates, states
\* and merges: absent answers 1 at exactly the steps no row reached, with the labels of
\* its selector, and scalar the value of the only row of a step, NaN at any other
\* (absent.rs and to_scalar.rs: update_batch, merge_batch, state and evaluate).
THEOREM AnswersTheInputAlways == Spec => []AnswersTheInput
<1>1. Init => IInv
  BY InitDealt
<1>2. IInv /\ [Next]_vars => IInv'
  BY NextKeeps
<1>3. IInv => AnswersTheInput
  BY DEF IInv
<1> QED BY <1>1, <1>2, <1>3, PTL DEF Spec
=============================================================================
