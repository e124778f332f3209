------------------------------- MODULE Pairing -------------------------------
(***************************************************************************)
(* Pairing (promql-engine/src/binary.rs): one match group of a binary      *)
(* operator between two vectors.  Both operands' rows of one signature are *)
(* folded into lanes, possibly in several partial accumulators, and the    *)
(* grid is walked once at the end.                                         *)
(*                                                                         *)
(* A row is one series in one block; a value is the row it came from, or   *)
(* the fill.  Walking timestamps onto the grid is Aggregate's.             *)
(***************************************************************************)
EXTENDS MatchGroup, Sequences, SequencesExt, FiniteSetsExt

CONSTANTS
  Partials,      \* the partial accumulators
  Scenarios      \* the queries and inputs a run considers

Labels == [Schema -> STRING]
Sides == {"lhs", "rhs"}
Ops == {"and", "or", "unless", "arithmetic", "filter", "bool"}
Cards == {"one_to_one", "many_to_one", "one_to_many"}
Row == [id : Nat, side : Sides, labels : Labels, steps : SUBSET Nat]

ASSUME PairingAssumption ==
  /\ Name \in Schema
  /\ \A s \in Scenarios :
       /\ s.op \in Ops /\ s.card \in Cards /\ s.on \in BOOLEAN
       /\ s.labels \subseteq Schema /\ s.include \subseteq Schema
       /\ s.fillLhs \in Nat \cup {None} /\ s.fillRhs \in Nat \cup {None}
       /\ s.steps \in Nat /\ s.single \in BOOLEAN
       /\ \A r \in s.rows : /\ r.side \in Sides /\ r.labels \in Labels
                            /\ r.steps \subseteq 0 .. s.steps - 1

VARIABLES
  query,   \* the operator, its Matching, the grid's length and the rows
  given,   \* the rows accumulators were handed
  acc,     \* the partial accumulators
  sent,    \* the states on their way to the final accumulator
  final,   \* the final accumulator
  read,    \* history: the counts under the values evaluate read
  answer

vars == <<query, given, acc, sent, final, read, answer>>

Steps == 0 .. query.steps - 1

-----------------------------------------------------------------------------
(***************************************************************************)
(* The accumulator: the one side as lanes over the steps, the many side    *)
(* (both sides of a set operator) as a series per label set.               *)
(***************************************************************************)
Zeros == [t \in Steps |-> 0]
Nothing == [t \in Steps |-> None]

NewPairing == [counts |-> Zeros, values |-> Nothing, rows |-> Nothing, pool |-> <<>>,
               many |-> <<>>]

\* The one of these places a series has in a list, or the place after its end.
Position(seq, places) == IF places # {} THEN Min(places) ELSE Len(seq) + 1

InternOne(pool, labels) ==
  LET at == Position(pool, {n \in DOMAIN pool : pool[n] = labels})
  IN  [at |-> at, pool |-> IF at \in DOMAIN pool THEN pool ELSE Append(pool, labels)]

InternMany(many, side, labels) ==
  LET at == Position(many, {n \in DOMAIN many : many[n].side = side /\ many[n].labels = labels})
      new == [side |-> side, labels |-> labels, counts |-> Zeros, values |-> Nothing]
  IN  [at |-> at, many |-> IF at \in DOMAIN many THEN many ELSE Append(many, new)]

Raised(counts, steps) == [t \in Steps |-> counts[t] + (IF t \in steps THEN 1 ELSE 0)]
Overlaid(lane, steps, value) == [t \in Steps |-> IF t \in steps THEN value ELSE lane[t]]

Absorb(p, row) ==
  IF ~IsSet(query) /\ row.side = OneSide(query)
  THEN LET one == InternOne(p.pool, row.labels)
       IN  [p EXCEPT !.pool = one.pool,
                     !.counts = Raised(@, row.steps),
                     !.values = Overlaid(@, row.steps, row.id),
                     !.rows = Overlaid(@, row.steps, one.at)]
  ELSE LET m == InternMany(p.many, row.side, row.labels)
       IN  [p EXCEPT !.many = [m.many EXCEPT
                                 ![m.at].counts = Raised(@, row.steps),
                                 ![m.at].values = Overlaid(@, row.steps, row.id)]]

\* The incoming lane wherever the incoming counts saw something.
Merged(lane, counts, incoming) ==
  [t \in Steps |-> IF counts[t] > 0 THEN incoming[t] ELSE lane[t]]

Sum2(a, b) == [t \in Steps |-> a[t] + b[t]]

\* merge_batch's pools: where each row of an incoming pool is held here.
PoolsMerged(pool, incoming) ==
  FoldLeft(LAMBDA m, labels :
             LET one == InternOne(m.pool, labels)
             IN  [pool |-> one.pool, seen |-> Append(m.seen, one.at)],
           [pool |-> pool, seen |-> <<>>], incoming)

ManyMerged(many, incoming) ==
  FoldLeft(LAMBDA held, s :
             LET m == InternMany(held, s.side, s.labels)
             IN  [m.many EXCEPT ![m.at].counts = Sum2(@, s.counts),
                                ![m.at].values = Merged(@, s.counts, s.values)],
           many, incoming)

\* Variant: the incoming row numbers are taken for this pool's.
MergeStateUnmapped(p, s) ==
  [counts |-> Sum2(p.counts, s.counts), values |-> Merged(p.values, s.counts, s.values),
   rows |-> Merged(p.rows, s.counts, s.rows), pool |-> PoolsMerged(p.pool, s.pool).pool,
   many |-> ManyMerged(p.many, s.many)]

MergeState(p, s) ==
  LET pools == PoolsMerged(p.pool, s.pool)
      mapped == [t \in Steps |-> IF s.counts[t] > 0 THEN pools.seen[s.rows[t]] ELSE None]
  IN  [counts |-> Sum2(p.counts, s.counts), values |-> Merged(p.values, s.counts, s.values),
       rows |-> Merged(p.rows, s.counts, mapped), pool |-> pools.pool,
       many |-> ManyMerged(p.many, s.many)]

-----------------------------------------------------------------------------
(***************************************************************************)
(* The walk over the grid.  A bucket is an output series under             *)
(* construction, known by its labels.                                      *)
(***************************************************************************)
PresentAt(p, side, t) == \E n \in DOMAIN p.many : p.many[n].side = side /\ p.many[n].counts[t] > 0

Kept(p, n, t) ==
  LET series == p.many[n]
  IN  /\ series.counts[t] > 0
      /\ CASE query.op = "and" -> series.side = "lhs" /\ PresentAt(p, "rhs", t)
           [] query.op = "unless" -> series.side = "lhs" /\ ~PresentAt(p, "rhs", t)
           [] query.op = "or" -> series.side = "lhs" \/ ~PresentAt(p, "lhs", t)

\* What pairs at a step: a many series or the fill, and the one side's row.
Todo(p, t) ==
  LET oneHere == p.counts[t] > 0
      one == IF oneHere THEN p.values[t] ELSE query.fillRhs
      present == {n \in DOMAIN p.many : p.many[n].counts[t] > 0}
      matched == IF one = None THEN {}
                 ELSE {[many |-> n, value |-> p.many[n].values[t], one |-> one] : n \in present}
  IN  IF matched = {} /\ oneHere /\ query.fillLhs # None
      THEN {[many |-> None, value |-> query.fillLhs, one |-> p.values[t]]}
      ELSE matched

PairLabels(p, t, pair) ==
  LET oneHere == p.counts[t] > 0
      oneLabels == IF oneHere THEN p.pool[p.rows[t]] ELSE [n \in Schema |-> Empty]
      base == IF pair.many = None THEN SignatureOf(query, oneLabels) ELSE p.many[pair.many].labels
  IN  ResultLabels(query, base, IF pair.many # None /\ ~oneHere THEN SignatureOf(query, base) ELSE oneLabels)

\* The step's samples, or the error it ends the query with.
SetStep(p, t) ==
  [error |-> None,
   samples |-> {[labels |-> p.many[n].labels, step |-> t, lhs |-> p.many[n].values[t],
                 rhs |-> None] : n \in {m \in DOMAIN p.many : Kept(p, m, t)}}]

\* Variant: two many series at one step are never told from two steps.
PairStepUnclaimed(p, t) ==
  LET todo == Todo(p, t)
      error == IF p.counts[t] > 1 THEN Duplicate
               ELSE IF query.card = "one_to_one" /\ Cardinality(todo) > 1 THEN Multiple
               ELSE None
      sample(pair) ==
        [labels |-> PairLabels(p, t, pair), step |-> t,
         lhs |-> IF OneSide(query) = "lhs" THEN pair.one ELSE pair.value,
         rhs |-> IF OneSide(query) = "lhs" THEN pair.value ELSE pair.one]
  IN  [error |-> error, samples |-> {sample(pair) : pair \in todo}]

PairStep(p, t) ==
  LET todo == Todo(p, t)
      empty == /\ \A n \in DOMAIN p.many : p.many[n].counts[t] = 0
               /\ query.fillLhs = None /\ query.fillRhs = None
      error == IF p.counts[t] > 1 THEN Duplicate
               ELSE IF query.card = "one_to_one" /\ Cardinality(todo) > 1 THEN Multiple
               ELSE IF \E a, b \in todo : a # b /\ PairLabels(p, t, a) = PairLabels(p, t, b)
               THEN NotUnique ELSE None
      sample(pair) ==
        [labels |-> PairLabels(p, t, pair), step |-> t,
         lhs |-> IF OneSide(query) = "lhs" THEN pair.one ELSE pair.value,
         rhs |-> IF OneSide(query) = "lhs" THEN pair.value ELSE pair.one]
  IN  IF empty THEN [error |-> None, samples |-> {}]
      ELSE [error |-> error, samples |-> {sample(pair) : pair \in todo}]

Walked(p, t) == IF IsSet(query) THEN SetStep(p, t) ELSE PairStep(p, t)

\* Whether a filtering comparison lets a pair through: any relation would do.
Holds(lhs, rhs) == lhs < rhs

\* What the kernel leaves of the samples.
Computed(samples) ==
  IF query.op = "filter" THEN {[s EXCEPT !.rhs = None] : s \in {x \in samples : Holds(x.lhs, x.rhs)}}
  ELSE samples

Outcome(walk) ==
  LET failing == {t \in Steps : walk[t].error # None}
  IN  IF failing # {} THEN [error |-> walk[Min(failing)].error, samples |-> {}]
      ELSE [error |-> None, samples |-> Computed(UNION {walk[t].samples : t \in Steps})]

\* The counts under the values a step reads.
CountsRead(p, t) ==
  IF Walked(p, t).error # None THEN {}
  ELSE {p.many[n].counts[t] : n \in {m \in DOMAIN p.many : IF IsSet(query) THEN Kept(p, m, t) ELSE
                                       p.many[m].counts[t] > 0 /\ Todo(p, t) # {}}}
         \cup (IF Todo(p, t) # {} /\ p.counts[t] > 0 THEN {p.counts[t]} ELSE {})

-----------------------------------------------------------------------------
Init ==
  /\ query \in Scenarios
  /\ given = {} /\ acc = [p \in Partials |-> NewPairing]
  /\ sent = <<>> /\ final = NewPairing /\ read = {} /\ answer = None

\* update_batch: one more row of this match group, in whatever order.
Update(p, row) ==
  /\ ~query.single /\ answer = None /\ row \notin given
  /\ acc' = [acc EXCEPT ![p] = Absorb(@, row)]
  /\ given' = given \cup {row}
  /\ UNCHANGED <<query, sent, final, read, answer>>

\* The same where the aggregate is not split into partials.
UpdateSingle(row) ==
  /\ query.single /\ answer = None /\ row \notin given
  /\ final' = Absorb(final, row)
  /\ given' = given \cup {row}
  /\ UNCHANGED <<query, acc, sent, read, answer>>

\* state: the accumulator is not used again.
State(p) ==
  /\ acc[p] # NewPairing
  /\ sent' = Append(sent, acc[p])
  /\ acc' = [acc EXCEPT ![p] = NewPairing]
  /\ UNCHANGED <<query, given, final, read, answer>>

MergeBatch(n) ==
  /\ final' = MergeState(final, sent[n])
  /\ sent' = RemoveAt(sent, n)
  /\ UNCHANGED <<query, given, acc, read, answer>>

Evaluate ==
  /\ answer = None /\ given = query.rows
  /\ sent = <<>> /\ \A p \in Partials : acc[p] = NewPairing
  /\ answer' = Outcome([t \in Steps |-> Walked(final, t)])
  /\ read' = UNION {CountsRead(final, t) : t \in Steps}
  /\ UNCHANGED <<query, given, acc, sent, final>>

Next ==
  \/ \E row \in query.rows : UpdateSingle(row) \/ \E p \in Partials : Update(p, row)
  \/ \E p \in Partials : State(p)
  \/ \E n \in DOMAIN sent : MergeBatch(n)
  \/ Evaluate

Spec == Init /\ [][Next]_vars

-----------------------------------------------------------------------------
\* The labels an output series takes from the one side at a step, and the value
\* beside them, are one row's, through any merge of label pools.
LabelsGoWithValues ==
  \A p \in {final} \cup ToSet(sent) \cup {acc[q] : q \in Partials} : \A t \in Steps :
    IF p.counts[t] = 0 THEN p.values[t] = None /\ p.rows[t] = None
    ELSE \E r \in given : r.id = p.values[t] /\ r.labels = p.pool[p.rows[t]] /\ t \in r.steps

\* A value is read only where one row put one, as the comment on merge_batch says
\* of the lanes it adds: the last of several would depend on who came last. So it
\* is where no two rows of an operand have the same labels at a step.
ReadsOneValue == read \subseteq {1}

\* Whatever order the rows came in and however they were split, the answer is
\* the operator's by definition, the first step's error where it has one, and
\* comes of one row's labels and value at a time.
AnswersTheRows ==
  /\ LabelsGoWithValues /\ ReadsOneValue
  /\ answer # None => answer = Outcome([t \in Steps |-> Expected(query, t)])
=============================================================================
