----------------------------- MODULE Ungrouped -----------------------------
(***************************************************************************)
(* The two aggregates planned with no group key: absent and                *)
(* absent_over_time (promql-engine/src/absent.rs), which answer 1 at the   *)
(* steps no series reached, and scalar (promql-engine/src/to_scalar.rs),   *)
(* which answers at every step the value of the only series that reached   *)
(* it. Both keep one slot per step, and a partial state is a samples list  *)
(* like any input, folded again by the final aggregate.                    *)
(***************************************************************************)
EXTENDS Integers, Sequences, FiniteSets, SequencesExt, FiniteSetsExt

CONSTANTS
  Steps,       \* the steps of the grid
  Partials,    \* the partial accumulators of the aggregate
  Queries,     \* [kind, rows, matchers, single]; a row is an id and its values by step
  None,        \* a step nothing reached
  NaN          \* one of its own, or the sign of several

ASSUME StepsAssumption == IsFiniteSet(Steps) /\ Steps \subseteq Nat
ASSUME MarksAssumption == None # NaN /\ {None, NaN} \cap Nat = {}
ASSUME QueriesAssumption ==
  \A q \in Queries :
    /\ IsFiniteSet(q.rows) /\ q.matchers \in Seq(ToSet(q.matchers))
    /\ \A row \in q.rows : \A t \in DOMAIN row.values : t \in Steps /\ row.values[t] \in Nat \cup {NaN}

VARIABLES query, given, acc, sent, final, answer
vars == <<query, given, acc, sent, final, answer>>

MetricName == "__name__"

Empty == [t \in Steps |-> None]

\* A samples list: values by the steps it has samples at.
List(said, steps) == [t \in steps |-> said[t]]
Reached(said) == {t \in Steps : said[t] # None}

-----------------------------------------------------------------------------
\* A row, or another accumulator's state: a step reached again is NaN for good
\* under scalar, and only reached under absent.
Fold(said, list) ==
  [t \in Steps |->
     IF t \notin DOMAIN list THEN said[t]
     ELSE IF query.kind = "absent" THEN 1
     ELSE IF said[t] = None THEN list[t] ELSE NaN]

\* What leaves at the end: the empty steps at 1, or every step, NaN where empty.
Answered(said) ==
  IF query.kind = "absent" THEN [t \in Steps \ Reached(said) |-> 1]
  ELSE [t \in Steps |-> IF said[t] = None THEN NaN ELSE said[t]]

\* Variant: a second equality matcher replaces the first.
AfterMatcherReplacing(kept, m) ==
  IF m.name = MetricName THEN kept
  ELSE IF m.op = "=" THEN [has |-> kept.has \cup {m.name},
                           out |-> {l \in kept.out : l.name # m.name}
                                     \cup {[name |-> m.name, value |-> m.value]}]
  ELSE [kept EXCEPT !.out = {l \in @ : l.name # m.name}]

\* The labels kept once one more matcher is read; a name set once is never set again.
AfterMatcher(kept, m) ==
  IF m.name = MetricName THEN kept
  ELSE IF m.op = "=" /\ m.name \notin kept.has
  THEN [has |-> kept.has \cup {m.name},
        out |-> kept.out \cup {[name |-> m.name, value |-> m.value]}]
  ELSE [kept EXCEPT !.out = {l \in @ : l.name # m.name}]

\* The answer of absent has labels of the selector's, there being no series to
\* have them from.
LabelsFor(matchers) == FoldLeft(AfterMatcher, [has |-> {}, out |-> {}], matchers).out

-----------------------------------------------------------------------------
Init ==
  /\ query \in Queries
  /\ given = {} /\ acc = [p \in Partials |-> Empty] /\ sent = <<>> /\ final = Empty
  /\ answer = None

\* update_batch, in whatever partial the row reaches, at whatever time.
Update(p, row) ==
  /\ ~query.single /\ answer = None /\ row \in query.rows \ given
  /\ acc' = [acc EXCEPT ![p] = Fold(@, row.values)]
  /\ given' = given \cup {row}
  /\ UNCHANGED <<query, sent, final, answer>>

\* The same where the aggregate is not split into partials.
UpdateSingle(row) ==
  /\ query.single /\ answer = None /\ row \in query.rows \ given
  /\ final' = Fold(final, row.values)
  /\ given' = given \cup {row}
  /\ UNCHANGED <<query, acc, sent, answer>>

\* Variant: a step several reached is left out of the state.
StateOfNumbers(p) ==
  /\ acc[p] # Empty
  /\ sent' = Append(sent, List(acc[p], {t \in Reached(acc[p]) : acc[p][t] # NaN}))
  /\ acc' = [acc EXCEPT ![p] = Empty]
  /\ UNCHANGED <<query, given, final, answer>>

State(p) ==
  /\ acc[p] # Empty
  /\ sent' = Append(sent, List(acc[p], Reached(acc[p])))
  /\ acc' = [acc EXCEPT ![p] = Empty]
  /\ UNCHANGED <<query, given, final, answer>>

MergeBatch(n) ==
  /\ final' = Fold(final, sent[n])
  /\ sent' = RemoveAt(sent, n)
  /\ UNCHANGED <<query, given, acc, answer>>

\* One row at the end of the input, whether or not anything came.
Evaluate ==
  /\ answer = None /\ given = query.rows /\ sent = <<>> /\ \A p \in Partials : acc[p] = Empty
  /\ answer' = [labels |-> IF query.kind = "absent" THEN LabelsFor(query.matchers) ELSE {},
                values |-> Answered(final)]
  /\ UNCHANGED <<query, given, acc, sent, final>>

Next ==
  \/ \E row \in query.rows : UpdateSingle(row) \/ \E p \in Partials : Update(p, row)
  \/ \E p \in Partials : State(p)
  \/ \E n \in DOMAIN sent : MergeBatch(n)
  \/ Evaluate

Spec == Init /\ [][Next]_vars

-----------------------------------------------------------------------------
\* absent has a label of a selector when its first equality matcher on that name is
\* the last matcher of any kind on it, the rule upstream keeps for its history.
LabelsOfTheSelector ==
  answer # None /\ query.kind = "absent" =>
    answer.labels =
      {[name |-> query.matchers[n].name, value |-> query.matchers[n].value] :
         n \in {k \in DOMAIN query.matchers :
                  /\ query.matchers[k].name # MetricName /\ query.matchers[k].op = "="
                  /\ \A j \in DOMAIN query.matchers :
                       j # k /\ query.matchers[j].name = query.matchers[k].name =>
                         j < k /\ query.matchers[j].op # "="}}

\* However the rows were split, ordered and merged: absent answers 1 at exactly the
\* steps no row reached; scalar answers at every step the value of the only row
\* there, and NaN where none or several reached it, even where each partial saw one.
\* absent has the labels of its selector.
AnswersTheInput ==
  /\ LabelsOfTheSelector
  /\ answer # None =>
       LET at(t) == {row \in query.rows : t \in DOMAIN row.values}
           only(t) == CHOOSE row \in at(t) : TRUE
       IN  answer.values =
             IF query.kind = "absent" THEN [t \in {u \in Steps : at(u) = {}} |-> 1]
             ELSE [t \in Steps |-> IF Cardinality(at(t)) = 1 THEN only(t).values[t] ELSE NaN]
=============================================================================
