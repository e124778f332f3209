------------------------------- MODULE Parser -------------------------------
(***************************************************************************)
(* Parsing an expression (promql-parser): the actions the grammar's        *)
(* productions run (grammar.y, actions.rs), over the state they share      *)
(* (context.rs), and what parse_generated makes of it all (parser.rs).     *)
(*                                                                         *)
(* The generated LR automaton is left out: an input is the reductions it   *)
(* performs, in their order, and every one of them is an action here.  An  *)
(* action takes the values of the production's symbols off a stack and     *)
(* leaves its own there.  A value is an expression, the modifiers of a     *)
(* binary operator, or Err(()), which carries no message: whoever returns  *)
(* it relies on the parse being refused for it in the end.  A gate, on the *)
(* other hand, adds its error to the context and goes on.                  *)
(***************************************************************************)
EXTENDS Expressions

CONSTANT Inputs   \* a sequence of inputs: their reductions, the features switched on

\* The option each gate reads.
Functions == "promql-experimental-functions"
Selectors == "promql-extended-range-selectors"
Fill == "promql-binop-fill-modifiers"
Flags == {Functions, Selectors, Fill}

\* Of functions.rs EXPERIMENTAL, the names the inputs use.
Experimental == {"sort_by_label", "start", "end", "step", "range", "info"}
ExperimentalAggregators == {"limitk", "limit_ratio"}

VARIABLES
  input,    \* what is parsed
  at,       \* the reduction that is next
  stack,    \* the values of the symbols reduced so far
  errors,   \* ParserCtx's errors: the gate each names, or None
  phase,    \* "parsing", then "parsed" or "rejected"
  parsed    \* the tree, once there is one

parserVars == <<input, at, stack, errors, phase, parsed>>

Err == [kind |-> "err"]
IsErr(value) == value.kind = "err"

Reduction == input.reductions[at]
Top(n) == stack[Len(stack) + 1 - n]                    \* 1 is the last value
TopMost(n) == SubSeq(stack, Len(stack) + 1 - n, Len(stack))

Reducing(rule) ==
  phase = "parsing" /\ at <= Len(input.reductions) /\ Reduction.rule = rule

\* Takes this many values and leaves one.
Leave(taken, value) ==
  /\ stack' = Append(SubSeq(stack, 1, Len(stack) - taken), value)
  /\ at' = at + 1
  /\ UNCHANGED <<input, phase, parsed>>

Report(gates) == errors' = errors \o gates
GateUnless(enabled, flag) == IF enabled THEN <<>> ELSE <<flag>>
Enabled(flag) == flag \in input.options

-----------------------------------------------------------------------------
(***************************************************************************)
(* Literals, parentheses and signs.                                        *)
(***************************************************************************)
\* A NUMBER or a DURATION, as an expression: Err where it cannot be read.
NumberLiteral ==
  /\ Reducing("number")
  /\ Leave(0, IF Reduction.readable THEN Number(Reduction.val) ELSE Err)
  /\ UNCHANGED errors

StringLit ==
  /\ Reducing("string") /\ Leave(0, Text(Reduction.val)) /\ UNCHANGED errors

\* duration_expr: any form of a duration but the literal is not ported.
DurationExpr ==
  /\ Reducing("duration_expr") /\ Leave(Reduction.operands, Err) /\ UNCHANGED errors

\* signed_duration and fill_value_unary: a sign before a literal.
Negated(val) == IF val = NaN THEN NaN ELSE -val

SignedDuration ==
  /\ Reducing("signed_duration")
  /\ LET e == Top(1)
     IN  Leave(1, IF e.kind = "number" /\ Reduction.op = "-" THEN Number(Negated(e.val)) ELSE e)
  /\ UNCHANGED errors

ParenExpr ==
  /\ Reducing("paren") /\ Leave(1, IF IsErr(Top(1)) THEN Err ELSE Paren(Top(1))) /\ UNCHANGED errors

\* unary_from_token: the sign of a number becomes part of it.
UnaryFromToken ==
  /\ Reducing("unary")
  /\ LET e == Top(1)
     IN  Leave(1, CASE IsErr(e) -> Err
                    [] e.kind = "number" -> IF Reduction.op = "-" THEN Number(Negated(e.val)) ELSE e
                    [] OTHER -> Unary(Reduction.op, e))
  /\ UNCHANGED errors

-----------------------------------------------------------------------------
(***************************************************************************)
(* Binary operators.  The modifiers between the operands are an            *)
(* Option<BinModifiers>, which each modifier turns into Some.              *)
(***************************************************************************)
Modifiers(given) == [kind |-> "modifiers", given |-> given]
NoModifiers == [matching |-> DefaultMatching, returnBool |-> FALSE]
Given(mods) == IF mods.given = None THEN NoModifiers ELSE mods.given[1]

BoolModifier ==
  /\ Reducing("bool")
  /\ Leave(0, Modifiers(IF Reduction.present THEN Some([NoModifiers EXCEPT !.returnBool = TRUE])
                        ELSE None))
  /\ UNCHANGED errors

\* on_or_ignoring_on and on_or_ignoring_ignoring.
OnOrIgnoring ==
  /\ Reducing("on_or_ignoring")
  /\ Leave(1, IF IsErr(Top(1)) THEN Err
              ELSE Modifiers(Some([Given(Top(1)) EXCEPT !.matching.labels = Reduction.labels,
                                                        !.matching.on = Reduction.on])))
  /\ UNCHANGED errors

\* group_modifiers_left and group_modifiers_right.
GroupModifier ==
  /\ Reducing("group")
  /\ Leave(1, IF IsErr(Top(1)) THEN Err
              ELSE Modifiers(Some([Given(Top(1)) EXCEPT
                     !.matching.card = IF Reduction.left THEN "many_to_one" ELSE "one_to_many",
                     !.matching.include = Reduction.labels])))
  /\ UNCHANGED errors

\* fill, fill_left, fill_right and the two orders of both: the modifiers, then
\* a value for every side named, fill's one for both.
FillModifier ==
  /\ Reducing("fill")
  /\ LET sides == Reduction.sides
         values == TopMost(Len(sides))
         mods == Top(Len(sides) + 1)
         side(name, was) ==
           LET named == {n \in DOMAIN sides : sides[n] \in {name, "both"}}
           IN  IF named = {} THEN was ELSE Some(values[Max(named)].val)
     IN  Leave(Len(sides) + 1,
               IF IsErr(mods) \/ \E n \in DOMAIN values : values[n].kind # "number" THEN Err
               ELSE LET m == Given(mods)
                    IN  Modifiers(Some([m EXCEPT
                          !.matching.fillLeft = side("left", @),
                          !.matching.fillRight = side("right", @)])))
  /\ UNCHANGED errors

\* newBinaryExpression: the gate reports, and the node is built all the same.
BinaryExpr ==
  /\ Reducing("binary")
  /\ LET lhs == Top(3)
         mods == Top(2)
         rhs == Top(1)
         failed == IsErr(lhs) \/ IsErr(mods) \/ IsErr(rhs)
         matching == IF mods.given = None THEN None ELSE Some(mods.given[1].matching)
         filled == matching # None /\ HasFill(matching[1])
     IN  IF failed THEN Leave(3, Err) /\ UNCHANGED errors
         ELSE /\ Leave(3, Binary(Reduction.op, lhs, rhs, matching, Given(mods).returnBool))
              /\ Report(GateUnless(~filled \/ Enabled(Fill), Fill))

-----------------------------------------------------------------------------
(***************************************************************************)
(* Selectors and what may follow one.  A modifier goes to the selector,    *)
(* through the range around it, or to the subquery, and over anything else *)
(* it is dropped without a word.                                           *)
(***************************************************************************)
VectorSelector ==
  /\ Reducing("selector")
  /\ Leave(0, Selector(Reduction.name, Reduction.matchers))
  /\ UNCHANGED errors

\* matrix_selector_from_expr: the range is a literal, the rest may be anything.
MatrixSelector ==
  /\ Reducing("matrix")
  /\ Leave(2, IF IsErr(Top(2)) \/ Top(1).kind # "number" THEN Err ELSE Matrix(Top(2), Top(1).val))
  /\ UNCHANGED errors

SubqueryExpr ==
  /\ Reducing("subquery")
  /\ LET durations == TopMost(IF Reduction.stepped THEN 2 ELSE 1)
         e == Top(Len(durations) + 1)
     IN  Leave(Len(durations) + 1,
               IF IsErr(e) \/ \E n \in DOMAIN durations : durations[n].kind # "number" THEN Err
               ELSE Subquery(e, Head(durations).val))
  /\ UNCHANGED errors

With(e, field, value) ==
  CASE e.kind \in {"selector", "subquery"} -> [e EXCEPT ![field] = value]
    [] e.kind = "matrix" /\ e.selector.kind = "selector" -> [e EXCEPT !.selector[field] = value]
    [] OTHER -> e

OffsetFromExpr ==
  /\ Reducing("offset")
  /\ Leave(2, IF IsErr(Top(2)) \/ Top(1).kind # "number" THEN Err
              ELSE With(Top(2), "offset", Top(1).val))
  /\ UNCHANGED errors

\* at_timestamp_val: a number the millisecond clock cannot hold is an error.
AtTimestamp ==
  /\ Reducing("at_timestamp")
  /\ Leave(1, IF IsErr(Top(1)) \/ ~Reduction.readable \/ Reduction.val = NaN THEN Err
              ELSE With(Top(1), "timestamp", Some(Reduction.val)))
  /\ UNCHANGED errors

AtModifier ==
  /\ Reducing("at_modifier")
  /\ Leave(1, IF IsErr(Top(1)) THEN Err ELSE With(Top(1), "startOrEnd", Some(Reduction.edge)))
  /\ UNCHANGED errors

\* set_range_modifier: anchored and smoothed.
SetRangeModifier ==
  /\ Reducing("range_modifier")
  /\ LET e == Top(1)
         set == With(e, Reduction.modifier, TRUE)
         vs == IF e.kind = "matrix" THEN set.selector ELSE set
     IN  CASE IsErr(e) -> Leave(1, Err) /\ UNCHANGED errors
           [] ~IsErr(e) /\ ~Enabled(Selectors) -> Leave(1, e) /\ Report(<<Selectors>>)
           [] ~IsErr(e) /\ Enabled(Selectors) ->
                CASE e.kind = "matrix" /\ e.selector.kind # "selector" ->
                       Leave(1, Err) /\ UNCHANGED errors
                  [] e.kind \notin {"selector", "matrix"} -> Leave(1, Err) /\ Report(<<"none">>)
                  [] OTHER -> IF vs.anchored /\ vs.smoothed
                              THEN Leave(1, Err) /\ Report(<<"none">>)
                              ELSE Leave(1, set) /\ UNCHANGED errors

-----------------------------------------------------------------------------
(***************************************************************************)
(* Calls.  The arguments are an Err as a whole where one of them is, or a  *)
(* comma trails them, and then no call is made of them.                    *)
(***************************************************************************)
Args == TopMost(Reduction.args)
ArgsErr == Reduction.trailing \/ \E n \in DOMAIN Args : IsErr(Args[n])

FunctionGate(name) ==
  GateUnless(name \notin Experimental \/ Enabled(Functions), Functions)

FunctionCall ==
  /\ Reducing("call")
  /\ IF ArgsErr THEN Leave(Reduction.args, Err) /\ UNCHANGED errors
     ELSE Leave(Reduction.args, Call(Reduction.name, Args)) /\ Report(FunctionGate(Reduction.name))

\* start(), end(), step() and range(): gated, whatever they are called with,
\* and not ported.
FunctionCallKeyword ==
  /\ Reducing("keyword_call")
  /\ Leave(Reduction.args, Err) /\ Report(FunctionGate(Reduction.name))

TakesParam(op) ==
  op \in {"topk", "bottomk", "quantile", "count_values", "limitk", "limit_ratio"}

\* newAggregateExpr: of several arguments only the last is aggregated, and the
\* first is a parameter where the operator takes one.
AggregateExpr ==
  /\ Reducing("aggregate")
  /\ LET args == Args
         gated == Reduction.op \in ExperimentalAggregators /\ ~Enabled(Functions)
         e == IF args = <<>> THEN Number(0) ELSE Last(args)
         param == IF TakesParam(Reduction.op) /\ Len(args) >= 2 THEN Some(Head(args)) ELSE None
     IN  CASE ArgsErr -> Leave(Reduction.args, Err) /\ UNCHANGED errors
           [] ~ArgsErr /\ gated -> Leave(Reduction.args, Err) /\ Report(<<Functions>>)
           [] OTHER -> /\ Leave(Reduction.args, Aggregation(Reduction.op, e, param,
                                                            Reduction.grouping, Reduction.without))
                       /\ UNCHANGED errors

-----------------------------------------------------------------------------
\* Variant: a whole tree is handed back whatever the gates said.
OutcomeOfTheTree(reported, value) == IF IsErr(value) THEN "rejected" ELSE "parsed"

\* parse_generated: a tree that is whole is still refused for what was reported.
Outcome(reported, value) ==
  IF reported # <<>> \/ IsErr(value) THEN "rejected" ELSE "parsed"

ParseGenerated ==
  /\ phase = "parsing" /\ at > Len(input.reductions)
  /\ phase' = Outcome(errors, Top(1))
  /\ parsed' = IF phase' = "parsed" THEN Some(Top(1)) ELSE None
  /\ UNCHANGED <<input, at, stack, errors>>

ParserInit ==
  /\ \E n \in DOMAIN Inputs : input = Inputs[n]
  /\ at = 1 /\ stack = <<>> /\ errors = <<>> /\ phase = "parsing" /\ parsed = None

Reduce ==
  \/ NumberLiteral \/ StringLit \/ DurationExpr \/ SignedDuration \/ ParenExpr
  \/ UnaryFromToken \/ BoolModifier \/ OnOrIgnoring \/ GroupModifier \/ FillModifier
  \/ BinaryExpr \/ VectorSelector \/ MatrixSelector \/ SubqueryExpr \/ OffsetFromExpr
  \/ AtTimestamp \/ AtModifier \/ SetRangeModifier \/ FunctionCall \/ FunctionCallKeyword
  \/ AggregateExpr

ParserNext == Reduce \/ ParseGenerated

-----------------------------------------------------------------------------
\* The feature a reduction is one use of, if it is an experimental one.
FeatureOf(r) ==
  CASE r.rule \in {"call", "keyword_call"} /\ r.name \in Experimental -> {Functions}
    [] r.rule = "aggregate" /\ r.op \in ExperimentalAggregators -> {Functions}
    [] r.rule = "range_modifier" -> {Selectors}
    [] r.rule = "fill" -> {Fill}
    [] OTHER -> {}

\* No query is accepted that was written with a feature that is off, wherever in
\* it the feature was used: a tree that no longer shows it is refused as well.
AcceptedIsEnabled ==
  phase = "parsed" =>
    \A n \in DOMAIN input.reductions : FeatureOf(input.reductions[n]) \subseteq input.options
=============================================================================
