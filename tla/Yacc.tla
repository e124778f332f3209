-------------------------------- MODULE Yacc --------------------------------
(***************************************************************************)
(* How src/grammar.y is made of upstream's grammar (promql-sync/src/       *)
(* yacc.rs, sidecar.rs and emitter.rs): a goyacc file is read, the rules   *)
(* the roots reach are kept, what names something skipped is dropped, and  *)
(* every alternative gets the action the sidecar has for it.               *)
(*                                                                         *)
(* A file is a sequence of tokens: a directive with its percent sign, a    *)
(* mark, "{}" for a block of Go that closes and "{" for one that does not, *)
(* "<t>" for a type, a line end, which only counts where a directive takes *)
(* its line, and else a name.  Comments and blanks are left out.           *)
(***************************************************************************)
EXTENDS Integers, Sequences, FiniteSets, FiniteSetsExt, SequencesExt

CONSTANT Terminals  \* the names without a lower-case letter

LineEnd == "line end"
ListDirectives == {"%token", "%type", "%left", "%right", "%nonassoc", "%start"}
Associativities == {"%left", "%right", "%nonassoc"}
Directives == ListDirectives \cup {"%union", "%expect", "%prec", "%{}", "%{", "%other"}
Marks == {"%%", ":", "|", ";", "{}", "{", "<t>", LineEnd}

IsName(token) == token \notin Directives \cup Marks

NoPrec == "no %prec"

-----------------------------------------------------------------------------
(***************************************************************************)
(* Reading: a token at a time.                                             *)
(***************************************************************************)
EmptyAlternative == [symbols |-> <<>>, prec |-> NoPrec]

\* What has been read, and what the next token is read as.
Start ==
  [mode |-> "prologue", keyword |-> "%token", names |-> <<>>, precedence |-> <<>>, start |-> <<>>,
   rules |-> <<>>, lhs |-> "", alternatives |-> <<>>, alternative |-> EmptyAlternative]

Fault(p) == [p EXCEPT !.mode = "fault"]

\* A list of names ends at what is no name: precedence keeps the order of the
\* file, %start has one name, and %token and %type say nothing of use.
EndList(p) ==
  LET list == [p EXCEPT !.mode = "declarations", !.names = <<>>]
  IN  CASE p.keyword \in Associativities ->
             IF p.names = <<>> THEN Fault(p)
             ELSE [list EXCEPT !.precedence = Append(@, [assoc |-> p.keyword, tokens |-> p.names])]
        [] p.keyword = "%start" ->
             IF Len(p.names) # 1 THEN Fault(p) ELSE [list EXCEPT !.start = p.names]
        [] OTHER -> list

Declaration(p, token) ==
  CASE token = "%%" -> [p EXCEPT !.mode = "rule"]
    [] token \in ListDirectives -> [p EXCEPT !.mode = "list", !.keyword = token]
    [] token = "%union" -> [p EXCEPT !.mode = "union"]
    [] token \in Directives \ (ListDirectives \cup {"%union"}) -> [p EXCEPT !.mode = "line"]
    [] OTHER -> Fault(p)

\* Before the first name there may be one type, and no second.
InList(p, token) ==
  CASE IsName(token) -> [p EXCEPT !.names = Append(@, token)]
    [] token = "<t>" /\ p.mode = "list" /\ p.names = <<>> /\ p.keyword # "%start" ->
         [p EXCEPT !.mode = "names"]
    [] OTHER -> LET ended == EndList(p) IN IF ended.mode = "fault" THEN ended ELSE Declaration(ended, token)

EndAlternative(p) ==
  [p EXCEPT !.mode = "after", !.alternatives = Append(@, p.alternative), !.alternative = EmptyAlternative]

EndRule(p) ==
  [p EXCEPT !.mode = "rule", !.rules = Append(@, [lhs |-> p.lhs, alternatives |-> p.alternatives]),
            !.alternatives = <<>>]

Rule(p, token) ==
  CASE token = "%%" -> [p EXCEPT !.mode = "end"]
    [] IsName(token) -> [p EXCEPT !.mode = "colon", !.lhs = token]
    [] OTHER -> Fault(p)

\* After an alternative: one more, the semicolon, or the next rule without one.
After(p, token) ==
  CASE token = "|" -> [p EXCEPT !.mode = "alternative"]
    [] token = ";" -> EndRule(p)
    [] OTHER -> Rule(EndRule(p), token)

\* An action ends the alternative; so does what can be no symbol of it.
InAlternative(p, token) ==
  CASE IsName(token) -> [p EXCEPT !.alternative.symbols = Append(@, token)]
    [] token = "%prec" -> [p EXCEPT !.mode = "prec"]
    [] token = "{}" -> EndAlternative(p)
    [] OTHER -> After(EndAlternative(p), token)

\* Variant: the token after %prec is read over.
InPrecOver(p, token) ==
  IF IsName(token) THEN [p EXCEPT !.mode = "alternative"]
  ELSE InAlternative([p EXCEPT !.mode = "alternative", !.alternative.prec = ""], token)

\* %prec takes a name, of no letters if none follows.
InPrec(p, token) ==
  IF IsName(token) THEN [p EXCEPT !.mode = "alternative", !.alternative.prec = token]
  ELSE InAlternative([p EXCEPT !.mode = "alternative", !.alternative.prec = ""], token)

ReadToken(p, token) ==
  CASE p.mode \in {"end", "fault"} -> p
    [] p.mode = "line" -> IF token = LineEnd THEN [p EXCEPT !.mode = "declarations"] ELSE p
    [] p.mode \notin {"end", "fault", "line"} /\ token = LineEnd -> p
    [] OTHER ->
         CASE p.mode = "prologue" ->
                CASE token = "%{}" -> [p EXCEPT !.mode = "declarations"]
                  [] token = "%{" -> Fault(p)
                  [] OTHER -> Declaration([p EXCEPT !.mode = "declarations"], token)
           [] p.mode = "declarations" -> Declaration(p, token)
           [] p.mode \in {"list", "names"} -> InList(p, token)
           [] p.mode = "union" -> IF token = "{}" THEN [p EXCEPT !.mode = "declarations"] ELSE Fault(p)
           [] p.mode = "rule" -> Rule(p, token)
           [] p.mode = "colon" -> IF token = ":" THEN [p EXCEPT !.mode = "alternative"] ELSE Fault(p)
           [] p.mode = "alternative" -> InAlternative(p, token)
           [] p.mode = "prec" -> InPrec(p, token)
           [] p.mode = "after" -> After(p, token)

\* The end of the file is the end of the last rule, and of nothing else.
ReadEnd(p) ==
  CASE p.mode = "alternative" -> EndRule(EndAlternative(p))
    [] p.mode = "prec" -> EndRule(EndAlternative([p EXCEPT !.alternative.prec = ""]))
    [] p.mode = "after" -> EndRule(p)
    [] p.mode \in {"rule", "end"} -> p
    [] OTHER -> Fault(p)

\* The grammar of a file, or none.
Parse(text) ==
  LET p == ReadEnd(FoldLeft(ReadToken, Start, text))
  IN  IF p.mode = "fault" THEN <<>>
      ELSE <<[precedence |-> p.precedence, start |-> p.start, rules |-> p.rules]>>

-----------------------------------------------------------------------------
(***************************************************************************)
(* Emitting.  A sidecar is a record: the roots, the start symbol, the      *)
(* rules and tokens to skip, what tokens are renamed to, the action of an  *)
(* alternative by its rule and its symbols as upstream has them, and that  *)
(* of a rule for the alternatives without one.                             *)
(***************************************************************************)
Renamed(sidecar, token) == IF token \in DOMAIN sidecar.renames THEN sidecar.renames[token] ELSE token

Rendered(sidecar, symbols) ==
  [n \in DOMAIN symbols |-> IF symbols[n] \in Terminals THEN Renamed(sidecar, symbols[n]) ELSE symbols[n]]

\* The rules named by an alternative of the first rule of a name.
Names(grammar, lhs) ==
  LET found == {n \in DOMAIN grammar.rules : grammar.rules[n].lhs = lhs}
      alternatives == grammar.rules[Min(found)].alternatives
  IN  IF found = {} THEN {}
      ELSE (UNION {ToSet(alternatives[n].symbols) : n \in DOMAIN alternatives}) \ (Terminals \cup {"error"})

\* Variant: what is skipped is gone through.
ReachableThrough(grammar, sidecar) ==
  LET reached[n \in 0 .. Len(grammar.rules)] ==
        IF n = 0 THEN sidecar.roots
        ELSE reached[n - 1] \cup UNION {Names(grammar, lhs) : lhs \in reached[n - 1]}
  IN  reached[Len(grammar.rules)]

\* What the roots reach; nothing is reached through a skipped rule.
Reachable(grammar, sidecar) ==
  LET reached[n \in 0 .. Len(grammar.rules)] ==
        IF n = 0 THEN sidecar.roots \ sidecar.skipRules
        ELSE reached[n - 1] \cup ((UNION {Names(grammar, lhs) : lhs \in reached[n - 1]}) \ sidecar.skipRules)
  IN  reached[Len(grammar.rules)]

\* Variant: an alternative goes by its rules only.
KeptWithTokens(alternative, sidecar) ==
  ToSet(alternative.symbols) \cap (sidecar.skipRules \cup {"error"}) = {}

\* An alternative that names a skipped rule or token, or recovers from an error,
\* is dropped.
Kept(alternative, sidecar) ==
  ToSet(alternative.symbols) \cap (sidecar.skipRules \cup sidecar.skipTokens \cup {"error"}) = {}

Placeholder == "placeholder"

\* The action of the alternative, of its rule, or a placeholder.
Action(sidecar, lhs, alternative) ==
  CASE <<lhs, alternative.symbols>> \in DOMAIN sidecar.actions -> sidecar.actions[<<lhs, alternative.symbols>>]
    [] /\ <<lhs, alternative.symbols>> \notin DOMAIN sidecar.actions
       /\ lhs \in DOMAIN sidecar.defaults -> sidecar.defaults[lhs]
    [] OTHER -> Placeholder

AllSkipped == "all alternatives skipped"

KeptAlternatives(rule, sidecar) ==
  FlattenSeq([n \in DOMAIN rule.alternatives |->
                IF Kept(rule.alternatives[n], sidecar) THEN << rule.alternatives[n] >> ELSE <<>>])

EmitRule(rule, sidecar) ==
  LET kept == KeptAlternatives(rule, sidecar)
  IN  [lhs |-> rule.lhs,
       alternatives |->
         IF kept = <<>> THEN <<[symbols |-> <<>>, prec |-> NoPrec, body |-> Placeholder]>>
         ELSE [n \in DOMAIN kept |->
                 [symbols |-> Rendered(sidecar, kept[n].symbols),
                  prec |-> IF kept[n].prec = NoPrec THEN NoPrec ELSE Renamed(sidecar, kept[n].prec),
                  body |-> Action(sidecar, rule.lhs, kept[n])]],
       unmapped |->
         IF kept = <<>> THEN {<<rule.lhs, AllSkipped>>}
         ELSE {<<rule.lhs, kept[n].symbols>> :
                 n \in {m \in DOMAIN kept : Action(sidecar, rule.lhs, kept[m]) = Placeholder}}]

KeptLefts(grammar, sidecar) == Reachable(grammar, sidecar) \ sidecar.skipRules

KeptRules(grammar, lefts) ==
  FlattenSeq([n \in DOMAIN grammar.rules |->
                IF grammar.rules[n].lhs \in lefts THEN << grammar.rules[n] >> ELSE <<>>])

\* The rules in upstream's order, those left out, and what has no action yet.
Emit(grammar, sidecar) ==
  LET lefts == KeptLefts(grammar, sidecar)
      kept == KeptRules(grammar, lefts)
      emitted == [n \in DOMAIN kept |-> EmitRule(kept[n], sidecar)]
  IN  [start |-> sidecar.start,
       precedence |-> [n \in DOMAIN grammar.precedence |->
                         [assoc |-> grammar.precedence[n].assoc,
                          tokens |-> [k \in DOMAIN grammar.precedence[n].tokens |->
                                        Renamed(sidecar, grammar.precedence[n].tokens[k])]]],
       rules |-> [n \in DOMAIN emitted |-> [lhs |-> emitted[n].lhs, alternatives |-> emitted[n].alternatives]],
       skipped |-> {grammar.rules[n].lhs : n \in DOMAIN grammar.rules} \ lefts,
       unmapped |-> UNION {emitted[n].unmapped : n \in DOMAIN emitted}]
=============================================================================
