------------------------------ MODULE MCVendor ------------------------------
(***************************************************************************)
(* Three families of setups.  Copies: two sets, three revisions that share *)
(* some files, two faults, and three pulls or two and an edit.  Grammars:  *)
(* three rules of alternatives from a small set, under several sidecars.   *)
(* Texts: every sequence of up to four tokens after the first %%, and      *)
(* every one of up to three before it.                                     *)
(***************************************************************************)
EXTENDS Vendor, TLC

NoActions == [x \in {} |-> ""]

SidecarOf(roots, skipRules, skipTokens, renames, actions, defaults) ==
  [roots |-> roots, start |-> "s", skipRules |-> skipRules, skipTokens |-> skipTokens,
   renames |-> renames, actions |-> actions, defaults |-> defaults]

Plain == SidecarOf({"s"}, {}, {}, NoActions, <<"s", <<"X">>>> :> "own", "b" :> "default")

Text(declared, rules) == declared \o <<"%%">> \o rules

Contents(grammar, lex, corpus) ==
  "parser" :> (("g" :> grammar) @@ ("l" :> lex)) @@ "promqltest" :> ("t" :> corpus)

FilesOf == "parser" :> <<"g", "l">> @@ "promqltest" :> <<"t">>

-----------------------------------------------------------------------------
GrammarOne == Text(<<"%left", "X">>, <<"s", ":", "X", "{}", "|", "s", "Y", ";">>)
GrammarTwo == Text(<<"%left", "X">>, <<"s", ":", "b", "{}", "b", ":", "Y", "%prec", "X", "{}">>)

Copies ==
  {[revisions |-> <<Contents(GrammarOne, <<"l1">>, <<"t1">>), Contents(GrammarTwo, <<"l1">>, <<"t2">>),
                    Contents(GrammarTwo, <<"l2">>, <<"t1">>)>>,
    files |-> FilesOf, sidecar |-> Plain, pulls |-> bound[1], faults |-> bound[2], edits |-> bound[3],
    checks |-> TRUE, generates |-> bound[3] = 1] :
     bound \in {<<2, 2, 1>>, <<3, 2, 0>>}}

Generating(text, sidecar) ==
  [revisions |-> <<Contents(text, <<"l1">>, <<"t1">>)>>, files |-> FilesOf, sidecar |-> sidecar,
   pulls |-> 0, faults |-> 0, edits |-> 0, checks |-> FALSE, generates |-> TRUE]

-----------------------------------------------------------------------------
\* Rules from pairs of alternatives, each written with an action or without.
Alternatives ==
  <<<<"X">>, <<"a", "Y">>, <<"s", "X", "s", "%prec", "Y">>, <<"a", "b">>, <<"X", "E">>, <<"error">>, <<>>>>
AlternativesOfA == <<<<"Y">>, <<"b">>, <<"X", "a">>, <<"b", "E">>, <<>>>>
AlternativesOfB == <<<<"X">>, <<"E">>, <<"Y", "b">>>>

RuleOf(lhs, first, second) ==
  <<lhs, ":">> \o first \o <<"{}", "|">> \o second \o <<";">>

\* The last rule ends without a semicolon, at an action.
GrammarTexts ==
  {Text(<<"%token", "<t>", "X", "Y", LineEnd, "%left", "X", "%right", "Y", "E", "%start", "s">>,
        RuleOf("s", Alternatives[m], Alternatives[n]) \o RuleOf("a", AlternativesOfA[k], AlternativesOfA[l])
          \o <<"b", ":">> \o AlternativesOfB[j] \o <<"{}", "c", ":", "a", "X", "{}">>) :
     m \in DOMAIN Alternatives, n \in {2, 3, 4, 7}, k \in DOMAIN AlternativesOfA,
     l \in {2, 4}, j \in DOMAIN AlternativesOfB}

Sidecars ==
  {Plain, SidecarOf({"s", "b"}, {}, {"E"}, "X" :> "Z" @@ "E" :> "W", <<"a", <<"Y">>>> :> "own", NoActions),
   SidecarOf({"s"}, {"b"}, {"E"}, NoActions, NoActions, "s" :> "default"),
   SidecarOf({"c", "a"}, {"a"}, {}, "Y" :> "X", NoActions, NoActions)}

Grammars == {Generating(text, sidecar) : text \in GrammarTexts, sidecar \in Sidecars}

-----------------------------------------------------------------------------
Sequences(n, tokens) == UNION {[1 .. k -> tokens] : k \in 0 .. n}

RuleTexts ==
  {Generating(Text(<<"%left", "X">>, rules), Plain) :
     rules \in Sequences(4, {"s", "X", ":", "|", ";", "{}", "%prec", "%%"})}
  \cup {Generating(Text(<<"%left", "X">>, <<"s", ":">> \o rules), Plain) :
          rules \in Sequences(4, {"s", "X", ":", "|", ";", "{}", "%prec", LineEnd})}

DeclarationTexts ==
  {Generating(Text(declared, <<"s", ":", "X", ";">>), Plain) :
     declared \in Sequences(3, {"%left", "%start", "%union", "%expect", "%{}", "{}", "X", "<t>", LineEnd, "%%"})}

MCSetups == <<Copies, Grammars, RuleTexts, DeclarationTexts>>
MCTerminals == {"X", "Y", "Z", "E", "W"}
MCSets == {"parser", "promqltest"}
=============================================================================
