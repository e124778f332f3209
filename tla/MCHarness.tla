----------------------------- MODULE MCHarness -----------------------------
(***************************************************************************)
(* Three families of setups.  Scanner: every file of up to three lines of  *)
(* an alphabet with each kind of line, well formed or not, and a few       *)
(* longer ones.  Verdicts: loads of floats and of native histograms, under *)
(* intervals of their own and with a clear, below them an eval of every    *)
(* kind of query and expectation, and an engine that answers it right or   *)
(* in one of nine other ways.  Ratchet: corpora of two files with gated,   *)
(* histogram and subquery evals, pinned anew, against engines that break   *)
(* and mend, with a list that is blessed, promoted, edited and corrupted.  *)
(***************************************************************************)
EXTENDS Harness

CONSTANTS TextS, TextT  \* texts of strings

-----------------------------------------------------------------------------
(***************************************************************************)
(* Queries.                                                                *)
(***************************************************************************)
Named(name) == [label |-> "__name__", op |-> "=", values |-> {name}]
Selector(matchers) == [node |-> "selector", matchers |-> matchers]
Node(node, args) == [node |-> node, args |-> args]
Literal == [node |-> "literal"]

Query(text, type, tree, words) ==
  [text |-> text, type |-> type, tree |-> tree, words |-> words, parses |-> TRUE, gates |-> {}, value |-> None]

QueryA == Query("a", "vector", Selector({Named("a")}), {"a"})
QueryAJob == Query("a{job=''}", "vector", Selector({Named("a"), [label |-> "job", op |-> "=", values |-> {""}]}), {"a", "job"})
QueryBoth == Query("a or b", "vector", Node("binary", <<Selector({Named("a")}), Selector({Named("b")})>>), {"a", "or", "b"})
QueryTop == Query("topk(scalar(b), a)", "vector",
                  Node("aggregate", <<Node("call", <<Selector({Named("b")})>>), Selector({Named("a")})>>),
                  {"topk", "scalar", "a", "b"})
QueryRegex == Query("{job=~'x|y'}", "vector", Selector({[label |-> "job", op |-> "=~", values |-> {"x", "y"}]}), {"job", "x", "y"})
QueryUncompiled == Query("{job=~'('}", "vector", Selector({[label |-> "job", op |-> "=~", values |-> Bad]}), {"job"})
QueryWindow == Query("a[5m]", "matrix", Node("range", <<Selector({Named("a")})>>), {"a"})
QuerySub == Query("a[5m:1m]", "vector", Node("subquery", <<Selector({Named("a")})>>), {"a"})
QueryScalar == [Query("1 + 2", "scalar", Literal, {}) EXCEPT !.value = 3]
QueryString == [Query("'s'", "string", Literal, {}) EXCEPT !.value = TextS]
QueryGated == [QueryA EXCEPT !.text = "mad_over_time(a)", !.gates = {"functions"}]
QueryTwoGates == [QueryA EXCEPT !.text = "mad(a anchored)", !.gates = {"functions", "selectors"}]
QueryTrim == [QueryA EXCEPT !.text = "a </ 2", !.parses = FALSE]
QueryStep == [QueryA EXCEPT !.text = "step()", !.parses = FALSE, !.gates = {"durations"}]

-----------------------------------------------------------------------------
(***************************************************************************)
(* Lines.                                                                  *)
(***************************************************************************)
Gap(times) == [is |-> "gap", times |-> times]
RunOf(word, value, step, times) == [is |-> "value", word |-> word, value |-> value, step |-> step, times |-> times]
Item(value) ==
  CASE value = Omitted -> Gap(None)
    [] value = Stale -> RunOf("stale", None, None, None)
    [] OTHER -> RunOf(None, value, None, None)

Described(name, labels, items) ==
  [kind |-> "series", tokens |-> [name |-> name, labels |-> labels, items |-> items]]
Series(name, labels, values) == Described(name, labels, [n \in DOMAIN values |-> Item(values[n])])
A(values) == Series("a", <<>>, values)
AJob(values) == Series("a", <<<<"job", "x">>>>, values)
B(values) == Series("b", <<>>, values)
AEmpty(values) == Series(None, <<<<None, "a">>, <<"job", "">>>>, values)
ATwice(values) == Series("a", <<<<"job", "y">>, <<"zone", "">>, <<"job", "x">>>>, values)
ARuns(items) == Described("a", <<>>, items)

Unread(braces, labels) == [kind |-> "unread", braces |-> braces, labels |-> labels]
Histogram(name) == Unread(TRUE, [n \in {"__name__"} |-> name])

Comment == [kind |-> "comment"]
Clear == [kind |-> "clear", tokens |-> Series("clear", <<>>, <<>>).tokens]
Load(interval) == [kind |-> "load", form |-> "load", interval |-> interval]
LoadNhcb(interval) == [kind |-> "load", form |-> "load_with_nhcb", interval |-> interval]
LoadAvg == [kind |-> "load", form |-> Bad, interval |-> Bad, tokens |-> Series("load_avg", <<>>, <<1>>).tokens]

Eval(modifier, form, time, range, query) ==
  [kind |-> "eval", modifier |-> modifier, form |-> form, at |-> time, range |-> range, query |-> query,
   labels |-> [n \in {"__name__"} |-> "eval"]]
Instant(time, query) == Eval(None, "instant", time, None, query)
Modified(modifier, time, query) == Eval(modifier, "instant", time, None, query)
Over(start, end, step) == [start |-> start, end |-> end, step |-> step]
Ranged(range, query) == Eval(None, "range", None, range, query)

Expect(what, match) == [kind |-> "expect", what |-> what, match |-> match]
ExpectRange(range) == [kind |-> "expect range", range |-> range]
ExpectString(text) == [kind |-> "expect string", text |-> text]
Number(value) == [kind |-> "number", value |-> value]

File(name, lines) == [name |-> name, lines |-> lines]
EveryWay(way) == [text \in {"a", "a{job=''}", "a or b", "topk(scalar(b), a)", "{job=~'x|y'}", "{job=~'('}",
                            "a[5m]", "a[5m:1m]", "1 + 2", "'s'", "mad_over_time(a)", "mad(a anchored)",
                            "a </ 2", "step()"} |-> way]
Once(lines, way) ==
  [pins |-> <<<<File("one", lines)>>>>, builds |-> <<EveryWay(way)>>, list |-> Present(<<>>), edits |-> <<>>,
   changes |-> 0, runs |-> 1, blesses |-> {FALSE}]

-----------------------------------------------------------------------------
Alphabet ==
  <<Blank, Comment, Clear, Load(1), Load(Bad), LoadAvg, Instant(None, QueryA), Instant(Bad, QueryA),
    Eval("ordered", "range", None, Over(0, 1, 1), QueryA), Ranged(Over(2, 1, 1), QueryA),
    A(<<1>>), ARuns(<<RunOf(None, 1, 1, 1)>>), Histogram("a"), Expect("fail", "any"), Expect(Bad, "any"),
    ExpectRange(Over(0, 1, 1)), ExpectString(TextS), ExpectString(Bad), Number(1),
    ARuns(<<RunOf(None, 1, None, MaxRepeat + 1)>>), ARuns(<<RunOf(None, 1, None, 1), Gap(MaxRepeat)>>),
    ARuns(<<RunOf("fresh", None, None, None)>>), ARuns(<<RunOf(None, 1, 1, None)>>)>>

ScannerFiles(n, letters) ==
  {Once([k \in 1 .. n |-> Alphabet[pick[k]]], "right") : pick \in [1 .. n -> letters]}

\* Files that begin with an eval, three lines under it.
EvalFiles ==
  {Once(<<Load(1), A(<<1>>), Blank, Instant(1, QueryA)>> \o [k \in 1 .. 3 |-> Alphabet[pick[k]]], "right") :
     pick \in [1 .. 3 -> {1, 3, 11, 12, 13, 14, 16, 17, 19}]}

-----------------------------------------------------------------------------
Ways == {"right", "wrong", "short", "reversed", "doubled", "halved", "unsupported", "refuses", "broken", "ranged"}

Loaded ==
  <<<<Load(1), A(<<1, 2, 3>>)>>,
    <<Load(1), A(<<40, Stale>>), AJob(<<50, NaN, Omitted>>)>>,
    <<Load(2), A(<<8, Omitted, 9>>), B(<<0>>), Blank, Load(1), AEmpty(<<4, 6>>), ATwice(<<7>>)>>,
    <<Load(1), A(<<9>>), Blank, Load(1), B(<<9>>), Blank, Clear, Load(1), B(<<5>>), AJob(<<1>>)>>,
    <<Load(1), A(<<8>>), Histogram("b")>>,
    <<Load(1), Histogram("a"), B(<<7>>), Blank, Comment, Load(1), AJob(<<40>>)>>,
    <<Load(1), ARuns(<<RunOf(None, 7, 1, 1), Gap(1), RunOf(None, 3, None, None)>>), B(<<5>>), AJob(<<Omitted, 1>>),
      ARuns(<<RunOf(None, 1, None, 1), Gap(MaxRepeat)>>), AJob(<<1>>)>>,
    <<Load(1), ARuns(<<RunOf("stale", None, None, 2)>>), AJob(<<2>>)>>,
    <<LoadNhcb(1), Series("a_bucket", <<<<"le", "1">>>>, <<3>>), A(<<8>>)>>,
    <<Load(1), A(<<8>>), Unread(TRUE, Unknown)>>,
    <<Load(1), A(<<8>>), Unread(TRUE, [n \in {"__name__", "job"} |-> IF n = "job" THEN "x" ELSE "a"]), B(<<2>>)>>>>

Questions ==
  <<<<Instant(1, QueryA)>>, <<Instant(0, QueryA)>>, <<Instant(2, QueryAJob)>>, <<Instant(0, QueryBoth)>>,
    <<Instant(0, QueryTop)>>, <<Instant(0, QueryRegex)>>, <<Instant(0, QueryUncompiled)>>,
    <<Modified("fail", 0, QueryA)>>, <<Instant(0, QueryTrim)>>, <<Instant(1, QueryGated)>>,
    <<Ranged(Over(0, 2, 1), QueryA)>>, <<Ranged(Over(0, 2, 2), QueryBoth)>>,
    <<Instant(0, QueryA), Expect("ordered", None)>>, <<Instant(0, QueryBoth), Expect("ordered", None)>>,
    <<Modified("ordered", 0, QueryBoth)>>, <<Instant(2, QueryWindow), ExpectRange(Over(0, 2, 1))>>>>

Answers ==
  <<<<<<>>, <<A(<<1>>)>>, <<A(<<2>>)>>, <<A(<<3>>)>>, <<A(<<40>>)>>, <<A(<<45>>), AJob(<<55>>)>>>>,
    <<<<A(<<40>>), AJob(<<50>>)>>, <<AJob(<<NaN>>)>>, <<AJob(<<Stale>>)>>, <<A(<<9>>), B(<<0>>), AJob(<<7>>)>>,
      <<AJob(<<>>)>>, <<AJob(<<1>>)>>, <<A(<<8>>), Histogram("a")>>>>,
    <<<<A(<<4>>), B(<<0>>), AJob(<<7>>)>>, <<AJob(<<7>>), B(<<0>>), A(<<4>>)>>, <<A(<<8>>), AJob(<<7>>)>>,
      <<A(<<8>>)>>, <<B(<<5>>), AJob(<<1>>)>>, <<AJob(<<1>>), B(<<5>>)>>, <<A(<<8>>), B(<<2>>)>>>>>>

ManyAnswers ==
  <<<<A(<<1, 2, 3>>)>>, <<A(<<1, 2>>)>>, <<ARuns(<<RunOf(None, 8, None, 1)>>)>>, <<ARuns(<<Gap(1), RunOf(None, NaN, 1, 1)>>)>>,
    <<A(<<4, 6, 9>>), AJob(<<7, 7, 7>>)>>,
    <<A(<<4, 6, 9>>), AJob(<<7>>)>>, <<A(<<40>>), AJob(<<50, NaN>>)>>, <<A(<<Omitted, 1>>)>>>>

\* A question asked with one answer expected after another.
Script1(load, asked, expected, way) ==
  Once(load \o FlattenSeq([n \in DOMAIN expected |-> <<Blank>> \o asked \o expected[n]]), way)

TakesMany(asked) == asked[1].form = "range" \/ (Len(asked) = 2 /\ asked[2].kind = "expect range")

VerdictScripts ==
  {Script1(Loaded[l], Questions[q], Answers[x], way) :
     l \in DOMAIN Loaded, q \in DOMAIN Questions, x \in DOMAIN Answers, way \in {"right", "wrong"}}

OtherWays ==
  {Script1(Loaded[l], Questions[q], Answers[x], way) :
     l \in {2, 3}, q \in DOMAIN Questions, x \in DOMAIN Answers, way \in Ways \ {"right", "wrong"}}

ManyScripts ==
  {Script1(Loaded[l], Questions[q], ManyAnswers, way) :
     l \in {1, 2, 3, 6, 7, 8}, q \in {k \in DOMAIN Questions : TakesMany(Questions[k])}, way \in Ways}

ScalarScripts ==
  {Script1(Loaded[1], <<asked>>, expected, way) :
     asked \in {Instant(1, QueryScalar), Ranged(Over(1, 1, 1), QueryScalar), Ranged(Over(0, 1, 1), QueryScalar),
                Instant(1, QueryString), Instant(0, QueryA), Ranged(Over(0, 1, 1), QueryString)},
     expected \in {<<<<Number(3)>>, <<Number(11)>>, <<Number(1)>>, <<ExpectString(TextS)>>, <<ExpectString(TextT)>>,
                     <<ExpectString(TextS), Number(3)>>, <<Number(3), ExpectString(TextS)>>,
                     <<Expect("warn", "any")>>>>},
     way \in Ways}

-----------------------------------------------------------------------------
Passes(query) == <<Blank, Instant(1, query), A(<<1>>)>>

Base == <<Load(1), A(<<1>>)>>

Twice == Base \o Passes(QueryA) \o Passes(QueryA) \o <<Blank, Load(1), A(<<2>>)>> \o Passes(QueryA)

CoreAndSub == Base \o Passes(QueryA) \o Passes(QuerySub)

WithGated == Base \o Passes(QueryA) \o Passes(QueryGated) \o Passes(QueryTwoGates) \o Passes(QueryStep)

WithHistograms ==
  Base \o <<Histogram("b")>> \o Passes(QueryAJob) \o Passes(QueryBoth) \o Passes(QueryTrim)

Builds ==
  <<EveryWay("right"), EveryWay("unsupported"), [EveryWay("right") EXCEPT !["a"] = "wrong"],
    [EveryWay("right") EXCEPT !["a[5m:1m]"] = "broken"]>>

Ratchet(pins, times) ==
  [pins |-> pins, builds |-> Builds, list |-> Absent, changes |-> times, runs |-> times, blesses |-> BOOLEAN,
   edits |-> <<[state |-> "corrupt", files |-> <<>>], Present("one" :> Keyword("al")), Present("one" :> All)>>]

Corpora ==
  {Ratchet(<<<<File("one", Twice), File("two", CoreAndSub)>>, <<File("one", CoreAndSub)>>>>, 4),
   Ratchet(<<<<File("one", CoreAndSub), File("two", WithHistograms)>>,
             <<File("one", Base \o Passes(QueryA)), File("two", WithHistograms)>>>>, 4),
   Ratchet(<<<<File("one", WithGated), File("durations", CoreAndSub \o Passes(QueryTrim))>>>>, 3)}

MCSetups ==
  <<ScannerFiles(1, DOMAIN Alphabet), ScannerFiles(2, DOMAIN Alphabet),
    ScannerFiles(3, {1, 2, 3, 4, 6, 7, 10, 11, 13, 16, 19}), EvalFiles, VerdictScripts, OtherWays, ManyScripts,
    ScalarScripts, Corpora>>

MCBaseName == [name \in {"a", "b", "a_bucket", "clear", "load_avg", "word", "eval"} |->
                 IF name = "a_bucket" THEN "a" ELSE None]
MCFlags == <<"functions", "durations", "selectors">>
MCGatedByFile == [name \in {"durations"} |-> "durations"]
=============================================================================
