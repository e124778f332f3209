------------------------------- MODULE MCQuery -------------------------------
(* Expressions over five series of two metrics: every kind of node, every   *)
(* modifier, and the errors each can run into, over a grid, at instants,    *)
(* and over grids no query may have.                                        *)
EXTENDS Query

-----------------------------------------------------------------------------
(* The reductions of an expression, as the automaton performs them.         *)
R(rule) == [rule |-> rule]
Sel(name, matchers) == <<[rule |-> "selector", name |-> name, matchers |-> matchers]>>
Eq(n, v) == [name |-> n, op |-> "=", value |-> v]
Ne(n, v) == [name |-> n, op |-> "!=", value |-> v]
Num(v) == <<[rule |-> "number", readable |-> TRUE, val |-> v]>>
Unreadable == <<[rule |-> "number", readable |-> FALSE, val |-> 0]>>
Str(v) == <<[rule |-> "string", val |-> v]>>
Par(e) == e \o <<R("paren")>>
Sign(op, e) == e \o <<[rule |-> "unary", op |-> op]>>
Off(e, d) == e \o d \o <<R("offset")>>
Signed(op, d) == d \o <<[rule |-> "signed_duration", op |-> op]>>
At(e, v) == e \o <<[rule |-> "at_timestamp", readable |-> TRUE, val |-> v]>>
AtEdge(e, edge) == e \o <<[rule |-> "at_modifier", edge |-> edge]>>
Mat(e, d) == e \o d \o <<R("matrix")>>
Sub(e, d, steps) == e \o d \o steps \o <<[rule |-> "subquery", stepped |-> steps # <<>>]>>
Mod(e, m) == e \o <<[rule |-> "range_modifier", modifier |-> m]>>
Fun(name, args) ==
  FlattenSeq(args) \o <<[rule |-> "call", name |-> name, args |-> Len(args), trailing |-> FALSE]>>
Agg(op, args, grouping, without) ==
  FlattenSeq(args) \o <<[rule |-> "aggregate", op |-> op, args |-> Len(args), trailing |-> FALSE,
                         grouping |-> grouping, without |-> without]>>
Plain == <<[rule |-> "bool", present |-> FALSE]>>
Bool == <<[rule |-> "bool", present |-> TRUE]>>
On(m, labels) == m \o <<[rule |-> "on_or_ignoring", on |-> TRUE, labels |-> labels]>>
Ignoring(m, labels) == m \o <<[rule |-> "on_or_ignoring", on |-> FALSE, labels |-> labels]>>
Left(m, labels) == m \o <<[rule |-> "group", left |-> TRUE, labels |-> labels]>>
Right(m, labels) == m \o <<[rule |-> "group", left |-> FALSE, labels |-> labels]>>
Filled(m, sides, values) == m \o FlattenSeq(values) \o <<[rule |-> "fill", sides |-> sides]>>
Bin(lhs, op, mods, rhs) == lhs \o mods \o rhs \o <<[rule |-> "binary", op |-> op]>>

Up == Sel("up", <<>>)
Lim == Sel("lim", <<>>)
LimA == Sel("lim", <<Eq("job", "a")>>)
OnJob == On(Plain, <<"job">>)
Time == Fun("time", <<>>)
OneAboveTwo == Bin(Num(1), ">", Plain, Num(2))
By(op, labels, e) == Agg(op, <<e>>, labels, FALSE)

Selecting ==
  <<Up, Sel("", <<Eq("job", "a"), Ne("pod", "")>>), Sel("up", <<Ne("job", "a")>>), Off(Up, Num(1)),
    At(Up, 2), AtEdge(Up, "end"), Off(AtEdge(At(Up, 3), "start"), Num(1)),
    Off(AtEdge(Up, "start"), Signed("-", Num(1))), Off(Par(Up), Num(1)), At(Num(1), 2),
    Off(Up, Signed("+", Num(2))), Mat(Up, Num(3)), At(Par(Mat(Up, Num(3))), 2),
    AtEdge(Mat(Up, Num(3)), "end"), Mat(Up, Num(0)), Off(Mat(Up, Num(2)), Num(1)),
    Sub(Up, Num(3), Num(1)), Off(Sub(Up, Num(3), <<>>), Num(1)), Mat(By("sum", {}, Up), Num(2)),
    Off(Up, Num(120)), Off(Up, Signed("-", Num(120))), At(Up, 120), Mat(Up, Num(120)), Off(Up, Num(NaN)),
    Fun("sum_over_time", <<Mat(Up, Num(120))>>), Off(AtEdge(Up, "end"), Signed("-", Num(120)))>>

Calling ==
  <<Fun("abs", <<Up>>), Fun("abs", <<Sign("-", Up)>>), Fun("clamp", <<Up, Num(2), Num(4)>>),
    Fun("clamp", <<Up, Num(4), Num(2)>>), Fun("clamp_max", <<Up, Time>>),
    Fun("clamp_max", <<Up, Bin(Num(5), "-", Plain, Num(1))>>),
    Fun("clamp_max", <<Up, Fun("scalar", <<Lim>>)>>), Fun("minute", <<>>), Fun("minute", <<Up>>),
    Fun("timestamp", <<Up>>), Fun("timestamp", <<Par(Off(Up, Num(1)))>>),
    Fun("timestamp", <<Fun("abs", <<Up>>)>>), Fun("sum_over_time", <<Mat(Up, Num(3))>>),
    Fun("count_over_time", <<Par(Mat(Up, Num(2)))>>), Fun("last_over_time", <<Mat(Lim, Num(3))>>),
    Fun("changes", <<Off(Mat(Up, Num(4)), Num(1))>>), Fun("deriv", <<Mat(Up, Num(3))>>),
    Fun("sum_over_time", <<Sub(Up, Num(3), <<>>)>>), Fun("count_over_time", <<Mat(Par(Up), Num(2))>>),
    Fun("absent", <<Sel("up", <<Eq("job", "z"), Eq("pod", "1"), Ne("pod", "2")>>)>>),
    Fun("absent", <<Lim>>), Fun("absent", <<Par(By("sum", {"job"}, LimA))>>),
    Fun("absent_over_time", <<Mat(LimA, Num(1))>>), Fun("scalar", <<LimA>>), Fun("scalar", <<Up>>),
    Bin(Fun("scalar", <<LimA>>), "+", Plain, Num(1)), Fun("vector", <<Time>>),
    Fun("vector", <<Fun("scalar", <<LimA>>)>>), Time, Bin(Fun("pi", <<>>), "*", Plain, Num(2)),
    Bin(Fun("vector", <<Num(1)>>), "+", Plain, Fun("vector", <<Num(2)>>)),
    Fun("sort", <<Up>>), Fun("sort_by_label", <<Up, Str("pod")>>),
    Fun("sort_by_label", <<Up, Par(Str("pod"))>>), Fun("abs", <<Num(1)>>), Fun("abs", <<>>),
    Fun("pi", <<Num(1)>>), Fun("sort_by_label", <<>>), Fun("clamp_max", <<Up, Fun("time", <<Num(1)>>)>>),
    Fun("foo", <<Up>>), Fun("ABS", <<Up>>), Fun("minute", <<Up, Up>>), Fun("sum_over_time", <<Up>>),
    Mod(Mat(Up, Num(3)), "anchored"), Fun("changes", <<Mod(Mat(Up, Num(3)), "anchored")>>),
    Fun("count_over_time", <<Mod(Mat(Up, Num(3)), "anchored")>>),
    Fun("changes", <<Mod(Mat(Up, Num(3)), "smoothed")>>), Mod(Up, "smoothed"),
    Fun("absent_over_time", <<Mod(Mat(Up, Num(3)), "smoothed")>>),
    Mod(Mod(Up, "smoothed"), "anchored"), Mod(Num(1), "anchored"), Mod(Mat(Par(Up), Num(1)), "anchored")>>

Operating ==
  <<Bin(Up, ">", Plain, Num(2)), Bin(Num(2), "<", Plain, Up), Bin(Up, ">", Bool, Num(2)),
    Bin(Num(9), "-", Plain, Up), Bin(Up, "*", Plain, Time), Sign("-", Up), Sign("+", Up),
    Sign("-", Num(2)), Sign("-", Time), Sign("-", Par(Num(2))), Bin(Num(1), ">", Bool, Num(2)),
    Bin(Up, "+", Left(OnJob, <<>>), Lim), Bin(Up, "-", Left(Ignoring(Plain, <<"pod">>), <<>>), Lim),
    Bin(Lim, "*", Right(OnJob, <<>>), Up), Bin(Lim, "-", Right(OnJob, <<"pod">>), Up),
    Bin(Up, ">", Left(OnJob, <<"__name__">>), Lim),
    Bin(Up, ">", OnJob, Lim), Bin(Up, "+", Plain, Up), Bin(Up, "==", Plain, Off(Up, Num(2))),
    Bin(By("sum", {"job"}, Up), "-", Plain, Lim), Bin(By("sum", {"job"}, Up), "<=", On(Bool, <<"job">>), Lim),
    Bin(By("sum", {"job"}, Up), "+", On(Plain, <<"job", "pod">>), Lim),
    Bin(Up, "+", Ignoring(Plain, <<"pod">>), Lim),
    Bin(Up, "and", OnJob, Lim), Bin(Up, "or", Plain, Lim), Bin(Lim, "or", OnJob, Up),
    Bin(Up, "unless", OnJob, LimA), Bin(Lim, "unless", Ignoring(Plain, <<"pod">>), Up),
    Bin(Up, "+", Filled(Left(OnJob, <<>>), <<"both">>, <<Num(0)>>), LimA),
    Bin(By("max", {"job"}, Up), "-", Filled(Plain, <<"left", "right">>, <<Num(10), Num(20)>>), Lim),
    Bin(Lim, "-", Filled(OnJob, <<"right">>, <<Signed("-", Num(3))>>), By("min", {"job"}, LimA)),
    Bin(LimA, "*", Filled(Right(OnJob, <<>>), <<"right", "left">>, <<Num(2), Num(3)>>), Up),
    Sign("-", Par(Bin(Up, ">", Plain, Num(2))))>>

Aggregating ==
  <<By("sum", {"job"}, Up), By("sum", {}, Up), By("max", {"__name__", "x"}, Sel("", <<Eq("job", "a")>>)),
    Agg("count", <<Up>>, {"pod"}, TRUE), By("group", {"pod"}, Fun("timestamp", <<Up>>)),
    By("sum", {"job"}, Fun("abs", <<Sign("-", Up)>>)), By("sum", {"job"}, Fun("sum_over_time", <<Mat(Up, Num(3))>>)),
    By("count", {"job"}, Bin(Up, "+", Left(OnJob, <<>>), Lim)),
    By("count", {"pod"}, Bin(Up, "and", OnJob, Lim)), By("sum", {"job"}, Bin(Up, ">", Plain, Num(2))),
    By("sum", {"job"}, Fun("sort", <<Up>>)), By("sum", {"job"}, Fun("absent", <<LimA>>)),
    By("sum", {"pod"}, Agg("min", <<Up>>, {"pod"}, TRUE)), By("min", {"job"}, By("max", {"job", "pod"}, Up)),
    Fun("absent", <<Bin(Up, "+", Plain, Off(Up, Num(4)))>>),
    By("sum", {"job"}, Fun("last_over_time", <<Mat(Sel("", <<Ne("job", "b")>>), Num(2))>>)),
    Fun("count_over_time", <<Mat(Sel("", <<Ne("pod", "2")>>), Num(2))>>), Fun("abs", <<Sel("", <<Eq("job", "a")>>)>>),
    By("sum", {}, Num(1)), Agg("sum", <<Up, Lim>>, {}, FALSE), Agg("sum", <<>>, {}, FALSE),
    Agg("topk", <<Num(1), Up>>, {}, FALSE), Agg("limitk", <<Num(1), Up>>, {}, FALSE),
    Agg("quantile", <<OneAboveTwo, Up>>, {}, FALSE), By("sum", {}, Sub(Up, Num(1), <<>>))>>

Breaking ==
  <<OneAboveTwo, Bin(Par(OneAboveTwo), "and", Plain, Up), Bin(Up, "+", Bool, Lim),
    Bin(Up, "and", Plain, Num(1)), Bin(Up, "+", Left(OnJob, <<"job">>), Lim), Bin(Up, "+", OnJob, Num(1)),
    Bin(Up, "and", Left(OnJob, <<>>), Lim), Bin(Up, "or", Filled(Plain, <<"both">>, <<Num(0)>>), Lim),
    Bin(Up, "-", Filled(Plain, <<"left">>, <<Num(0)>>), Num(1)), Bin(Str("a"), "+", Plain, Up),
    Bin(Up, "+", Plain, Fun("vector", <<OneAboveTwo>>)), Bin(Up, "+", Plain, Fun("abs", <<Num(1)>>)),
    Bin(Fun("abs", <<Num(1)>>), "+", Plain, Up), Bin(Up, "+", Plain, Sign("-", Bin(Up, "and", Plain, Num(1)))),
    Bin(Up, "and", Plain, Fun("sum_over_time", <<Sub(Par(OneAboveTwo), Num(1), <<>>)>>)),
    Str("a"), Par(Str("a")), Sign("-", Str("a")), Sign("-", Mat(Up, Num(1))),
    Unreadable, Sign("-", Unreadable), Bin(Up, "+", Plain, Par(Unreadable)),
    Mat(Up, Num(1) \o <<[rule |-> "duration_expr", operands |-> 1]>>), Off(Up, Unreadable),
    Sub(Up, Num(1), Unreadable), Up \o <<[rule |-> "at_timestamp", readable |-> FALSE, val |-> 0]>>,
    Bin(Up, "+", Filled(Plain, <<"both">>, <<Unreadable>>), Lim),
    AtEdge(Unreadable, "end"), Mod(Unreadable, "anchored"), Fun("abs", <<Unreadable>>),
    Up \o <<[rule |-> "call", name |-> "sort_by_label", args |-> 1, trailing |-> TRUE]>>,
    <<[rule |-> "keyword_call", name |-> "start", args |-> 0]>>,
    By("sum", {}, <<[rule |-> "keyword_call", name |-> "step", args |-> 0]>>)>>

Scripts == Selecting \o Calling \o Operating \o Aggregating \o Breaking

MCInputs ==
  LET of(script) ==
        LET features == UNION {FeatureOf(script[n]) : n \in DOMAIN script}
        IN  <<[reductions |-> script, options |-> features]>>
              \o (IF features = {} THEN <<>> ELSE <<[reductions |-> script, options |-> Flags \ features]>>)
  IN  FlattenSeq([n \in DOMAIN Scripts |-> of(Scripts[n])])

-----------------------------------------------------------------------------
S(name, job, pod, samples) ==
  [labels |-> (MetricName :> name) @@ ("job" :> job) @@ (IF pod = "" THEN <<>> ELSE ("pod" :> pod)),
   samples |-> samples]

MCStore ==
  <<S("up", "a", "1", <<<<0, 1>>, <<1, 2>>, <<2, 2>>, <<4, 3>>>>),
    S("up", "a", "2", <<<<1, 5>>, <<3, 6>>>>), S("up", "b", "1", <<<<2, 7>>>>),
    S("lim", "a", "", <<<<0, 4>>, <<2, 4>>, <<3, 1>>>>), S("lim", "b", "", <<<<3, 9>>>>)>>

MCLabelNames == {MetricName, "job", "pod", "x"}

MCNamesIn == [n \in MCLabelNames |-> Some(<<n>>)]

Ask(start, end, step, lookback, instant) ==
  [start |-> start, end |-> end, step |-> step, lookback |-> lookback, instant |-> instant]

MCAsks ==
  <<Ask(1, 5, 2, 2, FALSE), Ask(3, 3, 1, 0, FALSE), Ask(3, 3, 1, DefaultLookback, TRUE),
    Ask(1, 5, 0, 2, FALSE), Ask(5, 1, 1, 2, FALSE), Ask(1, 120, 100, 2, FALSE), Ask(1, 5, 2, 120, FALSE),
    Ask(1, 9, 1, 2, FALSE), Ask(-120, -120, 1, DefaultLookback, TRUE), Ask(42, 42, 1, 42, FALSE)>>

MCIntMin == -128

-----------------------------------------------------------------------------
(* Matches on labels whose names are quoted in the query, and hold what a    *)
(* list of names is separated or ended by.                                   *)
OnQuoted(name) == Bin(Up, "*", On(Plain, <<name>>), Lim)

MCQuotedInputs ==
  LET scripts == <<OnQuoted("job"), OnQuoted("job, pod"), OnQuoted("job)")>>
  IN  [n \in DOMAIN scripts |-> [reductions |-> scripts[n], options |-> {}]]

MCQuotedNames == {MetricName, "job", "pod", "job, pod", "job)"}

MCQuotedNamesIn ==
  [n \in MCQuotedNames |->
     CASE n = "job, pod" -> Some(<<"job", "pod">>) [] n = "job)" -> None [] OTHER -> Some(<<n>>)]

Quoted(name, value) ==
  [labels |-> (MetricName :> name) @@ ("job, pod" :> value), samples |-> <<<<3, 2>>>>]

MCQuotedStore == <<Quoted("up", "a"), Quoted("up", "b"), Quoted("lim", "a"), Quoted("lim", "b")>>

MCQuotedAsks == <<Ask(3, 3, 1, DefaultLookback, TRUE)>>
=============================================================================
