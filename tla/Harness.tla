------------------------------ MODULE Harness ------------------------------
(***************************************************************************)
(* The promqltest suite (promql-conformance/tests/promqltest.rs): every    *)
(* script of the pinned corpus is scanned, then run command by command     *)
(* against the engine, and the outcomes are checked against the list of    *)
(* what is supported, or that list is made from them.  Between runs the    *)
(* engine is rebuilt, the corpus is pinned anew and the list is edited.    *)
(***************************************************************************)
EXTENDS Verdicts

CONSTANT Setups  \* sets of setups: the pins, the builds, the lists a hand writes, and how much happens

VARIABLES
  setup,       \* the setup
  pin,         \* which corpus is pinned: its files, each a name and its lines
  build,       \* which engine is built: the way it answers each query
  list,        \* SUPPORTED.toml: absent, corrupt, or the batches of the files in it
  phase,       \* idle, scan, run or judge
  blessing,    \* whether the run is to rewrite the list
  file, at,    \* the file reached, and the line or the command there
  scripts,     \* the commands read of each file
  active,      \* the load blocks above the command, since the last clear
  seen,        \* how often each query was asked at a time in this file
  outcomes,    \* what came of the evals
  result,      \* of the last run: none, unreadable, refused, green, red or blessed
  violations,  \* what the check found
  inventory,   \* the roadmap written with the list, none at first
  changes,     \* changes made between runs
  runs,        \* runs started
  totals,      \* of the last run judged: the corpus, and the evals of each category
  proved       \* what passed in a green run since the list was last rewritten

scanned == <<pin, file, at, scripts>>
judged == <<list, result, violations, inventory, totals, proved>>
given == <<setup, build, blessing, changes, runs>>
vars == <<scanned, judged, given, phase, active, seen, outcomes>>

Absent == [state |-> "absent", files |-> <<>>]
Files == setup.pins[pin]
Way(query) == setup.builds[build][query.text]

Present(files) == [state |-> "present", files |-> files]

Init ==
  /\ \E n \in DOMAIN Setups : setup \in Setups[n]
  /\ pin = 1 /\ build = 1 /\ list = setup.list
  /\ phase = "idle" /\ blessing = FALSE
  /\ file = 1 /\ at = 1 /\ scripts = <<>>
  /\ active = <<>> /\ seen = <<>> /\ outcomes = <<>>
  /\ result = "none" /\ violations = {} /\ inventory = <<>>
  /\ changes = 0 /\ runs = 0 /\ totals = [pin |-> 0, counts |-> <<>>] /\ proved = {}

-----------------------------------------------------------------------------
(***************************************************************************)
(* Scanning: the whole corpus before anything runs.                        *)
(***************************************************************************)
StartRun(bless) ==
  /\ phase = "idle" /\ runs < setup.runs
  /\ phase' = "scan" /\ blessing' = bless /\ runs' = runs + 1
  /\ file' = 1 /\ at' = 1 /\ scripts' = [n \in DOMAIN Files |-> <<>>]
  /\ active' = <<>> /\ seen' = <<>> /\ outcomes' = <<>>
  /\ result' = "none" /\ violations' = {}
  /\ UNCHANGED <<setup, pin, build, list, inventory, changes, totals, proved>>

Lines == Clean(Files[file].lines)

Scanning == phase = "scan" /\ file <= Len(Files)

SkipBlank ==
  /\ Scanning /\ at <= Len(Lines) /\ Lines[at].kind = "blank"
  /\ at' = at + 1
  /\ UNCHANGED <<pin, file, scripts, judged, given, phase, active, seen, outcomes>>

Read(kind) ==
  /\ Scanning /\ at <= Len(Lines) /\ Lines[at].kind = kind
  /\ CommandAt(Lines, at).kind = kind
  /\ scripts' = [scripts EXCEPT ![file] = Append(@, CommandAt(Lines, at))]
  /\ at' = NextLine(Lines, at)
  /\ UNCHANGED <<pin, file, judged, given, phase, active, seen, outcomes>>

\* One file that does not parse stops the suite before it runs anything.
RefuseCorpus ==
  /\ Scanning /\ at <= Len(Lines) /\ Lines[at].kind # "blank"
  /\ CommandAt(Lines, at).kind = "fault"
  /\ phase' = "idle" /\ result' = "unreadable"
  /\ UNCHANGED <<scanned, given, list, violations, inventory, totals, proved, active, seen, outcomes>>

NextFile ==
  /\ Scanning /\ at > Len(Lines)
  /\ file' = file + 1 /\ at' = 1
  /\ UNCHANGED <<pin, scripts, judged, given, phase, active, seen, outcomes>>

RunScripts ==
  /\ phase = "scan" /\ file > Len(Files)
  /\ phase' = "run" /\ file' = 1 /\ at' = 1
  /\ UNCHANGED <<pin, scripts, judged, given, active, seen, outcomes>>

-----------------------------------------------------------------------------
(***************************************************************************)
(* Running: an eval sees the blocks above it since the last clear.         *)
(***************************************************************************)
Running == phase = "run" /\ file <= Len(Files)

Command == scripts[file][at]

HasCommand(kind) == Running /\ at <= Len(scripts[file]) /\ Command.kind = kind

RunClear ==
  /\ HasCommand("clear")
  /\ active' = <<>> /\ at' = at + 1
  /\ UNCHANGED <<pin, file, scripts, judged, given, phase, seen, outcomes>>

RunLoad ==
  /\ HasCommand("load")
  /\ active' = Append(active, BlockOfLoad(Command)) /\ at' = at + 1
  /\ UNCHANGED <<pin, file, scripts, judged, given, phase, seen, outcomes>>

Asked(eval) == IF CaseKey(eval) \in DOMAIN seen THEN seen[CaseKey(eval)] + 1 ELSE 1

OutcomeOf(eval) ==
  [file |-> Files[file].name, line |-> eval.line, id |-> <<CaseKey(eval), Asked(eval)>>,
   verdict |-> RunEval(Way(eval.query), Files[file].name, eval, active),
   expected_rows |-> ExpectedCount(eval), unchecked_annotations |-> eval.expect.annotations,
   histograms |-> HasHistograms(eval, active),
   subquery |-> eval.query.parses /\ HasSubquery(eval.query.tree)]

RunEvalCommand ==
  /\ HasCommand("eval")
  /\ outcomes' = Append(outcomes, OutcomeOf(Command))
  /\ seen' = (CaseKey(Command) :> Asked(Command)) @@ seen
  /\ at' = at + 1
  /\ UNCHANGED <<pin, file, scripts, judged, given, phase, active>>

NextScript ==
  /\ Running /\ at > Len(scripts[file])
  /\ file' = file + 1 /\ at' = 1 /\ active' = <<>> /\ seen' = <<>>
  /\ UNCHANGED <<pin, scripts, judged, given, phase, outcomes>>

EndRun ==
  /\ phase = "run" /\ file > Len(Files)
  /\ phase' = "judge"
  /\ UNCHANGED <<scanned, judged, given, active, seen, outcomes>>

-----------------------------------------------------------------------------
(***************************************************************************)
(* Judging: the list is read after the run, even to be rewritten.          *)
(***************************************************************************)
\* A bless makes a list where there is none, and never mends a bad one.
Loads == list.state = "present" /\ ~BadKeyword(list.files)

Counts == [c \in {"core", "native histograms", "subquery", "flag-gated"} |->
             CategoryCounts(outcomes, c).total]

Passing == {<<o.file, o.id>> : o \in {p \in Ran(outcomes) : IsPass(p.verdict)}}

RefuseList ==
  /\ phase = "judge" /\ ~Loads /\ ~(blessing /\ list.state = "absent")
  /\ phase' = "idle" /\ result' = "refused"
  /\ UNCHANGED <<scanned, given, list, violations, inventory, totals, proved, active, seen, outcomes>>

Bless ==
  /\ phase = "judge" /\ blessing /\ (Loads \/ list.state = "absent")
  /\ list' = Present(FromOutcomes(outcomes, list.files))
  /\ inventory' = Inventory(outcomes)
  /\ phase' = "idle" /\ result' = "blessed"
  /\ totals' = [pin |-> pin, counts |-> Counts] /\ proved' = {}
  /\ UNCHANGED <<scanned, given, violations, active, seen, outcomes>>

Check ==
  /\ phase = "judge" /\ ~blessing /\ Loads
  /\ violations' = CheckList(list.files, outcomes)
  /\ phase' = "idle" /\ result' = IF violations' = {} THEN "green" ELSE "red"
  /\ totals' = [pin |-> pin, counts |-> Counts]
  /\ proved' = IF violations' = {} THEN proved \cup Passing ELSE proved
  /\ UNCHANGED <<scanned, given, list, inventory, active, seen, outcomes>>

-----------------------------------------------------------------------------
(***************************************************************************)
(* Between runs.                                                           *)
(***************************************************************************)
Change ==
  /\ phase = "idle" /\ changes < setup.changes
  /\ changes' = changes + 1
  /\ result' = "none" /\ outcomes' = <<>> /\ violations' = {}
  /\ scripts' = <<>> /\ active' = <<>> /\ seen' = <<>> /\ file' = 1 /\ at' = 1 /\ blessing' = FALSE
  /\ UNCHANGED <<setup, phase, inventory, totals, runs>>

Rebuild ==
  /\ Change
  /\ \E n \in DOMAIN setup.builds : build' = n
  /\ UNCHANGED <<pin, list, proved>>

Repin ==
  /\ Change
  /\ \E n \in DOMAIN setup.pins : pin' = n
  /\ UNCHANGED <<build, list, proved>>

\* A hand promotes a file to "all", or writes something else: what it takes off the
\* list is no longer held.
Promote ==
  /\ Change
  /\ list.state = "present"
  /\ \E name \in DOMAIN list.files : list' = [list EXCEPT !.files[name] = All]
  /\ UNCHANGED <<pin, build, proved>>

EditList ==
  /\ Change
  /\ \E n \in DOMAIN setup.edits : list' = setup.edits[n]
  /\ proved' = {}
  /\ UNCHANGED <<pin, build>>

Scan == SkipBlank \/ Read("clear") \/ Read("load") \/ Read("eval") \/ RefuseCorpus \/ NextFile \/ RunScripts

Run == RunClear \/ RunLoad \/ RunEvalCommand \/ NextScript \/ EndRun

Judge == RefuseList \/ Bless \/ Check

Next ==
  \/ \E bless \in setup.blesses : StartRun(bless)
  \/ Scan \/ Run \/ Judge
  \/ Rebuild \/ Repin \/ Promote \/ EditList

Spec == Init /\ [][Next]_vars

-----------------------------------------------------------------------------
(***************************************************************************)
(* What a script says, read off its lines alone.                           *)
(***************************************************************************)
\* How many intervals an item covers, and what it says of the j-th of them from 0: a
\* run of values grows by its step, and a stale run is stale only where it begins.
Intervals(item) == IF item.times = None THEN 1 ELSE item.times + (IF item.is = "gap" THEN 0 ELSE 1)

SaysAt(item, j) ==
  LET step == IF item.step = None THEN 0 ELSE item.step
  IN  CASE item.is = "gap" -> Omitted
        [] item.is # "gap" /\ item.word # None -> IF j = 0 THEN Stale ELSE NaN
        [] OTHER -> IF item.value \in {Stale, NaN} THEN NaN ELSE item.value + j * step

\* The series a line says, or none: items that are words but `stale`, a step without
\* a run, a count or a line beyond the bounds say nothing.  Only a line without a
\* name in front has empty labels.
Says(line) ==
  IF "tokens" \notin DOMAIN line THEN <<>>
  ELSE LET items == line.tokens.items
           sound == \A k \in DOMAIN items :
                      /\ items[k].times # None => items[k].times <= MaxRepeat
                      /\ items[k].is = "value" =>
                           /\ items[k].times = None => items[k].step = None
                           /\ items[k].word \in {None, "stale"}
           values == FlattenSeq([k \in DOMAIN items |->
                       [j \in 1 .. Intervals(items[k]) |-> SaysAt(items[k], j - 1)]])
           head == IF line.tokens.name = None THEN <<>> ELSE <<<<None, line.tokens.name>>>>
           pairs == head \o SelectSeq(line.tokens.labels, LAMBDA pair : head = <<>> \/ pair[2] # "")
       IN  IF ~sound \/ Len(values) > MaxRepeat + 1 THEN <<>>
           ELSE <<[labels |-> [n \in DOMAIN pairs |->
                                 IF pairs[n][1] = None THEN <<"__name__", pairs[n][2]>> ELSE pairs[n]],
                   values |-> values]>>

\* The command each line belongs to: itself for the first of a block and the one
\* after a clear, none for a blank one.
Owner(lines) ==
  LET owner[n \in 0 .. Len(lines)] ==
        CASE n = 0 -> 0
          [] n > 0 /\ lines[n].kind = "blank" -> 0
          [] OTHER -> IF owner[n - 1] = 0 \/ lines[owner[n - 1]].kind = "clear" THEN n ELSE owner[n - 1]
  IN  [n \in DOMAIN lines |-> owner[n]]

Heads(lines) == LET owner == Owner(lines) IN {n \in DOMAIN lines : owner[n] = n}

\* The lines under a command.
Under(lines, i) == LET owner == Owner(lines) IN {n \in DOMAIN lines : n > i /\ owner[n] = i}

\* The lines of an eval that count: those up to a bare number.
Counting(lines, i) ==
  LET under == Under(lines, i)
      numbers == {n \in under : lines[n].kind = "number"}
  IN  {n \in under : \A m \in numbers : n <= m}

IsValueRow(line) == line.kind \notin {"expect range", "expect string", "expect", "number"}

ValueRows(lines, i) == {n \in Counting(lines, i) : IsValueRow(lines[n])}

Commands(f) == {scripts[f][n] : n \in DOMAIN scripts[f]}

\* Every line that is not blank is a command or under exactly one, in order: each
\* line of a load is a series or is kept as unread, and each value row of an eval
\* down to a bare number is a row, at its place among them, or is kept as unread.
LinesReadOnce ==
  phase = "run" /\ file = 1 /\ at = 1 =>
    \A f \in DOMAIN Files :
      LET lines == Clean(Files[f].lines)
      IN  /\ [n \in DOMAIN scripts[f] |-> scripts[f][n].line] = InOrder(Heads(lines))
          /\ \A command \in Commands(f) :
               LET i == command.line
                   values == ValueRows(lines, i)
                   Place(n) == Cardinality({m \in values : m <= n})
               IN  CASE command.kind = "load" ->
                          /\ command.parsed =
                               FlattenSeq([k \in 1 .. Cardinality(Under(lines, i)) |-> Says(lines[i + k])])
                          /\ Len(command.parsed) + Len(command.unsupported) = Cardinality(Under(lines, i))
                     [] command.kind = "eval" ->
                          /\ Len(command.unsupported) =
                               Cardinality({n \in values : Says(lines[n]) = <<>>})
                          /\ (command.expected.kind = "series") = (\E n \in values : Says(lines[n]) # <<>>)
                          /\ command.expected.kind = "series" =>
                               ToSet(command.expected.rows) =
                                 {[desc |-> Says(lines[n])[1], pos |-> Place(n)] :
                                    n \in {m \in values : Says(lines[m]) # <<>>}}
                     [] OTHER -> TRUE

-----------------------------------------------------------------------------
\* The load lines an eval sees: under a load, after the last clear above it.
LoadLines(lines, i) ==
  LET owner == Owner(lines)
      clears == {n \in 1 .. i - 1 : owner[n] = n /\ lines[n].kind = "clear"}
  IN  {n \in 1 .. i - 1 :
         /\ owner[n] \notin {0, n} /\ lines[owner[n]].kind = "load"
         /\ \A c \in clears : c < n}

TrueLabels(pairs) ==
  [name \in {pairs[n][1] : n \in {m \in DOMAIN pairs : pairs[m][2] # ""}} |->
     pairs[Max({n \in DOMAIN pairs : pairs[n][1] = name /\ pairs[n][2] # ""})][2]]

\* What line n writes: the values it says, each at its time, under the labels that are
\* not empty.
Written(line, n, interval) ==
  LET said == Says(line)
      values == said[1].values
  IN  IF said = <<>> THEN {}
      ELSE {[labels |-> TrueLabels(said[1].labels), t |-> (j - 1) * interval, at |-> <<n, j>>, v |-> values[j]] :
              j \in {m \in DOMAIN values : values[m] # Omitted}}

\* The samples the lines write: of the writes to a label set at a time, the last.
WrittenStore(lines, i) ==
  LET owner == Owner(lines)
      under == LoadLines(lines, i)
      writes == UNION {Written(lines[n], n, lines[owner[n]].interval) : n \in under}
      described == {TrueLabels(Says(lines[n])[1].labels) : n \in {m \in under : Says(lines[m]) # <<>>}}
      LastOf(found) ==
        CHOOSE w \in found : \A v \in found : v.at[1] < w.at[1] \/ (v.at[1] = w.at[1] /\ v.at[2] <= w.at[2])
  IN  [x \in described |->
         LET of == {w \in writes : w.labels = x}
         IN  [t \in {w.t : w \in of} |-> LastOf({w \in of : w.t = t}).v]]

\* The store an eval is asked of is what the lines above it write since the last
\* clear: every block at its own interval, the later line winning, and nothing from
\* before the clear or from below.
StoreIsWhatWasLoaded ==
  HasCommand("eval") =>
    MergeBlocks(SelectSeq(active, LAMBDA block : block.series # <<>>)) = WrittenStore(Lines, Command.line)

-----------------------------------------------------------------------------
\* Two values agree: they are the same, or numbers within the tolerance.
Agree(want, got) ==
  \/ want = got
  \/ /\ {want, got} \cap {Stale, NaN} = {}
     /\ Precision * Abs(want - got) < Max({Abs(want) + Abs(got), MinPositive})

ExpectsFailure(lines, i) ==
  \/ lines[i].modifier = "fail"
  \/ \E n \in Counting(lines, i) : lines[n].kind = "expect" /\ lines[n].what = "fail"

ExpectsOrder(lines, i) ==
  \/ lines[i].modifier = "ordered"
  \/ \E n \in Counting(lines, i) : lines[n].kind = "expect" /\ lines[n].what = "ordered"

\* The window of the rows: that of a range query, or the last one an instant one declares.
RowsRange(lines, i) ==
  LET declared == {n \in Counting(lines, i) : lines[n].kind = "expect range"}
  IN  CASE declared # {} -> lines[Max(declared)].range
        [] declared = {} /\ lines[i].form = "range" -> lines[i].range
        [] OTHER -> None

\* What the text of an eval says of an answer, given in points per label set and the order.
Asserts(lines, i, answer) ==
  LET rows == InOrder(ValueRows(lines, i))
      Desc(k) == Says(lines[rows[k]])[1]
      Labels(k) == LabelsOf(Desc(k).labels)
      range == RowsRange(lines, i)
      answered == answer.rows
      Points(labels) == UNION {ToSet(answered[n].points) :
                                 n \in {m \in DOMAIN answered : answered[m].labels = labels}}
      Wanted(k) == {Point(range.start + (j - 1) * range.step, Desc(k).values[j]) :
                      j \in {m \in DOMAIN Desc(k).values : Desc(k).values[m] # Omitted}}
      Value(k) == IF Desc(k).values = <<>> \/ Desc(k).values[1] = Omitted THEN NaN ELSE Desc(k).values[1]
      TwoAtATime(labels) ==
        \E n, m \in DOMAIN answered : \E j \in DOMAIN answered[n].points, k \in DOMAIN answered[m].points :
          /\ <<n, j>> # <<m, k>> /\ answered[n].labels = labels /\ answered[m].labels = labels
          /\ answered[n].points[j].t = answered[m].points[k].t
      SameLabels == {Labels(k) : k \in DOMAIN rows} = {answered[n].labels : n \in DOMAIN answered}
      last == {n \in Counting(lines, i) : lines[n].kind \in {"number", "expect string"}}
      stated == IF rows # <<>> \/ last = {} THEN "rows" ELSE lines[Max(last)].kind
  IN  CASE stated = "expect string" -> answer.is = "string" /\ answer.value = lines[Max(last)].text
        [] stated = "number" ->
             \/ answer.is = "scalar" /\ Agree(lines[Max(last)].value, answer.value)
             \/ /\ answer.is = "matrix" /\ Len(answered) = 1 /\ Len(answered[1].points) = 1
                /\ Agree(lines[Max(last)].value, answered[1].points[1].v)
        [] stated = "rows" /\ range # None ->
             /\ answer.is = "matrix" /\ SameLabels
             /\ \A k \in DOMAIN rows :
                  /\ ~TwoAtATime(Labels(k))
                  /\ {p.t : p \in Wanted(k)} = {p.t : p \in Points(Labels(k))}
                  /\ \A p \in Wanted(k) : \E q \in Points(Labels(k)) : p.t = q.t /\ Agree(p.v, q.v)
        [] OTHER ->
             /\ answer.is \in {"vector", "matrix"} /\ SameLabels
             /\ \A n \in DOMAIN answered : Len(answered[n].points) = 1
             /\ \A k \in DOMAIN rows : \A q \in Points(Labels(k)) : Agree(Value(k), q.v)
             /\ ExpectsOrder(lines, i) =>
                  \A k \in DOMAIN rows : Labels(k) = answered[k].labels

\* May the query read a line whose values did not load?
ReadsUnloaded(lines, i) ==
  \E n \in LoadLines(lines, i) :
    /\ Says(lines[n]) = <<>>
    /\ LET labels == SeriesLabels(lines[n])
           query == lines[i].query
       IN  IF query.parses
           THEN \E m \in Selectors(query.tree) :
                  ~Uncompiled(m) /\ (labels = Unknown \/
                    \A p \in m : LET v == IF p.label \in DOMAIN labels THEN labels[p.label] ELSE ""
                                 IN  IF p.op \in {"=", "=~"} THEN v \in p.values ELSE v \notin p.values)
           ELSE labels = Unknown \/ ("__name__" \in DOMAIN labels /\ labels["__name__"] \in query.words)

FairVerdict(lines, i) ==
  LET directive == lines[i]
      way == Way(directive.query)
      store == WrittenStore(lines, i)
      start == IF directive.at = None THEN 0 ELSE directive.at
      answer == CASE directive.form = "range" -> InnerRange(way, directive.query, store, directive.range)
                  [] directive.form = "instant" /\ way = "ranged" ->
                       InnerRange(way, directive.query, store, [start |-> start, end |-> start, step |-> 1])
                  [] OTHER -> InnerInstant(way, directive.query, store, start)
  IN  CASE (\E n \in ValueRows(lines, i) : Says(lines[n]) = <<>>) \/ ReadsUnloaded(lines, i) -> "skipped"
        [] OTHER ->
             CASE answer.is = "raised" ->
                    CASE answer.what = "unsupported" -> "unsupported"
                      [] answer.what = "user error" -> IF ExpectsFailure(lines, i) THEN "pass" ELSE "fail"
                      [] OTHER -> "fail"
               [] OTHER -> IF ~ExpectsFailure(lines, i) /\ Asserts(lines, i, answer) THEN "pass" ELSE "fail"

\* No label set is expected twice, which no answer could be.
RowsDiffer(lines, i) ==
  LET rows == {n \in ValueRows(lines, i) : Says(lines[n]) # <<>>}
  IN  \A m, n \in rows :
        m # n => LabelsOf(Says(lines[m])[1].labels) # LabelsOf(Says(lines[n])[1].labels)

\* An eval is judged by what its script says: not at all where a row, or data its
\* query may read, could not be read; otherwise it passes exactly if the answer
\* of the engine over what was loaded is the one its lines state.
VerdictsAreFair ==
  phase \in {"run", "judge"} /\ outcomes # <<>> =>
    LET o == Last(outcomes)
        lines == Clean((CHOOSE f \in ToSet(Files) : f.name = o.file).lines)
    IN  RowsDiffer(lines, o.line) => o.verdict.is = FairVerdict(lines, o.line)

-----------------------------------------------------------------------------
Complete == phase = "idle" /\ result \in {"green", "red", "blessed"}

SumOver(set, Part(_)) == FoldSet(LAMBDA x, sum : sum + Part(x), 0, set)

\* Every eval that ran is in one category and one file: the columns of the tables
\* add up to the totals, every core eval passes or has one reason, and nothing that
\* is gated counts as passed.
TablesAddUp ==
  Complete /\ outcomes # <<>> =>
    LET files == PerFile(outcomes)
        table == Inventory(outcomes)
        core == table.categories["core"]
    IN  /\ SumOver(DOMAIN files, LAMBDA f : files[f].evals + files[f].gated) = Len(outcomes)
        /\ SumOver(DOMAIN table.categories, LAMBDA c : table.categories[c].total) = Len(outcomes)
        /\ SumOver(DOMAIN files, LAMBDA f : CoreEvals(files[f])) = core.total
        /\ SumOver(DOMAIN files, LAMBDA f : files[f].core_passed) = core.passed
        /\ SumOver(DOMAIN files, LAMBDA f : files[f].passed) = Cardinality(Passing)
        /\ core.total - core.passed =
             table.missing + SumOver(DOMAIN table.unattributed, LAMBDA f : Cardinality(table.unattributed[f]))
        /\ SumOver(DOMAIN table.flags, LAMBDA n : table.flags[n].total) >= table.categories["flag-gated"].total
        /\ \A f \in DOMAIN files : files[f].passed <= files[f].evals

\* While the corpus stays pinned no rebuilt engine moves an eval from one category
\* to another: the denominators hold still.
DenominatorsHoldStill ==
  [][totals'.pin = totals.pin => totals'.counts = totals.counts]_vars

\* A list just made from a run is one the same run is green against.
BlessedIsGreen == result = "blessed" => CheckList(list.files, outcomes) = {}

\* A green run proves what the list promises: what passed in a green run since the
\* list was last written still passes, unless the corpus has lost it from a file
\* declared "all"; and what passes is exactly what is declared.
RatchetHolds ==
  result = "green" =>
    /\ Passing = {<<o.file, o.id>> : o \in {p \in Ran(outcomes) : Covers(list.files, p.file, p.id)}}
    /\ \A p \in proved :
         \/ p \in Passing
         \/ /\ IsAll(list.files[p[1]])
            /\ ~\E o \in Ran(outcomes) : o.file = p[1] /\ o.id = p[2]
=============================================================================
