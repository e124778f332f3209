------------------------------- MODULE Vendor -------------------------------
(***************************************************************************)
(* promql-sync (promql-sync/src/main.rs): the directories of files copied  *)
(* from upstream, the manifest of their hashes, the revision they are      *)
(* pinned at, and the grammar generated from one of them.  A pull writes   *)
(* each file as it is fetched, then the report, the manifest and last the  *)
(* revision; it may fail at any call, and be cut in the middle of a write. *)
(* Between commands hands edit the copies.                                 *)
(*                                                                         *)
(* Contents are sequences of tokens, and a hash stands for its contents: a *)
(* manifest has the contents themselves.                                   *)
(***************************************************************************)
EXTENDS Yacc

CONSTANTS
  Sets,         \* the names of the vendored sets
  GrammarSet,   \* the set the grammar is one of
  Setups        \* sets of setups: upstream's revisions, the sidecar, and how much happens

\* Upstream has every file of every set at every revision, and a set has some file.
\* No token is what stands for no %prec.  A token is renamed to a token.
IsSetup(s) ==
  /\ 1 \in DOMAIN s.revisions
  /\ \A set \in Sets : s.files[set] \in Seq(STRING) /\ s.files[set] # <<>>
  /\ \A r \in DOMAIN s.revisions :
       /\ s.revisions[r] = [set \in Sets |-> s.revisions[r][set]]
       /\ \A set \in Sets :
            s.revisions[r][set] \in [ToSet(s.files[set]) -> Seq(STRING \ {NoPrec})]
  /\ \A token \in DOMAIN s.sidecar.renames : s.sidecar.renames[token] \in Terminals

ASSUME GrammarSetAssumption == GrammarSet \in Sets

ASSUME SetupsAssumption == \A n \in DOMAIN Setups : \A s \in Setups[n] : IsSetup(s)

VARIABLES
  setup,      \* the setup
  disk,       \* set -> file -> its contents, of the files that are there
  manifest,   \* set -> Torn, or the hashes it has: file -> contents
  meta,       \* set -> Torn, or the revision pinned and whether the translations are there
  pull,       \* <<>>, or the pull that runs
  generated,  \* grammar.y: <<>>, or what it was generated from and what was emitted
  last,       \* the last command and its exit code, until something changes
  uncertain,  \* the sets where a pull stopped with the manifest saved and the revision not
  edits, pulls, faults  \* how much happened

kept == <<generated, uncertain>>
counts == <<setup, edits, pulls, faults>>
vars == <<disk, manifest, meta, pull, last, kept, counts>>

None == "none"
Torn == [torn |-> TRUE]
Edited == <<"edited">>
Cut == <<>>   \* the contents of a file whose write was cut

Files(set) == setup.files[set]

Upstream(target, set) == setup.revisions[target][set]

ToResult(command, code) == [command |-> command, code |-> code]

Nothing == ToResult([kind |-> None], 0)

Init ==
  /\ \E n \in DOMAIN Setups : setup \in Setups[n]
  /\ disk = setup.revisions[1] /\ manifest = setup.revisions[1]
  /\ meta = [set \in Sets |-> [pinned |-> 1, translations |-> TRUE]]
  /\ pull = <<>> /\ generated = <<>> /\ last = Nothing /\ uncertain = {}
  /\ edits = 0 /\ pulls = 0 /\ faults = 0

Idle == pull = <<>>

\* The copies with one file written, there before or not.
Written(copies, file, contents) ==
  [f \in DOMAIN copies \cup {file} |-> IF f = file THEN contents ELSE copies[f]]

-----------------------------------------------------------------------------
(***************************************************************************)
(* check: no mutation, and every set unless one is named.                  *)
(***************************************************************************)
\* Of a set: broken where the manifest does not load or a file is not there, else
\* how many files drift, are absent from the manifest, or are strays.
Strays(set) == DOMAIN disk[set] \ ToSet(Files(set))

\* Variant: only what the manifest names is compared.
DriftedNamed(set) ==
  {f \in ToSet(Files(set)) \cap DOMAIN manifest[set] : manifest[set][f] # disk[set][f]}

Drifted(set) ==
  {f \in ToSet(Files(set)) : f \notin DOMAIN manifest[set] \/ manifest[set][f] # disk[set][f]}

Broken(set) == manifest[set] = Torn \/ ~ToSet(Files(set)) \subseteq DOMAIN disk[set]

CheckIntegrity(sets) ==
  CASE \E set \in sets : Broken(set) -> 2
    [] (\A set \in sets : ~Broken(set)) /\ \E set \in sets : Drifted(set) \cup Strays(set) # {} -> 1
    [] OTHER -> 0

Check(sets) ==
  /\ Idle /\ setup.checks
  /\ last' = ToResult([kind |-> "check", sets |-> sets], CheckIntegrity(sets))
  /\ UNCHANGED <<disk, manifest, meta, pull, kept, counts>>

-----------------------------------------------------------------------------
(***************************************************************************)
(* pull: one set at a time.                                                *)
(***************************************************************************)
\* A manifest that does not load counts as one that says nothing.
StartPull(set, target, dry) ==
  /\ Idle /\ pulls < setup.pulls
  /\ pull' = <<[set |-> set, target |-> target, dry |-> dry, step |-> "fetch", fetched |-> <<>>,
                prior |-> IF manifest[set] = Torn THEN <<>> ELSE manifest[set]]>>
  /\ pulls' = pulls + 1 /\ last' = Nothing
  /\ UNCHANGED <<setup, disk, manifest, meta, kept, edits, faults>>

Pull == pull[1]

At(step) == ~Idle /\ Pull.step = step

Fetched(p) == [p EXCEPT !.step = IF Len(p.fetched) = Len(Files(p.set)) THEN "report" ELSE "fetch"]

WithFile(file, contents) == [disk EXCEPT ![Pull.set] = Written(@, file, contents)]

NextFile == Files(Pull.set)[Len(Pull.fetched) + 1]

\* A file is fetched and, unless the run is dry, written at once.
Fetch ==
  /\ At("fetch")
  /\ LET contents == Upstream(Pull.target, Pull.set)[NextFile]
     IN  /\ pull' = <<Fetched([Pull EXCEPT !.fetched = Append(@, contents)])>>
         /\ disk' = IF Pull.dry THEN disk ELSE WithFile(NextFile, contents)
  /\ UNCHANGED <<manifest, meta, last, kept, counts>>

NewHashes == [f \in ToSet(Files(Pull.set)) |->
                Pull.fetched[CHOOSE n \in DOMAIN Files(Pull.set) : Files(Pull.set)[n] = f]]

\* Variant: against what is on disk.
AnyChangedOnDisk == \E f \in DOMAIN NewHashes : f \notin DOMAIN disk[Pull.set] \/ disk[Pull.set][f] # NewHashes[f]

\* Does a file differ from what the manifest had when the pull started?
AnyChanged == \E f \in DOMAIN NewHashes : f \notin DOMAIN Pull.prior \/ Pull.prior[f] # NewHashes[f]

Done == pull' = <<>> /\ last' = ToResult([kind |-> "pull", set |-> Pull.set, target |-> Pull.target,
                                          dry |-> Pull.dry], 0)

\* The report is written in any case, and is the end of a pull that changes nothing.
WriteReport ==
  /\ At("report")
  /\ IF Pull.dry \/ ~AnyChanged THEN Done ELSE pull' = <<[Pull EXCEPT !.step = "manifest"]>> /\ last' = last
  /\ UNCHANGED <<disk, manifest, meta, kept, counts>>

SaveManifest ==
  /\ At("manifest")
  /\ manifest' = [manifest EXCEPT ![Pull.set] = NewHashes]
  /\ pull' = <<[Pull EXCEPT !.step = "meta"]>>
  /\ UNCHANGED <<disk, meta, last, kept, counts>>

\* The revision is put in the file as it is: what else it holds is kept, of a file
\* that was cut to nothing as much as of a whole one.
UpdateSyncMeta ==
  /\ At("meta") /\ meta[Pull.set] # Torn
  /\ meta' = [meta EXCEPT ![Pull.set].pinned = Pull.target]
  /\ uncertain' = uncertain \ {Pull.set}
  /\ Done
  /\ UNCHANGED <<disk, manifest, generated, counts>>

Stopped(code) ==
  /\ pull' = <<>> /\ last' = ToResult([kind |-> "stopped"], code)
  /\ uncertain' = IF Pull.step = "meta" THEN uncertain \cup {Pull.set} ELSE uncertain
  /\ UNCHANGED <<generated, setup, edits, pulls>>

\* A revision file that does not parse ends the pull, the manifest saved.
RefuseSyncMeta ==
  /\ At("meta") /\ meta[Pull.set] = Torn
  /\ Stopped(2)
  /\ UNCHANGED <<disk, manifest, meta, faults>>

\* A request or a write fails with nothing changed.
Fail ==
  /\ ~Idle /\ faults < setup.faults
  /\ faults' = faults + 1
  /\ Stopped(2)
  /\ UNCHANGED <<disk, manifest, meta>>

\* The run is cut inside a write, which leaves an empty file or a part of one.
CutWrite ==
  /\ ~Idle /\ ~Pull.dry /\ faults < setup.faults
  /\ faults' = faults + 1
  /\ Stopped(137)
  /\ CASE Pull.step = "fetch" ->
            disk' = WithFile(NextFile, Cut) /\ UNCHANGED <<manifest, meta>>
       [] Pull.step = "manifest" ->
            /\ \E left \in {<<>>, Torn} : manifest' = [manifest EXCEPT ![Pull.set] = left]
            /\ UNCHANGED <<disk, meta>>
       [] Pull.step = "meta" ->
            /\ \E left \in {[pinned |-> 0, translations |-> FALSE], Torn} :
                 meta' = [meta EXCEPT ![Pull.set] = left]
            /\ UNCHANGED <<disk, manifest>>
       [] OTHER -> UNCHANGED <<disk, manifest, meta>>

-----------------------------------------------------------------------------
(***************************************************************************)
(* generate-grammar: from the copy on disk, whatever it is.                *)
(***************************************************************************)
GrammarFile == Files(GrammarSet)[1]

Generate(dry) ==
  /\ Idle /\ setup.generates
  /\ LET present == GrammarFile \in DOMAIN disk[GrammarSet]
         source == IF present THEN disk[GrammarSet][GrammarFile] ELSE Cut
         grammar == IF present THEN Parse(source) ELSE <<>>
     IN  IF grammar = <<>>
         THEN /\ last' = ToResult([kind |-> "generate", dry |-> dry], 2)
              /\ UNCHANGED generated
         ELSE /\ last' = ToResult([kind |-> "generate", dry |-> dry], 0)
              /\ generated' = IF dry THEN generated
                              ELSE <<[source |-> source, grammar |-> grammar[1],
                                      emitted |-> Emit(grammar[1], setup.sidecar)]>>
  /\ UNCHANGED <<disk, manifest, meta, pull, uncertain, counts>>

-----------------------------------------------------------------------------
(***************************************************************************)
(* Hands: a copy is edited, given another revision's contents, removed, or *)
(* a file put beside the copies.                                           *)
(***************************************************************************)
Edit(set) ==
  /\ Idle /\ edits < setup.edits
  /\ edits' = edits + 1 /\ last' = Nothing
  /\ \/ \E f \in ToSet(Files(set)), r \in DOMAIN setup.revisions :
          \E contents \in {Edited, Upstream(r, set)[f]} :
            disk' = [disk EXCEPT ![set] = Written(@, f, contents)]
     \/ \E f \in DOMAIN disk[set] : disk' = [disk EXCEPT ![set] = [g \in DOMAIN @ \ {f} |-> @[g]]]
     \/ disk' = [disk EXCEPT ![set] = Written(@, "stray", Edited)]
  /\ UNCHANGED <<manifest, meta, pull, kept, setup, pulls, faults>>

PullSteps == Fetch \/ WriteReport \/ SaveManifest \/ UpdateSyncMeta \/ RefuseSyncMeta \/ Fail \/ CutWrite

Next ==
  \/ \E sets \in {Sets} \cup {{set} : set \in Sets} : Check(sets)
  \/ \E set \in Sets, target \in DOMAIN setup.revisions, dry \in BOOLEAN : StartPull(set, target, dry)
  \/ PullSteps
  \/ \E dry \in BOOLEAN : Generate(dry)
  \/ \E set \in Sets : Edit(set)

Spec == Init /\ [][Next]_vars

-----------------------------------------------------------------------------
(***************************************************************************)
(* Properties of the copies.                                               *)
(***************************************************************************)
\* A check that passes vouches for whole revisions: the copies of every set it
\* looked at are those of one revision of upstream, with nothing beside them,
\* through pulls that failed half-way and writes that were cut.
GreenIsOneRevision ==
  last.command.kind = "check" /\ last.code = 0 =>
    \A set \in last.command.sets : \E r \in DOMAIN setup.revisions : disk[set] = Upstream(r, set)

\* A pull that ends well has adopted its revision, whatever state it started from:
\* the copies and the manifest are the revision's, and the pinned revision has the
\* same files, unless an earlier pull was stopped between the two.  A dry one says
\* the same of nothing.
PullLands ==
  last.command.kind = "pull" /\ ~last.command.dry =>
    LET set == last.command.set
        target == Upstream(last.command.target, set)
    IN  /\ \A f \in ToSet(Files(set)) : disk[set][f] = target[f]
        /\ manifest[set] = target
        /\ set \notin uncertain => Upstream(meta[set].pinned, set) = target

-----------------------------------------------------------------------------
(***************************************************************************)
(* Properties of the generated grammar.                                    *)
(***************************************************************************)
Source == generated[1].source
Upper == generated[1].grammar
Lower == generated[1].emitted
Sidecar == setup.sidecar

\* The tokens of the rules of a file: those after the first %% that is not on the
\* line of a directive that takes its line, up to the next.
TakesLine(text, n) ==
  /\ text[n] \in Directives \ (ListDirectives \cup {"%union"})
  /\ ~(text[n] = "%{}" /\ \A m \in 1 .. n - 1 : text[m] = LineEnd)

OpensRules(text, n) ==
  text[n] = "%%" /\ \A k \in 1 .. n - 1 : TakesLine(text, k) => \E m \in k .. n : text[m] = LineEnd

\* What a token is written as: what only ends something is not.
Bare(token) == IF token \in {";", "{}", LineEnd} THEN <<>> ELSE <<token>>

BareBetween(text, from, to) == FlattenSeq([n \in 1 .. to - from |-> Bare(text[from + n])])

RuleTokens(text) ==
  LET from == Min({n \in DOMAIN text : OpensRules(text, n)})
      to == Min({Len(text) + 1} \cup {n \in DOMAIN text : n > from /\ text[n] = "%%"})
  IN  BareBetween(text, from, to - 1)

WrittenAlternative(alternative) ==
  alternative.symbols \o (IF alternative.prec = NoPrec THEN <<>> ELSE <<"%prec", alternative.prec>>)

WrittenRule(rule) ==
  <<rule.lhs, ":">> \o
  FlattenSeq([n \in DOMAIN rule.alternatives |->
                (IF n = 1 THEN <<>> ELSE <<"|">>) \o WrittenAlternative(rule.alternatives[n])])

WrittenRules(grammar) == FlattenSeq([n \in DOMAIN grammar.rules |-> WrittenRule(grammar.rules[n])])

\* goyacc has %prec and its token at the end of an alternative, once.
PrecAtEnd(text) ==
  \A n \in DOMAIN text :
    text[n] = "%prec" =>
      /\ n < Len(text) /\ IsName(text[n + 1])
      /\ \A m \in n + 2 .. Len(text) :
           IsName(text[m]) \/ text[m] = "%prec" => \E k \in n + 2 .. m - 1 : text[k] # LineEnd

\* A file that is read has been read whole: written down again, its rules are the
\* tokens of the file, none lost and none moved to another alternative or rule,
\* %prec with its token.
NothingIsLost ==
  generated # <<>> /\ PrecAtEnd(Source) => WrittenRules(Upper) = RuleTokens(Source)

\* Is the grammar one of upstream's: every rule once and no token, every name a
\* rule?
WellFormed(grammar) ==
  /\ \A n, m \in DOMAIN grammar.rules : n # m => grammar.rules[n].lhs # grammar.rules[m].lhs
  /\ \A n \in DOMAIN grammar.rules : grammar.rules[n].lhs \notin Terminals
  /\ \A n \in DOMAIN grammar.rules : \A k \in DOMAIN grammar.rules[n].alternatives :
       ToSet(grammar.rules[n].alternatives[k].symbols)
         \subseteq Terminals \cup {"error"} \cup {grammar.rules[m].lhs : m \in DOMAIN grammar.rules}

Heads(grammar) == {grammar.rules[n].lhs : n \in DOMAIN grammar.rules}

AlternativesOf(grammar, lhs) ==
  UNION {ToSet(grammar.rules[n].alternatives) : n \in {m \in DOMAIN grammar.rules : grammar.rules[m].lhs = lhs}}

\* What is generated needs nothing that is not there: every name in it is a rule of
\* it, nothing that is skipped is named, every rule is one the roots lead to in
\* upstream's grammar without passing through what is skipped, and what has no
\* action of its own is on the list of those to fill in.
GeneratedIsClosed ==
  generated # <<>> /\ WellFormed(Upper) /\ Sidecar.roots \subseteq Heads(Upper) =>
    /\ Heads(Lower) \cap Lower.skipped = {} /\ Heads(Lower) \cup Lower.skipped = Heads(Upper)
    /\ \A lhs \in Heads(Lower) : \A alternative \in AlternativesOf(Lower, lhs) :
         /\ ToSet(alternative.symbols) \ Terminals \subseteq Heads(Lower)
         /\ alternative.body = Placeholder => \E gap \in Lower.unmapped : gap[1] = lhs
    /\ \A closed \in SUBSET Heads(Lower) :
         (/\ Sidecar.roots \ Sidecar.skipRules \subseteq closed
          /\ \A lhs \in closed : \A alternative \in AlternativesOf(Upper, lhs) :
               ToSet(alternative.symbols) \ (Terminals \cup {"error"} \cup Sidecar.skipRules) \subseteq closed)
         => closed = Heads(Lower)

-----------------------------------------------------------------------------
\* The sentences of a rule of up to MaxLength tokens, after n rounds of derivation.
MaxLength == 3

Concatenated(S, T) == {x \in {s \o t : s \in S, t \in T} : Len(x) <= MaxLength}

\* Alternatives is a function from the rules to their sequences of symbols.
Sentences(alternatives) ==
  LET rules == DOMAIN alternatives
      after[n \in 0 .. Cardinality(rules) * MaxLength] ==
        IF n = 0 THEN [lhs \in rules |-> {}]
        ELSE LET before == after[n - 1]
                 Of(symbol) == IF symbol \in rules THEN before[symbol]
                               ELSE IF symbol \in Terminals THEN {<<symbol>>} ELSE {}
             IN  [lhs \in rules |->
                    UNION {FoldLeft(LAMBDA S, symbol : Concatenated(S, Of(symbol)), {<<>>}, x) :
                             x \in alternatives[lhs]}]
  IN  after[Cardinality(rules) * MaxLength]

\* The generated grammar has upstream's language, of the sentences that use nothing
\* that is skipped, with the tokens renamed, and keeps its precedence; only a rule
\* reported to have lost all its alternatives may say more.
SameLanguage ==
  generated # <<>> /\ WellFormed(Upper)
    /\ (\A gap \in Lower.unmapped : gap[2] # AllSkipped) =>
    LET Skipped(x) == ToSet(x) \cap (Sidecar.skipRules \cup Sidecar.skipTokens \cup {"error"}) # {}
        upper == Sentences([lhs \in Heads(Upper) \ Sidecar.skipRules |->
                   {x \in {a.symbols : a \in AlternativesOf(Upper, lhs)} : ~Skipped(x)}])
        lower == Sentences([lhs \in Heads(Lower) |-> {a.symbols : a \in AlternativesOf(Lower, lhs)}])
    IN  /\ \A lhs \in Heads(Lower) : lower[lhs] = {Rendered(Sidecar, x) : x \in upper[lhs]}
        /\ \A lhs \in Heads(Lower) : \A a \in AlternativesOf(Upper, lhs) :
             ~Skipped(a.symbols) =>
               \E b \in AlternativesOf(Lower, lhs) :
                 /\ b.symbols = Rendered(Sidecar, a.symbols)
                 /\ b.prec = IF a.prec = NoPrec THEN NoPrec ELSE Renamed(Sidecar, a.prec)
        /\ \A n \in DOMAIN Upper.precedence :
             /\ Lower.precedence[n].assoc = Upper.precedence[n].assoc
             /\ Lower.precedence[n].tokens = Rendered(Sidecar, Upper.precedence[n].tokens)
=============================================================================
