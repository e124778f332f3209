---------------------------- MODULE VendorProofs ----------------------------
(***************************************************************************)
(* The copies of Vendor, for every setup: what a check that passes and a   *)
(* pull that ends well say of them.                                        *)
(*                                                                         *)
(* IInv says what a manifest may hold, which sets have the revision their  *)
(* manifest has, and how far the pull that runs has come.  GInv says what  *)
(* the grammar that is generated was made of.                              *)
(***************************************************************************)
EXTENDS Vendor, SequenceFacts

Revisions(set) == {Upstream(r, set) : r \in DOMAIN setup.revisions}

\* The contents upstream has for a set.
Texts(set) == UNION {{Upstream(r, set)[f] : f \in ToSet(Files(set))} : r \in DOMAIN setup.revisions}

Metas == [pinned : DOMAIN setup.revisions \cup {0}, translations : BOOLEAN]

\* The state of the disk: a function each from the sets and from the files there are.
ShapesOK ==
  /\ disk = [set \in Sets |-> disk[set]]
  /\ \A set \in Sets : disk[set] = [f \in DOMAIN disk[set] |-> disk[set][f]]
  /\ manifest = [set \in Sets |-> manifest[set]]
  /\ meta = [set \in Sets |-> meta[set]]
  /\ \A set \in Sets : meta[set] \in Metas \cup {Torn}

\* A manifest is one revision's, or was cut.
ManifestOK == \A set \in Sets : manifest[set] \in Revisions(set) \cup {Torn, <<>>}

\* Where no pull was stopped between the two, and none is now, the pinned revision has
\* the files the manifest has.
Settled(set) == meta[set] # Torn /\ manifest[set] \in {Torn, <<>>, Upstream(meta[set].pinned, set)}

MetaOK ==
  \A set \in Sets : set \notin uncertain /\ ~(At("meta") /\ Pull.set = set) => Settled(set)

PullOf(set) ==
  [set : {set}, target : DOMAIN setup.revisions, dry : BOOLEAN,
   step : {"fetch", "report", "manifest", "meta"}, fetched : Seq(Texts(set)),
   prior : Revisions(set) \cup {<<>>}]

\* What was fetched is the target's and, unless dry, on disk.
FetchedOK(p) ==
  /\ Len(p.fetched) <= Len(Files(p.set))
  /\ (p.step = "fetch") <=> (Len(p.fetched) < Len(Files(p.set)))
  /\ \A n \in 1 .. Len(p.fetched) : p.fetched[n] = Upstream(p.target, p.set)[Files(p.set)[n]]
  /\ ~p.dry => \A n \in 1 .. Len(p.fetched) :
                 /\ Files(p.set)[n] \in DOMAIN disk[p.set]
                 /\ disk[p.set][Files(p.set)[n]] = p.fetched[n]

\* The manifest is the one the pull began with until it is saved.
SavedOK(p) ==
  /\ p.step \in {"manifest", "meta"} => ~p.dry
  /\ p.step = "meta" => manifest[p.set] = Upstream(p.target, p.set)
  /\ p.step # "meta" => p.prior = IF manifest[p.set] = Torn THEN <<>> ELSE manifest[p.set]

PullOK ==
  pull # <<>> =>
    /\ last = Nothing
    /\ \E set \in Sets : \E p \in PullOf(set) : pull = <<p>> /\ FetchedOK(p) /\ SavedOK(p)

IInv ==
  /\ IsSetup(setup)
  /\ ShapesOK /\ ManifestOK /\ MetaOK /\ PullOK
  /\ GreenIsOneRevision /\ PullLands

-----------------------------------------------------------------------------
(***************************************************************************)
(* Facts of one state.                                                     *)
(***************************************************************************)
LEMMA Setting ==
  ASSUME IsSetup(setup), NEW r \in DOMAIN setup.revisions, NEW set \in Sets
  PROVE  /\ Upstream(r, set) = [f \in ToSet(Files(set)) |-> Upstream(r, set)[f]]
         /\ DOMAIN Upstream(r, set) = ToSet(Files(set))
         /\ \A f \in ToSet(Files(set)) : Upstream(r, set)[f] \in Texts(set)
<1>1. Upstream(r, set) = [f \in ToSet(Files(set)) |-> Upstream(r, set)[f]]
  BY DEF IsSetup, Upstream, Files
<1>2. DOMAIN Upstream(r, set) = ToSet(Files(set))
  BY <1>1
<1>3. \A f \in ToSet(Files(set)) : Upstream(r, set)[f] \in Texts(set)
  BY DEF Texts
<1> QED
  BY <1>1, <1>2, <1>3

LEMMA SomeFile ==
  ASSUME IsSetup(setup), NEW set \in Sets
  PROVE  /\ Files(set) \in Seq(STRING) /\ Len(Files(set)) \in Nat /\ Len(Files(set)) > 0
         /\ DOMAIN Files(set) = 1 .. Len(Files(set))
         /\ \A n \in 1 .. Len(Files(set)) : Files(set)[n] \in ToSet(Files(set))
         /\ ToSet(Files(set)) # {}
<1>1. Files(set) \in Seq(STRING) /\ Files(set) # <<>>
  BY DEF IsSetup, Files
<1>2. /\ Len(Files(set)) \in Nat /\ Len(Files(set)) > 0
      /\ DOMAIN Files(set) = 1 .. Len(Files(set))
  BY <1>1
<1>3. \A n \in 1 .. Len(Files(set)) : Files(set)[n] \in ToSet(Files(set))
  BY <1>2 DEF ToSet
<1> QED
  BY <1>1, <1>2, <1>3

\* What a pull that has fetched everything saves is its target's revision.
LEMMA HashesAreTheTargets ==
  ASSUME IsSetup(setup), NEW set \in Sets, NEW p \in PullOf(set), pull = <<p>>,
         FetchedOK(p), p.step # "fetch"
  PROVE  NewHashes = Upstream(p.target, set)
<1> DEFINE T == Upstream(p.target, set)
<1>1. Pull = p /\ p.set = set /\ p.target \in DOMAIN setup.revisions
  BY DEF Pull, PullOf
<1>2. Len(p.fetched) \in Nat /\ Len(p.fetched) = Len(Files(set))
  <2>1. Len(p.fetched) \in Nat
    BY DEF PullOf
  <2> QED
    BY <1>1, <2>1, SomeFile DEF FetchedOK
<1>3. \A n \in DOMAIN Files(set) : p.fetched[n] = T[Files(set)[n]]
  BY <1>1, <1>2, SomeFile DEF FetchedOK
<1>4. ASSUME NEW f \in ToSet(Files(set))
      PROVE  p.fetched[CHOOSE n \in DOMAIN Files(set) : Files(set)[n] = f] = T[f]
  <2>1. \E n \in DOMAIN Files(set) : Files(set)[n] = f
    BY DEF ToSet
  <2> DEFINE k == CHOOSE n \in DOMAIN Files(set) : Files(set)[n] = f
  <2>2. k \in DOMAIN Files(set) /\ Files(set)[k] = f
    BY <2>1
  <2> HIDE DEF k
  <2>3. p.fetched[k] = T[f]
    BY <2>2, <1>3
  <2> QED
    BY <2>3 DEF k
<1>5. NewHashes = [f \in ToSet(Files(set)) |-> T[f]]
  BY <1>1, <1>4 DEF NewHashes
<1> QED
  BY <1>1, <1>5, Setting

\* A pull that finds nothing changed began with its target's manifest.
LEMMA UnchangedIsTheTarget ==
  ASSUME IsSetup(setup), NEW set \in Sets, NEW p \in PullOf(set), pull = <<p>>,
         FetchedOK(p), SavedOK(p), p.step = "report", ~AnyChanged,
         manifest[set] \in Revisions(set) \cup {Torn, <<>>}
  PROVE  manifest[set] = Upstream(p.target, set) /\ manifest[set] \notin {Torn, <<>>}
<1> DEFINE T == Upstream(p.target, set)
<1>1. Pull = p /\ p.set = set /\ p.target \in DOMAIN setup.revisions
  BY DEF Pull, PullOf
<1>2. NewHashes = T
  BY HashesAreTheTargets
<1>3. DOMAIN T = ToSet(Files(set)) /\ T = [f \in ToSet(Files(set)) |-> T[f]]
  BY <1>1, Setting
<1>4. \A f \in ToSet(Files(set)) : f \in DOMAIN p.prior /\ p.prior[f] = T[f]
  BY <1>1, <1>2, <1>3 DEF AnyChanged
<1>5. p.prior # <<>>
  BY <1>4, SomeFile
<1>6. p.prior = manifest[set] /\ manifest[set] \notin {Torn, <<>>} /\ manifest[set] \in Revisions(set)
  <2>1. p.prior = IF manifest[set] = Torn THEN <<>> ELSE manifest[set]
    BY <1>1 DEF SavedOK
  <2> QED
    BY <2>1, <1>5
<1>7. PICK r \in DOMAIN setup.revisions : manifest[set] = Upstream(r, set)
  BY <1>6 DEF Revisions
<1>8. Upstream(r, set) = [f \in ToSet(Files(set)) |-> Upstream(r, set)[f]]
  BY Setting
<1>9. \A f \in ToSet(Files(set)) : Upstream(r, set)[f] = T[f]
  BY <1>4, <1>6, <1>7
<1> QED
  BY <1>3, <1>6, <1>7, <1>8, <1>9

\* What has been fetched is on disk, all of it where nothing is left.
LEMMA LandedOnDisk ==
  ASSUME IsSetup(setup), NEW set \in Sets, NEW p \in PullOf(set), FetchedOK(p), ~p.dry, p.step # "fetch"
  PROVE  \A f \in ToSet(Files(set)) : disk[set][f] = Upstream(p.target, set)[f]
<1>1. p.set = set
  BY DEF PullOf
<1>2. Len(p.fetched) \in Nat /\ Len(p.fetched) = Len(Files(set))
  <2>1. Len(p.fetched) \in Nat
    BY DEF PullOf
  <2> QED
    BY <1>1, <2>1, SomeFile DEF FetchedOK
<1>3. SUFFICES ASSUME NEW n \in DOMAIN Files(set)
               PROVE  disk[set][Files(set)[n]] = Upstream(p.target, set)[Files(set)[n]]
  BY DEF ToSet
<1>4. n \in 1 .. Len(p.fetched)
  BY <1>2, SomeFile
<1> QED
  BY <1>1, <1>4 DEF FetchedOK

-----------------------------------------------------------------------------
(***************************************************************************)
(* The invariant holds at first and through every step.                    *)
(***************************************************************************)
LEMMA InitIInv == Init => IInv
<1> SUFFICES ASSUME Init PROVE IInv
  OBVIOUS
<1>1. IsSetup(setup)
  BY SetupsAssumption DEF Init
<1>2. 1 \in DOMAIN setup.revisions /\ disk = setup.revisions[1] /\ manifest = setup.revisions[1]
  BY <1>1 DEF Init, IsSetup
<1>3. \A set \in Sets : disk[set] = Upstream(1, set) /\ manifest[set] = Upstream(1, set)
  BY <1>2 DEF Upstream
<1>4. \A set \in Sets : meta[set] = [pinned |-> 1, translations |-> TRUE]
  BY DEF Init
<1>5. ShapesOK
  <2>1. disk = [set \in Sets |-> disk[set]] /\ manifest = [set \in Sets |-> manifest[set]]
    BY <1>1, <1>2 DEF IsSetup
  <2>2. \A set \in Sets : disk[set] = [f \in DOMAIN disk[set] |-> disk[set][f]]
    <3> TAKE set \in Sets
    <3>1. Upstream(1, set) = [f \in ToSet(Files(set)) |-> Upstream(1, set)[f]]
      BY <1>1, <1>2, Setting
    <3>2. DOMAIN Upstream(1, set) = ToSet(Files(set))
      BY <1>1, <1>2, Setting
    <3> QED
      BY <1>3, <3>1, <3>2
  <2>3. meta = [set \in Sets |-> meta[set]]
    BY DEF Init
  <2>4. \A set \in Sets : meta[set] \in Metas
    <3>1. 1 \in DOMAIN setup.revisions \cup {0} /\ TRUE \in BOOLEAN
      BY <1>2
    <3>2. [pinned |-> 1, translations |-> TRUE] \in Metas
      BY <3>1, Zenon DEF Metas
    <3> QED
      BY <1>4, <3>2
  <2> QED
    BY <2>1, <2>2, <2>3, <2>4 DEF ShapesOK
<1>6. ManifestOK
  BY <1>2, <1>3 DEF ManifestOK, Revisions
<1>7. MetaOK
  BY <1>3, <1>4 DEF MetaOK, Settled, Torn
<1>8. PullOK
  BY DEF Init, PullOK
<1>9. GreenIsOneRevision /\ PullLands
  BY DEF Init, Nothing, ToResult, None, GreenIsOneRevision, PullLands
<1> QED
  BY <1>1, <1>5, <1>6, <1>7, <1>8, <1>9 DEF IInv

\* Every part of the invariant is about the variables it names alone.
LEMMA Frame ==
  ASSUME IInv, UNCHANGED <<setup, disk, manifest, meta>>
  PROVE  IsSetup(setup)' /\ ShapesOK' /\ ManifestOK'
<1>1. IsSetup(setup)'
  <2>1. IsSetup(setup) /\ setup' = setup
    BY DEF IInv
  <2> QED
    BY <2>1, Zenon
<1>2. ShapesOK'
  <2>1. Metas' = Metas
    BY DEF Metas
  <2> QED
    BY <2>1 DEF IInv, ShapesOK
<1>3. ManifestOK'
  <2>1. \A set \in Sets : Revisions(set)' = Revisions(set)
    BY DEF Revisions, Upstream
  <2> QED
    BY <2>1 DEF IInv, ManifestOK
<1> QED
  BY <1>1, <1>2, <1>3

LEMMA CheckIInv ==
  ASSUME IInv, NEW sets \in SUBSET Sets, Check(sets)
  PROVE  IInv'
<1>1. /\ UNCHANGED <<setup, disk, manifest, meta, uncertain, pull>> /\ pull = <<>>
      /\ last' = ToResult([kind |-> "check", sets |-> sets], CheckIntegrity(sets))
  BY DEF Check, Idle, kept, counts
<1>2. IsSetup(setup)' /\ ShapesOK' /\ ManifestOK' /\ MetaOK'
  <2>1. IsSetup(setup)' /\ ShapesOK' /\ ManifestOK'
    BY <1>1, Frame
  <2>2. MetaOK'
    BY <1>1 DEF IInv, MetaOK, At, Idle, Pull, Settled, Upstream
  <2> QED
    BY <2>1, <2>2
<1>3. PullOK'
  BY <1>1 DEF PullOK
<1>4. GreenIsOneRevision'
  <2> SUFFICES ASSUME CheckIntegrity(sets) = 0, NEW set \in sets
               PROVE  \E r \in DOMAIN setup.revisions : disk[set] = Upstream(r, set)
    BY <1>1 DEF GreenIsOneRevision, ToResult, Upstream
  <2>1. ~Broken(set) /\ Drifted(set) \cup Strays(set) = {}
    BY DEF CheckIntegrity
  <2>2. manifest[set] # Torn /\ ToSet(Files(set)) \subseteq DOMAIN disk[set]
    BY <2>1 DEF Broken
  <2>3. DOMAIN disk[set] = ToSet(Files(set))
    BY <2>1, <2>2 DEF Strays
  <2>4. \A f \in ToSet(Files(set)) : f \in DOMAIN manifest[set] /\ manifest[set][f] = disk[set][f]
    BY <2>1 DEF Drifted
  <2>5. manifest[set] # <<>>
    BY <2>4, SomeFile DEF IInv
  <2>6. PICK r \in DOMAIN setup.revisions : manifest[set] = Upstream(r, set)
    BY <2>2, <2>5 DEF IInv, ManifestOK, Revisions
  <2>7. Upstream(r, set) = [f \in ToSet(Files(set)) |-> Upstream(r, set)[f]]
    BY Setting DEF IInv
  <2>8. disk[set] = [f \in ToSet(Files(set)) |-> disk[set][f]]
    BY <2>3 DEF IInv, ShapesOK
  <2>9. disk[set] = Upstream(r, set)
    BY <2>4, <2>6, <2>7, <2>8
  <2> QED
    BY <2>9
<1>5. PullLands'
  BY <1>1 DEF PullLands, ToResult
<1> QED
  BY <1>2, <1>3, <1>4, <1>5 DEF IInv

LEMMA StartPullIInv ==
  ASSUME IInv, NEW set \in Sets, NEW target \in DOMAIN setup.revisions, NEW dry \in BOOLEAN,
         StartPull(set, target, dry)
  PROVE  IInv'
<1> DEFINE p == [set |-> set, target |-> target, dry |-> dry, step |-> "fetch", fetched |-> <<>>,
                 prior |-> IF manifest[set] = Torn THEN <<>> ELSE manifest[set]]
<1>1. /\ UNCHANGED <<setup, disk, manifest, meta, uncertain>> /\ pull = <<>>
      /\ last' = Nothing /\ pull' = <<p>>
  BY DEF StartPull, Idle, kept
<1>2. p.set = set /\ p.step = "fetch" /\ p.fetched = <<>> /\ p.target = target /\ p.dry = dry
      /\ p.prior = IF manifest[set] = Torn THEN <<>> ELSE manifest[set]
  OBVIOUS
<1>3. p \in PullOf(set)
  <2>1. p.prior \in Revisions(set) \cup {<<>>}
    BY <1>2 DEF IInv, ManifestOK
  <2>2. <<>> \in Seq(Texts(set))
    OBVIOUS
  <2> QED
    BY <2>1, <2>2 DEF PullOf
<1> HIDE DEF p
<1>4. IsSetup(setup)' /\ ShapesOK' /\ ManifestOK'
  BY <1>1, Frame
<1>5. MetaOK'
  BY <1>1, <1>2 DEF IInv, MetaOK, At, Idle, Pull, Settled, Upstream
<1>6. PullOK'
  <2>1. FetchedOK(p)
    BY <1>2, SomeFile DEF FetchedOK, IInv
  <2>2. SavedOK(p)
    BY <1>2 DEF SavedOK
  <2>3. PICK q : q = p
    OBVIOUS
  <2>4. PullOf(set)' = PullOf(set)
    BY <1>1 DEF PullOf, Revisions, Texts, Upstream, Files
  <2>5. FetchedOK(q)' /\ SavedOK(q)'
    BY <1>1, <2>1, <2>2, <2>3 DEF FetchedOK, SavedOK, Upstream, Files
  <2>6. pull' = <<q>> /\ q \in PullOf(set)'
    BY <1>1, <1>3, <2>3, <2>4
  <2> QED
    BY <1>1, <2>5, <2>6 DEF PullOK
<1>7. GreenIsOneRevision' /\ PullLands'
  BY <1>1 DEF Nothing, ToResult, None, GreenIsOneRevision, PullLands
<1> QED
  BY <1>4, <1>5, <1>6, <1>7 DEF IInv

\* The pull that runs, and what is known of it.
LEMMA Running ==
  ASSUME IInv, ~Idle
  PROVE  /\ last = Nothing
         /\ \E set \in Sets : \E p \in PullOf(set) :
              pull = <<p>> /\ Pull = p /\ p.set = set /\ FetchedOK(p) /\ SavedOK(p)
<1>1. last = Nothing
  BY DEF IInv, PullOK, Idle
<1>2. PICK set \in Sets : \E p \in PullOf(set) : pull = <<p>> /\ FetchedOK(p) /\ SavedOK(p)
  BY DEF IInv, PullOK, Idle
<1>3. PICK p \in PullOf(set) : pull = <<p>> /\ FetchedOK(p) /\ SavedOK(p)
  BY <1>2
<1>4. Pull = p /\ p.set = set
  BY <1>3 DEF Pull, PullOf
<1> QED
  BY <1>1, <1>3, <1>4

\* After anything but a check or a pull that ended well nothing is claimed.
LEMMA NothingClaimed ==
  ASSUME last'.command.kind \notin {"check", "pull"}
  PROVE  GreenIsOneRevision' /\ PullLands'
BY DEF GreenIsOneRevision, PullLands

LEMMA SilentIsSilent == Nothing.command.kind \notin {"check", "pull"}
BY DEF Nothing, ToResult, None

\* A file written leaves functions, and every other file and set as it was.
LEMMA WritingAFile ==
  ASSUME ShapesOK, NEW set \in Sets, NEW file, NEW contents,
         disk' = [disk EXCEPT ![set] = Written(@, file, contents)]
  PROVE  /\ disk' = [s \in Sets |-> disk'[s]]
         /\ \A s \in Sets : disk'[s] = [f \in DOMAIN disk'[s] |-> disk'[s][f]]
         /\ \A s \in Sets \ {set} : disk'[s] = disk[s]
         /\ DOMAIN disk'[set] = DOMAIN disk[set] \cup {file}
         /\ \A f \in DOMAIN disk[set] \ {file} : disk'[set][f] = disk[set][f]
         /\ disk'[set][file] = contents
<1>1. DOMAIN disk = Sets
  BY DEF ShapesOK
<1>2. /\ disk'[set] = Written(disk[set], file, contents)
      /\ \A s \in Sets \ {set} : disk'[s] = disk[s]
      /\ disk' = [s \in Sets |-> disk'[s]]
  BY <1>1
<1>3. /\ disk'[set] = [f \in DOMAIN disk'[set] |-> disk'[set][f]]
      /\ DOMAIN disk'[set] = DOMAIN disk[set] \cup {file}
      /\ \A f \in DOMAIN disk[set] \ {file} : disk'[set][f] = disk[set][f]
      /\ disk'[set][file] = contents
  BY <1>2 DEF Written
<1>4. \A s \in Sets \ {set} : disk'[s] = [f \in DOMAIN disk'[s] |-> disk'[s][f]]
  BY <1>2 DEF ShapesOK
<1> QED
  BY <1>2, <1>3, <1>4

LEMMA FetchIInv ==
  ASSUME IInv, Fetch
  PROVE  IInv'
<1>1. ~Idle /\ Pull.step = "fetch" /\ UNCHANGED <<manifest, meta, last, uncertain, setup>>
  BY DEF Fetch, At, kept, counts
<1>2. PICK set \in Sets : \E p \in PullOf(set) :
        pull = <<p>> /\ Pull = p /\ p.set = set /\ FetchedOK(p) /\ SavedOK(p)
  BY <1>1, Running
<1>3. PICK p \in PullOf(set) : pull = <<p>> /\ Pull = p /\ p.set = set /\ FetchedOK(p) /\ SavedOK(p)
  BY <1>2
<1>4. p.step = "fetch"
  BY <1>1, <1>3
<1> DEFINE k == Len(p.fetched) + 1
           file == Files(set)[k]
           contents == Upstream(p.target, set)[file]
           more == Append(p.fetched, contents)
           step == IF Len(more) = Len(Files(set)) THEN "report" ELSE "fetch"
<1>5. PICK q : q = [p EXCEPT !.fetched = more, !.step = step]
  OBVIOUS
<1>6. Len(p.fetched) \in Nat /\ k \in 1 .. Len(Files(set)) /\ p.fetched \in Seq(Texts(set))
      /\ p.target \in DOMAIN setup.revisions /\ p.dry \in BOOLEAN
  <2>1. p.fetched \in Seq(Texts(set)) /\ p.target \in DOMAIN setup.revisions /\ p.dry \in BOOLEAN
    BY DEF PullOf
  <2>2. Len(p.fetched) < Len(Files(set))
    BY <1>3, <1>4 DEF FetchedOK
  <2>3. Len(Files(set)) \in Nat
    BY SomeFile DEF IInv
  <2> QED
    BY <2>1, <2>2, <2>3
<1>7. file \in ToSet(Files(set)) /\ contents \in Texts(set)
  BY <1>6, SomeFile, Setting DEF IInv
<1> HIDE DEF file, contents
<1>8. /\ more \in Seq(Texts(set)) /\ Len(more) = k
      /\ more[k] = contents /\ \A n \in 1 .. Len(p.fetched) : more[n] = p.fetched[n]
  BY <1>6, <1>7
<1> HIDE DEF k, more
<1>9. /\ q \in PullOf(set)
      /\ q.set = set /\ q.target = p.target /\ q.dry = p.dry /\ q.prior = p.prior
      /\ q.fetched = more /\ q.step = step
  BY <1>5, <1>8 DEF PullOf
<1>10. pull' = <<q>> /\ disk' = IF p.dry THEN disk ELSE [disk EXCEPT ![set] = Written(@, file, contents)]
  <2>1. NextFile = file
    BY <1>3 DEF NextFile, file, k
  <2>2. /\ pull' = <<Fetched([p EXCEPT !.fetched = Append(@, contents)])>>
        /\ disk' = IF p.dry THEN disk ELSE WithFile(file, contents)
    BY <1>3, <2>1 DEF Fetch, contents
  <2>3. Fetched([p EXCEPT !.fetched = Append(@, contents)]) = q
    <3> DEFINE r == [p EXCEPT !.fetched = Append(@, contents)]
    <3>1. r.fetched = more /\ r.set = set
      BY <1>3 DEF PullOf, more
    <3>2. Fetched(r) = [r EXCEPT !.step = step]
      BY <3>1 DEF Fetched
    <3> QED
      BY <1>5, <3>2 DEF PullOf, more
  <2> QED
    BY <1>3, <2>2, <2>3 DEF WithFile
<1>11. IsSetup(setup)' /\ ManifestOK'
  <2>1. IsSetup(setup) /\ setup' = setup
    BY <1>1 DEF IInv
  <2>2. \A s \in Sets : Revisions(s)' = Revisions(s)
    BY <2>1 DEF Revisions, Upstream
  <2>3. ManifestOK'
    BY <1>1, <2>2 DEF IInv, ManifestOK
  <2>4. IsSetup(setup)'
    BY <2>1, Zenon
  <2> QED
    BY <2>3, <2>4
<1>12. ShapesOK'
  <2>1. /\ disk' = [s \in Sets |-> disk'[s]]
        /\ \A s \in Sets : disk'[s] = [f \in DOMAIN disk'[s] |-> disk'[s][f]]
    <3>1. CASE p.dry
      BY <1>10, <3>1 DEF IInv, ShapesOK
    <3>2. CASE ~p.dry
      BY <1>10, <3>2, WritingAFile DEF IInv
    <3> QED
      BY <3>1, <3>2
  <2>2. Metas' = Metas
    BY <1>1 DEF Metas
  <2> QED
    BY <1>1, <2>1, <2>2 DEF IInv, ShapesOK
<1>13. MetaOK'
  <2>1. ~At("meta") /\ ~At("meta")'
    BY <1>1, <1>9, <1>10 DEF At, Idle, Pull
  <2>2. \A s \in Sets : Settled(s)' <=> Settled(s)
    BY <1>1 DEF Settled, Upstream
  <2> QED
    BY <1>1, <2>1, <2>2 DEF IInv, MetaOK
<1>14. FetchedOK(q)'
  <2>1. setup' = setup
    BY <1>1
  <2>2. Len(q.fetched) <= Len(Files(set)) /\ ((q.step = "fetch") <=> (Len(q.fetched) < Len(Files(set))))
    <3>1. k <= Len(Files(set)) /\ k \in Nat /\ Len(Files(set)) \in Nat
      BY <1>6, SomeFile DEF IInv
    <3> QED
      BY <1>8, <1>9, <3>1
  <2>3. \A n \in 1 .. Len(q.fetched) : q.fetched[n] = Upstream(q.target, set)[Files(set)[n]]
    <3> TAKE n \in 1 .. Len(q.fetched)
    <3>1. CASE n = k
      BY <1>8, <1>9, <3>1 DEF contents, file
    <3>2. CASE n # k
      <4>1. n \in 1 .. Len(p.fetched)
        BY <1>6, <1>8, <1>9, <3>2 DEF k
      <4> QED
        BY <1>3, <1>8, <1>9, <4>1 DEF FetchedOK
    <3> QED
      BY <3>1, <3>2
  <2>4. ASSUME ~q.dry, NEW n \in 1 .. Len(q.fetched)
        PROVE  Files(set)[n] \in DOMAIN disk'[set] /\ disk'[set][Files(set)[n]] = q.fetched[n]
    <3>1. /\ DOMAIN disk'[set] = DOMAIN disk[set] \cup {file}
          /\ \A f \in DOMAIN disk[set] \ {file} : disk'[set][f] = disk[set][f]
          /\ disk'[set][file] = contents
      <4>1. disk' = [disk EXCEPT ![set] = Written(@, file, contents)]
        BY <1>9, <1>10, <2>4
      <4>2. ShapesOK
        BY DEF IInv
      <4>3. DOMAIN disk = Sets
        BY <4>2 DEF ShapesOK
      <4>4. disk'[set] = Written(disk[set], file, contents)
        BY <4>1, <4>3
      <4> QED
        BY <4>4 DEF Written
    <3>2. CASE Files(set)[n] = file
      BY <1>9, <2>3, <3>1, <3>2 DEF contents
    <3>3. CASE Files(set)[n] # file
      <4>1. n \in 1 .. Len(p.fetched)
        BY <1>6, <1>8, <1>9, <3>3 DEF k, file
      <4>2. Files(set)[n] \in DOMAIN disk[set] /\ disk[set][Files(set)[n]] = p.fetched[n]
        BY <1>3, <1>9, <2>4, <4>1 DEF FetchedOK
      <4> QED
        BY <1>8, <1>9, <3>1, <3>3, <4>1, <4>2
    <3> QED
      BY <3>2, <3>3
  <2> QED
    BY <1>9, <2>1, <2>2, <2>3, <2>4 DEF FetchedOK, Upstream, Files
<1>15. SavedOK(q)'
  BY <1>1, <1>3, <1>4, <1>9 DEF SavedOK
<1>16. PullOK'
  <2>1. PullOf(set)' = PullOf(set)
    BY <1>1 DEF PullOf, Revisions, Texts, Upstream, Files
  <2>2. last' = Nothing
    BY <1>1, Running
  <2> QED
    BY <1>9, <1>10, <1>14, <1>15, <2>1, <2>2 DEF PullOK
<1>17. GreenIsOneRevision' /\ PullLands'
  <2>1. last' = Nothing
    BY <1>1, Running
  <2> QED
    BY <2>1, NothingClaimed, SilentIsSilent
<1> QED
  BY <1>11, <1>12, <1>13, <1>16, <1>17 DEF IInv

LEMMA WriteReportIInv ==
  ASSUME IInv, WriteReport
  PROVE  IInv'
<1>1. /\ ~Idle /\ Pull.step = "report"
      /\ UNCHANGED <<disk, manifest, meta, uncertain, setup>>
  BY DEF WriteReport, At, kept, counts
<1>2. PICK set \in Sets : \E p \in PullOf(set) :
        pull = <<p>> /\ Pull = p /\ p.set = set /\ FetchedOK(p) /\ SavedOK(p)
  BY <1>1, Running
<1>3. PICK p \in PullOf(set) : pull = <<p>> /\ Pull = p /\ p.set = set /\ FetchedOK(p) /\ SavedOK(p)
  BY <1>2
<1>4. p.step = "report" /\ last = Nothing
  BY <1>1, <1>3, Running
<1>5. IsSetup(setup)' /\ ShapesOK' /\ ManifestOK'
  BY <1>1, Frame
<1>6. \A s \in Sets : Settled(s)' <=> Settled(s)
  BY <1>1 DEF Settled, Upstream
<1>7. \A s \in Sets : s \notin uncertain => Settled(s)
  BY <1>1 DEF IInv, MetaOK, At
<1>8. CASE ~Pull.dry /\ AnyChanged
  <2>1. PICK q : q = [p EXCEPT !.step = "manifest"]
    OBVIOUS
  <2>2. pull' = <<q>> /\ last' = Nothing
    BY <1>3, <1>4, <1>8, <2>1 DEF WriteReport
  <2>3. /\ q \in PullOf(set)
        /\ q.set = p.set /\ q.target = p.target /\ q.dry = p.dry /\ q.prior = p.prior
        /\ q.fetched = p.fetched /\ q.step = "manifest"
    BY <2>1 DEF PullOf
  <2>4. FetchedOK(q)' /\ SavedOK(q)'
    BY <1>1, <1>3, <1>4, <1>8, <2>3 DEF FetchedOK, SavedOK, Upstream, Files
  <2>5. PullOf(set)' = PullOf(set)
    BY <1>1 DEF PullOf, Revisions, Texts, Upstream, Files
  <2>6. PullOK'
    BY <2>2, <2>3, <2>4, <2>5 DEF PullOK
  <2>7. MetaOK'
    BY <1>1, <1>6, <1>7 DEF MetaOK
  <2> QED
    BY <1>5, <2>2, <2>6, <2>7, NothingClaimed, SilentIsSilent DEF IInv
<1>9. CASE Pull.dry \/ ~AnyChanged
  <2>1. pull' = <<>> /\ last' = ToResult([kind |-> "pull", set |-> set, target |-> p.target, dry |-> p.dry], 0)
    BY <1>3, <1>9 DEF WriteReport, Done
  <2>2. MetaOK'
    BY <1>1, <1>6, <1>7 DEF MetaOK
  <2>3. PullOK'
    BY <2>1 DEF PullOK
  <2>4. GreenIsOneRevision'
    BY <2>1 DEF GreenIsOneRevision, ToResult
  <2>5. PullLands'
    <3>1. SUFFICES ASSUME ~p.dry
                   PROVE  /\ \A f \in ToSet(Files(set)) : disk[set][f] = Upstream(p.target, set)[f]
                          /\ manifest[set] = Upstream(p.target, set)
                          /\ set \notin uncertain => Upstream(meta[set].pinned, set) = Upstream(p.target, set)
      BY <1>1, <2>1 DEF PullLands, ToResult, Upstream, Files
    <3>2. \A f \in ToSet(Files(set)) : disk[set][f] = Upstream(p.target, set)[f]
      BY <1>3, <1>4, <3>1, LandedOnDisk DEF IInv
    <3>3. manifest[set] = Upstream(p.target, set)
      BY <1>3, <1>4, <1>9, <3>1, UnchangedIsTheTarget DEF IInv, ManifestOK
    <3>4. manifest[set] # Torn /\ manifest[set] # <<>>
      BY <1>3, <1>4, <1>9, <3>1, UnchangedIsTheTarget DEF IInv, ManifestOK
    <3>5. set \notin uncertain => Upstream(meta[set].pinned, set) = Upstream(p.target, set)
      BY <1>7, <3>3, <3>4 DEF Settled
    <3> QED
      BY <3>2, <3>3, <3>5
  <2> QED
    BY <1>5, <2>2, <2>3, <2>4, <2>5 DEF IInv
<1> QED
  BY <1>8, <1>9

LEMMA SaveManifestIInv ==
  ASSUME IInv, SaveManifest
  PROVE  IInv'
<1>1. /\ ~Idle /\ Pull.step = "manifest"
      /\ UNCHANGED <<disk, meta, last, uncertain, setup>>
  BY DEF SaveManifest, At, kept, counts
<1>2. PICK set \in Sets : \E p \in PullOf(set) :
        pull = <<p>> /\ Pull = p /\ p.set = set /\ FetchedOK(p) /\ SavedOK(p)
  BY <1>1, Running
<1>3. PICK p \in PullOf(set) : pull = <<p>> /\ Pull = p /\ p.set = set /\ FetchedOK(p) /\ SavedOK(p)
  BY <1>2
<1>4. p.step = "manifest" /\ last' = Nothing /\ p.target \in DOMAIN setup.revisions
  BY <1>1, <1>3, Running DEF PullOf
<1>5. NewHashes = Upstream(p.target, set)
  BY <1>3, <1>4, HashesAreTheTargets DEF IInv
<1>6. /\ manifest' = [s \in Sets |-> manifest'[s]]
      /\ manifest'[set] = Upstream(p.target, set)
      /\ \A s \in Sets \ {set} : manifest'[s] = manifest[s]
  <2>1. manifest' = [manifest EXCEPT ![set] = NewHashes] /\ DOMAIN manifest = Sets
    BY <1>3 DEF SaveManifest, IInv, ShapesOK
  <2> QED
    BY <1>5, <2>1
<1>7. PICK q : q = [p EXCEPT !.step = "meta"]
  OBVIOUS
<1>8. /\ pull' = <<q>> /\ q \in PullOf(set)
      /\ q.set = set /\ q.target = p.target /\ q.dry = p.dry /\ q.prior = p.prior
      /\ q.fetched = p.fetched /\ q.step = "meta"
  <2>1. pull' = <<q>>
    BY <1>3, <1>7 DEF SaveManifest
  <2> QED
    BY <1>7, <2>1 DEF PullOf
<1>9. IsSetup(setup)'
  <2>1. IsSetup(setup) /\ setup' = setup
    BY <1>1 DEF IInv
  <2> QED
    BY <2>1, Zenon
<1>10. ShapesOK'
  <2>1. Metas' = Metas
    BY <1>1 DEF Metas
  <2> QED
    BY <1>1, <1>6, <2>1 DEF IInv, ShapesOK
<1>11. ManifestOK'
  <2>1. \A s \in Sets : Revisions(s)' = Revisions(s)
    BY <1>1 DEF Revisions, Upstream
  <2>2. Upstream(p.target, set) \in Revisions(set)
    BY <1>4 DEF Revisions
  <2> QED
    BY <1>6, <2>1, <2>2 DEF IInv, ManifestOK
<1>12. MetaOK'
  <2> SUFFICES ASSUME NEW s \in Sets, s \notin uncertain, ~(At("meta") /\ Pull.set = s)'
               PROVE  Settled(s)'
    BY <1>1 DEF MetaOK
  <2>1. s # set
    BY <1>8 DEF At, Idle, Pull
  <2>2. Settled(s)
    BY <1>1 DEF IInv, MetaOK, At
  <2> QED
    BY <1>1, <1>6, <2>1, <2>2 DEF Settled, Upstream
<1>13. PullOK'
  <2>1. FetchedOK(q)'
    BY <1>1, <1>3, <1>4, <1>8 DEF FetchedOK, Upstream, Files
  <2>2. SavedOK(q)'
    BY <1>1, <1>3, <1>4, <1>6, <1>8 DEF SavedOK, Upstream
  <2>3. PullOf(set)' = PullOf(set)
    BY <1>1 DEF PullOf, Revisions, Texts, Upstream, Files
  <2> QED
    BY <1>4, <1>8, <2>1, <2>2, <2>3 DEF PullOK
<1> QED
  BY <1>4, <1>9, <1>10, <1>11, <1>12, <1>13, NothingClaimed, SilentIsSilent DEF IInv

LEMMA UpdateSyncMetaIInv ==
  ASSUME IInv, UpdateSyncMeta
  PROVE  IInv'
<1>1. /\ ~Idle /\ Pull.step = "meta" /\ meta[Pull.set] # Torn
      /\ UNCHANGED <<disk, manifest, setup>> /\ uncertain' = uncertain \ {Pull.set}
      /\ pull' = <<>>
  BY DEF UpdateSyncMeta, At, counts, Done
<1>2. PICK set \in Sets : \E p \in PullOf(set) :
        pull = <<p>> /\ Pull = p /\ p.set = set /\ FetchedOK(p) /\ SavedOK(p)
  BY <1>1, Running
<1>3. PICK p \in PullOf(set) : pull = <<p>> /\ Pull = p /\ p.set = set /\ FetchedOK(p) /\ SavedOK(p)
  BY <1>2
<1>4. p.step = "meta" /\ p.target \in DOMAIN setup.revisions /\ manifest[set] = Upstream(p.target, set)
      /\ last' = ToResult([kind |-> "pull", set |-> set, target |-> p.target, dry |-> p.dry], 0)
  BY <1>1, <1>3 DEF PullOf, SavedOK, UpdateSyncMeta, Done
<1>5. /\ meta' = [s \in Sets |-> meta'[s]]
      /\ \A s \in Sets \ {set} : meta'[s] = meta[s]
      /\ meta'[set] \in Metas /\ meta'[set].pinned = p.target
  <2>1. meta' = [meta EXCEPT ![set].pinned = p.target] /\ DOMAIN meta = Sets /\ meta[set] \in Metas
    BY <1>1, <1>3 DEF UpdateSyncMeta, IInv, ShapesOK
  <2> QED
    BY <1>4, <2>1 DEF Metas
<1>6. meta'[set] # Torn
  BY <1>5 DEF Metas, Torn
<1>7. IsSetup(setup)'
  <2>1. IsSetup(setup) /\ setup' = setup
    BY <1>1 DEF IInv
  <2> QED
    BY <2>1, Zenon
<1>8. ShapesOK'
  <2>1. Metas' = Metas
    BY <1>1 DEF Metas
  <2> QED
    BY <1>1, <1>5, <2>1 DEF IInv, ShapesOK
<1>9. ManifestOK'
  <2>1. \A s \in Sets : Revisions(s)' = Revisions(s)
    BY <1>1 DEF Revisions, Upstream
  <2> QED
    BY <1>1, <2>1 DEF IInv, ManifestOK
<1>10. MetaOK'
  <2> SUFFICES ASSUME NEW s \in Sets, s \notin uncertain' PROVE Settled(s)'
    BY DEF MetaOK
  <2>1. CASE s = set
    BY <1>1, <1>4, <1>5, <1>6, <2>1 DEF Settled, Upstream
  <2>2. CASE s # set
    <3>1. Settled(s)
      BY <1>1, <1>3, <2>2 DEF IInv, MetaOK
    <3> QED
      BY <1>1, <1>5, <2>2, <3>1 DEF Settled, Upstream
  <2> QED
    BY <2>1, <2>2
<1>11. PullOK' /\ GreenIsOneRevision'
  BY <1>1, <1>4 DEF PullOK, GreenIsOneRevision, ToResult
<1>12. PullLands'
  <2>1. \A f \in ToSet(Files(set)) : disk[set][f] = Upstream(p.target, set)[f]
    BY <1>3, <1>4, LandedOnDisk DEF IInv, SavedOK
  <2> QED
    BY <1>1, <1>4, <1>5, <2>1 DEF PullLands, ToResult, Upstream, Files
<1> QED
  BY <1>7, <1>8, <1>9, <1>10, <1>11, <1>12 DEF IInv

\* A pull that stops claims nothing, and leaves its set uncertain if it had saved the
\* manifest.
LEMMA StoppedClaimsNothing ==
  ASSUME IInv, ~Idle, NEW code, Stopped(code)
  PROVE  /\ PullOK' /\ GreenIsOneRevision' /\ PullLands'
         /\ setup' = setup /\ IsSetup(setup)' /\ pull' = <<>>
         /\ \A s \in Sets : s \notin uncertain' => s \notin uncertain /\ Settled(s)
<1>1. /\ pull' = <<>> /\ setup' = setup /\ last' = ToResult([kind |-> "stopped"], code)
      /\ uncertain' = IF Pull.step = "meta" THEN uncertain \cup {Pull.set} ELSE uncertain
  BY DEF Stopped
<1>2. PullOK'
  BY <1>1 DEF PullOK
<1>3. last'.command.kind \notin {"check", "pull"}
  BY <1>1 DEF ToResult
<1>4. GreenIsOneRevision' /\ PullLands'
  BY <1>3, NothingClaimed
<1>5. IsSetup(setup)'
  <2>1. IsSetup(setup)
    BY DEF IInv
  <2> QED
    BY <1>1, <2>1, Zenon
<1>6. \A s \in Sets : s \notin uncertain' => s \notin uncertain /\ Settled(s)
  BY <1>1 DEF IInv, MetaOK, At
<1> QED
  BY <1>1, <1>2, <1>4, <1>5, <1>6

LEMMA RefuseSyncMetaIInv ==
  ASSUME IInv, RefuseSyncMeta
  PROVE  IInv'
<1>1. ~Idle /\ Stopped(2) /\ UNCHANGED <<disk, manifest, meta>>
  BY DEF RefuseSyncMeta, At
<1>2. /\ PullOK' /\ GreenIsOneRevision' /\ PullLands' /\ setup' = setup /\ pull' = <<>>
      /\ \A s \in Sets : s \notin uncertain' => s \notin uncertain /\ Settled(s)
  BY <1>1, StoppedClaimsNothing
<1>3. IsSetup(setup)' /\ ShapesOK' /\ ManifestOK'
  BY <1>1, <1>2, Frame
<1>4. MetaOK'
  BY <1>1, <1>2 DEF MetaOK, Settled, Upstream
<1> QED
  BY <1>2, <1>3, <1>4 DEF IInv

LEMMA FailIInv ==
  ASSUME IInv, Fail
  PROVE  IInv'
<1>1. ~Idle /\ Stopped(2) /\ UNCHANGED <<disk, manifest, meta>>
  BY DEF Fail
<1>2. /\ PullOK' /\ GreenIsOneRevision' /\ PullLands' /\ setup' = setup /\ pull' = <<>>
      /\ \A s \in Sets : s \notin uncertain' => s \notin uncertain /\ Settled(s)
  BY <1>1, StoppedClaimsNothing
<1>3. IsSetup(setup)' /\ ShapesOK' /\ ManifestOK'
  BY <1>1, <1>2, Frame
<1>4. MetaOK'
  BY <1>1, <1>2 DEF MetaOK, Settled, Upstream
<1> QED
  BY <1>2, <1>3, <1>4 DEF IInv

LEMMA CutWriteIInv ==
  ASSUME IInv, CutWrite
  PROVE  IInv'
<1>1. ~Idle /\ Stopped(137)
  BY DEF CutWrite
<1>2. PICK set \in Sets : Pull.set = set
  BY <1>1, Running
<1>3. /\ PullOK' /\ GreenIsOneRevision' /\ PullLands' /\ setup' = setup /\ pull' = <<>> /\ IsSetup(setup)'
      /\ \A s \in Sets : s \notin uncertain' => s \notin uncertain /\ Settled(s)
  BY <1>1, StoppedClaimsNothing
<1>4. Metas' = Metas /\ \A s \in Sets : Revisions(s)' = Revisions(s)
  BY <1>3 DEF Metas, Revisions, Upstream
<1>5. CASE Pull.step = "fetch"
  <2>1. disk' = [disk EXCEPT ![set] = Written(@, NextFile, Cut)] /\ UNCHANGED <<manifest, meta>>
    BY <1>2, <1>5 DEF CutWrite, WithFile
  <2>2. PICK file : file = NextFile
    OBVIOUS
  <2>3. disk' = [disk EXCEPT ![set] = Written(@, file, Cut)]
    BY <2>1, <2>2
  <2>4. /\ disk' = [s \in Sets |-> disk'[s]]
        /\ \A s \in Sets : disk'[s] = [f \in DOMAIN disk'[s] |-> disk'[s][f]]
    BY <2>3, WritingAFile DEF IInv
  <2>5. ShapesOK' /\ ManifestOK'
    BY <1>4, <2>1, <2>4 DEF IInv, ShapesOK, ManifestOK
  <2>6. MetaOK'
    BY <1>3, <2>1 DEF MetaOK, Settled, Upstream
  <2> QED
    BY <1>3, <2>5, <2>6 DEF IInv
<1>6. CASE Pull.step = "manifest"
  <2>1. PICK left \in {<<>>, Torn} : manifest' = [manifest EXCEPT ![set] = left] /\ UNCHANGED <<disk, meta>>
    BY <1>2, <1>6 DEF CutWrite
  <2>2. /\ manifest' = [s \in Sets |-> manifest'[s]] /\ manifest'[set] \in {<<>>, Torn}
        /\ \A s \in Sets \ {set} : manifest'[s] = manifest[s]
    BY <2>1 DEF IInv, ShapesOK
  <2>3. ShapesOK' /\ ManifestOK'
    BY <1>4, <2>1, <2>2 DEF IInv, ShapesOK, ManifestOK
  <2>4. MetaOK'
    <3> SUFFICES ASSUME NEW s \in Sets, s \notin uncertain' PROVE Settled(s)'
      BY DEF MetaOK
    <3>1. Settled(s)
      BY <1>3
    <3> QED
      BY <1>3, <2>1, <2>2, <3>1 DEF Settled, Upstream
  <2> QED
    BY <1>3, <2>3, <2>4 DEF IInv
<1>7. CASE Pull.step = "meta"
  <2>1. PICK left \in {[pinned |-> 0, translations |-> FALSE], Torn} :
          meta' = [meta EXCEPT ![set] = left] /\ UNCHANGED <<disk, manifest>>
    BY <1>2, <1>7 DEF CutWrite
  <2>2. left \in Metas \cup {Torn}
    <3>1. 0 \in DOMAIN setup.revisions \cup {0} /\ FALSE \in BOOLEAN
      OBVIOUS
    <3>2. [pinned |-> 0, translations |-> FALSE] \in Metas
      BY <3>1, Zenon DEF Metas
    <3> QED
      BY <2>1, <3>2
  <2>3. /\ meta' = [s \in Sets |-> meta'[s]] /\ meta'[set] \in Metas \cup {Torn}
        /\ \A s \in Sets \ {set} : meta'[s] = meta[s]
    BY <2>1, <2>2 DEF IInv, ShapesOK
  <2>4. ShapesOK' /\ ManifestOK'
    BY <1>4, <2>1, <2>3 DEF IInv, ShapesOK, ManifestOK
  <2>5. MetaOK'
    <3> SUFFICES ASSUME NEW s \in Sets, s \notin uncertain' PROVE Settled(s)'
      BY DEF MetaOK
    <3>1. s # set
      BY <1>1, <1>2, <1>7 DEF Stopped
    <3>2. Settled(s)
      BY <1>3
    <3> QED
      BY <1>3, <2>1, <2>3, <3>1, <3>2 DEF Settled, Upstream
  <2> QED
    BY <1>3, <2>4, <2>5 DEF IInv
<1>8. CASE Pull.step \notin {"fetch", "manifest", "meta"}
  <2>1. UNCHANGED <<disk, manifest, meta>>
    BY <1>8 DEF CutWrite
  <2>2. ShapesOK' /\ ManifestOK'
    BY <1>3, <2>1, Frame
  <2>3. MetaOK'
    BY <1>3, <2>1 DEF MetaOK, Settled, Upstream
  <2> QED
    BY <1>3, <2>2, <2>3 DEF IInv
<1> QED
  BY <1>5, <1>6, <1>7, <1>8

LEMMA GenerateIInv ==
  ASSUME IInv, NEW dry \in BOOLEAN, Generate(dry)
  PROVE  IInv'
<1>1. /\ UNCHANGED <<disk, manifest, meta, pull, uncertain, setup>> /\ pull = <<>>
      /\ \E code \in {0, 2} : last' = ToResult([kind |-> "generate", dry |-> dry], code)
  BY DEF Generate, counts, Idle
<1>2. IsSetup(setup)' /\ ShapesOK' /\ ManifestOK'
  BY <1>1, Frame
<1>3. MetaOK'
  BY <1>1 DEF IInv, MetaOK, At, Idle, Pull, Settled, Upstream
<1>4. PullOK'
  BY <1>1 DEF PullOK
<1>5. last'.command.kind \notin {"check", "pull"}
  BY <1>1 DEF ToResult
<1> QED
  BY <1>2, <1>3, <1>4, <1>5, NothingClaimed DEF IInv

LEMMA EditIInv ==
  ASSUME IInv, NEW set \in Sets, Edit(set)
  PROVE  IInv'
<1>1. /\ UNCHANGED <<manifest, meta, pull, uncertain, setup>> /\ pull = <<>> /\ last' = Nothing
  BY DEF Edit, kept, Idle
<1>2. /\ disk' = [s \in Sets |-> disk'[s]]
      /\ \A s \in Sets : disk'[s] = [f \in DOMAIN disk'[s] |-> disk'[s][f]]
  <2>1. ASSUME NEW file, NEW contents, disk' = [disk EXCEPT ![set] = Written(@, file, contents)]
        PROVE  <1>2!1 /\ <1>2!2
    BY <2>1, WritingAFile DEF IInv
  <2>2. ASSUME NEW f \in DOMAIN disk[set], disk' = [disk EXCEPT ![set] = [g \in DOMAIN @ \ {f} |-> @[g]]]
        PROVE  <1>2!1 /\ <1>2!2
    <3>1. DOMAIN disk = Sets
      BY DEF IInv, ShapesOK
    <3>2. disk'[set] = [g \in DOMAIN disk[set] \ {f} |-> disk[set][g]]
          /\ disk' = [s \in Sets |-> disk'[s]] /\ \A s \in Sets \ {set} : disk'[s] = disk[s]
      BY <2>2, <3>1
    <3> QED
      BY <3>2 DEF IInv, ShapesOK
  <2> QED
    BY <2>1, <2>2 DEF Edit
<1>3. IsSetup(setup)' /\ ManifestOK'
  <2>1. IsSetup(setup) /\ setup' = setup
    BY <1>1 DEF IInv
  <2>2. \A s \in Sets : Revisions(s)' = Revisions(s)
    BY <2>1 DEF Revisions, Upstream
  <2>3. IsSetup(setup)'
    BY <2>1, Zenon
  <2> QED
    BY <1>1, <2>2, <2>3 DEF IInv, ManifestOK
<1>4. ShapesOK'
  <2>1. Metas' = Metas
    BY <1>1 DEF Metas
  <2> QED
    BY <1>1, <1>2, <2>1 DEF IInv, ShapesOK
<1>5. MetaOK'
  BY <1>1 DEF IInv, MetaOK, At, Idle, Pull, Settled, Upstream
<1>6. PullOK'
  BY <1>1 DEF PullOK
<1> QED
  BY <1>1, <1>3, <1>4, <1>5, <1>6, NothingClaimed, SilentIsSilent DEF IInv

LEMMA NextIInv == IInv /\ [Next]_vars => IInv'
<1> SUFFICES ASSUME IInv, [Next]_vars PROVE IInv'
  OBVIOUS
<1>1. ASSUME NEW sets \in {Sets} \cup {{set} : set \in Sets}, Check(sets) PROVE IInv'
  BY <1>1, CheckIInv
<1>2. ASSUME NEW set \in Sets, NEW target \in DOMAIN setup.revisions, NEW dry \in BOOLEAN,
             StartPull(set, target, dry)
      PROVE  IInv'
  BY <1>2, StartPullIInv
<1>3. CASE PullSteps
  BY <1>3, FetchIInv, WriteReportIInv, SaveManifestIInv, UpdateSyncMetaIInv, RefuseSyncMetaIInv,
     FailIInv, CutWriteIInv DEF PullSteps
<1>4. ASSUME NEW dry \in BOOLEAN, Generate(dry) PROVE IInv'
  BY <1>4, GenerateIInv
<1>5. ASSUME NEW set \in Sets, Edit(set) PROVE IInv'
  BY <1>5, EditIInv
<1>6. CASE UNCHANGED vars
  <2>1. UNCHANGED <<disk, manifest, meta, pull, last, uncertain, setup>>
    BY <1>6 DEF vars, kept, counts
  <2>2. IsSetup(setup)' /\ ShapesOK' /\ ManifestOK'
    BY <2>1, Frame
  <2>3. MetaOK'
    BY <2>1 DEF IInv, MetaOK, At, Idle, Pull, Settled, Upstream
  <2>4. PullOK'
    <3>1. \A set \in Sets : PullOf(set)' = PullOf(set)
      BY <2>1 DEF PullOf, Revisions, Texts, Upstream, Files
    <3>2. \A p : FetchedOK(p)' <=> FetchedOK(p)
      BY <2>1 DEF FetchedOK, Upstream, Files
    <3>3. \A p : SavedOK(p)' <=> SavedOK(p)
      BY <2>1 DEF SavedOK, Upstream
    <3> QED
      BY <2>1, <3>1, <3>2, <3>3 DEF IInv, PullOK
  <2>5. GreenIsOneRevision'
    BY <2>1 DEF IInv, GreenIsOneRevision, Upstream
  <2>6. PullLands'
    BY <2>1 DEF IInv, PullLands, Upstream, Files
  <2> QED
    BY <2>2, <2>3, <2>4, <2>5, <2>6 DEF IInv
<1> QED
  BY <1>1, <1>2, <1>3, <1>4, <1>5, <1>6 DEF Next

-----------------------------------------------------------------------------
\* The inductive invariant holds in every state of every run.
THEOREM IInvariance == Spec => []IInv
BY InitIInv, NextIInv, PTL DEF Spec

\* A check that passes vouches for one whole revision of every set it looked at, however
\* pulls fail and whatever is edited (check_integrity).
THEOREM GreenCheckIsOneRevision == Spec => []GreenIsOneRevision
<1>1. IInv => GreenIsOneRevision
  BY DEF IInv
<1> QED
  BY <1>1, IInvariance, PTL

\* A pull that ends well has adopted its revision, from any state pulls, failures and
\* edits can leave (sync).
THEOREM PullAdoptsItsRevision == Spec => []PullLands
<1>1. IInv => PullLands
  BY DEF IInv
<1> QED
  BY <1>1, IInvariance, PTL

\* Where no pull was stopped between saving the manifest and pinning its revision, the
\* manifest is that revision's or was cut (sync, update_sync_meta).
THEOREM CertainIsSettled ==
  Spec => [](pull = <<>> => \A set \in Sets : set \notin uncertain => Settled(set))
<1>1. IInv => (pull = <<>> => \A set \in Sets : set \notin uncertain => Settled(set))
  BY DEF IInv, MetaOK, At, Idle
<1> QED
  BY <1>1, IInvariance, PTL

-----------------------------------------------------------------------------
(***************************************************************************)
(* What the reader has: every part of it, whatever the file.               *)
(***************************************************************************)
\* Strings, and those the reader itself writes.
Words == STRING \cup {"", NoPrec, "%token", "edited", ":", "|", "%prec"}

AltT == [symbols : Seq(Words), prec : Words]
RuleT == [lhs : Words, alternatives : Seq(AltT)]

Modes == {"prologue", "declarations", "list", "names", "union", "line", "rule", "colon", "alternative",
          "prec", "after", "end", "fault"}

ListT == [assoc : Words, tokens : Seq(Words)]

ReaderT ==
  [mode : Modes, keyword : Words, names : Seq(Words), precedence : Seq(ListT), start : Seq(Words),
   rules : Seq(RuleT), lhs : Words, alternatives : Seq(AltT), alternative : AltT]

\* The first token is read with nothing read.
LEMMA StartType == Start \in ReaderT /\ EmptyAlternative \in AltT
<1>1. EmptyAlternative \in AltT
  <2>1. <<>> \in Seq(Words) /\ NoPrec \in Words
    BY DEF Words
  <2> QED BY <2>1, Zenon DEF EmptyAlternative, AltT
<1>2. /\ <<>> \in Seq(Words) /\ <<>> \in Seq(ListT) /\ <<>> \in Seq(RuleT) /\ <<>> \in Seq(AltT)
      /\ "prologue" \in Modes /\ "%token" \in Words /\ "" \in Words
  <2>1. /\ <<>> \in Seq(Words) /\ <<>> \in Seq(ListT) /\ <<>> \in Seq(RuleT) /\ <<>> \in Seq(AltT)
    OBVIOUS
  <2> QED BY <2>1 DEF Modes, Words
<1> QED BY <1>1, <1>2, Zenon DEF Start, ReaderT

\* Each part on its own.
LEMMA PartType ==
  ASSUME NEW p, p \in ReaderT
  PROVE  /\ \A m \in Modes : [p EXCEPT !.mode = m] \in ReaderT
         /\ \A m \in Modes, k \in Words : [p EXCEPT !.mode = m, !.keyword = k] \in ReaderT
         /\ \A m \in Modes, h \in Words : [p EXCEPT !.mode = m, !.lhs = h] \in ReaderT
         /\ \A n \in Seq(Words) : [p EXCEPT !.names = n] \in ReaderT
         /\ \A x \in Seq(ListT) : [p EXCEPT !.precedence = x] \in ReaderT
         /\ \A a \in AltT : [p EXCEPT !.alternative = a] \in ReaderT
         /\ Fault(p) \in ReaderT
<1>1. "fault" \in Modes
  BY DEF Modes
<1> QED BY <1>1 DEF ReaderT, Fault

LEMMA EndListType ==
  ASSUME NEW p, p \in ReaderT
  PROVE  EndList(p) \in ReaderT
<1> DEFINE list == [p EXCEPT !.mode = "declarations", !.names = <<>>]
<1>1. list \in ReaderT /\ p.keyword \in Words /\ p.names \in Seq(Words)
  <2>1. "declarations" \in Modes /\ <<>> \in Seq(Words)
    BY DEF Modes
  <2> QED BY <2>1 DEF ReaderT
<1>2. [assoc |-> p.keyword, tokens |-> p.names] \in ListT
  BY <1>1 DEF ListT
<1>3. \A x \in ListT : [list EXCEPT !.precedence = Append(@, x)] \in ReaderT
  <2> TAKE x \in ListT
  <2> DEFINE more == Append(list.precedence, x)
  <2> HIDE DEF list
  <2>1. list.precedence \in Seq(ListT)
    BY <1>1 DEF ReaderT
  <2>2. more \in Seq(ListT)
    BY <2>1
  <2> HIDE DEF more
  <2>3. [list EXCEPT !.precedence = more] \in ReaderT
    BY <1>1, <2>2, PartType
  <2> QED BY <2>3, Zenon DEF more
<1>4. [list EXCEPT !.start = p.names] \in ReaderT
  <2> HIDE DEF list
  <2> QED BY <1>1 DEF ReaderT
<1>5. Fault(p) \in ReaderT
  BY PartType
<1> HIDE DEF list
<1> QED BY <1>1, <1>2, <1>3, <1>4, <1>5 DEF EndList, list

LEMMA DeclarationType ==
  ASSUME NEW p, p \in ReaderT, NEW token, token \in Words
  PROVE  Declaration(p, token) \in ReaderT
<1>1. {"rule", "list", "union", "line"} \subseteq Modes
  BY DEF Modes
<1> QED BY <1>1, PartType DEF Declaration

LEMMA InListType ==
  ASSUME NEW p, p \in ReaderT, NEW token, token \in Words
  PROVE  InList(p, token) \in ReaderT
<1>1. [p EXCEPT !.names = Append(@, token)] \in ReaderT
  <2> DEFINE more == Append(p.names, token)
  <2>1. p.names \in Seq(Words)
    BY DEF ReaderT
  <2>2. more \in Seq(Words)
    BY <2>1
  <2> HIDE DEF more
  <2>3. [p EXCEPT !.names = more] \in ReaderT
    BY <2>2, PartType
  <2> QED BY <2>3, Zenon DEF more
<1>2. EndList(p) \in ReaderT
  BY EndListType
<1>3. Declaration(EndList(p), token) \in ReaderT
  BY <1>2, DeclarationType
<1>4. [p EXCEPT !.mode = "names"] \in ReaderT
  <2>1. "names" \in Modes
    BY DEF Modes
  <2> QED BY <2>1, PartType
<1> QED BY <1>1, <1>2, <1>3, <1>4 DEF InList

LEMMA EndAlternativeType ==
  ASSUME NEW p, p \in ReaderT
  PROVE  EndAlternative(p) \in ReaderT
<1>1. "after" \in Modes
  BY DEF Modes
<1>2. EmptyAlternative \in AltT
  BY StartType
<1> DEFINE more == Append(p.alternatives, p.alternative)
<1>3. p.alternatives \in Seq(AltT) /\ p.alternative \in AltT
  BY DEF ReaderT
<1>4. more \in Seq(AltT)
  BY <1>3
<1>5. EndAlternative(p) = [p EXCEPT !.mode = "after", !.alternatives = more, !.alternative = EmptyAlternative]
  BY DEF EndAlternative
<1> HIDE DEF more
<1>6. [p EXCEPT !.mode = "after", !.alternatives = more, !.alternative = EmptyAlternative] \in ReaderT
  BY <1>1, <1>2, <1>4 DEF ReaderT
<1> QED BY <1>5, <1>6

LEMMA EndRuleType ==
  ASSUME NEW p, p \in ReaderT
  PROVE  EndRule(p) \in ReaderT
<1>1. [lhs |-> p.lhs, alternatives |-> p.alternatives] \in RuleT
  BY DEF ReaderT, RuleT
<1>2. "rule" \in Modes /\ <<>> \in Seq(AltT)
  BY DEF Modes
<1> DEFINE more == Append(p.rules, [lhs |-> p.lhs, alternatives |-> p.alternatives])
           none == <<>>
<1>3. p.rules \in Seq(RuleT)
  BY DEF ReaderT
<1>4. more \in Seq(RuleT) /\ none \in Seq(AltT)
  BY <1>1, <1>2, <1>3
<1>5. EndRule(p) = [p EXCEPT !.mode = "rule", !.rules = more, !.alternatives = none]
  BY DEF EndRule
<1> HIDE DEF more, none
<1>6. [p EXCEPT !.mode = "rule", !.rules = more, !.alternatives = none] \in ReaderT
  BY <1>2, <1>4 DEF ReaderT
<1> QED BY <1>5, <1>6

LEMMA RuleType ==
  ASSUME NEW p, p \in ReaderT, NEW token, token \in Words
  PROVE  Rule(p, token) \in ReaderT
<1>1. {"end", "colon"} \subseteq Modes
  BY DEF Modes
<1> QED BY <1>1, PartType DEF Rule

LEMMA AfterType ==
  ASSUME NEW p, p \in ReaderT, NEW token, token \in Words
  PROVE  After(p, token) \in ReaderT
<1>1. "alternative" \in Modes
  BY DEF Modes
<1>2. EndRule(p) \in ReaderT /\ Rule(EndRule(p), token) \in ReaderT
  BY EndRuleType, RuleType
<1> QED BY <1>1, <1>2, PartType DEF After

LEMMA InAlternativeType ==
  ASSUME NEW p, p \in ReaderT, NEW token, token \in Words
  PROVE  InAlternative(p, token) \in ReaderT
<1>1. [p EXCEPT !.alternative.symbols = Append(@, token)] \in ReaderT
  <2> DEFINE more == Append(p.alternative.symbols, token)
             a == [p.alternative EXCEPT !.symbols = more]
  <2>1. p.alternative \in AltT
    BY DEF ReaderT
  <2>2. p.alternative.symbols \in Seq(Words)
    BY <2>1 DEF AltT
  <2>3. more \in Seq(Words)
    BY <2>2
  <2>4. [p EXCEPT !.alternative.symbols = Append(@, token)] = [p EXCEPT !.alternative = a]
    BY DEF ReaderT
  <2> HIDE DEF more
  <2>5. a \in AltT
    BY <2>1, <2>3 DEF AltT
  <2> HIDE DEF a
  <2> QED BY <2>4, <2>5, PartType
<1>2. "prec" \in Modes
  BY DEF Modes
<1>3. EndAlternative(p) \in ReaderT /\ After(EndAlternative(p), token) \in ReaderT
  BY EndAlternativeType, AfterType
<1> QED BY <1>1, <1>2, <1>3, PartType DEF InAlternative

LEMMA InPrecType ==
  ASSUME NEW p, p \in ReaderT, NEW token, token \in Words
  PROVE  InPrec(p, token) \in ReaderT
<1>1. \A t \in Words : [p EXCEPT !.mode = "alternative", !.alternative.prec = t] \in ReaderT
  <2>1. "alternative" \in Modes
    BY DEF Modes
  <2> QED BY <2>1 DEF ReaderT, AltT
<1>2. "" \in Words
  BY DEF Words
<1> QED BY <1>1, <1>2, InAlternativeType DEF InPrec

LEMMA ReadTokenType ==
  ASSUME NEW p, p \in ReaderT, NEW token, token \in Words
  PROVE  ReadToken(p, token) \in ReaderT
<1>1. p.mode \in Modes
  BY DEF ReaderT
<1>2. {"declarations", "alternative"} \subseteq Modes
  BY DEF Modes
<1>3. /\ [p EXCEPT !.mode = "declarations"] \in ReaderT /\ [p EXCEPT !.mode = "alternative"] \in ReaderT
      /\ Fault(p) \in ReaderT
  BY <1>2, PartType
<1>4. /\ Declaration([p EXCEPT !.mode = "declarations"], token) \in ReaderT
      /\ Declaration(p, token) \in ReaderT /\ InList(p, token) \in ReaderT /\ Rule(p, token) \in ReaderT
      /\ InAlternative(p, token) \in ReaderT /\ InPrec(p, token) \in ReaderT /\ After(p, token) \in ReaderT
  BY <1>3, DeclarationType, InListType, RuleType, InAlternativeType, InPrecType, AfterType
<1> QED BY <1>1, <1>3, <1>4 DEF ReadToken, Modes

LEMMA ReadEndType ==
  ASSUME NEW p, p \in ReaderT
  PROVE  ReadEnd(p) \in ReaderT
<1>1. [p EXCEPT !.alternative.prec = ""] \in ReaderT
  <2>1. "" \in Words
    BY DEF Words
  <2> QED BY <2>1 DEF ReaderT, AltT
<1>2. /\ EndRule(EndAlternative(p)) \in ReaderT /\ EndRule(p) \in ReaderT
      /\ EndRule(EndAlternative([p EXCEPT !.alternative.prec = ""])) \in ReaderT
  BY <1>1, EndRuleType, EndAlternativeType
<1> QED BY <1>2, PartType DEF ReadEnd

\* ReadToken as a function.
Reading == [pt \in ReaderT \X Words |-> ReadToken(pt[1], pt[2])]

LEMMA ReadingType ==
  /\ Reading \in [ReaderT \X Words -> ReaderT]
  /\ \A p \in ReaderT, t \in Words : Reading[<<p, t>>] = ReadToken(p, t)
<1>1. \A p \in ReaderT, t \in Words : ReadToken(p, t) \in ReaderT
  BY ReadTokenType
<1> QED BY <1>1 DEF Reading

\* Reading a file is a solution of its recursion.
LEMMA ReadingFolds ==
  ASSUME NEW s, s \in Seq(Words)
  PROVE  FoldsTo(ReaderT, Reading, Start, s, FoldLeft(ReadToken, Start, s))
<1> DEFINE X == ReaderT
           H == Reading
           Y == Words
           Iter == CHOOSE iter : iter = [T \in SUBSET DOMAIN s |->
                     IF T = {} THEN Start ELSE ReadToken(iter[T \ {Max(T)}], s[Max(T)])]
<1>1. FoldLeft(ReadToken, Start, s) = Iter[DOMAIN s]
  BY Zenon DEF FoldLeft, MapThenFoldSet
<1>2. \A p \in X, t \in Y : H[<<p, t>>] = ReadToken(p, t)
  BY ReadingType
<1>3. H \in [X \X Y -> X] /\ Start \in X /\ s \in Seq(Y)
  BY ReadingType, StartType
<1> HIDE DEF X, Y, H
<1>4. PICK g \in [SUBSET DOMAIN s -> X] : FoldsOver(H, Start, s, g)
  BY <1>3, FoldExists, Zenon
<1>5. \A T \in SUBSET DOMAIN s : T # {} =>
        Max(T) \in DOMAIN s /\ s[Max(T)] \in Y /\ T \ {Max(T)} \in SUBSET DOMAIN s
  <2> TAKE T \in SUBSET DOMAIN s
  <2> HAVE T # {}
  <2>1. Len(s) \in Nat /\ DOMAIN s = 1 .. Len(s)
    BY <1>3
  <2>2. T \in SUBSET (1 .. Len(s))
    BY <2>1
  <2>3. Max(T) \in T
    BY <2>1, <2>2, MaxIn, Zenon
  <2>4. Max(T) \in DOMAIN s
    BY <2>3
  <2> QED BY <1>3, <2>4
<1>6. \A T \in SUBSET DOMAIN s :
        g[T] = IF T = {} THEN Start ELSE ReadToken(g[T \ {Max(T)}], s[Max(T)])
  <2> TAKE T \in SUBSET DOMAIN s
  <2>1. CASE T = {}
    BY <1>4, <2>1 DEF FoldsOver
  <2>2. CASE T # {}
    <3>1. g[T] = H[<<g[T \ {Max(T)}], s[Max(T)]>>]
      BY <1>4, <2>2 DEF FoldsOver
    <3>2. g[T \ {Max(T)}] \in X /\ s[Max(T)] \in Y
      BY <1>4, <1>5, <2>2
    <3> QED BY <1>2, <2>2, <3>1, <3>2
  <2> QED BY <2>1, <2>2
<1>7. g = [T \in SUBSET DOMAIN s |->
             IF T = {} THEN Start ELSE ReadToken(g[T \ {Max(T)}], s[Max(T)])]
  <2>1. g = [T \in SUBSET DOMAIN s |-> g[T]]
    BY <1>4
  <2> QED BY <1>6, <2>1
<1>8. Iter = [T \in SUBSET DOMAIN s |->
                IF T = {} THEN Start ELSE ReadToken(Iter[T \ {Max(T)}], s[Max(T)])]
  BY <1>7, Zenon
<1> HIDE DEF Iter
<1>9. Iter[{}] = Start
  BY <1>8
<1>10. FoldsWithin(X, H, s, Iter)
  <2> SUFFICES ASSUME NEW T \in SUBSET DOMAIN s, T # {}, Iter[T \ {Max(T)}] \in X
               PROVE  Iter[T] = H[<<Iter[T \ {Max(T)}], s[Max(T)]>>]
    BY DEF FoldsWithin
  <2>1. Iter[T] = ReadToken(Iter[T \ {Max(T)}], s[Max(T)])
    BY <1>8
  <2> QED BY <1>2, <1>5, <2>1
<1>11. FoldsTo(X, H, Start, s, Iter[DOMAIN s])
  BY <1>3, <1>9, <1>10, FoldPrefixes
<1> QED BY <1>1, <1>11, Zenon DEF X, H

\* A file that is read has been read to rules.
LEMMA ParseType ==
  ASSUME NEW text, text \in Seq(Words), Parse(text) # <<>>
  PROVE  Parse(text)[1].rules \in Seq(RuleT)
<1> DEFINE read == FoldLeft(ReadToken, Start, text)
           p == ReadEnd(read)
<1>1. read \in ReaderT
  <2>1. FoldsTo(ReaderT, Reading, Start, text, read)
    BY ReadingFolds
  <2>2. Len(text) \in 0 .. Len(text)
    OBVIOUS
  <2> HIDE DEF read
  <2> QED BY <2>1, <2>2 DEF FoldsTo
<1> HIDE DEF read
<1>2. p \in ReaderT
  BY <1>1, ReadEndType
<1>3. p.rules \in Seq(RuleT)
  <2> HIDE DEF p
  <2> QED BY <1>2 DEF ReaderT
<1>4. Parse(text) = <<[precedence |-> p.precedence, start |-> p.start, rules |-> p.rules]>>
  BY DEF Parse, read
<1> QED BY <1>3, <1>4

-----------------------------------------------------------------------------
(***************************************************************************)
(* What has been read of the rules, written down again.                    *)
(***************************************************************************)
\* An alternative written in its rule, and what separates it from the one before.
Separator(alternatives) == IF alternatives = <<>> THEN <<>> ELSE <<"|">>

WrittenParts(alternatives) ==
  [n \in DOMAIN alternatives |-> (IF n = 1 THEN <<>> ELSE <<"|">>) \o WrittenAlternative(alternatives[n])]

\* Sequences of words, and that joining them associates.
LEMMA Joining ==
  /\ <<>> \in Seq(Words) /\ <<"|">> \in Seq(Words) /\ <<":">> \in Seq(Words) /\ <<"%prec">> \in Seq(Words)
  /\ \A a, b, c \in Seq(Words) : (a \o b) \o c = a \o (b \o c) /\ a \o b \in Seq(Words)
  /\ \A a \in Seq(Words) : a \o <<>> = a /\ <<>> \o a = a
  /\ \A a \in Seq(Words), t \in Words : Append(a, t) = a \o <<t>> /\ <<t>> \in Seq(Words)
<1>1. "|" \in Words /\ ":" \in Words /\ "%prec" \in Words
  BY DEF Words
<1>2. \A a, b, c \in Seq(Words) : (a \o b) \o c = a \o (b \o c) /\ a \o b \in Seq(Words)
  BY Associates
<1>3. \A a \in Seq(Words) : a \o <<>> = a /\ <<>> \o a = a
  OBVIOUS
<1>4. \A a \in Seq(Words), t \in Words : Append(a, t) = a \o <<t>> /\ <<t>> \in Seq(Words)
  BY Ones
<1>5. <<>> \in Seq(Words) /\ \A t \in Words : <<t>> \in Seq(Words)
  OBVIOUS
<1> QED BY <1>1, <1>2, <1>3, <1>4, <1>5

LEMMA WrittenAlternativeType ==
  ASSUME NEW a, a \in AltT
  PROVE  WrittenAlternative(a) \in Seq(Words)
<1> DEFINE Z == Seq(Words)
           tail == IF a.prec = NoPrec THEN <<>> ELSE <<"%prec", a.prec>>
<1>1. a.symbols \in Z /\ a.prec \in Words
  BY DEF AltT
<1>2. tail \in Z
  <2>1. "%prec" \in Words
    BY DEF Words
  <2> QED BY <1>1, <2>1
<1>3. WrittenAlternative(a) = a.symbols \o tail
  BY DEF WrittenAlternative
<1> HIDE DEF tail
<1> QED BY <1>1, <1>2, <1>3, Joining

\* One more alternative is written behind the others.
LEMMA WrittenOneMore ==
  ASSUME NEW s, s \in Seq(AltT), NEW a, a \in AltT
  PROVE  /\ FlattenSeq(WrittenParts(s)) \in Seq(Words)
         /\ FlattenSeq(WrittenParts(Append(s, a)))
              = FlattenSeq(WrittenParts(s)) \o (Separator(s) \o WrittenAlternative(a))
<1> DEFINE Z == Seq(Words)
           x == Separator(s) \o WrittenAlternative(a)
           w == WrittenParts(s)
           v == WrittenParts(Append(s, a))
           Part(n, b) == (IF n = 1 THEN <<>> ELSE <<"|">>) \o WrittenAlternative(b)
<1>1. Len(s) \in Nat /\ DOMAIN s = 1 .. Len(s) /\ \A n \in 1 .. Len(s) : s[n] \in AltT
  OBVIOUS
<1>2. \A n \in Nat : \A b \in AltT : Part(n, b) \in Z
  <2>1. \A b \in AltT : WrittenAlternative(b) \in Z
    BY WrittenAlternativeType
  <2> QED BY <2>1, Joining
<1>3. /\ Append(s, a) \in Seq(AltT) /\ Len(Append(s, a)) = Len(s) + 1
      /\ DOMAIN Append(s, a) = 1 .. Len(s) + 1
      /\ \A n \in 1 .. Len(s) : Append(s, a)[n] = s[n]
      /\ Append(s, a)[Len(s) + 1] = a
  OBVIOUS
<1>4. x = Part(Len(s) + 1, a)
  <2>1. s = <<>> <=> Len(s) + 1 = 1
    BY <1>1
  <2> QED BY <2>1 DEF Separator
<1>5. w = [n \in 1 .. Len(s) |-> Part(n, s[n])]
  BY <1>1 DEF WrittenParts
<1>6. v = [n \in 1 .. Len(s) + 1 |-> Part(n, Append(s, a)[n])]
  BY <1>3 DEF WrittenParts
<1> HIDE DEF Part, w, v, x, Z
<1>7. w \in Seq(Z) /\ Len(w) = Len(s) /\ x \in Z
  <2>1. \A n \in 1 .. Len(s) : Part(n, s[n]) \in Z
    BY <1>1, <1>2
  <2> QED BY <1>1, <1>2, <1>4, <1>5, <2>1
<1>8. v = Append(w, x)
  <2>1. /\ Append(w, x) \in Seq(Z) /\ Len(Append(w, x)) = Len(s) + 1
        /\ \A n \in 1 .. Len(s) : Append(w, x)[n] = w[n]
        /\ Append(w, x)[Len(s) + 1] = x
    BY <1>1, <1>7
  <2>2. \A n \in 1 .. Len(s) + 1 : v[n] = Append(w, x)[n]
    <3> TAKE n \in 1 .. Len(s) + 1
    <3>1. CASE n = Len(s) + 1
      BY <1>3, <1>4, <1>6, <2>1, <3>1
    <3>2. CASE n # Len(s) + 1
      <4>1. n \in 1 .. Len(s)
        BY <1>1, <3>2
      <4> QED BY <1>3, <1>5, <1>6, <2>1, <4>1
    <3> QED BY <3>1, <3>2
  <2>3. v = [n \in 1 .. Len(s) + 1 |-> v[n]]
    BY <1>6
  <2>4. Append(w, x) = [n \in 1 .. Len(s) + 1 |-> Append(w, x)[n]]
    <3> DEFINE y == Append(w, x)
    <3>1. y \in Seq(Z) /\ Len(y) = Len(s) + 1
      BY <2>1
    <3> HIDE DEF y
    <3>2. y = [n \in 1 .. Len(y) |-> y[n]]
      BY <3>1
    <3> QED BY <3>1, <3>2 DEF y
  <2> QED BY <2>2, <2>3, <2>4
<1>9. FlattenSeq(w) \in Z
  BY <1>7, FlattenType DEF Z
<1>10. FlattenSeq(Append(w, x)) = FlattenSeq(w) \o x
  BY <1>7, FlattenAppend DEF Z
<1> QED BY <1>8, <1>9, <1>10 DEF w, v, x, Z

\* The rules of what has g's, one more behind them, are written behind the others.
LEMMA WrittenOneMoreRule ==
  ASSUME NEW g, g \in Seq(RuleT), NEW r, r \in RuleT
  PROVE  /\ WrittenRule(r) \in Seq(Words) /\ WrittenRules([rules |-> g]) \in Seq(Words)
         /\ WrittenRules([rules |-> Append(g, r)]) = WrittenRules([rules |-> g]) \o WrittenRule(r)
<1> DEFINE Z == Seq(Words)
           w == [n \in DOMAIN g |-> WrittenRule(g[n])]
           v == [n \in DOMAIN Append(g, r) |-> WrittenRule(Append(g, r)[n])]
           x == WrittenRule(r)
<1>1. ASSUME NEW q, q \in RuleT PROVE WrittenRule(q) \in Z
  <2>1. q.alternatives \in Seq(AltT) /\ q.lhs \in Words
    BY <1>1 DEF RuleT
  <2>2. EmptyAlternative \in AltT
    BY StartType
  <2>3. FlattenSeq(WrittenParts(q.alternatives)) \in Z
    BY <2>1, <2>2, WrittenOneMore
  <2>4. WrittenRule(q) = <<q.lhs, ":">> \o FlattenSeq(WrittenParts(q.alternatives))
    BY Zenon DEF WrittenRule, WrittenParts
  <2>5. <<q.lhs, ":">> \in Z
    <3>1. ":" \in Words
      BY DEF Words
    <3> QED BY <2>1, <3>1
  <2> QED BY <2>3, <2>4, <2>5, Joining
<1>2. Len(g) \in Nat /\ DOMAIN g = 1 .. Len(g) /\ \A n \in 1 .. Len(g) : g[n] \in RuleT
  OBVIOUS
<1>3. /\ DOMAIN Append(g, r) = 1 .. Len(g) + 1 /\ Append(g, r)[Len(g) + 1] = r
      /\ \A n \in 1 .. Len(g) : Append(g, r)[n] = g[n]
  OBVIOUS
<1>4. x \in Z
  BY <1>1
<1>5. WrittenRules([rules |-> g]) = FlattenSeq(w) /\ WrittenRules([rules |-> Append(g, r)]) = FlattenSeq(v)
  BY DEF WrittenRules
<1>6. w = [n \in 1 .. Len(g) |-> WrittenRule(g[n])]
  BY <1>2
<1>7. v = [n \in 1 .. Len(g) + 1 |-> WrittenRule(Append(g, r)[n])]
  BY <1>3
<1> HIDE DEF w, v, Z
<1>8. w \in Seq(Z) /\ Len(w) = Len(g)
  <2>1. \A n \in 1 .. Len(g) : WrittenRule(g[n]) \in Z
    BY <1>1, <1>2
  <2> QED BY <1>2, <1>6, <2>1
<1>9. v = Append(w, x)
  <2> HIDE DEF x
  <2> DEFINE y == Append(w, x)
  <2>1. /\ y \in Seq(Z) /\ Len(y) = Len(g) + 1 /\ y[Len(g) + 1] = x
        /\ \A n \in 1 .. Len(g) : y[n] = w[n]
    BY <1>2, <1>4, <1>8
  <2> HIDE DEF y
  <2>2. y = [n \in 1 .. Len(g) + 1 |-> y[n]]
    BY <2>1
  <2>3. \A n \in 1 .. Len(g) + 1 : WrittenRule(Append(g, r)[n]) = y[n]
    <3> TAKE n \in 1 .. Len(g) + 1
    <3>1. CASE n = Len(g) + 1
      BY <1>3, <2>1, <3>1 DEF x
    <3>2. CASE n # Len(g) + 1
      <4>1. n \in 1 .. Len(g)
        BY <1>2, <3>2
      <4> QED BY <1>3, <1>6, <2>1, <4>1
    <3> QED BY <3>1, <3>2
  <2> QED BY <1>7, <2>2, <2>3 DEF y
<1>10. FlattenSeq(w) \in Z
  BY <1>8, FlattenType DEF Z
<1>11. FlattenSeq(Append(w, x)) = FlattenSeq(w) \o x
  BY <1>4, <1>8, FlattenAppend DEF Z
<1> QED BY <1>4, <1>5, <1>9, <1>10, <1>11 DEF Z

\* What has been read of the rules, by where the reader is.
Wrote(p) == WrittenRules([rules |-> p.rules])

SaidAfter(p) == Wrote(p) \o WrittenRule([lhs |-> p.lhs, alternatives |-> p.alternatives])

SaidAlternative(p) ==
  SaidAfter(p) \o (Separator(p.alternatives) \o WrittenAlternative(p.alternative))

WithinModes == {"rule", "colon", "alternative", "prec", "after"}

Said(p) ==
  CASE p.mode \in {"rule", "end"} -> Wrote(p)
    [] p.mode = "colon" -> Wrote(p) \o <<p.lhs>>
    [] p.mode = "after" -> SaidAfter(p)
    [] p.mode = "alternative" -> SaidAlternative(p)
    [] p.mode = "prec" -> SaidAlternative(p) \o <<"%prec">>

Shaped(p) ==
  /\ p.mode \in {"rule", "colon"} => p.alternatives = <<>> /\ p.alternative = EmptyAlternative
  /\ p.mode = "after" => p.alternatives # <<>> /\ p.alternative = EmptyAlternative
  /\ p.mode = "prec" => p.alternative.prec = NoPrec

\* A token is at the end of what is said, or ends the rules, or is refused.
Says(said, token, q) ==
  \/ q.mode = "fault"
  \/ token = "%%" /\ q.mode = "end" /\ Wrote(q) = said
  \/ token # "%%" /\ q.mode \in WithinModes /\ Shaped(q) /\ Said(q) = said \o Bare(token)

\* All of it is a sequence of words.
LEMMA SaidType ==
  ASSUME NEW p, p \in ReaderT
  PROVE  /\ p.rules \in Seq(RuleT) /\ p.alternatives \in Seq(AltT) /\ p.alternative \in AltT /\ p.lhs \in Words
         /\ [lhs |-> p.lhs, alternatives |-> p.alternatives] \in RuleT
         /\ Wrote(p) \in Seq(Words) /\ SaidAfter(p) \in Seq(Words) /\ SaidAlternative(p) \in Seq(Words)
         /\ WrittenRule([lhs |-> p.lhs, alternatives |-> p.alternatives]) \in Seq(Words)
         /\ Separator(p.alternatives) \in Seq(Words) /\ WrittenAlternative(p.alternative) \in Seq(Words)
<1>1. /\ p.rules \in Seq(RuleT) /\ p.alternatives \in Seq(AltT) /\ p.alternative \in AltT /\ p.lhs \in Words
  BY DEF ReaderT
<1>2. [lhs |-> p.lhs, alternatives |-> p.alternatives] \in RuleT
  BY <1>1 DEF RuleT
<1>3. /\ WrittenRule([lhs |-> p.lhs, alternatives |-> p.alternatives]) \in Seq(Words)
      /\ WrittenRules([rules |-> p.rules]) \in Seq(Words)
  BY <1>1, <1>2, WrittenOneMoreRule
<1>4. WrittenAlternative(p.alternative) \in Seq(Words)
  BY <1>1, WrittenAlternativeType
<1>5. Separator(p.alternatives) \in Seq(Words)
  BY Joining DEF Separator
<1>6. Wrote(p) \in Seq(Words)
  BY <1>3 DEF Wrote
<1>7. SaidAfter(p) \in Seq(Words)
  BY <1>3, <1>6, Joining DEF SaidAfter
<1>8. SaidAlternative(p) \in Seq(Words)
  BY <1>4, <1>5, <1>7, Joining DEF SaidAlternative
<1> QED BY <1>1, <1>2, <1>3, <1>4, <1>5, <1>6, <1>7, <1>8

\* An alternative that ends is said as before, among the others of its rule.
LEMMA EndAlternativeSays ==
  ASSUME NEW p, p \in ReaderT
  PROVE  LET q == EndAlternative(p)
         IN  /\ SaidAfter(q) = SaidAlternative(p)
             /\ q.mode = "after" /\ q.alternatives # <<>> /\ q.alternative = EmptyAlternative
<1> DEFINE Z == Seq(Words)
           q == EndAlternative(p)
           s == p.alternatives
           a == p.alternative
           head == <<p.lhs, ":">>
           F(w) == FlattenSeq(WrittenParts(w))
           x == Separator(s) \o WrittenAlternative(a)
           W == Wrote(p)
           Cat(u, v) == u \o v
<1>1. s \in Seq(AltT) /\ a \in AltT /\ p.lhs \in Words /\ W \in Z /\ x \in Z
  BY SaidType, Joining
<1>2. q.rules = p.rules /\ q.lhs = p.lhs /\ q.alternatives = Append(s, a) /\ q.mode = "after"
      /\ q.alternative = EmptyAlternative
  BY DEF EndAlternative, ReaderT
<1>3. q.alternatives # <<>>
  <2> HIDE DEF s, a, q
  <2>1. Len(Append(s, a)) = Len(s) + 1 /\ Len(s) \in Nat /\ Len(<<>>) = 0
    BY <1>1
  <2> QED BY <1>2, <2>1
<1>4. \A w : WrittenRule([lhs |-> p.lhs, alternatives |-> w]) = Cat(head, F(w))
  BY Zenon DEF WrittenRule, WrittenParts
<1>5. F(s) \in Z /\ F(Append(s, a)) = Cat(F(s), x)
  BY <1>1, WrittenOneMore
<1>6. head \in Z
  <2>1. ":" \in Words
    BY DEF Words
  <2> QED BY <1>1, <2>1
<1>7. SaidAfter(p) = Cat(W, Cat(head, F(s))) /\ SaidAlternative(p) = Cat(SaidAfter(p), x)
  BY <1>4, Zenon DEF SaidAfter, SaidAlternative
<1>8. SaidAfter(q) = Cat(W, Cat(head, F(Append(s, a))))
  <2>1. SaidAfter(q) = Cat(Wrote(q), WrittenRule([lhs |-> q.lhs, alternatives |-> q.alternatives]))
    BY Zenon DEF SaidAfter
  <2>2. Wrote(q) = W
    BY <1>2, Zenon DEF Wrote
  <2> QED BY <1>2, <1>4, <2>1, <2>2, Zenon
<1>9. \A b, c, d \in Z : Cat(Cat(b, c), d) = Cat(b, Cat(c, d)) /\ Cat(b, c) \in Z
  BY Associates
<1> HIDE DEF Z, q, s, a, head, F, x, W, Cat
<1>10. SaidAfter(q) = SaidAlternative(p)
  <2>1. SaidAlternative(p) = Cat(W, Cat(Cat(head, F(s)), x))
    BY <1>1, <1>5, <1>6, <1>7, <1>9
  <2>2. Cat(Cat(head, F(s)), x) = Cat(head, Cat(F(s), x))
    BY <1>1, <1>5, <1>6, <1>9
  <2> QED BY <1>5, <1>8, <2>1, <2>2
<1> QED BY <1>2, <1>3, <1>10 DEF q

\* A rule that ends is said as before, among the others.
LEMMA EndRuleSays ==
  ASSUME NEW p, p \in ReaderT
  PROVE  LET q == EndRule(p)
         IN  /\ Wrote(q) = SaidAfter(p)
             /\ q.mode = "rule" /\ q.alternatives = <<>> /\ q.alternative = p.alternative
<1> DEFINE q == EndRule(p)
           r == [lhs |-> p.lhs, alternatives |-> p.alternatives]
<1>1. p.rules \in Seq(RuleT) /\ r \in RuleT
  BY SaidType
<1>2. q.rules = Append(p.rules, r) /\ q.mode = "rule" /\ q.alternatives = <<>> /\ q.alternative = p.alternative
  BY DEF EndRule, ReaderT
<1> HIDE DEF q, r
<1>3. WrittenRules([rules |-> Append(p.rules, r)]) = WrittenRules([rules |-> p.rules]) \o WrittenRule(r)
  BY <1>1, WrittenOneMoreRule
<1>4. Wrote(q) = SaidAfter(p)
  BY <1>2, <1>3, Zenon DEF Wrote, SaidAfter, r
<1> QED BY <1>2, <1>4 DEF q

\* A rule is opened: what was said, and its name, or the rules are at their end.
LEMMA RuleSays ==
  ASSUME NEW p, p \in ReaderT, p.alternatives = <<>>, p.alternative = EmptyAlternative,
         NEW token, token \in Words
  PROVE  Says(Wrote(p), token, Rule(p, token))
<1> DEFINE q == Rule(p, token)
<1>1. CASE token = "%%"
  <2>1. q.mode = "end" /\ q.rules = p.rules
    BY <1>1 DEF Rule, ReaderT, IsName, Marks
  <2>2. Wrote(q) = Wrote(p)
    BY <2>1, Zenon DEF Wrote
  <2> QED BY <1>1, <2>1, <2>2 DEF Says
<1>2. CASE token # "%%" /\ IsName(token)
  <2>1. q.mode = "colon" /\ q.rules = p.rules /\ q.lhs = token
        /\ q.alternatives = p.alternatives /\ q.alternative = p.alternative
    BY <1>2 DEF Rule, ReaderT
  <2>2. Bare(token) = <<token>>
    BY <1>2 DEF Bare, IsName, Marks
  <2> HIDE DEF q
  <2>3. Said(q) = Wrote(p) \o <<token>>
    <3>1. Wrote(q) = Wrote(p)
      BY <2>1, Zenon DEF Wrote
    <3>2. Said(q) = Wrote(q) \o <<q.lhs>>
      BY <2>1 DEF Said
    <3> QED BY <2>1, <3>1, <3>2
  <2>4. q.mode \in WithinModes /\ Shaped(q)
    BY <2>1 DEF WithinModes, Shaped
  <2> QED BY <1>2, <2>2, <2>3, <2>4 DEF Says, q
<1>3. CASE token # "%%" /\ ~IsName(token)
  <2>1. q.mode = "fault"
    BY <1>3 DEF Rule, Fault, ReaderT
  <2> QED BY <2>1 DEF Says
<1> QED BY <1>1, <1>2, <1>3

\* After an alternative: a bar, what ends the rule, or the next rule.
LEMMA AfterSays ==
  ASSUME NEW p, p \in ReaderT, p.alternatives # <<>>, p.alternative = EmptyAlternative,
         NEW token, token \in Words
  PROVE  Says(SaidAfter(p), token, After(p, token))
<1> DEFINE q == After(p, token)
<1>1. CASE token = "|"
  <2>1. q.mode = "alternative" /\ q.rules = p.rules /\ q.lhs = p.lhs
        /\ q.alternatives = p.alternatives /\ q.alternative = p.alternative
    BY <1>1 DEF After, ReaderT
  <2> HIDE DEF q
  <2>2. Said(q) = SaidAfter(q) \o (Separator(q.alternatives) \o WrittenAlternative(q.alternative))
    BY <2>1 DEF Said, SaidAlternative
  <2>3. SaidAfter(q) = SaidAfter(p)
    BY <2>1, Zenon DEF SaidAfter, Wrote
  <2>4. Separator(q.alternatives) = <<"|">>
    BY <2>1 DEF Separator
  <2>5. WrittenAlternative(q.alternative) = <<>>
    BY <2>1 DEF WrittenAlternative, EmptyAlternative
  <2>6. Said(q) = SaidAfter(p) \o <<"|">>
    BY <2>2, <2>3, <2>4, <2>5, Joining
  <2>7. Bare(token) = <<token>>
    BY <1>1 DEF Bare, LineEnd
  <2>8. q.mode \in WithinModes /\ Shaped(q)
    BY <2>1 DEF WithinModes, Shaped
  <2> QED BY <1>1, <2>6, <2>7, <2>8 DEF Says, q
<1>2. CASE token = ";"
  <2>1. q = EndRule(p)
    BY <1>2 DEF After
  <2> HIDE DEF q
  <2>2. Wrote(q) = SaidAfter(p) /\ q.mode = "rule" /\ q.alternatives = <<>> /\ q.alternative = EmptyAlternative
    BY <2>1, EndRuleSays
  <2>3. Said(q) = SaidAfter(p)
    BY <2>2 DEF Said
  <2>4. Bare(token) = <<>>
    BY <1>2 DEF Bare
  <2>5. SaidAfter(p) \o <<>> = SaidAfter(p)
    BY SaidType, Joining
  <2>6. q.mode \in WithinModes /\ Shaped(q)
    BY <2>2 DEF WithinModes, Shaped
  <2> QED BY <1>2, <2>3, <2>4, <2>5, <2>6 DEF Says, q
<1>3. CASE token # "|" /\ token # ";"
  <2>1. q = Rule(EndRule(p), token)
    BY <1>3 DEF After
  <2>2. /\ Wrote(EndRule(p)) = SaidAfter(p)
        /\ EndRule(p).alternatives = <<>> /\ EndRule(p).alternative = EmptyAlternative
    BY EndRuleSays
  <2>3. Says(Wrote(EndRule(p)), token, Rule(EndRule(p), token))
    BY <2>2, EndRuleType, RuleSays
  <2> QED BY <2>1, <2>2, <2>3
<1> QED BY <1>1, <1>2, <1>3

\* Three sequences of words, of which the last gets one more part.
Regrouped(a, b, c, d) == a \o (b \o (c \o d)) = (a \o (b \o c)) \o d

LEMMA SaysMore ==
  ASSUME NEW a, a \in Seq(Words), NEW b, b \in Seq(Words), NEW c, c \in Seq(Words), NEW d, d \in Seq(Words)
  PROVE  Regrouped(a, b, c, d)
<1> DEFINE Z == Seq(Words)
           Cat(u, v) == u \o v
<1>1. a \in Z /\ b \in Z /\ c \in Z /\ d \in Z
  OBVIOUS
<1>2. \A x, y, z \in Z : Cat(Cat(x, y), z) = Cat(x, Cat(y, z)) /\ Cat(x, y) \in Z
  BY Associates
<1> HIDE DEF Z, Cat
<1>3. Cat(a, Cat(b, Cat(c, d))) = Cat(Cat(a, Cat(b, c)), d)
  <2>1. Cat(b, Cat(c, d)) = Cat(Cat(b, c), d) /\ Cat(b, c) \in Z
    BY <1>1, <1>2
  <2> QED BY <1>1, <1>2, <2>1
<1> QED BY <1>3 DEF Cat, Regrouped

\* In an alternative: a symbol, %prec, or what ends it.
LEMMA InAlternativeSays ==
  ASSUME NEW p, p \in ReaderT, NEW token, token \in Words,
         p.alternative.prec # NoPrec => ~IsName(token) /\ token # "%prec"
  PROVE  Says(SaidAlternative(p), token, InAlternative([p EXCEPT !.mode = "alternative"], token))
<1> DEFINE o == [p EXCEPT !.mode = "alternative"]
           q == InAlternative(o, token)
<1>1. /\ o \in ReaderT /\ o.rules = p.rules /\ o.lhs = p.lhs /\ o.alternatives = p.alternatives
      /\ o.alternative = p.alternative /\ o.mode = "alternative"
  <2>1. "alternative" \in Modes
    BY DEF Modes
  <2> QED BY <2>1, PartType DEF ReaderT
<1>2. SaidAlternative(o) = SaidAlternative(p) /\ SaidAfter(o) = SaidAfter(p)
  BY <1>1, Zenon DEF SaidAlternative, SaidAfter, Wrote
<1> HIDE DEF o
<1>3. CASE IsName(token)
  <2> DEFINE a == o.alternative
             x == Append(a.symbols, token)
  <2>1. a \in AltT /\ a.symbols \in Seq(Words) /\ a.prec = NoPrec
    <3>1. a \in AltT
      BY <1>1 DEF ReaderT
    <3> QED BY <1>1, <1>3, <3>1 DEF AltT
  <2>2. q = [o EXCEPT !.alternative.symbols = Append(@, token)]
    BY <1>3 DEF InAlternative, IsName, Marks, Directives
  <2>3. x = a.symbols \o <<token>> /\ <<token>> \in Seq(Words)
    BY <2>1, Joining
  <2>4. q.mode = "alternative" /\ q.rules = o.rules /\ q.lhs = o.lhs /\ q.alternatives = o.alternatives
        /\ q.alternative.symbols = x /\ q.alternative.prec = NoPrec
    <3> HIDE DEF q
    <3>1. q = [o EXCEPT !.alternative = [a EXCEPT !.symbols = x]]
      BY <1>1, <2>2 DEF ReaderT
    <3> HIDE DEF x
    <3> QED BY <1>1, <2>1, <3>1 DEF ReaderT, AltT
  <2> HIDE DEF q
  <2>5. SaidAfter(q) = SaidAfter(o)
    BY <2>4, Zenon DEF SaidAfter, Wrote
  <2>6. WrittenAlternative(a) = a.symbols
    BY <2>1 DEF WrittenAlternative
  <2>7. WrittenAlternative(q.alternative) = a.symbols \o <<token>>
    <3>1. WrittenAlternative(q.alternative) = (a.symbols \o <<token>>) \o <<>>
      BY <2>3, <2>4 DEF WrittenAlternative
    <3>2. a.symbols \o <<token>> \in Seq(Words)
      BY <2>1, <2>3, Joining
    <3> QED BY <3>1, <3>2, Joining
  <2>8. Said(q) = SaidAfter(o) \o (Separator(o.alternatives) \o (a.symbols \o <<token>>))
    BY <2>4, <2>5, <2>7 DEF Said, SaidAlternative
  <2>9. SaidAlternative(o) = SaidAfter(o) \o (Separator(o.alternatives) \o a.symbols)
    BY <2>6 DEF SaidAlternative
  <2>10. SaidAfter(o) \in Seq(Words) /\ Separator(o.alternatives) \in Seq(Words)
    BY <1>1, SaidType
  <2>11. SaidAfter(o) \o (Separator(o.alternatives) \o (a.symbols \o <<token>>))
           = (SaidAfter(o) \o (Separator(o.alternatives) \o a.symbols)) \o <<token>>
    <3> DEFINE one == <<token>>
               b == SaidAfter(o)
               c == Separator(o.alternatives)
               d == a.symbols
    <3>1. one \in Seq(Words) /\ b \in Seq(Words) /\ c \in Seq(Words) /\ d \in Seq(Words)
      BY <2>1, <2>3, <2>10
    <3> HIDE DEF one, b, c, d
    <3>2. Regrouped(b, c, d, one)
      BY <3>1, SaysMore, Zenon
    <3> QED BY <3>2 DEF Regrouped, one, b, c, d
  <2>12. Said(q) = SaidAlternative(p) \o <<token>>
    BY <1>2, <2>8, <2>9, <2>11
  <2>13. Bare(token) = <<token>> /\ token # "%%"
    BY <1>3 DEF Bare, IsName, Marks
  <2>14. q.mode \in WithinModes /\ Shaped(q)
    BY <2>4 DEF WithinModes, Shaped
  <2> QED BY <2>12, <2>13, <2>14 DEF Says, q, o
<1>4. CASE token = "%prec"
  <2>1. q = [o EXCEPT !.mode = "prec"]
    BY <1>4 DEF InAlternative, IsName, Marks, Directives
  <2>2. q.mode = "prec" /\ q.rules = o.rules /\ q.lhs = o.lhs /\ q.alternatives = o.alternatives
        /\ q.alternative = o.alternative
    BY <1>1, <2>1 DEF ReaderT
  <2> HIDE DEF q
  <2>3. SaidAlternative(q) = SaidAlternative(o)
    BY <2>2, Zenon DEF SaidAlternative, SaidAfter, Wrote
  <2>4. Said(q) = SaidAlternative(q) \o <<"%prec">>
    BY <2>2 DEF Said
  <2>5. Bare(token) = <<"%prec">>
    BY <1>4 DEF Bare, LineEnd
  <2>6. q.mode \in WithinModes /\ Shaped(q)
    BY <1>1, <1>4, <2>2 DEF WithinModes, Shaped
  <2> QED BY <1>2, <1>4, <2>3, <2>4, <2>5, <2>6 DEF Says, q, o
<1>5. CASE token = "{}"
  <2>1. q = EndAlternative(o)
    BY <1>5 DEF InAlternative, IsName, Marks, Directives
  <2> HIDE DEF q
  <2>2. SaidAfter(q) = SaidAlternative(o) /\ q.mode = "after" /\ q.alternatives # <<>> /\ q.alternative = EmptyAlternative
    BY <1>1, <2>1, EndAlternativeSays
  <2>3. Said(q) = SaidAfter(q)
    BY <2>2 DEF Said
  <2>4. Bare(token) = <<>>
    BY <1>5 DEF Bare
  <2>5. SaidAlternative(p) \o <<>> = SaidAlternative(p)
    BY SaidType, Joining
  <2>6. q.mode \in WithinModes /\ Shaped(q)
    BY <2>2 DEF WithinModes, Shaped
  <2> QED BY <1>2, <1>5, <2>2, <2>3, <2>4, <2>5, <2>6 DEF Says, q, o
<1>6. CASE ~IsName(token) /\ token # "%prec" /\ token # "{}"
  <2>1. q = After(EndAlternative(o), token)
    BY <1>6 DEF InAlternative
  <2> DEFINE e == EndAlternative(o)
  <2>2. SaidAfter(e) = SaidAlternative(o) /\ e.alternatives # <<>> /\ e.alternative = EmptyAlternative
    BY <1>1, EndAlternativeSays
  <2>3. e \in ReaderT
    BY <1>1, EndAlternativeType
  <2> HIDE DEF e
  <2>4. Says(SaidAfter(e), token, After(e, token))
    BY <2>2, <2>3, AfterSays
  <2> QED BY <1>2, <2>1, <2>2, <2>4 DEF e, o
<1> QED BY <1>3, <1>4, <1>5, <1>6

\* After %prec: its token.
LEMMA InPrecSays ==
  ASSUME NEW p, p \in ReaderT, p.alternative.prec = NoPrec,
         NEW token, token \in Words, token # NoPrec, IsName(token)
  PROVE  Says(SaidAlternative(p) \o <<"%prec">>, token, InPrec(p, token))
<1> DEFINE q == InPrec(p, token)
           a == p.alternative
           tail == <<"%prec", token>>
<1>1. a \in AltT /\ a.symbols \in Seq(Words) /\ a.prec = NoPrec
  <2>1. a \in AltT
    BY DEF ReaderT
  <2> QED BY <2>1 DEF AltT
<1>2. q = [p EXCEPT !.mode = "alternative", !.alternative.prec = token]
  BY DEF InPrec
<1>3. q.mode = "alternative" /\ q.rules = p.rules /\ q.lhs = p.lhs /\ q.alternatives = p.alternatives
      /\ q.alternative.symbols = a.symbols /\ q.alternative.prec = token
  BY <1>2 DEF ReaderT, AltT
<1> HIDE DEF q
<1>4. SaidAfter(q) = SaidAfter(p)
  BY <1>3, Zenon DEF SaidAfter, Wrote
<1>5. WrittenAlternative(q.alternative) = a.symbols \o tail
  BY <1>3 DEF WrittenAlternative
<1>6. WrittenAlternative(a) = a.symbols
  BY <1>1 DEF WrittenAlternative
<1>7. tail = <<"%prec">> \o <<token>> /\ tail \in Seq(Words) /\ <<token>> \in Seq(Words) /\ <<"%prec">> \in Seq(Words)
  <2>1. "%prec" \in Words
    BY DEF Words
  <2>2. <<"%prec">> \in Seq(Words) /\ Append(<<"%prec">>, token) = <<"%prec">> \o <<token>> /\ <<token>> \in Seq(Words)
    BY Joining
  <2>4. tail \in Seq(Words) /\ Len(tail) = 2 /\ tail[1] = "%prec" /\ tail[2] = token
    BY <2>1
  <2>3. Append(<<"%prec">>, token) = tail
    <3> DEFINE y == Append(<<"%prec">>, token)
    <3>1. y \in Seq(Words) /\ Len(y) = 2 /\ y[1] = "%prec" /\ y[2] = token
      BY <2>2
    <3> HIDE DEF y, tail
    <3>2. y = tail
      BY <2>4, <3>1
    <3> QED BY <3>2 DEF y
  <2> QED BY <2>2, <2>3, <2>4
<1> HIDE DEF tail
<1>8. SaidAfter(p) \in Seq(Words) /\ Separator(p.alternatives) \in Seq(Words) /\ SaidAlternative(p) \in Seq(Words)
  BY SaidType
<1>9. Said(q) = SaidAfter(p) \o (Separator(p.alternatives) \o (a.symbols \o tail))
  BY <1>3, <1>4, <1>5 DEF Said, SaidAlternative
<1>10. SaidAlternative(p) = SaidAfter(p) \o (Separator(p.alternatives) \o a.symbols)
  BY <1>6 DEF SaidAlternative
<1>11. Said(q) = SaidAlternative(p) \o tail
  <2> DEFINE b == SaidAfter(p)
             c == Separator(p.alternatives)
             d == a.symbols
  <2>1. tail \in Seq(Words) /\ b \in Seq(Words) /\ c \in Seq(Words) /\ d \in Seq(Words)
    BY <1>1, <1>7, <1>8
  <2> HIDE DEF b, c, d
  <2>2. Regrouped(b, c, d, tail)
    BY <2>1, SaysMore, Zenon
  <2> QED BY <1>9, <1>10, <2>2 DEF Regrouped, b, c, d
<1>12. SaidAlternative(p) \o tail = (SaidAlternative(p) \o <<"%prec">>) \o <<token>>
  BY <1>7, <1>8, Joining
<1>13. Bare(token) = <<token>> /\ token # "%%"
  BY DEF Bare, IsName, Marks
<1>14. q.mode \in WithinModes /\ Shaped(q)
  BY <1>3 DEF WithinModes, Shaped
<1> QED BY <1>11, <1>12, <1>13, <1>14 DEF Says, q

\* The rule that is opened by a colon says its name and the colon.
LEMMA ColonSays ==
  ASSUME NEW p, p \in ReaderT, p.alternatives = <<>>, p.alternative = EmptyAlternative
  PROVE  SaidAlternative(p) = (Wrote(p) \o <<p.lhs>>) \o <<":">>
<1> DEFINE Z == Seq(Words)
           head == <<p.lhs, ":">>
           W == Wrote(p)
<1>1. W \in Z /\ p.lhs \in Words /\ ":" \in Words
  <2>1. ":" \in Words
    BY DEF Words
  <2> QED BY <2>1, SaidType
<1>2. head \in Z /\ <<p.lhs>> \in Z /\ <<":">> \in Z /\ head = <<p.lhs>> \o <<":">>
  <2>1. <<p.lhs>> \in Z /\ <<":">> \in Z /\ Append(<<p.lhs>>, ":") = <<p.lhs>> \o <<":">>
    BY <1>1, Joining
  <2>2. head \in Z /\ Len(head) = 2 /\ head[1] = p.lhs /\ head[2] = ":"
    BY <1>1
  <2>3. Append(<<p.lhs>>, ":") = head
    <3> DEFINE y == Append(<<p.lhs>>, ":")
    <3>1. y \in Seq(Words) /\ Len(y) = 2 /\ y[1] = p.lhs /\ y[2] = ":"
      BY <1>1, <2>1
    <3> HIDE DEF y, head
    <3>2. y = head
      BY <2>2, <3>1
    <3> QED BY <3>2 DEF y
  <2> QED BY <2>1, <2>2, <2>3
<1>3. WrittenRule([lhs |-> p.lhs, alternatives |-> p.alternatives]) = head
  <2>1. WrittenParts(<<>>) = <<>>
    BY DEF WrittenParts
  <2>2. WrittenRule([lhs |-> p.lhs, alternatives |-> p.alternatives]) = head \o FlattenSeq(WrittenParts(p.alternatives))
    BY Zenon DEF WrittenRule, WrittenParts
  <2>3. FlattenSeq(WrittenParts(p.alternatives)) = <<>>
    BY <2>1, FlattenNone
  <2> QED BY <1>2, <2>2, <2>3, Joining
<1>4. Separator(p.alternatives) = <<>> /\ WrittenAlternative(p.alternative) = <<>>
  BY DEF Separator, WrittenAlternative, EmptyAlternative
<1>5. SaidAfter(p) = W \o head
  BY <1>3 DEF SaidAfter
<1>6. W \o head \in Z
  BY <1>1, <1>2, Joining
<1>7. SaidAlternative(p) = W \o head
  <2>1. SaidAlternative(p) = (W \o head) \o (<<>> \o <<>>)
    BY <1>4, <1>5 DEF SaidAlternative
  <2>2. <<>> \o <<>> = <<>>
    BY Joining
  <2> QED BY <1>6, <2>1, <2>2, Joining
<1>8. (W \o <<p.lhs>>) \o <<":">> = W \o (<<p.lhs>> \o <<":">>)
  BY <1>1, <1>2, Joining
<1> QED BY <1>2, <1>7, <1>8

\* What the reader is at once a rule is over.
LEMMA RuleModes ==
  ASSUME NEW p, p \in ReaderT, NEW token
  PROVE  Rule(p, token).mode \in {"end", "colon", "fault"}
BY DEF Rule, Fault, ReaderT, IsName, Marks

LEMMA AfterModes ==
  ASSUME NEW p, p \in ReaderT, NEW token
  PROVE  /\ After(p, token).mode \in {"alternative", "rule", "end", "colon", "fault"}
         /\ After(p, token).mode = "alternative" => After(p, token).alternative = p.alternative
<1> DEFINE e == EndRule(p)
<1>1. e \in ReaderT /\ e.mode = "rule"
  BY EndRuleType, EndRuleSays
<1> HIDE DEF e
<1>2. Rule(e, token).mode \in {"end", "colon", "fault"}
  BY <1>1, RuleModes
<1>3. CASE token = "|"
  BY <1>3 DEF After, ReaderT
<1>4. CASE token = ";"
  BY <1>1, <1>4 DEF After, e
<1>5. CASE token # "|" /\ token # ";"
  BY <1>2, <1>5 DEF After, e
<1> QED BY <1>3, <1>4, <1>5

\* Does the token follow what the reader has of %prec, which goyacc has at the end of
\* an alternative, once?
Fitting(p, token) ==
  /\ token # NoPrec
  /\ p.mode = "prec" => IsName(token)
  /\ p.mode = "alternative" /\ p.alternative.prec # NoPrec => ~IsName(token) /\ token # "%prec"

\* Where the reader has %prec, or an alternative with one, what it was before.
Followed(p, token, q) ==
  /\ q.mode = "prec" => token = "%prec"
  /\ q.mode = "alternative" /\ q.alternative.prec # NoPrec =>
       p.mode = "prec" \/ (p.mode = "alternative" /\ p.alternative.prec # NoPrec /\ token = LineEnd)

LEMMA InAlternativeFollowed ==
  ASSUME NEW p, p \in ReaderT, p.mode = "alternative", NEW token, token \in Words, Fitting(p, token), token # LineEnd
  PROVE  Followed(p, token, InAlternative(p, token))
<1> DEFINE q == InAlternative(p, token)
           e == EndAlternative(p)
<1>1. e \in ReaderT /\ e.mode = "after" /\ e.alternative = EmptyAlternative
  BY EndAlternativeType, EndAlternativeSays
<1>2. EmptyAlternative.prec = NoPrec
  BY DEF EmptyAlternative
<1>3. CASE IsName(token)
  <2>1. q = [p EXCEPT !.alternative.symbols = Append(@, token)]
    BY <1>3 DEF InAlternative, IsName, Marks, Directives
  <2>2. q.mode = "alternative" /\ q.alternative.prec = p.alternative.prec
    BY <2>1 DEF ReaderT, AltT
  <2>3. p.alternative.prec = NoPrec
    BY <1>3 DEF Fitting
  <2> QED BY <2>2, <2>3 DEF Followed
<1>4. CASE token = "%prec"
  <2>1. q = [p EXCEPT !.mode = "prec"]
    BY <1>4 DEF InAlternative, IsName, Marks, Directives
  <2>2. q.mode = "prec"
    BY <2>1 DEF ReaderT
  <2> QED BY <1>4, <2>2 DEF Followed
<1>5. CASE token = "{}"
  <2>1. q = e
    BY <1>5 DEF InAlternative, IsName, Marks, Directives
  <2> HIDE DEF q, e
  <2> QED BY <1>1, <2>1 DEF Followed, q
<1>6. CASE ~IsName(token) /\ token # "%prec" /\ token # "{}"
  <2>1. q = After(e, token)
    BY <1>6 DEF InAlternative
  <2> HIDE DEF q, e
  <2>2. /\ q.mode \in {"alternative", "rule", "end", "colon", "fault"}
        /\ q.mode = "alternative" => q.alternative = EmptyAlternative
    BY <1>1, <2>1, AfterModes
  <2> QED BY <1>2, <2>2 DEF Followed, q
<1> QED BY <1>3, <1>4, <1>5, <1>6

\* Within the rules, a token is said, and said last.
LEMMA ReadWithin ==
  ASSUME NEW p, p \in ReaderT, p.mode \in WithinModes, Shaped(p), NEW token, token \in Words, Fitting(p, token)
  PROVE  Says(Said(p), token, ReadToken(p, token)) /\ Followed(p, token, ReadToken(p, token))
<1> DEFINE q == ReadToken(p, token)
<1>1. CASE token = LineEnd
  <2>1. q = p
    BY <1>1 DEF ReadToken, WithinModes
  <2>2. p.mode # "prec"
    BY <1>1 DEF Fitting, IsName, Marks
  <2>3. Bare(token) = <<>> /\ token # "%%"
    BY <1>1 DEF Bare, LineEnd
  <2>4. Said(p) \in Seq(Words)
    <3>1. /\ Wrote(p) \in Seq(Words) /\ SaidAfter(p) \in Seq(Words) /\ SaidAlternative(p) \in Seq(Words)
          /\ p.lhs \in Words
      BY SaidType
    <3>2. CASE p.mode = "rule"
      BY <3>1, <3>2 DEF Said
    <3>3. CASE p.mode = "colon"
      <4>1. <<p.lhs>> \in Seq(Words)
        BY <3>1
      <4>2. Said(p) = Wrote(p) \o <<p.lhs>>
        BY <3>3 DEF Said
      <4> QED BY <3>1, <4>1, <4>2, Joining
    <3>4. CASE p.mode = "alternative"
      BY <3>1, <3>4 DEF Said
    <3>5. CASE p.mode = "after"
      BY <3>1, <3>5 DEF Said
    <3> QED BY <2>2, <3>2, <3>3, <3>4, <3>5 DEF WithinModes
  <2>5. Said(p) \o <<>> = Said(p)
    BY <2>4, Joining
  <2>6. Says(Said(p), token, p)
    BY <2>3, <2>5 DEF Says
  <2>7. Followed(p, token, p)
    BY <1>1, <2>2 DEF Followed
  <2> QED BY <2>1, <2>6, <2>7
<1>2. CASE token # LineEnd /\ p.mode = "rule"
  <2>1. q = Rule(p, token)
    BY <1>2 DEF ReadToken
  <2>2. p.alternatives = <<>> /\ p.alternative = EmptyAlternative /\ Said(p) = Wrote(p)
    BY <1>2 DEF Shaped, Said
  <2>3. Says(Wrote(p), token, Rule(p, token))
    BY <2>2, RuleSays
  <2>4. Rule(p, token).mode \in {"end", "colon", "fault"}
    BY RuleModes
  <2> QED BY <2>1, <2>2, <2>3, <2>4 DEF Followed
<1>3. CASE token # LineEnd /\ p.mode = "colon"
  <2>1. p.alternatives = <<>> /\ p.alternative = EmptyAlternative /\ Said(p) = Wrote(p) \o <<p.lhs>>
    BY <1>3 DEF Shaped, Said
  <2>2. CASE token = ":"
    <3>1. q = [p EXCEPT !.mode = "alternative"]
      BY <1>3, <2>2 DEF ReadToken
    <3>2. q \in ReaderT /\ q.mode = "alternative" /\ q.rules = p.rules /\ q.lhs = p.lhs
          /\ q.alternatives = p.alternatives /\ q.alternative = p.alternative
      <4>1. "alternative" \in Modes
        BY DEF Modes
      <4> QED BY <3>1, <4>1, PartType DEF ReaderT
    <3> HIDE DEF q
    <3>3. SaidAlternative(q) = (Wrote(q) \o <<q.lhs>>) \o <<":">>
      BY <2>1, <3>2, ColonSays
    <3>4. Said(q) = SaidAlternative(q) /\ Wrote(q) = Wrote(p)
      BY <3>2 DEF Said, Wrote
    <3>5. Bare(token) = <<":">> /\ token # "%%"
      BY <2>2 DEF Bare, LineEnd
    <3>6. q.mode \in WithinModes /\ Shaped(q)
      BY <3>2 DEF WithinModes, Shaped
    <3>7. Followed(p, token, q)
      BY <2>1, <3>2 DEF Followed, EmptyAlternative
    <3> QED BY <2>1, <3>2, <3>3, <3>4, <3>5, <3>6, <3>7 DEF Says, q
  <2>3. CASE token # ":"
    <3>1. q.mode = "fault"
      BY <1>3, <2>3 DEF ReadToken, Fault, ReaderT
    <3> QED BY <3>1 DEF Says, Followed
  <2> QED BY <2>2, <2>3
<1>4. CASE token # LineEnd /\ p.mode = "alternative"
  <2>1. q = InAlternative(p, token)
    BY <1>4 DEF ReadToken
  <2>2. p = [p EXCEPT !.mode = "alternative"] /\ Said(p) = SaidAlternative(p)
    BY <1>4 DEF ReaderT, Said
  <2>3. Says(SaidAlternative(p), token, InAlternative([p EXCEPT !.mode = "alternative"], token))
    BY <1>4, InAlternativeSays DEF Fitting
  <2>4. Followed(p, token, InAlternative(p, token))
    BY <1>4, InAlternativeFollowed
  <2> QED BY <2>1, <2>2, <2>3, <2>4
<1>5. CASE token # LineEnd /\ p.mode = "prec"
  <2>1. q = InPrec(p, token)
    BY <1>5 DEF ReadToken
  <2>2. p.alternative.prec = NoPrec /\ Said(p) = SaidAlternative(p) \o <<"%prec">> /\ IsName(token) /\ token # NoPrec
    BY <1>5 DEF Shaped, Said, Fitting
  <2>3. Says(SaidAlternative(p) \o <<"%prec">>, token, InPrec(p, token))
    BY <2>2, InPrecSays
  <2>4. InPrec(p, token).mode = "alternative"
    BY <2>2 DEF InPrec, ReaderT
  <2> QED BY <1>5, <2>1, <2>2, <2>3, <2>4 DEF Followed
<1>6. CASE token # LineEnd /\ p.mode = "after"
  <2>1. q = After(p, token)
    BY <1>6 DEF ReadToken
  <2>2. p.alternatives # <<>> /\ p.alternative = EmptyAlternative /\ Said(p) = SaidAfter(p)
    BY <1>6 DEF Shaped, Said
  <2>3. Says(SaidAfter(p), token, After(p, token))
    BY <2>2, AfterSays
  <2>4. /\ After(p, token).mode \in {"alternative", "rule", "end", "colon", "fault"}
        /\ After(p, token).mode = "alternative" => After(p, token).alternative = p.alternative
    BY AfterModes
  <2>5. Followed(p, token, After(p, token))
    BY <2>2, <2>4 DEF Followed, EmptyAlternative
  <2> QED BY <2>1, <2>2, <2>3, <2>5
<1> QED BY <1>1, <1>2, <1>3, <1>4, <1>5, <1>6 DEF WithinModes

-----------------------------------------------------------------------------
(***************************************************************************)
(* What has been read before the rules: nothing of them.                   *)
(***************************************************************************)
BeforeModes == {"prologue", "declarations", "list", "names", "union", "line"}

Takers == Directives \ (ListDirectives \cup {"%union"})

Clear(p) == p.rules = <<>> /\ p.alternatives = <<>> /\ p.alternative = EmptyAlternative

\* Before the rules, with all the lines blank so far or not, and a line taken or not.
Declaring(p, blank, open) ==
  p.mode \in BeforeModes /\ Clear(p) /\ (p.mode = "line" <=> open) /\ (p.mode = "prologue" <=> blank)

\* The declarations' next token opens the rules, takes its line, or neither.
Declares(q, token) ==
  \/ q.mode = "fault"
  \/ token = "%%" /\ q.mode = "rule" /\ Clear(q)
  \/ token \in Takers /\ q.mode = "line" /\ Clear(q)
  \/ token \notin Takers \cup {"%%"} /\ q.mode \in {"list", "union"} /\ Clear(q)

LEMMA DeclarationDeclares ==
  ASSUME NEW p, p \in ReaderT, Clear(p), NEW token
  PROVE  Declares(Declaration(p, token), token)
<1> DEFINE q == Declaration(p, token)
<1>1. CASE token = "%%"
  <2>1. q = [p EXCEPT !.mode = "rule"]
    BY <1>1 DEF Declaration, ListDirectives, Directives
  <2>2. q.mode = "rule" /\ Clear(q)
    BY <2>1 DEF ReaderT, Clear
  <2> QED BY <1>1, <2>2 DEF Declares
<1>2. CASE token \in ListDirectives
  <2>1. q = [p EXCEPT !.mode = "list", !.keyword = token] /\ token \notin Takers \cup {"%%"}
    BY <1>2 DEF Declaration, ListDirectives, Directives, Takers
  <2>2. q.mode = "list" /\ Clear(q)
    BY <2>1 DEF ReaderT, Clear
  <2> QED BY <2>1, <2>2 DEF Declares
<1>3. CASE token = "%union"
  <2>1. q = [p EXCEPT !.mode = "union"] /\ token \notin Takers \cup {"%%"}
    BY <1>3 DEF Declaration, ListDirectives, Directives, Takers
  <2>2. q.mode = "union" /\ Clear(q)
    BY <2>1 DEF ReaderT, Clear
  <2> QED BY <2>1, <2>2 DEF Declares
<1>4. CASE token \in Takers
  <2>1. q = [p EXCEPT !.mode = "line"]
    BY <1>4 DEF Declaration, ListDirectives, Directives, Takers
  <2>2. q.mode = "line" /\ Clear(q)
    BY <2>1 DEF ReaderT, Clear
  <2> QED BY <1>4, <2>2 DEF Declares
<1>5. CASE token # "%%" /\ token \notin ListDirectives /\ token # "%union" /\ token \notin Takers
  <2>1. q.mode = "fault"
    BY <1>5 DEF Declaration, Takers, Fault, ReaderT
  <2> QED BY <2>1 DEF Declares
<1> QED BY <1>1, <1>2, <1>3, <1>4, <1>5

\* The end of a list says nothing of the rules.
LEMMA EndListClears ==
  ASSUME NEW p, p \in ReaderT, Clear(p)
  PROVE  EndList(p).mode = "fault" \/ Clear(EndList(p))
<1> DEFINE list == [p EXCEPT !.mode = "declarations", !.names = <<>>]
<1>1. list.rules = p.rules /\ list.alternatives = p.alternatives /\ list.alternative = p.alternative
      /\ list.precedence = p.precedence /\ list.start = p.start
  BY DEF ReaderT
<1>2. Clear(list)
  BY <1>1 DEF Clear
<1>3. \A x : Clear([list EXCEPT !.precedence = x]) /\ Clear([list EXCEPT !.start = x])
  BY <1>1 DEF Clear, ReaderT
<1>4. Fault(p).mode = "fault"
  BY DEF Fault, ReaderT
<1> DEFINE one == [list EXCEPT !.precedence = Append(@, [assoc |-> p.keyword, tokens |-> p.names])]
           two == [list EXCEPT !.start = p.names]
<1>5. Clear(one) /\ Clear(two)
  BY <1>3
<1>6. EndList(p) \in {Fault(p), one, two, list}
  <2>1. EndList(p) = CASE p.keyword \in Associativities -> IF p.names = <<>> THEN Fault(p) ELSE one
                       [] p.keyword = "%start" -> IF Len(p.names) # 1 THEN Fault(p) ELSE two
                       [] OTHER -> list
    BY DEF EndList
  <2> HIDE DEF one, two, list
  <2> QED BY <2>1
<1> HIDE DEF one, two, list
<1> QED BY <1>2, <1>4, <1>5, <1>6

\* Nothing of the rules is read before them, and they are read from the first mark that
\* is on no line that is taken.
Reads(q, token, blank, open) ==
  \/ q.mode = "fault"
  \/ token = "%%" /\ ~open /\ q.mode = "rule" /\ Clear(q)
  \/ /\ ~(token = "%%" /\ ~open)
     /\ Declaring(q, blank /\ token = LineEnd,
                  token # LineEnd /\ (open \/ (token \in Takers /\ ~(token = "%{}" /\ blank))))

LEMMA ReadBefore ==
  ASSUME NEW p, p \in ReaderT, NEW blank \in BOOLEAN, NEW open \in BOOLEAN, Declaring(p, blank, open),
         NEW token, token \in Words
  PROVE  Reads(ReadToken(p, token), token, blank, open)
<1> DEFINE q == ReadToken(p, token)
<1>0. Clear(p) /\ p.mode \in BeforeModes
  BY DEF Declaring
<1>1. CASE p.mode = "line"
  <2>1. open /\ ~blank
    BY <1>1 DEF Declaring
  <2>2. CASE token = LineEnd
    <3>1. q = [p EXCEPT !.mode = "declarations"]
      BY <1>1, <2>2 DEF ReadToken
    <3>2. q.mode = "declarations" /\ Clear(q)
      BY <1>0, <3>1 DEF ReaderT, Clear
    <3> QED BY <2>1, <2>2, <3>2 DEF Reads, Declaring, BeforeModes
  <2>3. CASE token # LineEnd
    <3>1. q = p
      BY <1>1, <2>3 DEF ReadToken
    <3> QED BY <1>0, <1>1, <2>1, <2>3, <3>1 DEF Reads, Declaring, BeforeModes
  <2> QED BY <2>2, <2>3
<1>2. CASE p.mode # "line" /\ token = LineEnd
  <2>1. q = p /\ ~open
    BY <1>0, <1>2 DEF ReadToken, BeforeModes, Declaring
  <2>2. token \notin Takers \cup {"%%"}
    BY <1>2 DEF Takers, Directives, ListDirectives, LineEnd
  <2>3. Declaring(q, blank /\ token = LineEnd,
                  token # LineEnd /\ (open \/ (token \in Takers /\ ~(token = "%{}" /\ blank))))
    BY <1>2, <2>1 DEF Declaring
  <2> QED BY <2>2, <2>3 DEF Reads
<1>3. CASE p.mode = "prologue" /\ token # LineEnd
  <2>0. blank /\ ~open
    BY <1>3 DEF Declaring
  <2> DEFINE d == [p EXCEPT !.mode = "declarations"]
  <2>1. d \in ReaderT /\ Clear(d) /\ d.mode = "declarations"
    <3>1. "declarations" \in Modes
      BY DEF Modes
    <3> QED BY <1>0, <3>1, PartType DEF ReaderT, Clear
  <2>2. CASE token = "%{}"
    <3>1. q = d
      BY <1>3, <2>2 DEF ReadToken
    <3> QED BY <1>3, <2>0, <2>1, <2>2, <3>1 DEF Reads, Declaring, BeforeModes
  <2>3. CASE token = "%{"
    <3>1. q.mode = "fault"
      BY <1>3, <2>3 DEF ReadToken, Fault, ReaderT
    <3> QED BY <3>1 DEF Reads
  <2>4. CASE token # "%{}" /\ token # "%{"
    <3>1. q = Declaration(d, token)
      BY <1>3, <2>4 DEF ReadToken
    <3> HIDE DEF q, d
    <3>2. Declares(q, token)
      BY <2>1, <3>1, DeclarationDeclares
    <3>3. Reads(q, token, blank, open)
      BY <1>3, <2>0, <2>4, <3>2 DEF Declares, Reads, Declaring, BeforeModes, Takers, Directives, ListDirectives
    <3> QED BY <3>3 DEF q
  <2> QED BY <2>2, <2>3, <2>4
<1>4. ASSUME Declares(q, token), ~blank, ~open, token # LineEnd
      PROVE  Reads(q, token, blank, open)
  <2> HIDE DEF q
  <2> QED BY <1>4 DEF Declares, Reads, Declaring, BeforeModes, Takers, Directives, ListDirectives
<1>5. CASE p.mode = "declarations" /\ token # LineEnd
  <2>1. q = Declaration(p, token) /\ ~blank /\ ~open
    BY <1>5 DEF ReadToken, Declaring
  <2> QED BY <1>0, <1>4, <1>5, <2>1, DeclarationDeclares
<1>6. CASE p.mode \in {"list", "names"} /\ token # LineEnd
  <2>1. q = InList(p, token) /\ ~blank /\ ~open
    BY <1>6 DEF ReadToken, Declaring
  <2>2. CASE IsName(token)
    <3>1. q = [p EXCEPT !.names = Append(@, token)]
      BY <2>1, <2>2 DEF InList, IsName, Marks
    <3>2. q.mode \in {"list", "names"} /\ Clear(q)
      BY <1>0, <1>6, <3>1 DEF ReaderT, Clear
    <3>3. token \notin Takers \cup {"%%"}
      BY <2>2 DEF IsName, Takers, Marks
    <3> QED BY <1>6, <2>1, <3>2, <3>3 DEF Reads, Declaring, BeforeModes
  <2>3. CASE token = "<t>" /\ p.mode = "list" /\ p.names = <<>> /\ p.keyword # "%start"
    <3>1. q = [p EXCEPT !.mode = "names"]
      BY <2>1, <2>3 DEF InList, IsName, Marks
    <3>2. q.mode = "names" /\ Clear(q)
      BY <1>0, <3>1 DEF ReaderT, Clear
    <3>3. token \notin Takers \cup {"%%"}
      BY <2>3 DEF Takers, Directives, ListDirectives
    <3> QED BY <1>6, <2>1, <3>2, <3>3 DEF Reads, Declaring, BeforeModes
  <2>4. CASE ~IsName(token)
             /\ ~(token = "<t>" /\ p.mode = "list" /\ p.names = <<>> /\ p.keyword # "%start")
    <3> DEFINE e == EndList(p)
    <3>1. q = IF e.mode = "fault" THEN e ELSE Declaration(e, token)
      BY <2>1, <2>4 DEF InList
    <3>2. e \in ReaderT /\ (e.mode = "fault" \/ Clear(e))
      BY <1>0, EndListType, EndListClears
    <3> HIDE DEF e, q
    <3>3. CASE e.mode = "fault"
      BY <3>1, <3>3 DEF Reads, q
    <3>4. CASE e.mode # "fault"
      <4>1. Declares(q, token)
        BY <3>1, <3>2, <3>4, DeclarationDeclares
      <4> QED BY <1>4, <1>6, <2>1, <4>1 DEF q
    <3> QED BY <3>3, <3>4
  <2> QED BY <2>2, <2>3, <2>4
<1>7. CASE p.mode = "union" /\ token # LineEnd
  <2>1. ~blank /\ ~open
    BY <1>7 DEF Declaring
  <2>2. CASE token = "{}"
    <3>1. q = [p EXCEPT !.mode = "declarations"]
      BY <1>7, <2>2 DEF ReadToken
    <3>2. q.mode = "declarations" /\ Clear(q)
      BY <1>0, <3>1 DEF ReaderT, Clear
    <3>3. token \notin Takers \cup {"%%"}
      BY <2>2 DEF Takers, Directives, ListDirectives
    <3> QED BY <2>1, <3>2, <3>3 DEF Reads, Declaring, BeforeModes
  <2>3. CASE token # "{}"
    <3>1. q.mode = "fault"
      BY <1>7, <2>3 DEF ReadToken, Fault, ReaderT
    <3> QED BY <3>1 DEF Reads
  <2> QED BY <2>2, <2>3
<1> QED BY <1>0, <1>1, <1>2, <1>3, <1>5, <1>6, <1>7 DEF BeforeModes

-----------------------------------------------------------------------------
(***************************************************************************)
(* A text, a token at a time.                                              *)
(***************************************************************************)
\* Are all the lines blank up to the k-th token?  Has a directive taken the line it is on?
BlankTo(text, k) == \A m \in 1 .. k : text[m] = LineEnd

LineOpen(text, k) == \E j \in 1 .. k : TakesLine(text, j) /\ \A m \in j .. k : text[m] # LineEnd

\* One more token.
LEMMA LineSteps ==
  ASSUME NEW text, NEW k \in Nat
  PROVE  /\ BlankTo(text, k + 1) <=> BlankTo(text, k) /\ text[k + 1] = LineEnd
         /\ LineOpen(text, k + 1) <=> text[k + 1] # LineEnd /\ (LineOpen(text, k) \/ TakesLine(text, k + 1))
         /\ TakesLine(text, k + 1) <=> text[k + 1] \in Takers /\ ~(text[k + 1] = "%{}" /\ BlankTo(text, k))
         /\ OpensRules(text, k + 1) <=> text[k + 1] = "%%" /\ ~LineOpen(text, k)
<1>0. /\ 1 .. (k + 1) = (1 .. k) \cup {k + 1} /\ (k + 1) - 1 = k /\ k + 1 \in Nat
      /\ \A j \in 1 .. k : j .. (k + 1) = (j .. k) \cup {k + 1}
      /\ (k + 1) .. (k + 1) = {k + 1}
  OBVIOUS
<1>1. BlankTo(text, k + 1) <=> BlankTo(text, k) /\ text[k + 1] = LineEnd
  BY <1>0 DEF BlankTo
<1>2. LineOpen(text, k + 1) <=> text[k + 1] # LineEnd /\ (LineOpen(text, k) \/ TakesLine(text, k + 1))
  <2>1. ASSUME LineOpen(text, k + 1)
        PROVE  text[k + 1] # LineEnd /\ (LineOpen(text, k) \/ TakesLine(text, k + 1))
    <3>1. PICK j \in 1 .. (k + 1) : TakesLine(text, j) /\ \A m \in j .. (k + 1) : text[m] # LineEnd
      BY <2>1, Zenon DEF LineOpen
    <3>2. text[k + 1] # LineEnd
      BY <3>1
    <3>3. CASE j = k + 1
      BY <3>1, <3>2, <3>3
    <3>4. CASE j # k + 1
      <4>1. j \in 1 .. k
        BY <3>4
      <4>2. \A m \in j .. k : text[m] # LineEnd
        BY <1>0, <3>1, <4>1
      <4> QED BY <3>1, <3>2, <4>1, <4>2, Zenon DEF LineOpen
    <3> QED BY <3>3, <3>4
  <2>2. ASSUME text[k + 1] # LineEnd, LineOpen(text, k)
        PROVE  LineOpen(text, k + 1)
    <3>1. PICK j \in 1 .. k : TakesLine(text, j) /\ \A m \in j .. k : text[m] # LineEnd
      BY <2>2, Zenon DEF LineOpen
    <3>2. j \in 1 .. (k + 1) /\ \A m \in j .. (k + 1) : text[m] # LineEnd
      BY <1>0, <2>2, <3>1
    <3> QED BY <3>1, <3>2, Zenon DEF LineOpen
  <2>3. ASSUME text[k + 1] # LineEnd, TakesLine(text, k + 1)
        PROVE  LineOpen(text, k + 1)
    <3>1. k + 1 \in 1 .. (k + 1) /\ \A m \in (k + 1) .. (k + 1) : text[m] # LineEnd
      BY <1>0, <2>3
    <3> QED BY <2>3, <3>1, Zenon DEF LineOpen
  <2> QED BY <2>1, <2>2, <2>3
<1>3. TakesLine(text, k + 1) <=> text[k + 1] \in Takers /\ ~(text[k + 1] = "%{}" /\ BlankTo(text, k))
  BY <1>0, Zenon DEF TakesLine, Takers, BlankTo
<1>4. OpensRules(text, k + 1) <=> text[k + 1] = "%%" /\ ~LineOpen(text, k)
  <2>1. OpensRules(text, k + 1)
          <=> text[k + 1] = "%%" /\ \A j \in 1 .. k : TakesLine(text, j) => \E m \in j .. (k + 1) : text[m] = LineEnd
    BY <1>0, Zenon DEF OpensRules
  <2>2. ASSUME text[k + 1] = "%%", NEW j \in 1 .. k
        PROVE  (\E m \in j .. (k + 1) : text[m] = LineEnd) <=> ~\A m \in j .. k : text[m] # LineEnd
    BY <1>0, <2>2 DEF LineEnd
  <2> QED BY <2>1, <2>2, Zenon DEF LineOpen
<1> QED BY <1>1, <1>2, <1>3, <1>4

\* A token is written as words.
LEMMA BareType ==
  ASSUME NEW token, token \in Words
  PROVE  Bare(token) \in Seq(Words)
<1>1. <<token>> \in Seq(Words) /\ <<>> \in Seq(Words)
  OBVIOUS
<1> QED BY <1>1 DEF Bare

\* What is between two places is written, one token more behind the others.
LEMMA BetweenMore ==
  ASSUME NEW text, text \in Seq(Words), NEW from \in Nat, NEW k \in Nat, from <= k, k < Len(text)
  PROVE  /\ BareBetween(text, from, from) = <<>>
         /\ BareBetween(text, from, k) \in Seq(Words)
         /\ BareBetween(text, from, k + 1) = BareBetween(text, from, k) \o Bare(text[k + 1])
<1> DEFINE Z == Seq(Words)
           B(n) == Bare(text[from + n])
           w == [n \in 1 .. k - from |-> B(n)]
           v == [n \in 1 .. (k + 1) - from |-> B(n)]
           x == Bare(text[k + 1])
<1>1. k - from \in Nat /\ (k + 1) - from = (k - from) + 1 /\ from + ((k - from) + 1) = k + 1
  OBVIOUS
<1>2. \A n \in 1 .. (k - from) + 1 : text[from + n] \in Words
  <2> TAKE n \in 1 .. (k - from) + 1
  <2>1. from + n \in 1 .. Len(text)
    OBVIOUS
  <2> QED BY <2>1
<1>3. \A n \in 1 .. (k - from) + 1 : B(n) \in Z
  BY <1>2, BareType
<1>4. B((k - from) + 1) = x
  BY <1>1
<1>5. BareBetween(text, from, k) = FlattenSeq(w) /\ BareBetween(text, from, k + 1) = FlattenSeq(v)
  BY Zenon DEF BareBetween
<1>6. BareBetween(text, from, from) = <<>>
  <2>1. from - from = 0 /\ 1 .. 0 = {}
    OBVIOUS
  <2>2. [n \in 1 .. from - from |-> Bare(text[from + n])] = <<>>
    BY <2>1
  <2> QED BY <2>2, FlattenNone DEF BareBetween
<1>7. v = [n \in 1 .. (k - from) + 1 |-> B(n)]
  BY <1>1
<1> HIDE DEF Z, B, v, x
<1>8. w \in Seq(Z) /\ Len(w) = k - from
  <2>1. \A n \in 1 .. k - from : B(n) \in Z
    BY <1>1, <1>3
  <2> QED BY <1>1, <2>1
<1>9. x \in Z
  <2>1. (k - from) + 1 \in 1 .. (k - from) + 1
    BY <1>1
  <2> QED BY <1>3, <1>4, <2>1
<1>10. \A n \in 1 .. k - from : w[n] = B(n)
  OBVIOUS
<1> HIDE DEF w
<1>11. v = Append(w, x)
  <2> DEFINE y == Append(w, x)
             d == k - from
  <2>0. d \in Nat /\ Len(w) = d
    BY <1>1, <1>8
  <2> HIDE DEF d
  <2>1. /\ y \in Seq(Z) /\ Len(y) = d + 1 /\ y[d + 1] = x
        /\ \A n \in 1 .. d : y[n] = w[n]
    BY <1>8, <1>9, <2>0
  <2> HIDE DEF y
  <2>2. y = [n \in 1 .. d + 1 |-> y[n]]
    BY <2>1
  <2>3. \A n \in 1 .. d + 1 : B(n) = y[n]
    <3> TAKE n \in 1 .. d + 1
    <3>1. CASE n = d + 1
      BY <1>4, <2>1, <3>1 DEF d
    <3>2. CASE n # d + 1
      <4>1. n \in 1 .. d
        BY <2>0, <3>2
      <4>2. w[n] = B(n)
        BY <1>10, <4>1 DEF d
      <4> QED BY <2>1, <4>1, <4>2
    <3> QED BY <3>1, <3>2
  <2>4. v = [n \in 1 .. d + 1 |-> B(n)]
    BY <1>7 DEF d
  <2> QED BY <2>2, <2>3, <2>4 DEF y
<1>12. FlattenSeq(w) \in Z
  BY <1>8, FlattenType DEF Z
<1>13. FlattenSeq(Append(w, x)) = FlattenSeq(w) \o x
  BY <1>8, <1>9, FlattenAppend DEF Z
<1> QED BY <1>5, <1>6, <1>11, <1>12, <1>13 DEF Z, x

-----------------------------------------------------------------------------
(***************************************************************************)
(* The reader along a text: what it has is what the text has so far.       *)
(***************************************************************************)
\* The mark that opens the rules.
OpensFirst(text, from) == OpensRules(text, from) /\ \A n \in 1 .. from - 1 : ~OpensRules(text, n)

NoMark(text, from, k) == \A n \in from + 1 .. k : text[n] # "%%"

\* Where the reader is behind a %prec.
Tracked(p, text, k) ==
  /\ p.mode = "prec" => text[k] = "%prec"
  /\ p.mode = "alternative" /\ p.alternative.prec # NoPrec =>
       \E n \in 1 .. k - 1 : text[n] = "%prec" /\ \A m \in n + 2 .. k : text[m] = LineEnd

Within(p, text, from, k) ==
  /\ p.mode \in WithinModes /\ Shaped(p) /\ Tracked(p, text, k)
  /\ Said(p) = BareBetween(text, from, k) /\ NoMark(text, from, k)

Ended(p, text, from, k) ==
  \E to \in from + 1 .. k :
    /\ p.mode = "end" /\ text[to] = "%%" /\ NoMark(text, from, to - 1)
    /\ Wrote(p) = BareBetween(text, from, to - 1)

ReadSo(p, text, k) ==
  \/ p.mode = "fault"
  \/ Declaring(p, BlankTo(text, k), LineOpen(text, k)) /\ \A n \in 1 .. k : ~OpensRules(text, n)
  \/ \E from \in 1 .. k : OpensFirst(text, from) /\ (Within(p, text, from, k) \/ Ended(p, text, from, k))

Tokens(text) == text \in Seq(Words) /\ \A n \in 1 .. Len(text) : text[n] # NoPrec

LEMMA ReadsBefore ==
  ASSUME NEW text, Tokens(text), NEW k \in 0 .. Len(text) - 1, NEW p, p \in ReaderT,
         Declaring(p, BlankTo(text, k), LineOpen(text, k)), \A n \in 1 .. k : ~OpensRules(text, n)
  PROVE  ReadSo(ReadToken(p, text[k + 1]), text, k + 1)
<1> DEFINE token == text[k + 1]
           q == ReadToken(p, token)
           blank == BlankTo(text, k)
           open == LineOpen(text, k)
<1>1. text \in Seq(Words) /\ Len(text) \in Nat /\ k \in Nat /\ k + 1 \in 1 .. Len(text) /\ token \in Words
      /\ 1 .. (k + 1) = (1 .. k) \cup {k + 1} /\ (k + 1) - 1 = k
  <2>1. text \in Seq(Words)
    BY DEF Tokens
  <2>2. Len(text) \in Nat /\ k \in Nat /\ k + 1 \in 1 .. Len(text)
    BY <2>1
  <2>3. token \in Words
    BY <2>1, <2>2
  <2> QED BY <2>1, <2>2, <2>3
<1>2. blank \in BOOLEAN /\ open \in BOOLEAN
  BY DEF BlankTo, LineOpen
<1>3. /\ BlankTo(text, k + 1) <=> blank /\ token = LineEnd
      /\ LineOpen(text, k + 1) <=> token # LineEnd /\ (open \/ TakesLine(text, k + 1))
      /\ TakesLine(text, k + 1) <=> token \in Takers /\ ~(token = "%{}" /\ blank)
      /\ OpensRules(text, k + 1) <=> token = "%%" /\ ~open
  BY <1>1, LineSteps
<1>4. Declaring(p, blank, open)
  OBVIOUS
<1> HIDE DEF blank, open, token
<1>5. Reads(q, token, blank, open)
  BY <1>1, <1>2, <1>4, ReadBefore
<1> HIDE DEF q
<1>6. CASE q.mode = "fault"
  BY <1>6 DEF ReadSo, q, token
<1>7. CASE token = "%%" /\ ~open /\ q.mode = "rule" /\ Clear(q)
  <2>1. OpensFirst(text, k + 1)
    BY <1>1, <1>3, <1>7 DEF OpensFirst
  <2>2. Tracked(q, text, k + 1) /\ Shaped(q) /\ q.mode \in WithinModes
    BY <1>7 DEF Tracked, Shaped, WithinModes, Clear
  <2>3. BareBetween(text, k + 1, k + 1) = <<>>
    <3>1. (k + 1) - (k + 1) = 0 /\ 1 .. 0 = {}
      BY <1>1
    <3>2. [n \in 1 .. (k + 1) - (k + 1) |-> Bare(text[(k + 1) + n])] = <<>>
      BY <3>1
    <3> QED BY <3>2, FlattenNone DEF BareBetween
  <2>4. Said(q) = <<>>
    <3>1. Said(q) = WrittenRules([rules |-> <<>>])
      BY <1>7 DEF Said, Wrote, Clear
    <3>2. [n \in DOMAIN <<>> |-> WrittenRule(<<>>[n])] = <<>>
      OBVIOUS
    <3>3. WrittenRules([rules |-> <<>>]) = FlattenSeq(<<>>)
      BY <3>2 DEF WrittenRules
    <3> QED BY <3>1, <3>3, FlattenNone
  <2>5. NoMark(text, k + 1, k + 1)
    BY <1>1 DEF NoMark
  <2>6. Within(q, text, k + 1, k + 1)
    BY <2>2, <2>3, <2>4, <2>5 DEF Within
  <2>7. k + 1 \in 1 .. (k + 1)
    BY <1>1
  <2> QED BY <2>1, <2>6, <2>7 DEF ReadSo, q, token
<1>8. CASE /\ ~(token = "%%" /\ ~open)
           /\ Declaring(q, blank /\ token = LineEnd,
                        token # LineEnd /\ (open \/ (token \in Takers /\ ~(token = "%{}" /\ blank))))
  <2>1. Declaring(q, BlankTo(text, k + 1), LineOpen(text, k + 1))
    BY <1>3, <1>8 DEF Declaring
  <2>2. \A n \in 1 .. (k + 1) : ~OpensRules(text, n)
    BY <1>1, <1>3, <1>8
  <2> QED BY <2>1, <2>2 DEF ReadSo, q, token
<1> QED BY <1>5, <1>6, <1>7, <1>8 DEF Reads

\* Where goyacc has %prec at the end of an alternative, a token fits what is read.
LEMMA FitsText ==
  ASSUME NEW text, Tokens(text), PrecAtEnd(text), NEW k \in 0 .. Len(text) - 1, NEW p, k > 0, Tracked(p, text, k)
  PROVE  Fitting(p, text[k + 1])
<1>1. /\ text \in Seq(Words) /\ Len(text) \in Nat /\ k \in Nat /\ k + 1 \in 1 .. Len(text) /\ k \in 1 .. Len(text)
      /\ DOMAIN text = 1 .. Len(text)
  <2>1. text \in Seq(Words)
    BY DEF Tokens
  <2> QED BY <2>1
<1>2. text[k + 1] # NoPrec
  BY <1>1 DEF Tokens
<1>3. \A n \in 1 .. Len(text) : text[n] = "%prec" =>
        /\ n < Len(text) /\ IsName(text[n + 1])
        /\ \A m \in n + 2 .. Len(text) :
             IsName(text[m]) \/ text[m] = "%prec" => \E j \in n + 2 .. m - 1 : text[j] # LineEnd
  BY <1>1, Zenon DEF PrecAtEnd
<1>4. ASSUME p.mode = "prec" PROVE IsName(text[k + 1])
  BY <1>1, <1>3, <1>4 DEF Tracked
<1>5. ASSUME p.mode = "alternative", p.alternative.prec # NoPrec
      PROVE  ~IsName(text[k + 1]) /\ text[k + 1] # "%prec"
  <2>1. PICK n \in 1 .. k - 1 : text[n] = "%prec" /\ \A m \in n + 2 .. k : text[m] = LineEnd
    BY <1>5 DEF Tracked
  <2>2. SUFFICES ASSUME IsName(text[k + 1]) \/ text[k + 1] = "%prec" PROVE FALSE
    OBVIOUS
  <2>3. n \in 1 .. Len(text) /\ k + 1 \in n + 2 .. Len(text) /\ (k + 1) - 1 = k
    BY <1>1
  <2>4. \E j \in n + 2 .. (k + 1) - 1 : text[j] # LineEnd
    BY <1>3, <2>1, <2>2, <2>3
  <2> QED BY <2>1, <2>3, <2>4
<1> QED BY <1>2, <1>4, <1>5 DEF Fitting

LEMMA ReadsWithin ==
  ASSUME NEW text, Tokens(text), PrecAtEnd(text), NEW k \in 0 .. Len(text) - 1, NEW p, p \in ReaderT,
         NEW from \in 1 .. k, OpensFirst(text, from), Within(p, text, from, k)
  PROVE  ReadSo(ReadToken(p, text[k + 1]), text, k + 1)
<1> DEFINE token == text[k + 1]
           q == ReadToken(p, token)
           said == BareBetween(text, from, k)
<1>1. text \in Seq(Words) /\ Len(text) \in Nat /\ k \in Nat /\ k > 0 /\ k + 1 \in 1 .. Len(text) /\ token \in Words
      /\ from \in Nat /\ from <= k /\ k < Len(text)
  <2>1. text \in Seq(Words)
    BY DEF Tokens
  <2>2. Len(text) \in Nat /\ k \in Nat /\ k > 0 /\ k + 1 \in 1 .. Len(text) /\ from \in Nat /\ from <= k /\ k < Len(text)
    BY <2>1
  <2>3. token \in Words
    BY <2>1, <2>2
  <2> QED BY <2>1, <2>2, <2>3
<1>2. p.mode \in WithinModes /\ Shaped(p) /\ Tracked(p, text, k) /\ Said(p) = said /\ NoMark(text, from, k)
  BY DEF Within
<1>3. Fitting(p, token)
  BY <1>1, <1>2, FitsText
<1>4. BareBetween(text, from, k + 1) = said \o Bare(token)
  BY <1>1, BetweenMore
<1> HIDE DEF token, said
<1>5. Says(said, token, q) /\ Followed(p, token, q)
  BY <1>1, <1>2, <1>3, ReadWithin
<1> HIDE DEF q
<1>6. from \in 1 .. (k + 1)
  BY <1>1
<1>7. CASE q.mode = "fault"
  BY <1>7 DEF ReadSo, q, token
<1>8. CASE token = "%%" /\ q.mode = "end" /\ Wrote(q) = said
  <2>1. k + 1 \in from + 1 .. (k + 1) /\ (k + 1) - 1 = k
    BY <1>1
  <2>2. Ended(q, text, from, k + 1)
    BY <1>2, <1>8, <2>1 DEF Ended, token, said
  <2> QED BY <1>6, <2>2 DEF ReadSo, q, token
<1>9. CASE token # "%%" /\ q.mode \in WithinModes /\ Shaped(q) /\ Said(q) = said \o Bare(token)
  <2>1. NoMark(text, from, k + 1)
    <3> SUFFICES ASSUME NEW n \in from + 1 .. (k + 1) PROVE text[n] # "%%"
      BY DEF NoMark
    <3>1. CASE n = k + 1
      BY <1>9, <3>1 DEF token
    <3>2. CASE n # k + 1
      <4>1. n \in from + 1 .. k
        BY <1>1, <3>2
      <4> QED BY <1>2, <4>1 DEF NoMark
    <3> QED BY <3>1, <3>2
  <2>2. Tracked(q, text, k + 1)
    <3>1. q.mode = "prec" => token = "%prec"
      BY <1>5 DEF Followed
    <3>2. ASSUME q.mode = "alternative", q.alternative.prec # NoPrec
          PROVE  \E n \in 1 .. (k + 1) - 1 : text[n] = "%prec" /\ \A m \in n + 2 .. (k + 1) : text[m] = LineEnd
      <4>1. CASE p.mode = "prec"
        <5>1. text[k] = "%prec"
          BY <1>2, <4>1 DEF Tracked
        <5>2. k \in 1 .. (k + 1) - 1 /\ \A m \in k + 2 .. (k + 1) : text[m] = LineEnd
          BY <1>1
        <5> QED BY <5>1, <5>2
      <4>2. CASE p.mode = "alternative" /\ p.alternative.prec # NoPrec /\ token = LineEnd
        <5>1. PICK n \in 1 .. k - 1 : text[n] = "%prec" /\ \A m \in n + 2 .. k : text[m] = LineEnd
          BY <1>2, <4>2 DEF Tracked
        <5>2. n \in 1 .. (k + 1) - 1
          BY <1>1
        <5>3. ASSUME NEW m \in n + 2 .. (k + 1) PROVE text[m] = LineEnd
          <6>1. CASE m = k + 1
            BY <4>2, <6>1 DEF token
          <6>2. CASE m # k + 1
            <7>1. m \in n + 2 .. k
              BY <1>1, <6>2
            <7> QED BY <5>1, <7>1
          <6> QED BY <6>1, <6>2
        <5> QED BY <5>1, <5>2, <5>3
      <4> QED BY <1>5, <3>2, <4>1, <4>2 DEF Followed
    <3> QED BY <3>1, <3>2, Zenon DEF Tracked, token
  <2>3. Within(q, text, from, k + 1)
    BY <1>4, <1>9, <2>1, <2>2 DEF Within
  <2> QED BY <1>6, <2>3 DEF ReadSo, q, token
<1> QED BY <1>5, <1>7, <1>8, <1>9 DEF Says

LEMMA ReadsOn ==
  ASSUME NEW text, Tokens(text), PrecAtEnd(text), NEW k \in 0 .. Len(text) - 1, NEW p, p \in ReaderT,
         ReadSo(p, text, k)
  PROVE  ReadSo(ReadToken(p, text[k + 1]), text, k + 1)
<1> DEFINE q == ReadToken(p, text[k + 1])
<1>1. CASE p.mode = "fault"
  <2>1. q = p
    BY <1>1 DEF ReadToken
  <2> QED BY <1>1, <2>1 DEF ReadSo
<1>2. CASE Declaring(p, BlankTo(text, k), LineOpen(text, k)) /\ \A n \in 1 .. k : ~OpensRules(text, n)
  BY <1>2, ReadsBefore
<1>3. ASSUME NEW from \in 1 .. k, OpensFirst(text, from), Within(p, text, from, k)
      PROVE  ReadSo(q, text, k + 1)
  BY <1>3, ReadsWithin
<1>4. ASSUME NEW from \in 1 .. k, OpensFirst(text, from), Ended(p, text, from, k)
      PROVE  ReadSo(q, text, k + 1)
  <2>1. PICK to \in from + 1 .. k :
          /\ p.mode = "end" /\ text[to] = "%%" /\ NoMark(text, from, to - 1)
          /\ Wrote(p) = BareBetween(text, from, to - 1)
    BY <1>4 DEF Ended
  <2>2. q = p
    BY <2>1 DEF ReadToken
  <2>3. to \in from + 1 .. (k + 1) /\ from \in 1 .. (k + 1)
    BY <1>4
  <2>4. Ended(q, text, from, k + 1)
    BY <2>1, <2>2, <2>3 DEF Ended
  <2> QED BY <1>4, <2>3, <2>4 DEF ReadSo
<1> QED BY <1>1, <1>2, <1>3, <1>4 DEF ReadSo

\* Nothing is read of nothing.
LEMMA StartsSo == ASSUME NEW text PROVE ReadSo(Start, text, 0)
<1>1. /\ Start.mode = "prologue" /\ Start.rules = <<>> /\ Start.alternatives = <<>>
      /\ Start.alternative = EmptyAlternative
  BY DEF Start
<1>2. 1 .. 0 = {}
  OBVIOUS
<1>3. BlankTo(text, 0) /\ ~LineOpen(text, 0)
  BY <1>2 DEF BlankTo, LineOpen
<1>4. Declaring(Start, BlankTo(text, 0), LineOpen(text, 0))
  BY <1>1, <1>3 DEF Declaring, Clear, BeforeModes
<1> QED BY <1>2, <1>4 DEF ReadSo

\* The whole text is read so.
LEMMA ReadsTheText ==
  ASSUME NEW text, Tokens(text), PrecAtEnd(text)
  PROVE  FoldLeft(ReadToken, Start, text) \in ReaderT /\ ReadSo(FoldLeft(ReadToken, Start, text), text, Len(text))
<1> DEFINE read == FoldLeft(ReadToken, Start, text)
<1>1. text \in Seq(Words) /\ Len(text) \in Nat
  <2>1. text \in Seq(Words)
    BY DEF Tokens
  <2> QED BY <2>1
<1>2. FoldsTo(ReaderT, Reading, Start, text, read)
  BY <1>1, ReadingFolds
<1> HIDE DEF read
<1>3. PICK R \in [0 .. Len(text) -> ReaderT] : FoldsAlong(Reading, Start, text, R) /\ R[Len(text)] = read
  BY <1>2 DEF FoldsTo
<1> DEFINE S == {k \in 0 .. Len(text) : ReadSo(R[k], text, k)}
<1>4. 0 \in S
  <2>1. R[0] = Start
    BY <1>3 DEF FoldsAlong
  <2> QED BY <1>1, <2>1, StartsSo
<1>5. ASSUME NEW k \in 0 .. Len(text) - 1, k \in S PROVE k + 1 \in S
  <2>1. k \in 0 .. Len(text) /\ k + 1 \in 0 .. Len(text) /\ k + 1 \in 1 .. Len(text)
    BY <1>1
  <2>2. R[k] \in ReaderT /\ text[k + 1] \in Words
    BY <1>1, <1>3, <2>1
  <2>3. R[k + 1] = Reading[<<R[k], text[k + 1]>>]
    BY <1>3 DEF FoldsAlong
  <2>4. R[k + 1] = ReadToken(R[k], text[k + 1])
    BY <2>2, <2>3, ReadingType
  <2>5. ReadSo(R[k], text, k)
    BY <1>5
  <2>6. ReadSo(ReadToken(R[k], text[k + 1]), text, k + 1)
    BY <2>2, <2>5, ReadsOn
  <2> QED BY <2>1, <2>4, <2>6
<1> HIDE DEF S
<1>6. \A k \in 0 .. Len(text) : k \in S
  BY <1>1, <1>4, <1>5, Induct
<1>7. Len(text) \in S /\ Len(text) \in 0 .. Len(text)
  BY <1>1, <1>6
<1> QED BY <1>3, <1>7 DEF S, read

\* What has been read at the end of the text: its rules, from their mark to the next, or
\* to the end.
ReadTo(p, text, from, to) ==
  /\ OpensFirst(text, from) /\ NoMark(text, from, to - 1)
  /\ to = Len(text) + 1 \/ text[to] = "%%"
  /\ Wrote(p) = BareBetween(text, from, to - 1)

LEMMA EndsSo ==
  ASSUME NEW text, Tokens(text), PrecAtEnd(text), NEW p, p \in ReaderT, ReadSo(p, text, Len(text)),
         ReadEnd(p).mode # "fault"
  PROVE  \E from \in 1 .. Len(text) : \E to \in from + 1 .. Len(text) + 1 : ReadTo(ReadEnd(p), text, from, to)
<1> DEFINE q == ReadEnd(p)
           L == Len(text)
<1>1. text \in Seq(Words) /\ L \in Nat /\ DOMAIN text = 1 .. L
  <2>1. text \in Seq(Words)
    BY DEF Tokens
  <2> QED BY <2>1
<1> HIDE DEF L
<1>2. p.mode \notin {"fault"} \cup BeforeModes
  <2>1. p.mode \in {"fault"} \cup BeforeModes => q.mode = "fault"
    BY DEF ReadEnd, Fault, ReaderT, BeforeModes
  <2> QED BY <2>1
<1>3. PICK from \in 1 .. L : OpensFirst(text, from) /\ (Within(p, text, from, L) \/ Ended(p, text, from, L))
  BY <1>2 DEF ReadSo, Declaring, L
<1>4. CASE Ended(p, text, from, L)
  <2>1. PICK to \in from + 1 .. L :
          /\ p.mode = "end" /\ text[to] = "%%" /\ NoMark(text, from, to - 1)
          /\ Wrote(p) = BareBetween(text, from, to - 1)
    BY <1>4 DEF Ended
  <2>2. q = p
    BY <2>1 DEF ReadEnd
  <2>3. to \in from + 1 .. L + 1
    BY <1>1
  <2>4. ReadTo(q, text, from, to)
    BY <1>3, <2>1, <2>2 DEF ReadTo
  <2> QED BY <2>3, <2>4 DEF L
<1>5. CASE Within(p, text, from, L)
  <2>1. p.mode \in WithinModes /\ Said(p) = BareBetween(text, from, L) /\ NoMark(text, from, L) /\ Tracked(p, text, L)
    BY <1>5 DEF Within
  <2>2. p.mode # "colon"
    <3>1. p.mode = "colon" => q.mode = "fault"
      BY DEF ReadEnd, Fault, ReaderT
    <3> QED BY <3>1
  <2>3. p.mode # "prec"
    <3>1. SUFFICES ASSUME p.mode = "prec" PROVE FALSE
      OBVIOUS
    <3>2. text[L] = "%prec" /\ L \in DOMAIN text
      BY <1>1, <2>1, <3>1 DEF Tracked
    <3>3. L < Len(text)
      BY <3>2 DEF PrecAtEnd
    <3> QED BY <1>1, <3>3 DEF L
  <2>4. Wrote(q) = Said(p)
    <3>1. CASE p.mode = "rule"
      <4>1. q = p
        BY <3>1 DEF ReadEnd
      <4> QED BY <3>1, <4>1 DEF Said
    <3>2. CASE p.mode = "after"
      <4>1. q = EndRule(p)
        BY <3>2 DEF ReadEnd
      <4>2. Wrote(EndRule(p)) = SaidAfter(p)
        BY EndRuleSays
      <4> QED BY <3>2, <4>1, <4>2 DEF Said
    <3>3. CASE p.mode = "alternative"
      <4> DEFINE e == EndAlternative(p)
      <4>1. q = EndRule(e)
        BY <3>3 DEF ReadEnd
      <4>2. e \in ReaderT /\ SaidAfter(e) = SaidAlternative(p)
        BY EndAlternativeType, EndAlternativeSays
      <4> HIDE DEF e
      <4>3. Wrote(EndRule(e)) = SaidAfter(e)
        BY <4>2, EndRuleSays
      <4>4. Said(p) = SaidAlternative(p)
        BY <3>3 DEF Said
      <4> QED BY <4>1, <4>2, <4>3, <4>4
    <3> QED BY <2>1, <2>2, <2>3, <3>1, <3>2, <3>3 DEF WithinModes
  <2>5. L + 1 \in from + 1 .. L + 1 /\ (L + 1) - 1 = L
    BY <1>1
  <2>6. ReadTo(q, text, from, L + 1)
    BY <1>3, <2>1, <2>4, <2>5 DEF ReadTo, L
  <2> QED BY <2>5, <2>6 DEF L
<1> QED BY <1>3, <1>4, <1>5

\* Those are the tokens of the rules.
LEMMA RuleTokensAre ==
  ASSUME NEW text, text \in Seq(Words), NEW from \in 1 .. Len(text), NEW to \in from + 1 .. Len(text) + 1, NEW p,
         ReadTo(p, text, from, to)
  PROVE  RuleTokens(text) = Wrote(p)
<1> DEFINE L == Len(text)
           marks == {n \in DOMAIN text : OpensRules(text, n)}
           ends == {L + 1} \cup {n \in DOMAIN text : n > from /\ text[n] = "%%"}
<1>1. L \in Nat /\ DOMAIN text = 1 .. L /\ from \in 1 .. L /\ to \in from + 1 .. L + 1
  OBVIOUS
<1>2. OpensFirst(text, from) /\ NoMark(text, from, to - 1) /\ (to = L + 1 \/ text[to] = "%%")
  BY DEF ReadTo
<1> HIDE DEF L
<1>3. Min(marks) = from
  <2>1. from \in marks
    BY <1>1, <1>2 DEF OpensFirst
  <2>2. ASSUME NEW n \in marks PROVE from <= n /\ n \in Nat
    <3>1. n \in 1 .. L /\ OpensRules(text, n)
      BY <1>1
    <3>2. n \notin 1 .. from - 1
      BY <1>2, <3>1 DEF OpensFirst
    <3> QED BY <1>1, <3>1, <3>2
  <2> HIDE DEF marks
  <2>3. Min(marks) \in marks /\ \A n \in marks : Min(marks) <= n
    BY <2>1, <2>2, Zenon DEF Min
  <2>4. Min(marks) <= from /\ from <= Min(marks) /\ Min(marks) \in Nat /\ from \in Nat
    BY <1>1, <2>1, <2>2, <2>3
  <2> QED BY <2>4
<1>4. Min(ends) = to
  <2>1. to \in ends
    BY <1>1, <1>2
  <2>2. ASSUME NEW n \in ends PROVE to <= n /\ n \in Nat
    <3>1. CASE n = L + 1
      BY <1>1, <3>1
    <3>2. CASE n # L + 1
      <4>1. n \in 1 .. L /\ n > from /\ text[n] = "%%"
        BY <1>1, <3>2
      <4>2. n \notin from + 1 .. to - 1
        BY <1>2, <4>1 DEF NoMark
      <4> QED BY <1>1, <4>1, <4>2
    <3> QED BY <3>1, <3>2
  <2> HIDE DEF ends
  <2>3. Min(ends) \in ends /\ \A n \in ends : Min(ends) <= n
    BY <2>1, <2>2, Zenon DEF Min
  <2>4. Min(ends) <= to /\ to <= Min(ends) /\ Min(ends) \in Nat /\ to \in Nat
    BY <1>1, <2>1, <2>2, <2>3
  <2> QED BY <2>4
<1>5. RuleTokens(text) = BareBetween(text, Min(marks), Min(ends) - 1)
  BY <1>3, Zenon DEF RuleTokens, L
<1> QED BY <1>3, <1>4, <1>5 DEF ReadTo

\* A file that is read, written down again, has the tokens of its rules.
LEMMA ParseLosesNothing ==
  ASSUME NEW text, Tokens(text), PrecAtEnd(text), Parse(text) # <<>>
  PROVE  WrittenRules(Parse(text)[1]) = RuleTokens(text)
<1> DEFINE read == FoldLeft(ReadToken, Start, text)
           p == ReadEnd(read)
<1>1. read \in ReaderT /\ ReadSo(read, text, Len(text))
  BY ReadsTheText
<1> HIDE DEF read
<1>2. p.mode # "fault" /\ Parse(text) = <<[precedence |-> p.precedence, start |-> p.start, rules |-> p.rules]>>
  BY DEF Parse, read
<1>3. PICK from \in 1 .. Len(text) : \E to \in from + 1 .. Len(text) + 1 : ReadTo(p, text, from, to)
  BY <1>1, <1>2, EndsSo
<1>7. PICK to \in from + 1 .. Len(text) + 1 : ReadTo(p, text, from, to)
  BY <1>3
<1>4. text \in Seq(Words)
  BY DEF Tokens
<1> HIDE DEF p
<1>5. RuleTokens(text) = Wrote(p)
  BY <1>4, <1>7, RuleTokensAre
<1>6. WrittenRules(Parse(text)[1]) = Wrote(p)
  <2> DEFINE g == Parse(text)[1]
  <2>1. g.rules = p.rules
    BY <1>2
  <2> HIDE DEF g
  <2>2. WrittenRules(g) = Wrote(p)
    BY <2>1, Zenon DEF WrittenRules, Wrote
  <2> QED BY <2>2 DEF g
<1> QED BY <1>5, <1>6

-----------------------------------------------------------------------------
(***************************************************************************)
(* What the emitter keeps.                                                 *)
(***************************************************************************)
\* The elements of a sequence that are in a set, in their order.
Picked(s, S) == FlattenSeq([n \in DOMAIN s |-> IF s[n] \in S THEN << s[n] >> ELSE <<>>])

\* They are those of the sequence that are in the set.
LEMMA PickedHas ==
  ASSUME NEW Y, NEW S, NEW s, s \in Seq(Y), S \subseteq Y
  PROVE  /\ Picked(s, S) \in Seq(Y)
         /\ \A e : Has(Picked(s, S), e) <=> e \in S /\ Has(s, e)
<1> DEFINE F == [y \in Y |-> IF y \in S THEN << y >> ELSE <<>>]
<1>1. Spreads(F, Y, Y)
  BY DEF Spreads
<1>2. \A n \in DOMAIN s : s[n] \in Y
  OBVIOUS
<1>3. \A n \in DOMAIN s : F[s[n]] = IF s[n] \in S THEN << s[n] >> ELSE <<>>
  BY <1>2
<1>4. Mapped(F, s) = [n \in DOMAIN s |-> IF s[n] \in S THEN << s[n] >> ELSE <<>>]
  BY <1>3, Zenon DEF Mapped
<1>5. Picked(s, S) = Spread(F, s)
  BY <1>4, Zenon DEF Picked, Spread
<1>6. \A y \in Y : \A e : Has(F[y], e) <=> y \in S /\ e = y
  BY DEF Has
<1> HIDE DEF F
<1>7. Spread(F, s) \in Seq(Y)
  BY <1>1, SpreadType
<1>8. ASSUME NEW e
      PROVE  Has(Spread(F, s), e) <=> e \in S /\ Has(s, e)
  <2>1. Has(Spread(F, s), e) <=> \E n \in DOMAIN s : Has(F[s[n]], e)
    BY <1>1, SpreadHas
  <2>2. \A n \in DOMAIN s : Has(F[s[n]], e) <=> s[n] \in S /\ e = s[n]
    BY <1>2, <1>6
  <2>3. Has(s, e) <=> \E n \in DOMAIN s : s[n] = e
    BY DEF Has
  <2> QED BY <2>1, <2>2, <2>3
<1> QED BY <1>5, <1>7, <1>8

LEMMA KeptAlternativesAre ==
  ASSUME NEW rule, rule \in RuleT, NEW sidecar
  PROVE  /\ KeptAlternatives(rule, sidecar) \in Seq(AltT)
         /\ \A a : Has(KeptAlternatives(rule, sidecar), a) <=> Has(rule.alternatives, a) /\ Kept(a, sidecar)
<1> DEFINE S == {a \in AltT : Kept(a, sidecar)}
           s == rule.alternatives
<1>1. s \in Seq(AltT)
  BY DEF RuleT
<1>2. \A n \in DOMAIN s : s[n] \in S <=> Kept(s[n], sidecar)
  <2> HIDE DEF s
  <2>1. \A n \in DOMAIN s : s[n] \in AltT
    BY <1>1
  <2> QED BY <2>1
<1>3. KeptAlternatives(rule, sidecar) = Picked(s, S)
  BY <1>2, Zenon DEF KeptAlternatives, Picked
<1>4. \A a : Has(s, a) => a \in AltT
  <2> HIDE DEF s
  <2> QED BY <1>1 DEF Has
<1> HIDE DEF s
<1>5. S \subseteq AltT /\ \A a \in AltT : a \in S <=> Kept(a, sidecar)
  OBVIOUS
<1> HIDE DEF S
<1>6. Picked(s, S) \in Seq(AltT) /\ \A a : Has(Picked(s, S), a) <=> a \in S /\ Has(s, a)
  BY <1>1, <1>5, PickedHas
<1> QED BY <1>3, <1>4, <1>5, <1>6 DEF s

LEMMA KeptRulesAre ==
  ASSUME NEW grammar, grammar.rules \in Seq(RuleT), NEW lefts
  PROVE  /\ KeptRules(grammar, lefts) \in Seq(RuleT)
         /\ \A r : Has(KeptRules(grammar, lefts), r) <=> Has(grammar.rules, r) /\ r.lhs \in lefts
<1> DEFINE S == {r \in RuleT : r.lhs \in lefts}
           s == grammar.rules
<1>1. s \in Seq(RuleT)
  OBVIOUS
<1>2. \A n \in DOMAIN s : s[n] \in S <=> s[n].lhs \in lefts
  <2> HIDE DEF s
  <2>1. \A n \in DOMAIN s : s[n] \in RuleT
    BY <1>1
  <2> QED BY <2>1
<1>3. KeptRules(grammar, lefts) = Picked(s, S)
  BY <1>2, Zenon DEF KeptRules, Picked
<1>4. \A r : Has(s, r) => r \in RuleT
  <2> HIDE DEF s
  <2> QED BY <1>1 DEF Has
<1> HIDE DEF s
<1>5. S \subseteq RuleT /\ \A r \in RuleT : r \in S <=> r.lhs \in lefts
  OBVIOUS
<1> HIDE DEF S
<1>6. Picked(s, S) \in Seq(RuleT) /\ \A r : Has(Picked(s, S), r) <=> r \in S /\ Has(s, r)
  BY <1>1, <1>5, PickedHas
<1> QED BY <1>3, <1>4, <1>5, <1>6 DEF s

-----------------------------------------------------------------------------
(***************************************************************************)
(* What the roots reach.                                                   *)
(***************************************************************************)
\* The rules of a grammar are no more than it has positions.
LEMMA HeadsAreFew ==
  ASSUME NEW grammar, grammar.rules \in Seq(RuleT)
  PROVE  /\ IsFiniteSet(Heads(grammar)) /\ Cardinality(Heads(grammar)) \in Nat
         /\ Cardinality(Heads(grammar)) <= Len(grammar.rules)
<1> DEFINE s == grammar.rules
           H == Heads(grammar)
           f == [n \in 1 .. Len(s) |-> s[n].lhs]
<1>1. Len(s) \in Nat /\ DOMAIN s = 1 .. Len(s)
  OBVIOUS
<1>2. H = {s[n].lhs : n \in 1 .. Len(s)}
  BY <1>1 DEF Heads
<1>3. f \in Surjection(1 .. Len(s), H)
  <2>1. f \in [1 .. Len(s) -> H] /\ \A h \in H : \E n \in 1 .. Len(s) : f[n] = h
    BY <1>2
  <2> HIDE DEF f
  <2> QED BY <2>1, Zenon DEF Surjection
<1>4. 1 \in Int /\ Len(s) \in Int
  BY <1>1
<1> HIDE DEF s, H, f
<1>5. IsFiniteSet(1 .. Len(s)) /\ Cardinality(1 .. Len(s)) = Len(s)
  <2>1. IsFiniteSet(1 .. Len(s)) /\ Cardinality(1 .. Len(s)) = IF 1 > Len(s) THEN 0 ELSE Len(s) - 1 + 1
    BY <1>4, FS_Interval
  <2> QED BY <1>1, <2>1
<1>6. IsFiniteSet(H) /\ Cardinality(H) <= Len(s)
  BY <1>3, <1>5, FS_Surjection
<1>7. Cardinality(H) \in Nat
  BY <1>6, FS_CardinalityType
<1> QED BY <1>6, <1>7 DEF H, s

\* The rules a set of them leads to at once, and itself.
Grown(grammar, sidecar, S) ==
  S \cup ((UNION {Names(grammar, lhs) : lhs \in S}) \ sidecar.skipRules)

\* R has what is reached in n steps.
Reaches(grammar, sidecar, R) ==
  /\ R[0] = sidecar.roots \ sidecar.skipRules
  /\ \A k \in 0 .. Len(grammar.rules) - 1 : R[k + 1] = Grown(grammar, sidecar, R[k])

\* A grammar whose names are all rules, and roots that are.
Sound(grammar, sidecar) ==
  /\ grammar.rules \in Seq(RuleT) /\ WellFormed(grammar)
  /\ sidecar.roots \subseteq Heads(grammar)

\* The names of a rule are its names that are no tokens.
LEMMA NamesAre ==
  ASSUME NEW grammar, grammar.rules \in Seq(RuleT), WellFormed(grammar), NEW n \in DOMAIN grammar.rules
  PROVE  /\ Names(grammar, grammar.rules[n].lhs)
              = (UNION {ToSet(grammar.rules[n].alternatives[k].symbols) :
                          k \in DOMAIN grammar.rules[n].alternatives}) \ (Terminals \cup {"error"})
         /\ Names(grammar, grammar.rules[n].lhs) \subseteq Heads(grammar)
<1> DEFINE s == grammar.rules
           lhs == s[n].lhs
           found == {m \in DOMAIN s : s[m].lhs = lhs}
<1>1. Len(s) \in Nat /\ DOMAIN s = 1 .. Len(s) /\ n \in Nat
  OBVIOUS
<1>2. \A m \in DOMAIN s : s[m].lhs = lhs => m = n
  BY DEF WellFormed
<1>3. found = {n}
  BY <1>2
<1>4. Min(found) = n
  BY <1>1, <1>3 DEF Min
<1>5. Names(grammar, lhs)
        = (UNION {ToSet(s[n].alternatives[k].symbols) : k \in DOMAIN s[n].alternatives})
            \ (Terminals \cup {"error"})
  <2>1. found # {}
    BY <1>3
  <2> QED BY <1>4, <2>1, Zenon DEF Names
<1>6. \A k \in DOMAIN s[n].alternatives :
        ToSet(s[n].alternatives[k].symbols) \subseteq Terminals \cup {"error"} \cup Heads(grammar)
  BY DEF WellFormed, Heads
<1>7. Names(grammar, lhs) \subseteq Heads(grammar)
  <2> DEFINE G == s[n].alternatives
  <2> SUFFICES ASSUME NEW e \in Names(grammar, lhs) PROVE e \in Heads(grammar)
    OBVIOUS
  <2>1. Names(grammar, lhs)
          = (UNION {ToSet(G[k].symbols) : k \in DOMAIN G}) \ (Terminals \cup {"error"})
    BY <1>5, Zenon
  <2>2. \A k \in DOMAIN G : ToSet(G[k].symbols) \subseteq Terminals \cup {"error"} \cup Heads(grammar)
    BY <1>6
  <2> HIDE DEF G
  <2>3. e \notin Terminals \cup {"error"} /\ \E k \in DOMAIN G : e \in ToSet(G[k].symbols)
    BY <2>1, Zenon
  <2> QED BY <2>2, <2>3
<1> QED BY <1>5, <1>7

\* Growing stays among the rules.
LEMMA GrownAre ==
  ASSUME NEW grammar, NEW sidecar, Sound(grammar, sidecar), NEW S \in SUBSET Heads(grammar)
  PROVE  Grown(grammar, sidecar, S) \in SUBSET Heads(grammar) /\ S \subseteq Grown(grammar, sidecar, S)
<1>1. ASSUME NEW lhs \in S PROVE Names(grammar, lhs) \subseteq Heads(grammar)
  <2>1. PICK n \in DOMAIN grammar.rules : grammar.rules[n].lhs = lhs
    BY DEF Heads
  <2> QED BY <2>1, NamesAre DEF Sound
<1> DEFINE N == UNION {Names(grammar, lhs) : lhs \in S}
<1>2. N \subseteq Heads(grammar)
  BY <1>1
<1>3. Grown(grammar, sidecar, S) = S \cup (N \ sidecar.skipRules)
  BY DEF Grown
<1> HIDE DEF N
<1> QED BY <1>2, <1>3

\* Reachable is what is reached in as many steps as there are positions.
LEMMA ReachableIs ==
  ASSUME NEW grammar, NEW sidecar, Sound(grammar, sidecar)
  PROVE  \E R \in [0 .. Len(grammar.rules) -> SUBSET Heads(grammar)] :
           Reaches(grammar, sidecar, R) /\ Reachable(grammar, sidecar) = R[Len(grammar.rules)]
<1> DEFINE s == grammar.rules
           X == SUBSET Heads(grammar)
           Step(S) == Grown(grammar, sidecar, S)
           H == [xr \in X \X RuleT |-> Step(xr[1])]
           base == sidecar.roots \ sidecar.skipRules
           N == Len(s)
           reached == CHOOSE r : r = [n \in 0 .. N |-> IF n = 0 THEN base ELSE Step(r[n - 1])]
<1>1. s \in Seq(RuleT) /\ N \in Nat /\ base \in X
  BY DEF Sound
<1>2. \A S \in X : Step(S) \in X
  BY GrownAre
<1>3. Reachable(grammar, sidecar) = reached[N]
  BY Zenon DEF Reachable, Grown
<1> HIDE DEF s, X, Step, base
<1>4. H \in [X \X RuleT -> X] /\ \A S \in X, r \in RuleT : H[<<S, r>>] = Step(S)
  BY <1>2
<1> HIDE DEF H
<1>5. PICK R \in [0 .. N -> X] : FoldsAlong(H, base, s, R)
  BY <1>1, <1>4, FoldAlongExists
<1>6. R[0] = base /\ \A k \in 0 .. N - 1 : R[k + 1] = Step(R[k])
  <2>1. R[0] = base /\ \A k \in 0 .. N - 1 : R[k + 1] = H[<<R[k], s[k + 1]>>]
    BY <1>5 DEF FoldsAlong
  <2>2. ASSUME NEW k \in 0 .. N - 1 PROVE R[k] \in X /\ s[k + 1] \in RuleT
    BY <1>1
  <2> QED BY <1>4, <2>1, <2>2
<1>7. R = [n \in 0 .. N |-> IF n = 0 THEN base ELSE Step(R[n - 1])]
  <2>1. \A n \in 0 .. N : R[n] = IF n = 0 THEN base ELSE Step(R[n - 1])
    <3> TAKE n \in 0 .. N
    <3>1. CASE n = 0
      BY <1>6, <3>1
    <3>2. CASE n # 0
      <4>1. n - 1 \in 0 .. N - 1 /\ (n - 1) + 1 = n
        BY <1>1, <3>2
      <4> QED BY <1>6, <3>2, <4>1
    <3> QED BY <3>1, <3>2
  <2>2. R = [n \in 0 .. N |-> R[n]]
    OBVIOUS
  <2> QED BY <2>1, <2>2
<1>8. reached = [n \in 0 .. N |-> IF n = 0 THEN base ELSE Step(reached[n - 1])]
  BY <1>7, Zenon
<1> HIDE DEF reached
<1>9. \A n \in 0 .. N : reached[n] = IF n = 0 THEN base ELSE Step(reached[n - 1])
  BY <1>8
<1> DEFINE T == {n \in 0 .. N : reached[n] = R[n]}
<1>10. \A k \in 0 .. N : k \in T
  <2>1. 0 \in T
    BY <1>1, <1>6, <1>9
  <2>2. ASSUME NEW k \in 0 .. N - 1, k \in T PROVE k + 1 \in T
    <3>1. k + 1 \in 0 .. N /\ k + 1 # 0 /\ (k + 1) - 1 = k
      BY <1>1
    <3> QED BY <1>6, <1>9, <2>2, <3>1
  <2> HIDE DEF T
  <2> QED BY <1>1, <2>1, <2>2, Induct
<1>11. reached[N] = R[N]
  <2>1. N \in 0 .. N
    BY <1>1
  <2> QED BY <1>10, <2>1
<1>12. Reaches(grammar, sidecar, R)
  BY <1>6 DEF Reaches, s, base, Step
<1> QED BY <1>3, <1>11, <1>12 DEF s, X

\* What the roots reach is closed: each step that is not the last adds a rule, and there
\* are no more rules than steps.
LEMMA ReachableIsClosed ==
  ASSUME NEW grammar, NEW sidecar, Sound(grammar, sidecar)
  PROVE  LET R == Reachable(grammar, sidecar)
         IN  R \subseteq Heads(grammar) /\ Grown(grammar, sidecar, R) = R
<1> DEFINE N == Len(grammar.rules)
           H == Heads(grammar)
           Step(S) == Grown(grammar, sidecar, S)
<1>1. PICK R \in [0 .. N -> SUBSET H] :
        Reaches(grammar, sidecar, R) /\ Reachable(grammar, sidecar) = R[N]
  BY ReachableIs
<1>2. N \in Nat
  BY DEF Sound
<1>3. IsFiniteSet(H) /\ Cardinality(H) \in Nat /\ Cardinality(H) <= N
  BY HeadsAreFew DEF Sound
<1>4. \A S \in SUBSET H : Step(S) \in SUBSET H /\ S \subseteq Step(S)
  BY GrownAre
<1>5. \A k \in 0 .. N - 1 : R[k + 1] = Step(R[k])
  BY <1>1 DEF Reaches
<1>6. Step({}) = {}
  BY DEF Grown
<1> HIDE DEF N, H, Step
<1>7. \A k \in 0 .. N : R[k] \in SUBSET H /\ IsFiniteSet(R[k]) /\ Cardinality(R[k]) \in Nat
  <2> TAKE k \in 0 .. N
  <2>1. R[k] \in SUBSET H
    OBVIOUS
  <2>2. IsFiniteSet(R[k])
    BY <1>3, <2>1, FS_Subset
  <2> QED BY <2>1, <2>2, FS_CardinalityType
<1> DEFINE T == {k \in 0 .. N : Step(R[k]) = R[k] \/ Cardinality(R[k]) >= k + 1}
<1>8. 0 \in T
  <2>1. 0 \in 0 .. N
    BY <1>2
  <2>2. CASE R[0] = {}
    BY <1>6, <2>1, <2>2
  <2>3. CASE R[0] # {}
    <3>1. Cardinality(R[0]) # 0
      BY <1>7, <2>1, <2>3, FS_EmptySet
    <3> QED BY <1>7, <2>1, <3>1
  <2> QED BY <2>2, <2>3
<1>9. ASSUME NEW k \in 0 .. N - 1, k \in T PROVE k + 1 \in T
  <2>1. k \in 0 .. N /\ k + 1 \in 0 .. N /\ k \in Nat
    BY <1>2
  <2>2. R[k + 1] = Step(R[k])
    BY <1>5
  <2>3. CASE Step(R[k]) = R[k]
    BY <2>1, <2>2, <2>3
  <2>4. CASE Step(R[k]) # R[k]
    <3> DEFINE a == R[k]
               b == R[k + 1]
    <3>1. a \subseteq b /\ a # b
      BY <1>4, <1>7, <2>1, <2>2, <2>4
    <3>2. IsFiniteSet(b) /\ Cardinality(a) \in Nat /\ Cardinality(b) \in Nat
      BY <1>7, <2>1
    <3>3. Cardinality(a) >= k + 1
      BY <1>9, <2>4
    <3> HIDE DEF a, b
    <3>4. Cardinality(a) <= Cardinality(b) /\ Cardinality(a) # Cardinality(b)
      BY <3>1, <3>2, FS_Subset
    <3>5. Cardinality(b) >= (k + 1) + 1
      BY <2>1, <3>2, <3>3, <3>4
    <3> QED BY <2>1, <3>5 DEF b
  <2> QED BY <2>3, <2>4
<1>10. N \in T
  <2>1. N \in 0 .. N
    BY <1>2
  <2>2. \A k \in 0 .. N - 1 : k \in T => k + 1 \in T
    BY <1>9
  <2> HIDE DEF T
  <2> QED BY <1>2, <1>8, <2>1, <2>2, Induct
<1>11. N \in 0 .. N
  BY <1>2
<1>12. Cardinality(R[N]) <= Cardinality(H)
  BY <1>3, <1>7, <1>11, FS_Subset
<1>13. Step(R[N]) = R[N]
  BY <1>2, <1>3, <1>7, <1>10, <1>11, <1>12
<1> QED BY <1>1, <1>7, <1>11, <1>13 DEF H, Step

\* It is the least set that is: whatever has the roots and all they lead to has it.
LEMMA ReachableIsLeast ==
  ASSUME NEW grammar, NEW sidecar, Sound(grammar, sidecar), NEW C,
         sidecar.roots \ sidecar.skipRules \subseteq C,
         \A lhs \in C : Names(grammar, lhs) \ sidecar.skipRules \subseteq C
  PROVE  sidecar.roots \ sidecar.skipRules \subseteq Reachable(grammar, sidecar)
         /\ Reachable(grammar, sidecar) \subseteq C
         /\ Reachable(grammar, sidecar) \cap sidecar.skipRules = {}
<1> DEFINE N == Len(grammar.rules)
           H == Heads(grammar)
           Step(S) == Grown(grammar, sidecar, S)
           base == sidecar.roots \ sidecar.skipRules
           skip == sidecar.skipRules
<1>1. PICK R \in [0 .. N -> SUBSET H] :
        Reaches(grammar, sidecar, R) /\ Reachable(grammar, sidecar) = R[N]
  BY ReachableIs
<1>2. N \in Nat
  BY DEF Sound
<1>3. R[0] = base /\ \A k \in 0 .. N - 1 : R[k + 1] = Step(R[k])
  BY <1>1 DEF Reaches
<1>4. \A S \in SUBSET H : S \subseteq Step(S)
  BY GrownAre
<1>5. ASSUME NEW S, S \subseteq C, S \cap skip = {} PROVE Step(S) \subseteq C /\ Step(S) \cap skip = {}
  <2>1. \A e \in Step(S) : e \in S \/ (e \notin skip /\ \E lhs \in S : e \in Names(grammar, lhs))
    BY DEF Grown
  <2> HIDE DEF Step
  <2> QED BY <1>5, <2>1
<1>6. base \subseteq C /\ base \cap skip = {}
  OBVIOUS
<1> HIDE DEF N, H, Step, base, skip
<1> DEFINE T == {k \in 0 .. N : base \subseteq R[k] /\ R[k] \subseteq C /\ R[k] \cap skip = {}}
<1>7. 0 \in T
  BY <1>2, <1>3, <1>6
<1>8. ASSUME NEW k \in 0 .. N - 1, k \in T PROVE k + 1 \in T
  <2>1. k \in 0 .. N /\ k + 1 \in 0 .. N
    BY <1>2
  <2>2. R[k + 1] = Step(R[k]) /\ R[k] \subseteq Step(R[k])
    BY <1>3, <1>4, <2>1
  <2>3. Step(R[k]) \subseteq C /\ Step(R[k]) \cap skip = {}
    BY <1>5, <1>8
  <2> QED BY <1>8, <2>1, <2>2, <2>3
<1>9. N \in T
  <2>1. N \in 0 .. N
    BY <1>2
  <2>2. \A k \in 0 .. N - 1 : k \in T => k + 1 \in T
    BY <1>8
  <2> HIDE DEF T
  <2> QED BY <1>2, <1>7, <2>1, <2>2, Induct
<1> QED BY <1>1, <1>9 DEF base, skip

-----------------------------------------------------------------------------
(***************************************************************************)
(* What is emitted.                                                        *)
(***************************************************************************)
\* An alternative that is emitted is that of nothing, or one of the rule's that is kept,
\* rendered; where it has no action the rule is on the list.
EmittedAs(a, rule, sidecar, unmapped) ==
  /\ a.symbols = <<>> \/ \E x \in ToSet(rule.alternatives) :
                           Kept(x, sidecar) /\ a.symbols = Rendered(sidecar, x.symbols)
  /\ a.body = Placeholder => \E gap \in unmapped : gap[1] = rule.lhs

LEMMA EmitRuleIs ==
  ASSUME NEW rule, rule \in RuleT, NEW sidecar
  PROVE  LET o == EmitRule(rule, sidecar)
         IN  /\ o.lhs = rule.lhs
             /\ \A n \in DOMAIN o.alternatives : EmittedAs(o.alternatives[n], rule, sidecar, o.unmapped)
<1> DEFINE K == KeptAlternatives(rule, sidecar)
           o == EmitRule(rule, sidecar)
           A == o.alternatives
<1>1. o.lhs = rule.lhs
  BY DEF EmitRule
<1>2. CASE K = <<>>
  <2>1. A = <<[symbols |-> <<>>, prec |-> NoPrec, body |-> Placeholder]>>
        /\ o.unmapped = {<<rule.lhs, AllSkipped>>}
    BY <1>2 DEF EmitRule
  <2> HIDE DEF o
  <2>2. \A n \in DOMAIN A : A[n].symbols = <<>>
    BY <2>1
  <2>3. <<rule.lhs, AllSkipped>> \in o.unmapped /\ <<rule.lhs, AllSkipped>>[1] = rule.lhs
    BY <2>1
  <2> QED BY <1>1, <2>2, <2>3 DEF EmittedAs, o
<1>3. CASE K # <<>>
  <2>1. A = [n \in DOMAIN K |->
               [symbols |-> Rendered(sidecar, K[n].symbols),
                prec |-> IF K[n].prec = NoPrec THEN NoPrec ELSE Renamed(sidecar, K[n].prec),
                body |-> Action(sidecar, rule.lhs, K[n])]]
    BY <1>3, Zenon DEF EmitRule
  <2>2. o.unmapped = {<<rule.lhs, K[n].symbols>> :
                        n \in {m \in DOMAIN K : Action(sidecar, rule.lhs, K[m]) = Placeholder}}
    BY <1>3, Zenon DEF EmitRule
  <2>3. \A n \in DOMAIN K : K[n] \in ToSet(rule.alternatives) /\ Kept(K[n], sidecar)
    <3> TAKE n \in DOMAIN K
    <3>1. Has(K, K[n])
      BY DEF Has
    <3>2. Has(rule.alternatives, K[n]) /\ Kept(K[n], sidecar)
      <4> DEFINE a == K[n]
      <4> HIDE DEF a
      <4>1. Has(K, a) => Has(rule.alternatives, a) /\ Kept(a, sidecar)
        BY KeptAlternativesAre
      <4> QED BY <3>1, <4>1 DEF a
    <3> QED BY <3>2 DEF Has, ToSet
  <2> HIDE DEF o, K
  <2> SUFFICES ASSUME NEW n \in DOMAIN A PROVE EmittedAs(A[n], rule, sidecar, o.unmapped)
    BY <1>1 DEF o
  <2>4. n \in DOMAIN K /\ A[n].symbols = Rendered(sidecar, K[n].symbols)
        /\ A[n].body = Action(sidecar, rule.lhs, K[n])
    BY <2>1
  <2>5. A[n].body = Placeholder => <<rule.lhs, K[n].symbols>> \in o.unmapped
    BY <2>2, <2>4
  <2>6. <<rule.lhs, K[n].symbols>>[1] = rule.lhs
    OBVIOUS
  <2> QED BY <2>3, <2>4, <2>5, <2>6, Zenon DEF EmittedAs
<1> QED BY <1>2, <1>3

\* The rules that are emitted are those that are kept, each with what is emitted for it.
LEMMA EmitIs ==
  ASSUME NEW grammar, grammar.rules \in Seq(RuleT), NEW sidecar
  PROVE  LET E == Emit(grammar, sidecar)
             L == KeptLefts(grammar, sidecar)
         IN  /\ Heads(E) = Heads(grammar) \cap L /\ E.skipped = Heads(grammar) \ L
             /\ \A lhs \in Heads(E) : \A a \in AlternativesOf(E, lhs) :
                  \E n \in DOMAIN grammar.rules :
                    grammar.rules[n].lhs = lhs /\ EmittedAs(a, grammar.rules[n], sidecar, E.unmapped)
<1> DEFINE L == KeptLefts(grammar, sidecar)
           K == KeptRules(grammar, L)
           e == [n \in DOMAIN K |-> EmitRule(K[n], sidecar)]
           E == Emit(grammar, sidecar)
           W == E.rules
<1>1. /\ W = [n \in DOMAIN e |-> [lhs |-> e[n].lhs, alternatives |-> e[n].alternatives]]
      /\ E.skipped = {grammar.rules[n].lhs : n \in DOMAIN grammar.rules} \ L
      /\ E.unmapped = UNION {e[n].unmapped : n \in DOMAIN e}
  BY Zenon DEF Emit
<1>2. E.skipped = Heads(grammar) \ L
  BY <1>1 DEF Heads
<1>3. K \in Seq(RuleT) /\ \A r : Has(K, r) <=> Has(grammar.rules, r) /\ r.lhs \in L
  <2> HIDE DEF L
  <2> QED BY KeptRulesAre
<1>4. e = [n \in DOMAIN K |-> EmitRule(K[n], sidecar)]
  OBVIOUS
<1> HIDE DEF E, e, K, L
<1>5. ASSUME NEW n \in DOMAIN K
      PROVE  /\ n \in DOMAIN W /\ W[n].lhs = K[n].lhs
             /\ \A a \in ToSet(W[n].alternatives) : EmittedAs(a, K[n], sidecar, E.unmapped)
             /\ K[n].lhs \in L /\ \E m \in DOMAIN grammar.rules : grammar.rules[m] = K[n]
  <2> DEFINE r == K[n]
             o == EmitRule(r, sidecar)
  <2>1. r \in RuleT
    BY <1>3
  <2>2. e[n] = o /\ n \in DOMAIN e
    BY <1>4
  <2>3. Has(K, r)
    BY DEF Has
  <2> HIDE DEF r
  <2>4. o.lhs = r.lhs /\ \A k \in DOMAIN o.alternatives : EmittedAs(o.alternatives[k], r, sidecar, o.unmapped)
    BY <2>1, EmitRuleIs
  <2>5. r.lhs \in L /\ \E m \in DOMAIN grammar.rules : grammar.rules[m] = r
    BY <1>3, <2>3 DEF Has
  <2> HIDE DEF o
  <2>6. o.unmapped \subseteq E.unmapped
    BY <1>1, <2>2
  <2>7. n \in DOMAIN W /\ W[n].lhs = o.lhs /\ W[n].alternatives = o.alternatives
    BY <1>1, <2>2
  <2>8. ASSUME NEW a \in ToSet(o.alternatives) PROVE EmittedAs(a, r, sidecar, E.unmapped)
    <3>1. PICK k \in DOMAIN o.alternatives : a = o.alternatives[k]
      BY DEF ToSet
    <3>2. EmittedAs(a, r, sidecar, o.unmapped)
      BY <2>4, <3>1
    <3> QED BY <2>6, <3>2 DEF EmittedAs
  <2> QED BY <2>4, <2>5, <2>7, <2>8 DEF r
<1>6. DOMAIN W = DOMAIN K
  BY <1>1, <1>4
<1>7. Heads(E) = Heads(grammar) \cap L
  <2>1. ASSUME NEW h \in Heads(E) PROVE h \in Heads(grammar) /\ h \in L
    BY <1>5, <1>6 DEF Heads
  <2>2. ASSUME NEW h \in Heads(grammar), h \in L PROVE h \in Heads(E)
    <3>1. PICK m \in DOMAIN grammar.rules : grammar.rules[m].lhs = h
      BY DEF Heads
    <3> DEFINE r == grammar.rules[m]
    <3>2. Has(grammar.rules, r) /\ r.lhs = h
      BY <3>1 DEF Has
    <3> HIDE DEF r
    <3>3. PICK n \in DOMAIN K : K[n] = r
      BY <1>3, <2>2, <3>2 DEF Has
    <3> QED BY <1>5, <3>2, <3>3 DEF Heads
  <2> QED BY <2>1, <2>2
<1>8. ASSUME NEW lhs \in Heads(E), NEW a \in AlternativesOf(E, lhs)
      PROVE  \E n \in DOMAIN grammar.rules :
               grammar.rules[n].lhs = lhs /\ EmittedAs(a, grammar.rules[n], sidecar, E.unmapped)
  <2>1. PICK n \in DOMAIN W : W[n].lhs = lhs /\ a \in ToSet(W[n].alternatives)
    BY DEF AlternativesOf
  <2>2. EmittedAs(a, K[n], sidecar, E.unmapped) /\ K[n].lhs = lhs
    BY <1>5, <1>6, <2>1
  <2>3. PICK m \in DOMAIN grammar.rules : grammar.rules[m] = K[n]
    BY <1>5, <1>6, <2>1
  <2> QED BY <2>2, <2>3
<1> QED BY <1>2, <1>7, <1>8 DEF E, L

-----------------------------------------------------------------------------
(***************************************************************************)
(* What is generated is closed.                                            *)
(***************************************************************************)
\* What is emitted, it was emitted of the grammar that was read, of rules, from a text.
GeneratedOK ==
  generated # <<>> =>
    /\ Upper.rules \in Seq(RuleT) /\ Lower = Emit(Upper, Sidecar)
    /\ Tokens(Source) /\ Parse(Source) # <<>> /\ Upper = Parse(Source)[1]

\* The names of an alternative that is rendered are tokens or its own rules.
LEMMA RenderedNames ==
  ASSUME NEW sidecar, \A token \in DOMAIN sidecar.renames : sidecar.renames[token] \in Terminals,
         NEW symbols
  PROVE  ToSet(Rendered(sidecar, symbols)) \ Terminals \subseteq ToSet(symbols) \ Terminals
<1> DEFINE w == Rendered(sidecar, symbols)
<1>1. w = [n \in DOMAIN symbols |->
             IF symbols[n] \in Terminals THEN Renamed(sidecar, symbols[n]) ELSE symbols[n]]
  BY DEF Rendered
<1> HIDE DEF w
<1>2. ASSUME NEW n \in DOMAIN symbols, w[n] \notin Terminals
      PROVE  w[n] = symbols[n] /\ symbols[n] \notin Terminals
  <2>1. symbols[n] \in Terminals => Renamed(sidecar, symbols[n]) \in Terminals
    BY DEF Renamed
  <2> QED BY <1>1, <1>2, <2>1
<1>3. DOMAIN w = DOMAIN symbols
  BY <1>1
<1> QED BY <1>2, <1>3 DEF ToSet, w

LEMMA WhatIsEmittedIsClosed ==
  ASSUME NEW grammar, NEW sidecar, Sound(grammar, sidecar),
         \A token \in DOMAIN sidecar.renames : sidecar.renames[token] \in Terminals
  PROVE  LET E == Emit(grammar, sidecar)
         IN  /\ Heads(E) \cap E.skipped = {} /\ Heads(E) \cup E.skipped = Heads(grammar)
             /\ Heads(E) = Reachable(grammar, sidecar)
             /\ \A lhs \in Heads(E) : \A a \in AlternativesOf(E, lhs) :
                  /\ ToSet(a.symbols) \ Terminals \subseteq Heads(E)
                  /\ a.body = Placeholder => \E gap \in E.unmapped : gap[1] = lhs
<1> DEFINE E == Emit(grammar, sidecar)
           R == Reachable(grammar, sidecar)
           L == KeptLefts(grammar, sidecar)
           H == Heads(grammar)
           skip == sidecar.skipRules
           s == grammar.rules
<1>1. s \in Seq(RuleT) /\ WellFormed(grammar) /\ sidecar.roots \subseteq H
  BY DEF Sound
<1>2. R \subseteq H /\ Grown(grammar, sidecar, R) = R
  BY ReachableIsClosed
<1>3. \A lhs \in R : Names(grammar, lhs) \ skip \subseteq R
  BY <1>2 DEF Grown
<1>4. sidecar.roots \ skip \subseteq H /\ \A lhs \in H : Names(grammar, lhs) \ skip \subseteq H
  <2> SUFFICES ASSUME NEW lhs \in H PROVE Names(grammar, lhs) \subseteq H
    BY <1>1
  <2>1. PICK n \in DOMAIN s : s[n].lhs = lhs
    BY DEF Heads
  <2> QED BY <1>1, <2>1, NamesAre
<1>5. R \cap skip = {}
  BY <1>4, ReachableIsLeast
<1>6. L = R
  BY <1>5 DEF KeptLefts
<1>7. /\ Heads(E) = H \cap L /\ E.skipped = H \ L
      /\ \A lhs \in Heads(E) : \A a \in AlternativesOf(E, lhs) :
           \E n \in DOMAIN s : s[n].lhs = lhs /\ EmittedAs(a, s[n], sidecar, E.unmapped)
  BY <1>1, EmitIs
<1> HIDE DEF E, R, L, H, s
<1>8. ASSUME NEW lhs \in Heads(E), NEW a \in AlternativesOf(E, lhs)
      PROVE  /\ ToSet(a.symbols) \ Terminals \subseteq Heads(E)
             /\ a.body = Placeholder => \E gap \in E.unmapped : gap[1] = lhs
  <2>1. PICK n \in DOMAIN s : s[n].lhs = lhs /\ EmittedAs(a, s[n], sidecar, E.unmapped)
    BY <1>7
  <2>2. a.body = Placeholder => \E gap \in E.unmapped : gap[1] = lhs
    BY <2>1 DEF EmittedAs
  <2>3. CASE a.symbols = <<>>
    BY <2>2, <2>3 DEF ToSet
  <2>4. CASE a.symbols # <<>>
    <3>1. PICK x \in ToSet(s[n].alternatives) :
            Kept(x, sidecar) /\ a.symbols = Rendered(sidecar, x.symbols)
      BY <2>1, <2>4 DEF EmittedAs
    <3>2. ToSet(a.symbols) \ Terminals \subseteq ToSet(x.symbols) \ Terminals
      BY <3>1, RenderedNames
    <3>3. ToSet(x.symbols) \cap (skip \cup {"error"}) = {}
      BY <3>1 DEF Kept
    <3>4. Names(grammar, lhs)
            = (UNION {ToSet(s[n].alternatives[k].symbols) : k \in DOMAIN s[n].alternatives})
                \ (Terminals \cup {"error"})
      BY <1>1, <2>1, NamesAre DEF s
    <3>5. PICK k \in DOMAIN s[n].alternatives : s[n].alternatives[k] = x
      BY DEF ToSet
    <3>6. ToSet(x.symbols) \ Terminals \subseteq Names(grammar, lhs) \ skip
      BY <3>3, <3>4, <3>5
    <3>7. lhs \in R
      BY <1>6, <1>7
    <3>8. Heads(E) = R
      BY <1>2, <1>6, <1>7
    <3> QED BY <1>3, <2>2, <3>2, <3>6, <3>7, <3>8
  <2> QED BY <2>3, <2>4
<1>9. Heads(E) \cap E.skipped = {} /\ Heads(E) \cup E.skipped = H /\ Heads(E) = R
  BY <1>2, <1>6, <1>7
<1> QED BY <1>8, <1>9 DEF E, R, H

LEMMA ClosedHolds ==
  ASSUME IsSetup(setup), GeneratedOK
  PROVE  GeneratedIsClosed
<1> DEFINE skip == Sidecar.skipRules
<1>1. SUFFICES ASSUME generated # <<>>, WellFormed(Upper), Sidecar.roots \subseteq Heads(Upper)
               PROVE  GeneratedIsClosed
  BY DEF GeneratedIsClosed
<1>2. Sound(Upper, Sidecar) /\ Lower = Emit(Upper, Sidecar)
  BY <1>1 DEF Sound, GeneratedOK
<1>3. \A token \in DOMAIN Sidecar.renames : Sidecar.renames[token] \in Terminals
  BY DEF IsSetup, Sidecar
<1>4. PICK G, S : G = Upper /\ S = Sidecar
  OBVIOUS
<1>5. Sound(G, S) /\ \A token \in DOMAIN S.renames : S.renames[token] \in Terminals
  BY <1>2, <1>3, <1>4
<1>6. PICK E : E = Emit(G, S)
  OBVIOUS
<1>7. /\ Heads(E) \cap E.skipped = {} /\ Heads(E) \cup E.skipped = Heads(G)
      /\ Heads(E) = Reachable(G, S)
      /\ \A lhs \in Heads(E) : \A a \in AlternativesOf(E, lhs) :
           /\ ToSet(a.symbols) \ Terminals \subseteq Heads(E)
           /\ a.body = Placeholder => \E gap \in E.unmapped : gap[1] = lhs
  BY <1>5, <1>6, WhatIsEmittedIsClosed
<1>8. ASSUME NEW closed \in SUBSET Heads(E), S.roots \ S.skipRules \subseteq closed,
             \A lhs \in closed : \A a \in AlternativesOf(G, lhs) :
               ToSet(a.symbols) \ (Terminals \cup {"error"} \cup S.skipRules) \subseteq closed
      PROVE  closed = Heads(E)
  <2>1. ASSUME NEW lhs \in closed PROVE Names(G, lhs) \ S.skipRules \subseteq closed
    <3>1. PICK n \in DOMAIN G.rules : G.rules[n].lhs = lhs
      BY <1>7 DEF Heads
    <3>2. Names(G, lhs)
            = (UNION {ToSet(G.rules[n].alternatives[k].symbols) : k \in DOMAIN G.rules[n].alternatives})
                \ (Terminals \cup {"error"})
      BY <1>5, <3>1, NamesAre DEF Sound
    <3>3. ASSUME NEW k \in DOMAIN G.rules[n].alternatives
          PROVE  G.rules[n].alternatives[k] \in AlternativesOf(G, lhs)
      BY <3>1 DEF AlternativesOf, ToSet
    <3> QED BY <1>8, <3>2, <3>3
  <2>2. Reachable(G, S) \subseteq closed
    BY <1>5, <1>8, <2>1, ReachableIsLeast
  <2> QED BY <1>7, <2>2
<1>9. Lower = E /\ Upper = G /\ Sidecar = S
  BY <1>2, <1>4, <1>6
<1> QED BY <1>7, <1>8, <1>9, Zenon DEF GeneratedIsClosed

-----------------------------------------------------------------------------
(***************************************************************************)
(* Every copy is a text, and what is emitted is of a grammar that was read *)
(* from one.                                                               *)
(***************************************************************************)
CopiesOK == \A set \in Sets : \A f \in DOMAIN disk[set] : Tokens(disk[set][f])

GInv == CopiesOK /\ GeneratedOK

\* Upstream's files are texts, and so is what an edit or a cut leaves.
LEMMA TextsAre ==
  ASSUME IsSetup(setup)
  PROVE  /\ \A set \in Sets : \A r \in DOMAIN setup.revisions : \A f \in ToSet(Files(set)) :
              Tokens(Upstream(r, set)[f])
         /\ Tokens(Edited) /\ Tokens(Cut)
<1>1. \A s \in Seq(STRING \ {NoPrec}) : Tokens(s)
  <2> DEFINE S == STRING \ {NoPrec}
             W == Words
  <2>1. S \subseteq W /\ NoPrec \notin S
    BY DEF Words
  <2> HIDE DEF S, W
  <2>2. \A s \in Seq(S) : s \in Seq(W)
    BY <2>1
  <2>3. \A s \in Seq(S) : \A n \in 1 .. Len(s) : s[n] \in S
    OBVIOUS
  <2>4. \A s \in Seq(S) : \A n \in 1 .. Len(s) : s[n] # NoPrec
    BY <2>1, <2>3
  <2> QED BY <2>2, <2>4 DEF Tokens, S, W
<1>2. ASSUME NEW set \in Sets, NEW r \in DOMAIN setup.revisions, NEW f \in ToSet(Files(set))
      PROVE  Tokens(Upstream(r, set)[f])
  <2>1. setup.revisions[r][set] \in [ToSet(setup.files[set]) -> Seq(STRING \ {NoPrec})]
    BY DEF IsSetup
  <2>2. Upstream(r, set)[f] \in Seq(STRING \ {NoPrec})
    <3> DEFINE Z == Seq(STRING \ {NoPrec})
    <3> HIDE DEF Z
    <3>1. setup.revisions[r][set] \in [ToSet(setup.files[set]) -> Z]
      BY <2>1 DEF Z
    <3>2. Upstream(r, set)[f] \in Z
      BY <3>1 DEF Upstream, Files
    <3> QED BY <3>2 DEF Z
  <2> QED BY <1>1, <2>2
<1>3. Tokens(Edited) /\ Tokens(Cut)
  <2>1. "edited" \in Words /\ "edited" # NoPrec
    BY DEF Words, NoPrec
  <2>2. <<"edited">> \in Seq(Words) /\ Len(<<"edited">>) = 1 /\ <<"edited">>[1] = "edited"
        /\ <<>> \in Seq(Words) /\ Len(<<>>) = 0
    BY <2>1
  <2> QED BY <2>1, <2>2 DEF Edited, Cut, Tokens
<1> QED BY <1>2, <1>3

LEMMA InitGInv == Init => GInv
<1> SUFFICES ASSUME Init PROVE GInv
  OBVIOUS
<1>1. IsSetup(setup)
  BY SetupsAssumption DEF Init
<1>2. 1 \in DOMAIN setup.revisions /\ disk = setup.revisions[1]
  BY <1>1 DEF Init, IsSetup
<1>3. ASSUME NEW set \in Sets, NEW f \in DOMAIN disk[set] PROVE Tokens(disk[set][f])
  <2>1. disk[set] = Upstream(1, set) /\ DOMAIN Upstream(1, set) = ToSet(Files(set))
    BY <1>1, <1>2, Setting DEF Upstream
  <2> QED BY <1>1, <1>2, <2>1, TextsAre
<1>4. GeneratedOK
  BY DEF Init, GeneratedOK
<1> QED BY <1>3, <1>4 DEF GInv, CopiesOK

\* A text written leaves texts.
LEMMA WritingAText ==
  ASSUME ShapesOK, CopiesOK, NEW set \in Sets, NEW file, NEW contents, Tokens(contents),
         disk' = [disk EXCEPT ![set] = Written(@, file, contents)]
  PROVE  CopiesOK'
<1>1. /\ \A s \in Sets \ {set} : disk'[s] = disk[s]
      /\ DOMAIN disk'[set] = DOMAIN disk[set] \cup {file}
      /\ \A f \in DOMAIN disk[set] \ {file} : disk'[set][f] = disk[set][f]
      /\ disk'[set][file] = contents
  <2>1. DOMAIN disk = Sets
    BY DEF ShapesOK
  <2>2. disk'[set] = Written(disk[set], file, contents) /\ \A s \in Sets \ {set} : disk'[s] = disk[s]
    BY <2>1
  <2> QED BY <2>2 DEF Written
<1>2. Tokens(contents) /\ \A s \in Sets : \A f \in DOMAIN disk[s] : Tokens(disk[s][f])
  BY DEF CopiesOK
<1>3. ASSUME NEW s \in Sets, NEW f \in DOMAIN disk'[s] PROVE Tokens(disk'[s][f])
  <2>1. CASE s # set
    BY <1>1, <1>2, <2>1
  <2>2. CASE s = set
    BY <1>1, <1>2, <2>2
  <2> QED BY <2>1, <2>2
<1> QED BY <1>3 DEF CopiesOK

\* Where nothing is generated, only the copies count.
LEMMA GeneratedStays ==
  ASSUME GeneratedOK, UNCHANGED <<setup, generated>>
  PROVE  GeneratedOK'
BY DEF GeneratedOK, Source, Upper, Lower, Sidecar

LEMMA FetchGInv ==
  ASSUME IInv, GInv, Fetch
  PROVE  GInv'
<1>1. ~Idle /\ Pull.step = "fetch" /\ UNCHANGED <<setup, generated>>
  BY DEF Fetch, At, kept, counts
<1>2. PICK set \in Sets : \E p \in PullOf(set) : pull = <<p>> /\ Pull = p /\ p.set = set /\ FetchedOK(p)
  BY <1>1, Running
<1>3. PICK p \in PullOf(set) : Pull = p /\ p.set = set /\ FetchedOK(p)
  BY <1>2
<1>4. p.target \in DOMAIN setup.revisions /\ Len(p.fetched) \in Nat
  BY DEF PullOf
<1>5. NextFile \in ToSet(Files(set))
  <2>1. Len(p.fetched) < Len(Files(set))
    BY <1>1, <1>3 DEF FetchedOK
  <2>2. Len(p.fetched) + 1 \in 1 .. Len(Files(set))
    BY <1>4, <2>1, SomeFile DEF IInv
  <2> QED BY <1>3, <2>2, SomeFile DEF NextFile, IInv
<1>6. PICK file, contents : file = NextFile /\ contents = Upstream(p.target, set)[file]
  OBVIOUS
<1>7. Tokens(contents)
  BY <1>4, <1>5, <1>6, TextsAre DEF IInv
<1>8. CopiesOK'
  <2>1. CASE Pull.dry
    <3>1. disk' = disk
      BY <2>1 DEF Fetch
    <3> QED BY <3>1 DEF GInv, CopiesOK
  <2>2. CASE ~Pull.dry
    <3>1. disk' = [disk EXCEPT ![set] = Written(@, file, contents)]
      BY <1>3, <1>6, <2>2 DEF Fetch, WithFile
    <3> QED BY <1>7, <3>1, WritingAText DEF IInv, GInv
  <2> QED BY <2>1, <2>2
<1> QED BY <1>1, <1>8, GeneratedStays DEF GInv

LEMMA CutWriteGInv ==
  ASSUME IInv, GInv, CutWrite
  PROVE  GInv'
<1>1. ~Idle /\ UNCHANGED <<setup, generated>>
  BY DEF CutWrite, Stopped
<1>2. PICK set \in Sets : Pull.set = set
  BY <1>1, Running
<1>3. CopiesOK'
  <2>1. CASE Pull.step = "fetch"
    <3>1. disk' = [disk EXCEPT ![set] = Written(@, NextFile, Cut)]
      BY <1>2, <2>1 DEF CutWrite, WithFile
    <3>2. PICK file, contents : file = NextFile /\ contents = Cut
      OBVIOUS
    <3>3. disk' = [disk EXCEPT ![set] = Written(@, file, contents)]
      BY <3>1, <3>2
    <3>4. Tokens(contents)
      BY <3>2, TextsAre DEF IInv
    <3> QED BY <3>3, <3>4, WritingAText DEF IInv, GInv
  <2>2. CASE Pull.step # "fetch"
    <3>1. disk' = disk
      BY <2>2 DEF CutWrite
    <3> QED BY <3>1 DEF GInv, CopiesOK
  <2> QED BY <2>1, <2>2
<1> QED BY <1>1, <1>3, GeneratedStays DEF GInv

LEMMA EditGInv ==
  ASSUME IInv, GInv, NEW set \in Sets, Edit(set)
  PROVE  GInv'
<1>1. UNCHANGED <<setup, generated>>
  BY DEF Edit, kept
<1>2. ASSUME NEW file, NEW contents, Tokens(contents),
             disk' = [disk EXCEPT ![set] = Written(@, file, contents)]
      PROVE  CopiesOK'
  BY <1>2, WritingAText DEF IInv, GInv
<1>3. ASSUME NEW f \in DOMAIN disk[set], disk' = [disk EXCEPT ![set] = [g \in DOMAIN @ \ {f} |-> @[g]]]
      PROVE  CopiesOK'
  <2>1. DOMAIN disk = Sets
    BY DEF IInv, ShapesOK
  <2>2. disk'[set] = [g \in DOMAIN disk[set] \ {f} |-> disk[set][g]] /\ \A s \in Sets \ {set} : disk'[s] = disk[s]
    BY <1>3, <2>1
  <2>3. \A s \in Sets : \A g \in DOMAIN disk[s] : Tokens(disk[s][g])
    BY DEF GInv, CopiesOK
  <2>4. \A s \in Sets : \A g \in DOMAIN disk'[s] : Tokens(disk'[s][g])
    BY <2>2, <2>3
  <2> QED BY <2>4 DEF CopiesOK
<1>4. ASSUME NEW f \in ToSet(Files(set)), NEW r \in DOMAIN setup.revisions,
             NEW contents \in {Edited, Upstream(r, set)[f]}
      PROVE  Tokens(contents)
  BY TextsAre DEF IInv
<1>5. Tokens(Edited)
  BY TextsAre DEF IInv
<1>6. CopiesOK'
  BY <1>2, <1>3, <1>4, <1>5 DEF Edit
<1> QED BY <1>1, <1>6, GeneratedStays DEF GInv

LEMMA GenerateGInv ==
  ASSUME IInv, GInv, NEW dry \in BOOLEAN, Generate(dry)
  PROVE  GInv'
<1>1. UNCHANGED <<setup, disk>>
  BY DEF Generate, counts
<1>2. CopiesOK'
  BY <1>1 DEF GInv, CopiesOK
<1> DEFINE source == disk[GrammarSet][GrammarFile]
           grammar == Parse(source)
<1>3. CASE generated' = generated
  BY <1>1, <1>2, <1>3, GeneratedStays DEF GInv
<1>4. CASE generated' # generated
  <2>1. /\ GrammarFile \in DOMAIN disk[GrammarSet] /\ grammar # <<>>
        /\ generated' = <<[source |-> source, grammar |-> grammar[1],
                           emitted |-> Emit(grammar[1], setup.sidecar)]>>
    BY <1>4 DEF Generate
  <2>2. Tokens(source) /\ source \in Seq(Words)
    BY <2>1, GrammarSetAssumption DEF GInv, CopiesOK, Tokens
  <2> HIDE DEF source
  <2>3. grammar[1].rules \in Seq(RuleT)
    BY <2>1, <2>2, ParseType
  <2>6. Tokens(source) /\ Parse(source) # <<>> /\ grammar[1] = Parse(source)[1]
    BY <2>1, <2>2
  <2> HIDE DEF grammar
  <2>4. Source' = source /\ Upper' = grammar[1] /\ Lower' = Emit(grammar[1], setup.sidecar) /\ Sidecar' = setup.sidecar
    BY <1>1, <2>1 DEF Source, Upper, Lower, Sidecar
  <2>5. GeneratedOK'
    BY <2>3, <2>4, <2>6 DEF GeneratedOK
  <2> QED BY <1>2, <2>5 DEF GInv
<1> QED BY <1>3, <1>4

LEMMA NextGInv == IInv /\ GInv /\ [Next]_vars => GInv'
<1> SUFFICES ASSUME IInv, GInv, [Next]_vars PROVE GInv'
  OBVIOUS
<1>1. ASSUME UNCHANGED <<setup, disk, generated>> PROVE GInv'
  <2>1. CopiesOK'
    BY <1>1 DEF GInv, CopiesOK
  <2> QED BY <1>1, <2>1, GeneratedStays DEF GInv
<1>2. ASSUME NEW sets \in {Sets} \cup {{set} : set \in Sets}, Check(sets) PROVE GInv'
  BY <1>1, <1>2 DEF Check, kept, counts
<1>3. ASSUME NEW set \in Sets, NEW target \in DOMAIN setup.revisions, NEW dry \in BOOLEAN,
             StartPull(set, target, dry)
      PROVE  GInv'
  BY <1>1, <1>3 DEF StartPull, kept
<1>4. CASE PullSteps
  <2>1. CASE WriteReport \/ SaveManifest \/ UpdateSyncMeta
    BY <1>1, <2>1 DEF WriteReport, SaveManifest, UpdateSyncMeta, kept, counts
  <2>2. CASE RefuseSyncMeta \/ Fail
    BY <1>1, <2>2 DEF RefuseSyncMeta, Fail, Stopped
  <2> QED BY <1>4, <2>1, <2>2, FetchGInv, CutWriteGInv DEF PullSteps
<1>5. ASSUME NEW dry \in BOOLEAN, Generate(dry) PROVE GInv'
  BY <1>5, GenerateGInv
<1>6. ASSUME NEW set \in Sets, Edit(set) PROVE GInv'
  BY <1>6, EditGInv
<1>7. CASE UNCHANGED vars
  BY <1>1, <1>7 DEF vars, kept, counts
<1> QED BY <1>2, <1>3, <1>4, <1>5, <1>6, <1>7 DEF Next

\* The grammar that is generated needs nothing that is not there, whatever upstream's
\* grammar and the sidecar: it has just the rules the roots reach, none that is skipped is
\* named, and what has no action is listed (reachable_rules, emit).
THEOREM WhatIsGeneratedIsClosed == Spec => []GeneratedIsClosed
<1>1. Init => GInv
  BY InitGInv
<1>2. IInv /\ GInv /\ [Next]_vars => GInv'
  BY NextGInv
<1>3. IInv /\ GInv => GeneratedIsClosed
  BY ClosedHolds DEF IInv, GInv
<1> QED BY <1>1, <1>2, <1>3, IInvariance, PTL DEF Spec

\* A grammar file is read whole, whatever is in it: written down again, the rules that
\* are read are the tokens between the first %% on no directive's line and the next, each
\* in its alternative and its rule, %prec with its token (parse_rules, parse_alternative).
THEOREM ReadingLosesNothing == Spec => []NothingIsLost
<1>1. Init => GInv
  BY InitGInv
<1>2. IInv /\ GInv /\ [Next]_vars => GInv'
  BY NextGInv
<1>3. GInv => NothingIsLost
  <2> SUFFICES ASSUME GeneratedOK, generated # <<>>, PrecAtEnd(Source)
               PROVE  WrittenRules(Upper) = RuleTokens(Source)
    BY DEF GInv, NothingIsLost
  <2>1. PICK source : source = Source
    OBVIOUS
  <2>2. Tokens(source) /\ Parse(source) # <<>> /\ Upper = Parse(source)[1] /\ PrecAtEnd(source)
    BY <2>1 DEF GeneratedOK
  <2> QED BY <2>1, <2>2, ParseLosesNothing
<1> QED BY <1>1, <1>2, <1>3, IInvariance, PTL DEF Spec
=============================================================================
