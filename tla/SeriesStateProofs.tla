------------------------- MODULE SeriesStateProofs -------------------------
(***************************************************************************)
(* The two owners of a series, for every series, grid, kernel and budget.  *)
(***************************************************************************)
EXTENDS SeriesState, SequenceFacts

-----------------------------------------------------------------------------
(***************************************************************************)
(* Helpers.                                                                *)
(***************************************************************************)
\* Some of the numbers from one to another, and how many they are at most.
LEMMA CountWithin ==
  ASSUME NEW a \in Nat, NEW b \in Nat, a <= b, NEW T \in SUBSET (a + 1 .. b)
  PROVE  IsFiniteSet(T) /\ Cardinality(T) \in 0 .. b - a
<1>1. IsFiniteSet(a + 1 .. b) /\ Cardinality(a + 1 .. b) = b - a
  <2>1. a + 1 \in Int /\ b \in Int
    OBVIOUS
  <2>2. /\ IsFiniteSet(a + 1 .. b)
        /\ Cardinality(a + 1 .. b) = IF a + 1 > b THEN 0 ELSE b - (a + 1) + 1
    BY <2>1, FS_Interval
  <2> QED BY <2>2
<1>2. IsFiniteSet(T) /\ Cardinality(T) <= Cardinality(a + 1 .. b)
  BY <1>1, FS_Subset
<1>3. Cardinality(T) \in Nat
  BY <1>2, FS_CardinalityType
<1> QED BY <1>1, <1>2, <1>3

\* A partition point is from where it is looked for to the end.
LEMMA ThroughIn ==
  ASSUME NEW s, NEW from, NEW time, s \in Seq(Sample), from \in 0 .. Len(s)
  PROVE  Through(s, from, time) \in from .. Len(s)
<1> DEFINE T == {k \in from + 1 .. Len(s) : s[k].t <= time}
<1>1. from \in Nat /\ Len(s) \in Nat /\ from <= Len(s) /\ T \in SUBSET (from + 1 .. Len(s))
  OBVIOUS
<1>2. Through(s, from, time) = from + Cardinality(T)
  BY DEF Through
<1> HIDE DEF T
<1>3. Cardinality(T) \in 0 .. Len(s) - from
  BY <1>1, CountWithin
<1> QED BY <1>1, <1>2, <1>3

\* The members at some positions of a sequence are a sequence of its elements.
LEMMA AtTyped ==
  ASSUME NEW X, NEW s, s \in Seq(X), NEW ks \in SUBSET DOMAIN s
  PROVE  At(s, ks) \in Seq(X) /\ Len(At(s, ks)) = Cardinality(ks)
<1>1. Len(s) \in Nat /\ DOMAIN s = 1 .. Len(s) /\ \A k \in 1 .. Len(s) : s[k] \in X
  OBVIOUS
<1>2. ks \in SUBSET (0 .. (Len(s) + 1) - 1) /\ Len(s) + 1 \in Nat
  BY <1>1
<1>3. /\ Cardinality(ks) \in Nat
      /\ \A n \in 1 .. Cardinality(ks) : \E k \in ks : Cardinality({j \in ks : j < k}) = n - 1
  <2> DEFINE n == Len(s) + 1
  <2>1. n \in Nat /\ ks \in SUBSET (0 .. n - 1)
    BY <1>2
  <2> HIDE DEF n
  <2> QED BY <2>1, RankedNumbers
<1> DEFINE nth(n) == CHOOSE k \in ks : Cardinality({j \in ks : j < k}) = n - 1
<1>4. \A n \in 1 .. Cardinality(ks) : nth(n) \in ks
  BY <1>3
<1>5. At(s, ks) = [n \in 1 .. Cardinality(ks) |-> s[nth(n)]]
  BY DEF At
<1> HIDE DEF nth
<1>6. \A n \in 1 .. Cardinality(ks) : s[nth(n)] \in X
  BY <1>1, <1>4
<1> QED BY <1>3, <1>5, <1>6

\* Each is the element at one of those positions, in order.
Listed(s, ks, r) ==
  \A n \in DOMAIN r : \E k \in ks : r[n] = s[k] /\ Cardinality({j \in ks : j < k}) = n - 1

\* At lists the chosen positions from the first to the last.
LEMMA AtRanked ==
  ASSUME NEW X, NEW s, NEW ks, s \in Seq(X), ks \in SUBSET DOMAIN s
  PROVE  Listed(s, ks, At(s, ks))
<1>1. Len(s) \in Nat /\ DOMAIN s = 1 .. Len(s)
  OBVIOUS
<1>2. ks \in SUBSET (0 .. (Len(s) + 1) - 1) /\ Len(s) + 1 \in Nat
  BY <1>1
<1>3. \A n \in 1 .. Cardinality(ks) : \E k \in ks : Cardinality({j \in ks : j < k}) = n - 1
  <2> DEFINE n == Len(s) + 1
  <2>1. n \in Nat /\ ks \in SUBSET (0 .. n - 1)
    BY <1>2
  <2> HIDE DEF n
  <2> QED BY <2>1, RankedNumbers
<1> DEFINE nth(n) == CHOOSE k \in ks : Cardinality({j \in ks : j < k}) = n - 1
<1>4. \A n \in 1 .. Cardinality(ks) :
        nth(n) \in ks /\ Cardinality({j \in ks : j < nth(n)}) = n - 1
  BY <1>3
<1>5. At(s, ks) = [n \in 1 .. Cardinality(ks) |-> s[nth(n)]]
  BY DEF At
<1> HIDE DEF nth
<1> QED BY <1>4, <1>5 DEF Listed

\* Whatever At gives is at one of the positions.
LEMMA AtMembers ==
  ASSUME NEW X, NEW s, s \in Seq(X), NEW ks \in SUBSET DOMAIN s
  PROVE  \A n \in DOMAIN At(s, ks) : \E k \in ks : At(s, ks)[n] = s[k]
<1>1. Listed(s, ks, At(s, ks))
  BY AtRanked
<1> QED BY <1>1, Zenon DEF Listed

\* What is left when the stale markers are dropped are samples.
LEMMA LiveTyped ==
  ASSUME NEW s \in Seq(Sample)
  PROVE  Live(s) \in Seq(Sample)
<1> DEFINE ks == {k \in DOMAIN s : s[k].v # Stale}
<1>1. ks \in SUBSET DOMAIN s
  OBVIOUS
<1> HIDE DEF ks
<1>2. At(s, ks) \in Seq(Sample)
  BY <1>1, AtTyped
<1> QED BY <1>2 DEF Live, ks

\* A stretch of a sequence.
LEMMA StretchTyped ==
  ASSUME NEW X, NEW s, NEW a, NEW b, s \in Seq(X), a \in 1 .. Len(s) + 1, b \in 0 .. Len(s)
  PROVE  /\ SubSeq(s, a, b) \in Seq(X)
         /\ Len(SubSeq(s, a, b)) = IF a <= b THEN b - a + 1 ELSE 0
         /\ \A k \in 1 .. b - a + 1 : SubSeq(s, a, b)[k] = s[a + k - 1]
<1>1. \A k \in 1 .. Len(s) : s[k] \in X
  OBVIOUS
<1>2. \A k \in a .. b : s[k] \in X
  BY <1>1
<1>3. SubSeq(s, a, b) \in Seq(X)
  BY <1>2
<1> QED BY <1>3

\* In a stretch to the end of a sequence, each is where it was.
LEMMA AtTail ==
  ASSUME NEW X, NEW s, s \in Seq(X), NEW a \in 0 .. Len(s)
  PROVE  /\ Len(At(s, a + 1 .. Len(s))) = Len(s) - a
         /\ \A n \in 1 .. Len(s) - a : At(s, a + 1 .. Len(s))[n] = s[a + n]
<1> DEFINE b == Len(s)
           ks == a + 1 .. b
           r == At(s, ks)
<1>1. b \in Nat /\ DOMAIN s = 1 .. b /\ a \in 0 .. b /\ ks \in SUBSET DOMAIN s /\ ks = a + 1 .. b
  OBVIOUS
<1>2. Cardinality(ks) = b - a
  <2>1. a \in Nat /\ a <= b
    BY <1>1
  <2>2. Cardinality(a + 1 .. b) = b - a
    <3> HIDE DEF b
    <3>1. a + 1 \in Int /\ b \in Int
      BY <1>1, <2>1
    <3>2. Cardinality(a + 1 .. b) = IF a + 1 > b THEN 0 ELSE b - (a + 1) + 1
      BY <3>1, FS_Interval
    <3> QED BY <1>1, <2>1, <3>2
  <2> QED BY <2>2
<1>3. \A k \in ks : Cardinality({j \in ks : j < k}) = k - 1 - a
  <2> TAKE k \in ks
  <2> HIDE DEF b
  <2>1. {j \in ks : j < k} = a + 1 .. k - 1
    BY <1>1
  <2>2. a + 1 \in Int /\ k - 1 \in Int
    BY <1>1
  <2>3. Cardinality(a + 1 .. k - 1) = IF a + 1 > k - 1 THEN 0 ELSE (k - 1) - (a + 1) + 1
    BY <2>2, FS_Interval
  <2>4. a \in Nat /\ k \in Nat /\ ~(a + 1 > k)
    BY <1>1
  <2>5. (IF a + 1 > k - 1 THEN 0 ELSE (k - 1) - (a + 1) + 1) = k - 1 - a
    BY <2>4
  <2> QED BY <2>1, <2>3, <2>5, Zenon
<1> HIDE DEF ks, b
<1>4. Len(r) = Cardinality(ks) /\ Listed(s, ks, r)
  BY <1>1, AtTyped, AtRanked
<1>5. r \in Seq(X)
  BY <1>1, AtTyped
<1> HIDE DEF r
<1>6. DOMAIN r = 1 .. b - a
  BY <1>2, <1>4, <1>5
<1>7. ASSUME NEW n \in 1 .. b - a PROVE r[n] = s[a + n]
  <2>1. PICK k \in ks : r[n] = s[k] /\ Cardinality({j \in ks : j < k}) = n - 1
    BY <1>4, <1>6 DEF Listed
  <2>2. k - 1 - a = n - 1
    BY <1>3, <2>1
  <2>3. k = a + n
    BY <1>1, <2>2
  <2> QED BY <2>1, <2>3
<1> QED BY <1>2, <1>4, <1>7 DEF r, ks, b

\* The last of the members is the one at the last position.
LEMMA AtLast ==
  ASSUME NEW X, NEW s, s \in Seq(X), NEW ks \in SUBSET DOMAIN s,
         NEW m \in ks, \A k \in ks : k <= m
  PROVE  At(s, ks) # <<>> /\ Last(At(s, ks)) = s[m]
<1> DEFINE r == At(s, ks)
           c == Cardinality(ks)
<1>1. Len(s) \in Nat /\ DOMAIN s = 1 .. Len(s) /\ \A k \in ks : k \in Nat
  OBVIOUS
<1>2. IsFiniteSet(ks) /\ c \in Nat
  <2>1. IsFiniteSet(DOMAIN s)
    BY <1>1, FS_Interval
  <2> QED BY <2>1, FS_Subset, FS_CardinalityType
<1>3. r \in Seq(X) /\ Len(r) = c /\ Listed(s, ks, r)
  BY AtTyped, AtRanked
<1> HIDE DEF r
<1>4. c # 0
  BY <1>2, FS_EmptySet
<1>5. c \in DOMAIN r
  BY <1>2, <1>3, <1>4
<1>6. PICK k \in ks : r[c] = s[k] /\ Cardinality({j \in ks : j < k}) = c - 1
  BY <1>3, <1>5 DEF Listed
<1>7. k = m
  <2> SUFFICES ASSUME k # m PROVE FALSE
    OBVIOUS
  <2> DEFINE low == {j \in ks : j < k}
             rest == ks \ {m}
  <2>1. /\ low \subseteq rest \ {k} /\ k \in rest
    <3>1. k < m
      BY <1>1
    <3> QED BY <1>1, <3>1
  <2>2. IsFiniteSet(rest) /\ Cardinality(rest) = c - 1
    BY <1>2, FS_RemoveElement
  <2> HIDE DEF rest, low
  <2>3. IsFiniteSet(rest \ {k}) /\ Cardinality(rest \ {k}) = c - 2
    <3>1. IsFiniteSet(rest \ {k}) /\ Cardinality(rest \ {k}) = Cardinality(rest) - 1
      BY <2>1, <2>2, FS_RemoveElement
    <3> HIDE DEF c
    <3> QED BY <1>2, <2>2, <3>1
  <2>4. Cardinality(low) <= c - 2
    BY <2>1, <2>3, FS_Subset
  <2>5. Cardinality(low) = c - 1
    BY <1>6 DEF low
  <2> HIDE DEF c
  <2> QED BY <1>2, <2>4, <2>5
<1>8. r # <<>> /\ Last(r) = r[Len(r)]
  BY <1>3, <1>4 DEF Last
<1> QED BY <1>3, <1>6, <1>7, <1>8 DEF r

\* No position, no member.
LEMMA AtNone ==
  ASSUME NEW s
  PROVE  At(s, {}) = <<>>
<1>1. Cardinality({}) = 0
  BY FS_EmptySet
<1>2. 1 .. Cardinality({}) = {}
  BY <1>1
<1> QED BY <1>2 DEF At

-----------------------------------------------------------------------------
(***************************************************************************)
(* What the chunks leave once the first one wins.                          *)
(***************************************************************************)
Merging == [xy \in Seq(Sample) \X Seq(Sample) |-> xy[1] \o Unseen(xy[1], xy[2])]

\* The unseen samples of a chunk are samples.
LEMMA UnseenTyped ==
  ASSUME NEW seen, NEW chunk, chunk \in Seq(Sample)
  PROVE  Unseen(seen, chunk) \in Seq(Sample)
<1> DEFINE ks == {k \in DOMAIN chunk : seen = <<>> \/ chunk[k].t > Last(seen).t}
<1>1. ks \in SUBSET DOMAIN chunk
  OBVIOUS
<1> HIDE DEF ks
<1>2. At(chunk, ks) \in Seq(Sample)
  BY <1>1, AtTyped
<1> QED BY <1>2 DEF Unseen, ks

\* Merging a chunk adds what has not been seen of it.
LEMMA MergingTyped ==
  /\ Merging \in [Seq(Sample) \X Seq(Sample) -> Seq(Sample)]
  /\ \A x, y \in Seq(Sample) : Merging[<<x, y>>] = x \o Unseen(x, y)
<1> DEFINE X == Seq(Sample)
           M(x, y) == x \o Unseen(x, y)
<1>1. \A x, y \in X : M(x, y) \in X
  <2> TAKE x, y \in X
  <2>1. Unseen(x, y) \in Seq(Sample)
    BY UnseenTyped
  <2> DEFINE u == Unseen(x, y)
  <2> HIDE DEF u
  <2>2. x \o u \in Seq(Sample)
    BY <2>1 DEF u
  <2> QED BY <2>2 DEF u
<1>2. Merging = [xy \in X \X X |-> M(xy[1], xy[2])]
  BY DEF Merging
<1> HIDE DEF X, M
<1>3. \A xy \in X \X X : M(xy[1], xy[2]) \in X
  BY <1>1
<1>4. Merging \in [X \X X -> X]
  BY <1>2, <1>3
<1>5. \A x, y \in X : Merging[<<x, y>>] = M(x, y)
  BY <1>2
<1> QED BY <1>4, <1>5 DEF X, M

\* Merged is that fold.
LEMMA MergedFolds ==
  ASSUME NEW rs, rs \in Seq(Seq(Sample))
  PROVE  FoldsTo(Seq(Sample), Merging, <<>>, rs, Merged(rs))
<1> DEFINE X == Seq(Sample)
           H == Merging
           none == <<>>
           Iter == CHOOSE iter : iter = [T \in SUBSET DOMAIN rs |->
                     IF T = {} THEN <<>>
                     ELSE iter[T \ {Max(T)}] \o Unseen(iter[T \ {Max(T)}], rs[Max(T)])]
<1>1. Merged(rs) = Iter[DOMAIN rs]
  BY Zenon DEF Merged, FoldLeft, MapThenFoldSet
<1>2. H \in [X \X X -> X] /\ \A x, y \in X : H[<<x, y>>] = x \o Unseen(x, y)
  BY MergingTyped
<1>3. none \in X /\ rs \in Seq(X)
  OBVIOUS
<1> HIDE DEF X, H
<1>4. PICK g \in [SUBSET DOMAIN rs -> X] : FoldsOver(H, none, rs, g)
  BY <1>2, <1>3, FoldExists, Zenon
<1>5. \A T \in SUBSET DOMAIN rs : T # {} =>
        Max(T) \in DOMAIN rs /\ rs[Max(T)] \in X /\ T \ {Max(T)} \in SUBSET DOMAIN rs
  <2> TAKE T \in SUBSET DOMAIN rs
  <2> HAVE T # {}
  <2>1. DOMAIN rs = 1 .. Len(rs) /\ Len(rs) \in Nat BY <1>3
  <2>2. Max(T) \in T
    BY <2>1, MaxIn
  <2> QED BY <1>3, <2>1, <2>2
<1>6. \A T \in SUBSET DOMAIN rs :
        g[T] = IF T = {} THEN <<>>
               ELSE g[T \ {Max(T)}] \o Unseen(g[T \ {Max(T)}], rs[Max(T)])
  <2> TAKE T \in SUBSET DOMAIN rs
  <2>1. CASE T = {} BY <1>4, <2>1 DEF FoldsOver
  <2>2. CASE T # {} BY <1>2, <1>4, <1>5, <2>2 DEF FoldsOver
  <2> QED BY <2>1, <2>2
<1>7. g = [T \in SUBSET DOMAIN rs |->
             IF T = {} THEN <<>>
             ELSE g[T \ {Max(T)}] \o Unseen(g[T \ {Max(T)}], rs[Max(T)])]
  BY <1>4, <1>6, Zenon
<1>8. Iter = [T \in SUBSET DOMAIN rs |->
             IF T = {} THEN <<>>
             ELSE Iter[T \ {Max(T)}] \o Unseen(Iter[T \ {Max(T)}], rs[Max(T)])]
  BY <1>7, Zenon
<1> HIDE DEF Iter, none
<1>9. Iter[{}] = none
  BY <1>8 DEF none
<1>10. FoldsWithin(X, H, rs, Iter)
  <2> SUFFICES ASSUME NEW T \in SUBSET DOMAIN rs, T # {}, Iter[T \ {Max(T)}] \in X
               PROVE  Iter[T] = H[<<Iter[T \ {Max(T)}], rs[Max(T)]>>]
    BY DEF FoldsWithin
  <2>1. Iter[T] = Iter[T \ {Max(T)}] \o Unseen(Iter[T \ {Max(T)}], rs[Max(T)])
    BY <1>8
  <2> QED BY <1>2, <1>5, <2>1
<1>11. FoldsTo(X, H, none, rs, Iter[DOMAIN rs])
  BY <1>2, <1>3, <1>9, <1>10, FoldPrefixes
<1> QED BY <1>1, <1>11, Zenon DEF X, H, none

\* One more chunk leaves what the others left, and its unseen samples.
LEMMA MergedGrows ==
  ASSUME NEW rs, NEW chunk, rs \in Seq(Seq(Sample)), chunk \in Seq(Sample)
  PROVE  /\ Merged(<<>>) = <<>>
         /\ Merged(rs) \in Seq(Sample)
         /\ Merged(Append(rs, chunk)) = Merged(rs) \o Unseen(Merged(rs), chunk)
<1> DEFINE X == Seq(Sample)
           H == Merging
           none == <<>>
           more == Append(rs, chunk)
           v == Merged(rs)
           w == Merged(more)
           u == Merged(none)
<1>1. /\ more \in Seq(X) /\ none \in X /\ none \in Seq(X) /\ chunk \in X /\ rs \in Seq(X)
      /\ Extended(rs, chunk, more)
  BY AppendExtends
<1>2. FoldsTo(X, H, none, rs, v)
  BY MergedFolds
<1>3. FoldsTo(X, H, none, more, w)
  <2> HIDE DEF more
  <2> QED BY <1>1, MergedFolds
<1>4. FoldsTo(X, H, none, none, u)
  BY <1>1, MergedFolds
<1>5. H \in [X \X X -> X] /\ \A x, y \in X : H[<<x, y>>] = x \o Unseen(x, y)
  BY MergingTyped
<1>6. u = none
  <2> HIDE DEF X, H, u
  <2> QED BY <1>4, FoldOfNone
<1>7. Len(rs) \in 0 .. Len(rs)
  OBVIOUS
<1> HIDE DEF X, H, more, v, w, u
<1>8. v \in X
  BY <1>2, <1>7 DEF FoldsTo
<1>9. Folding(X, X, H, none)
  BY <1>1, <1>5 DEF Folding
<1> HIDE DEF none
<1>10. w = H[<<v, chunk>>]
  BY <1>1, <1>2, <1>3, <1>9, FoldAppend
<1>11. H[<<v, chunk>>] = v \o Unseen(v, chunk)
  BY <1>1, <1>5, <1>8, Zenon
<1> QED BY <1>6, <1>8, <1>10, <1>11, Zenon DEF X, more, v, w, u, none

-----------------------------------------------------------------------------
(***************************************************************************)
(* The grid.                                                               *)
(***************************************************************************)
\* There is a number of steps.
LEMMA StepsCounted ==
  ASSUME NEW g \in Grids
  PROVE  StepCount(g) \in Nat
<1>1. g.step \in Int /\ g.start \in Int /\ g.end \in Int
  BY DEF Grids
<1>2. CASE g.step <= 0 \/ g.end < g.start
  BY <1>2 DEF StepCount
<1>3. CASE ~(g.step <= 0 \/ g.end < g.start)
  <2> DEFINE n == g.end - g.start
             d == g.step
  <2>1. n \in Nat /\ d \in Nat \ {0}
    BY <1>1, <1>3
  <2> HIDE DEF n, d
  <2>2. n \div d \in Nat
    BY <2>1, SMT
  <2> QED BY <1>3, <2>2 DEF StepCount, n, d
<1> QED BY <1>2, <1>3

\* Window ends are times.
LEMMA EndTyped ==
  ASSUME NEW g \in Grids, NEW k \in Int
  PROVE  End(g, k) \in Int /\ g.window \in Int
<1>1. /\ g.step \in Int /\ g.start \in Int /\ g.window \in Int /\ g.offset \in Int
      /\ g.at \in Int \cup {NoAt}
  BY DEF Grids
<1>2. StepAt(g, k) \in Int
  <2> DEFINE d == g.step
             s == g.start
  <2>1. d \in Int /\ s \in Int
    BY <1>1
  <2> HIDE DEF d, s
  <2>2. s + k * d \in Int
    BY <2>1, SMT
  <2> QED BY <2>2 DEF StepAt, d, s
<1> QED BY <1>1, <1>2 DEF End, WindowEnd

-----------------------------------------------------------------------------
(***************************************************************************)
(* The fold of a window, between any two of its turns.                     *)
(***************************************************************************)
\* A chunk is in hand, read up to some position; a borrowed slice has no buffer beside
\* it; no row is left when the grid is closed; and under @ no edge ever moves.
Grounded ==
  /\ pc \in {"row", "ready", "borrow"} => row <= Len(rows)
  /\ pc \in {"row", "ready", "borrow", "suspended"} /\ row <= Len(rows) => position <= Len(rows[row])
  /\ pc = "borrow" => buf = <<>> /\ ~Pinning
  /\ pc = "close" => row > Len(rows)
  /\ Pinning => lo = base /\ hi = base

WindowInv == TypeOK /\ InBounds /\ Grounded

\* What the input has.
LEMMA InputTyped ==
  ASSUME input \in Inputs
  PROVE  /\ grid \in Grids /\ kernel \in Kernels /\ rows \in Seq(Seq(Sample)) /\ Len(rows) \in Nat
         /\ input.units \in Nat \ {0} /\ steps \in Nat
         /\ \A r \in 1 .. Len(rows) : rows[r] \in Seq(Sample) /\ Len(rows[r]) \in Nat
<1>1. grid \in Grids /\ kernel \in Kernels /\ rows \in Seq(Seq(Sample)) /\ input.units \in Nat \ {0}
  BY BufferAssumption DEF grid, kernel, rows
<1>2. steps \in Nat
  BY <1>1, StepsCounted DEF steps
<1>3. Len(rows) \in Nat /\ \A r \in 1 .. Len(rows) : rows[r] \in Seq(Sample)
  BY <1>1
<1>4. \A r \in 1 .. Len(rows) : Len(rows[r]) \in Nat
  BY <1>3
<1> QED BY <1>1, <1>2, <1>3, <1>4

\* No step changes the input, nor what is read of it.
LEMMA InputKept ==
  ASSUME input' = input
  PROVE  /\ rows' = rows /\ grid' = grid /\ kernel' = kernel /\ steps' = steps
         /\ (Pinning <=> Pinning') /\ (IsRange <=> IsRange') /\ (NoWindow <=> NoWindow')
         /\ FinalEnd' = FinalEnd
BY DEF rows, grid, kernel, steps, Pinning, IsRange, NoWindow, FinalEnd

\* The parts of a typed state.
LEMMA StateTyped ==
  ASSUME TypeOK
  PROVE  /\ input \in Inputs /\ budget \in 0 .. input.units /\ budget \in Nat
         /\ row \in 1 .. Len(rows) + 1 /\ row \in Nat \ {0} /\ position \in Nat
         /\ slice \in Seq(Sample) /\ buf \in Seq(Sample) /\ Held \in Seq(Sample)
         /\ Len(slice) \in Nat /\ Len(buf) \in Nat /\ Len(Held) \in Nat
         /\ base \in Nat /\ lo \in Nat /\ hi \in Nat /\ nextStep \in 0 .. steps /\ nextStep \in Nat
         /\ lastT \in Int \cup {NoTime} /\ sweep \in Seq(Nat)
         /\ pinned \in Seq(Sample) \cup {Unpinned}
<1>1. input \in Inputs
  BY DEF TypeOK
<1>2. steps \in Nat /\ input.units \in Nat \ {0} /\ Len(rows) \in Nat
  BY <1>1, InputTyped
<1>3. Held \in Seq(Sample)
  BY DEF TypeOK, Held
<1> QED BY <1>1, <1>2, <1>3 DEF TypeOK

\* Where the right edge stands: not before the left one, once a range moves it.
LEMMA RightTyped ==
  ASSUME TypeOK, InBounds
  PROVE  /\ Right \in Nat /\ base <= Right /\ Right <= Edge /\ hi <= Right
         /\ IsRange => lo <= Right
         /\ Edge \in Nat
<1>1. Len(Held) \in Nat /\ base \in Nat /\ lo \in Nat /\ hi \in Nat
  BY StateTyped
<1>2. base <= lo /\ lo <= Edge /\ base <= hi /\ hi <= Edge
  BY DEF InBounds
<1> QED BY <1>1, <1>2 DEF Right, Greater, Edge

\* What a turn costs, a spent budget stays spent.
LEMMA SpendTyped ==
  ASSUME TypeOK, NEW n \in Nat
  PROVE  Spend(n) \in 0 .. input.units
<1>1. budget \in 0 .. input.units /\ input.units \in Nat
  BY StateTyped, InputTyped
<1> QED BY <1>1 DEF Spend

\* What a kernel charges for a window.
LEMMA WorkTyped ==
  ASSUME NEW k, NEW n \in Nat
  PROVE  Work(k, n) \in Nat
BY DEF Work

\* A claim is a time.
LEMMA ClaimedTyped ==
  ASSUME NEW last \in Int \cup {NoTime}, NEW t \in Int
  PROVE  Claimed(last, t) \in Int
BY DEF Claimed, Greater

\* The sample at an edge inside what is held.
LEMMA NthTyped ==
  ASSUME TypeOK, NEW i \in Nat, base <= i, i < Edge
  PROVE  Nth(i) \in Sample
<1>1. Held \in Seq(Sample) /\ Len(Held) \in Nat /\ base \in Nat
  BY StateTyped
<1>2. i - base + 1 \in 1 .. Len(Held)
  BY <1>1 DEF Edge
<1> QED BY <1>1, <1>2 DEF Nth

\* Init.
LEMMA WindowInit == Init => WindowInv
<1> SUFFICES ASSUME Init PROVE WindowInv
  OBVIOUS
<1>1. /\ input \in Inputs /\ budget \in 0 .. input.units /\ row = 1 /\ position = 0 /\ slice = <<>>
      /\ buf = <<>> /\ base = 0 /\ lo = 0 /\ hi = 0 /\ nextStep = 0
      /\ lastT = NoTime /\ pinned = Unpinned /\ sweep = <<>> /\ pc = "between"
  BY DEF Init
<1>2. Len(rows) \in Nat /\ steps \in Nat
  BY <1>1, InputTyped
<1>3. TypeOK
  BY <1>1, <1>2 DEF TypeOK
<1>4. Held = <<>> /\ Edge = 0
  BY <1>1 DEF Held, Edge
<1>5. InBounds
  BY <1>1, <1>4 DEF InBounds
<1> QED BY <1>1, <1>3, <1>5 DEF WindowInv, Grounded

\* Outside a kernel a step that leaves the buffer and the edges leaves them in bounds.
LEMMA EdgesStay ==
  ASSUME WindowInv, input' = input, buf' = buf, base' = base, lo' = lo, hi' = hi,
         pc \in {"between", "row", "suspended"}, pc' # "borrow"
  PROVE  InBounds' /\ (Pinning' => lo' = base' /\ hi' = base')
<1>1. Held = buf /\ Held' = buf' /\ Edge' = Edge
  BY DEF Held, Edge
<1>2. lo <= hi /\ base <= lo /\ lo <= Edge /\ base <= hi /\ hi <= Edge
      /\ (buf = <<>> => lo = base /\ hi = base)
  BY DEF WindowInv, InBounds, InKernel
<1>3. InBounds'
  BY <1>1, <1>2 DEF InBounds
<1>4. Pinning' => lo' = base' /\ hi' = base'
  BY InputKept DEF WindowInv, Grounded
<1> QED BY <1>3, <1>4

\* The fields such a step leaves have their types.
LEMMA PollInv == ASSUME WindowInv, Poll PROVE WindowInv'
<1>1. /\ input' = input /\ row' = row /\ position' = position /\ slice' = slice /\ buf' = buf
      /\ base' = base /\ lo' = lo /\ hi' = hi /\ nextStep' = nextStep /\ lastT' = lastT
      /\ pinned' = pinned /\ sweep' = sweep /\ budget' = input.units
      /\ \/ pc = "between" /\ pc' = pc
         \/ pc = "suspended" /\ pc' = IF row <= Len(rows) THEN "row" ELSE "between"
  BY DEF Poll, series, history
<1>2. rows' = rows /\ steps' = steps
  BY <1>1, InputKept
<1>3. input.units \in Nat \ {0} /\ TypeOK
  BY StateTyped, InputTyped DEF WindowInv
<1>4. TypeOK'
  BY <1>1, <1>2, <1>3 DEF TypeOK
<1>5. InBounds' /\ (Pinning' => lo' = base' /\ hi' = base')
  BY <1>1, EdgesStay
<1>6. Grounded'
  BY <1>1, <1>2, <1>5 DEF WindowInv, Grounded
<1> QED BY <1>4, <1>5, <1>6 DEF WindowInv

\* A chunk is taken in hand where its unclaimed part starts, which is inside it.
LEMMA PushInv == ASSUME WindowInv, Push PROVE WindowInv'
<1>1. /\ input' = input /\ slice' = slice /\ buf' = buf /\ budget' = budget
      /\ base' = base /\ lo' = lo /\ hi' = hi /\ nextStep' = nextStep /\ lastT' = lastT
      /\ pinned' = pinned /\ sweep' = sweep
      /\ pc = "between" /\ row <= Len(rows)
  BY DEF Push, series, history
<1>2. \/ row' = row + 1 /\ pc' = pc /\ position' = position
      \/ /\ pc' = "row" /\ row' = row
         /\ position' = IF lastT = NoTime THEN 0 ELSE Through(rows[row], 0, lastT)
  BY DEF Push
<1>3. rows' = rows /\ steps' = steps
  BY <1>1, InputKept
<1>4. /\ TypeOK /\ row \in Nat \ {0} /\ Len(rows) \in Nat /\ row \in 1 .. Len(rows)
      /\ rows[row] \in Seq(Sample) /\ Len(rows[row]) \in Nat
  <2>1. TypeOK /\ row \in Nat \ {0} /\ input \in Inputs
    BY StateTyped DEF WindowInv
  <2>2. Len(rows) \in Nat
    BY <2>1, InputTyped
  <2>3. row \in 1 .. Len(rows)
    BY <1>1, <2>1, <2>2
  <2> QED BY <2>1, <2>2, <2>3, InputTyped
<1>5. Through(rows[row], 0, lastT) \in 0 .. Len(rows[row])
  BY <1>4, ThroughIn
<1>6. TypeOK'
  <2>1. row' \in 1 .. Len(rows) + 1 /\ pc' \in {"between", "row"}
    BY <1>1, <1>2, <1>4
  <2>2. position' \in Nat
    BY <1>2, <1>4, <1>5 DEF TypeOK
  <2> QED BY <1>1, <1>3, <1>4, <2>1, <2>2 DEF TypeOK
<1>7. InBounds' /\ (Pinning' => lo' = base' /\ hi' = base')
  BY <1>1, <1>2, EdgesStay
<1>8. Grounded'
  BY <1>1, <1>2, <1>3, <1>4, <1>5, <1>7 DEF Grounded
<1> QED BY <1>6, <1>7, <1>8 DEF WindowInv

\* A kernel starts on the buffer as it is.
LEMMA EnterKernelInv == ASSUME WindowInv, EnterKernel PROVE WindowInv'
<1>1. /\ input' = input /\ row' = row /\ position' = position /\ slice' = slice /\ buf' = buf
      /\ base' = base /\ lo' = lo /\ hi' = hi /\ nextStep' = nextStep /\ lastT' = lastT
      /\ pinned' = pinned /\ sweep' = sweep /\ budget' = budget
      /\ pc = "row" /\ pc' = "ready"
  BY DEF EnterKernel, series, history
<1>2. rows' = rows /\ steps' = steps
  BY <1>1, InputKept
<1>3. TypeOK'
  BY <1>1, <1>2 DEF WindowInv, TypeOK
<1>4. InBounds' /\ (Pinning' => lo' = base' /\ hi' = base')
  BY <1>1, EdgesStay
<1>5. Grounded'
  BY <1>1, <1>2, <1>4 DEF WindowInv, Grounded
<1> QED BY <1>3, <1>4, <1>5 DEF WindowInv

\* The chunk in hand.
LEMMA RowInHand ==
  ASSUME WindowInv, pc \in {"row", "ready", "borrow"}
  PROVE  /\ row \in 1 .. Len(rows) /\ row \in Nat \ {0} /\ Len(rows) \in Nat
         /\ rows[row] \in Seq(Sample) /\ Len(rows[row]) \in Nat
         /\ position \in 0 .. Len(rows[row])
<1>1. TypeOK /\ row \in Nat \ {0} /\ input \in Inputs /\ position \in Nat
  BY StateTyped DEF WindowInv
<1>2. Len(rows) \in Nat
  BY <1>1, InputTyped
<1>3. row <= Len(rows) /\ position <= Len(rows[row])
  BY DEF WindowInv, Grounded
<1>4. row \in 1 .. Len(rows)
  BY <1>1, <1>2, <1>3
<1>5. rows[row] \in Seq(Sample) /\ Len(rows[row]) \in Nat
  BY <1>1, <1>4, InputTyped
<1> QED BY <1>1, <1>2, <1>3, <1>4, <1>5

\* A row is done with at its end, or kept in hand where the budget ran out.
LEMMA EndRowInv == ASSUME WindowInv, EndRow PROVE WindowInv'
<1>1. /\ input' = input /\ position' = position /\ slice' = slice /\ buf' = buf
      /\ base' = base /\ lo' = lo /\ hi' = hi /\ nextStep' = nextStep /\ lastT' = lastT
      /\ pinned' = pinned /\ sweep' = sweep /\ budget' = budget
      /\ pc = "row"
  BY DEF EndRow, AtRow, series, history
<1>0. \/ pc' = "between" /\ row' = row + 1
      \/ pc' = "suspended" /\ row' = row
  BY Zenon DEF EndRow
<1>2. rows' = rows /\ steps' = steps
  BY <1>1, InputKept
<1>3. row \in 1 .. Len(rows) /\ row + 1 \in 1 .. Len(rows) + 1 /\ row \in 1 .. Len(rows) + 1
      /\ position \in 0 .. Len(rows[row])
  <2>1. /\ row \in 1 .. Len(rows) /\ row \in Nat /\ Len(rows) \in Nat
        /\ position \in 0 .. Len(rows[row])
    BY <1>1, RowInHand
  <2> QED BY <2>1
<1>4. TypeOK'
  BY <1>0, <1>1, <1>2, <1>3 DEF WindowInv, TypeOK
<1>5. InBounds' /\ (Pinning' => lo' = base' /\ hi' = base')
  BY <1>0, <1>1, EdgesStay
<1>6. Grounded'
  BY <1>0, <1>1, <1>2, <1>3, <1>5 DEF WindowInv, Grounded
<1> QED BY <1>4, <1>5, <1>6 DEF WindowInv

\* The last of a sequence of samples.
LEMMA LastTyped ==
  ASSUME NEW s, s \in Seq(Sample), s # <<>>
  PROVE  Last(s) \in Sample /\ Last(s).t \in Int
<1>1. Last(s) \in Sample
  BY DEF Last
<1> QED BY <1>1 DEF Sample

\* A row that no step reads is passed over.
LEMMA DropRowInv == ASSUME WindowInv, DropRow PROVE WindowInv'
<1>1. /\ input' = input /\ position' = position /\ slice' = slice /\ buf' = buf
      /\ base' = base /\ lo' = lo /\ hi' = hi /\ nextStep' = steps
      /\ lastT' = Claimed(lastT, Last(rows[row]).t)
      /\ pinned' = pinned /\ sweep' = sweep /\ budget' = budget
      /\ pc = "row" /\ pc' = "between" /\ row' = row + 1 /\ position < Len(rows[row])
  BY DEF DropRow, AtRow, series
<1>2. rows' = rows /\ steps' = steps
  BY <1>1, InputKept
<1>3. /\ row + 1 \in 1 .. Len(rows) + 1 /\ rows[row] \in Seq(Sample) /\ rows[row] # <<>>
  <2>1. /\ row \in 1 .. Len(rows) /\ row \in Nat /\ Len(rows) \in Nat /\ rows[row] \in Seq(Sample)
        /\ position \in 0 .. Len(rows[row]) /\ Len(rows[row]) \in Nat
    BY <1>1, RowInHand
  <2>2. Len(rows[row]) # 0
    BY <1>1, <2>1
  <2> QED BY <2>1, <2>2
<1>4. lastT' \in Int
  <2>1. Last(rows[row]).t \in Int
    BY <1>3, LastTyped
  <2>2. lastT \in Int \cup {NoTime}
    BY StateTyped DEF WindowInv
  <2> QED BY <1>1, <2>1, <2>2, ClaimedTyped
<1>5. steps \in Nat
  BY StateTyped, InputTyped DEF WindowInv
<1>6. TypeOK'
  BY <1>1, <1>2, <1>3, <1>4, <1>5 DEF WindowInv, TypeOK
<1>7. InBounds' /\ (Pinning' => lo' = base' /\ hi' = base')
  BY <1>1, EdgesStay
<1>8. Grounded'
  BY <1>1, <1>2, <1>7 DEF Grounded
<1> QED BY <1>6, <1>7, <1>8 DEF WindowInv

\* The rest of a row that no step reads is passed over.
LEMMA SkipTailInv == ASSUME WindowInv, SkipTail PROVE WindowInv'
<1>1. /\ input' = input /\ position' = Len(rows[row]) /\ slice' = slice /\ buf' = buf /\ row' = row
      /\ base' = base /\ lo' = lo /\ hi' = hi /\ nextStep' = nextStep
      /\ lastT' = Claimed(lastT, Last(rows[row]).t)
      /\ pinned' = pinned /\ sweep' = sweep /\ budget' = budget
      /\ pc = "row" /\ pc' = pc /\ position < Len(rows[row])
  BY DEF SkipTail, Ingesting, AtRow, series
<1>2. rows' = rows /\ steps' = steps
  BY <1>1, InputKept
<1>3. /\ rows[row] \in Seq(Sample) /\ rows[row] # <<>> /\ Len(rows[row]) \in Nat
      /\ row <= Len(rows)
  <2>1. /\ rows[row] \in Seq(Sample) /\ position \in 0 .. Len(rows[row]) /\ Len(rows[row]) \in Nat
        /\ row \in 1 .. Len(rows) /\ Len(rows) \in Nat
    BY <1>1, RowInHand
  <2>2. Len(rows[row]) # 0
    BY <1>1, <2>1
  <2> QED BY <2>1, <2>2
<1>4. lastT' \in Int
  <2>1. Last(rows[row]).t \in Int
    BY <1>3, LastTyped
  <2>2. lastT \in Int \cup {NoTime}
    BY StateTyped DEF WindowInv
  <2> QED BY <1>1, <2>1, <2>2, ClaimedTyped
<1>6. TypeOK'
  BY <1>1, <1>2, <1>3, <1>4 DEF WindowInv, TypeOK
<1>7. InBounds' /\ (Pinning' => lo' = base' /\ hi' = base')
  BY <1>1, EdgesStay
<1>8. Grounded'
  BY <1>1, <1>2, <1>3, <1>7 DEF Grounded
<1> QED BY <1>6, <1>7, <1>8 DEF WindowInv

\* The allowance and what is taken of the chunk.
LEMMA IngestTyped ==
  ASSUME WindowInv, IngestSlice
  PROVE  /\ Alive \in 0 .. Len(rows[row]) - 1 /\ Allowance \in 1 .. budget
         /\ Until \in 1 .. Len(rows[row]) /\ Until <= Alive + Ingest
         /\ Taken \in Seq(Sample) /\ Watermark \in Int
<1>1. /\ pc = "row" /\ budget > 0 /\ position < Len(rows[row])
      /\ Alive < Len(rows[row])
  BY DEF IngestSlice, Ingesting, AtRow, DeadEnd
<1>2. /\ rows[row] \in Seq(Sample) /\ Len(rows[row]) \in Nat /\ position \in 0 .. Len(rows[row])
      /\ row \in 1 .. Len(rows)
  BY <1>1, RowInHand
<1>3. Alive \in position .. Len(rows[row])
  BY <1>2, ThroughIn DEF Alive
<1>4. budget \in Nat /\ Ingest \in Nat \ {0}
  BY StateTyped, BufferAssumption DEF WindowInv
<1>5. Alive \in 0 .. Len(rows[row]) - 1
  BY <1>1, <1>2, <1>3
<1> DEFINE ts == rows[row]
           n == Len(ts)
           a == Alive
<1>6. n \in Nat /\ a \in 0 .. n - 1 /\ ts \in Seq(Sample)
  BY <1>2, <1>5
<1>7. Allowance = Lesser(budget, Lesser(Ingest, n - a))
  BY DEF Allowance
<1> HIDE DEF n, a
<1>8. Allowance \in 1 .. budget /\ Allowance <= Ingest /\ Allowance <= n - a /\ Allowance \in Nat
  BY <1>1, <1>4, <1>6, <1>7 DEF Lesser
<1>9. Until = a + Allowance
  BY DEF Until, a
<1>10. Until \in a + 1 .. n /\ Until \in 1 .. n /\ Until <= a + Ingest
  BY <1>4, <1>6, <1>8, <1>9
<1>11. Through(ts, a, FinalEnd) \in a .. n
  <2>1. a \in 0 .. Len(ts)
    BY <1>6 DEF n
  <2> HIDE DEF ts
  <2> QED BY <1>6, <2>1, ThroughIn DEF n
<1>12. Taken \in Seq(Sample)
  <2> DEFINE b == Lesser(Until, Through(ts, a, FinalEnd))
  <2>1. b \in 0 .. n /\ a + 1 \in 1 .. n + 1
    BY <1>6, <1>10, <1>11 DEF Lesser
  <2>2. Taken = SubSeq(ts, a + 1, b)
    BY DEF Taken, a
  <2> HIDE DEF b, ts
  <2> QED BY <1>6, <2>1, <2>2, StretchTyped DEF n
<1>13. Watermark \in Int
  <2>0. \A e \in Sample : e.t \in Int
    BY DEF Sample
  <2>1. \A k \in 1 .. n : ts[k] \in Sample /\ ts[k].t \in Int
    <3> HIDE DEF ts
    <3> QED BY <1>6, <2>0 DEF n
  <2>2. ts[Until].t \in Int /\ ts[Until].t - 1 \in Int
    BY <1>10, <2>1
  <2> QED BY <2>2 DEF Watermark
<1> QED BY <1>5, <1>8, <1>10, <1>12, <1>13 DEF n, a

\* What is taken joins the buffer, or is lent while the buffer is empty.
LEMMA IngestInv == ASSUME WindowInv, IngestSlice PROVE WindowInv'
<1>1. /\ input' = input /\ position' = Until /\ row' = row /\ budget' = budget - Allowance
      /\ base' = base /\ lo' = lo /\ hi' = hi /\ nextStep' = nextStep /\ lastT' = Watermark
      /\ pinned' = pinned /\ sweep' = sweep /\ pc = "row"
  BY DEF IngestSlice, Ingesting, AtRow, series
<1>2. rows' = rows /\ steps' = steps
  BY <1>1, InputKept
<1>3. /\ Taken \in Seq(Sample) /\ Watermark \in Int /\ Until \in 1 .. Len(rows[row])
      /\ Allowance \in 1 .. budget
  BY IngestTyped
<1>4. \/ Borrows /\ pc' = "borrow" /\ slice' = Taken /\ buf' = buf
      \/ /\ pc' = pc /\ slice' = slice
         /\ buf' = IF IsRange THEN buf \o Live(Taken)
                   ELSE IF ~Pinning THEN buf \o Taken
                   ELSE IF Taken = <<>> THEN buf ELSE << Last(Taken) >>
  BY DEF IngestSlice
<1>5. TypeOK /\ InBounds /\ Grounded /\ buf \in Seq(Sample) /\ Len(buf) \in Nat /\ base \in Nat
      /\ lo \in Nat /\ hi \in Nat
  BY StateTyped DEF WindowInv
<1>6. lo <= hi /\ base <= lo /\ base <= hi /\ lo <= base + Len(buf) /\ hi <= base + Len(buf)
  BY <1>1, <1>5 DEF InBounds, InKernel, Edge, Held
<1>7. Until \in Nat /\ budget - Allowance \in 0 .. input.units /\ row <= Len(rows)
  <2>1. budget \in 0 .. input.units /\ input.units \in Nat /\ row \in 1 .. Len(rows)
        /\ Len(rows) \in Nat /\ Len(rows[row]) \in Nat
    BY <1>1, StateTyped, InputTyped, RowInHand DEF WindowInv
  <2> QED BY <1>3, <2>1
<1>8. CASE Borrows /\ pc' = "borrow" /\ slice' = Taken /\ buf' = buf
  <2>1. TypeOK'
    BY <1>1, <1>2, <1>3, <1>5, <1>7, <1>8 DEF TypeOK
  <2>2. buf = <<>> /\ ~Pinning /\ lo = base /\ hi = base
    BY <1>5, <1>6, <1>8 DEF Borrows
  <2>3. Held' = Taken /\ Len(Taken) \in Nat /\ Edge' = base + Len(Taken)
    BY <1>1, <1>3, <1>8 DEF Held, Edge
  <2>4. InBounds'
    BY <1>1, <1>5, <1>8, <2>2, <2>3 DEF InBounds, InKernel
  <2>5. Grounded'
    BY <1>1, <1>2, <1>3, <1>7, <1>8, <2>2, InputKept DEF Grounded
  <2> QED BY <2>1, <2>4, <2>5 DEF WindowInv
<1>9. CASE /\ pc' = pc /\ slice' = slice
           /\ buf' = IF IsRange THEN buf \o Live(Taken)
                     ELSE IF ~Pinning THEN buf \o Taken
                     ELSE IF Taken = <<>> THEN buf ELSE << Last(Taken) >>
  <2>1. buf' \in Seq(Sample) /\ Len(buf') \in Nat /\ (~Pinning => Len(buf) <= Len(buf'))
    <3>1. Live(Taken) \in Seq(Sample)
      BY <1>3, LiveTyped
    <3>2. \A s \in Seq(Sample) :
            buf \o s \in Seq(Sample) /\ Len(buf \o s) \in Nat /\ Len(buf) <= Len(buf \o s)
      <4> TAKE s \in Seq(Sample)
      <4>1. Len(s) \in Nat /\ buf \o s \in Seq(Sample) /\ Len(buf \o s) = Len(buf) + Len(s)
        BY <1>5
      <4> QED BY <1>5, <4>1
    <3>3. CASE IsRange
      BY <1>9, <3>1, <3>2, <3>3
    <3>4. CASE ~IsRange /\ ~Pinning
      BY <1>3, <1>9, <3>2, <3>4
    <3>5. CASE ~IsRange /\ Pinning /\ Taken = <<>>
      BY <1>5, <1>9, <3>5
    <3>6. CASE ~IsRange /\ Pinning /\ Taken # <<>>
      <4>1. Last(Taken) \in Sample
        BY <1>3, <3>6, LastTyped
      <4>2. buf' = << Last(Taken) >>
        BY <1>9, <3>6
      <4> QED BY <3>6, <4>1, <4>2
    <3> QED BY <3>3, <3>4, <3>5, <3>6
  <2>2. TypeOK'
    BY <1>1, <1>2, <1>3, <1>5, <1>7, <1>9, <2>1 DEF TypeOK
  <2>3. Held' = buf' /\ Edge' = base + Len(buf')
    BY <1>1, <1>9 DEF Held, Edge
  <2>4. Pinning => lo = base /\ hi = base
    BY <1>5 DEF Grounded
  <2>5. base <= lo /\ lo <= base + Len(buf') /\ base <= hi /\ hi <= base + Len(buf')
    BY <1>5, <1>6, <2>1, <2>4
  <2>6. buf' = <<>> => lo = base /\ hi = base
    BY <1>5, <2>5
  <2>7. InBounds'
    BY <1>1, <1>6, <2>3, <2>5, <2>6 DEF InBounds
  <2>8. Grounded'
    BY <1>1, <1>2, <1>3, <1>7, <1>9, <2>4, InputKept DEF Grounded
  <2> QED BY <2>2, <2>7, <2>8 DEF WindowInv
<1> QED BY <1>4, <1>8, <1>9

\* A turn of a kernel leaves what is held, and the edges inside it.
LEMMA KernelKeeps ==
  ASSUME WindowInv, InKernel, input' = input, row' = row, position' = position, slice' = slice,
         buf' = buf, base' = base, lastT' = lastT, pc' = pc,
         lo' \in Nat, hi' \in Nat, base <= lo', lo' <= Edge, base <= hi', hi' <= Edge,
         Pinning => lo' = lo /\ hi' = hi,
         nextStep' \in 0 .. steps, budget' \in 0 .. input.units,
         pinned' \in Seq(Sample) \cup {Unpinned}, sweep' \in Seq(Nat)
  PROVE  WindowInv'
<1>1. rows' = rows /\ steps' = steps
  BY InputKept
<1>2. TypeOK'
  BY <1>1 DEF WindowInv, TypeOK
<1>3. Held' = Held /\ Edge' = Edge /\ (InKernel <=> InKernel')
  BY DEF Held, Edge, InKernel
<1>4. Len(buf) \in Nat /\ base \in Nat
  BY StateTyped DEF WindowInv
<1>5. buf = <<>> /\ pc # "borrow" => lo' = base /\ hi' = base
  <2>1. buf = <<>> /\ pc # "borrow" => Edge = base
    BY <1>4 DEF Edge, Held
  <2> QED BY <1>4, <2>1
<1>6. InBounds'
  BY <1>3, <1>5 DEF InBounds
<1>7. Grounded'
  BY <1>1, InputKept DEF WindowInv, Grounded
<1> QED BY <1>2, <1>6, <1>7 DEF WindowInv

\* The step a kernel works on is there.
LEMMA WorkingTyped ==
  ASSUME WindowInv, Working
  PROVE  /\ InKernel /\ budget \in Nat \ {0} /\ budget - 1 \in 0 .. input.units
         /\ nextStep + 1 \in 0 .. steps /\ nextStep \in 0 .. steps - 1
<1>1. InKernel /\ budget > 0 /\ nextStep < steps
  BY DEF Working, Ready, ReadyAt
<1>2. budget \in 0 .. input.units /\ input.units \in Nat /\ nextStep \in 0 .. steps /\ steps \in Nat
  BY StateTyped, InputTyped DEF WindowInv
<1> QED BY <1>1, <1>2

\* The left edge passes a sample that is held.
LEMMA AdvanceLeftInv == ASSUME WindowInv, AdvanceLeft PROVE WindowInv'
<1>1. /\ input' = input /\ row' = row /\ position' = position /\ slice' = slice /\ buf' = buf
      /\ base' = base /\ lastT' = lastT /\ pc' = pc /\ hi' = hi /\ nextStep' = nextStep
      /\ pinned' = pinned /\ lo' = lo + 1 /\ budget' = budget - 1 /\ Working /\ ~Pinning
      /\ sweep' = IF lo < hi /\ sweep # <<>> /\ Head(sweep) = lo THEN Tail(sweep) ELSE sweep
  BY DEF AdvanceLeft, Walking, series
<1>2. lo < Edge
  BY DEF AdvanceLeft, LeavesLeft
<1>3. /\ TypeOK /\ InBounds /\ lo \in Nat /\ hi \in Nat /\ base \in Nat /\ Edge \in Nat
      /\ sweep \in Seq(Nat) /\ nextStep \in 0 .. steps /\ pinned \in Seq(Sample) \cup {Unpinned}
  BY StateTyped, RightTyped DEF WindowInv
<1>4. base <= lo /\ base <= hi /\ hi <= Edge
  BY <1>3 DEF InBounds
<1>5. sweep' \in Seq(Nat)
  BY <1>1, <1>3
<1>6. InKernel /\ budget' \in 0 .. input.units
  BY <1>1, WorkingTyped
<1> QED BY <1>1, <1>2, <1>3, <1>4, <1>5, <1>6, KernelKeeps

\* The sweep loses a candidate, and no edge moves.
LEMMA DropBeatenInv == ASSUME WindowInv, DropBeaten PROVE WindowInv'
<1>1. /\ input' = input /\ row' = row /\ position' = position /\ slice' = slice /\ buf' = buf
      /\ base' = base /\ lastT' = lastT /\ pc' = pc /\ hi' = hi /\ nextStep' = nextStep
      /\ pinned' = pinned /\ lo' = lo /\ budget' = budget - 1 /\ Working
      /\ sweep' = Front(sweep) /\ sweep # <<>>
  BY DEF DropBeaten, Walking, Loses, series
<1>3. /\ TypeOK /\ InBounds /\ lo \in Nat /\ hi \in Nat /\ base \in Nat /\ Edge \in Nat
      /\ sweep \in Seq(Nat) /\ nextStep \in 0 .. steps /\ pinned \in Seq(Sample) \cup {Unpinned}
  BY StateTyped, RightTyped DEF WindowInv
<1>4. base <= lo /\ lo <= Edge /\ base <= hi /\ hi <= Edge
  BY <1>3 DEF InBounds
<1>5. sweep' \in Seq(Nat)
  <2>1. 1 \in 1 .. Len(sweep) + 1 /\ Len(sweep) - 1 \in 0 .. Len(sweep)
    BY <1>1, <1>3
  <2>2. sweep' = SubSeq(sweep, 1, Len(sweep) - 1)
    BY <1>1 DEF Front
  <2> QED BY <1>3, <2>1, <2>2, StretchTyped
<1>6. InKernel /\ budget' \in 0 .. input.units
  BY <1>1, WorkingTyped
<1> QED BY <1>1, <1>3, <1>4, <1>5, <1>6, KernelKeeps

\* The right edge passes a sample that is held, and the sweep gains at most one.
LEMMA AdvanceRightInv == ASSUME WindowInv, AdvanceRight PROVE WindowInv'
<1>1. /\ input' = input /\ row' = row /\ position' = position /\ slice' = slice /\ buf' = buf
      /\ base' = base /\ lastT' = lastT /\ pc' = pc /\ lo' = lo /\ nextStep' = nextStep
      /\ pinned' = pinned /\ hi' = Right + 1 /\ budget' = budget - 1 /\ Working /\ ~Pinning
      /\ sweep' = CASE kernel = "counter" ->
                         IF Right > lo /\ Less(Nth(Right).v, Nth(Right - 1).v)
                         THEN Append(sweep, Right - 1) ELSE sweep
                    [] kernel \in {"min", "max"} ->
                         IF Nth(Right).v = NaN THEN sweep ELSE Append(sweep, Right)
                    [] OTHER -> sweep
  BY DEF AdvanceRight, Walking, series
<1>2. Right < Edge
  BY DEF AdvanceRight, EntersRight
<1>3. /\ TypeOK /\ InBounds /\ lo \in Nat /\ hi \in Nat /\ base \in Nat /\ Edge \in Nat
      /\ sweep \in Seq(Nat) /\ nextStep \in 0 .. steps /\ pinned \in Seq(Sample) \cup {Unpinned}
      /\ Right \in Nat /\ base <= Right
  BY StateTyped, RightTyped DEF WindowInv
<1>4. base <= lo /\ lo <= Edge
  BY <1>3 DEF InBounds
<1>5. sweep' \in Seq(Nat)
  <2>1. Right > lo => Right - 1 \in Nat
    BY <1>3
  <2> DEFINE s == Append(sweep, Right)
             p == Append(sweep, Right - 1)
  <2>2. s \in Seq(Nat) /\ (Right > lo => p \in Seq(Nat))
    BY <1>3, <2>1
  <2> HIDE DEF s, p
  <2>3. CASE kernel = "counter"
    <3>1. sweep' = IF Right > lo /\ Less(Nth(Right).v, Nth(Right - 1).v) THEN p ELSE sweep
      BY <1>1, <2>3 DEF p
    <3> QED BY <1>3, <2>2, <3>1
  <2>4. CASE kernel \in {"min", "max"}
    <3>1. sweep' = IF Nth(Right).v = NaN THEN sweep ELSE s
      BY <1>1, <2>4 DEF s
    <3> QED BY <1>3, <2>2, <3>1
  <2>5. CASE kernel \notin {"counter", "min", "max"}
    BY <1>1, <1>3, <2>5
  <2> QED BY <2>3, <2>4, <2>5
<1>6. InKernel /\ budget' \in 0 .. input.units
  BY <1>1, WorkingTyped
<1> QED BY <1>1, <1>2, <1>3, <1>4, <1>5, <1>6, KernelKeeps

\* A step is answered, and the right edge stays where the left one pushed it.
LEMMA EvaluateInv == ASSUME WindowInv, Evaluate PROVE WindowInv'
<1>1. /\ input' = input /\ row' = row /\ position' = position /\ slice' = slice /\ buf' = buf
      /\ base' = base /\ lastT' = lastT /\ pc' = pc /\ lo' = lo /\ nextStep' = nextStep + 1
      /\ pinned' = pinned /\ hi' = Right /\ Working /\ ~Pinning /\ sweep' = sweep
      /\ budget' = Spend(1 + IF Sweeps THEN SweepWork ELSE Work(kernel, Right - lo))
  BY DEF Evaluate, Walking, series
<1>3. /\ TypeOK /\ InBounds /\ lo \in Nat /\ hi \in Nat /\ base \in Nat /\ Edge \in Nat
      /\ sweep \in Seq(Nat) /\ pinned \in Seq(Sample) \cup {Unpinned}
      /\ Right \in Nat /\ base <= Right /\ Right <= Edge /\ (IsRange => lo <= Right)
  BY StateTyped, RightTyped DEF WindowInv
<1>4. base <= lo /\ lo <= Edge
  BY <1>3 DEF InBounds
<1>5. budget' \in 0 .. input.units
  <2>1. SweepWork \in Nat
    BY <1>3 DEF SweepWork
  <2>2. Work(kernel, Right - lo) \in Nat
    <3>1. CASE kernel = "selector"
      BY <3>1 DEF Work
    <3>2. CASE kernel # "selector"
      BY <1>3, <3>2, WorkTyped DEF IsRange
    <3> QED BY <3>1, <3>2
  <2>3. 1 + (IF Sweeps THEN SweepWork ELSE Work(kernel, Right - lo)) \in Nat
    BY <2>1, <2>2
  <2> QED BY <1>1, <1>3, <2>3, SpendTyped
<1>6. InKernel /\ nextStep' \in 0 .. steps
  BY <1>1, WorkingTyped
<1> QED BY <1>1, <1>3, <1>4, <1>5, <1>6, KernelKeeps

\* Under @: the window is a stretch of the buffer, or its last sample.
LEMMA PinnedTyped ==
  ASSUME WindowInv
  PROVE  PinnedWindow \in Seq(Sample) /\ Len(PinnedWindow) \in Nat
<1>1. buf \in Seq(Sample) /\ Len(buf) \in Nat
  BY StateTyped DEF WindowInv
<1>2. CASE IsRange
  <2>1. Through(buf, 0, WindowStart) \in 0 .. Len(buf) /\ Through(buf, 0, WindowStop) \in 0 .. Len(buf)
    BY <1>1, ThroughIn
  <2> DEFINE a == Through(buf, 0, WindowStart) + 1
             b == Through(buf, 0, WindowStop)
  <2>2. a \in 1 .. Len(buf) + 1 /\ b \in 0 .. Len(buf)
    BY <1>1, <2>1
  <2>3. PinnedWindow = SubSeq(buf, a, b)
    BY <1>2 DEF PinnedWindow
  <2> HIDE DEF a, b
  <2>4. PinnedWindow \in Seq(Sample)
    BY <1>1, <2>2, <2>3, StretchTyped
  <2> QED BY <2>4
<1>3. CASE ~IsRange
  <2>1. PinnedWindow = IF buf # <<>> /\ Last(buf).v # Stale THEN << Last(buf) >> ELSE <<>>
    BY <1>3 DEF PinnedWindow
  <2>2. buf # <<>> => Last(buf) \in Sample
    BY <1>1, LastTyped
  <2>3. PinnedWindow \in Seq(Sample)
    BY <2>1, <2>2
  <2> QED BY <2>3
<1> QED BY <1>2, <1>3

\* The value under @ is computed once, and no edge moves.
LEMMA PinValueInv == ASSUME WindowInv, PinValue PROVE WindowInv'
<1>1. /\ input' = input /\ row' = row /\ position' = position /\ slice' = slice /\ buf' = buf
      /\ base' = base /\ lastT' = lastT /\ pc' = pc /\ lo' = lo /\ nextStep' = nextStep
      /\ pinned' = PinnedWindow /\ hi' = hi /\ Working /\ sweep' = sweep
      /\ budget' = Spend(Work(kernel, Len(PinnedWindow)))
  BY DEF PinValue, series
<1>2. /\ TypeOK /\ InBounds /\ lo \in Nat /\ hi \in Nat /\ base \in Nat /\ Edge \in Nat
      /\ sweep \in Seq(Nat) /\ nextStep \in 0 .. steps
  BY StateTyped, RightTyped DEF WindowInv
<1>3. base <= lo /\ lo <= Edge /\ base <= hi /\ hi <= Edge
  BY <1>2 DEF InBounds
<1>4. PinnedWindow \in Seq(Sample) /\ budget' \in 0 .. input.units
  BY <1>1, <1>2, PinnedTyped, WorkTyped, SpendTyped
<1>5. InKernel
  BY <1>1, WorkingTyped
<1> QED BY <1>1, <1>2, <1>3, <1>4, <1>5, KernelKeeps

\* A step under @ is answered, and no edge moves.
LEMMA RepeatPinnedInv == ASSUME WindowInv, RepeatPinned PROVE WindowInv'
<1>1. /\ input' = input /\ row' = row /\ position' = position /\ slice' = slice /\ buf' = buf
      /\ base' = base /\ lastT' = lastT /\ pc' = pc /\ lo' = lo /\ nextStep' = nextStep + 1
      /\ pinned' = pinned /\ hi' = hi /\ Working /\ sweep' = sweep /\ budget' = budget - 1
  BY DEF RepeatPinned, series
<1>2. /\ TypeOK /\ InBounds /\ lo \in Nat /\ hi \in Nat /\ base \in Nat /\ Edge \in Nat
      /\ sweep \in Seq(Nat) /\ pinned \in Seq(Sample) \cup {Unpinned}
  BY StateTyped, RightTyped DEF WindowInv
<1>3. base <= lo /\ lo <= Edge /\ base <= hi /\ hi <= Edge
  BY <1>2 DEF InBounds
<1>4. InKernel /\ budget' \in 0 .. input.units /\ nextStep' \in 0 .. steps
  BY <1>1, WorkingTyped
<1> QED BY <1>1, <1>2, <1>3, <1>4, KernelKeeps

-----------------------------------------------------------------------------
(***************************************************************************)
(* The end of a kernel's call: what is kept of the window.                 *)
(***************************************************************************)
\* The edges a call leaves are ordered and inside what is held.
LEMMA KeptTyped ==
  ASSUME WindowInv
  PROVE  /\ KeptLeft \in Nat /\ KeptRight \in Nat
         /\ base <= KeptLeft /\ KeptLeft <= KeptRight /\ KeptRight <= Edge
         /\ Pinning => KeptLeft = base /\ KeptRight = base
<1>1. /\ lo \in Nat /\ hi \in Nat /\ base \in Nat /\ Right \in Nat /\ Right <= Edge
      /\ IsRange => lo <= Right
      /\ Edge \in Nat
  BY StateTyped, RightTyped DEF WindowInv
<1>2. base <= lo /\ lo <= Edge /\ base <= hi /\ hi <= Edge /\ (Pinning => lo = base /\ hi = base)
  BY DEF WindowInv, InBounds, Grounded
<1>3. CASE Pinning
  BY <1>1, <1>2, <1>3 DEF KeptLeft, KeptRight
<1>4. CASE ~Pinning /\ IsRange
  BY <1>1, <1>2, <1>4 DEF KeptLeft, KeptRight
<1>5. CASE ~Pinning /\ ~IsRange
  BY <1>1, <1>2, <1>5 DEF KeptLeft, KeptRight, Right, Greater
<1> QED BY <1>3, <1>4, <1>5

\* Some of the dead samples go, or none, and never a live one.
LEMMA CutTyped ==
  ASSUME WindowInv
  PROVE  Cut \in Nat /\ base + Cut <= KeptLeft
<1>1. base \in Nat /\ KeptLeft \in Nat /\ base <= KeptLeft
  BY StateTyped, KeptTyped DEF WindowInv
<1> DEFINE half == Len(buf) \div 2
           dead == KeptLeft - base
<1>2. Cut = IF dead > 0 /\ dead >= half THEN dead ELSE 0
  BY DEF Cut
<1>3. dead \in Nat /\ base + dead = KeptLeft
  BY <1>1
<1> HIDE DEF dead, half
<1> QED BY <1>1, <1>2, <1>3

\* What the history must be after a call that ends.
Settled ==
  /\ buf \in Seq(Sample) /\ sweep \in Seq(Nat) /\ base \in Nat /\ lo \in Nat /\ hi \in Nat
  /\ base <= lo /\ lo <= hi /\ hi <= base + Len(buf)
  /\ Pinning => lo = base /\ hi = base

\* The buffer without its dead front.
LEMMA ReduceSettles ==
  ASSUME WindowInv, pc # "borrow", Reduce, input' = input
  PROVE  Settled'
<1>1. /\ buf' = SubSeq(buf, Cut + 1, Len(buf)) /\ base' = base + Cut /\ lo' = KeptLeft
      /\ hi' = KeptRight /\ sweep' = sweep
  BY DEF Reduce
<1>2. /\ KeptLeft \in Nat /\ KeptRight \in Nat
      /\ base <= KeptLeft /\ KeptLeft <= KeptRight /\ KeptRight <= Edge
      /\ Pinning => KeptLeft = base /\ KeptRight = base
  BY KeptTyped
<1>3. Cut \in Nat /\ base + Cut <= KeptLeft
  BY CutTyped
<1>4. buf \in Seq(Sample) /\ Len(buf) \in Nat /\ base \in Nat /\ sweep \in Seq(Nat)
  BY StateTyped DEF WindowInv
<1>5. Edge = base + Len(buf)
  BY DEF Edge, Held
<1>6. Cut <= Len(buf)
  BY <1>2, <1>3, <1>4, <1>5
<1>7. buf' \in Seq(Sample) /\ base' + Len(buf') = base + Len(buf)
  <2> DEFINE a == Cut + 1
             b == Len(buf)
  <2>1. a \in 1 .. Len(buf) + 1 /\ b \in 0 .. Len(buf)
    BY <1>3, <1>4, <1>6
  <2>2. /\ SubSeq(buf, a, b) \in Seq(Sample)
        /\ Len(SubSeq(buf, a, b)) = IF a <= b THEN b - a + 1 ELSE 0
    <3> HIDE DEF a, b
    <3> QED BY <1>4, <2>1, StretchTyped
  <2>3. buf' = SubSeq(buf, a, b)
    BY <1>1
  <2>4. Len(buf') = Len(buf) - Cut
    BY <1>3, <1>4, <1>6, <2>2, <2>3
  <2>5. buf' \in Seq(Sample)
    BY <2>2, <2>3
  <2>6. base' = base + Cut
    BY <1>1
  <2>7. Len(buf) \in Nat /\ base \in Nat
    BY <1>4
  <2> HIDE DEF a, b
  <2> QED BY <1>3, <2>4, <2>5, <2>6, <2>7
<1>8. (Pinning <=> Pinning')
  BY InputKept
<1>9. Pinning => Cut = 0
  <2> SUFFICES ASSUME Pinning PROVE Cut = 0
    OBVIOUS
  <2>1. KeptLeft = base /\ base \in Nat
    BY <1>2, <1>4
  <2> QED BY <1>3, <2>1
<1>10. base' \in Nat /\ base' <= lo' /\ hi' <= base' + Len(buf')
  <2>1. base' = base + Cut /\ lo' = KeptLeft /\ hi' = KeptRight
    BY <1>1
  <2>2. base \in Nat /\ Len(buf) \in Nat
    BY <1>4
  <2>3. base' + Len(buf') = Edge
    BY <1>5, <1>7
  <2> QED BY <1>2, <1>3, <2>1, <2>2, <2>3
<1>11. Pinning' => lo' = base' /\ hi' = base'
  BY <1>1, <1>2, <1>4, <1>8, <1>9
<1> QED BY <1>1, <1>2, <1>4, <1>7, <1>10, <1>11 DEF Settled

\* Nothing left, once the last step is answered.
LEMMA RetireSettles ==
  ASSUME WindowInv, Retire
  PROVE  Settled'
<1>1. /\ buf' = <<>> /\ sweep' = <<>> /\ base' = Greater(KeptRight, KeptLeft)
      /\ lo' = base' /\ hi' = base'
  BY DEF Retire
<1>2. base' \in Nat
  BY <1>1, KeptTyped DEF Greater
<1>3. <<>> \in Seq(Sample) /\ <<>> \in Seq(Nat) /\ Len(<<>>) = 0
  OBVIOUS
<1> QED BY <1>1, <1>2, <1>3 DEF Settled

\* Everything as for the next series, once the last step is answered.
LEMMA ResetSettles ==
  ASSUME Reset
  PROVE  Settled'
<1>1. buf' = <<>> /\ sweep' = <<>> /\ base' = 0 /\ lo' = 0 /\ hi' = 0
  BY DEF Reset
<1>2. <<>> \in Seq(Sample) /\ <<>> \in Seq(Nat) /\ Len(<<>>) = 0
  OBVIOUS
<1> QED BY <1>1, <1>2 DEF Settled

\* Outside a kernel a settled history is in bounds.
LEMMA SettledInBounds ==
  ASSUME Settled', ~InKernel'
  PROVE  InBounds'
<1>1. Edge' = base' + Len(buf')
  BY DEF Edge, Held, InKernel
<1>2. buf' \in Seq(Sample) /\ base' \in Nat /\ lo' \in Nat /\ hi' \in Nat
  BY DEF Settled
<1>3. Len(buf') \in Nat /\ (buf' = <<>> => Len(buf') = 0)
  BY <1>2
<1>4. base' <= lo' /\ lo' <= hi' /\ hi' <= base' + Len(buf')
  BY DEF Settled
<1>5. /\ base' <= lo' /\ lo' <= Edge' /\ base' <= hi' /\ hi' <= Edge'
      /\ (buf' = <<>> => lo' = base' /\ hi' = base')
  BY <1>1, <1>2, <1>3, <1>4
<1> QED BY <1>4, <1>5 DEF InBounds

\* A call on the buffer ends: push goes on with the row, or waits for a budget.
LEMMA ReturnToRowInv == ASSUME WindowInv, ReturnToRow PROVE WindowInv'
<1>1. /\ input' = input /\ row' = row /\ position' = position /\ slice' = slice
      /\ nextStep' = nextStep /\ lastT' = lastT /\ pinned' = pinned /\ budget' = budget
      /\ pc = "ready" /\ pc' \in {"suspended", "row"}
  BY DEF ReturnToRow, series
<1>2. Retire \/ Reduce
  BY DEF ReturnToRow
<1>3. Settled'
  BY <1>1, <1>2, ReduceSettles, RetireSettles
<1>4. rows' = rows /\ steps' = steps
  BY <1>1, InputKept
<1>5. TypeOK'
  BY <1>1, <1>3, <1>4 DEF WindowInv, TypeOK, Settled
<1>6. InBounds'
  BY <1>1, <1>3, SettledInBounds DEF InKernel
<1>7. Grounded'
  BY <1>1, <1>3, <1>4 DEF WindowInv, Grounded, Settled
<1> QED BY <1>5, <1>6, <1>7 DEF WindowInv

\* A call on a lent slice ends: what later steps can reach is copied.
LEMMA ReturnSliceInv == ASSUME WindowInv, ReturnSlice PROVE WindowInv'
<1>1. /\ input' = input /\ row' = row /\ position' = position /\ slice' = <<>>
      /\ nextStep' = nextStep /\ lastT' = lastT /\ pinned' = pinned /\ budget' = budget
      /\ pc = "borrow" /\ pc' = "row"
  BY DEF ReturnSlice, series
<1>2. Settled'
  <2>1. CASE Retire
    BY <2>1, RetireSettles
  <2>2. CASE ~Retire
    <3>1. /\ buf' = SubSeq(slice, KeptLeft - base + 1, Len(slice))
          /\ base' = KeptLeft /\ lo' = KeptLeft /\ hi' = KeptRight /\ sweep' = sweep
      BY <2>2 DEF ReturnSlice
    <3>2. /\ KeptLeft \in Nat /\ KeptRight \in Nat /\ ~Pinning
          /\ base <= KeptLeft /\ KeptLeft <= KeptRight /\ KeptRight <= Edge
      BY <1>1, KeptTyped DEF WindowInv, Grounded
    <3>3. slice \in Seq(Sample) /\ Len(slice) \in Nat /\ base \in Nat /\ sweep \in Seq(Nat)
      BY StateTyped DEF WindowInv
    <3>4. Edge = base + Len(slice)
      BY <1>1 DEF Edge, Held
    <3> DEFINE a == KeptLeft - base + 1
               b == Len(slice)
    <3>5. a \in 1 .. Len(slice) + 1 /\ b \in 0 .. Len(slice)
      BY <3>2, <3>3, <3>4
    <3>6. /\ SubSeq(slice, a, b) \in Seq(Sample)
          /\ Len(SubSeq(slice, a, b)) = IF a <= b THEN b - a + 1 ELSE 0
      <4> HIDE DEF a, b
      <4> QED BY <3>3, <3>5, StretchTyped
    <3>7. buf' \in Seq(Sample) /\ base' + Len(buf') = base + Len(slice)
      <4>1. Len(buf') = Len(slice) - (KeptLeft - base)
        BY <3>1, <3>2, <3>3, <3>4, <3>6
      <4> QED BY <3>1, <3>2, <3>3, <3>6, <4>1
    <3>8. ~Pinning'
      BY <1>1, <3>2, InputKept
    <3> QED BY <3>1, <3>2, <3>3, <3>4, <3>7, <3>8 DEF Settled
  <2> QED BY <2>1, <2>2
<1>3. rows' = rows /\ steps' = steps /\ slice' \in Seq(Sample)
  BY <1>1, InputKept
<1>4. TypeOK'
  BY <1>1, <1>2, <1>3 DEF WindowInv, TypeOK, Settled
<1>5. InBounds'
  BY <1>1, <1>2, SettledInBounds DEF InKernel
<1>6. Grounded'
  BY <1>1, <1>2, <1>3 DEF WindowInv, Grounded, Settled
<1> QED BY <1>4, <1>5, <1>6 DEF WindowInv

\* What close leaves for the next series has its types.
LEMMA ResetTyped ==
  ASSUME WindowInv, Reset, input' = input, row' = row, position' = position, slice' = slice,
         budget' = budget
  PROVE  WindowInv'
<1>1. pc' = "closed" /\ nextStep' = 0 /\ lastT' = NoTime /\ pinned' = Unpinned
  BY DEF Reset
<1>2. Settled'
  BY ResetSettles
<1>3. rows' = rows /\ steps' = steps /\ 0 \in 0 .. steps
  BY InputKept, StateTyped, InputTyped DEF WindowInv
<1>4. TypeOK'
  BY <1>1, <1>2, <1>3 DEF WindowInv, TypeOK, Settled
<1>5. InBounds'
  BY <1>1, <1>2, SettledInBounds DEF InKernel
<1>6. Grounded'
  BY <1>1, <1>2, <1>3 DEF Grounded, Settled
<1> QED BY <1>4, <1>5, <1>6 DEF WindowInv

\* Close readies the rest of the grid, or has nothing to answer with.
LEMMA CloseInv == ASSUME WindowInv, Close PROVE WindowInv'
<1>1. /\ input' = input /\ row' = row /\ position' = position /\ slice' = slice
      /\ budget' = budget /\ pc = "between" /\ row > Len(rows)
  BY DEF Close, series
<1>2. CASE Reset
  BY <1>1, <1>2, ResetTyped
<1>3. CASE ~Reset
  <2>1. /\ lastT' = IntMax /\ pc' = "close" /\ buf' = buf /\ base' = base /\ lo' = lo /\ hi' = hi
        /\ nextStep' = nextStep /\ pinned' = pinned /\ sweep' = sweep
    BY <1>3 DEF Close
  <2>2. rows' = rows /\ steps' = steps /\ IntMax \in Int
    BY <1>1, InputKept, IntAssumption
  <2>3. TypeOK'
    BY <1>1, <2>1, <2>2 DEF WindowInv, TypeOK
  <2>4. InBounds' /\ (Pinning' => lo' = base' /\ hi' = base')
    BY <1>1, <2>1, EdgesStay
  <2>5. Grounded'
    BY <1>1, <2>1, <2>2, <2>4 DEF Grounded
  <2> QED BY <2>3, <2>4, <2>5 DEF WindowInv
<1> QED BY <1>2, <1>3

\* Close's call ends: it waits for a budget, or is done.
LEMMA ReturnToCloseInv == ASSUME WindowInv, ReturnToClose PROVE WindowInv'
<1>1. /\ input' = input /\ row' = row /\ position' = position /\ slice' = slice
      /\ budget' = budget /\ pc = "close"
  BY DEF ReturnToClose, series
<1>2. CASE Reset
  BY <1>1, <1>2, ResetTyped
<1>3. CASE ~Reset
  <2>1. Reduce /\ pc' = "suspended" /\ nextStep' = nextStep /\ lastT' = lastT /\ pinned' = pinned
    BY <1>3 DEF ReturnToClose
  <2>2. Settled'
    BY <1>1, <2>1, ReduceSettles
  <2>3. rows' = rows /\ steps' = steps
    BY <1>1, InputKept
  <2>4. TypeOK'
    BY <1>1, <2>1, <2>2, <2>3 DEF WindowInv, TypeOK, Settled
  <2>5. InBounds'
    BY <2>1, <2>2, SettledInBounds DEF InKernel
  <2>6. Grounded'
    <3>1. row > Len(rows)
      BY <1>1 DEF WindowInv, Grounded
    <3>2. row \in Nat /\ Len(rows) \in Nat
      BY StateTyped, InputTyped DEF WindowInv
    <3>3. ~(row' <= Len(rows'))
      BY <1>1, <2>3, <3>1, <3>2
    <3> QED BY <2>1, <2>2, <3>3 DEF Grounded, Settled
  <2> QED BY <2>4, <2>5, <2>6 DEF WindowInv
<1> QED BY <1>2, <1>3

\* Every turn.
LEMMA WindowNext == ASSUME WindowInv, [Next]_vars PROVE WindowInv'
<1>1. CASE Poll BY <1>1, PollInv
<1>2. CASE Push BY <1>2, PushInv
<1>3. CASE EnterKernel BY <1>3, EnterKernelInv
<1>4. CASE EndRow BY <1>4, EndRowInv
<1>5. CASE DropRow BY <1>5, DropRowInv
<1>6. CASE SkipTail BY <1>6, SkipTailInv
<1>7. CASE IngestSlice BY <1>7, IngestInv
<1>8. CASE AdvanceLeft BY <1>8, AdvanceLeftInv
<1>9. CASE DropBeaten BY <1>9, DropBeatenInv
<1>10. CASE AdvanceRight BY <1>10, AdvanceRightInv
<1>11. CASE Evaluate BY <1>11, EvaluateInv
<1>12. CASE PinValue BY <1>12, PinValueInv
<1>13. CASE RepeatPinned BY <1>13, RepeatPinnedInv
<1>14. CASE ReturnToRow BY <1>14, ReturnToRowInv
<1>15. CASE ReturnSlice BY <1>15, ReturnSliceInv
<1>16. CASE ReturnToClose BY <1>16, ReturnToCloseInv
<1>17. CASE Close BY <1>17, CloseInv
<1>18. CASE UNCHANGED vars
  <2>1. /\ input' = input /\ row' = row /\ position' = position /\ slice' = slice /\ buf' = buf
        /\ base' = base /\ lo' = lo /\ hi' = hi /\ nextStep' = nextStep /\ lastT' = lastT
        /\ pinned' = pinned /\ sweep' = sweep /\ budget' = budget /\ pc' = pc
    BY <1>18 DEF vars, series
  <2>2. rows' = rows /\ steps' = steps /\ (Pinning <=> Pinning')
    BY <2>1, InputKept
  <2> QED BY <2>1, <2>2 DEF WindowInv, TypeOK, InBounds, Grounded, Edge, Held, InKernel
<1> QED
  BY <1>1, <1>2, <1>3, <1>4, <1>5, <1>6, <1>7, <1>8, <1>9, <1>10, <1>11, <1>12, <1>13, <1>14,
     <1>15, <1>16, <1>17, <1>18 DEF Next, Row, Kernel, Return

-----------------------------------------------------------------------------
(***************************************************************************)
(* The sweep, over values by ordinal: v of the samples up to e, of which   *)
(* those from l to before h are inside.                                    *)
(***************************************************************************)
Value == Int \cup {NaN}

\* What refolding would find at an ordinal: a counter's reset, or a candidate that no
\* later value beats.
Found(k, v, l, h, i) ==
  IF k = "counter" THEN i \in l .. h - 2 /\ Less(v[i + 1], v[i])
  ELSE /\ i \in l .. h - 1 /\ v[i] # NaN
       /\ \A j \in i + 1 .. h - 1 : ~Beaten(k, v[i], v[j])

\* A candidate the value that enters next has beaten may be gone already.
Doomed(k, v, e, h, i) == k # "counter" /\ h < e /\ Beaten(k, v[i], v[h])

Tracks(k, v, e, l, h, s) ==
  /\ \A n \in DOMAIN s : Found(k, v, l, h, s[n])
  /\ \A i : Found(k, v, l, h, i) => Doomed(k, v, e, h, i) \/ \E n \in DOMAIN s : s[n] = i
  /\ \A m, n \in DOMAIN s : m < n => s[m] < s[n]

\* Only what is inside is found.
LEMMA FoundInside ==
  ASSUME NEW k, NEW v, NEW l \in Nat, NEW h \in Nat, NEW i, Found(k, v, l, h, i)
  PROVE  i \in l .. h - 1
BY DEF Found

\* With nothing inside there is nothing to track.
LEMMA NothingTracked ==
  ASSUME NEW k, NEW v, NEW e, NEW l \in Nat, NEW h \in Nat, h <= l, NEW s \in Seq(Nat)
  PROVE  /\ Tracks(k, v, e, l, h, <<>>)
         /\ Tracks(k, v, e, l, h, s) => s = <<>>
<1>1. \A i : ~Found(k, v, l, h, i)
  <2> SUFFICES ASSUME NEW i, Found(k, v, l, h, i) PROVE FALSE
    OBVIOUS
  <2>1. i \in l .. h - 1
    BY FoundInside
  <2> QED BY <2>1
<1>2. DOMAIN <<>> = {}
  OBVIOUS
<1>3. Tracks(k, v, e, l, h, <<>>)
  BY <1>1, <1>2 DEF Tracks
<1>4. ASSUME Tracks(k, v, e, l, h, s) PROVE s = <<>>
  <2>1. \A n \in DOMAIN s : FALSE
    BY <1>1, <1>4 DEF Tracks
  <2>2. Len(s) \in Nat /\ DOMAIN s = 1 .. Len(s)
    OBVIOUS
  <2>3. 1 \notin 1 .. Len(s)
    BY <2>1, <2>2
  <2>4. Len(s) = 0
    BY <2>2, <2>3
  <2> QED BY <2>4
<1> QED BY <1>3, <1>4

\* Nothing of it depends on where the ordinals outside the window are, nor on samples
\* that are not there yet.
LEMMA TracksElsewhere ==
  ASSUME NEW k, NEW v, NEW w, NEW e \in Nat, NEW f \in Nat, NEW l \in Nat, NEW h \in Nat, NEW s,
         h <= e, e <= f, \A i \in l .. e - 1 : w[i] = v[i],
         Tracks(k, v, e, l, h, s)
  PROVE  Tracks(k, w, f, l, h, s)
<1>1. \A i : Found(k, v, l, h, i) <=> Found(k, w, l, h, i)
  <2> TAKE i
  <2>1. CASE i \in l .. h - 1
    <3>1. w[i] = v[i] /\ i \in Nat /\ (i \in l .. h - 2 => w[i + 1] = v[i + 1])
      BY <2>1
    <3>2. \A j \in i + 1 .. h - 1 : w[j] = v[j]
      BY <2>1
    <3> QED BY <3>1, <3>2 DEF Found
  <2>2. CASE i \notin l .. h - 1
    BY <2>2, FoundInside
  <2> QED BY <2>1, <2>2
<1>2. \A i : Found(k, v, l, h, i) /\ Doomed(k, v, e, h, i) => Doomed(k, w, f, h, i)
  <2> SUFFICES ASSUME NEW i, Found(k, v, l, h, i), Doomed(k, v, e, h, i)
               PROVE  Doomed(k, w, f, h, i)
    OBVIOUS
  <2>1. i \in l .. h - 1 /\ h < e
    BY FoundInside DEF Doomed
  <2>2. w[i] = v[i] /\ w[h] = v[h] /\ h < f
    BY <2>1
  <2> QED BY <2>2 DEF Doomed
<1> QED BY <1>1, <1>2 DEF Tracks

\* The left edge passes a value, which the sweep forgets if it was the first.
LEMMA TracksLeft ==
  ASSUME NEW k, NEW v, NEW e, NEW l \in Nat, NEW h \in Nat, NEW s \in Seq(Nat), NEW r,
         Tracks(k, v, e, l, h, s),
         r = IF l < h /\ s # <<>> /\ Head(s) = l THEN Tail(s) ELSE s
  PROVE  Tracks(k, v, e, l + 1, h, r)
<1>1. CASE h <= l
  <2>1. s = <<>> /\ r = <<>> /\ h <= l + 1 /\ l + 1 \in Nat
    BY <1>1, NothingTracked
  <2> QED BY <2>1, NothingTracked
<1>2. CASE ~(h <= l)
  <2>1. \A i : Found(k, v, l + 1, h, i) <=> Found(k, v, l, h, i) /\ i # l
    BY <1>2 DEF Found
  <2>2. /\ Len(s) \in Nat /\ DOMAIN s = 1 .. Len(s) /\ \A n \in 1 .. Len(s) : s[n] \in Nat
    OBVIOUS
  <2>3. \A n \in 1 .. Len(s) : Found(k, v, l, h, s[n]) /\ l <= s[n]
    <3> TAKE n \in 1 .. Len(s)
    <3>1. Found(k, v, l, h, s[n])
      BY <2>2 DEF Tracks
    <3>2. s[n] \in l .. h - 1
      BY <3>1, FoundInside
    <3> QED BY <2>2, <3>1, <3>2
  <2>4. \A m, n \in 1 .. Len(s) : m < n => s[m] < s[n]
    BY <2>2 DEF Tracks
  <2>5. \A i : Found(k, v, l, h, i) => Doomed(k, v, e, h, i) \/ \E n \in 1 .. Len(s) : s[n] = i
    BY <2>2 DEF Tracks
  <2>6. \A n \in 2 .. Len(s) : s[n] # l
    <3> TAKE n \in 2 .. Len(s)
    <3>1. 1 \in 1 .. Len(s) /\ n \in 1 .. Len(s) /\ 1 < n
      BY <2>2
    <3>2. s[1] < s[n] /\ l <= s[1] /\ s[1] \in Nat /\ s[n] \in Nat
      BY <2>2, <2>3, <2>4, <3>1
    <3> QED BY <3>2
  <2>7. CASE s # <<>> /\ Head(s) = l
    <3>1. /\ r = Tail(s) /\ Len(r) = Len(s) - 1 /\ DOMAIN r = 1 .. Len(s) - 1
          /\ \A n \in 1 .. Len(s) - 1 : r[n] = s[n + 1]
          /\ s[1] = l
      BY <1>2, <2>7
    <3>2. \A n \in DOMAIN r : Found(k, v, l + 1, h, r[n])
      <4> TAKE n \in DOMAIN r
      <4>0. Len(s) \in Nat /\ n \in 1 .. Len(s) - 1
        BY <2>2, <3>1
      <4>1. n + 1 \in 1 .. Len(s) /\ n + 1 \in 2 .. Len(s) /\ r[n] = s[n + 1]
        <5> DEFINE last == Len(s)
        <5>1. last \in Nat /\ n \in 1 .. last - 1
          BY <4>0
        <5> HIDE DEF last
        <5>2. n + 1 \in 1 .. last /\ n + 1 \in 2 .. last
          BY ONLY <5>1
        <5> QED BY <3>1, <4>0, <5>2 DEF last
      <4> QED BY <2>1, <2>3, <2>6, <4>1
    <3>3. \A i : Found(k, v, l + 1, h, i) => Doomed(k, v, e, h, i) \/ \E n \in DOMAIN r : r[n] = i
      <4> SUFFICES ASSUME NEW i, Found(k, v, l + 1, h, i), ~Doomed(k, v, e, h, i)
                   PROVE  \E n \in DOMAIN r : r[n] = i
        OBVIOUS
      <4>1. PICK n \in 1 .. Len(s) : s[n] = i
        BY <2>1, <2>5
      <4>2. n # 1
        BY <2>1, <3>1, <4>1
      <4>3. n - 1 \in 1 .. Len(s) - 1 /\ (n - 1) + 1 = n
        BY <2>2, <4>2
      <4>4. r[n - 1] = i
        BY <3>1, <4>1, <4>3
      <4> QED BY <3>1, <4>3, <4>4
    <3>4. \A m, n \in DOMAIN r : m < n => r[m] < r[n]
      <4> TAKE m, n \in DOMAIN r
      <4>0. Len(s) \in Nat /\ m \in 1 .. Len(s) - 1 /\ n \in 1 .. Len(s) - 1
        BY <2>2, <3>1
      <4>1. m + 1 \in 1 .. Len(s) /\ n + 1 \in 1 .. Len(s) /\ (m < n => m + 1 < n + 1)
        <5> DEFINE last == Len(s)
        <5>1. last \in Nat /\ m \in 1 .. last - 1 /\ n \in 1 .. last - 1
          BY <4>0
        <5> HIDE DEF last
        <5>2. m + 1 \in 1 .. last /\ n + 1 \in 1 .. last /\ (m < n => m + 1 < n + 1)
          BY ONLY <5>1
        <5> QED BY <5>2 DEF last
      <4> QED BY <2>4, <3>1, <4>1
    <3> QED BY <3>2, <3>3, <3>4 DEF Tracks
  <2>8. CASE ~(s # <<>> /\ Head(s) = l)
    <3>1. r = s
      BY <2>8
    <3>2. \A n \in 1 .. Len(s) : s[n] # l
      <4> TAKE n \in 1 .. Len(s)
      <4>1. s # <<>> /\ Head(s) = s[1] /\ s[1] # l
        BY <2>2, <2>8
      <4>2. n = 1 \/ n \in 2 .. Len(s)
        BY <2>2
      <4> QED BY <2>6, <4>1, <4>2
    <3> QED BY <2>1, <2>2, <2>3, <2>4, <2>5, <3>1, <3>2 DEF Tracks
  <2> QED BY <2>7, <2>8
<1> QED BY <1>1, <1>2

\* The last candidate is dropped, beaten by the value that enters.
LEMMA TracksBeaten ==
  ASSUME NEW k, NEW v, NEW e \in Nat, NEW l \in Nat, NEW h \in Nat, NEW s \in Seq(Nat), NEW r,
         k # "counter", h < e, s # <<>>, Beaten(k, v[s[Len(s)]], v[h]),
         Tracks(k, v, e, l, h, s),
         Len(r) = Len(s) - 1, DOMAIN r = 1 .. Len(s) - 1, \A n \in DOMAIN r : r[n] = s[n]
  PROVE  Tracks(k, v, e, l, h, r)
<1>1. Len(s) \in Nat \ {0} /\ DOMAIN s = 1 .. Len(s)
  OBVIOUS
<1>2. \A n \in DOMAIN r : n \in DOMAIN s /\ r[n] = s[n]
  BY <1>1
<1>3. \A n \in DOMAIN r : Found(k, v, l, h, r[n])
  BY <1>2 DEF Tracks
<1>4. \A i : Found(k, v, l, h, i) => Doomed(k, v, e, h, i) \/ \E n \in DOMAIN r : r[n] = i
  <2> SUFFICES ASSUME NEW i, Found(k, v, l, h, i), ~Doomed(k, v, e, h, i)
               PROVE  \E n \in DOMAIN r : r[n] = i
    OBVIOUS
  <2>1. PICK n \in DOMAIN s : s[n] = i
    BY DEF Tracks
  <2>2. n # Len(s)
    BY <2>1 DEF Doomed
  <2>3. n \in DOMAIN r
    BY <1>1, <2>1, <2>2
  <2> QED BY <1>2, <2>1, <2>3
<1>5. \A m, n \in DOMAIN r : m < n => r[m] < r[n]
  BY <1>2 DEF Tracks
<1> QED BY <1>3, <1>4, <1>5 DEF Tracks

\* One that is not beaten by what it beats, or equals, is not beaten by what that beats.
LEMMA BeatenOver ==
  ASSUME NEW k, NEW a \in Value, NEW b \in Value, NEW c \in Value, a # NaN, b # NaN,
         ~Beaten(k, a, b), ~Beaten(k, b, c)
  PROVE  ~Beaten(k, a, c)
<1>1. a \in Int /\ b \in Int
  BY DEF Value
<1>2. CASE c = NaN
  BY <1>2 DEF Beaten, Less
<1>3. CASE c # NaN
  <2>1. c \in Int
    BY <1>3 DEF Value
  <2>2. a # NaN /\ b # NaN /\ c # NaN
    BY <1>3
  <2> QED BY <1>1, <2>1, <2>2 DEF Beaten, Less
<1> QED BY <1>2, <1>3

\* The right edge passes a value that beats no candidate left: it is one itself.
LEMMA TracksRight ==
  ASSUME NEW k, NEW v, NEW e \in Nat, NEW l \in Nat, NEW h \in Nat, NEW s \in Seq(Nat), NEW r,
         k # "counter", l <= h, h < e, \A i \in l .. e - 1 : v[i] \in Value,
         s # <<>> /\ v[h] # NaN => ~Beaten(k, v[s[Len(s)]], v[h]),
         Tracks(k, v, e, l, h, s),
         r = IF v[h] = NaN THEN s ELSE Append(s, h)
  PROVE  Tracks(k, v, e, l, h + 1, r)
<1>1. Len(s) \in Nat /\ DOMAIN s = 1 .. Len(s) /\ \A n \in 1 .. Len(s) : s[n] \in Nat
  OBVIOUS
<1>2. \A n \in 1 .. Len(s) : s[n] \in l .. h - 1 /\ Found(k, v, l, h, s[n])
  BY <1>1, FoundInside DEF Tracks
<1>3. \A n \in 1 .. Len(s) : ~Beaten(k, v[s[n]], v[h])
  <2> TAKE n \in 1 .. Len(s)
  <2>1. CASE v[h] = NaN
    BY <2>1 DEF Beaten, Less
  <2>2. CASE v[h] # NaN
    <3>1. ~Beaten(k, v[s[Len(s)]], v[h]) /\ Len(s) \in 1 .. Len(s)
      BY <1>1, <2>2
    <3>2. CASE n = Len(s)
      BY <3>1, <3>2
    <3>3. CASE n # Len(s)
      <4>0. Len(s) \in Nat /\ n \in Nat /\ n <= Len(s)
        BY <1>1
      <4>1. n < Len(s)
        BY <3>3, <4>0
      <4>2. s[n] < s[Len(s)]
        BY <1>1, <3>1, <4>1 DEF Tracks
      <4>3. s[n] \in l .. h - 1 /\ s[Len(s)] \in l .. h - 1 /\ s[Len(s)] \in s[n] + 1 .. h - 1
        BY <1>1, <1>2, <3>1, <4>2
      <4>4. /\ v[s[n]] \in Value /\ v[s[Len(s)]] \in Value /\ v[h] \in Value
        BY <4>3
      <4>5. v[s[n]] # NaN /\ ~Beaten(k, v[s[n]], v[s[Len(s)]]) /\ v[s[Len(s)]] # NaN
        BY <1>2, <3>1, <4>3 DEF Found
      <4> QED BY <3>1, <4>4, <4>5, BeatenOver
    <3> QED BY <3>2, <3>3
  <2> QED BY <2>1, <2>2
<1>4. \A i : Found(k, v, l, h + 1, i) <=>
               \/ Found(k, v, l, h, i) /\ ~Beaten(k, v[i], v[h])
               \/ i = h /\ v[h] # NaN
  <2> TAKE i
  <2>1. CASE i \in l .. h - 1
    <3>1. i + 1 .. h = (i + 1 .. h - 1) \cup {h} /\ i \in l .. h /\ i # h
      BY <2>1
    <3> QED BY <2>1, <3>1 DEF Found
  <2>2. CASE i = h
    <3>1. i + 1 .. h = {} /\ i \in l .. h /\ i \notin l .. h - 1
      BY <2>2
    <3> QED BY <2>2, <3>1 DEF Found
  <2>3. CASE i \notin l .. h
    <3>1. i \notin l .. h - 1 /\ i # h
      BY <2>3
    <3> QED BY <2>3, <3>1 DEF Found
  <2>4. i \in l .. h => i \in l .. h - 1 \/ i = h
    OBVIOUS
  <2> QED BY <2>1, <2>2, <2>3, <2>4
<1>5. \A i : Found(k, v, l, h, i) /\ ~Beaten(k, v[i], v[h]) => \E n \in 1 .. Len(s) : s[n] = i
  BY <1>1 DEF Tracks, Doomed
<1>6. \A m, n \in 1 .. Len(s) : m < n => s[m] < s[n]
  BY <1>1 DEF Tracks
<1>7. CASE v[h] = NaN
  <2>1. r = s
    BY <1>7
  <2>2. \A n \in DOMAIN r : Found(k, v, l, h + 1, r[n])
    BY <1>1, <1>2, <1>3, <1>4, <2>1
  <2>3. \A i : Found(k, v, l, h + 1, i) => \E n \in DOMAIN r : r[n] = i
    BY <1>1, <1>4, <1>5, <1>7, <2>1
  <2> QED BY <1>1, <1>6, <2>1, <2>2, <2>3 DEF Tracks
<1>8. CASE v[h] # NaN
  <2>1. /\ DOMAIN r = 1 .. Len(s) + 1 /\ r[Len(s) + 1] = h
        /\ \A n \in 1 .. Len(s) : r[n] = s[n]
    BY <1>1, <1>8
  <2>2. \A n \in 1 .. Len(s) + 1 : n \in 1 .. Len(s) \/ n = Len(s) + 1
    BY <1>1
  <2>3. \A n \in DOMAIN r : Found(k, v, l, h + 1, r[n])
    BY <1>2, <1>3, <1>4, <1>8, <2>1, <2>2
  <2>4. \A i : Found(k, v, l, h + 1, i) => \E n \in DOMAIN r : r[n] = i
    <3> SUFFICES ASSUME NEW i, Found(k, v, l, h + 1, i) PROVE \E n \in DOMAIN r : r[n] = i
      OBVIOUS
    <3>1. CASE i = h
      <4>1. Len(s) + 1 \in DOMAIN r
        BY <1>1, <2>1
      <4> QED BY <2>1, <3>1, <4>1
    <3>2. CASE i # h
      <4>1. PICK n \in 1 .. Len(s) : s[n] = i
        BY <1>4, <1>5, <3>2
      <4>2. n \in DOMAIN r
        BY <1>1, <2>1
      <4> QED BY <2>1, <4>1, <4>2
    <3> QED BY <3>1, <3>2
  <2>5. \A m, n \in DOMAIN r : m < n => r[m] < r[n]
    <3> TAKE m, n \in DOMAIN r
    <3> SUFFICES ASSUME m < n PROVE r[m] < r[n]
      OBVIOUS
    <3>1. m \in 1 .. Len(s) /\ r[m] = s[m]
      BY <1>1, <2>1
    <3>2. CASE n \in 1 .. Len(s)
      BY <1>6, <2>1, <3>1, <3>2
    <3>3. CASE n = Len(s) + 1
      <4>1. s[m] \in l .. h - 1
        BY <1>2, <3>1
      <4> QED BY <2>1, <3>1, <3>3, <4>1
    <3> QED BY <2>1, <2>2, <3>2, <3>3
  <2> QED BY <2>3, <2>4, <2>5 DEF Tracks
<1> QED BY <1>7, <1>8

\* The right edge passes a counter's value: a reset if the one before it, inside the
\* window, is larger.
LEMMA TracksReset ==
  ASSUME NEW k, NEW v, NEW e \in Nat, NEW l \in Nat, NEW h \in Nat, NEW s \in Seq(Nat), NEW r,
         k = "counter", l <= h,
         Tracks(k, v, e, l, h, s),
         r = IF h > l /\ Less(v[h], v[h - 1]) THEN Append(s, h - 1) ELSE s
  PROVE  Tracks(k, v, e, l, h + 1, r)
<1>1. Len(s) \in Nat /\ DOMAIN s = 1 .. Len(s) /\ \A n \in 1 .. Len(s) : s[n] \in Nat
  OBVIOUS
<1>2. \A i : Found(k, v, l, h + 1, i) <=>
               \/ Found(k, v, l, h, i)
               \/ i = h - 1 /\ h > l /\ Less(v[h], v[h - 1])
  <2> TAKE i
  <2>0. (h + 1) - 2 = h - 1
    OBVIOUS
  <2>1. i \in l .. (h + 1) - 2 <=> i \in l .. h - 2 \/ (i = h - 1 /\ h > l)
    <3>1. i \in l .. h - 1 => i \in l .. h - 2 \/ (i = h - 1 /\ h > l)
      OBVIOUS
    <3>2. i \in l .. h - 2 => i \in l .. h - 1
      OBVIOUS
    <3>3. i = h - 1 /\ h > l => i \in l .. h - 1
      OBVIOUS
    <3> QED BY <2>0, <3>1, <3>2, <3>3
  <2>2. i = h - 1 => i + 1 = h
    OBVIOUS
  <2> QED BY <2>1, <2>2 DEF Found
<1>3. \A n \in 1 .. Len(s) : Found(k, v, l, h, s[n]) /\ s[n] \in l .. h - 2
  BY <1>1 DEF Tracks, Found
<1>4. \A i : Found(k, v, l, h, i) => \E n \in 1 .. Len(s) : s[n] = i
  BY <1>1 DEF Tracks, Doomed
<1>5. \A m, n \in 1 .. Len(s) : m < n => s[m] < s[n]
  BY <1>1 DEF Tracks
<1>6. CASE ~(h > l /\ Less(v[h], v[h - 1]))
  <2>1. r = s
    BY <1>6
  <2> QED BY <1>1, <1>2, <1>3, <1>4, <1>5, <1>6, <2>1 DEF Tracks
<1>7. CASE h > l /\ Less(v[h], v[h - 1])
  <2>1. /\ DOMAIN r = 1 .. Len(s) + 1 /\ r[Len(s) + 1] = h - 1
        /\ \A n \in 1 .. Len(s) : r[n] = s[n]
    <3>1. h - 1 \in Nat
      BY <1>7
    <3> QED BY <1>1, <1>7, <3>1
  <2>2. \A n \in 1 .. Len(s) + 1 : n \in 1 .. Len(s) \/ n = Len(s) + 1
    BY <1>1
  <2>3. \A n \in DOMAIN r : Found(k, v, l, h + 1, r[n])
    BY <1>2, <1>3, <1>7, <2>1, <2>2
  <2>4. \A i : Found(k, v, l, h + 1, i) => \E n \in DOMAIN r : r[n] = i
    <3> SUFFICES ASSUME NEW i, Found(k, v, l, h + 1, i) PROVE \E n \in DOMAIN r : r[n] = i
      OBVIOUS
    <3>1. CASE i = h - 1
      <4>1. Len(s) + 1 \in DOMAIN r
        BY <1>1, <2>1
      <4> QED BY <2>1, <3>1, <4>1
    <3>2. CASE i # h - 1
      <4>1. PICK n \in 1 .. Len(s) : s[n] = i
        BY <1>2, <1>4, <3>2
      <4>2. n \in DOMAIN r
        BY <1>1, <2>1
      <4> QED BY <2>1, <4>1, <4>2
    <3> QED BY <3>1, <3>2
  <2>5. \A m, n \in DOMAIN r : m < n => r[m] < r[n]
    <3> TAKE m, n \in DOMAIN r
    <3> SUFFICES ASSUME m < n PROVE r[m] < r[n]
      OBVIOUS
    <3>1. m \in 1 .. Len(s) /\ r[m] = s[m]
      BY <1>1, <2>1
    <3>2. CASE n \in 1 .. Len(s)
      BY <1>5, <2>1, <3>1, <3>2
    <3>3. CASE n = Len(s) + 1
      <4>1. s[m] \in l .. h - 2
        BY <1>3, <3>1
      <4> QED BY <2>1, <3>1, <3>3, <4>1
    <3> QED BY <2>1, <2>2, <3>2, <3>3
  <2> QED BY <2>3, <2>4, <2>5 DEF Tracks
<1> QED BY <1>6, <1>7

\* The right edge is never behind the left one for long.
LEMMA TracksClamped ==
  ASSUME NEW k, NEW v, NEW e, NEW l \in Nat, NEW h \in Nat, NEW s \in Seq(Nat),
         Tracks(k, v, e, l, h, s)
  PROVE  Tracks(k, v, e, l, Greater(h, l), s)
<1>1. CASE h > l
  BY <1>1 DEF Greater
<1>2. CASE ~(h > l)
  <2>1. Greater(h, l) = l /\ h <= l /\ l <= l
    BY <1>2 DEF Greater
  <2>2. s = <<>>
    BY <2>1, NothingTracked
  <2>3. Tracks(k, v, e, l, l, <<>>)
    BY <2>1, NothingTracked
  <2> QED BY <2>1, <2>2, <2>3
<1> QED BY <1>1, <1>2

-----------------------------------------------------------------------------
(***************************************************************************)
(* The sweep of a fold.                                                    *)
(***************************************************************************)
NoneStale(s) == \A n \in DOMAIN s : s[n].v # Stale

Values == [i \in base .. Edge - 1 |-> Nth(i).v]

\* A range kernel holds no stale marker, and the sweep tracks what it holds.
SweepInv ==
  /\ IsRange => NoneStale(buf) /\ NoneStale(slice)
  /\ Sweeps /\ ~Pinning => Tracks(kernel, Values, Edge, lo, hi, sweep)

HeldInv == WindowInv /\ SweepInv

\* What is dropped of a sequence is not left in it.
LEMMA LiveFresh ==
  ASSUME NEW s \in Seq(Sample)
  PROVE  NoneStale(Live(s))
<1> DEFINE ks == {k \in DOMAIN s : s[k].v # Stale}
           r == At(s, ks)
<1>1. ks \in SUBSET DOMAIN s /\ \A k \in ks : s[k].v # Stale
  OBVIOUS
<1> HIDE DEF ks
<1>2. \A n \in DOMAIN r : \E k \in ks : r[n] = s[k]
  BY <1>1, AtMembers
<1>3. Live(s) = r
  BY DEF Live, ks
<1> HIDE DEF r
<1>4. ASSUME NEW n \in DOMAIN r PROVE r[n].v # Stale
  <2>1. PICK k \in ks : r[n] = s[k]
    BY <1>2
  <2> QED BY <1>1, <2>1
<1> QED BY <1>3, <1>4 DEF NoneStale

\* Two sequences without stale markers, or a stretch of one.
LEMMA FreshParts ==
  ASSUME NEW s, NEW t, s \in Seq(Sample), t \in Seq(Sample), NoneStale(s)
  PROVE  /\ NoneStale(t) => NoneStale(s \o t)
         /\ \A a \in 1 .. Len(s) + 1 : NoneStale(SubSeq(s, a, Len(s)))
<1>1. Len(s) \in Nat /\ Len(t) \in Nat /\ DOMAIN s = 1 .. Len(s) /\ DOMAIN t = 1 .. Len(t)
  OBVIOUS
<1>2. ASSUME NoneStale(t) PROVE NoneStale(s \o t)
  <2>1. DOMAIN (s \o t) = 1 .. Len(s) + Len(t)
    BY <1>1
  <2>2. ASSUME NEW n \in 1 .. Len(s) + Len(t) PROVE (s \o t)[n].v # Stale
    <3>1. CASE n <= Len(s)
      <4>1. (s \o t)[n] = s[n] /\ n \in DOMAIN s
        BY <1>1, <3>1
      <4> QED BY <4>1 DEF NoneStale
    <3>2. CASE ~(n <= Len(s))
      <4>1. (s \o t)[n] = t[n - Len(s)] /\ n - Len(s) \in DOMAIN t
        BY <1>1, <3>2
      <4> QED BY <1>2, <4>1 DEF NoneStale
    <3> QED BY <3>1, <3>2
  <2> QED BY <2>1, <2>2 DEF NoneStale
<1>3. ASSUME NEW a \in 1 .. Len(s) + 1 PROVE NoneStale(SubSeq(s, a, Len(s)))
  <2> DEFINE b == Len(s)
             r == SubSeq(s, a, b)
  <2>1. b \in 0 .. Len(s) /\ a \in Nat \ {0} /\ b \in Nat
    BY <1>1
  <2>2. /\ r \in Seq(Sample) /\ Len(r) = (IF a <= b THEN b - a + 1 ELSE 0)
        /\ \A k \in 1 .. b - a + 1 : r[k] = s[a + k - 1]
    <3> HIDE DEF b
    <3> QED BY <2>1, StretchTyped
  <2>3. DOMAIN r = 1 .. Len(r)
    BY <2>2
  <2>4. ASSUME NEW n \in DOMAIN r PROVE r[n].v # Stale
    <3>1. n \in 1 .. b - a + 1 /\ a + n - 1 \in 1 .. Len(s)
      BY <2>1, <2>2, <2>3
    <3> QED BY <1>1, <2>2, <3>1 DEF NoneStale
  <2> QED BY <2>4 DEF NoneStale
<1> QED BY <1>2, <1>3

\* What a range kernel walks are numbers.
LEMMA ValuesTyped ==
  ASSUME HeldInv
  PROVE  /\ base \in Nat /\ Edge \in Nat
         /\ \A i \in base .. Edge - 1 : Values[i] = Nth(i).v
         /\ IsRange => \A i \in base .. Edge - 1 : Values[i] \in Value
<1>1. /\ base \in Nat /\ Len(Held) \in Nat /\ Held \in Seq(Sample)
  BY StateTyped DEF HeldInv, WindowInv
<1>2. Edge \in Nat
  BY <1>1 DEF Edge
<1>3. \A i \in base .. Edge - 1 : Values[i] = Nth(i).v
  BY DEF Values
<1>4. ASSUME IsRange, NEW i \in base .. Edge - 1 PROVE Values[i] \in Value
  <2>1. i - base + 1 \in DOMAIN Held /\ Nth(i) = Held[i - base + 1] /\ Nth(i) \in Sample
    <3>1. i - base + 1 \in 1 .. Len(Held)
      BY <1>1 DEF Edge
    <3> QED BY <1>1, <3>1 DEF Nth
  <2>2. NoneStale(Held)
    BY <1>4 DEF Held, HeldInv, SweepInv
  <2>3. Nth(i).v # Stale
    BY <2>1, <2>2 DEF NoneStale
  <2>4. Nth(i).v \in Int \cup {Stale, NaN}
    BY <2>1 DEF Sample
  <2> QED BY <1>3, <2>3, <2>4 DEF Value
<1> QED BY <1>1, <1>2, <1>3, <1>4

\* The window, the sweep and the samples it is over stay as they were.
LEMMA SweepKept ==
  ASSUME HeldInv, WindowInv', input' = input, IsRange => NoneStale(buf') /\ NoneStale(slice'),
         Sweeps /\ ~Pinning =>
           /\ sweep' = sweep /\ lo' = lo /\ hi' \in {hi, Right} /\ base' <= lo /\ Edge <= Edge'
           /\ \A i \in lo .. Edge - 1 : Held'[i - base' + 1] = Held[i - base + 1]
  PROVE  SweepInv'
<1>1. kernel' = kernel /\ (Pinning <=> Pinning') /\ (IsRange <=> IsRange')
  BY InputKept
<1>2. SUFFICES ASSUME Sweeps, ~Pinning
               PROVE  Tracks(kernel, Values', Edge', lo', hi', sweep')
  BY <1>1 DEF SweepInv, Sweeps
<1> DEFINE v == Values
           w == Values'
           e == Edge
           f == Edge'
           b == base
           c == base'
<1>3. /\ sweep' = sweep /\ lo' = lo /\ hi' \in {hi, Right} /\ c <= lo /\ e <= f
      /\ \A i \in lo .. e - 1 : Held'[i - c + 1] = Held[i - b + 1]
  BY <1>2
<1>4. /\ lo \in Nat /\ hi \in Nat /\ hi <= e /\ sweep \in Seq(Nat) /\ b <= lo /\ b \in Nat /\ e \in Nat
  BY StateTyped, RightTyped DEF HeldInv, WindowInv, InBounds
<1>5. c \in Nat /\ f \in Nat
  <2>1. c \in Nat /\ Held' \in Seq(Sample)
    BY DEF WindowInv, TypeOK, Held
  <2>2. Len(Held') \in Nat
    BY <2>1
  <2> QED BY <2>1, <2>2 DEF Edge
<1>6. \A i \in lo .. e - 1 : w[i] = v[i]
  <2> TAKE i \in lo .. e - 1
  <2>0. /\ lo \in Nat /\ b \in Nat /\ c \in Nat /\ e \in Nat /\ f \in Nat
        /\ b <= lo /\ c <= lo /\ e <= f
    BY <1>3, <1>4, <1>5
  <2>1. i \in b .. e - 1 /\ i \in c .. f - 1
    <3> HIDE DEF b, c, e, f
    <3> QED BY <2>0
  <2>2. v[i] = Held[i - b + 1].v
    BY <2>1 DEF Values, Nth
  <2>3. w[i] = Held'[i - c + 1].v
    BY <2>1 DEF Values, Nth
  <2> QED BY <1>3, <2>2, <2>3
<1>7. Tracks(kernel, v, e, lo, hi, sweep)
  BY <1>2 DEF HeldInv, SweepInv
<1> HIDE DEF v, w, e, f, b, c
<1>8. Tracks(kernel, w, f, lo, hi, sweep)
  BY <1>3, <1>4, <1>5, <1>6, <1>7, TracksElsewhere
<1>9. Tracks(kernel, w, f, lo, Greater(hi, lo), sweep)
  BY <1>4, <1>8, TracksClamped
<1>10. Right = Greater(hi, lo)
  BY <1>2 DEF Right, IsRange, Sweeps
<1> QED BY <1>3, <1>8, <1>9, <1>10 DEF w, f

\* No window and no sweep.
LEMMA SweepCleared ==
  ASSUME WindowInv', sweep' = <<>>, lo' = hi', IsRange' => NoneStale(buf') /\ NoneStale(slice')
  PROVE  SweepInv'
<1>1. lo' \in Nat /\ hi' \in Nat /\ hi' <= lo' /\ sweep' \in Seq(Nat)
  BY DEF WindowInv, TypeOK
<1>2. Tracks(kernel', Values', Edge', lo', hi', <<>>)
  BY <1>1, NothingTracked
<1> QED BY <1>2 DEF SweepInv

\* A turn that touches nothing of it.
LEMMA SweepStays ==
  ASSUME HeldInv, WindowInv', input' = input, slice' = slice, buf' = buf, base' = base,
         lo' = lo, hi' \in {hi, Right}, sweep' = sweep, Held' = Held
  PROVE  SweepInv'
<1>1. base <= lo /\ Edge' = Edge /\ Edge \in Nat
  BY RightTyped DEF HeldInv, WindowInv, InBounds, Edge
<1>2. Edge <= Edge' /\ base' <= lo
  BY <1>1
<1>3. IsRange => NoneStale(buf') /\ NoneStale(slice')
  BY DEF HeldInv, SweepInv
<1>4. \A i \in lo .. Edge - 1 : Held'[i - base' + 1] = Held[i - base + 1]
  OBVIOUS
<1> QED BY <1>2, <1>3, <1>4, SweepKept

\* Between kernels: nothing of it moves.
LEMMA SweepOutside ==
  ASSUME HeldInv, WindowInv', Poll \/ Push \/ EnterKernel \/ EndRow \/ DropRow \/ SkipTail
  PROVE  SweepInv'
<1>1. /\ input' = input /\ slice' = slice /\ buf' = buf /\ base' = base
      /\ lo' = lo /\ hi' = hi /\ sweep' = sweep
      /\ pc \in {"between", "suspended", "row"} /\ pc' # "borrow"
  <2>1. CASE Poll BY <2>1 DEF Poll, series, history
  <2>2. CASE Push BY <2>2 DEF Push, series, history
  <2>3. CASE EnterKernel BY <2>3 DEF EnterKernel, series, history
  <2>4. CASE EndRow
    <3>1. pc' = "between" \/ pc' = "suspended"
      BY <2>4, Zenon DEF EndRow
    <3> QED BY <2>4, <3>1 DEF EndRow, AtRow, series, history
  <2>5. CASE DropRow BY <2>5 DEF DropRow, AtRow, series
  <2>6. CASE SkipTail BY <2>6 DEF SkipTail, Ingesting, AtRow, series
  <2> QED BY <2>1, <2>2, <2>3, <2>4, <2>5, <2>6
<1>2. Held' = Held
  BY <1>1 DEF Held
<1> QED BY <1>1, <1>2, SweepStays

\* What is taken joins the end of what is held.
LEMMA SweepIngest ==
  ASSUME HeldInv, WindowInv', IngestSlice
  PROVE  SweepInv'
<1>1. /\ input' = input /\ base' = base /\ lo' = lo /\ hi' = hi /\ sweep' = sweep /\ pc = "row"
  BY DEF IngestSlice, Ingesting, AtRow, series
<1>2. Taken \in Seq(Sample)
  BY IngestTyped DEF HeldInv
<1>3. \/ Borrows /\ pc' = "borrow" /\ slice' = Taken /\ buf' = buf
      \/ /\ pc' = pc /\ slice' = slice
         /\ buf' = IF IsRange THEN buf \o Live(Taken)
                   ELSE IF ~Pinning THEN buf \o Taken
                   ELSE IF Taken = <<>> THEN buf ELSE << Last(Taken) >>
  BY DEF IngestSlice
<1>4. /\ buf \in Seq(Sample) /\ Len(buf) \in Nat /\ base \in Nat /\ lo \in Nat /\ hi \in Nat
      /\ base <= lo /\ Edge = base + Len(buf) /\ Held = buf
      /\ lo <= hi /\ hi <= Edge /\ (buf = <<>> => lo = base /\ hi = base)
      /\ (IsRange => NoneStale(buf) /\ NoneStale(slice))
  <2>1. TypeOK /\ InBounds
    BY DEF HeldInv, WindowInv
  <2>2. Held = buf /\ Edge = base + Len(buf)
    BY <1>1 DEF Held, Edge
  <2> QED BY <1>1, <2>1, <2>2, StateTyped DEF InBounds, InKernel, HeldInv, SweepInv
<1>5. CASE Borrows /\ pc' = "borrow" /\ slice' = Taken /\ buf' = buf
  <2>1. IsRange => NoneStale(Taken)
    BY <1>5 DEF Borrows, NoneStale
  <2>2. buf = <<>> /\ Len(buf) = 0
    BY <1>5 DEF Borrows
  <2>3. Edge = base /\ lo = base
    BY <1>4, <2>2
  <2>4. Edge' = base + Len(Taken) /\ Len(Taken) \in Nat
    BY <1>1, <1>2, <1>5 DEF Edge, Held
  <2>5. Edge <= Edge' /\ \A i \in lo .. Edge - 1 : FALSE
    BY <1>4, <2>3, <2>4
  <2>6. IsRange => NoneStale(buf') /\ NoneStale(slice')
    BY <1>4, <1>5, <2>1
  <2> QED BY <1>1, <1>4, <2>5, <2>6, SweepKept
<1>6. CASE /\ pc' = pc /\ slice' = slice
           /\ buf' = IF IsRange THEN buf \o Live(Taken)
                     ELSE IF ~Pinning THEN buf \o Taken
                     ELSE IF Taken = <<>> THEN buf ELSE << Last(Taken) >>
  <2>1. CASE IsRange
    <3> DEFINE more == Live(Taken)
    <3>1. more \in Seq(Sample) /\ NoneStale(more) /\ Len(more) \in Nat
      <4>1. more \in Seq(Sample)
        BY <1>2, LiveTyped
      <4>2. NoneStale(more)
        BY <1>2, LiveFresh
      <4> HIDE DEF more
      <4> QED BY <4>1, <4>2
    <3>2. buf' = buf \o more
      BY <1>6, <2>1
    <3> HIDE DEF more
    <3>3. NoneStale(buf')
      BY <1>4, <2>1, <3>1, <3>2, FreshParts
    <3>4. /\ Len(buf') = Len(buf) + Len(more)
          /\ \A n \in 1 .. Len(buf) : buf'[n] = buf[n]
      BY <1>4, <3>1, <3>2
    <3>5. Held' = buf' /\ Edge' = base + Len(buf')
      BY <1>1, <1>6 DEF Held, Edge
    <3>6. Edge <= Edge'
      BY <1>4, <3>1, <3>4, <3>5
    <3>7. \A i \in lo .. Edge - 1 : Held'[i - base' + 1] = Held[i - base + 1]
      <4> TAKE i \in lo .. Edge - 1
      <4>1. i - base + 1 \in 1 .. Len(buf)
        BY <1>4
      <4> QED BY <1>1, <1>4, <3>4, <3>5, <4>1
    <3>8. IsRange => NoneStale(buf') /\ NoneStale(slice')
      BY <1>4, <1>6, <3>3
    <3> QED BY <1>1, <1>4, <3>6, <3>7, <3>8, SweepKept
  <2>2. CASE ~IsRange
    <3>1. ~Sweeps
      BY <2>2 DEF IsRange, Sweeps
    <3> QED BY <1>1, <2>2, <3>1, SweepKept
  <2> QED BY <2>1, <2>2
<1> QED BY <1>3, <1>5, <1>6

\* What a step's kernel has at hand when an edge moves.
LEMMA SweepAtHand ==
  ASSUME HeldInv
  PROVE  /\ base \in Nat /\ lo \in Nat /\ hi \in Nat /\ Edge \in Nat /\ sweep \in Seq(Nat)
         /\ base <= lo /\ lo <= Edge /\ hi <= Edge
         /\ Sweeps /\ ~Pinning =>
              /\ Right = Greater(hi, lo) /\ Right \in Nat /\ lo <= Right
              /\ Tracks(kernel, Values, Edge, lo, hi, sweep)
              /\ Tracks(kernel, Values, Edge, lo, Right, sweep)
              /\ \A i \in lo .. Edge - 1 : Values[i] \in Value /\ Values[i] = Nth(i).v
<1>1. /\ base \in Nat /\ lo \in Nat /\ hi \in Nat /\ Edge \in Nat /\ sweep \in Seq(Nat)
      /\ base <= lo /\ lo <= Edge /\ hi <= Edge
  BY StateTyped, RightTyped DEF HeldInv, WindowInv, InBounds
<1>2. ASSUME Sweeps, ~Pinning
      PROVE  /\ Right = Greater(hi, lo) /\ Right \in Nat /\ lo <= Right
             /\ Tracks(kernel, Values, Edge, lo, hi, sweep)
             /\ Tracks(kernel, Values, Edge, lo, Right, sweep)
             /\ \A i \in lo .. Edge - 1 : Values[i] \in Value /\ Values[i] = Nth(i).v
  <2>1. Tracks(kernel, Values, Edge, lo, hi, sweep)
    BY <1>2 DEF HeldInv, SweepInv
  <2>2. IsRange
    BY <1>2 DEF Sweeps, IsRange
  <2>3. Right = Greater(hi, lo) /\ Right \in Nat /\ lo <= Right
    BY <1>1, <2>2 DEF Right, Greater
  <2>4. Tracks(kernel, Values, Edge, lo, Greater(hi, lo), sweep)
    <3> DEFINE v == Values
               e == Edge
    <3>1. Tracks(kernel, v, e, lo, hi, sweep)
      BY <2>1
    <3> HIDE DEF v, e
    <3>2. Tracks(kernel, v, e, lo, Greater(hi, lo), sweep)
      BY <1>1, <3>1, TracksClamped
    <3> QED BY <3>2 DEF v, e
  <2>5. \A i \in lo .. Edge - 1 : i \in base .. Edge - 1
    BY <1>1
  <2>6. \A i \in lo .. Edge - 1 : Values[i] \in Value /\ Values[i] = Nth(i).v
    BY <2>2, <2>5, ValuesTyped
  <2> QED BY <2>1, <2>3, <2>4, <2>6
<1> QED BY <1>1, <1>2

\* A kernel's turn moves neither what is held nor where it starts.
LEMMA KernelHolds ==
  ASSUME input' = input, slice' = slice, buf' = buf, base' = base, pc' = pc
  PROVE  /\ Held' = Held /\ Edge' = Edge /\ Values' = Values /\ kernel' = kernel
         /\ (Pinning <=> Pinning') /\ (Sweeps <=> Sweeps') /\ (IsRange <=> IsRange')
<1>1. Held' = Held
  BY DEF Held
<1>2. Edge' = Edge
  BY <1>1 DEF Edge
<1>3. Values' = Values
  BY <1>1, <1>2 DEF Values, Nth
<1> QED BY <1>1, <1>2, <1>3, InputKept DEF Sweeps

\* It is enough to see that the sweep tracks the window there is after it.
LEMMA KernelSweeps ==
  ASSUME HeldInv, input' = input, slice' = slice, buf' = buf, base' = base, pc' = pc,
         Sweeps /\ ~Pinning => Tracks(kernel, Values, Edge, lo', hi', sweep')
  PROVE  SweepInv'
<1>1. IsRange' => NoneStale(buf') /\ NoneStale(slice')
  BY KernelHolds DEF HeldInv, SweepInv
<1> QED BY <1>1, KernelHolds DEF SweepInv

\* A turn of a kernel.
LEMMA SweepKernel ==
  ASSUME HeldInv, Kernel
  PROVE  SweepInv'
<1> DEFINE v == Values
           e == Edge
<1>1. /\ base \in Nat /\ lo \in Nat /\ hi \in Nat /\ e \in Nat /\ sweep \in Seq(Nat)
      /\ base <= lo /\ lo <= e /\ hi <= e
      /\ Sweeps /\ ~Pinning =>
           /\ Right = Greater(hi, lo) /\ Right \in Nat /\ lo <= Right
           /\ Tracks(kernel, v, e, lo, hi, sweep)
           /\ Tracks(kernel, v, e, lo, Right, sweep)
           /\ \A i \in lo .. e - 1 : v[i] \in Value /\ v[i] = Nth(i).v
  BY SweepAtHand
<1>2. CASE AdvanceLeft
  <2>1. /\ input' = input /\ slice' = slice /\ buf' = buf /\ base' = base /\ pc' = pc
        /\ lo' = lo + 1 /\ hi' = hi
        /\ sweep' = IF lo < hi /\ sweep # <<>> /\ Head(sweep) = lo THEN Tail(sweep) ELSE sweep
    BY <1>2 DEF AdvanceLeft, series
  <2>2. Sweeps /\ ~Pinning => Tracks(kernel, v, e, lo', hi', sweep')
    <3> HIDE DEF v, e
    <3> QED BY <1>1, <2>1, TracksLeft
  <2> QED BY <2>1, <2>2, KernelSweeps
<1>3. CASE DropBeaten
  <2>1. /\ input' = input /\ slice' = slice /\ buf' = buf /\ base' = base /\ pc' = pc
        /\ lo' = lo /\ hi' = hi /\ sweep' = Front(sweep)
    BY <1>3 DEF DropBeaten, series
  <2>2. /\ Right < e /\ kernel # "counter" /\ sweep # <<>>
        /\ Beaten(kernel, Nth(Last(sweep)).v, Nth(Right).v)
    BY <1>3 DEF DropBeaten, EntersRight, Loses
  <2>3. ASSUME Sweeps, ~Pinning PROVE Tracks(kernel, v, e, lo', hi', sweep')
    <3>1. /\ Right = Greater(hi, lo) /\ Tracks(kernel, v, e, lo, hi, sweep)
          /\ \A i \in lo .. e - 1 : v[i] = Nth(i).v
      BY <1>1, <2>3
    <3> HIDE DEF v, e
    <3>2. lo < hi /\ Right = hi
      <4>1. ~(hi <= lo)
        BY <1>1, <2>2, <3>1, NothingTracked
      <4> QED BY <1>1, <3>1, <4>1 DEF Greater
    <3>3. Len(sweep) \in Nat \ {0} /\ DOMAIN sweep = 1 .. Len(sweep) /\ Last(sweep) = sweep[Len(sweep)]
      BY <1>1, <2>2 DEF Last
    <3>4. Found(kernel, v, lo, hi, sweep[Len(sweep)])
      BY <3>1, <3>3 DEF Tracks
    <3>5. sweep[Len(sweep)] \in lo .. hi - 1
      BY <1>1, <3>4, FoundInside
    <3>6. sweep[Len(sweep)] \in lo .. e - 1 /\ hi \in lo .. e - 1
      BY <1>1, <2>2, <3>2, <3>5
    <3>7. v[sweep[Len(sweep)]] = Nth(Last(sweep)).v /\ v[hi] = Nth(Right).v
      BY <3>1, <3>2, <3>3, <3>6
    <3>8. Beaten(kernel, v[sweep[Len(sweep)]], v[hi])
      BY <2>2, <3>7
    <3>9. /\ Len(sweep') = Len(sweep) - 1 /\ DOMAIN sweep' = 1 .. Len(sweep) - 1
          /\ \A n \in DOMAIN sweep' : sweep'[n] = sweep[n]
      <4> DEFINE a == 1
                 b == Len(sweep) - 1
      <4>1. a \in 1 .. Len(sweep) + 1 /\ b \in 0 .. Len(sweep) /\ b - a + 1 = b
        BY <3>3
      <4>2. sweep' = SubSeq(sweep, a, b)
        BY <2>1 DEF Front
      <4>3. /\ SubSeq(sweep, a, b) \in Seq(Nat)
            /\ Len(SubSeq(sweep, a, b)) = IF a <= b THEN b - a + 1 ELSE 0
            /\ \A k \in 1 .. b - a + 1 : SubSeq(sweep, a, b)[k] = sweep[a + k - 1]
        <5> HIDE DEF a, b
        <5> QED BY <1>1, <4>1, StretchTyped
      <4>4. Len(sweep') = b /\ DOMAIN sweep' = 1 .. b
        BY <3>3, <4>1, <4>2, <4>3
      <4>5. \A k \in 1 .. b : sweep'[k] = sweep[k]
        BY <3>3, <4>1, <4>2, <4>3
      <4> QED BY <4>4, <4>5
    <3>10. Tracks(kernel, v, e, lo, hi, sweep')
      <4> DEFINE r == sweep'
      <4>1. Len(r) = Len(sweep) - 1 /\ DOMAIN r = 1 .. Len(sweep) - 1 /\ \A n \in DOMAIN r : r[n] = sweep[n]
        BY <3>9
      <4> HIDE DEF r
      <4>2. hi < e
        BY <2>2, <3>2
      <4>3. Tracks(kernel, v, e, lo, hi, r)
        BY <1>1, <2>2, <3>1, <3>8, <4>1, <4>2, TracksBeaten
      <4> QED BY <4>3 DEF r
    <3> QED BY <2>1, <3>10
  <2>4. Sweeps /\ ~Pinning => Tracks(kernel, Values, Edge, lo', hi', sweep')
    BY <2>3
  <2> QED BY <2>1, <2>4, KernelSweeps
<1>4. CASE AdvanceRight
  <2>1. /\ input' = input /\ slice' = slice /\ buf' = buf /\ base' = base /\ pc' = pc
        /\ lo' = lo /\ hi' = Right + 1
        /\ sweep' = CASE kernel = "counter" ->
                           IF Right > lo /\ Less(Nth(Right).v, Nth(Right - 1).v)
                           THEN Append(sweep, Right - 1) ELSE sweep
                      [] kernel \in {"min", "max"} ->
                           IF Nth(Right).v = NaN THEN sweep ELSE Append(sweep, Right)
                      [] OTHER -> sweep
    BY <1>4 DEF AdvanceRight, series
  <2>2. Right < e /\ ~Loses
    BY <1>4 DEF AdvanceRight, EntersRight
  <2>3. ASSUME Sweeps, ~Pinning PROVE Tracks(kernel, v, e, lo', hi', sweep')
    <3>1. /\ Right \in Nat /\ lo <= Right /\ Tracks(kernel, v, e, lo, Right, sweep)
          /\ \A i \in lo .. e - 1 : v[i] = Nth(i).v /\ v[i] \in Value
      BY <1>1, <2>3
    <3> HIDE DEF v, e
    <3>2. v[Right] = Nth(Right).v
      BY <1>1, <2>2, <3>1
    <3>3. CASE kernel = "counter"
      <4>1. Right > lo => v[Right - 1] = Nth(Right - 1).v
        <5>1. Right > lo => Right - 1 \in lo .. e - 1
          BY <1>1, <2>2, <3>1
        <5> QED BY <3>1, <5>1
      <4>2. sweep' = IF Right > lo /\ Less(v[Right], v[Right - 1]) THEN Append(sweep, Right - 1) ELSE sweep
        BY <2>1, <3>2, <3>3, <4>1
      <4>3. Tracks(kernel, v, e, lo, Right + 1, sweep')
        BY <1>1, <3>1, <3>3, <4>2, TracksReset
      <4> QED BY <2>1, <4>3
    <3>4. CASE kernel # "counter"
      <4>1. kernel \in {"min", "max"}
        BY <2>3, <3>4 DEF Sweeps
      <4>2. sweep' = IF v[Right] = NaN THEN sweep ELSE Append(sweep, Right)
        BY <2>1, <3>2, <4>1
      <4>3. sweep # <<>> /\ v[Right] # NaN => ~Beaten(kernel, v[sweep[Len(sweep)]], v[Right])
        <5> SUFFICES ASSUME sweep # <<>>, v[Right] # NaN
                     PROVE  ~Beaten(kernel, v[sweep[Len(sweep)]], v[Right])
          OBVIOUS
        <5>1. ~Beaten(kernel, Nth(Last(sweep)).v, Nth(Right).v)
          BY <2>2, <3>2, <4>1 DEF Loses
        <5>2. Len(sweep) \in DOMAIN sweep /\ Last(sweep) = sweep[Len(sweep)]
          BY <1>1 DEF Last
        <5>3. Found(kernel, v, lo, Right, sweep[Len(sweep)])
          BY <3>1, <5>2 DEF Tracks
        <5>4. sweep[Len(sweep)] \in lo .. Right - 1
          BY <1>1, <3>1, <5>3, FoundInside
        <5>5. sweep[Len(sweep)] \in lo .. e - 1
          BY <1>1, <2>2, <3>1, <5>4
        <5>6. v[sweep[Len(sweep)]] = Nth(Last(sweep)).v
          BY <3>1, <5>2, <5>5
        <5> QED BY <3>2, <5>1, <5>6
      <4>4. Right < e /\ \A i \in lo .. e - 1 : v[i] \in Value
        BY <2>2, <3>1
      <4>5. Tracks(kernel, v, e, lo, Right + 1, sweep')
        <5> DEFINE r == sweep'
        <5>1. r = IF v[Right] = NaN THEN sweep ELSE Append(sweep, Right)
          BY <4>2
        <5> HIDE DEF r
        <5>2. Tracks(kernel, v, e, lo, Right + 1, r)
          BY <1>1, <3>1, <3>4, <4>3, <4>4, <5>1, TracksRight
        <5> QED BY <5>2 DEF r
      <4> QED BY <2>1, <4>5
    <3> QED BY <3>3, <3>4
  <2>4. Sweeps /\ ~Pinning => Tracks(kernel, Values, Edge, lo', hi', sweep')
    BY <2>3
  <2> QED BY <2>1, <2>4, KernelSweeps
<1>5. CASE Evaluate
  <2>1. /\ input' = input /\ slice' = slice /\ buf' = buf /\ base' = base /\ pc' = pc
        /\ lo' = lo /\ hi' = Right /\ sweep' = sweep
    BY <1>5 DEF Evaluate, series
  <2>2. Sweeps /\ ~Pinning => Tracks(kernel, Values, Edge, lo', hi', sweep')
    BY <1>1, <2>1
  <2> QED BY <2>1, <2>2, KernelSweeps
<1>6. CASE PinValue \/ RepeatPinned
  <2>1. /\ input' = input /\ slice' = slice /\ buf' = buf /\ base' = base /\ pc' = pc
        /\ lo' = lo /\ hi' = hi /\ sweep' = sweep
    BY <1>6 DEF PinValue, RepeatPinned, series
  <2>2. Sweeps /\ ~Pinning => Tracks(kernel, Values, Edge, lo', hi', sweep')
    BY <1>1, <2>1
  <2> QED BY <2>1, <2>2, KernelSweeps
<1> QED BY <1>2, <1>3, <1>4, <1>5, <1>6 DEF Kernel

\* The dead front goes, and the ordinals stay.
LEMMA SweepReduce ==
  ASSUME HeldInv, WindowInv', pc # "borrow", pc' # "borrow", Reduce, input' = input, slice' = slice
  PROVE  SweepInv'
<1>1. /\ buf' = SubSeq(buf, Cut + 1, Len(buf)) /\ base' = base + Cut /\ lo' = KeptLeft
      /\ hi' = KeptRight /\ sweep' = sweep
  BY DEF Reduce
<1>2. KeptLeft \in Nat /\ KeptRight \in Nat /\ KeptLeft <= KeptRight /\ KeptRight <= Edge
  BY KeptTyped DEF HeldInv
<1>3. Cut \in Nat /\ base + Cut <= KeptLeft
  BY CutTyped DEF HeldInv
<1>4. buf \in Seq(Sample) /\ Len(buf) \in Nat /\ base \in Nat /\ base <= lo
  BY StateTyped DEF HeldInv, WindowInv, InBounds
<1>5. Held = buf /\ Held' = buf' /\ Edge = base + Len(buf) /\ Edge' = base' + Len(buf')
  BY DEF Edge, Held
<1> DEFINE a == Cut + 1
           b == Len(buf)
           c == base'
           r == buf'
<1>6. a \in 1 .. Len(buf) + 1 /\ b \in 0 .. Len(buf) /\ Cut <= Len(buf)
  BY <1>2, <1>3, <1>4, <1>5
<1>7. /\ SubSeq(buf, a, b) \in Seq(Sample)
      /\ Len(SubSeq(buf, a, b)) = IF a <= b THEN b - a + 1 ELSE 0
      /\ \A k \in 1 .. b - a + 1 : SubSeq(buf, a, b)[k] = buf[a + k - 1]
  <2> HIDE DEF a, b
  <2> QED BY <1>4, <1>6, StretchTyped
<1>8. r = SubSeq(buf, a, b) /\ c = base + Cut
  BY <1>1
<1>9. Len(r) = Len(buf) - Cut /\ \A k \in 1 .. Len(buf) - Cut : r[k] = buf[Cut + k]
  <2>1. Len(r) = Len(buf) - Cut
    BY <1>3, <1>4, <1>6, <1>7, <1>8
  <2>2. ASSUME NEW k \in 1 .. Len(buf) - Cut PROVE r[k] = buf[Cut + k]
    <3>1. k \in 1 .. b - a + 1 /\ a + k - 1 = Cut + k
      BY <1>3, <1>4
    <3> QED BY <1>7, <1>8, <3>1
  <2> QED BY <2>1, <2>2
<1> HIDE DEF a, b, c, r
<1>10. IsRange => NoneStale(buf') /\ NoneStale(slice')
  <2>1. IsRange => NoneStale(SubSeq(buf, Cut + 1, Len(buf)))
    BY <1>4, <1>6, FreshParts DEF a, HeldInv, SweepInv
  <2> QED BY <1>1, <2>1 DEF HeldInv, SweepInv
<1>11. ASSUME Sweeps, ~Pinning
       PROVE  /\ sweep' = sweep /\ lo' = lo /\ hi' \in {hi, Right} /\ base' <= lo /\ Edge <= Edge'
              /\ \A i \in lo .. Edge - 1 : Held'[i - base' + 1] = Held[i - base + 1]
  <2>1. IsRange /\ KeptLeft = lo /\ KeptRight = Right
    BY <1>11 DEF Sweeps, IsRange, KeptLeft, KeptRight
  <2>2. base + Cut <= lo
    BY <1>3, <2>1
  <2>3. Edge' = base' + Len(r) /\ base' = base + Cut
    BY <1>1, <1>5 DEF r
  <2>4. Edge' = Edge
    BY <1>3, <1>4, <1>5, <1>9, <2>3
  <2>5. ASSUME NEW i \in lo .. Edge - 1 PROVE Held'[i - base' + 1] = Held[i - base + 1]
    <3>1. lo \in Nat
      BY <1>2, <2>1
    <3>2. i - c + 1 \in 1 .. Len(buf) - Cut /\ Cut + (i - c + 1) = i - base + 1
      BY <1>3, <1>4, <1>5, <1>8, <2>2, <3>1
    <3>3. r[i - c + 1] = buf[i - base + 1]
      BY <1>9, <3>2
    <3> QED BY <1>5, <3>3 DEF r, c
  <2>6. Edge \in Nat
    BY <1>4, <1>5
  <2> QED BY <1>1, <2>1, <2>2, <2>3, <2>4, <2>5, <2>6
<1> QED BY <1>10, <1>11, SweepKept

\* The lent slice ends: its reachable part is the buffer.
LEMMA SweepSlice ==
  ASSUME HeldInv, WindowInv', ReturnSlice
  PROVE  SweepInv'
<1>1. /\ input' = input /\ slice' = <<>> /\ pc = "borrow" /\ pc' = "row"
  BY DEF ReturnSlice, series
<1>2. NoneStale(<<>>)
  BY DEF NoneStale
<1>3. CASE Retire
  <2>1. buf' = <<>> /\ sweep' = <<>> /\ lo' = hi'
    BY <1>3 DEF Retire
  <2> QED BY <1>1, <1>2, <2>1, SweepCleared
<1>4. CASE ~Retire
  <2>1. /\ buf' = SubSeq(slice, KeptLeft - base + 1, Len(slice))
        /\ base' = KeptLeft /\ lo' = KeptLeft /\ hi' = KeptRight /\ sweep' = sweep
    BY <1>4 DEF ReturnSlice
  <2>2. KeptLeft \in Nat /\ base <= KeptLeft /\ KeptLeft <= KeptRight /\ KeptRight <= Edge
        /\ KeptRight \in Nat
    BY KeptTyped DEF HeldInv
  <2>3. slice \in Seq(Sample) /\ Len(slice) \in Nat /\ base \in Nat
    BY StateTyped DEF HeldInv, WindowInv
  <2>4. Held = slice /\ Held' = buf' /\ Edge = base + Len(slice) /\ Edge' = base' + Len(buf')
    BY <1>1 DEF Edge, Held
  <2> DEFINE a == KeptLeft - base + 1
             b == Len(slice)
             r == buf'
  <2>5. a \in 1 .. Len(slice) + 1 /\ b \in 0 .. Len(slice)
    BY <2>2, <2>3, <2>4
  <2>6. /\ SubSeq(slice, a, b) \in Seq(Sample)
        /\ Len(SubSeq(slice, a, b)) = IF a <= b THEN b - a + 1 ELSE 0
        /\ \A k \in 1 .. b - a + 1 : SubSeq(slice, a, b)[k] = slice[a + k - 1]
    <3> HIDE DEF a, b
    <3> QED BY <2>3, <2>5, StretchTyped
  <2>7. r = SubSeq(slice, a, b)
    BY <2>1
  <2>8. /\ Len(r) = Len(slice) - (KeptLeft - base)
        /\ \A k \in 1 .. Len(slice) - (KeptLeft - base) : r[k] = slice[KeptLeft - base + k]
    <3>1. Len(r) = Len(slice) - (KeptLeft - base)
      BY <2>2, <2>3, <2>4, <2>5, <2>6, <2>7
    <3>2. ASSUME NEW k \in 1 .. Len(slice) - (KeptLeft - base) PROVE r[k] = slice[KeptLeft - base + k]
      <4>1. k \in 1 .. b - a + 1 /\ a + k - 1 = KeptLeft - base + k
        BY <2>2, <2>3
      <4> QED BY <2>6, <2>7, <4>1
    <3> QED BY <3>1, <3>2
  <2> HIDE DEF a, b, r
  <2>9. IsRange => NoneStale(buf') /\ NoneStale(slice')
    <3>1. IsRange => NoneStale(SubSeq(slice, KeptLeft - base + 1, Len(slice)))
      BY <2>3, <2>5, FreshParts DEF a, HeldInv, SweepInv
    <3> QED BY <1>1, <1>2, <2>1, <3>1
  <2>10. ASSUME Sweeps, ~Pinning
         PROVE  /\ sweep' = sweep /\ lo' = lo /\ hi' \in {hi, Right} /\ base' <= lo /\ Edge <= Edge'
                /\ \A i \in lo .. Edge - 1 : Held'[i - base' + 1] = Held[i - base + 1]
    <3>1. KeptLeft = lo /\ KeptRight = Right
      BY <2>10 DEF Sweeps, IsRange, KeptLeft, KeptRight
    <3>2. Edge' = lo + Len(r) /\ base' = lo /\ lo \in Nat
      BY <2>1, <2>2, <2>4, <3>1 DEF r
    <3>3. Edge' = Edge
      BY <2>2, <2>3, <2>4, <2>8, <3>1, <3>2
    <3>4. ASSUME NEW i \in lo .. Edge - 1 PROVE Held'[i - base' + 1] = Held[i - base + 1]
      <4>1. i - lo + 1 \in 1 .. Len(slice) - (lo - base) /\ lo - base + (i - lo + 1) = i - base + 1
        BY <2>3, <2>4, <3>2
      <4>2. r[i - lo + 1] = slice[i - base + 1]
        BY <2>8, <3>1, <4>1
      <4> QED BY <2>4, <3>2, <4>2 DEF r
    <3>5. Edge \in Nat
      BY <2>3, <2>4
    <3> QED BY <2>1, <3>1, <3>2, <3>3, <3>4, <3>5
  <2> QED BY <1>1, <2>9, <2>10, SweepKept
<1> QED BY <1>3, <1>4

\* Init.
LEMMA HeldInit == Init => HeldInv
<1> SUFFICES ASSUME Init PROVE HeldInv
  OBVIOUS
<1>1. WindowInv
  BY WindowInit
<1>2. buf = <<>> /\ slice = <<>> /\ sweep = <<>> /\ lo = 0 /\ hi = 0 /\ sweep \in Seq(Nat)
  BY DEF Init
<1>3. NoneStale(buf) /\ NoneStale(slice)
  BY <1>2 DEF NoneStale
<1>4. lo \in Nat /\ hi \in Nat /\ hi <= lo /\ sweep \in Seq(Nat)
  BY <1>1, <1>2 DEF WindowInv, TypeOK
<1>5. Tracks(kernel, Values, Edge, lo, hi, <<>>)
  BY <1>4, NothingTracked
<1> QED BY <1>1, <1>2, <1>3, <1>5 DEF HeldInv, SweepInv

\* Every turn keeps the sweep and the window together.
LEMMA HeldNext == ASSUME HeldInv, [Next]_vars PROVE HeldInv'
<1>1. WindowInv'
  BY WindowNext DEF HeldInv
<1>2. SUFFICES SweepInv'
  BY <1>1 DEF HeldInv
<1>3. NoneStale(<<>>)
  BY DEF NoneStale
<1>4. ASSUME Reset, slice' = slice, input' = input PROVE SweepInv'
  <2>1. buf' = <<>> /\ sweep' = <<>> /\ lo' = hi'
    BY <1>4 DEF Reset
  <2>2. IsRange' => NoneStale(buf') /\ NoneStale(slice')
    BY <1>3, <1>4, <2>1, InputKept DEF HeldInv, SweepInv
  <2> QED BY <1>1, <2>1, <2>2, SweepCleared
<1>5. CASE Poll \/ Push \/ EnterKernel \/ EndRow \/ DropRow \/ SkipTail
  BY <1>1, <1>5, SweepOutside
<1>6. CASE IngestSlice BY <1>1, <1>6, SweepIngest
<1>7. CASE Kernel BY <1>7, SweepKernel
<1>8. CASE ReturnToRow
  <2>1. /\ input' = input /\ slice' = slice /\ pc = "ready" /\ pc' # "borrow"
    BY <1>8 DEF ReturnToRow, series
  <2>2. CASE Retire
    <3>1. buf' = <<>> /\ sweep' = <<>> /\ lo' = hi'
      BY <2>2 DEF Retire
    <3>2. IsRange' => NoneStale(buf') /\ NoneStale(slice')
      BY <1>3, <2>1, <3>1, InputKept DEF HeldInv, SweepInv
    <3> QED BY <1>1, <3>1, <3>2, SweepCleared
  <2>3. CASE Reduce
    BY <1>1, <2>1, <2>3, SweepReduce
  <2> QED BY <1>8, <2>2, <2>3 DEF ReturnToRow
<1>9. CASE ReturnSlice BY <1>1, <1>9, SweepSlice
<1>10. CASE ReturnToClose
  <2>1. /\ input' = input /\ slice' = slice /\ pc = "close"
    BY <1>10 DEF ReturnToClose, series
  <2>2. CASE Reset BY <1>4, <2>1, <2>2
  <2>3. CASE ~Reset
    <3>1. Reduce /\ pc' = "suspended"
      BY <1>10, <2>3 DEF ReturnToClose
    <3> QED BY <1>1, <2>1, <3>1, SweepReduce
  <2> QED BY <2>2, <2>3
<1>11. CASE Close
  <2>1. /\ input' = input /\ slice' = slice /\ pc = "between"
    BY <1>11 DEF Close, series
  <2>2. CASE Reset BY <1>4, <2>1, <2>2
  <2>3. CASE ~Reset
    <3>1. /\ buf' = buf /\ base' = base /\ lo' = lo /\ hi' = hi /\ sweep' = sweep /\ pc' = "close"
      BY <1>11, <2>3 DEF Close
    <3>2. Held' = Held
      BY <2>1, <3>1 DEF Held
    <3> QED BY <1>1, <2>1, <3>1, <3>2, SweepStays
  <2> QED BY <2>2, <2>3
<1>12. CASE UNCHANGED vars
  <2>1. /\ input' = input /\ slice' = slice /\ buf' = buf /\ base' = base
        /\ lo' = lo /\ hi' = hi /\ sweep' = sweep /\ pc' = pc
    BY <1>12 DEF vars, series
  <2>2. Held' = Held
    BY <2>1 DEF Held
  <2> QED BY <1>1, <2>1, <2>2, SweepStays
<1> QED
  BY <1>5, <1>6, <1>7, <1>8, <1>9, <1>10, <1>11, <1>12 DEF Next, Row, Return

\* What the sweep tracks is what refolding finds.
LEMMA TracksIsTheWindow == HeldInv => SweepIsTheWindow
<1> SUFFICES ASSUME HeldInv, Sweeps, ~Pinning PROVE SweepIsTheWindow
  BY DEF SweepIsTheWindow
<1> DEFINE inside == lo .. hi - 1
           found == IF kernel = "counter"
                    THEN {i \in lo .. hi - 2 : Less(Nth(i + 1).v, Nth(i).v)}
                    ELSE {i \in inside : Nth(i).v # NaN /\
                            \A j \in i + 1 .. hi - 1 : ~Beaten(kernel, Nth(i).v, Nth(j).v)}
           beaten == IF kernel = "counter" \/ hi >= Edge THEN {}
                     ELSE {i \in inside : Beaten(kernel, Nth(i).v, Nth(hi).v)}
           tracked == {sweep[n] : n \in DOMAIN sweep}
           v == Values
           e == Edge
<1>1. /\ lo \in Nat /\ hi \in Nat /\ e \in Nat /\ hi <= e
      /\ Tracks(kernel, v, e, lo, hi, sweep)
      /\ \A i \in lo .. e - 1 : v[i] = Nth(i).v
  BY SweepAtHand
<1>2. \A i : i \in found <=> Found(kernel, v, lo, hi, i)
  <2> TAKE i
  <2>1. CASE i \in lo .. hi - 1
    <3>1. /\ v[i] = Nth(i).v /\ (i \in lo .. hi - 2 => v[i + 1] = Nth(i + 1).v)
          /\ \A j \in i + 1 .. hi - 1 : v[j] = Nth(j).v
      BY <1>1, <2>1
    <3> QED BY <2>1, <3>1 DEF Found
  <2>2. CASE i \notin lo .. hi - 1
    <3>1. i \notin lo .. hi - 2
      BY <1>1, <2>2
    <3> QED BY <2>2, <3>1 DEF Found
  <2> QED BY <2>1, <2>2
<1>3. \A i \in found : Doomed(kernel, v, e, hi, i) => i \in beaten
  <2> SUFFICES ASSUME NEW i, Found(kernel, v, lo, hi, i), Doomed(kernel, v, e, hi, i)
               PROVE  i \in beaten
    BY <1>2
  <2>1. i \in lo .. hi - 1
    BY <1>1, FoundInside
  <2>2. v[i] = Nth(i).v /\ v[hi] = Nth(hi).v /\ ~(hi >= e)
    BY <1>1, <2>1 DEF Doomed
  <2> QED BY <2>1, <2>2 DEF Doomed
<1> HIDE DEF found, beaten, v, e
<1>4. /\ \A n \in DOMAIN sweep : sweep[n] \in found
      /\ \A i \in found : i \in beaten \/ \E n \in DOMAIN sweep : sweep[n] = i
      /\ \A m, n \in DOMAIN sweep : m < n => sweep[m] < sweep[n]
  BY <1>1, <1>2, <1>3 DEF Tracks
<1>5. tracked \subseteq found /\ found \ tracked \subseteq beaten
  BY <1>4
<1> QED BY <1>4, <1>5 DEF SweepIsTheWindow, found, beaten, e

-----------------------------------------------------------------------------
(***************************************************************************)
(* What the rows have claimed.                                             *)
(***************************************************************************)
\* Where the chunks before the r-th end.
Ends(rs, r) == {rs[q][Len(rs[q])].t : q \in {p \in 1 .. r - 1 : rs[p] # <<>>}}

\* Everything up to the latest of these times is claimed, and nothing beyond.
Whole(last, times) ==
  IF times = {} THEN last = NoTime ELSE last \in times /\ \A t \in times : t <= last

InHand == pc \in {"row", "ready", "borrow", "suspended"} /\ row <= Len(rows)

\* In a row, what is claimed is short of the next sample to be read.
ClaimInv ==
  /\ pc = "between" /\ (row <= Len(rows) \/ lastT # IntMax) => Whole(lastT, Ends(rows, row))
  /\ pc = "close" \/ (pc = "suspended" /\ ~(row <= Len(rows))) => lastT = IntMax
  /\ InHand /\ position = Len(rows[row]) => Whole(lastT, Ends(rows, row + 1))
  /\ InHand /\ position < Len(rows[row]) =>
       /\ \A t \in Ends(rows, row) : lastT # NoTime /\ t <= lastT
       /\ lastT # NoTime => lastT < rows[row][position + 1].t

ClaimedInv == WindowInv /\ ClaimInv

\* One more chunk, one more end, if it has a sample.
LEMMA EndsGrow ==
  ASSUME NEW rs, NEW r, rs \in Seq(Seq(Sample)), r \in 1 .. Len(rs)
  PROVE  /\ Ends(rs, 1) = {}
         /\ Ends(rs, r) \subseteq Int
         /\ rs[r] = <<>> => Ends(rs, r + 1) = Ends(rs, r)
         /\ rs[r] # <<>> => /\ Ends(rs, r + 1) = Ends(rs, r) \cup {rs[r][Len(rs[r])].t}
                            /\ rs[r][Len(rs[r])].t \in Int
                            /\ Last(rs[r]) = rs[r][Len(rs[r])]
<1>1. Len(rs) \in Nat /\ r \in Nat /\ \A q \in 1 .. Len(rs) : rs[q] \in Seq(Sample)
  OBVIOUS
<1>2. \A s \in Seq(Sample) : s # <<>> => s[Len(s)] \in Sample
  <2> TAKE s \in Seq(Sample)
  <2> SUFFICES ASSUME s # <<>> PROVE s[Len(s)] \in Sample
    OBVIOUS
  <2>1. Len(s) \in 1 .. Len(s)
    OBVIOUS
  <2> QED BY <2>1
<1>3. \A e \in Sample : e.t \in Int
  BY DEF Sample
<1>4. \A q \in 1 .. Len(rs) : rs[q] # <<>> => rs[q][Len(rs[q])].t \in Int
  BY <1>1, <1>2, <1>3
<1>5. 1 .. (r + 1) - 1 = (1 .. r - 1) \cup {r} /\ 1 .. r - 1 \subseteq 1 .. Len(rs)
  BY <1>1
<1>6. 1 .. 1 - 1 = {}
  OBVIOUS
<1>7. Ends(rs, 1) = {}
  BY <1>6 DEF Ends
<1>8. Ends(rs, r) \subseteq Int
  BY <1>4, <1>5 DEF Ends
<1>9. rs[r] = <<>> => {p \in 1 .. (r + 1) - 1 : rs[p] # <<>>} = {p \in 1 .. r - 1 : rs[p] # <<>>}
  BY <1>5
<1>10. rs[r] # <<>> =>
         {p \in 1 .. (r + 1) - 1 : rs[p] # <<>>} = {p \in 1 .. r - 1 : rs[p] # <<>>} \cup {r}
  BY <1>5
<1>11. rs[r] # <<>> => Ends(rs, r + 1) = Ends(rs, r) \cup {rs[r][Len(rs[r])].t}
  BY <1>10 DEF Ends
<1>12. rs[r] = <<>> => Ends(rs, r + 1) = Ends(rs, r)
  BY <1>9 DEF Ends
<1>13. Last(rs[r]) = rs[r][Len(rs[r])]
  BY DEF Last
<1> QED BY <1>1, <1>4, <1>7, <1>8, <1>11, <1>12, <1>13

\* In a chunk in time order, the partition point parts what is due from what is not.
LEMMA ThroughParts ==
  ASSUME NEW s, NEW from, NEW time, s \in Seq(Sample), from \in 0 .. Len(s), time \in Int,
         InTimeOrder(s)
  PROVE  \A k \in from + 1 .. Len(s) : s[k].t <= time <=> k <= Through(s, from, time)
<1> DEFINE T == {k \in from + 1 .. Len(s) : s[k].t <= time}
           c == Cardinality(T)
           n == Len(s)
<1>1. /\ from \in Nat /\ n \in Nat /\ from <= n /\ T \in SUBSET (from + 1 .. n)
      /\ DOMAIN s = 1 .. n
  OBVIOUS
<1>2. Through(s, from, time) = from + c
  BY DEF Through
<1>3. \A k : k \in T <=> k \in from + 1 .. n /\ s[k].t <= time
  OBVIOUS
<1>4. \A j, k \in from + 1 .. n : j < k /\ k \in T => j \in T
  <2> TAKE j, k \in from + 1 .. n
  <2> SUFFICES ASSUME j < k, k \in T PROVE j \in T
    OBVIOUS
  <2>0. j \in 1 .. n /\ k \in 1 .. n
    BY <1>1
  <2>1. s[j].t <= s[k].t
    BY <1>1, <2>0 DEF InTimeOrder
  <2>2. s[k].t <= time
    BY <1>3
  <2>3. \A e \in Sample : e.t \in Int
    BY DEF Sample
  <2>4. s[j] \in Sample /\ s[k] \in Sample
    BY <1>1, <2>0
  <2>5. s[j].t \in Int /\ s[k].t \in Int
    BY <2>3, <2>4
  <2>6. s[j].t <= time
    BY <2>1, <2>2, <2>5
  <2> QED BY <1>3, <2>6
<1> HIDE DEF T, n
<1>5. c \in 0 .. n - from
  BY <1>1, CountWithin
<1>6. SUFFICES ASSUME NEW k \in from + 1 .. n PROVE k \in T <=> k <= from + c
  BY <1>2, <1>3 DEF n
<1>7. ASSUME k \in T PROVE k <= from + c
  <2>1. from + 1 .. k \subseteq T
    BY <1>1, <1>4, <1>7
  <2>2. IsFiniteSet(from + 1 .. n) /\ Cardinality(from + 1 .. k) = k - from
    <3> DEFINE a == from + 1
    <3>1. a \in Int /\ n \in Int /\ k \in Int /\ ~(a > k) /\ k - a + 1 = k - from
      BY <1>1
    <3> HIDE DEF a
    <3>2. IsFiniteSet(a .. n) /\ Cardinality(a .. k) = k - a + 1
      BY <3>1, FS_Interval
    <3> QED BY <3>1, <3>2 DEF a
  <2>3. IsFiniteSet(T)
    BY <1>1, <2>2, FS_Subset
  <2>4. k - from <= c
    BY <2>1, <2>2, <2>3, FS_Subset
  <2> HIDE DEF c
  <2> QED BY <1>1, <1>5, <2>4
<1>8. ASSUME k \notin T PROVE ~(k <= from + c)
  <2>1. T \in SUBSET (from + 1 .. k - 1)
    <3>1. ASSUME NEW j \in T PROVE j \in from + 1 .. k - 1
      <4>1. j \in from + 1 .. n /\ j # k /\ ~(k < j)
        BY <1>1, <1>4, <1>8, <3>1
      <4> QED BY <1>1, <4>1
    <3> QED BY <3>1
  <2>2. from \in Nat /\ k - 1 \in Nat /\ from <= k - 1
    BY <1>1
  <2>3. c \in 0 .. (k - 1) - from
    <3> DEFINE b == k - 1
    <3>1. b \in Nat /\ from <= b /\ T \in SUBSET (from + 1 .. b)
      BY <2>1, <2>2
    <3> HIDE DEF b
    <3>2. c \in 0 .. b - from
      BY <1>1, <3>1, CountWithin
    <3> QED BY <3>2 DEF b
  <2> HIDE DEF c
  <2> QED BY <1>1, <2>3
<1> QED BY <1>7, <1>8

\* The row in hand, and the times of its samples.
LEMMA RowTimes ==
  ASSUME TypeOK, row <= Len(rows)
  PROVE  /\ row \in 1 .. Len(rows) /\ rows \in Seq(Seq(Sample)) /\ Len(rows) \in Nat
         /\ rows[row] \in Seq(Sample) /\ Len(rows[row]) \in Nat
         /\ \A k \in 1 .. Len(rows[row]) : rows[row][k].t \in Int
         /\ \A j, k \in 1 .. Len(rows[row]) : j <= k => rows[row][j].t <= rows[row][k].t
         /\ InTimeOrder(rows[row])
<1>1. /\ row \in Nat \ {0} /\ input \in Inputs
  BY StateTyped
<1>2. rows \in Seq(Seq(Sample)) /\ Len(rows) \in Nat
  BY <1>1, InputTyped
<1>3. row \in 1 .. Len(rows) /\ row \in DOMAIN rows
  BY <1>1, <1>2
<1>4. rows[row] \in Seq(Sample) /\ Len(rows[row]) \in Nat /\ DOMAIN rows[row] = 1 .. Len(rows[row])
  BY <1>2, <1>3
<1>5. InTimeOrder(rows[row])
  BY <1>1, <1>3, BufferAssumption DEF rows
<1>6. \A e \in Sample : e.t \in Int
  BY DEF Sample
<1> DEFINE ts == rows[row]
<1>7. \A k \in 1 .. Len(ts) : ts[k].t \in Int
  BY <1>4, <1>6
<1>8. \A j, k \in 1 .. Len(ts) : j <= k => ts[j].t <= ts[k].t
  <2> TAKE j, k \in 1 .. Len(ts)
  <2>1. CASE j < k
    BY <1>4, <1>5, <2>1 DEF InTimeOrder
  <2>2. CASE j = k
    <3>1. ts[k].t \in Int
      BY <1>7
    <3> QED BY <2>2, <3>1
  <2>3. j <= k => j < k \/ j = k
    OBVIOUS
  <2> QED BY <2>1, <2>2, <2>3
<1> QED BY <1>2, <1>3, <1>4, <1>5, <1>7, <1>8

\* A turn that claims nothing, between the rows or within one.
LEMMA ClaimsStay ==
  ASSUME ClaimInv, rows' = rows, row' = row, position' = position, lastT' = lastT,
         \/ pc' = pc
         \/ InHand /\ pc' \in {"row", "ready", "borrow", "suspended"}
  PROVE  ClaimInv'
<1>1. CASE pc' = pc
  BY <1>1 DEF ClaimInv, InHand
<1>2. CASE InHand /\ pc' \in {"row", "ready", "borrow", "suspended"}
  BY <1>2 DEF ClaimInv, InHand
<1> QED BY <1>1, <1>2

\* A chunk is taken up: what an earlier one claimed of it is passed over.
LEMMA PushClaims ==
  ASSUME ClaimedInv, WindowInv', Push
  PROVE  ClaimInv'
<1>1. /\ rows' = rows /\ lastT' = lastT /\ pc = "between" /\ row <= Len(rows)
  BY InputKept DEF Push, series, history
<1>2. /\ row \in 1 .. Len(rows) /\ rows \in Seq(Seq(Sample)) /\ Len(rows) \in Nat
      /\ rows[row] \in Seq(Sample) /\ Len(rows[row]) \in Nat
      /\ \A k \in 1 .. Len(rows[row]) : rows[row][k].t \in Int
      /\ InTimeOrder(rows[row])
  BY <1>1, RowTimes DEF ClaimedInv, WindowInv
<1>3. Whole(lastT, Ends(rows, row)) /\ lastT \in Int \cup {NoTime}
  BY <1>1, StateTyped DEF ClaimedInv, WindowInv, ClaimInv
<1>4. CASE rows[row] = <<>>
  <2>1. row' = row + 1 /\ pc' = pc
    BY <1>4 DEF Push
  <2>2. Ends(rows, row + 1) = Ends(rows, row)
    BY <1>2, <1>4, EndsGrow
  <2> QED BY <1>1, <1>3, <2>1, <2>2 DEF ClaimInv, InHand
<1>5. CASE rows[row] # <<>>
  <2> DEFINE ts == rows[row]
             E == Ends(rows, row)
             n == Len(ts)
  <2>1. /\ pc' = "row" /\ row' = row
        /\ position' = IF lastT = NoTime THEN 0 ELSE Through(ts, 0, lastT)
    BY <1>5 DEF Push
  <2>2. /\ Ends(rows, row + 1) = E \cup {ts[n].t} /\ E \subseteq Int /\ ts[n].t \in Int
    BY <1>2, <1>5, EndsGrow
  <2>3. n \in Nat \ {0} /\ n \in 1 .. n
    BY <1>2, <1>5
  <2>4. CASE lastT = NoTime
    <3>1. E = {} /\ position' = 0 /\ 0 < n
      BY <1>3, <2>1, <2>2, <2>3, <2>4, BufferAssumption DEF Whole
    <3>2. ~(position' = n) /\ (\A t \in E : FALSE)
      BY <2>3, <3>1
    <3> QED BY <1>1, <2>1, <2>4, <3>1, <3>2 DEF ClaimInv, InHand
  <2>5. CASE lastT # NoTime
    <3>0. lastT \in Int /\ E # {} /\ lastT \in E /\ \A t \in E : t <= lastT
      BY <1>3, <2>5 DEF Whole
    <3> DEFINE p == Through(ts, 0, lastT)
    <3>1. p \in 0 .. n /\ \A k \in 0 + 1 .. n : ts[k].t <= lastT <=> k <= p
      <4>1. 0 \in 0 .. Len(ts) /\ ts \in Seq(Sample) /\ InTimeOrder(ts)
        BY <1>2
      <4> HIDE DEF ts
      <4> QED BY <3>0, <4>1, ThroughIn, ThroughParts
    <3>2. position' = p
      BY <2>1, <2>5
    <3> HIDE DEF p, n, E, ts
    <3>3. p = n => Whole(lastT, E \cup {ts[n].t})
      <4> SUFFICES ASSUME p = n PROVE Whole(lastT, E \cup {ts[n].t})
        OBVIOUS
      <4>1. ts[n].t <= lastT
        BY <2>3, <3>1
      <4> QED BY <3>0, <4>1 DEF Whole
    <3>4. p < n => lastT < ts[p + 1].t
      <4> SUFFICES ASSUME p < n PROVE lastT < ts[p + 1].t
        OBVIOUS
      <4>1. p + 1 \in 1 .. n /\ ~(p + 1 <= p)
        BY <2>3, <3>1
      <4>2. ~(ts[p + 1].t <= lastT) /\ ts[p + 1].t \in Int
        BY <1>2, <3>1, <4>1 DEF n, ts
      <4> QED BY <3>0, <4>2
    <3> QED BY <1>1, <2>1, <2>2, <2>5, <3>0, <3>2, <3>3, <3>4 DEF ClaimInv, InHand, E, n, ts
  <2> QED BY <2>4, <2>5
<1> QED BY <1>4, <1>5

\* The end of a chunk that is not all read is the latest so far.
LEMMA LatestEnd ==
  ASSUME ClaimedInv, InHand, position < Len(rows[row])
  PROVE  /\ Ends(rows, row + 1) = Ends(rows, row) \cup {Last(rows[row]).t}
         /\ Last(rows[row]).t \in Int
         /\ Last(rows[row]) = rows[row][Len(rows[row])]
         /\ \A t \in Ends(rows, row) : t <= Last(rows[row]).t
         /\ lastT # NoTime => lastT < Last(rows[row]).t
         /\ Whole(Last(rows[row]).t, Ends(rows, row + 1))
<1> DEFINE ts == rows[row]
           n == Len(ts)
           E == Ends(rows, row)
<1>1. /\ row \in 1 .. Len(rows) /\ rows \in Seq(Seq(Sample))
      /\ ts \in Seq(Sample) /\ n \in Nat
      /\ \A k \in 1 .. n : ts[k].t \in Int
      /\ \A j, k \in 1 .. n : j <= k => ts[j].t <= ts[k].t
  BY RowTimes DEF ClaimedInv, WindowInv, InHand
<1>2. position \in Nat /\ position < n /\ lastT \in Int \cup {NoTime}
  BY StateTyped DEF ClaimedInv, WindowInv
<1>3. /\ \A t \in E : lastT # NoTime /\ t <= lastT
      /\ lastT # NoTime => lastT < ts[position + 1].t
  BY <1>2 DEF ClaimedInv, ClaimInv
<1>4. ts # <<>>
  BY <1>1, <1>2
<1>5. /\ Ends(rows, row + 1) = E \cup {ts[n].t} /\ E \subseteq Int /\ ts[n].t \in Int
      /\ Last(ts) = ts[n]
  BY <1>1, <1>4, EndsGrow
<1> HIDE DEF ts, n, E
<1>6. position + 1 \in 1 .. n /\ n \in 1 .. n /\ position + 1 <= n
  BY <1>1, <1>2
<1>7. ts[position + 1].t <= ts[n].t /\ ts[position + 1].t \in Int
  BY <1>1, <1>6
<1>8. lastT # NoTime => lastT < ts[n].t
  BY <1>2, <1>3, <1>5, <1>7
<1>9. \A t \in E : t <= ts[n].t
  <2> TAKE t \in E
  <2>1. t \in Int /\ lastT # NoTime /\ t <= lastT
    BY <1>3, <1>5
  <2>2. lastT < ts[n].t /\ lastT \in Int
    BY <1>2, <1>8, <2>1
  <2> QED BY <1>5, <2>1, <2>2
<1>10. Whole(ts[n].t, E \cup {ts[n].t})
  BY <1>5, <1>9 DEF Whole
<1> QED BY <1>5, <1>8, <1>9, <1>10 DEF ts, n, E

\* What is ingested is claimed up to the next sample, a cut run of equal times left whole.
LEMMA IngestClaims ==
  ASSUME ClaimedInv, WindowInv', IngestSlice
  PROVE  ClaimInv'
<1>1. /\ rows' = rows /\ row' = row /\ pc = "row" /\ position < Len(rows[row])
      /\ position' = Until /\ lastT' = Watermark /\ pc' \in {"row", "borrow"}
  BY InputKept DEF IngestSlice, Ingesting, AtRow, series
<1>2. row <= Len(rows) /\ InHand
  BY <1>1 DEF ClaimedInv, WindowInv, Grounded, InHand
<1> DEFINE ts == rows[row]
           n == Len(ts)
           E == Ends(rows, row)
           u == Until
           e == ts[u].t
<1>3. /\ ts \in Seq(Sample) /\ n \in Nat
      /\ \A k \in 1 .. n : ts[k].t \in Int
      /\ \A j, k \in 1 .. n : j <= k => ts[j].t <= ts[k].t
  BY <1>2, RowTimes DEF ClaimedInv, WindowInv
<1>4. position \in 0 .. n /\ position \in Nat
  BY <1>1, RowInHand DEF ClaimedInv
<1>5. u \in position + 1 .. n
  <2>1. Alive \in position .. n
    BY <1>3, <1>4, ThroughIn DEF Alive
  <2>2. Alive \in Nat /\ Allowance \in Nat \ {0} /\ u = Alive + Allowance /\ u \in 1 .. n
    <3>1. Allowance \in 1 .. budget /\ u \in 1 .. n /\ Alive \in 0 .. n - 1
      BY IngestTyped DEF ClaimedInv
    <3> QED BY <3>1 DEF Until
  <2> HIDE DEF n, u
  <2> QED BY <1>4, <2>1, <2>2
<1>6. /\ Ends(rows, row + 1) = E \cup {Last(ts).t} /\ Last(ts) = ts[n]
      /\ Whole(Last(ts).t, Ends(rows, row + 1))
  BY <1>1, <1>2, LatestEnd
<1>7. /\ \A t \in E : lastT # NoTime /\ t <= lastT
      /\ lastT # NoTime => lastT < ts[position + 1].t
      /\ lastT \in Int \cup {NoTime}
  BY <1>1, <1>2, StateTyped DEF ClaimedInv, WindowInv, ClaimInv
<1>8. E \subseteq Int
  BY <1>2, RowTimes, EndsGrow DEF ClaimedInv, WindowInv
<1>9. Watermark = IF u < n /\ ts[u + 1].t = e THEN e - 1 ELSE e
  BY DEF Watermark
<1> HIDE DEF ts, n, E, u
<1>10. /\ u \in 1 .. n /\ position + 1 \in 1 .. n /\ position + 1 <= u /\ u \in Nat /\ e \in Int
       /\ ts[position + 1].t <= e /\ ts[position + 1].t \in Int
  <2>1. u \in 1 .. n /\ position + 1 \in 1 .. n /\ position + 1 <= u /\ u \in Nat
    BY <1>3, <1>4, <1>5
  <2> QED BY <1>3, <2>1
<1>11. \A t \in E : t < e
  <2> TAKE t \in E
  <2>1. t \in Int /\ lastT # NoTime /\ t <= lastT
    BY <1>7, <1>8
  <2>2. lastT \in Int /\ lastT < ts[position + 1].t
    BY <1>7, <2>1
  <2> QED BY <1>10, <2>1, <2>2
<1>12. CASE u = n
  <2>1. Watermark = Last(ts).t /\ ~(u < n)
    BY <1>3, <1>6, <1>9, <1>12
  <2> QED BY <1>1, <1>6, <1>12, <2>1 DEF ClaimInv, InHand, ts, n, u
<1>13. CASE u # n
  <2>1. u < n /\ u + 1 \in 1 .. n /\ u <= u + 1
    BY <1>3, <1>10, <1>13
  <2>2. ts[u + 1].t \in Int /\ e <= ts[u + 1].t
    BY <1>3, <1>10, <2>1
  <2>3. Watermark \in Int /\ Watermark < ts[u + 1].t
    BY <1>9, <1>10, <2>1, <2>2
  <2>4. \A t \in E : t <= Watermark
    BY <1>8, <1>9, <1>10, <1>11
  <2>5. Watermark # NoTime
    BY <2>3, BufferAssumption
  <2> QED BY <1>1, <1>13, <2>3, <2>4, <2>5 DEF ClaimInv, InHand, ts, n, u, E
<1> QED BY <1>12, <1>13

\* Every turn.
LEMMA ClaimedNext == ASSUME ClaimedInv, [Next]_vars PROVE ClaimedInv'
<1>1. WindowInv'
  BY WindowNext DEF ClaimedInv
<1>2. SUFFICES ClaimInv'
  BY <1>1 DEF ClaimedInv
<1>3. pc \in {"row", "ready", "borrow"} => InHand
  BY DEF ClaimedInv, WindowInv, Grounded, InHand
<1>4. CASE Poll
  <2>1. /\ rows' = rows /\ row' = row /\ position' = position /\ lastT' = lastT
        /\ \/ pc = "between" /\ pc' = pc
           \/ pc = "suspended" /\ pc' = IF row <= Len(rows) THEN "row" ELSE "between"
    BY <1>4, InputKept DEF Poll, series, history
  <2>2. CASE pc' = pc
    BY <2>1, <2>2, ClaimsStay DEF ClaimedInv
  <2>3. CASE pc = "suspended" /\ row <= Len(rows)
    BY <2>1, <2>3, ClaimsStay DEF ClaimedInv, InHand
  <2>4. CASE pc = "suspended" /\ ~(row <= Len(rows))
    <3>1. lastT' = IntMax /\ pc' = "between" /\ ~(row' <= Len(rows'))
      BY <2>1, <2>4 DEF ClaimedInv, ClaimInv
    <3> QED BY <3>1 DEF ClaimInv, InHand
  <2> QED BY <2>1, <2>2, <2>3, <2>4
<1>5. CASE Push BY <1>1, <1>5, PushClaims
<1>6. CASE EnterKernel
  <2>1. /\ rows' = rows /\ row' = row /\ position' = position /\ lastT' = lastT
        /\ pc = "row" /\ pc' = "ready"
    BY <1>6, InputKept DEF EnterKernel, series, history
  <2> QED BY <1>3, <2>1, ClaimsStay DEF ClaimedInv
<1>7. CASE EndRow
  <2>1. /\ rows' = rows /\ position' = position /\ lastT' = lastT /\ pc = "row"
    BY <1>7, InputKept DEF EndRow, AtRow, series, history
  <2>2. \/ position = Len(rows[row]) /\ pc' = "between" /\ row' = row + 1
        \/ pc' = "suspended" /\ row' = row
    BY <1>7, Zenon DEF EndRow
  <2>3. CASE pc' = "suspended" /\ row' = row
    BY <1>3, <2>1, <2>3, ClaimsStay DEF ClaimedInv
  <2>4. CASE position = Len(rows[row]) /\ pc' = "between" /\ row' = row + 1
    <3>1. Whole(lastT, Ends(rows, row + 1))
      BY <1>3, <2>1, <2>4 DEF ClaimedInv, ClaimInv
    <3> QED BY <2>1, <2>4, <3>1 DEF ClaimInv, InHand
  <2> QED BY <2>2, <2>3, <2>4
<1>8. CASE DropRow
  <2>1. /\ rows' = rows /\ lastT' = Claimed(lastT, Last(rows[row]).t) /\ pc = "row"
        /\ pc' = "between" /\ row' = row + 1 /\ position < Len(rows[row])
    BY <1>8, InputKept DEF DropRow, AtRow, series
  <2>2. /\ Last(rows[row]).t \in Int /\ (lastT # NoTime => lastT < Last(rows[row]).t)
        /\ Whole(Last(rows[row]).t, Ends(rows, row + 1)) /\ lastT \in Int \cup {NoTime}
    BY <1>3, <2>1, LatestEnd, StateTyped DEF ClaimedInv, WindowInv
  <2>3. lastT' = Last(rows[row]).t
    BY <2>1, <2>2 DEF Claimed, Greater
  <2> QED BY <2>1, <2>2, <2>3 DEF ClaimInv, InHand
<1>9. CASE SkipTail
  <2>1. /\ rows' = rows /\ lastT' = Claimed(lastT, Last(rows[row]).t) /\ pc = "row"
        /\ pc' = pc /\ row' = row /\ position < Len(rows[row]) /\ position' = Len(rows[row])
    BY <1>9, InputKept DEF SkipTail, Ingesting, AtRow, series
  <2>2. /\ Last(rows[row]).t \in Int /\ (lastT # NoTime => lastT < Last(rows[row]).t)
        /\ Whole(Last(rows[row]).t, Ends(rows, row + 1)) /\ lastT \in Int \cup {NoTime}
    BY <1>3, <2>1, LatestEnd, StateTyped DEF ClaimedInv, WindowInv
  <2>3. lastT' = Last(rows[row]).t
    BY <2>1, <2>2 DEF Claimed, Greater
  <2>4. Len(rows[row]) \in Nat
    BY <2>1, RowInHand DEF ClaimedInv
  <2> QED BY <2>1, <2>2, <2>3, <2>4 DEF ClaimInv, InHand
<1>10. CASE IngestSlice BY <1>1, <1>10, IngestClaims
<1>11. CASE Kernel
  <2>1. input' = input /\ row' = row /\ position' = position /\ lastT' = lastT /\ pc' = pc
    BY <1>11 DEF Kernel, AdvanceLeft, DropBeaten, AdvanceRight, Evaluate, PinValue, RepeatPinned,
              series
  <2> QED BY <2>1, InputKept, ClaimsStay DEF ClaimedInv
<1>12. CASE ReturnToRow
  <2>1. /\ input' = input /\ row' = row /\ position' = position /\ lastT' = lastT
        /\ pc = "ready" /\ pc' \in {"row", "suspended"}
    BY <1>12 DEF ReturnToRow, series
  <2> QED BY <1>3, <2>1, InputKept, ClaimsStay DEF ClaimedInv
<1>13. CASE ReturnSlice
  <2>1. /\ input' = input /\ row' = row /\ position' = position /\ lastT' = lastT
        /\ pc = "borrow" /\ pc' = "row"
    BY <1>13 DEF ReturnSlice, series
  <2> QED BY <1>3, <2>1, InputKept, ClaimsStay DEF ClaimedInv
<1>14. ASSUME pc' = "closed" PROVE ClaimInv'
  BY <1>14 DEF ClaimInv, InHand
<1>15. CASE ReturnToClose
  <2>1. /\ rows' = rows /\ row' = row /\ pc = "close"
    BY <1>15, InputKept DEF ReturnToClose, series
  <2>2. CASE Reset BY <1>14, <2>2 DEF Reset
  <2>3. CASE ~Reset
    <3>1. pc' = "suspended" /\ lastT' = lastT
      BY <1>15, <2>3 DEF ReturnToClose
    <3>2. lastT = IntMax /\ ~(row <= Len(rows))
      <4>1. row > Len(rows) /\ lastT = IntMax
        BY <2>1 DEF ClaimedInv, ClaimInv, WindowInv, Grounded
      <4> QED BY <4>1, StateTyped, InputTyped DEF ClaimedInv, WindowInv
    <3> QED BY <2>1, <3>1, <3>2 DEF ClaimInv, InHand
  <2> QED BY <2>2, <2>3
<1>16. CASE Close
  <2>1. CASE Reset BY <1>14, <2>1 DEF Reset
  <2>2. CASE ~Reset
    <3>1. pc' = "close" /\ lastT' = IntMax
      BY <1>16, <2>2 DEF Close
    <3> QED BY <3>1 DEF ClaimInv, InHand
  <2> QED BY <2>1, <2>2
<1>17. CASE UNCHANGED vars
  <2>1. input' = input /\ row' = row /\ position' = position /\ lastT' = lastT /\ pc' = pc
    BY <1>17 DEF vars, series
  <2> QED BY <2>1, InputKept, ClaimsStay DEF ClaimedInv
<1> QED
  BY <1>4, <1>5, <1>6, <1>7, <1>8, <1>9, <1>10, <1>11, <1>12, <1>13, <1>15, <1>16, <1>17
  DEF Next, Row, Return

\* Nothing is claimed at first.
LEMMA ClaimedInit == Init => ClaimedInv
<1> SUFFICES ASSUME Init PROVE ClaimedInv
  OBVIOUS
<1>1. WindowInv
  BY WindowInit
<1>2. pc = "between" /\ row = 1 /\ lastT = NoTime
  BY DEF Init
<1>3. 1 .. 1 - 1 = {}
  OBVIOUS
<1>4. Ends(rows, row) = {}
  BY <1>2, <1>3 DEF Ends
<1> QED BY <1>1, <1>2, <1>4 DEF ClaimedInv, ClaimInv, InHand, Whole

\* What was claimed is whole between two rows.
LEMMA ClaimsAreWhole == ClaimedInv => RowsClaimWhole
<1> SUFFICES ASSUME ClaimedInv, pc = "between", lastT # IntMax PROVE RowsClaimWhole
  BY DEF RowsClaimWhole
<1>1. Whole(lastT, Ends(rows, row))
  BY DEF ClaimedInv, ClaimInv
<1> QED BY <1>1 DEF Whole, Ends, RowsClaimWhole

-----------------------------------------------------------------------------
(***************************************************************************)
(* The candidate of one step.                                              *)
(***************************************************************************)
\* The latest of these samples inside a window, if any.
IsLatest(seen, from, to, s) ==
  \/ s = NoSample /\ \A k \in DOMAIN seen : ~(from < seen[k].t /\ seen[k].t <= to)
  \/ \E k \in DOMAIN seen :
       /\ s = seen[k] /\ from < seen[k].t /\ seen[k].t <= to
       /\ \A j \in DOMAIN seen : k < j => ~(from < seen[j].t /\ seen[j].t <= to)

\* More samples outside the window leave it the latest; one inside takes its place.
LEMMA LatestExtends ==
  ASSUME NEW seen, NEW more, NEW from, NEW to, NEW s, seen \in Seq(Sample), more \in Seq(Sample),
         IsLatest(seen, from, to, s)
  PROVE  /\ (\A k \in DOMAIN more : ~(from < more[k].t /\ more[k].t <= to)) =>
              IsLatest(seen \o more, from, to, s)
         /\ \A k \in DOMAIN more :
              /\ from < more[k].t /\ more[k].t <= to
              /\ \A j \in DOMAIN more : k < j => ~(from < more[j].t /\ more[j].t <= to)
              => IsLatest(seen \o more, from, to, more[k])
<1> DEFINE a == Len(seen)
           b == Len(more)
           all == seen \o more
           In(e) == from < e.t /\ e.t <= to
<1>1. /\ a \in Nat /\ b \in Nat /\ DOMAIN seen = 1 .. a /\ DOMAIN more = 1 .. b
      /\ DOMAIN all = 1 .. a + b
      /\ \A k \in 1 .. a : all[k] = seen[k]
      /\ \A k \in 1 .. b : all[a + k] = more[k]
  OBVIOUS
<1> HIDE DEF a, b, all
<1>2. \A k \in 1 .. a + b : k \in 1 .. a \/ (k - a \in 1 .. b /\ k = a + (k - a))
  BY <1>1
<1>3. \A k \in 1 .. b : a + k \in 1 .. a + b
  BY <1>1
<1>4. \A k \in 1 .. a : k \in 1 .. a + b
  BY <1>1
<1>5. /\ s = NoSample /\ (\A k \in 1 .. a : ~In(seen[k]))
      \/ \E k \in 1 .. a : s = seen[k] /\ In(seen[k]) /\ \A j \in 1 .. a : k < j => ~In(seen[j])
  BY <1>1 DEF IsLatest
<1>6. \A e : IsLatest(all, from, to, e) <=>
        \/ e = NoSample /\ (\A k \in 1 .. a + b : ~In(all[k]))
        \/ \E k \in 1 .. a + b : e = all[k] /\ In(all[k]) /\ \A j \in 1 .. a + b : k < j => ~In(all[j])
  BY <1>1 DEF IsLatest
<1> HIDE DEF In
<1>7. ASSUME \A k \in 1 .. b : ~In(more[k]) PROVE IsLatest(all, from, to, s)
  <2>1. \A k \in 1 .. a + b : k \in 1 .. a \/ ~In(all[k])
    BY <1>1, <1>2, <1>7
  <2>2. CASE s = NoSample /\ \A k \in 1 .. a : ~In(seen[k])
    <3>1. \A k \in 1 .. a + b : ~In(all[k])
      BY <1>1, <2>1, <2>2
    <3> QED BY <1>6, <2>2, <3>1
  <2>3. CASE \E k \in 1 .. a : s = seen[k] /\ In(seen[k]) /\ \A j \in 1 .. a : k < j => ~In(seen[j])
    <3>1. PICK k \in 1 .. a : s = seen[k] /\ In(seen[k]) /\ \A j \in 1 .. a : k < j => ~In(seen[j])
      BY <2>3
    <3>2. k \in 1 .. a + b /\ s = all[k] /\ In(all[k])
      BY <1>1, <1>4, <3>1
    <3>3. \A j \in 1 .. a + b : k < j => ~In(all[j])
      BY <1>1, <2>1, <3>1
    <3> QED BY <1>6, <3>2, <3>3
  <2> QED BY <1>5, <2>2, <2>3
<1>8. ASSUME NEW k \in 1 .. b, In(more[k]), \A j \in 1 .. b : k < j => ~In(more[j])
      PROVE  IsLatest(all, from, to, more[k])
  <2>1. a + k \in 1 .. a + b /\ more[k] = all[a + k] /\ In(all[a + k])
    BY <1>1, <1>3, <1>8
  <2>2. \A j \in 1 .. a + b : a + k < j => ~In(all[j])
    <3> SUFFICES ASSUME NEW j \in 1 .. a + b, a + k < j PROVE ~In(all[j])
      OBVIOUS
    <3>1. j - a \in 1 .. b /\ j = a + (j - a) /\ k < j - a
      BY <1>1
    <3>2. all[j] = more[j - a]
      BY <1>1, <3>1
    <3> QED BY <1>8, <3>1, <3>2
  <2> QED BY <1>6, <2>1, <2>2
<1> QED BY <1>1, <1>7, <1>8 DEF all, In

\* Where the unseen part of a chunk begins.
Seen(last, chunk) == IF last = NoTime THEN 0 ELSE Through(chunk, 0, last)

Caught(seen, last) ==
  /\ seen = <<>> <=> last = NoTime
  /\ seen # <<>> => Last(seen).t = last

\* It is the rest of the chunk, and its last is the chunk's.
LEMMA UnseenIsTheRest ==
  ASSUME NEW seen, NEW last, NEW chunk, seen \in Seq(Sample), chunk \in Seq(Sample), InTimeOrder(chunk),
         last \in Int \cup {NoTime}, Caught(seen, last)
  PROVE  /\ Seen(last, chunk) \in 0 .. Len(chunk)
         /\ Unseen(seen, chunk) \in Seq(Sample)
         /\ Len(Unseen(seen, chunk)) = Len(chunk) - Seen(last, chunk)
         /\ \A n \in 1 .. Len(chunk) - Seen(last, chunk) :
              Unseen(seen, chunk)[n] = chunk[Seen(last, chunk) + n]
         /\ last # NoTime => \A k \in 1 .. Len(chunk) : chunk[k].t <= last <=> k <= Seen(last, chunk)
<1> DEFINE from == Seen(last, chunk)
           ks == {k \in DOMAIN chunk : seen = <<>> \/ chunk[k].t > Last(seen).t}
<1>1. Len(chunk) \in Nat /\ DOMAIN chunk = 1 .. Len(chunk) /\ 0 \in 0 .. Len(chunk)
  OBVIOUS
<1>2. \A e \in Sample : e.t \in Int
  BY DEF Sample
<1>3. \A k \in 1 .. Len(chunk) : chunk[k].t \in Int
  BY <1>1, <1>2
<1>4. /\ from \in 0 .. Len(chunk)
      /\ last # NoTime => \A k \in 1 .. Len(chunk) : chunk[k].t <= last <=> k <= from
  <2>1. CASE last = NoTime
    BY <1>1, <2>1 DEF Seen
  <2>2. CASE last # NoTime
    <3>1. last \in Int /\ from = Through(chunk, 0, last)
      BY <2>2 DEF Seen
    <3>2. Through(chunk, 0, last) \in 0 .. Len(chunk)
      BY <1>1, ThroughIn
    <3>3. \A k \in 0 + 1 .. Len(chunk) : chunk[k].t <= last <=> k <= Through(chunk, 0, last)
      BY <1>1, <3>1, ThroughParts
    <3> QED BY <3>1, <3>2, <3>3
  <2> QED BY <2>1, <2>2
<1> HIDE DEF from
<1>5. ks = from + 1 .. Len(chunk)
  <2>1. CASE last = NoTime
    <3>1. seen = <<>> /\ from = 0
      BY <2>1 DEF Caught, from, Seen
    <3> QED BY <1>1, <3>1
  <2>2. CASE last # NoTime
    <3>1. seen # <<>> /\ Last(seen).t = last /\ last \in Int
      BY <2>2 DEF Caught
    <3>2. \A k \in 1 .. Len(chunk) : chunk[k].t > Last(seen).t <=> ~(k <= from)
      BY <1>3, <1>4, <2>2, <3>1
    <3>3. \A k : k \in from + 1 .. Len(chunk) <=> k \in 1 .. Len(chunk) /\ ~(k <= from)
      BY <1>1, <1>4
    <3> QED BY <1>1, <3>1, <3>2, <3>3
  <2> QED BY <2>1, <2>2
<1>6. Unseen(seen, chunk) = At(chunk, from + 1 .. Len(chunk))
  BY <1>5, Zenon DEF Unseen
<1>7. /\ Len(At(chunk, from + 1 .. Len(chunk))) = Len(chunk) - from
      /\ \A n \in 1 .. Len(chunk) - from : At(chunk, from + 1 .. Len(chunk))[n] = chunk[from + n]
  BY <1>4, AtTail
<1>8. Unseen(seen, chunk) \in Seq(Sample)
  BY UnseenTyped
<1> QED BY <1>4, <1>6, <1>7, <1>8, Zenon DEF from

\* The pick of a chunk, over values.
PickOf(last, chunk, from, to, s) ==
  IF /\ Last(chunk).t > from
     /\ last # NoTime => last < to
  THEN LET rest == Seen(last, chunk)
           top == Through(chunk, rest, to)
       IN  IF top > rest /\ chunk[top].t > from THEN chunk[top] ELSE s
  ELSE s

\* It is the latest once more, when it was the latest before.
LEMMA PickIsLatest ==
  ASSUME NEW seen, NEW last, NEW chunk, NEW from, NEW to, NEW s,
         seen \in Seq(Sample), chunk \in Seq(Sample), chunk # <<>>, InTimeOrder(chunk),
         last \in Int \cup {NoTime}, Caught(seen, last), from \in Int, to \in Int,
         IsLatest(seen, from, to, s)
  PROVE  IsLatest(seen \o Unseen(seen, chunk), from, to, PickOf(last, chunk, from, to, s))
<1> DEFINE rest == Seen(last, chunk)
           more == Unseen(seen, chunk)
           n == Len(chunk)
           top == Through(chunk, rest, to)
           In(e) == from < e.t /\ e.t <= to
<1>1. /\ rest \in 0 .. n /\ more \in Seq(Sample) /\ Len(more) = n - rest
      /\ \A k \in 1 .. n - rest : more[k] = chunk[rest + k]
      /\ last # NoTime => \A k \in 1 .. n : chunk[k].t <= last <=> k <= rest
  BY UnseenIsTheRest
<1>2. n \in Nat \ {0} /\ DOMAIN chunk = 1 .. n /\ Last(chunk) = chunk[n]
  BY DEF Last
<1>3. \A k \in 1 .. n : chunk[k].t \in Int
  <2>1. \A e \in Sample : e.t \in Int
    BY DEF Sample
  <2>2. \A k \in 1 .. n : chunk[k] \in Sample
    BY <1>2
  <2> QED BY <2>1, <2>2
<1>4. top \in rest .. n /\ \A k \in rest + 1 .. n : chunk[k].t <= to <=> k <= top
  <2> HIDE DEF rest
  <2>1. rest \in 0 .. Len(chunk)
    BY <1>1
  <2> QED BY <2>1, ThroughIn, ThroughParts
<1>5. \A k \in 1 .. n : chunk[k].t <= chunk[n].t
  <2> TAKE k \in 1 .. n
  <2>1. CASE k < n
    <3>1. n \in 1 .. n
      BY <1>2
    <3> QED BY <1>2, <2>1, <3>1 DEF InTimeOrder
  <2>2. CASE ~(k < n)
    <3>1. n \in Nat /\ k \in Nat /\ k <= n
      BY <1>2
    <3>2. k = n
      <4> HIDE DEF n
      <4> QED BY <2>2, <3>1
    <3>3. chunk[k].t \in Int
      BY <1>3
    <3> QED BY <3>2, <3>3
  <2> QED BY <2>1, <2>2
<1>6. /\ (\A k \in DOMAIN more : ~In(more[k])) => IsLatest(seen \o more, from, to, s)
      /\ \A k \in DOMAIN more :
           In(more[k]) /\ (\A j \in DOMAIN more : k < j => ~In(more[j])) =>
             IsLatest(seen \o more, from, to, more[k])
  BY <1>1, LatestExtends
<1>7. PickOf(last, chunk, from, to, s) =
        IF /\ chunk[n].t > from
           /\ last # NoTime => last < to
        THEN IF top > rest /\ chunk[top].t > from THEN chunk[top] ELSE s
        ELSE s
  BY <1>2, Zenon DEF PickOf
<1> HIDE DEF rest, more, n, top
<1>8. DOMAIN more = 1 .. n - rest
  BY <1>1
<1>9. \A k \in 1 .. n - rest : rest + k \in 1 .. n /\ rest + k \in rest + 1 .. n /\ ~(rest + k <= rest)
  BY <1>1, <1>2
<1>10. CASE ~(chunk[n].t > from)
  <2>1. \A k \in 1 .. n : ~(from < chunk[k].t)
    <3> TAKE k \in 1 .. n
    <3>1. chunk[k].t \in Int /\ chunk[n].t \in Int /\ chunk[k].t <= chunk[n].t
      BY <1>2, <1>3, <1>5
    <3> QED BY <1>10, <3>1
  <2>2. \A k \in DOMAIN more : ~In(more[k])
    BY <1>1, <1>8, <1>9, <2>1
  <2> QED BY <1>6, <1>7, <1>10, <2>2 DEF more
<1>11. CASE last # NoTime /\ ~(last < to)
  <2>1. \A k \in 1 .. n : ~(k <= rest) => ~(chunk[k].t <= to)
    <3> SUFFICES ASSUME NEW k \in 1 .. n, ~(k <= rest) PROVE ~(chunk[k].t <= to)
      OBVIOUS
    <3>1. ~(chunk[k].t <= last) /\ chunk[k].t \in Int /\ last \in Int
      BY <1>1, <1>3, <1>11
    <3> QED BY <1>11, <3>1
  <2>2. \A k \in DOMAIN more : ~In(more[k])
    BY <1>1, <1>8, <1>9, <2>1
  <2> QED BY <1>6, <1>7, <1>11, <2>2 DEF more
<1>12. CASE chunk[n].t > from /\ (last # NoTime => last < to)
  <2>1. PickOf(last, chunk, from, to, s) =
          IF top > rest /\ chunk[top].t > from THEN chunk[top] ELSE s
    BY <1>7, <1>12
  <2>2. CASE top > rest /\ chunk[top].t > from
    <3> DEFINE m == top - rest
    <3>1. m \in 1 .. n - rest /\ rest + m = top
      BY <1>1, <1>2, <1>4, <2>2
    <3>2. more[m] = chunk[top] /\ top \in rest + 1 .. n /\ top <= top
      BY <1>1, <1>2, <1>4, <3>1
    <3>3. In(more[m])
      BY <1>4, <2>2, <3>2
    <3>4. \A j \in 1 .. n - rest : m < j => ~In(more[j])
      <4> SUFFICES ASSUME NEW j \in 1 .. n - rest, m < j PROVE ~In(more[j])
        OBVIOUS
      <4>1. rest + j \in rest + 1 .. n /\ ~(rest + j <= top)
        BY <1>1, <1>2, <1>4, <3>1
      <4>2. ~(chunk[rest + j].t <= to) /\ more[j] = chunk[rest + j]
        BY <1>1, <1>4, <4>1
      <4> QED BY <4>2
    <3> HIDE DEF m
    <3> QED BY <1>6, <1>8, <2>1, <2>2, <3>1, <3>2, <3>3, <3>4 DEF more
  <2>3. CASE ~(top > rest /\ chunk[top].t > from)
    <3>1. \A k \in rest + 1 .. n : ~(from < chunk[k].t /\ chunk[k].t <= to)
      <4> SUFFICES ASSUME NEW k \in rest + 1 .. n, chunk[k].t <= to PROVE ~(from < chunk[k].t)
        OBVIOUS
      <4>1. k <= top /\ top > rest /\ k \in 1 .. n /\ top \in 1 .. n
        BY <1>1, <1>2, <1>4
      <4>2. ~(chunk[top].t > from) /\ chunk[top].t \in Int /\ chunk[k].t \in Int
        BY <1>3, <2>3, <4>1
      <4>3. chunk[k].t <= chunk[top].t
        <5>1. CASE k < top
          BY <1>2, <4>1, <5>1 DEF InTimeOrder
        <5>2. CASE ~(k < top)
          <6>1. k = top
            BY <1>2, <4>1, <5>2
          <6> QED BY <4>2, <6>1
        <5> QED BY <5>1, <5>2
      <4> QED BY <4>2, <4>3
    <3>2. \A k \in DOMAIN more : ~In(more[k])
      BY <1>1, <1>8, <1>9, <3>1
    <3> QED BY <1>6, <2>1, <2>3, <3>2 DEF more
  <2> QED BY <2>2, <2>3
<1> QED BY <1>10, <1>11, <1>12

\* What has been seen is claimed.
LEMMA StaysCaught ==
  ASSUME NEW seen, NEW last, NEW chunk,
         seen \in Seq(Sample), chunk \in Seq(Sample), chunk # <<>>, InTimeOrder(chunk),
         last \in Int \cup {NoTime}, Caught(seen, last)
  PROVE  Caught(seen \o Unseen(seen, chunk), Claimed(last, Last(chunk).t))
<1> DEFINE rest == Seen(last, chunk)
           more == Unseen(seen, chunk)
           n == Len(chunk)
           all == seen \o more
           e == Last(chunk).t
<1>1. /\ rest \in 0 .. n /\ more \in Seq(Sample) /\ Len(more) = n - rest
      /\ \A k \in 1 .. n - rest : more[k] = chunk[rest + k]
      /\ last # NoTime => \A k \in 1 .. n : chunk[k].t <= last <=> k <= rest
  BY UnseenIsTheRest
<1>2. n \in Nat \ {0} /\ n \in 1 .. n /\ Last(chunk) = chunk[n] /\ e \in Int
  BY LastTyped DEF Last
<1>3. /\ Len(all) = Len(seen) + Len(more) /\ Len(seen) \in Nat /\ all \in Seq(Sample)
      /\ \A k \in 1 .. Len(seen) : all[k] = seen[k]
      /\ \A k \in 1 .. Len(more) : all[Len(seen) + k] = more[k]
  <2>1. more \in Seq(Sample)
    BY <1>1
  <2> HIDE DEF more
  <2> QED BY <2>1
<1>4. Last(all) = all[Len(all)] /\ Last(seen) = seen[Len(seen)] /\ e = chunk[n].t
  BY <1>2 DEF Last
<1> HIDE DEF rest, more, n, all, e
<1>5. CASE rest < n
  <2>1. n - rest \in 1 .. n - rest /\ rest + (n - rest) = n /\ Len(more) = n - rest
    BY <1>1, <1>2, <1>5
  <2>2. more[Len(more)] = chunk[n] /\ Len(more) \in 1 .. Len(more) /\ Len(all) # 0
    BY <1>1, <1>3, <2>1
  <2>3. Last(all).t = e /\ all # <<>>
    BY <1>3, <1>4, <2>2
  <2>4. last # NoTime => ~(e <= last)
    <3>1. last # NoTime => (e <= last <=> n <= rest)
      BY <1>1, <1>2, <1>4
    <3> QED BY <1>1, <1>2, <1>5, <3>1
  <2>5. Claimed(last, e) = e
    BY <1>2, <2>4 DEF Claimed, Greater
  <2>6. e # NoTime
    BY <1>2, BufferAssumption
  <2> QED BY <2>3, <2>5, <2>6 DEF Caught, all, e, more
<1>6. CASE ~(rest < n)
  <2>1. rest = n /\ Len(more) = 0 /\ n <= rest
    BY <1>1, <1>2, <1>6
  <2>2. more = <<>> /\ all = seen
    <3>1. more = <<>>
      BY <1>1, <2>1
    <3> QED BY <3>1 DEF all
  <2>3. last # NoTime
    BY <1>2, <2>1 DEF rest, Seen
  <2>4. e <= last /\ last \in Int
    BY <1>1, <1>2, <1>4, <2>1, <2>3
  <2>5. Claimed(last, e) = last
    BY <1>2, <2>3, <2>4 DEF Claimed, Greater
  <2> QED BY <2>2, <2>5 DEF all, e, more
<1> QED BY <1>1, <1>2, <1>5, <1>6

\* The last of a window is its latest sample.
LEMMA LatestOfWindow ==
  ASSUME NEW g, NEW seen, NEW s, NEW k, seen \in Seq(Sample), s \in Sample \cup {NoSample},
         IsLatest(seen, End(g, k) - g.window, End(g, k), s)
  PROVE  s = IF StepWindow(g, seen, k) = <<>> THEN NoSample ELSE Last(StepWindow(g, seen, k))
<1> DEFINE from == End(g, k) - g.window
           to == End(g, k)
           ks == {n \in DOMAIN seen : from < seen[n].t /\ seen[n].t <= to}
<1>1. StepWindow(g, seen, k) = At(seen, ks) /\ ks \in SUBSET DOMAIN seen
  BY DEF StepWindow
<1>2. DOMAIN seen = 1 .. Len(seen) /\ Len(seen) \in Nat
  OBVIOUS
<1>3. CASE s = NoSample /\ \A n \in DOMAIN seen : ~(from < seen[n].t /\ seen[n].t <= to)
  <2>1. ks = {}
    BY <1>3
  <2> HIDE DEF ks
  <2>2. StepWindow(g, seen, k) = <<>>
    BY <1>1, <2>1, AtNone
  <2> QED BY <1>3, <2>2
<1>4. ASSUME NEW m \in DOMAIN seen, s = seen[m], from < seen[m].t, seen[m].t <= to,
             \A j \in DOMAIN seen : m < j => ~(from < seen[j].t /\ seen[j].t <= to)
      PROVE  s = IF StepWindow(g, seen, k) = <<>> THEN NoSample ELSE Last(StepWindow(g, seen, k))
  <2>1. m \in ks
    BY <1>4
  <2>2. \A j \in ks : j <= m
    <3> TAKE j \in ks
    <3>1. ~(m < j) /\ j \in 1 .. Len(seen) /\ m \in 1 .. Len(seen)
      BY <1>2, <1>4
    <3> QED BY <1>2, <3>1
  <2> HIDE DEF ks
  <2>3. At(seen, ks) # <<>> /\ Last(At(seen, ks)) = seen[m]
    BY <1>1, <2>1, <2>2, AtLast
  <2> QED BY <1>1, <1>4, <2>3
<1> QED BY <1>3, <1>4 DEF IsLatest

\* What the selector's input has.
LEMMA CandidateInput ==
  ASSUME input \in OneStepInputs
  PROVE  /\ OneStep /\ grid \in Grids /\ rows \in Seq(Seq(Sample)) /\ Len(rows) \in Nat
         /\ input.units \in Nat \ {0}
         /\ \A r \in 1 .. Len(rows) : rows[r] \in Seq(Sample) /\ Len(rows[r]) \in Nat
         /\ Candidate!rows = rows /\ Candidate!grid = grid
         /\ Candidate!stop = End(grid, 0) /\ Candidate!stop \in Int
<1>1. OneStep /\ grid \in Grids /\ rows \in Seq(Seq(Sample)) /\ input.units \in Nat \ {0}
  BY StateAssumption DEF OneStep, grid, rows
<1>2. Len(rows) \in Nat /\ \A r \in 1 .. Len(rows) : rows[r] \in Seq(Sample)
  BY <1>1
<1>3. \A r \in 1 .. Len(rows) : Len(rows[r]) \in Nat
  BY <1>2
<1>4. Candidate!rows = rows /\ Candidate!grid = grid
  BY DEF Candidate!rows, Candidate!grid, rows, grid
<1>5. Candidate!stop = End(grid, 0)
  BY <1>4 DEF Candidate!stop, Candidate!End, Candidate!WindowEnd, Candidate!StepAt,
              End, WindowEnd, StepAt
<1>6. End(grid, 0) \in Int
  BY <1>1, EndTyped
<1> QED BY <1>1, <1>2, <1>3, <1>4, <1>5, <1>6

\* The two modules' helpers are the same ones.
LEMMA SameHelpers ==
  /\ \A s, from, time : Candidate!Through(s, from, time) = Through(s, from, time)
  /\ Candidate!Sample = Sample
<1>1. ASSUME NEW s, NEW from, NEW time
      PROVE  Candidate!Through(s, from, time) = Through(s, from, time)
  <2> DEFINE T == {k \in from + 1 .. Len(s) : s[k].t <= time}
  <2>1. Candidate!Cardinality(T) = Cardinality(T)
    BY Zenon DEF Candidate!Cardinality, Cardinality
  <2>2. Candidate!Through(s, from, time) = from + Candidate!Cardinality(T)
    BY DEF Candidate!Through
  <2>3. Through(s, from, time) = from + Cardinality(T)
    BY DEF Through
  <2> QED BY <2>1, <2>2, <2>3
<1>2. Candidate!Sample = Sample
  BY DEF Candidate!Sample, Sample
<1> QED BY <1>1, <1>2

\* A chunk's pick is one of its samples, or the one held.
LEMMA PickTyped ==
  ASSUME NEW chunk, NEW s, NEW from, chunk \in Seq(Sample), s \in Sample \cup {NoSample}, NEW to
  PROVE  PickOf(lastT, chunk, from, to, s) \in Sample \cup {NoSample}
<1> DEFINE rest == Seen(lastT, chunk)
           top == Through(chunk, rest, to)
<1>1. Len(chunk) \in Nat /\ 0 \in 0 .. Len(chunk)
  OBVIOUS
<1>2. rest \in 0 .. Len(chunk)
  BY <1>1, ThroughIn DEF Seen
<1>3. PickOf(lastT, chunk, from, to, s) =
        IF Last(chunk).t > from /\ (lastT # NoTime => lastT < to)
        THEN IF top > rest /\ chunk[top].t > from THEN chunk[top] ELSE s
        ELSE s
  BY Zenon DEF PickOf
<1> HIDE DEF rest
<1>4. top \in rest .. Len(chunk)
  BY <1>2, ThroughIn
<1> HIDE DEF top
<1>5. top > rest => top \in 1 .. Len(chunk)
  BY <1>1, <1>2, <1>4
<1> QED BY <1>3, <1>5

\* The selector starts with its type.
LEMMA CandidateInit == Candidate!Init => Candidate!TypeOK
<1> SUFFICES ASSUME Candidate!Init PROVE Candidate!TypeOK
  OBVIOUS
<1>1. input \in OneStepInputs /\ budget \in 0 .. input.units /\ row = 1
      /\ sample = NoSample /\ lastT = NoTime
  BY DEF Candidate!Init
<1>2. Len(rows) \in Nat /\ Candidate!rows = rows
  BY <1>1, CandidateInput
<1> QED BY <1>1, <1>2 DEF Candidate!TypeOK

\* A push of the selector, over values.
LEMMA CandidatePush ==
  ASSUME Candidate!TypeOK, Candidate!Push
  PROVE  /\ row \in 1 .. Len(rows) /\ row' = row + 1 /\ budget' = budget - 1 /\ budget > 0
         /\ input' = input /\ pc # "closed"
         /\ rows[row] = <<>> => sample' = sample /\ lastT' = lastT
         /\ rows[row] # <<>> =>
              /\ lastT' = Claimed(lastT, Last(rows[row]).t)
              /\ sample' = PickOf(lastT, rows[row], End(grid, 0) - grid.window, End(grid, 0), sample)
<1>1. input \in OneStepInputs /\ row \in 1 .. Len(rows) + 1
  BY DEF Candidate!TypeOK, Candidate!rows, rows
<1>2. /\ Len(rows) \in Nat /\ Candidate!rows = rows /\ Candidate!grid = grid
      /\ Candidate!stop = End(grid, 0)
  BY <1>1, CandidateInput
<1>3. /\ row \in 1 .. Len(rows) /\ row' = row + 1 /\ budget' = budget - 1 /\ budget > 0
      /\ input' = input /\ pc # "closed"
  BY <1>1, <1>2 DEF Candidate!Push
<1> DEFINE own == Candidate!rows[row]
           chunk == rows[row]
<1>4. IF own = <<>> THEN UNCHANGED <<sample, lastT>>
      ELSE /\ lastT' = Candidate!Claimed(lastT, Last(own).t)
           /\ sample' = IF Candidate!CanPick(own) THEN Candidate!Picked(own) ELSE sample
  BY Zenon DEF Candidate!Push, Candidate!Last, Last
<1>5. own = chunk
  BY <1>2
<1> HIDE DEF own, chunk
<1>6. chunk = <<>> => sample' = sample /\ lastT' = lastT
  BY <1>4, <1>5
<1>7. chunk # <<>> =>
        /\ lastT' = Candidate!Claimed(lastT, Last(chunk).t)
        /\ sample' = IF Candidate!CanPick(chunk) THEN Candidate!Picked(chunk) ELSE sample
  BY <1>4, <1>5
<1>8. Candidate!Claimed(lastT, Last(chunk).t) = Claimed(lastT, Last(chunk).t)
  BY DEF Candidate!Claimed, Claimed, Candidate!Greater, Greater
<1>9. Candidate!CanPick(chunk) <=> /\ Last(chunk).t > End(grid, 0) - grid.window
                                   /\ lastT # NoTime => lastT < End(grid, 0)
  BY <1>2, Zenon DEF Candidate!CanPick, Candidate!Last, Last
<1>10. Candidate!Picked(chunk) =
         LET rest == Seen(lastT, chunk)
             top == Through(chunk, rest, End(grid, 0))
         IN  IF top > rest /\ chunk[top].t > End(grid, 0) - grid.window THEN chunk[top] ELSE sample
  BY <1>2, SameHelpers DEF Candidate!Picked, Seen
<1>11. (IF Candidate!CanPick(chunk) THEN Candidate!Picked(chunk) ELSE sample)
         = PickOf(lastT, chunk, End(grid, 0) - grid.window, End(grid, 0), sample)
  BY <1>9, <1>10, Zenon DEF PickOf
<1> QED BY <1>3, <1>6, <1>7, <1>8, <1>11 DEF chunk

\* A chunk is seen once, and the lookup is answered once.
LEMMA CandidateStep ==
  ASSUME Candidate!TypeOK, CandidateNext
  PROVE  Candidate!TypeOK' /\ input' = input
<1>1. /\ input \in OneStepInputs /\ budget \in 0 .. input.units
      /\ row \in 1 .. Len(rows) + 1 /\ sample \in Sample \cup {NoSample}
      /\ lastT \in Int \cup {NoTime}
  BY SameHelpers DEF Candidate!TypeOK, Candidate!rows, rows
<1>2. /\ rows \in Seq(Seq(Sample)) /\ Len(rows) \in Nat /\ input.units \in Nat \ {0}
      /\ \A r \in 1 .. Len(rows) : rows[r] \in Seq(Sample) /\ Len(rows[r]) \in Nat
      /\ Candidate!rows = rows
  BY <1>1, CandidateInput
<1>3. SUFFICES ASSUME input' = input
               PROVE  /\ budget' \in 0 .. input.units /\ row' \in 1 .. Len(rows) + 1
                      /\ sample' \in Sample \cup {NoSample} /\ lastT' \in Int \cup {NoTime}
  <2>1. input' = input
    BY DEF CandidateNext, Candidate!Poll, Candidate!Push, Candidate!Close
  <2>2. Candidate!rows' = rows
    BY <1>2, <2>1 DEF Candidate!rows, rows
  <2> QED BY <1>1, <1>2, <2>1, <2>2, SameHelpers DEF Candidate!TypeOK
<1>4. CASE Candidate!Poll
  BY <1>1, <1>2, <1>4 DEF Candidate!Poll
<1>5. CASE Candidate!Push
  <2> DEFINE chunk == rows[row]
  <2>1. /\ row \in 1 .. Len(rows) /\ row' = row + 1 /\ budget' = budget - 1 /\ budget > 0
        /\ chunk = <<>> => sample' = sample /\ lastT' = lastT
        /\ chunk # <<>> =>
             /\ lastT' = Claimed(lastT, Last(chunk).t)
             /\ sample' = PickOf(lastT, chunk, End(grid, 0) - grid.window, End(grid, 0), sample)
    BY <1>5, CandidatePush
  <2>2. row + 1 \in 1 .. Len(rows) + 1 /\ budget - 1 \in 0 .. input.units
    BY <1>1, <1>2, <2>1
  <2>4. chunk \in Seq(Sample)
    BY <1>2, <2>1
  <2> HIDE DEF chunk
  <2>5. PickOf(lastT, chunk, End(grid, 0) - grid.window, End(grid, 0), sample) \in Sample \cup {NoSample}
    BY <1>1, <2>4, PickTyped
  <2>6. chunk # <<>> => Claimed(lastT, Last(chunk).t) \in Int
    <3>1. chunk # <<>> => Last(chunk).t \in Int
      BY <2>4, LastTyped
    <3> QED BY <1>1, <3>1, ClaimedTyped
  <2>7. sample' \in Sample \cup {NoSample} /\ lastT' \in Int \cup {NoTime}
    BY <1>1, <2>1, <2>5, <2>6
  <2> QED BY <2>1, <2>2, <2>7
<1>6. CASE Candidate!Close
  BY <1>1, <1>2, <1>6 DEF Candidate!Close
<1> QED BY <1>4, <1>5, <1>6 DEF CandidateNext

\* What the two modules make of the chunks is the same.
LEMMA SameAnswers ==
  /\ \A rs : Candidate!Merged(rs) = Merged(rs)
  /\ \A g, samples, k : Candidate!StepWindow(g, samples, k) = StepWindow(g, samples, k)
<1>1. ASSUME NEW rs PROVE Candidate!Merged(rs) = Merged(rs)
  BY Zenon DEF Candidate!Merged, Candidate!FoldLeft, Candidate!MapThenFoldSet, Candidate!Max,
               Candidate!Unseen, Candidate!At, Candidate!Last, Candidate!Cardinality,
               Merged, FoldLeft, MapThenFoldSet, Max, Unseen, At, Last, Cardinality
<1>2. ASSUME NEW g, NEW samples, NEW k
      PROVE  Candidate!StepWindow(g, samples, k) = StepWindow(g, samples, k)
  BY Zenon DEF Candidate!StepWindow, Candidate!End, Candidate!WindowEnd, Candidate!StepAt,
               Candidate!At, Candidate!Cardinality,
               StepWindow, End, WindowEnd, StepAt, At, Cardinality
<1> QED BY <1>1, <1>2

\* What the chunks pushed so far leave.
Pushed == Merged(SubSeq(rows, 1, row - 1))

LatestInv ==
  pc # "closed" =>
    /\ Caught(Pushed, lastT)
    /\ IsLatest(Pushed, End(grid, 0) - grid.window, End(grid, 0), sample)

CandidateInv == Candidate!TypeOK /\ LatestInv

\* Nothing is pushed at first.
LEMMA LatestInit == Candidate!Init => CandidateInv
<1> SUFFICES ASSUME Candidate!Init PROVE CandidateInv
  OBVIOUS
<1>1. row = 1 /\ sample = NoSample /\ lastT = NoTime
  BY DEF Candidate!Init
<1>2. SubSeq(rows, 1, row - 1) = <<>>
  BY <1>1
<1>3. Pushed = <<>>
  <2>1. <<>> \in Seq(Seq(Sample)) /\ <<>> \in Seq(Sample)
    OBVIOUS
  <2> QED BY <1>2, <2>1, MergedGrows DEF Pushed
<1>4. Caught(Pushed, lastT)
  BY <1>1, <1>3 DEF Caught
<1>5. DOMAIN Pushed = {}
  BY <1>3
<1>6. IsLatest(Pushed, End(grid, 0) - grid.window, End(grid, 0), sample)
  BY <1>1, <1>5 DEF IsLatest
<1> QED BY <1>4, <1>6, CandidateInit DEF CandidateInv, LatestInv

\* The latest stays the latest.
LEMMA LatestStep == ASSUME CandidateInv, CandidateNext PROVE CandidateInv'
<1>1. Candidate!TypeOK' /\ input' = input
  BY CandidateStep DEF CandidateInv
<1>2. rows' = rows /\ grid' = grid /\ End(grid', 0) = End(grid, 0)
  BY <1>1 DEF rows, grid
<1>3. CASE pc' = pc /\ Candidate!Poll
  <2>1. row' = row /\ sample' = sample /\ lastT' = lastT
    BY <1>3 DEF Candidate!Poll
  <2>2. Pushed' = Pushed
    BY <1>2, <2>1 DEF Pushed
  <2> QED BY <1>1, <1>2, <1>3, <2>1, <2>2 DEF CandidateInv, LatestInv
<1>4. CASE pc' = pc /\ Candidate!Push
  <2>1. /\ row \in 1 .. Len(rows) /\ row' = row + 1 /\ pc # "closed"
        /\ rows[row] = <<>> => sample' = sample /\ lastT' = lastT
        /\ rows[row] # <<>> =>
             /\ lastT' = Claimed(lastT, Last(rows[row]).t)
             /\ sample' = PickOf(lastT, rows[row], End(grid, 0) - grid.window, End(grid, 0), sample)
    BY <1>4, CandidatePush DEF CandidateInv
  <2>2. /\ input \in OneStepInputs /\ lastT \in Int \cup {NoTime}
    BY DEF CandidateInv, Candidate!TypeOK
  <2>3. /\ rows \in Seq(Seq(Sample)) /\ rows[row] \in Seq(Sample) /\ grid \in Grids
        /\ Len(rows) \in Nat
    BY <2>1, <2>2, CandidateInput
  <2>4. InTimeOrder(rows[row])
    BY <2>1, <2>2, <2>3, StateAssumption DEF rows
  <2>5. End(grid, 0) \in Int /\ End(grid, 0) - grid.window \in Int
    <3>1. End(grid, 0) \in Int
      BY <2>3, EndTyped
    <3>2. grid.window \in Int
      BY <2>3 DEF Grids
    <3> QED BY <3>1, <3>2
  <2> DEFINE before == SubSeq(rows, 1, row - 1)
             chunk == rows[row]
             to == End(grid, 0)
             from == to - grid.window
             seen == Pushed
             X == Seq(Sample)
  <2>6. before \in Seq(X) /\ SubSeq(rows, 1, row) = Append(before, chunk)
    <3>1. row - 1 \in 0 .. Len(rows) /\ row \in 1 .. Len(rows) /\ 1 \in 1 .. Len(rows) + 1
      BY <2>1, <2>3
    <3> QED BY <2>3, <3>1
  <2>7. row' - 1 = row
    BY <2>1, <2>3
  <2>8. seen = Merged(before)
    BY DEF Pushed
  <2>9. Pushed' = Merged(SubSeq(rows, 1, row))
    BY <1>2, <2>7 DEF Pushed
  <2>10. Caught(seen, lastT) /\ IsLatest(seen, from, to, sample)
    BY <2>1 DEF CandidateInv, LatestInv
  <2> HIDE DEF before, to, from, seen
  <2>11. /\ seen \in Seq(Sample) /\ Pushed' = seen \o Unseen(seen, chunk)
    <3> HIDE DEF chunk
    <3>1. chunk \in Seq(Sample) /\ before \in Seq(Seq(Sample))
      BY <2>3, <2>6 DEF chunk
    <3>2. Merged(before) \in Seq(Sample)
          /\ Merged(Append(before, chunk)) = Merged(before) \o Unseen(Merged(before), chunk)
      BY <3>1, MergedGrows
    <3> QED BY <2>6, <2>8, <2>9, <3>2 DEF chunk
  <2>12. Caught(Pushed', lastT') /\ IsLatest(Pushed', from, to, sample')
    <3>1. CASE chunk = <<>>
      <4>1. Unseen(seen, chunk) = <<>>
        <5>1. /\ Len(Unseen(seen, chunk)) = Len(chunk) - Seen(lastT, chunk)
              /\ Seen(lastT, chunk) \in 0 .. Len(chunk) /\ Unseen(seen, chunk) \in Seq(Sample)
          <6>1. chunk \in Seq(Sample) /\ InTimeOrder(chunk)
            BY <2>3, <2>4
          <6>2. seen \in Seq(Sample) /\ lastT \in Int \cup {NoTime} /\ Caught(seen, lastT)
            BY <2>2, <2>10, <2>11
          <6> HIDE DEF chunk
          <6> QED BY <6>1, <6>2, UnseenIsTheRest
        <5>2. Len(chunk) = 0
          BY <3>1
        <5> DEFINE u == Unseen(seen, chunk)
        <5>3. Len(u) = 0 /\ u \in Seq(Sample)
          BY <5>1, <5>2
        <5> HIDE DEF u
        <5>4. u = <<>>
          BY <5>3
        <5> QED BY <5>4 DEF u
      <4>2. Pushed' = seen
        BY <2>11, <4>1
      <4> QED BY <2>1, <2>10, <3>1, <4>2
    <3>2. CASE chunk # <<>>
      <4>1. chunk \in Seq(Sample) /\ InTimeOrder(chunk) /\ to \in Int /\ from \in Int
        BY <2>3, <2>4, <2>5 DEF to, from
      <4>2. /\ lastT' = Claimed(lastT, Last(chunk).t)
            /\ sample' = PickOf(lastT, chunk, from, to, sample)
        BY <2>1, <3>2 DEF from, to
      <4> HIDE DEF chunk
      <4>3. Caught(seen \o Unseen(seen, chunk), Claimed(lastT, Last(chunk).t))
        BY <2>2, <2>10, <2>11, <3>2, <4>1, StaysCaught
      <4>4. IsLatest(seen \o Unseen(seen, chunk), from, to, PickOf(lastT, chunk, from, to, sample))
        BY <2>2, <2>10, <2>11, <3>2, <4>1, PickIsLatest
      <4> QED BY <2>11, <4>2, <4>3, <4>4
    <3> QED BY <3>1, <3>2
  <2> QED BY <1>1, <1>2, <2>12 DEF CandidateInv, LatestInv, from, to
<1>5. CASE pc' = "closed" /\ Candidate!Close
  BY <1>1, <1>5 DEF CandidateInv, LatestInv
<1> QED BY <1>3, <1>4, <1>5 DEF CandidateNext

\* The selector holds the latest sample of its lookup.
LEMMA LatestIsHeld == CandidateInv => Candidate!CandidateIsLatest
<1> SUFFICES ASSUME CandidateInv, pc # "closed"
             PROVE  LET inside == Candidate!StepWindow(Candidate!grid,
                                    Candidate!Merged(SubSeq(Candidate!rows, 1, row - 1)), 0)
                    IN  sample = IF inside = <<>> THEN NoSample ELSE Candidate!Last(inside)
  BY Zenon DEF Candidate!CandidateIsLatest
<1>1. input \in OneStepInputs /\ row \in 1 .. Len(rows) + 1 /\ sample \in Sample \cup {NoSample}
  BY SameHelpers DEF CandidateInv, Candidate!TypeOK, Candidate!rows, rows
<1>2. /\ Candidate!rows = rows /\ Candidate!grid = grid /\ rows \in Seq(Seq(Sample))
      /\ Len(rows) \in Nat
  BY <1>1, CandidateInput
<1> DEFINE before == SubSeq(rows, 1, row - 1)
<1>3. before \in Seq(Seq(Sample))
  <2>1. row - 1 \in 0 .. Len(rows)
    BY <1>1, <1>2
  <2> QED BY <1>2, <2>1
<1>4. Pushed = Merged(before)
  BY DEF Pushed
<1> HIDE DEF before
<1>5. Pushed \in Seq(Sample)
  <2>1. <<>> \in Seq(Sample)
    OBVIOUS
  <2> QED BY <1>3, <1>4, <2>1, MergedGrows
<1>6. IsLatest(Pushed, End(grid, 0) - grid.window, End(grid, 0), sample)
  BY DEF CandidateInv, LatestInv
<1>7. sample = IF StepWindow(grid, Pushed, 0) = <<>> THEN NoSample ELSE Last(StepWindow(grid, Pushed, 0))
  <2> DEFINE seen == Pushed
             g == grid
             s == sample
             k == 0
  <2>1. seen \in Seq(Sample) /\ s \in Sample \cup {NoSample}
        /\ IsLatest(seen, End(g, k) - g.window, End(g, k), s)
    BY <1>1, <1>5, <1>6
  <2> HIDE DEF seen, g, s, k
  <2>2. s = IF StepWindow(g, seen, k) = <<>> THEN NoSample ELSE Last(StepWindow(g, seen, k))
    BY <2>1, LatestOfWindow
  <2> QED BY <2>2 DEF seen, g, s, k
<1>8. Candidate!StepWindow(Candidate!grid, Candidate!Merged(SubSeq(Candidate!rows, 1, row - 1)), 0)
        = StepWindow(grid, Pushed, 0)
  BY <1>2, <1>4, SameAnswers DEF before
<1>9. \A s : Candidate!Last(s) = Last(s)
  BY Zenon DEF Candidate!Last, Last
<1> QED BY <1>7, <1>8, <1>9

-----------------------------------------------------------------------------
(***************************************************************************)
(* Whichever owner holds the series.                                       *)
(***************************************************************************)
StateInv == IF OneStep THEN CandidateInv ELSE HeldInv /\ ClaimInv

\* Both owners start with nothing.
LEMMA StateInitInv == StateInit => StateInv
<1> SUFFICES ASSUME StateInit PROVE StateInv
  OBVIOUS
<1>1. CASE Init
  <2>1. HeldInv /\ ClaimInv
    BY <1>1, HeldInit, ClaimedInit DEF ClaimedInv
  <2>2. ~OneStep
    BY <1>1, StateAssumption DEF Init, OneStep
  <2> QED BY <2>1, <2>2 DEF StateInv
<1>2. CASE Candidate!Init
  <2>1. CandidateInv
    BY <1>2, LatestInit
  <2>2. OneStep
    BY <2>1, CandidateInput DEF CandidateInv, Candidate!TypeOK
  <2> QED BY <2>1, <2>2 DEF StateInv
<1> QED BY <1>1, <1>2 DEF StateInit

\* A step is a step of the owner, which stays the owner.
LEMMA StateStep == ASSUME StateInv, [StateNext]_<<vars, sample>> PROVE StateInv'
<1>1. CASE OneStep /\ CandidateNext
  <2>1. CandidateInv
    BY <1>1 DEF StateInv
  <2>2. CandidateInv' /\ input' = input
    BY <1>1, <2>1, CandidateStep, LatestStep DEF CandidateInv
  <2> QED BY <1>1, <2>2 DEF StateInv, OneStep
<1>2. CASE ~OneStep /\ Next
  <2>1. HeldInv' /\ ClaimInv'
    BY <1>2, HeldNext, ClaimedNext DEF StateInv, HeldInv, ClaimedInv
  <2>2. ~OneStep'
    BY <2>1, StateAssumption DEF HeldInv, WindowInv, TypeOK, OneStep
  <2> QED BY <2>1, <2>2 DEF StateInv
<1>3. CASE UNCHANGED <<vars, sample>>
  <2>1. UNCHANGED vars /\ sample' = sample
    BY <1>3
  <2>2. /\ input' = input /\ row' = row /\ lastT' = lastT /\ budget' = budget /\ pc' = pc
    BY <2>1 DEF vars, series
  <2>3. CASE OneStep
    <3>1. Candidate!TypeOK' /\ rows' = rows /\ grid' = grid
      BY <2>1, <2>2, <2>3 DEF StateInv, CandidateInv, Candidate!TypeOK, Candidate!rows, rows, grid
    <3>2. Pushed' = Pushed /\ End(grid', 0) = End(grid, 0)
      BY <2>2, <3>1 DEF Pushed
    <3> QED BY <2>1, <2>2, <2>3, <3>1, <3>2 DEF StateInv, CandidateInv, LatestInv, OneStep
  <2>4. CASE ~OneStep
    BY <2>1, <2>2, <2>4, HeldNext, ClaimedNext DEF StateInv, OneStep, HeldInv, ClaimedInv
  <2> QED BY <2>3, <2>4
<1> QED BY <1>1, <1>2, <1>3 DEF StateNext

(***************************************************************************)
(* No kernel indexes outside its slices, whatever the chunks, the grid and *)
(* the budgets: the cursors of a fold stay inside what it holds, and an    *)
(* empty buffer has no edge left in it (buffer.rs's debug assertions).     *)
(***************************************************************************)
THEOREM StateInBoundsAlways == Spec => []StateInBounds
<1>1. StateInit => StateInv
  BY StateInitInv
<1>2. StateInv /\ [StateNext]_<<vars, sample>> => StateInv'
  BY StateStep
<1>3. StateInv => StateInBounds
  BY DEF StateInv, StateInBounds, HeldInv, WindowInv, CandidateInv
<1> QED BY <1>1, <1>2, <1>3, PTL DEF Spec

(***************************************************************************)
(* A sliding sweep never drifts from the window: between any two turns,    *)
(* whatever the chunks, the suspensions, the drains and the borrowed       *)
(* slices in between, a counter's resets are exactly those inside the      *)
(* window, and the candidates of an extremum are the samples no later one  *)
(* beats, less those the sample now entering has already beaten            *)
(* (Sweep::enter and leave, range.rs).  And whole chunks are claimed: what *)
(* the next one is measured against is the latest last sample so far.      *)
(***************************************************************************)
THEOREM FoldsHoldTheWindow == Spec => [](~OneStep => RowsClaimWhole /\ SweepIsTheWindow)
<1>1. StateInit => StateInv
  BY StateInitInv
<1>2. StateInv /\ [StateNext]_<<vars, sample>> => StateInv'
  BY StateStep
<1>3. StateInv => (~OneStep => RowsClaimWhole /\ SweepIsTheWindow)
  BY TracksIsTheWindow, ClaimsAreWhole DEF StateInv, HeldInv, ClaimedInv
<1> QED BY <1>1, <1>2, <1>3, PTL DEF Spec

(***************************************************************************)
(* A selector of one step holds the latest sample of its lookup window     *)
(* among everything pushed so far, whatever the chunks overlap and however *)
(* many of them the window leaves out (Candidate::push, buffer.rs).        *)
(***************************************************************************)
THEOREM CandidateIsTheLatest == Spec => [](OneStep => HeldIsTheWindow)
<1>1. StateInit => StateInv
  BY StateInitInv
<1>2. StateInv /\ [StateNext]_<<vars, sample>> => StateInv'
  BY StateStep
<1>3. StateInv => (OneStep => HeldIsTheWindow)
  BY LatestIsHeld DEF StateInv, HeldIsTheWindow
<1> QED BY <1>1, <1>2, <1>3, PTL DEF Spec

-----------------------------------------------------------------------------
(***************************************************************************)
(* What comes out.  A step answers from what is held, so the proof relates *)
(* what is held to what the whole series would show that step: of the      *)
(* samples read so far, the held ones are those a later step can read.     *)
(***************************************************************************)
\* r is s at the positions f gives, one after another.
Picked(s, r, f) ==
  /\ f \in [1 .. Len(r) -> 1 .. Len(s)]
  /\ \A i \in 1 .. Len(r) : r[i] = s[f[i]]
  /\ \A i, j \in 1 .. Len(r) : i < j => f[i] < f[j]

Onto(r, f, ks) ==
  /\ \A i \in 1 .. Len(r) : f[i] \in ks
  /\ \A k \in ks : \E i \in 1 .. Len(r) : f[i] = k

\* As many as are numbered, one after another.
LEMMA Numbered ==
  ASSUME NEW m \in Nat, NEW T, NEW f, f \in [1 .. m -> T], \A i, j \in 1 .. m : f[i] = f[j] => i = j,
         \A k \in T : \E i \in 1 .. m : f[i] = k
  PROVE  IsFiniteSet(T) /\ Cardinality(T) = m
<1>1. f \in Bijection(1 .. m, T)
  BY DEF Bijection, Injection, Surjection, IsInjective
<1>2. ExistsBijection(1 .. m, T)
  BY <1>1 DEF ExistsBijection
<1>3. IsFiniteSet(1 .. m) /\ Cardinality(1 .. m) = m
  <2>1. 1 \in Int /\ m \in Int
    OBVIOUS
  <2>2. IsFiniteSet(1 .. m) /\ Cardinality(1 .. m) = IF 1 > m THEN 0 ELSE m - 1 + 1
    BY <2>1, FS_Interval
  <2> QED BY <2>2
<1> QED BY <1>2, <1>3, FS_Bijection

\* What is picked at all of some positions is what At gives.
LEMMA PickedIsAt ==
  ASSUME NEW X, NEW s, NEW r, NEW f, NEW ks, s \in Seq(X), r \in Seq(X), ks \in SUBSET DOMAIN s,
         Picked(s, r, f), Onto(r, f, ks)
  PROVE  r = At(s, ks)
<1> DEFINE m == Len(r)
           b == Len(s)
<1>1. m \in Nat /\ b \in Nat /\ DOMAIN s = 1 .. b /\ r = [i \in 1 .. m |-> r[i]] /\ DOMAIN r = 1 .. m
  OBVIOUS
<1>2. /\ f \in [1 .. m -> 1 .. b] /\ \A i \in 1 .. m : r[i] = s[f[i]]
      /\ \A i, j \in 1 .. m : i < j => f[i] < f[j]
      /\ \A i \in 1 .. m : f[i] \in ks
      /\ \A k \in ks : \E i \in 1 .. m : f[i] = k
  BY DEF Picked, Onto
<1> HIDE DEF m, b
<1>3. ASSUME NEW i \in 1 .. m
      PROVE  Cardinality({j \in ks : j < f[i]}) = i - 1
  <2> DEFINE low == {j \in ks : j < f[i]}
             g == [n \in 1 .. i - 1 |-> f[n]]
  <2>1. i - 1 \in Nat /\ i - 1 <= m /\ \A n \in 1 .. i - 1 : n \in 1 .. m /\ n < i
    BY <1>1
  <2>2. g \in [1 .. i - 1 -> low]
    BY <1>2, <2>1
  <2>3. \A n, q \in 1 .. i - 1 : g[n] = g[q] => n = q
    <3> TAKE n, q \in 1 .. i - 1
    <3>1. f[n] \in 1 .. b /\ f[q] \in 1 .. b /\ (n < q => f[n] < f[q]) /\ (q < n => f[q] < f[n])
      BY <1>2, <2>1
    <3> QED BY <1>1, <3>1
  <2>4. \A k \in low : \E n \in 1 .. i - 1 : g[n] = k
    <3> TAKE k \in low
    <3>1. PICK n \in 1 .. m : f[n] = k
      BY <1>2
    <3>2. f[n] < f[i] /\ f[n] \in 1 .. b /\ f[i] \in 1 .. b /\ (i < n => f[i] < f[n])
      BY <1>2, <3>1
    <3>3. n < i
      BY <1>1, <3>2
    <3>4. n \in 1 .. i - 1
      BY <1>1, <3>3
    <3> QED BY <3>1, <3>4
  <2> HIDE DEF low, g
  <2>5. Cardinality(low) = i - 1
    BY <2>1, <2>2, <2>3, <2>4, Numbered
  <2> QED BY <2>5 DEF low
<1>4. Cardinality(ks) = m
  <2>1. f \in [1 .. m -> ks]
    BY <1>2
  <2>2. \A n, q \in 1 .. m : f[n] = f[q] => n = q
    <3> TAKE n, q \in 1 .. m
    <3>1. f[n] \in 1 .. b /\ f[q] \in 1 .. b /\ (n < q => f[n] < f[q]) /\ (q < n => f[q] < f[n])
      BY <1>2
    <3> QED BY <1>1, <3>1
  <2>3. m \in Nat /\ \A k \in ks : \E i \in 1 .. m : f[i] = k
    BY <1>1, <1>2
  <2> QED BY ONLY <2>1, <2>2, <2>3, Numbered
<1>5. ASSUME NEW i \in 1 .. m
      PROVE  (CHOOSE k \in ks : Cardinality({j \in ks : j < k}) = i - 1) = f[i]
  <2> DEFINE k0 == CHOOSE k \in ks : Cardinality({j \in ks : j < k}) = i - 1
  <2>1. f[i] \in ks /\ Cardinality({j \in ks : j < f[i]}) = i - 1
    BY <1>2, <1>3
  <2>2. k0 \in ks /\ Cardinality({j \in ks : j < k0}) = i - 1
    BY <2>1
  <2> HIDE DEF k0
  <2>3. PICK n \in 1 .. m : f[n] = k0
    BY <1>2, <2>2
  <2>4. Cardinality({j \in ks : j < f[n]}) = n - 1
    BY <1>3
  <2>5. i - 1 = n - 1
    BY <2>2, <2>3, <2>4
  <2>6. i = n
    BY <1>1, <2>5
  <2> QED BY <2>3, <2>6 DEF k0
<1>6. At(s, ks) = [i \in 1 .. m |-> s[f[i]]]
  <2> DEFINE nth(i) == CHOOSE k \in ks : Cardinality({j \in ks : j < k}) = i - 1
  <2>1. At(s, ks) = [i \in 1 .. m |-> s[nth(i)]]
    BY <1>4 DEF At
  <2>2. \A i \in 1 .. m : nth(i) = f[i]
    BY <1>5
  <2> HIDE DEF nth
  <2> QED BY <2>1, <2>2
<1> QED BY <1>1, <1>2, <1>6

\* At picks all the positions it is given.
LEMMA AtPicks ==
  ASSUME NEW X, NEW s, NEW ks, s \in Seq(X), ks \in SUBSET DOMAIN s
  PROVE  \E f : Picked(s, At(s, ks), f) /\ Onto(At(s, ks), f, ks)
<1> DEFINE r == At(s, ks)
           m == Cardinality(ks)
           b == Len(s)
<1>1. b \in Nat /\ DOMAIN s = 1 .. b /\ r \in Seq(X) /\ Len(r) = m /\ DOMAIN r = 1 .. m /\ Listed(s, ks, r)
  <2>1. r \in Seq(X) /\ Len(r) = m /\ Listed(s, ks, r)
    BY AtTyped, AtRanked
  <2> HIDE DEF r, m
  <2> QED BY <2>1
<1>2. IsFiniteSet(ks) /\ m \in Nat /\ ks \in SUBSET (1 .. b)
  <2>1. IsFiniteSet(1 .. b)
    BY <1>1, FS_Interval
  <2>2. ks \in SUBSET (1 .. b)
    BY <1>1
  <2> QED BY <2>1, <2>2, FS_Subset, FS_CardinalityType
<1> HIDE DEF r, b
<1>3. \A n \in 1 .. m : \E k \in ks : r[n] = s[k] /\ Cardinality({j \in ks : j < k}) = n - 1
  BY <1>1 DEF Listed
<1> DEFINE f == [n \in 1 .. m |-> CHOOSE k \in ks : r[n] = s[k] /\ Cardinality({j \in ks : j < k}) = n - 1]
<1>4. \A n \in 1 .. m : f[n] \in ks /\ r[n] = s[f[n]] /\ Cardinality({j \in ks : j < f[n]}) = n - 1
  BY <1>3
<1>5. f \in [1 .. m -> 1 .. b]
  BY <1>2, <1>4
<1> HIDE DEF f
<1>6. \A k, l \in ks : k <= l => Cardinality({j \in ks : j < k}) <= Cardinality({j \in ks : j < l})
  <2> TAKE k, l \in ks
  <2> HAVE k <= l
  <2>1. {j \in ks : j < k} \subseteq {j \in ks : j < l}
    BY <1>1, <1>2
  <2>2. IsFiniteSet({j \in ks : j < l})
    BY <1>2, FS_Subset
  <2> QED BY <2>1, <2>2, FS_Subset
<1>7. \A i, j \in 1 .. m : i < j => f[i] < f[j]
  <2> TAKE i, j \in 1 .. m
  <2> HAVE i < j
  <2>1. f[i] \in 1 .. b /\ f[j] \in 1 .. b
    BY <1>4, <1>2
  <2>2. f[j] <= f[i] => j - 1 <= i - 1
    BY <1>4, <1>6
  <2> QED BY <1>1, <1>2, <2>1, <2>2
<1>8. \A k \in ks : \E i \in 1 .. m : f[i] = k
  <2> DEFINE R == {f[i] : i \in 1 .. m}
  <2>1. R \in SUBSET ks
    BY <1>4
  <2>2. f \in [1 .. m -> R] /\ \A k \in R : \E i \in 1 .. m : f[i] = k
    BY <1>5
  <2>3. \A i, j \in 1 .. m : f[i] = f[j] => i = j
    <3> TAKE i, j \in 1 .. m
    <3>1. f[i] \in 1 .. b /\ (i < j => f[i] < f[j]) /\ (j < i => f[j] < f[i])
      BY <1>5, <1>7
    <3> QED BY <1>1, <1>2, <3>1
  <2>6. Cardinality(R) = m
    BY <1>2, <2>2, <2>3, Numbered
  <2> HIDE DEF R
  <2>7. R = ks
    BY <1>2, <2>1, <2>6, FS_Subset
  <2> QED BY <2>7 DEF R
<1>9. Picked(s, r, f) /\ Onto(r, f, ks)
  BY <1>1, <1>4, <1>5, <1>7, <1>8 DEF Picked, Onto, b
<1> QED BY <1>9 DEF r

\* The samples at some positions that are no stale markers.
LEMMA LiveAt ==
  ASSUME NEW s, NEW ks, s \in Seq(Sample), ks \in SUBSET DOMAIN s
  PROVE  Live(At(s, ks)) = At(s, {k \in ks : s[k].v # Stale})
<1> DEFINE r == At(s, ks)
           live == {i \in DOMAIN r : r[i].v # Stale}
           w == At(r, live)
           left == {k \in ks : s[k].v # Stale}
<1>1. r \in Seq(Sample) /\ live \in SUBSET DOMAIN r /\ left \in SUBSET DOMAIN s /\ w = Live(r)
  BY AtTyped DEF Live
<1>2. PICK f : Picked(s, r, f) /\ Onto(r, f, ks)
  BY AtPicks
<1> HIDE DEF r
<1>3. \A k \in live : k \in DOMAIN r /\ r[k].v # Stale
  OBVIOUS
<1>4. \A k \in 1 .. Len(r) : r[k].v # Stale => k \in live
  BY <1>1
<1> HIDE DEF live
<1>5. w \in Seq(Sample)
  BY <1>1, AtTyped
<1>6. PICK g : Picked(r, w, g) /\ Onto(w, g, live)
  BY <1>1, AtPicks
<1> HIDE DEF w
<1> DEFINE m == Len(w)
           n == Len(r)
           b == Len(s)
           h == [i \in 1 .. m |-> f[g[i]]]
<1>7. m \in Nat /\ n \in Nat /\ b \in Nat
  BY <1>1, <1>5
<1>8. /\ f \in [1 .. n -> 1 .. b] /\ \A i \in 1 .. n : r[i] = s[f[i]]
      /\ \A i, j \in 1 .. n : i < j => f[i] < f[j]
      /\ \A i \in 1 .. n : f[i] \in ks
      /\ \A k \in ks : \E i \in 1 .. n : f[i] = k
  BY <1>2 DEF Picked, Onto
<1>9. /\ g \in [1 .. m -> 1 .. n] /\ \A i \in 1 .. m : w[i] = r[g[i]]
      /\ \A i, j \in 1 .. m : i < j => g[i] < g[j]
      /\ \A i \in 1 .. m : g[i] \in live
      /\ \A k \in live : \E i \in 1 .. m : g[i] = k
  BY <1>6 DEF Picked, Onto
<1>10. Picked(s, w, h)
  <2> HIDE DEF m, n, b
  <2>1. h \in [1 .. m -> 1 .. b]
    BY <1>8, <1>9
  <2>2. \A i \in 1 .. m : w[i] = s[h[i]]
    BY <1>8, <1>9
  <2>3. \A i, j \in 1 .. m : i < j => h[i] < h[j]
    BY <1>8, <1>9
  <2> HIDE DEF h
  <2> QED BY <2>1, <2>2, <2>3 DEF Picked, m, b
<1>11. Onto(w, h, left)
  <2>1. \A i \in 1 .. m : h[i] \in left
    <3> TAKE i \in 1 .. m
    <3>1. g[i] \in live /\ g[i] \in 1 .. n
      BY <1>9
    <3>2. r[g[i]].v # Stale /\ r[g[i]] = s[f[g[i]]] /\ f[g[i]] \in ks
      BY <1>3, <1>8, <3>1
    <3> QED BY <3>2
  <2>2. ASSUME NEW k \in left PROVE \E i \in 1 .. m : h[i] = k
    <3>1. PICK i \in 1 .. n : f[i] = k
      BY <1>8
    <3>2. i \in live
      BY <1>4, <1>8, <3>1
    <3>3. PICK j \in 1 .. m : g[j] = i
      BY <1>9, <3>2
    <3> QED BY <3>1, <3>3
  <2> HIDE DEF h
  <2> QED BY <2>1, <2>2 DEF Onto, m
<1> HIDE DEF left, h
<1>12. w = At(s, left)
  BY <1>1, <1>5, <1>10, <1>11, PickedIsAt
<1> QED BY <1>1, <1>12, Zenon DEF r, left

-----------------------------------------------------------------------------
(***************************************************************************)
(* What the first chunks leave, and what the next ones add.                *)
(***************************************************************************)
Upto(rs, r) == Merged(SubSeq(rs, 1, r))

Ascends(s) == \A i, j \in 1 .. Len(s) : i <= j => s[i].t <= s[j].t

\* s goes on after seen, and only later.
Continues(s, seen) ==
  /\ Len(seen) <= Len(s) /\ \A n \in 1 .. Len(seen) : s[n] = seen[n]
  /\ seen # <<>> => \A n \in Len(seen) + 1 .. Len(s) : s[n].t > Last(seen).t

\* What a chunk adds is the part of it nobody has claimed.
Adds(more, seen, chunk, u) ==
  /\ u \in 0 .. Len(chunk)
  /\ Len(more) = Len(seen) + Len(chunk) - u
  /\ \A p \in u + 1 .. Len(chunk) : more[Len(seen) + p - u] = chunk[p]

\* Samples have times.
LEMMA TimesTyped ==
  ASSUME NEW s, s \in Seq(Sample)
  PROVE  Len(s) \in Nat /\ DOMAIN s = 1 .. Len(s) /\ \A k \in 1 .. Len(s) : s[k] \in Sample /\ s[k].t \in Int
<1>1. \A k \in 1 .. Len(s) : s[k] \in Sample
  OBVIOUS
<1>2. \A x \in Sample : x.t \in Int
  BY DEF Sample
<1> QED BY <1>1, <1>2

\* One more chunk.
LEMMA MergeStep ==
  ASSUME NEW seen, NEW last, NEW chunk, NEW more, seen \in Seq(Sample), chunk \in Seq(Sample),
         InTimeOrder(chunk), last \in Int \cup {NoTime}, Caught(seen, last), Ascends(seen),
         more = seen \o Unseen(seen, chunk)
  PROVE  /\ more \in Seq(Sample) /\ Ascends(more) /\ Continues(more, seen)
         /\ Adds(more, seen, chunk, Seen(last, chunk))
<1> DEFINE u == Seen(last, chunk)
           new == Unseen(seen, chunk)
           a == Len(seen)
           c == Len(chunk)
<1>1. /\ u \in 0 .. c /\ new \in Seq(Sample) /\ Len(new) = c - u
      /\ \A n \in 1 .. c - u : new[n] = chunk[u + n]
      /\ last # NoTime => \A k \in 1 .. c : chunk[k].t <= last <=> k <= u
  <2>1. /\ Seen(last, chunk) \in 0 .. Len(chunk)
        /\ Unseen(seen, chunk) \in Seq(Sample)
        /\ Len(Unseen(seen, chunk)) = Len(chunk) - Seen(last, chunk)
        /\ \A n \in 1 .. Len(chunk) - Seen(last, chunk) :
             Unseen(seen, chunk)[n] = chunk[Seen(last, chunk) + n]
        /\ last # NoTime => \A k \in 1 .. Len(chunk) : chunk[k].t <= last <=> k <= Seen(last, chunk)
    BY UnseenIsTheRest
  <2> QED BY <2>1, Zenon
<1>2. /\ a \in Nat /\ c \in Nat /\ DOMAIN seen = 1 .. a /\ DOMAIN chunk = 1 .. c
      /\ (\A k \in 1 .. a : seen[k].t \in Int) /\ (\A k \in 1 .. c : chunk[k].t \in Int)
  BY TimesTyped
<1> HIDE DEF u, new
<1>3. /\ more \in Seq(Sample) /\ Len(more) = a + c - u
      /\ \A n \in 1 .. a : more[n] = seen[n]
      /\ \A n \in a + 1 .. a + c - u : more[n] = new[n - a]
  <2>1. more = seen \o new /\ Len(new) \in Nat
    BY <1>1 DEF new
  <2>5. new \in Seq(Sample) /\ seen \in Seq(Sample)
    BY <1>1
  <2>2. more \in Seq(Sample) /\ Len(more) = a + Len(new)
    BY ONLY <2>1, <2>5 DEF a
  <2>3. \A n \in 1 .. a + Len(new) : more[n] = IF n <= a THEN seen[n] ELSE new[n - a]
    BY <1>1, <2>1
  <2>4. Len(more) = a + c - u /\ a + Len(new) = a + c - u
    <3> HIDE DEF a, c
    <3> QED BY <1>1, <1>2, <2>2
  <2> HIDE DEF a, c
  <2>6. /\ \A n \in 1 .. a : n \in 1 .. a + Len(new) /\ n <= a
        /\ \A n \in a + 1 .. a + c - u : n \in 1 .. a + Len(new) /\ ~(n <= a)
    BY ONLY <1>2, <2>1, <2>4
  <2>7. \A n \in 1 .. a : more[n] = seen[n]
    BY ONLY <2>3, <2>6
  <2>8. \A n \in a + 1 .. a + c - u : more[n] = new[n - a]
    BY ONLY <2>3, <2>6
  <2> QED BY <2>2, <2>4, <2>7, <2>8
<1> USE DEF a, c
<1>50. u \in Nat /\ u <= c
  BY <1>1, <1>2
<1>60. seen # <<>> => last \in Int /\ last # NoTime /\ Last(seen) = seen[a] /\ a >= 1 /\ seen[a].t = last
  BY <1>2 DEF Caught, Last
<1>61. /\ \A j, k \in 1 .. c : j < k => chunk[j].t <= chunk[k].t
       /\ \A j, k \in 1 .. a : j <= k => seen[j].t <= seen[k].t
  BY <1>2 DEF InTimeOrder, Ascends
<1>62. Len(seen) = a /\ Len(chunk) = c
  OBVIOUS
<1>63. seen # <<>> <=> a >= 1
  BY <1>2
<1> HIDE DEF a, c
<1>4. \A n \in a + 1 .. a + c - u :
        /\ u + n - a \in 1 .. c /\ ~(u + n - a <= u) /\ more[n] = chunk[u + n - a]
        /\ u + n - a \in Nat
  <2> TAKE n \in a + 1 .. a + c - u
  <2>1. /\ n - a \in 1 .. c - u /\ u + (n - a) = u + n - a /\ u + n - a \in 1 .. c
        /\ ~(u + n - a <= u) /\ u + n - a \in Nat
    BY ONLY <1>50, <1>2, n \in a + 1 .. a + c - u
  <2> QED BY <1>1, <1>3, <2>1
<1>5. /\ \A k \in 1 .. c : chunk[k].t \in Int
      /\ \A j, k \in 1 .. c : j <= k => chunk[j].t <= chunk[k].t
      /\ \A k \in 1 .. a : seen[k].t \in Int
      /\ \A j, k \in 1 .. a : j <= k => seen[j].t <= seen[k].t
  <2>1. \A j, k \in 1 .. c : j <= k => chunk[j].t <= chunk[k].t
    <3> TAKE j, k \in 1 .. c
    <3>1. j = k => chunk[j].t <= chunk[k].t
      BY <1>2
    <3> QED BY ONLY <1>2, <1>61, <3>1, j \in 1 .. c, k \in 1 .. c
  <2> QED BY <1>2, <1>61, <2>1
<1>6. seen # <<>> => last \in Int /\ last # NoTime /\ Last(seen) = seen[a] /\ a >= 1 /\ seen[a].t = last
  BY <1>60
<1>7. \A n \in a + 1 .. a + c - u : seen # <<>> => more[n].t > last
  <2> TAKE n \in a + 1 .. a + c - u
  <2> HAVE seen # <<>>
  <2>1. u + n - a \in 1 .. c /\ ~(u + n - a <= u) /\ more[n] = chunk[u + n - a]
    BY <1>4
  <2> QED BY <1>1, <1>5, <1>6, <2>1
<1>8. Continues(more, seen)
  <2>1. a <= a + c - u
    BY ONLY <1>50, <1>2
  <2> QED BY <1>3, <1>6, <1>7, <1>62, <2>1 DEF Continues
<1>9. Ascends(more)
  <2> SUFFICES ASSUME NEW i \in 1 .. a + c - u, NEW j \in 1 .. a + c - u, i <= j
               PROVE  more[i].t <= more[j].t
    BY <1>3, <1>62 DEF Ascends
  <2>1. CASE j <= a
    <3>1. i \in 1 .. a /\ j \in 1 .. a
      BY <1>50, <1>2, <2>1
    <3> QED BY <1>3, <1>5, <3>1
  <2>2. CASE i <= a /\ ~(j <= a)
    <3>1. seen # <<>> /\ a \in 1 .. a /\ i \in 1 .. a /\ j \in a + 1 .. a + c - u
      BY <1>50, <1>2, <1>63, <2>2
    <3>2. more[i] = seen[i] /\ seen[i].t <= seen[a].t /\ more[j].t > last /\ seen[a].t = last
      BY <1>3, <1>5, <1>6, <1>7, <3>1
    <3>3. more[j].t \in Int /\ seen[i].t \in Int
      <4>1. u + j - a \in 1 .. c /\ more[j] = chunk[u + j - a]
        BY <1>4, <3>1
      <4>2. more[j].t \in Int
        BY <1>2, <4>1
      <4> QED BY <1>2, <3>1, <4>2
    <3> QED BY ONLY <1>6, <3>1, <3>2, <3>3
  <2>3. CASE ~(i <= a)
    <3>1. i \in a + 1 .. a + c - u /\ j \in a + 1 .. a + c - u
      BY <1>1, <1>50, <1>2, <2>3
    <3>3. u + i - a <= u + j - a
      BY <1>50, <1>2, <3>1
    <3>2. /\ u + i - a \in 1 .. c /\ u + j - a \in 1 .. c /\ u + i - a <= u + j - a
          /\ more[i] = chunk[u + i - a] /\ more[j] = chunk[u + j - a]
      BY <1>4, <3>1, <3>3
    <3> QED BY <1>5, <3>2
  <2> QED BY <2>1, <2>2, <2>3
<1>10. \A p \in u + 1 .. c : more[a + p - u] = chunk[p]
  <2> TAKE p \in u + 1 .. c
  <2>1. a + p - u \in a + 1 .. a + c - u /\ u + (a + p - u) - a = p
    BY <1>1, <1>50, <1>2
  <2> QED BY <1>4, <2>1
<1> QED BY <1>1, <1>3, <1>8, <1>9, <1>10, <1>62 DEF u, Adds

\* Going on twice.
LEMMA ContinuesOn ==
  ASSUME NEW a, NEW b, NEW c, a \in Seq(Sample), b \in Seq(Sample), c \in Seq(Sample),
         Ascends(b), Continues(a, b), Continues(b, c)
  PROVE  Continues(a, c) /\ Continues(a, a)
<1> DEFINE x == Len(a)
           y == Len(b)
           z == Len(c)
<1>1. /\ x \in Nat /\ y \in Nat /\ z \in Nat /\ z <= y /\ y <= x
      /\ \A n \in 1 .. y : a[n] = b[n]
      /\ \A n \in 1 .. z : b[n] = c[n]
      /\ b # <<>> => (\A n \in y + 1 .. x : a[n].t > Last(b).t) /\ Last(b) = b[y] /\ y >= 1
      /\ c # <<>> => (\A n \in z + 1 .. y : b[n].t > Last(c).t) /\ Last(c) = c[z] /\ z >= 1
      /\ \A i, j \in 1 .. y : i <= j => b[i].t <= b[j].t
      /\ z >= 1 => b # <<>>
  BY DEF Continues, Ascends, Last
<1>2. (\A n \in 1 .. x : a[n].t \in Int) /\ (\A n \in 1 .. y : b[n].t \in Int)
  BY TimesTyped
<1>3. Continues(a, a)
  BY <1>1 DEF Continues
<1> HIDE DEF x, y, z
<1>4. \A n \in 1 .. z : a[n] = c[n]
  BY <1>1
<1>5. ASSUME c # <<>>, NEW n \in z + 1 .. x PROVE a[n].t > Last(c).t
  <2>1. z \in 1 .. y /\ y \in 1 .. y /\ Last(c) = b[z] /\ b # <<>> /\ n \in 1 .. x
    BY <1>1, <1>5
  <2>2. CASE n <= y
    <3>1. n \in z + 1 .. y /\ n \in 1 .. y
      BY <1>1, <2>2
    <3> QED BY <1>1, <1>5, <3>1
  <2>3. CASE ~(n <= y)
    <3>1. n \in y + 1 .. x
      BY <1>1, <2>3
    <3>2. a[n].t > b[y].t /\ b[z].t <= b[y].t
      BY <1>1, <2>1, <3>1
    <3> QED BY <1>2, <2>1, <3>2
  <2> QED BY <2>2, <2>3
<1>6. z <= x
  BY <1>1
<1>7. Len(c) <= Len(a) /\ (\A n \in 1 .. Len(c) : a[n] = c[n])
  BY <1>4, <1>6 DEF x, z
<1>8. c # <<>> => \A n \in Len(c) + 1 .. Len(a) : a[n].t > Last(c).t
  BY <1>5 DEF x, z
<1> QED BY <1>3, <1>7, <1>8 DEF Continues

\* There is one latest time.
LEMMA WholeOnce ==
  ASSUME NEW T, T \subseteq Int, NEW a, NEW b, Whole(a, T), Whole(b, T)
  PROVE  a = b /\ a \in Int \cup {NoTime}
<1>1. CASE T = {}
  BY <1>1 DEF Whole
<1>2. CASE T # {}
  <2>1. a \in T /\ b \in T /\ a <= b /\ b <= a /\ a \in Int /\ b \in Int
    BY <1>2 DEF Whole
  <2> QED BY <2>1
<1> QED BY <1>1, <1>2

\* Chunks in time order, as an input has them.
Chunked(rs) == rs \in Seq(Seq(Sample)) /\ \A r \in 1 .. Len(rs) : InTimeOrder(rs[r])

\* What is known of what the first q chunks leave.
Merges(rs, q) ==
  /\ Upto(rs, q) \in Seq(Sample) /\ Ascends(Upto(rs, q))
  /\ \E w \in Int \cup {NoTime} : Caught(Upto(rs, q), w) /\ Whole(w, Ends(rs, q + 1))
  /\ \A r \in 0 .. q : Continues(Upto(rs, q), Upto(rs, r))

\* One chunk more of the first ones.
LEMMA UptoNext ==
  ASSUME NEW rs, Chunked(rs), NEW q, q \in 0 .. Len(rs) - 1
  PROVE  /\ Upto(rs, 0) = <<>>
         /\ Upto(rs, q + 1) = Upto(rs, q) \o Unseen(Upto(rs, q), rs[q + 1])
         /\ rs[q + 1] \in Seq(Sample) /\ InTimeOrder(rs[q + 1]) /\ Upto(rs, q) \in Seq(Sample)
<1> DEFINE a == SubSeq(rs, 1, q)
           b == SubSeq(rs, 1, q + 1)
           Z == Seq(Sample)
<1>1. rs \in Seq(Z) /\ q \in Nat /\ q + 1 \in 1 .. Len(rs) /\ Len(rs) \in Nat
  BY DEF Chunked
<1> HIDE DEF Z
<1>2. a \in Seq(Z) /\ Len(a) = q /\ \A k \in 1 .. q : a[k] = rs[k]
  <2>1. 1 \in 1 .. Len(rs) + 1 /\ q \in 0 .. Len(rs)
    BY <1>1
  <2>2. /\ a \in Seq(Z) /\ Len(a) = (IF 1 <= q THEN q - 1 + 1 ELSE 0)
        /\ \A k \in 1 .. q - 1 + 1 : a[k] = rs[1 + k - 1]
    BY <1>1, <2>1, StretchTyped
  <2> QED BY <1>1, <2>2
<1>3. b \in Seq(Z) /\ Len(b) = q + 1 /\ \A k \in 1 .. q + 1 : b[k] = rs[k]
  <2>1. 1 \in 1 .. Len(rs) + 1 /\ q + 1 \in 0 .. Len(rs)
    BY <1>1
  <2>2. /\ b \in Seq(Z) /\ Len(b) = (IF 1 <= q + 1 THEN (q + 1) - 1 + 1 ELSE 0)
        /\ \A k \in 1 .. (q + 1) - 1 + 1 : b[k] = rs[1 + k - 1]
    BY <1>1, <2>1, StretchTyped
  <2> QED BY <1>1, <2>2
<1>4. rs[q + 1] \in Z /\ InTimeOrder(rs[q + 1])
  BY <1>1 DEF Chunked
<1> HIDE DEF a, b
<1>5. b = Append(a, rs[q + 1])
  <2> DEFINE c == Append(a, rs[q + 1])
  <2>1. c \in Seq(Z) /\ Len(c) = q + 1 /\ \A k \in 1 .. q + 1 : c[k] = rs[k]
    BY <1>1, <1>2, <1>4
  <2> HIDE DEF c
  <2>2. b = c
    BY <1>1, <1>3, <2>1
  <2> QED BY <2>2 DEF c
<1>6. /\ Merged(<<>>) = <<>> /\ Merged(a) \in Seq(Sample)
      /\ Merged(Append(a, rs[q + 1])) = Merged(a) \o Unseen(Merged(a), rs[q + 1])
  BY <1>2, <1>4, MergedGrows DEF Z
<1>7. Upto(rs, 0) = Merged(<<>>)
  <2>1. SubSeq(rs, 1, 0) = <<>>
    BY <1>1
  <2> QED BY <2>1 DEF Upto
<1> QED BY <1>4, <1>5, <1>6, <1>7, Zenon DEF Upto, Z, a, b

\* The chunks leave their samples in time order, none of them at or before one an earlier
\* chunk has claimed.
LEMMA MergesAll ==
  ASSUME NEW rs, Chunked(rs)
  PROVE  \A q \in 0 .. Len(rs) : Merges(rs, q)
<1> DEFINE S == {q \in 0 .. Len(rs) : Merges(rs, q)}
           m == Len(rs)
<1>1. m \in Nat /\ rs \in Seq(Seq(Sample))
  BY DEF Chunked
<1>2. 0 \in S
  <2>1. SubSeq(rs, 1, 0) = <<>>
    BY <1>1
  <2>2. Upto(rs, 0) = <<>>
    <3>1. <<>> \in Seq(Sample) /\ <<>> \in Seq(Seq(Sample))
      OBVIOUS
    <3> QED BY <2>1, <3>1, MergedGrows DEF Upto
  <2>3. Ends(rs, 0 + 1) = {}
    BY DEF Ends
  <2>4. Whole(NoTime, Ends(rs, 0 + 1)) /\ Caught(Upto(rs, 0), NoTime)
    BY <2>2, <2>3 DEF Whole, Caught
  <2>5. Upto(rs, 0) \in Seq(Sample) /\ Ascends(Upto(rs, 0)) /\ Continues(Upto(rs, 0), Upto(rs, 0))
    <3>1. Len(<<>>) = 0 /\ <<>> \in Seq(Sample)
      OBVIOUS
    <3>2. 1 .. 0 = {} /\ 0 + 1 .. 0 = {} /\ 0 <= 0
      OBVIOUS
    <3>3. Ascends(<<>>) /\ Continues(<<>>, <<>>)
      BY <3>1, <3>2 DEF Ascends, Continues
    <3> QED BY <2>2, <3>1, <3>3, Zenon
  <2>6. \A r \in 0 .. 0 : r = 0
    OBVIOUS
  <2>7. NoTime \in Int \cup {NoTime} /\ 0 \in 0 .. Len(rs)
    BY <1>1
  <2> QED BY <2>4, <2>5, <2>6, <2>7 DEF Merges
<1>3. ASSUME NEW q \in 0 .. m - 1, q \in S
      PROVE  q + 1 \in S
  <2> DEFINE x == Upto(rs, q)
             y == Upto(rs, q + 1)
             chunk == rs[q + 1]
  <2>1. /\ y = x \o Unseen(x, chunk) /\ chunk \in Seq(Sample) /\ InTimeOrder(chunk) /\ x \in Seq(Sample)
    BY UptoNext
  <2>2. Merges(rs, q)
    BY <1>3
  <2>3. PICK w \in Int \cup {NoTime} : Caught(x, w) /\ Whole(w, Ends(rs, q + 1))
    BY <2>2 DEF Merges
  <2>4. Ascends(x) /\ \A r \in 0 .. q : Continues(x, Upto(rs, r))
    BY <2>2 DEF Merges
  <2>5. q \in Nat /\ q + 1 \in 0 .. m /\ q + 1 \in 1 .. m
    BY <1>1
  <2> HIDE DEF x, y, chunk, m
  <2>6. y \in Seq(Sample) /\ Ascends(y) /\ Continues(y, x) /\ Adds(y, x, chunk, Seen(w, chunk))
    BY <2>1, <2>3, <2>4, MergeStep
  <2>7. \E v \in Int \cup {NoTime} : Caught(y, v) /\ Whole(v, Ends(rs, q + 2))
    <3>1. /\ Ends(rs, q + 1) \subseteq Int
          /\ chunk = <<>> => Ends(rs, q + 1 + 1) = Ends(rs, q + 1)
          /\ chunk # <<>> => /\ Ends(rs, q + 1 + 1) = Ends(rs, q + 1) \cup {Last(chunk).t}
                             /\ Last(chunk).t \in Int
      BY <1>1, <2>5, EndsGrow DEF chunk, m
    <3>2. q + 1 + 1 = q + 2
      BY <2>5
    <3>3. CASE chunk = <<>>
      <4>1. y = x
        <5>1. DOMAIN chunk = {}
          BY <3>3
        <5>2. Unseen(x, chunk) = At(chunk, {})
          BY <5>1 DEF Unseen
        <5>3. Unseen(x, chunk) = <<>>
          BY <5>2, AtNone
        <5> QED BY <2>1, <5>3
      <4> QED BY <2>3, <3>1, <3>2, <3>3, <4>1
    <3>4. CASE chunk # <<>>
      <4> DEFINE v == Claimed(w, Last(chunk).t)
      <4>1. Caught(y, v)
        BY <2>1, <2>3, <3>4, StaysCaught
      <4>2. v \in Int
        BY <3>1, <3>4, ClaimedTyped
      <4>3. Whole(v, Ends(rs, q + 1) \cup {Last(chunk).t})
        <5>1. \A t \in Ends(rs, q + 1) : t \in Int
          BY <3>1
        <5>2. CASE Ends(rs, q + 1) = {}
          BY <2>3, <3>1, <3>4, <5>2 DEF Whole, Claimed
        <5>3. CASE Ends(rs, q + 1) # {}
          <6>1. w \in Ends(rs, q + 1) /\ (\A t \in Ends(rs, q + 1) : t <= w) /\ w \in Int /\ w # NoTime
            BY <2>3, <5>1, <5>3, BufferAssumption DEF Whole
          <6>2. v = IF w > Last(chunk).t THEN w ELSE Last(chunk).t
            BY <6>1 DEF Claimed, Greater
          <6> HIDE DEF v
          <6>3. Last(chunk).t \in Int
            BY <3>1, <3>4
          <6>4. \A t \in Ends(rs, q + 1) : t <= v
            <7> TAKE t \in Ends(rs, q + 1)
            <7>1. t \in Int /\ t <= w
              BY <5>1, <6>1
            <7> QED BY <6>1, <6>2, <6>3, <7>1
          <6>5. Last(chunk).t <= v /\ v \in Ends(rs, q + 1) \cup {Last(chunk).t}
            BY <6>1, <6>2, <6>3
          <6> QED BY <6>4, <6>5 DEF Whole
        <5> QED BY <5>2, <5>3
      <4> QED BY <3>1, <3>2, <3>4, <4>1, <4>2, <4>3
    <3> QED BY <3>3, <3>4
  <2>8. \A r \in 0 .. q + 1 : Continues(y, Upto(rs, r))
    <3> TAKE r \in 0 .. q + 1
    <3>1. CASE r = q + 1
      <4>1. Continues(x, x)
        BY <2>4, <2>5 DEF x
      <4>2. Continues(y, y)
        BY <2>1, <2>4, <2>6, <4>1, ContinuesOn
      <4> QED BY <3>1, <4>2 DEF y
    <3>2. CASE r # q + 1
      <4>1. r \in 0 .. q
        BY <2>5, <3>2
      <4>2. Continues(x, Upto(rs, r))
        BY <2>4, <4>1
      <4>3. Upto(rs, r) \in Seq(Sample)
        <5>1. r \in 0 .. Len(rs) - 1
          BY <1>1, <2>5, <4>1 DEF m
        <5> QED BY <5>1, UptoNext
      <4> QED BY <2>1, <2>4, <2>6, <4>2, <4>3, ContinuesOn
    <3> QED BY <3>1, <3>2
  <2>9. q + 1 + 1 = q + 2
    BY <2>5
  <2>10. Merges(rs, q + 1)
    BY <2>6, <2>7, <2>8, <2>9 DEF Merges, y
  <2> QED BY <2>5, <2>10 DEF m
<1> HIDE DEF S
<1>4. \A q \in 0 .. m : q \in S
  <2> HIDE DEF m
  <2> QED BY <1>1, <1>2, <1>3, Induct
<1> QED BY <1>4 DEF S

-----------------------------------------------------------------------------
(***************************************************************************)
(* How far the series has been read.                                       *)
(***************************************************************************)
Samples == Merged(rows)

\* As many of them as have been taken in, passed over or claimed.
Read ==
  IF InHand THEN Len(Upto(rows, row)) - (Len(rows[row]) - position)
  ELSE Len(Upto(rows, row - 1))

\* What another chunk had claimed of the one in hand has been passed over.
ReadInv == InHand => Len(Upto(rows, row - 1)) <= Read

\* The input's chunks, and all they leave.
LEMMA SamplesTyped ==
  ASSUME TypeOK
  PROVE  /\ Chunked(rows) /\ Len(rows) \in Nat /\ Samples = Upto(rows, Len(rows))
         /\ Samples \in Seq(Sample) /\ Ascends(Samples) /\ Len(Samples) \in Nat
         /\ \A n \in 1 .. Len(Samples) : Samples[n] \in Sample /\ Samples[n].t \in Int
         /\ \A q \in 0 .. Len(rows) : /\ Upto(rows, q) \in Seq(Sample) /\ Len(Upto(rows, q)) \in Nat
                                      /\ Continues(Samples, Upto(rows, q))
                                      /\ Len(Upto(rows, q)) <= Len(Samples)
<1>1. /\ rows \in Seq(Seq(Sample)) /\ Len(rows) \in Nat
      /\ \A r \in DOMAIN rows : InTimeOrder(rows[r])
  BY InputTyped, BufferAssumption DEF TypeOK, rows
<1>2. Chunked(rows)
  <2>1. DOMAIN rows = 1 .. Len(rows)
    BY <1>1
  <2> QED BY <1>1, <2>1 DEF Chunked
<1>3. \A q \in 0 .. Len(rows) : Merges(rows, q)
  BY <1>2, MergesAll
<1>4. SubSeq(rows, 1, Len(rows)) = rows
  BY <1>1
<1>5. Samples = Upto(rows, Len(rows))
  BY <1>4 DEF Samples, Upto
<1>6. Merges(rows, Len(rows))
  BY <1>1, <1>3
<1>7. Samples \in Seq(Sample) /\ Ascends(Samples) /\ \A r \in 0 .. Len(rows) : Continues(Samples, Upto(rows, r))
  BY <1>5, <1>6 DEF Merges
<1>8. \A q \in 0 .. Len(rows) : Upto(rows, q) \in Seq(Sample)
  BY <1>3 DEF Merges
<1>9. /\ Len(Samples) \in Nat /\ \A n \in 1 .. Len(Samples) : Samples[n] \in Sample /\ Samples[n].t \in Int
  BY <1>7, TimesTyped
<1>10. \A q \in 0 .. Len(rows) : Len(Upto(rows, q)) \in Nat
  BY <1>8, TimesTyped
<1>11. \A q \in 0 .. Len(rows) : Len(Upto(rows, q)) <= Len(Samples)
  BY <1>7 DEF Continues
<1> QED BY <1>1, <1>2, <1>5, <1>7, <1>8, <1>9, <1>10, <1>11

\* What is claimed is where the first chunks end.
LEMMA ClaimedUpto ==
  ASSUME TypeOK, NEW q, q \in 0 .. Len(rows), Whole(lastT, Ends(rows, q + 1))
  PROVE  /\ lastT \in Int \cup {NoTime} /\ Caught(Upto(rows, q), lastT)
         /\ lastT # NoTime => \A n \in Len(Upto(rows, q)) + 1 .. Len(Samples) : Samples[n].t > lastT
<1>1. Chunked(rows) /\ Len(rows) \in Nat /\ Continues(Samples, Upto(rows, q))
  BY SamplesTyped
<1>2. Merges(rows, q)
  BY <1>1, MergesAll
<1>3. PICK w \in Int \cup {NoTime} : Caught(Upto(rows, q), w) /\ Whole(w, Ends(rows, q + 1))
  BY <1>2 DEF Merges
<1>4. Ends(rows, q + 1) \subseteq Int
  <2>1. CASE q = Len(rows)
    <3>1. CASE q = 0
      <4>1. Ends(rows, q + 1) = {}
        BY <3>1 DEF Ends
      <4> QED BY <4>1
    <3>2. CASE q # 0
      <4>1. q \in 1 .. Len(rows) /\ rows \in Seq(Seq(Sample)) /\ q + 1 = q + 1
        BY <1>1, <3>2 DEF Chunked
      <4>2. /\ Ends(rows, q) \subseteq Int
            /\ rows[q] = <<>> => Ends(rows, q + 1) = Ends(rows, q)
            /\ rows[q] # <<>> => /\ Ends(rows, q + 1) = Ends(rows, q) \cup {rows[q][Len(rows[q])].t}
                                 /\ rows[q][Len(rows[q])].t \in Int
        BY <4>1, EndsGrow
      <4> QED BY <4>2
    <3> QED BY <3>1, <3>2
  <2>2. CASE q # Len(rows)
    <3>1. q + 1 \in 1 .. Len(rows) /\ rows \in Seq(Seq(Sample))
      BY <1>1, <2>2 DEF Chunked
    <3> QED BY <3>1, EndsGrow
  <2> QED BY <2>1, <2>2
<1>5. w = lastT
  BY <1>3, <1>4, WholeOnce
<1>6. Caught(Upto(rows, q), lastT)
  BY <1>3, <1>5
<1>7. ASSUME lastT # NoTime
      PROVE  \A n \in Len(Upto(rows, q)) + 1 .. Len(Samples) : Samples[n].t > lastT
  <2>1. Upto(rows, q) # <<>> /\ Last(Upto(rows, q)).t = lastT
    BY <1>6, <1>7 DEF Caught
  <2> QED BY <1>1, <2>1 DEF Continues
<1> QED BY <1>3, <1>5, <1>6, <1>7

\* The rest of the chunk in hand is what follows of the samples.
LEMMA RowFollows ==
  ASSUME ClaimedInv, ReadInv, InHand
  PROVE  /\ row \in 1 .. Len(rows) /\ rows[row] \in Seq(Sample) /\ Len(rows[row]) \in Nat
         /\ position \in 0 .. Len(rows[row])
         /\ Read \in 0 .. Len(Samples) /\ Read + Len(rows[row]) - position = Len(Upto(rows, row))
         /\ Len(Upto(rows, row)) <= Len(Samples)
         /\ \A p \in position + 1 .. Len(rows[row]) :
              Read + p - position \in 1 .. Len(Samples) /\ Samples[Read + p - position] = rows[row][p]
<1>1. /\ row \in 1 .. Len(rows) /\ Len(rows) \in Nat /\ rows[row] \in Seq(Sample) /\ Len(rows[row]) \in Nat
  BY RowTimes DEF InHand, ClaimedInv, WindowInv
<1>2. position \in 0 .. Len(rows[row])
  <2>1. position \in Nat /\ position <= Len(rows[row])
    BY DEF ClaimedInv, WindowInv, TypeOK, Grounded, InHand
  <2> QED BY <1>1, <2>1
<1> DEFINE a == Len(Upto(rows, row - 1))
           b == Len(Upto(rows, row))
           c == Len(rows[row])
           d == Len(Samples)
<1>3. /\ Chunked(rows) /\ row - 1 \in 0 .. Len(rows) - 1 /\ row - 1 \in 0 .. Len(rows)
      /\ row \in 0 .. Len(rows) /\ row - 1 + 1 = row
  BY <1>1, SamplesTyped DEF ClaimedInv, WindowInv
<1>4. /\ a \in Nat /\ b \in Nat /\ d \in Nat /\ b <= d /\ Continues(Samples, Upto(rows, row))
      /\ Upto(rows, row - 1) \in Seq(Sample)
  BY <1>3, SamplesTyped DEF ClaimedInv, WindowInv
<1>5. \E u : Adds(Upto(rows, row), Upto(rows, row - 1), rows[row], u)
  <2>1. Merges(rows, row - 1)
    BY <1>3, MergesAll
  <2>2. PICK w \in Int \cup {NoTime} : Caught(Upto(rows, row - 1), w)
    BY <2>1 DEF Merges
  <2>3. /\ Upto(rows, row) = Upto(rows, row - 1) \o Unseen(Upto(rows, row - 1), rows[row])
        /\ InTimeOrder(rows[row])
    <3> DEFINE q == row - 1
    <3>1. q + 1 = row /\ q \in 0 .. Len(rows) - 1
      BY <1>3
    <3> HIDE DEF q
    <3>2. /\ Upto(rows, q + 1) = Upto(rows, q) \o Unseen(Upto(rows, q), rows[q + 1])
          /\ InTimeOrder(rows[q + 1])
      BY <1>3, <3>1, UptoNext
    <3> QED BY <3>1, <3>2 DEF q
  <2>4. Ascends(Upto(rows, row - 1))
    BY <2>1 DEF Merges
  <2> QED BY <1>1, <1>4, <2>2, <2>3, <2>4, MergeStep
<1>6. PICK u : Adds(Upto(rows, row), Upto(rows, row - 1), rows[row], u)
  BY <1>5
<1>7. Read = b - (c - position) /\ a <= Read
  BY DEF Read, ReadInv
<1>8. /\ u \in 0 .. c /\ b = a + c - u
      /\ \A p \in u + 1 .. c : Upto(rows, row)[a + p - u] = rows[row][p]
  BY <1>6 DEF Adds
<1>9. \A n \in 1 .. b : Samples[n] = Upto(rows, row)[n]
  BY <1>4 DEF Continues
<1>10. /\ c \in Nat /\ position \in 0 .. c
  BY <1>1, <1>2
<1> HIDE DEF a, b, c, d
<1>11. u <= position /\ Read = a + position - u /\ Read \in 0 .. d /\ Read + c - position = b
  BY <1>4, <1>7, <1>8, <1>10
<1>12. ASSUME NEW p \in position + 1 .. c
       PROVE  Read + p - position \in 1 .. d /\ Samples[Read + p - position] = rows[row][p]
  <2>1. /\ p \in u + 1 .. c /\ Read + p - position = a + p - u /\ a + p - u \in 1 .. b
        /\ a + p - u \in 1 .. d
    BY <1>4, <1>8, <1>10, <1>11
  <2> QED BY <1>8, <1>9, <2>1
<1> QED BY <1>1, <1>2, <1>4, <1>11, <1>12 DEF b, c, d

\* Nothing that is claimed is left to be read.
LEMMA UnreadIsLater ==
  ASSUME ClaimedInv, ReadInv, pc # "closed"
  PROVE  /\ Read \in 0 .. Len(Samples)
         /\ \A n \in Read + 1 .. Len(Samples) : lastT # NoTime => Samples[n].t > lastT
         /\ ~InHand /\ row > Len(rows) => Read = Len(Samples)
<1> DEFINE d == Len(Samples)
<1>1. TypeOK /\ row \in 1 .. Len(rows) + 1 /\ Len(rows) \in Nat /\ lastT \in Int \cup {NoTime}
  <2>1. TypeOK
    BY DEF ClaimedInv, WindowInv
  <2> QED BY <2>1, StateTyped, InputTyped
<1>2. CASE InHand
  <2> DEFINE c == Len(rows[row])
  <2>1. /\ row \in 1 .. Len(rows) /\ position \in 0 .. c /\ c \in Nat /\ Read \in 0 .. d
        /\ Read + c - position = Len(Upto(rows, row)) /\ Len(Upto(rows, row)) <= d
        /\ rows[row] \in Seq(Sample)
        /\ \A p \in position + 1 .. c :
             Read + p - position \in 1 .. d /\ Samples[Read + p - position] = rows[row][p]
    BY <1>2, RowFollows
  <2>2. d \in Nat /\ Ascends(Samples) /\ \A n \in 1 .. d : Samples[n].t \in Int
    BY <1>1, SamplesTyped
  <2>3. \A i, j \in 1 .. d : i <= j => Samples[i].t <= Samples[j].t
    BY <2>2 DEF Ascends
  <2>4. position < c /\ lastT # NoTime => lastT < rows[row][position + 1].t
    BY <1>2 DEF ClaimedInv, ClaimInv
  <2>5. position = c => Whole(lastT, Ends(rows, row + 1))
    BY <1>2 DEF ClaimedInv, ClaimInv
  <2> HIDE DEF c, d
  <2>6. CASE position < c
    <3>1. position + 1 \in position + 1 .. c /\ Read + (position + 1) - position = Read + 1
      BY <2>1, <2>6
    <3>2. Read + 1 \in 1 .. d /\ Samples[Read + 1] = rows[row][position + 1]
      BY <2>1, <3>1
    <3>3. ASSUME NEW n \in Read + 1 .. d, lastT # NoTime PROVE Samples[n].t > lastT
      <4>1. n \in 1 .. d /\ Read + 1 <= n
        BY <2>1, <2>2
      <4>2. Samples[Read + 1].t <= Samples[n].t /\ lastT < Samples[Read + 1].t
        BY <2>3, <2>4, <2>6, <3>2, <3>3, <4>1
      <4>3. Samples[n].t \in Int /\ Samples[Read + 1].t \in Int /\ lastT \in Int
        BY <1>1, <2>2, <3>2, <3>3, <4>1
      <4> QED BY <4>2, <4>3
    <3> QED BY <1>2, <2>1, <3>3 DEF d
  <2>7. CASE ~(position < c)
    <3>1. position = c /\ Read = Len(Upto(rows, row)) /\ row \in 0 .. Len(rows)
      BY <1>1, <2>1, <2>7
    <3>2. lastT # NoTime => \A n \in Len(Upto(rows, row)) + 1 .. Len(Samples) : Samples[n].t > lastT
      BY <1>1, <2>5, <3>1, ClaimedUpto
    <3> QED BY <1>2, <2>1, <3>1, <3>2 DEF d
  <2> QED BY <2>6, <2>7
<1>3. CASE ~InHand
  <2>1. row - 1 \in 0 .. Len(rows) /\ row - 1 + 1 = row
    BY <1>1
  <2>2. Read = Len(Upto(rows, row - 1)) /\ Read \in 0 .. d
    <3>1. Len(Upto(rows, row - 1)) \in Nat /\ Len(Upto(rows, row - 1)) <= d /\ d \in Nat
      BY <1>1, <2>1, SamplesTyped
    <3> QED BY <1>3, <3>1 DEF Read
  <2>3. CASE row > Len(rows)
    <3>1. row - 1 = Len(rows)
      BY <1>1, <2>3
    <3>2. Read = d
      BY <1>1, <2>2, <3>1, SamplesTyped
    <3>3. d \in Nat
      BY <1>1, SamplesTyped
    <3>4. \A n \in Read + 1 .. d : FALSE
      BY <3>2, <3>3
    <3> QED BY <2>2, <3>2, <3>4
  <2>4. CASE ~(row > Len(rows))
    <3>1. row <= Len(rows) /\ pc = "between"
      BY <1>1, <1>3, <2>4 DEF InHand, TypeOK, ClaimedInv, WindowInv, Grounded
    <3>2. Whole(lastT, Ends(rows, row))
      BY <3>1 DEF ClaimedInv, ClaimInv
    <3> DEFINE q == row - 1
    <3>3. q \in 0 .. Len(rows) /\ q + 1 = row
      BY <2>1
    <3> HIDE DEF q
    <3>4. lastT # NoTime => \A n \in Len(Upto(rows, q)) + 1 .. Len(Samples) : Samples[n].t > lastT
      BY <1>1, <3>2, <3>3, ClaimedUpto
    <3> QED BY <2>2, <2>4, <3>4 DEF q
  <2> QED BY <2>3, <2>4
<1> QED BY <1>2, <1>3

\* A turn that keeps the row and the place in it.
LEMMA ReadStays ==
  ASSUME input' = input, row' = row, position' = position, InHand' <=> InHand, ReadInv
  PROVE  Read' = Read /\ ReadInv'
<1>1. rows' = rows
  BY DEF rows
<1>2. Upto(rows, row)' = Upto(rows, row) /\ Upto(rows, row - 1)' = Upto(rows, row - 1)
      /\ Len(rows[row])' = Len(rows[row])
  BY <1>1 DEF Upto
<1>3. Read' = Read
  BY <1>2 DEF Read
<1> QED BY <1>2, <1>3 DEF ReadInv

\* Only a row that is ingested, skipped or dropped is read on.
LEMMA ReadKept ==
  ASSUME ClaimedInv, ReadInv,
         \/ Poll \/ EnterKernel \/ Kernel \/ Return \/ Close \/ UNCHANGED vars
  PROVE  Read' = Read /\ ReadInv' /\ input' = input /\ row' = row
<1>1. input' = input /\ row' = row /\ position' = position
  BY DEF Poll, EnterKernel, Kernel, Return, Close, AdvanceLeft, DropBeaten, AdvanceRight, Evaluate,
         PinValue, RepeatPinned, ReturnToRow, ReturnSlice, ReturnToClose, series, vars
<1>2. rows' = rows
  BY <1>1 DEF rows
<1>3. InHand' <=> InHand
  <2>1. CASE Poll
    BY <1>1, <1>2, <2>1 DEF Poll, InHand
  <2>2. CASE EnterKernel
    BY <1>1, <1>2, <2>2 DEF EnterKernel, InHand
  <2>3. CASE Kernel
    <3>1. pc' = pc
      BY <2>3 DEF Kernel, AdvanceLeft, DropBeaten, AdvanceRight, Evaluate, PinValue, RepeatPinned
    <3> QED BY <1>1, <1>2, <3>1 DEF InHand
  <2>4. CASE ReturnToRow \/ ReturnSlice
    BY <1>1, <1>2, <2>4 DEF ReturnToRow, ReturnSlice, InHand
  <2>5. CASE ReturnToClose
    <3>1. row > Len(rows) /\ row \in Nat /\ Len(rows) \in Nat /\ pc = "close"
      <4>1. pc = "close" /\ row > Len(rows)
        BY <2>5 DEF ReturnToClose, ClaimedInv, WindowInv, Grounded
      <4> QED BY <4>1, StateTyped, InputTyped DEF ClaimedInv, WindowInv
    <3>2. ~InHand /\ ~(row <= Len(rows))
      BY <3>1 DEF InHand
    <3> QED BY <1>1, <1>2, <3>2 DEF InHand
  <2>6. CASE Close
    BY <1>1, <1>2, <2>6 DEF Close, Reset, InHand
  <2>7. CASE UNCHANGED vars
    BY <1>1, <1>2, <2>7 DEF vars, InHand
  <2> QED BY <2>1, <2>2, <2>3, <2>4, <2>5, <2>6, <2>7 DEF Return
<1> QED BY <1>1, <1>3, ReadStays

\* A row is done with.
LEMMA ReadEndRow ==
  ASSUME ClaimedInv, ReadInv, EndRow
  PROVE  Read' = Read /\ ReadInv' /\ input' = input
<1>1. input' = input /\ position' = position /\ pc = "row" /\ rows' = rows
  BY DEF EndRow, AtRow, series, rows
<1>2. InHand /\ row <= Len(rows)
  BY <1>1 DEF InHand, ClaimedInv, WindowInv, Grounded
<1>3. CASE pc' = "between" /\ row' = row + 1 /\ position = Len(rows[row])
  <2>1. row \in Nat /\ row' - 1 = row
    BY <1>3, StateTyped DEF ClaimedInv, WindowInv
  <2>2. ~InHand'
    BY <1>3 DEF InHand
  <2>3. Read = Len(Upto(rows, row))
    <3>1. Len(rows[row]) \in Nat /\ Len(Upto(rows, row)) \in Nat
      <4>1. row \in 0 .. Len(rows) /\ Len(rows[row]) \in Nat
        BY <1>2, RowTimes DEF ClaimedInv, WindowInv
      <4> QED BY <4>1, SamplesTyped DEF ClaimedInv, WindowInv
    <3> QED BY <1>2, <1>3, <3>1 DEF Read
  <2>4. Read' = Len(Upto(rows', row' - 1))
    BY <2>2 DEF Read
  <2> QED BY <1>1, <2>1, <2>2, <2>3, <2>4 DEF ReadInv
<1>4. CASE pc' = "suspended" /\ row' = row
  <2>1. InHand'
    BY <1>1, <1>2, <1>4 DEF InHand
  <2> QED BY <1>1, <1>2, <1>4, <2>1, ReadStays
<1> QED BY <1>3, <1>4 DEF EndRow

\* A chunk is taken in hand behind what another one has claimed of it.
LEMMA ReadPush ==
  ASSUME ClaimedInv, ReadInv, Push
  PROVE  Read' = Read /\ ReadInv' /\ input' = input
<1>1. input' = input /\ pc = "between" /\ rows' = rows /\ row <= Len(rows) /\ TypeOK
  BY DEF Push, series, rows, ClaimedInv, WindowInv
<1> DEFINE q == row - 1
<1>2. /\ row \in 1 .. Len(rows) /\ Len(rows) \in Nat /\ rows[row] \in Seq(Sample)
      /\ Len(rows[row]) \in Nat /\ InTimeOrder(rows[row]) /\ Chunked(rows)
      /\ q \in 0 .. Len(rows) - 1 /\ q \in 0 .. Len(rows) /\ q + 1 = row /\ row + 1 - 1 = row
  BY <1>1, RowTimes, SamplesTyped
<1>3. ~InHand /\ Read = Len(Upto(rows, q))
  BY <1>1 DEF InHand, Read
<1> HIDE DEF q
<1>4. /\ Upto(rows, row) = Upto(rows, q) \o Unseen(Upto(rows, q), rows[row])
      /\ Upto(rows, q) \in Seq(Sample)
  <2>1. /\ Upto(rows, q + 1) = Upto(rows, q) \o Unseen(Upto(rows, q), rows[q + 1])
        /\ Upto(rows, q) \in Seq(Sample)
    BY <1>2, UptoNext
  <2> QED BY <1>2, <2>1
<1>5. CASE rows[row] = <<>>
  <2>1. row' = row + 1 /\ pc' = pc
    BY <1>5 DEF Push
  <2>2. DOMAIN rows[row] = {}
    BY <1>5
  <2>3. Unseen(Upto(rows, q), rows[row]) = At(rows[row], {})
    BY <2>2 DEF Unseen
  <2>4. Upto(rows, row) = Upto(rows, q)
    BY <1>4, <2>3, AtNone
  <2>5. ~InHand' /\ row' - 1 = row
    BY <1>1, <1>2, <2>1 DEF InHand
  <2>6. Read' = Len(Upto(rows', row' - 1))
    BY <2>5 DEF Read
  <2> QED BY <1>1, <1>3, <2>4, <2>5, <2>6 DEF ReadInv
<1>6. CASE rows[row] # <<>>
  <2>1. /\ pc' = "row" /\ row' = row /\ position' = Seen(lastT, rows[row])
    BY <1>6 DEF Push, Seen
  <2>2. Whole(lastT, Ends(rows, row))
    BY <1>1 DEF ClaimedInv, ClaimInv
  <2>3. Caught(Upto(rows, q), lastT) /\ lastT \in Int \cup {NoTime}
    BY <1>1, <1>2, <2>2, ClaimedUpto
  <2>4. Ascends(Upto(rows, q))
    BY <1>2, MergesAll DEF Merges
  <2>5. Adds(Upto(rows, row), Upto(rows, q), rows[row], Seen(lastT, rows[row]))
    BY <1>2, <1>4, <2>3, <2>4, MergeStep
  <2> DEFINE a == Len(Upto(rows, q))
             c == Len(rows[row])
             u == Seen(lastT, rows[row])
             b == Len(Upto(rows, row))
  <2>6. u \in 0 .. c /\ b = a + c - u /\ a \in Nat /\ c \in Nat
    BY <1>1, <1>2, <2>5, SamplesTyped DEF Adds
  <2>7. InHand'
    BY <1>1, <2>1 DEF InHand
  <2>8. Read' = b - (c - u)
    BY <1>1, <2>1, <2>7 DEF Read
  <2>9. Read = a /\ Upto(rows', row' - 1) = Upto(rows, q)
    BY <1>1, <1>3, <2>1 DEF q
  <2> HIDE DEF a, b, c, u
  <2>10. Read' = a
    BY <2>6, <2>8
  <2>11. a <= a
    BY <2>6
  <2> QED BY <1>1, <2>9, <2>10, <2>11 DEF ReadInv, a
<1> QED BY <1>5, <1>6

\* A row is read on to some position of it.
LEMMA ReadOn ==
  ASSUME ClaimedInv, ReadInv, InHand, InHand', input' = input, row' = row,
         position' \in position .. Len(rows[row])
  PROVE  Read' = Read + position' - position /\ Read' >= Read /\ ReadInv'
<1>1. rows' = rows
  BY DEF rows
<1> DEFINE a == Len(Upto(rows, row - 1))
           b == Len(Upto(rows, row))
           c == Len(rows[row])
<1>2. Read = b - (c - position) /\ Read' = b - (c - position') /\ a <= Read
  BY <1>1 DEF Read, ReadInv, Upto
<1>3. c \in Nat /\ b \in Nat /\ position \in Nat /\ a \in Nat
  <2>1. /\ row \in 1 .. Len(rows) /\ c \in Nat /\ position \in 0 .. c /\ TypeOK /\ Len(rows) \in Nat
    BY RowFollows, RowTimes DEF ClaimedInv, WindowInv, InHand
  <2>2. row \in 0 .. Len(rows) /\ row - 1 \in 0 .. Len(rows)
    BY <2>1
  <2> QED BY <2>1, <2>2, SamplesTyped
<1>4. position' \in position .. c /\ Upto(rows', row' - 1) = Upto(rows, row - 1)
  BY <1>1
<1>5. ReadInv' <=> (InHand' => a <= Read')
  BY <1>4 DEF ReadInv
<1> HIDE DEF a, b, c
<1> DEFINE x == position'
           y == position
<1>6. x \in y .. c /\ x \in Int /\ y \in Nat
  BY <1>3, <1>4
<1>7. Read = b - (c - y) /\ Read' = b - (c - x)
  BY <1>2
<1> HIDE DEF x, y
<1> DEFINE m == Read
           n == Read'
<1>9. m = b - (c - y) /\ n = b - (c - x)
  BY <1>7
<1>10. a <= m
  BY <1>2
<1>11. x >= y
  BY ONLY <1>3, <1>6
<1> HIDE DEF m, n
<1>8. n = m + x - y /\ n >= m /\ a <= n
  BY ONLY <1>3, <1>6, <1>9, <1>10, <1>11
<1> USE DEF m, n
<1> QED BY <1>5, <1>8 DEF x, y

-----------------------------------------------------------------------------
(***************************************************************************)
(* The window ends ascend with the steps.                                  *)
(***************************************************************************)
LEMMA EndsAscend ==
  ASSUME NEW g \in Grids, StepCount(g) # 0, NEW k \in Int, NEW m \in Int, k <= m
  PROVE  /\ End(g, k) \in Int /\ End(g, m) \in Int /\ g.window \in Int
         /\ End(g, k) <= End(g, m)
         /\ g.at # NoAt => End(g, k) = WindowEnd(g, g.start) /\ End(g, m) = WindowEnd(g, g.start)
<1>1. g.start \in Int /\ g.step \in Int /\ g.offset \in Int /\ g.at \in Int \cup {NoAt} /\ g.step > 0
      /\ g.window \in Int
  BY DEF Grids, StepCount
<1>2. End(g, k) \in Int /\ End(g, m) \in Int
  BY EndTyped
<1>3. /\ End(g, k) = (IF g.at = NoAt THEN g.start + k * g.step ELSE g.at) - g.offset
      /\ End(g, m) = (IF g.at = NoAt THEN g.start + m * g.step ELSE g.at) - g.offset
      /\ WindowEnd(g, g.start) = (IF g.at = NoAt THEN g.start ELSE g.at) - g.offset
  BY DEF End, WindowEnd, StepAt
<1>4. k * g.step \in Int /\ m * g.step \in Int /\ k * g.step <= m * g.step
  <2> DEFINE d == m - k
             s == g.step
  <2>1. d \in Nat /\ m = k + d /\ s \in Nat
    BY <1>1
  <2> HIDE DEF d, s
  <2>2. d * s \in Nat /\ k * s \in Int
    BY <2>1
  <2>3. (k + d) * s = k * s + d * s
    BY <2>1
  <2>4. k * s <= m * s /\ m * s \in Int
    BY <2>1, <2>2, <2>3
  <2> QED BY <2>2, <2>4 DEF s
<1>40. PICK x \in Int : x = k * g.step
  BY <1>4
<1>41. PICK y \in Int : y = m * g.step
  BY <1>4
<1>42. x <= y
  BY <1>4, <1>40, <1>41
<1>5. CASE g.at = NoAt
  <2>1. /\ End(g, k) = (IF g.at = NoAt THEN g.start + x ELSE g.at) - g.offset
        /\ End(g, m) = (IF g.at = NoAt THEN g.start + y ELSE g.at) - g.offset
    BY <1>3, <1>40, <1>41, Zenon
  <2>2. End(g, k) = (g.start + x) - g.offset /\ End(g, m) = (g.start + y) - g.offset
    <3>1. (IF g.at = NoAt THEN g.start + x ELSE g.at) = g.start + x
      BY <1>5
    <3>2. (IF g.at = NoAt THEN g.start + y ELSE g.at) = g.start + y
      BY <1>5
    <3> QED BY ONLY <2>1, <3>1, <3>2, Zenon
  <2> QED BY <1>1, <1>2, <1>42, <1>5, <2>2
<1>6. CASE g.at # NoAt
  <2>1. End(g, k) = g.at - g.offset /\ End(g, m) = g.at - g.offset /\ WindowEnd(g, g.start) = g.at - g.offset
    BY <1>3, <1>6
  <2> QED BY <1>1, <1>2, <2>1
<1> QED BY <1>5, <1>6

\* There is a step to answer, and its window is not empty for want of width.
Going == pc # "closed" /\ nextStep < steps /\ ~NoWindow

\* The window of the step, and the last one.
LEMMA GoingTyped ==
  ASSUME TypeOK, nextStep < steps
  PROVE  /\ WindowStop \in Int /\ WindowStart \in Int /\ FinalEnd \in Int /\ grid.window \in Int
         /\ WindowStart = WindowStop - grid.window
         /\ WindowStop <= FinalEnd /\ (Pinning => WindowStop = FinalEnd)
         /\ IsRange /\ ~NoWindow => WindowStart < WindowStop
         /\ \A k \in nextStep .. steps - 1 :
              /\ End(grid, k) \in Int /\ WindowStop <= End(grid, k) /\ End(grid, k) <= FinalEnd
              /\ End(grid, k) <= IntMax
<1>1. grid \in Grids /\ nextStep \in Nat /\ steps \in Nat /\ steps # 0 /\ input \in Inputs
  <2>1. grid \in Grids /\ nextStep \in Nat /\ steps \in Nat
    BY StateTyped, InputTyped
  <2> QED BY <2>1 DEF TypeOK
<1>2. StepCount(grid) = steps
  BY DEF steps
<1>3. FinalEnd = IF Pinning THEN WindowEnd(grid, grid.start) ELSE End(grid, steps - 1)
  BY <1>1 DEF FinalEnd
<1>4. \A k \in nextStep .. steps - 1 :
        /\ End(grid, k) \in Int /\ WindowStop <= End(grid, k) /\ End(grid, k) <= FinalEnd /\ FinalEnd \in Int
        /\ WindowStop \in Int /\ grid.window \in Int /\ (Pinning => End(grid, k) = FinalEnd)
  <2> TAKE k \in nextStep .. steps - 1
  <2>1. k \in Int /\ nextStep \in Int /\ steps - 1 \in Int /\ nextStep <= k /\ k <= steps - 1
    BY <1>1
  <2>2. /\ End(grid, nextStep) <= End(grid, k) /\ End(grid, k) \in Int /\ End(grid, nextStep) \in Int
        /\ grid.window \in Int
        /\ grid.at # NoAt => End(grid, k) = WindowEnd(grid, grid.start)
    BY <1>1, <1>2, <2>1, EndsAscend
  <2>3. /\ End(grid, k) <= End(grid, steps - 1) /\ End(grid, steps - 1) \in Int
    BY <1>1, <1>2, <2>1, EndsAscend
  <2> QED BY <1>3, <2>2, <2>3 DEF WindowStop, Pinning
<1>5. nextStep \in nextStep .. steps - 1
  BY <1>1
<1>6. /\ WindowStop \in Int /\ FinalEnd \in Int /\ grid.window \in Int /\ WindowStop <= FinalEnd
      /\ Pinning => WindowStop = FinalEnd
  BY <1>4, <1>5 DEF WindowStop
<1>7. WindowStart = WindowStop - grid.window /\ WindowStart \in Int
  BY <1>6 DEF WindowStart
<1>8. IsRange /\ ~NoWindow => WindowStart < WindowStop
  BY <1>6, <1>7 DEF NoWindow
<1>9. \A k \in nextStep .. steps - 1 : End(grid, k) <= IntMax
  <2> TAKE k \in nextStep .. steps - 1
  <2>1. k \in 0 .. StepCount(grid) - 1
    BY <1>1, <1>2
  <2> QED BY <1>1, <2>1, BufferAssumption DEF grid
<1> QED BY <1>4, <1>6, <1>7, <1>8, <1>9

-----------------------------------------------------------------------------
(***************************************************************************)
(* What is held of the samples: all that a later step can read of those    *)
(* read so far.  A selector may keep a later one in their place that is    *)
(* due with the step at hand.                                              *)
(***************************************************************************)
Stands(s, held, f, n, range, e) ==
  \E i \in 1 .. Len(held) : n <= f[i] /\ (n = f[i] \/ (~range /\ s[f[i]].t <= e))

Readable(x, range, d, fin) == (range => x.v # Stale) /\ d < x.t /\ x.t <= fin

Holds(s, held, f, rd, range, d, e, fin) ==
  /\ Picked(s, held, f)
  /\ \A i \in 1 .. Len(held) : f[i] <= rd
  /\ \A n \in 1 .. rd : Readable(s[n], range, d, fin) => Stands(s, held, f, n, range, e)

Holding(s, held, rd, range, d, e, fin) == \E f : Holds(s, held, f, rd, range, d, e, fin)

\* A later step reads no more of what has been read.
LEMMA HoldingLater ==
  ASSUME NEW s, NEW held, NEW rd, NEW range, NEW d \in Int, NEW e \in Int, NEW fin,
         NEW d2 \in Int, NEW e2 \in Int, d <= d2, e <= e2, s \in Seq(Sample), rd \in 0 .. Len(s),
         Holding(s, held, rd, range, d, e, fin)
  PROVE  Holding(s, held, rd, range, d2, e2, fin)
<1>1. PICK f : Holds(s, held, f, rd, range, d, e, fin)
  BY DEF Holding
<1>2. /\ Picked(s, held, f) /\ \A i \in 1 .. Len(held) : f[i] <= rd
      /\ \A n \in 1 .. rd : Readable(s[n], range, d, fin) => Stands(s, held, f, n, range, e)
  BY <1>1 DEF Holds
<1>3. \A n \in 1 .. Len(s) : s[n].t \in Int
  BY TimesTyped
<1>4. Len(s) \in Nat /\ \A n \in 1 .. rd : n \in 1 .. Len(s)
  OBVIOUS
<1>5. ASSUME NEW n \in 1 .. rd, Readable(s[n], range, d2, fin)
      PROVE  Stands(s, held, f, n, range, e2)
  <2>1. s[n].t \in Int
    BY <1>3, <1>4
  <2>2. Readable(s[n], range, d, fin)
    BY <1>5, <2>1 DEF Readable
  <2>3. PICK i \in 1 .. Len(held) : n <= f[i] /\ (n = f[i] \/ (~range /\ s[f[i]].t <= e))
    BY <1>2, <2>2 DEF Stands
  <2>4. f[i] \in 1 .. Len(s)
    BY <1>2 DEF Picked
  <2>5. s[f[i]].t <= e => s[f[i]].t <= e2
    BY <1>3, <2>4
  <2> QED BY <2>3, <2>5 DEF Stands
<1> QED BY <1>2, <1>5 DEF Holding, Holds

\* What no step can read may be read on over.
LEMMA HoldingPasses ==
  ASSUME NEW s, NEW held, NEW rd, NEW range, NEW d, NEW e, NEW fin, NEW rd2,
         s \in Seq(Sample), rd \in 0 .. Len(s), rd2 \in rd .. Len(s),
         \A n \in rd + 1 .. rd2 : ~Readable(s[n], range, d, fin),
         Holding(s, held, rd, range, d, e, fin)
  PROVE  Holding(s, held, rd2, range, d, e, fin)
<1>1. PICK f : Holds(s, held, f, rd, range, d, e, fin)
  BY DEF Holding
<1>2. /\ Picked(s, held, f) /\ \A i \in 1 .. Len(held) : f[i] <= rd
      /\ \A n \in 1 .. rd : Readable(s[n], range, d, fin) => Stands(s, held, f, n, range, e)
  BY <1>1 DEF Holds
<1>3. \A n \in 1 .. rd2 : n \in 1 .. rd \/ n \in rd + 1 .. rd2
  OBVIOUS
<1>4. \A i \in 1 .. Len(held) : f[i] <= rd2
  <2> TAKE i \in 1 .. Len(held)
  <2>1. f[i] \in 1 .. Len(s) /\ f[i] <= rd
    BY <1>2 DEF Picked
  <2> QED BY <2>1
<1>5. \A n \in 1 .. rd2 : Readable(s[n], range, d, fin) => Stands(s, held, f, n, range, e)
  BY <1>2, <1>3
<1> QED BY <1>2, <1>4, <1>5 DEF Holding, Holds

\* What is taken of the samples read on over, each that a step can read.
Takes(s, more, g, rd, rd2, range, d, fin) ==
  /\ Picked(s, more, g)
  /\ \A i \in 1 .. Len(more) : g[i] \in rd + 1 .. rd2
  /\ \A n \in rd + 1 .. rd2 : Readable(s[n], range, d, fin) => \E i \in 1 .. Len(more) : g[i] = n

\* It joins the end of what is held.
LEMMA HoldingTakes ==
  ASSUME NEW s, NEW held, NEW rd, NEW range, NEW d, NEW e, NEW fin, NEW rd2, NEW more, NEW g,
         s \in Seq(Sample), rd \in 0 .. Len(s), rd2 \in rd .. Len(s),
         held \in Seq(Sample), more \in Seq(Sample),
         Takes(s, more, g, rd, rd2, range, d, fin),
         Holding(s, held, rd, range, d, e, fin)
  PROVE  Holding(s, held \o more, rd2, range, d, e, fin)
<1> DEFINE a == Len(held)
           b == Len(more)
           both == held \o more
           m == Len(s)
<1>1. PICK f : Holds(s, held, f, rd, range, d, e, fin)
  BY DEF Holding
<1>2. /\ a \in Nat /\ b \in Nat /\ m \in Nat /\ rd \in Nat /\ rd2 \in Nat /\ rd <= rd2 /\ rd2 <= m
      /\ Len(both) = a + b
      /\ \A i \in 1 .. a + b : both[i] = IF i <= a THEN held[i] ELSE more[i - a]
  OBVIOUS
<1>3. /\ f \in [1 .. a -> 1 .. m] /\ (\A i \in 1 .. a : held[i] = s[f[i]])
      /\ (\A i, j \in 1 .. a : i < j => f[i] < f[j])
      /\ (\A i \in 1 .. a : f[i] <= rd)
      /\ \A n \in 1 .. rd : Readable(s[n], range, d, fin) => Stands(s, held, f, n, range, e)
  BY <1>1 DEF Holds, Picked
<1>4. /\ g \in [1 .. b -> 1 .. m] /\ (\A i \in 1 .. b : more[i] = s[g[i]])
      /\ (\A i, j \in 1 .. b : i < j => g[i] < g[j])
      /\ (\A i \in 1 .. b : g[i] \in rd + 1 .. rd2)
      /\ \A n \in rd + 1 .. rd2 : Readable(s[n], range, d, fin) => \E i \in 1 .. b : g[i] = n
  BY DEF Takes, Picked
<1>5. Len(held) = a /\ Len(both) = a + b /\ Len(s) = m
  BY <1>2
<1> HIDE DEF a, b, both, m
<1> DEFINE h == [i \in 1 .. a + b |-> IF i <= a THEN f[i] ELSE g[i - a]]
<1>6. \A i \in 1 .. a + b : (i <= a => i \in 1 .. a) /\ (~(i <= a) => i - a \in 1 .. b)
  BY <1>2
<1>7. /\ \A i \in 1 .. a : i \in 1 .. a + b /\ h[i] = f[i]
      /\ \A i \in 1 .. b : i + a \in 1 .. a + b /\ h[i + a] = g[i]
  <2>1. \A i \in 1 .. a : i \in 1 .. a + b /\ i <= a
    BY <1>2
  <2>2. \A i \in 1 .. b : i + a \in 1 .. a + b /\ ~(i + a <= a) /\ (i + a) - a = i
    BY <1>2
  <2> QED BY <2>1, <2>2
<1>8. h \in [1 .. a + b -> 1 .. m]
  BY <1>3, <1>4, <1>6
<1>9. \A i \in 1 .. a + b : both[i] = s[h[i]]
  BY <1>2, <1>3, <1>4, <1>6
<1>10. ASSUME NEW i \in 1 .. a + b, NEW j \in 1 .. a + b, i < j
       PROVE  h[i] < h[j]
  <2>1. CASE j <= a
    <3>1. i <= a /\ i \in 1 .. a /\ j \in 1 .. a
      BY <1>2, <1>10, <2>1
    <3> QED BY <1>3, <1>7, <1>10, <3>1
  <2>2. CASE i <= a /\ ~(j <= a)
    <3>1. i \in 1 .. a /\ j - a \in 1 .. b
      BY <1>6, <2>2
    <3>2. h[i] = f[i] /\ h[j] = g[j - a] /\ f[i] <= rd /\ f[i] \in 1 .. m /\ g[j - a] \in rd + 1 .. rd2
      BY <1>3, <1>4, <2>2, <3>1
    <3> HIDE DEF h
    <3> QED BY <1>2, <3>2
  <2>3. CASE ~(i <= a) /\ ~(j <= a)
    <3>1. i - a \in 1 .. b /\ j - a \in 1 .. b /\ i - a < j - a
      BY <1>2, <1>6, <1>10, <2>3
    <3>2. h[i] = g[i - a] /\ h[j] = g[j - a]
      BY <2>3
    <3> HIDE DEF h
    <3> QED BY <1>4, <3>1, <3>2
  <2>4. i <= a \/ ~(j <= a)
    BY <1>2, <1>10
  <2> QED BY <2>1, <2>2, <2>3
<1> HIDE DEF h
<1>11. Picked(s, both, h)
  BY <1>5, <1>8, <1>9, <1>10 DEF Picked
<1>12. \A i \in 1 .. a + b : h[i] <= rd2
  <2> TAKE i \in 1 .. a + b
  <2>1. CASE i <= a
    <3>1. h[i] = f[i] /\ f[i] <= rd /\ f[i] \in 1 .. m
      BY <1>3, <1>6, <1>7, <2>1
    <3> QED BY <1>2, <3>1
  <2>2. CASE ~(i <= a)
    <3>1. i - a \in 1 .. b /\ (i - a) + a = i
      BY <1>2, <1>6, <2>2
    <3>2. h[i] = g[i - a] /\ g[i - a] \in rd + 1 .. rd2
      BY <1>4, <1>7, <3>1
    <3> QED BY <1>2, <3>2
  <2> QED BY <2>1, <2>2
<1>13. ASSUME NEW n \in 1 .. rd2, Readable(s[n], range, d, fin)
       PROVE  Stands(s, both, h, n, range, e)
  <2>1. CASE n <= rd
    <3>1. n \in 1 .. rd
      BY <1>2, <2>1
    <3>2. PICK i \in 1 .. a : n <= f[i] /\ (n = f[i] \/ (~range /\ s[f[i]].t <= e))
      BY <1>3, <1>5, <1>13, <3>1 DEF Stands
    <3>3. i \in 1 .. a + b /\ h[i] = f[i]
      BY <1>7
    <3>4. n <= h[i] /\ (n = h[i] \/ (~range /\ s[h[i]].t <= e))
      BY <3>2, <3>3
    <3> QED BY <1>5, <3>3, <3>4 DEF Stands
  <2>2. CASE ~(n <= rd)
    <3>1. n \in rd + 1 .. rd2 /\ n <= n
      BY <1>2, <2>2
    <3>2. PICK i \in 1 .. b : g[i] = n
      BY <1>4, <1>13, <3>1
    <3>3. i + a \in 1 .. a + b /\ h[i + a] = n
      BY <1>7, <3>2
    <3> QED BY <1>5, <3>1, <3>3 DEF Stands
  <2> QED BY <2>1, <2>2
<1> QED BY <1>5, <1>11, <1>12, <1>13 DEF Holding, Holds, both

\* Under @ the last of it stands for all that is held.
LEMMA HoldingLast ==
  ASSUME NEW s, NEW held, NEW rd, NEW d, NEW fin, NEW rd2, NEW more, NEW g,
         s \in Seq(Sample), rd \in 0 .. Len(s), rd2 \in rd .. Len(s),
         more \in Seq(Sample), more # <<>>, \A i \in 1 .. Len(more) : more[i].t <= fin,
         Takes(s, more, g, rd, rd2, FALSE, d, fin),
         Holding(s, held, rd, FALSE, d, fin, fin)
  PROVE  Holding(s, << Last(more) >>, rd2, FALSE, d, fin, fin)
<1> DEFINE b == Len(more)
           one == << Last(more) >>
           m == Len(s)
           h == [i \in 1 .. 1 |-> g[b]]
<1>1. /\ b \in Nat /\ m \in Nat /\ rd \in Nat /\ rd2 \in Nat /\ rd <= rd2 /\ rd2 <= m /\ b >= 1
      /\ Last(more) = more[b] /\ Len(one) = 1 /\ one[1] = more[b] /\ b \in 1 .. b
  BY DEF Last
<1>2. PICK f : Holds(s, held, f, rd, FALSE, d, fin, fin)
  BY DEF Holding
<1>3. /\ g \in [1 .. b -> 1 .. m] /\ (\A i \in 1 .. b : more[i] = s[g[i]])
      /\ (\A i, j \in 1 .. b : i < j => g[i] < g[j])
      /\ (\A i \in 1 .. b : g[i] \in rd + 1 .. rd2)
      /\ \A n \in rd + 1 .. rd2 : Readable(s[n], FALSE, d, fin) => \E i \in 1 .. b : g[i] = n
  BY DEF Takes, Picked
<1>4. s[g[b]].t <= fin /\ g[b] \in rd + 1 .. rd2 /\ g[b] \in 1 .. m
  BY <1>1, <1>3
<1>5. \A i \in 1 .. 1 : i = 1
  OBVIOUS
<1>6. 1 \in 1 .. 1 /\ h[1] = g[b]
  OBVIOUS
<1>7. h \in [1 .. 1 -> 1 .. m]
  BY <1>4
<1> HIDE DEF h, b, one, m
<1>8. Picked(s, one, h)
  <2>1. one[1] = s[h[1]]
    BY <1>1, <1>3, <1>6
  <2>2. \A i, j \in 1 .. 1 : ~(i < j)
    OBVIOUS
  <2> QED BY <1>1, <1>5, <1>7, <2>1, <2>2 DEF Picked, m
<1>9. \A i \in 1 .. 1 : h[i] <= rd2
  BY <1>1, <1>4, <1>5, <1>6
<1>10. ASSUME NEW n \in 1 .. rd2, Readable(s[n], FALSE, d, fin)
       PROVE  Stands(s, one, h, n, FALSE, fin)
  <2>1. n <= g[b]
    <3>1. CASE n <= rd
      BY <1>1, <1>4, <3>1
    <3>2. CASE ~(n <= rd)
      <4>1. n \in rd + 1 .. rd2
        BY <1>1, <3>2
      <4>2. PICK i \in 1 .. b : g[i] = n
        BY <1>3, <1>10, <4>1
      <4>3. i < b => g[i] < g[b]
        BY <1>1, <1>3
      <4>4. i = b \/ i < b
        BY <1>1
      <4> QED BY <1>1, <1>4, <4>1, <4>2, <4>3, <4>4
    <3> QED BY <3>1, <3>2
  <2>2. n <= h[1] /\ s[h[1]].t <= fin
    BY <1>4, <1>6, <2>1
  <2> QED BY <1>1, <1>6, <2>2 DEF Stands
<1> QED BY <1>1, <1>8, <1>9, <1>10 DEF Holding, Holds, one

\* The front may go that no step can read, or that a later one stands for.
LEMMA HoldingDrops ==
  ASSUME NEW s, NEW held, NEW rd, NEW range, NEW d \in Int, NEW e, NEW fin, NEW c,
         s \in Seq(Sample), held \in Seq(Sample), rd \in 0 .. Len(s), c \in 0 .. Len(held),
         range => \A i \in 1 .. c : held[i].t <= d,
         ~range /\ c # 0 => c < Len(held) /\ held[c + 1].t <= e,
         Holding(s, held, rd, range, d, e, fin)
  PROVE  Holding(s, SubSeq(held, c + 1, Len(held)), rd, range, d, e, fin)
<1> DEFINE a == Len(held)
           r == SubSeq(held, c + 1, a)
           m == Len(s)
           b == a - c
<1>1. PICK f : Holds(s, held, f, rd, range, d, e, fin)
  BY DEF Holding
<1>2. /\ a \in Nat /\ m \in Nat /\ c \in Nat /\ c <= a /\ b \in Nat /\ rd \in Nat /\ rd <= m
  OBVIOUS
<1>3. Len(r) = b /\ \A k \in 1 .. b : r[k] = held[k + c]
  <2>1. c + 1 \in 1 .. Len(held) + 1 /\ a \in 0 .. Len(held)
    BY <1>2
  <2>2. /\ Len(r) = (IF c + 1 <= a THEN a - (c + 1) + 1 ELSE 0)
        /\ \A k \in 1 .. a - (c + 1) + 1 : r[k] = held[c + 1 + k - 1]
    BY <2>1, StretchTyped
  <2>3. a - (c + 1) + 1 = b /\ \A k \in 1 .. b : c + 1 + k - 1 = k + c
    BY <1>2
  <2>4. (IF c + 1 <= a THEN a - (c + 1) + 1 ELSE 0) = b
    BY <1>2
  <2> HIDE DEF r, b, a
  <2> QED BY <2>2, <2>3, <2>4
<1>4. /\ f \in [1 .. a -> 1 .. m] /\ (\A i \in 1 .. a : held[i] = s[f[i]])
      /\ (\A i, j \in 1 .. a : i < j => f[i] < f[j])
      /\ (\A i \in 1 .. a : f[i] <= rd)
      /\ \A n \in 1 .. rd : Readable(s[n], range, d, fin) => Stands(s, held, f, n, range, e)
  BY <1>1 DEF Holds, Picked
<1>5. Len(held) = a /\ Len(s) = m
  OBVIOUS
<1> HIDE DEF r, a, m
<1> DEFINE h == [i \in 1 .. b |-> f[i + c]]
<1>6. \A i \in 1 .. b : i + c \in 1 .. a
  BY <1>2
<1>7. \A i \in 1 .. a : i > c => i - c \in 1 .. b /\ (i - c) + c = i
  BY <1>2
<1>8. Picked(s, r, h)
  <2>1. h \in [1 .. b -> 1 .. m]
    BY <1>4, <1>6
  <2>2. \A i \in 1 .. b : r[i] = s[h[i]]
    BY <1>3, <1>4, <1>6
  <2>3. \A i, j \in 1 .. b : i < j => h[i] < h[j]
    <3> TAKE i, j \in 1 .. b
    <3> HAVE i < j
    <3>1. i + c < j + c
      BY <1>2
    <3> QED BY <1>4, <1>6, <3>1
  <2> HIDE DEF h
  <2> QED BY <1>3, <1>5, <2>1, <2>2, <2>3 DEF Picked
<1>9. \A i \in 1 .. b : h[i] <= rd
  BY <1>4, <1>6
<1>10. ASSUME NEW n \in 1 .. rd, Readable(s[n], range, d, fin)
       PROVE  Stands(s, r, h, n, range, e)
  <2>1. PICK i \in 1 .. a : n <= f[i] /\ (n = f[i] \/ (~range /\ s[f[i]].t <= e))
    BY <1>4, <1>5, <1>10 DEF Stands
  <2>2. CASE i > c
    <3>1. i - c \in 1 .. b /\ h[i - c] = f[i]
      BY <1>7, <2>2
    <3>2. n <= h[i - c] /\ (n = h[i - c] \/ (~range /\ s[h[i - c]].t <= e))
      BY <2>1, <3>1
    <3> HIDE DEF h
    <3> QED BY <1>3, <3>1, <3>2 DEF Stands
  <2>3. CASE ~(i > c)
    <3>1. i \in 1 .. c /\ c # 0
      BY <1>2, <2>3
    <3>2. CASE range
      <4>1. n = f[i] /\ held[i] = s[n] /\ held[i].t <= d
        BY <1>4, <2>1, <3>1, <3>2
      <4>2. s[n].t > d /\ s[n].t \in Int
        <5>1. n \in 1 .. Len(s)
          BY <1>2, <1>5
        <5> QED BY <1>10, <5>1, TimesTyped DEF Readable
      <4> QED BY <4>1, <4>2
    <3>3. CASE ~range
      <4>1. c < a /\ held[c + 1].t <= e /\ c + 1 \in 1 .. a /\ 1 \in 1 .. b /\ i < c + 1
        BY <1>2, <1>5, <3>1, <3>3
      <4>2. h[1] = f[c + 1] /\ s[f[c + 1]].t <= e /\ f[i] < f[c + 1]
        <5>1. 1 + c = c + 1
          BY <1>2
        <5> QED BY <1>4, <4>1, <5>1
      <4>3. f[i] \in 1 .. m /\ f[c + 1] \in 1 .. m
        BY <1>4, <4>1
      <4>5. n <= f[i]
        BY <2>1
      <4>6. n <= f[c + 1]
        BY <1>2, <4>2, <4>3, <4>5
      <4>4. n <= h[1] /\ s[h[1]].t <= e
        BY <4>2, <4>6
      <4> HIDE DEF h
      <4> QED BY <1>3, <3>3, <4>1, <4>4 DEF Stands
    <3> QED BY <3>2, <3>3
  <2> QED BY <2>2, <2>3
<1> HIDE DEF h
<1>11. Holding(s, r, rd, range, d, e, fin)
  BY <1>3, <1>8, <1>9, <1>10 DEF Holding, Holds
<1> QED BY <1>11, <1>5 DEF r

\* A sequence that is picked may be without its stale markers.
LEMMA TakesLive ==
  ASSUME NEW s, NEW r, NEW g, NEW rd, NEW rd2, NEW range, NEW d, NEW fin,
         s \in Seq(Sample), r \in Seq(Sample), Takes(s, r, g, rd, rd2, FALSE, d, fin)
  PROVE  /\ Takes(s, r, g, rd, rd2, range, d, fin)
         /\ range => \E h : Takes(s, Live(r), h, rd, rd2, range, d, fin)
<1> DEFINE live == {i \in DOMAIN r : r[i].v # Stale}
           w == At(r, live)
           n == Len(r)
           m == Len(w)
           b == Len(s)
<1>1. live \in SUBSET DOMAIN r /\ w = Live(r) /\ n \in Nat /\ DOMAIN r = 1 .. n /\ b \in Nat
  BY DEF Live
<1>2. w \in Seq(Sample)
  BY <1>1, AtTyped
<1>3. PICK f : Picked(r, w, f) /\ Onto(w, f, live)
  BY <1>1, AtPicks
<1>4. \A i \in 1 .. n : i \in live <=> r[i].v # Stale
  BY <1>1
<1> HIDE DEF live, w
<1>5. m \in Nat
  BY <1>2
<1>6. /\ f \in [1 .. m -> 1 .. n] /\ (\A i \in 1 .. m : w[i] = r[f[i]])
      /\ (\A i, j \in 1 .. m : i < j => f[i] < f[j])
      /\ \A i \in live : \E j \in 1 .. m : f[j] = i
  BY <1>3 DEF Picked, Onto
<1>7. /\ g \in [1 .. n -> 1 .. b] /\ (\A i \in 1 .. n : r[i] = s[g[i]])
      /\ (\A i, j \in 1 .. n : i < j => g[i] < g[j])
      /\ (\A i \in 1 .. n : g[i] \in rd + 1 .. rd2)
      /\ \A k \in rd + 1 .. rd2 : Readable(s[k], FALSE, d, fin) => \E i \in 1 .. n : g[i] = k
  BY DEF Takes, Picked
<1>8. \A k : Readable(s[k], range, d, fin) => Readable(s[k], FALSE, d, fin) /\ (range => s[k].v # Stale)
  BY DEF Readable
<1>9. Takes(s, r, g, rd, rd2, range, d, fin)
  <2>1. Picked(s, r, g)
    BY DEF Takes
  <2> QED BY <1>7, <1>8, <2>1 DEF Takes
<1>10. ASSUME range PROVE \E h : Takes(s, w, h, rd, rd2, range, d, fin)
  <2> DEFINE h == [i \in 1 .. m |-> g[f[i]]]
  <2> HIDE DEF n, m, b
  <2>1. h \in [1 .. m -> 1 .. b]
    BY <1>6, <1>7
  <2>2. \A i \in 1 .. m : w[i] = s[h[i]]
    BY <1>6, <1>7
  <2>3. \A i, j \in 1 .. m : i < j => h[i] < h[j]
    BY <1>6, <1>7
  <2>4. \A i \in 1 .. m : h[i] \in rd + 1 .. rd2
    BY <1>6, <1>7
  <2>5. ASSUME NEW k \in rd + 1 .. rd2, Readable(s[k], range, d, fin)
        PROVE  \E i \in 1 .. m : h[i] = k
    <3>1. PICK i \in 1 .. n : g[i] = k
      BY <1>7, <1>8, <2>5
    <3>2. r[i].v # Stale
      <4>1. r[i] = s[k]
        BY ONLY <1>7, <3>1
      <4>2. s[k].v # Stale
        BY <1>8, <1>10, <2>5
      <4> QED BY <4>1, <4>2
    <3>3. i \in live
      BY <1>4, <3>2
    <3>4. PICK j \in 1 .. m : f[j] = i
      BY <1>6, <3>3
    <3> QED BY <3>1, <3>4
  <2> HIDE DEF h
  <2>6. Picked(s, w, h)
    BY <2>1, <2>2, <2>3 DEF Picked, m, b
  <2>7. Takes(s, w, h, rd, rd2, range, d, fin)
    BY <2>4, <2>5, <2>6 DEF Takes, m
  <2> QED BY <2>7
<1> QED BY <1>1, <1>9, <1>10

\* An allowance takes all that a step can read of what it reads on over.
LEMMA TakenTakes ==
  ASSUME ClaimedInv, ReadInv, IngestSlice
  PROVE  /\ InHand /\ Until \in position .. Len(rows[row]) /\ Read + (Until - position) \in Read .. Len(Samples)
         /\ \A i \in 1 .. Len(Taken) : WindowStart < Taken[i].t /\ Taken[i].t <= FinalEnd
         /\ \E g : Takes(Samples, Taken, g, Read, Read + (Until - position), FALSE, WindowStart, FinalEnd)
<1> DEFINE ch == rows[row]
           c == Len(ch)
           top == Through(ch, Alive, FinalEnd)
           t == Lesser(Until, top)
           d == Len(Samples)
           rd2 == Read + (Until - position)
           g == [i \in 1 .. Len(Taken) |-> Read + (Alive - position) + i]
<1>1. TypeOK /\ WindowInv /\ InHand /\ pc = "row"
  <2>1. pc = "row" /\ WindowInv
    BY DEF IngestSlice, Ingesting, AtRow, ClaimedInv
  <2> QED BY <2>1 DEF WindowInv, Grounded, InHand
<1>2. nextStep < steps /\ nextStep \in Nat /\ steps \in Nat
  <2>1. nextStep \in Nat /\ steps \in Nat
    BY <1>1, StateTyped, InputTyped
  <2> QED BY <2>1 DEF IngestSlice, Ingesting, Finished
<1>3. /\ WindowStop \in Int /\ WindowStart \in Int /\ FinalEnd \in Int
      /\ WindowStart = End(grid, nextStep) - grid.window
  BY <1>1, <1>2, GoingTyped DEF WindowStart, WindowStop
<1>4. /\ ch \in Seq(Sample) /\ c \in Nat /\ InTimeOrder(ch) /\ \A k \in 1 .. c : ch[k].t \in Int
      /\ \A j, k \in 1 .. c : j <= k => ch[j].t <= ch[k].t
  BY <1>1, RowTimes DEF InHand
<1>5. /\ position \in 0 .. c /\ Read \in 0 .. d /\ Read + c - position <= d
      /\ \A p \in position + 1 .. c : Read + p - position \in 1 .. d /\ Samples[Read + p - position] = ch[p]
  <2>1. /\ position \in 0 .. c /\ Read \in 0 .. d /\ Read + c - position = Len(Upto(rows, row))
        /\ Len(Upto(rows, row)) <= d
        /\ \A p \in position + 1 .. c : Read + p - position \in 1 .. d /\ Samples[Read + p - position] = ch[p]
    BY <1>1, RowFollows
  <2> QED BY <2>1
<1>6. d \in Nat /\ Samples \in Seq(Sample)
  BY <1>1, SamplesTyped
<1>7. /\ Alive \in position .. c /\ Alive < c /\ Alive \in Nat
      /\ \A k \in position + 1 .. c : ch[k].t <= WindowStart <=> k <= Alive
  <2>1. Alive = Through(ch, position, WindowStart)
    BY <1>3 DEF Alive
  <2>2. Alive \in position .. c
    BY <1>4, <1>5, <2>1, ThroughIn
  <2>3. \A k \in position + 1 .. c : ch[k].t <= WindowStart <=> k <= Through(ch, position, WindowStart)
    BY <1>3, <1>4, <1>5, ThroughParts
  <2>4. Alive \in 0 .. c - 1
    BY <1>1, IngestTyped
  <2> QED BY <1>4, <1>5, <2>1, <2>2, <2>3, <2>4
<1>8. Until \in 1 .. c /\ Alive <= Until /\ Taken \in Seq(Sample)
  <2>1. Alive \in 0 .. c - 1 /\ Allowance \in 1 .. budget /\ Until \in 1 .. c /\ Taken \in Seq(Sample) /\ budget \in Nat
    BY <1>1, IngestTyped, StateTyped
  <2> QED BY <2>1 DEF Until
<1>9. /\ top \in Alive .. c
      /\ \A k \in Alive + 1 .. c : ch[k].t <= FinalEnd <=> k <= top
  <2>1. Alive \in 0 .. Len(ch)
    BY <1>4, <1>7
  <2> HIDE DEF ch
  <2>2. Through(ch, Alive, FinalEnd) \in Alive .. Len(ch)
    BY <1>4, <2>1, ThroughIn
  <2>3. \A k \in Alive + 1 .. Len(ch) : ch[k].t <= FinalEnd <=> k <= Through(ch, Alive, FinalEnd)
    BY <1>3, <1>4, <2>1, ThroughParts
  <2> QED BY <2>2, <2>3
<1>10. t \in Alive .. c /\ t <= Until /\ t <= top /\ (t = Until \/ t = top)
  <2> HIDE DEF top, c
  <2> QED BY <1>4, <1>7, <1>8, <1>9 DEF Lesser
<1>11. /\ Len(Taken) = t - Alive
       /\ \A i \in 1 .. t - Alive : Taken[i] = ch[Alive + i]
  <2>1. Alive + 1 \in 1 .. Len(ch) + 1 /\ t \in 0 .. Len(ch)
    BY <1>4, <1>7, <1>10
  <2>2. Taken = SubSeq(ch, Alive + 1, t)
    BY DEF Taken
  <2> HIDE DEF t, ch
  <2>3. /\ Len(Taken) = (IF Alive + 1 <= t THEN t - (Alive + 1) + 1 ELSE 0)
        /\ \A k \in 1 .. t - (Alive + 1) + 1 : Taken[k] = ch[Alive + 1 + k - 1]
    BY <1>4, <2>1, <2>2, StretchTyped
  <2>4. t - (Alive + 1) + 1 = t - Alive /\ \A k \in 1 .. t - Alive : Alive + 1 + k - 1 = Alive + k
    BY <1>7, <1>10
  <2>5. (IF Alive + 1 <= t THEN t - (Alive + 1) + 1 ELSE 0) = t - Alive
    BY <1>7, <1>10
  <2> QED BY <2>3, <2>4, <2>5
<1> HIDE DEF t, top, ch, c, d
<1>12. Until \in position .. c /\ rd2 \in Read .. d
  <2>1. /\ Until \in Nat /\ position \in Nat /\ position <= Until /\ Until <= c /\ Read \in Nat
        /\ Read + c - position <= d
    BY <1>4, <1>5, <1>7, <1>8
  <2> QED BY <1>4, <1>6, <2>1
<1> DEFINE z == Read - position
<1>13. /\ z \in Int /\ \A p \in position + 1 .. c : z + p \in 1 .. d /\ Samples[z + p] = ch[p]
       /\ rd2 = z + Until
  <2>1. Read \in Int /\ position \in Int /\ Until \in Int /\ c \in Int
    BY <1>4, <1>5, <1>8
  <2>2. \A p \in position + 1 .. c : Read + p - position = z + p
    BY <2>1
  <2> QED BY <1>5, <2>1, <2>2
<1>14. \A i \in 1 .. t - Alive : /\ Alive + i \in position + 1 .. c /\ Alive + i \in Alive + 1 .. t
                                 /\ Alive + i \in Alive + 1 .. c /\ ~(Alive + i <= Alive)
  BY <1>4, <1>5, <1>7, <1>10
<1>15. \A i \in 1 .. Len(Taken) : WindowStart < Taken[i].t /\ Taken[i].t <= FinalEnd
  <2> TAKE i \in 1 .. Len(Taken)
  <2> DEFINE k == Alive + i
  <2>1. i \in 1 .. t - Alive
    BY <1>11
  <2>2. k \in position + 1 .. c /\ k \in Alive + 1 .. c /\ ~(k <= Alive) /\ Taken[i] = ch[k] /\ k <= t /\ k \in Int
    BY <1>11, <1>14, <2>1
  <2> HIDE DEF k
  <2>3. ~(ch[k].t <= WindowStart) /\ k <= top
    BY <1>7, <1>9, <1>10, <2>2
  <2>4. ch[k].t <= FinalEnd /\ ch[k].t \in Int
    <3>1. k \in 1 .. c
      BY <1>5, <2>2
    <3> QED BY <1>4, <1>9, <2>2, <2>3, <3>1
  <2> QED BY <1>3, <2>2, <2>3, <2>4
<1>16. \A i \in 1 .. t - Alive : g[i] = z + (Alive + i)
  <2> TAKE i \in 1 .. t - Alive
  <2>1. Read \in Int /\ position \in Int /\ Alive \in Int /\ i \in Int
    BY <1>5, <1>7, <1>10
  <2>2. g[i] = Read + (Alive - position) + i
    BY <1>11
  <2> QED BY <2>1, <2>2
<1> HIDE DEF g, z, rd2
<1>17. g \in [1 .. t - Alive -> 1 .. d] /\ \A i \in 1 .. t - Alive : Taken[i] = Samples[g[i]]
  <2>1. \A i \in 1 .. t - Alive : g[i] \in 1 .. d /\ Taken[i] = Samples[g[i]]
    BY <1>11, <1>13, <1>14, <1>16
  <2>2. g = [i \in 1 .. t - Alive |-> g[i]]
    BY <1>11 DEF g
  <2> QED BY <2>1, <2>2
<1>18. \A i, j \in 1 .. t - Alive : i < j => g[i] < g[j]
  <2> TAKE i, j \in 1 .. t - Alive
  <2> HAVE i < j
  <2>1. g[i] = z + (Alive + i) /\ g[j] = z + (Alive + j)
    BY <1>16
  <2>2. i \in Int /\ j \in Int /\ Alive \in Int
    BY <1>7, <1>10
  <2> QED BY <1>13, <2>1, <2>2
<1>19. \A i \in 1 .. t - Alive : g[i] \in Read + 1 .. rd2
  <2> TAKE i \in 1 .. t - Alive
  <2>1. g[i] = z + (Alive + i) /\ Alive + i \in position + 1 .. c /\ Alive + i \in Alive + 1 .. t
    BY <1>14, <1>16
  <2>2. z = Read - position /\ Read \in Int /\ position \in Int /\ Until \in Int /\ t <= Until /\ t \in Int
    BY <1>5, <1>8, <1>10 DEF z
  <2> QED BY <1>13, <2>1, <2>2
<1>20. ASSUME NEW n \in Read + 1 .. rd2, Readable(Samples[n], FALSE, WindowStart, FinalEnd)
       PROVE  \E i \in 1 .. t - Alive : g[i] = n
  <2> DEFINE p == n - z
  <2>1. z = Read - position /\ Read \in Int /\ position \in Nat /\ Until \in Int /\ Until <= c /\ c \in Nat
    BY <1>4, <1>5, <1>8 DEF z
  <2>2. p \in position + 1 .. Until /\ p \in position + 1 .. c /\ z + p = n /\ p \in 1 .. c
    BY <1>13, <2>1
  <2> HIDE DEF p
  <2>3. Samples[n] = ch[p]
    BY <1>13, <2>2
  <2>4. WindowStart < ch[p].t /\ ch[p].t <= FinalEnd
    BY <1>20, <2>3 DEF Readable
  <2>a. ch[p].t \in Int
    BY <1>4, <2>2
  <2>5. ~(ch[p].t <= WindowStart)
    BY <1>3, <2>4, <2>a
  <2>6. ~(p <= Alive)
    BY <1>7, <2>2, <2>5
  <2>7. p \in Alive + 1 .. c
    BY <1>7, <2>2, <2>6
  <2>8. p <= top
    BY <1>9, <2>4, <2>7
  <2>9. p - Alive \in 1 .. t - Alive /\ Alive + (p - Alive) = p
    BY <1>7, <1>8, <1>10, <2>2, <2>7, <2>8
  <2>10. g[p - Alive] = z + p
    BY <1>16, <2>9
  <2> QED BY <2>2, <2>9, <2>10
<1>21. Picked(Samples, Taken, g)
  BY <1>11, <1>17, <1>18 DEF Picked, d
<1>22. Takes(Samples, Taken, g, Read, rd2, FALSE, WindowStart, FinalEnd)
  BY <1>11, <1>19, <1>20, <1>21 DEF Takes
<1> QED BY <1>1, <1>12, <1>15, <1>22 DEF rd2, d, c, ch

-----------------------------------------------------------------------------
\* What is held is what a step still reads of what has been read.
HoldsInv == Going => Holding(Samples, Held, Read, IsRange, WindowStart, WindowStop, FinalEnd)

\* An input stays, and so does all it says of a step.
LEMMA SameInput ==
  ASSUME input' = input
  PROVE  /\ Samples' = Samples /\ rows' = rows /\ grid' = grid /\ kernel' = kernel /\ steps' = steps
         /\ IsRange' = IsRange /\ Pinning' = Pinning /\ NoWindow' = NoWindow /\ FinalEnd' = FinalEnd
         /\ Sweeps' = Sweeps
         /\ nextStep' = nextStep => WindowStart' = WindowStart /\ WindowStop' = WindowStop
<1>1. rows' = rows /\ grid' = grid /\ kernel' = kernel
  BY DEF rows, grid, kernel
<1>2. steps' = steps
  BY <1>1 DEF steps
<1>3. Samples' = Samples
  BY <1>1 DEF Samples
<1>4. IsRange' = IsRange /\ Sweeps' = Sweeps
  BY <1>1 DEF IsRange, Sweeps
<1>5. Pinning' = Pinning /\ NoWindow' = NoWindow
  BY <1>1, <1>4 DEF Pinning, NoWindow
<1>6. FinalEnd' = FinalEnd
  BY InputKept
<1>7. ASSUME nextStep' = nextStep PROVE WindowStart' = WindowStart /\ WindowStop' = WindowStop
  <2>1. WindowStop' = WindowStop
    BY <1>1, <1>7 DEF WindowStop
  <2> QED BY <1>1, <2>1 DEF WindowStart
<1> QED BY <1>1, <1>2, <1>3, <1>4, <1>5, <1>6, <1>7

\* Nothing is taken in, nothing goes.
LEMMA HoldsStays ==
  ASSUME HoldsInv, pc # "closed", input' = input, nextStep' = nextStep, Held' = Held, Read' = Read
  PROVE  HoldsInv'
<1>1. /\ Samples' = Samples /\ IsRange' = IsRange /\ FinalEnd' = FinalEnd /\ steps' = steps /\ NoWindow' = NoWindow
      /\ WindowStart' = WindowStart /\ WindowStop' = WindowStop
  BY SameInput
<1>2. SUFFICES ASSUME Going' PROVE Holding(Samples', Held', Read', IsRange', WindowStart', WindowStop', FinalEnd')
  BY DEF HoldsInv
<1>3. Going
  BY <1>1, <1>2 DEF Going
<1>4. Holding(Samples, Held, Read, IsRange, WindowStart, WindowStop, FinalEnd)
  BY <1>3 DEF HoldsInv
<1> QED BY <1>1, <1>4, Zenon

\* A step that is answered makes way for the next one.
LEMMA HoldsOn ==
  ASSUME ClaimedInv, ReadInv, HoldsInv, pc # "closed", nextStep < steps,
         input' = input, nextStep' = nextStep + 1, Held' = Held, Read' = Read
  PROVE  HoldsInv'
<1>1. /\ Samples' = Samples /\ IsRange' = IsRange /\ FinalEnd' = FinalEnd /\ steps' = steps /\ NoWindow' = NoWindow
      /\ grid' = grid
  BY SameInput
<1>2. SUFFICES ASSUME Going' PROVE Holding(Samples', Held', Read', IsRange', WindowStart', WindowStop', FinalEnd')
  BY DEF HoldsInv
<1>a. TypeOK /\ nextStep \in Nat /\ steps \in Nat
  <2>1. TypeOK BY DEF ClaimedInv, WindowInv
  <2> QED BY <2>1, StateTyped, InputTyped
<1>3. Going /\ nextStep + 1 < steps
  BY <1>1, <1>2, <1>a DEF Going
<1>4. Holding(Samples, Held, Read, IsRange, WindowStart, WindowStop, FinalEnd)
  BY <1>3 DEF HoldsInv
<1>5. /\ WindowStop \in Int /\ WindowStart \in Int /\ grid.window \in Int /\ WindowStart = WindowStop - grid.window
      /\ End(grid, nextStep + 1) \in Int /\ WindowStop <= End(grid, nextStep + 1)
  <2>1. nextStep + 1 \in nextStep .. steps - 1
    BY <1>3, <1>a
  <2> QED BY <1>a, <1>3, <2>1, GoingTyped
<1>6. WindowStop' = End(grid, nextStep + 1) /\ WindowStart' = End(grid, nextStep + 1) - grid.window
  <2>1. WindowStop' = End(grid, nextStep + 1)
    BY <1>1 DEF WindowStop
  <2> QED BY <1>1, <2>1 DEF WindowStart
<1>7. WindowStop' \in Int /\ WindowStart' \in Int /\ WindowStart <= WindowStart' /\ WindowStop <= WindowStop'
  BY <1>5, <1>6
<1>8. Samples \in Seq(Sample) /\ Read \in 0 .. Len(Samples)
  BY <1>a, SamplesTyped, UnreadIsLater
<1> HIDE DEF Going
<1>9. Holding(Samples, Held, Read, IsRange, WindowStart', WindowStop', FinalEnd)
  <2> DEFINE d == WindowStart
             e == WindowStop
             d2 == WindowStart'
             e2 == WindowStop'
  <2>1. d \in Int /\ e \in Int /\ d2 \in Int /\ e2 \in Int /\ d <= d2 /\ e <= e2
        /\ Holding(Samples, Held, Read, IsRange, d, e, FinalEnd)
    BY <1>4, <1>5, <1>7
  <2> HIDE DEF d, e, d2, e2
  <2>2. Holding(Samples, Held, Read, IsRange, d2, e2, FinalEnd)
    BY <1>8, <2>1, HoldingLater
  <2> QED BY <2>2 DEF d2, e2
<1> QED BY <1>1, <1>9, Zenon

\* What the edges have passed is in the window, or before it.
EdgeInv ==
  Going =>
    /\ \A i \in base .. hi - 1 : Nth(i).t <= WindowStop
    /\ IsRange => \A i \in base .. lo - 1 : Nth(i).t <= WindowStart
    /\ \A i \in base .. Edge - 1 : Nth(i).t <= FinalEnd /\ (Pinning => WindowStart < Nth(i).t)

\* The tail nobody reads is passed over.
LEMMA HoldsSkip ==
  ASSUME ClaimedInv, ReadInv, HoldsInv, SkipTail
  PROVE  HoldsInv'
<1> DEFINE ch == rows[row]
           c == Len(ch)
           d == Len(Samples)
<1>1. TypeOK /\ WindowInv /\ InHand /\ InHand' /\ pc = "row" /\ pc' = pc
  <2>1. pc = "row" /\ pc' = pc /\ row' = row /\ input' = input /\ WindowInv
    BY DEF SkipTail, Ingesting, AtRow, ClaimedInv, series
  <2>2. row <= Len(rows) /\ TypeOK /\ rows' = rows
    BY <2>1, SameInput DEF WindowInv, Grounded
  <2> QED BY <2>1, <2>2 DEF InHand
<1>2. /\ input' = input /\ row' = row /\ nextStep' = nextStep /\ Held' = Held /\ position' = c
  BY <1>1 DEF SkipTail, series, Held
<1>3. /\ nextStep < steps /\ ~NoWindow
  <2>1. nextStep \in Nat /\ steps \in Nat
    BY <1>1, StateTyped, InputTyped
  <2> QED BY <2>1 DEF SkipTail, Ingesting, Finished
<1>4. Holding(Samples, Held, Read, IsRange, WindowStart, WindowStop, FinalEnd)
  BY <1>1, <1>3 DEF HoldsInv, Going
<1>5. /\ WindowStop \in Int /\ WindowStart \in Int /\ FinalEnd \in Int
      /\ WindowStart = End(grid, nextStep) - grid.window
  BY <1>1, <1>3, GoingTyped DEF WindowStart, WindowStop
<1>6. /\ ch \in Seq(Sample) /\ c \in Nat /\ InTimeOrder(ch) /\ \A k \in 1 .. c : ch[k].t \in Int
      /\ \A j, k \in 1 .. c : j <= k => ch[j].t <= ch[k].t
  BY <1>1, RowTimes DEF InHand
<1>7. /\ position \in 0 .. c /\ Read \in 0 .. d /\ (Read + c) - position <= d
      /\ \A p \in position + 1 .. c : (Read + p) - position \in 1 .. d /\ Samples[(Read + p) - position] = ch[p]
  <2>1. /\ position \in 0 .. c /\ Read \in 0 .. d /\ Read + c - position = Len(Upto(rows, row))
        /\ Len(Upto(rows, row)) <= d
        /\ \A p \in position + 1 .. c : Read + p - position \in 1 .. d /\ Samples[Read + p - position] = ch[p]
    BY <1>1, RowFollows
  <2>2. \A p \in Int : Read + p - position = (Read + p) - position
    BY <2>1
  <2>3. Read + c - position = (Read + c) - position
    BY <1>6, <2>1
  <2>4. \A p \in position + 1 .. c : p \in Int
    BY <1>6, <2>1
  <2> QED BY <2>1, <2>2, <2>3, <2>4
<1>8. d \in Nat /\ Samples \in Seq(Sample)
  BY <1>1, SamplesTyped
<1>9. Read' = (Read + c) - position
  <2>1. position' \in position .. c /\ position \in Int /\ c \in Int /\ Read \in Int
    BY <1>2, <1>6, <1>7
  <2>2. Read' = Read + position' - position
    BY <1>1, <1>2, <2>1, ReadOn
  <2>3. Read + c - position = (Read + c) - position
    BY <2>1
  <2> QED BY <1>2, <2>2, <2>3
<1>10. /\ Alive \in position .. c
       /\ \A k \in position + 1 .. c : ch[k].t <= WindowStart <=> k <= Alive
       /\ Alive < c => ch[Alive + 1].t > FinalEnd
  <2>1. Alive = Through(ch, position, WindowStart)
    BY <1>5 DEF Alive
  <2>a. position \in 0 .. Len(ch)
    BY <1>7
  <2>b. Alive < c => ch[Alive + 1].t > FinalEnd
    BY DEF SkipTail, DeadEnd
  <2> HIDE DEF ch
  <2>2. Through(ch, position, WindowStart) \in position .. Len(ch)
    BY <1>6, <2>a, ThroughIn
  <2>3. \A k \in position + 1 .. Len(ch) : ch[k].t <= WindowStart <=> k <= Through(ch, position, WindowStart)
    BY <1>5, <1>6, <2>a, ThroughParts
  <2> QED BY <2>1, <2>2, <2>3, <2>b
<1> HIDE DEF ch, c, d
<1> DEFINE a == Alive
           s0 == WindowStart
           f0 == FinalEnd
<1>11. ASSUME NEW k \in position + 1 .. c PROVE ~(s0 < ch[k].t /\ ch[k].t <= f0)
  <2>1. k \in 1 .. c /\ ch[k].t \in Int /\ k \in Int /\ a \in Int /\ s0 \in Int /\ f0 \in Int
    <3>1. k \in 1 .. c
      BY <1>6, <1>7
    <3> QED BY <1>5, <1>6, <1>7, <1>10, <3>1
  <2>2. CASE k <= a
    <3>1. ch[k].t <= s0
      BY <1>10, <2>2
    <3> HIDE DEF s0
    <3> QED BY <2>1, <3>1
  <2>3. CASE ~(k <= a)
    <3>1. a < c /\ a + 1 \in 1 .. c /\ a + 1 <= k
      BY <1>6, <1>7, <1>10, <2>1, <2>3
    <3>2. ch[a + 1].t > f0 /\ ch[a + 1].t \in Int /\ ch[a + 1].t <= ch[k].t
      BY <1>6, <1>10, <2>1, <3>1
    <3> HIDE DEF f0, a
    <3> QED BY <2>1, <3>2
  <2> QED BY <2>2, <2>3
<1> HIDE DEF a, s0, f0
<1>12. \A n \in Read + 1 .. Read' : ~Readable(Samples[n], IsRange, WindowStart, FinalEnd)
  <2> TAKE n \in Read + 1 .. Read'
  <2> DEFINE p == (n - Read) + position
  <2>1. p \in position + 1 .. c /\ (Read + p) - position = n
    BY <1>6, <1>7, <1>9
  <2> HIDE DEF p
  <2>2. Samples[n] = ch[p]
    BY <1>7, <2>1
  <2> QED BY <1>11, <2>1, <2>2 DEF Readable, s0, f0
<1>13. Read' \in Read .. d
  BY <1>6, <1>7, <1>9
<1>14. Holding(Samples, Held, Read', IsRange, WindowStart, WindowStop, FinalEnd)
  <2> DEFINE r2 == Read'
  <2>1. r2 \in Read .. Len(Samples) /\ \A n \in Read + 1 .. r2 : ~Readable(Samples[n], IsRange, WindowStart, FinalEnd)
    BY <1>12, <1>13 DEF d
  <2>2. Read \in 0 .. Len(Samples)
    BY <1>7 DEF d
  <2> HIDE DEF r2
  <2>3. Holding(Samples, Held, r2, IsRange, WindowStart, WindowStop, FinalEnd)
    BY <1>4, <1>8, <2>1, <2>2, HoldingPasses
  <2> QED BY <2>3 DEF r2
<1>15. /\ Samples' = Samples /\ IsRange' = IsRange /\ FinalEnd' = FinalEnd
       /\ WindowStart' = WindowStart /\ WindowStop' = WindowStop
  BY <1>2, SameInput
<1>16. Holding(Samples', Held', Read', IsRange', WindowStart', WindowStop', FinalEnd')
  BY <1>2, <1>14, <1>15, Zenon
<1> QED BY <1>16 DEF HoldsInv

\* What is to hand as an allowance is taken in.
LEMMA IngestAtHand ==
  ASSUME ClaimedInv, ReadInv, IngestSlice
  PROVE  /\ TypeOK /\ WindowInv /\ pc = "row" /\ InHand /\ InHand' /\ input' = input /\ row' = row
         /\ nextStep' = nextStep /\ nextStep < steps /\ ~NoWindow
         /\ Held = buf /\ base' = base /\ lo' = lo /\ hi' = hi /\ sweep' = sweep
         /\ pinned' = pinned /\ out' = out
         /\ Read' = Read + (Until - position) /\ Read' \in Read .. Len(Samples) /\ Read \in 0 .. Len(Samples)
         /\ Samples \in Seq(Sample) /\ buf \in Seq(Sample) /\ Taken \in Seq(Sample)
<1>1. TypeOK /\ WindowInv /\ pc = "row" /\ row' = row /\ input' = input /\ Held = buf
  <2>1. pc = "row" /\ row' = row /\ input' = input /\ WindowInv
    BY DEF IngestSlice, Ingesting, AtRow, ClaimedInv, series
  <2> QED BY <2>1 DEF WindowInv, Held
<1>2. InHand /\ InHand'
  <2>1. row <= Len(rows) /\ rows' = rows
    BY <1>1, SameInput DEF WindowInv, Grounded
  <2>2. pc' \in {"row", "borrow"}
    BY <1>1 DEF IngestSlice
  <2> QED BY <1>1, <2>1, <2>2 DEF InHand
<1>3. /\ nextStep' = nextStep /\ base' = base /\ lo' = lo /\ hi' = hi /\ sweep' = sweep
      /\ pinned' = pinned /\ out' = out /\ position' = Until
  BY DEF IngestSlice
<1>4. nextStep < steps /\ ~NoWindow
  <2>1. nextStep \in Nat /\ steps \in Nat
    BY <1>1, StateTyped, InputTyped
  <2> QED BY <2>1 DEF IngestSlice, Ingesting, Finished
<1>5. Until \in position .. Len(rows[row]) /\ Read + (Until - position) \in Read .. Len(Samples)
  BY TakenTakes
<1>6. Read' = Read + (Until - position)
  <2>1. Read' = Read + position' - position
    BY <1>1, <1>2, <1>3, <1>5, ReadOn
  <2>2. Read \in Int /\ position \in Int /\ Until \in Int
    <3>1. Read \in Int /\ position \in Int /\ Len(rows[row]) \in Nat
      BY <1>2, RowFollows
    <3> QED BY <1>5, <3>1
  <2> QED BY <1>3, <2>1, <2>2
<1>7. Read \in 0 .. Len(Samples) /\ Samples \in Seq(Sample) /\ buf \in Seq(Sample) /\ Taken \in Seq(Sample)
  BY <1>1, <1>2, RowFollows, SamplesTyped, StateTyped, IngestTyped
<1> QED BY <1>1, <1>2, <1>3, <1>4, <1>5, <1>6, <1>7

\* What is held once it is.
LEMMA IngestHeld ==
  ASSUME ClaimedInv, ReadInv, IngestSlice
  PROVE  Held' = IF IsRange THEN buf \o Live(Taken)
                 ELSE IF ~Pinning THEN buf \o Taken
                 ELSE IF Taken = <<>> THEN buf ELSE << Last(Taken) >>
<1>1. pc = "row" /\ Taken \in Seq(Sample) /\ buf \in Seq(Sample)
  BY IngestAtHand
<1>2. CASE Borrows
  <2>1. buf = <<>> /\ ~Pinning /\ (IsRange => \A k \in DOMAIN Taken : Taken[k].v # Stale)
    BY <1>2 DEF Borrows
  <2>2. Held' = Taken
    BY <1>2 DEF IngestSlice, Held
  <2>3. buf \o Taken = Taken
    BY <1>1, <2>1
  <2>4. IsRange => Live(Taken) = Taken
    <3>1. SUFFICES ASSUME IsRange PROVE Live(Taken) = Taken
      OBVIOUS
    <3> DEFINE ta == Taken
               f == [i \in 1 .. Len(ta) |-> i]
    <3>2. ta \in Seq(Sample) /\ \A k \in DOMAIN ta : ta[k].v # Stale
      BY <1>1, <2>1, <3>1
    <3> HIDE DEF ta
    <3>3. {k \in DOMAIN ta : ta[k].v # Stale} = DOMAIN ta
      BY <3>2
    <3>4. DOMAIN ta = 1 .. Len(ta) /\ Len(ta) \in Nat
      BY <3>2
    <3>5. Picked(ta, ta, f) /\ Onto(ta, f, DOMAIN ta)
      BY <3>4 DEF Picked, Onto
    <3> HIDE DEF f
    <3>6. ta = At(ta, DOMAIN ta)
      BY <3>2, <3>5, PickedIsAt
    <3>7. Live(ta) = ta
      BY <3>3, <3>6 DEF Live
    <3> QED BY <3>7 DEF ta
  <2> QED BY <2>1, <2>2, <2>3, <2>4
<1>3. CASE ~Borrows
  <2>1. pc' = "row" /\ Held' = buf'
    BY <1>1, <1>3 DEF IngestSlice, Held
  <2> QED BY <1>3, <2>1 DEF IngestSlice
<1> QED BY <1>2, <1>3

\* Ingesting a slice keeps what a later step can read.
LEMMA HoldsIngest ==
  ASSUME ClaimedInv, ReadInv, HoldsInv, IngestSlice
  PROVE  HoldsInv'
<1> DEFINE rd2 == Read'
           d == WindowStart
           e == WindowStop
           fin == FinalEnd
<1>1. /\ TypeOK /\ pc = "row" /\ input' = input /\ nextStep' = nextStep /\ nextStep < steps /\ ~NoWindow /\ Held = buf
      /\ rd2 \in Read .. Len(Samples) /\ Read \in 0 .. Len(Samples)
      /\ Samples \in Seq(Sample) /\ buf \in Seq(Sample) /\ Taken \in Seq(Sample)
  BY IngestAtHand
<1>2. Holding(Samples, buf, Read, IsRange, d, e, fin)
  <2>1. Going
    BY <1>1 DEF Going
  <2> QED BY <1>1, <2>1 DEF HoldsInv
<1>3. PICK g : Takes(Samples, Taken, g, Read, rd2, FALSE, d, fin)
  BY IngestAtHand, TakenTakes
<1>4. \A i \in 1 .. Len(Taken) : d < Taken[i].t /\ Taken[i].t <= fin
  BY TakenTakes
<1>5. Pinning => e = fin
  BY <1>1, GoingTyped
<1>6. /\ Samples' = Samples /\ IsRange' = IsRange /\ FinalEnd' = FinalEnd
      /\ WindowStart' = WindowStart /\ WindowStop' = WindowStop
  BY <1>1, SameInput
<1> HIDE DEF rd2, d, e, fin
<1>7. Holding(Samples, Held', rd2, IsRange, d, e, fin)
  <2>1. CASE IsRange
    <3>1. PICK h : Takes(Samples, Live(Taken), h, Read, rd2, IsRange, d, fin)
      BY <1>1, <1>3, <2>1, TakesLive
    <3>2. Live(Taken) \in Seq(Sample)
      BY <1>1, LiveTyped
    <3>3. Holding(Samples, buf \o Live(Taken), rd2, IsRange, d, e, fin)
      BY <1>1, <1>2, <3>1, <3>2, HoldingTakes
    <3> QED BY <2>1, <3>3, IngestHeld
  <2>2. CASE ~IsRange /\ ~Pinning
    <3>1. Takes(Samples, Taken, g, Read, rd2, IsRange, d, fin)
      BY <1>1, <1>3, TakesLive
    <3>2. Holding(Samples, buf \o Taken, rd2, IsRange, d, e, fin)
      BY <1>1, <1>2, <3>1, HoldingTakes
    <3> QED BY <2>2, <3>2, IngestHeld
  <2>3. CASE ~IsRange /\ Pinning /\ Taken = <<>>
    <3>1. \A n \in Read + 1 .. rd2 : ~Readable(Samples[n], FALSE, d, fin)
      <4>1. 1 .. Len(Taken) = {}
        BY <2>3
      <4>2. \A n \in Read + 1 .. rd2 :
              Readable(Samples[n], FALSE, d, fin) => \E i \in 1 .. Len(Taken) : g[i] = n
        BY <1>3 DEF Takes
      <4> QED BY <4>1, <4>2, Zenon
    <3>2. IsRange = FALSE
      BY <2>3 DEF IsRange
    <3>3. Holding(Samples, buf, rd2, FALSE, d, e, fin)
      BY <1>1, <1>2, <3>1, <3>2, HoldingPasses
    <3> QED BY <2>3, <3>2, <3>3, IngestHeld
  <2>4. CASE ~IsRange /\ Pinning /\ Taken # <<>>
    <3>1. IsRange = FALSE
      BY <2>4 DEF IsRange
    <3>2. Holding(Samples, buf, Read, FALSE, d, fin, fin)
      BY <1>2, <1>5, <2>4, <3>1
    <3>3. Holding(Samples, << Last(Taken) >>, rd2, FALSE, d, fin, fin)
      BY <1>1, <1>3, <1>4, <2>4, <3>2, HoldingLast
    <3>4. Holding(Samples, << Last(Taken) >>, rd2, IsRange, d, e, fin)
      BY <1>5, <2>4, <3>1, <3>3
    <3> QED BY <2>4, <3>4, IngestHeld
  <2> QED BY <2>1, <2>2, <2>3, <2>4
<1>8. Holding(Samples', Held', Read', IsRange', WindowStart', WindowStop', FinalEnd')
  BY <1>6, <1>7, Zenon DEF rd2, d, e, fin
<1> QED BY <1>8 DEF HoldsInv

\* What a kernel leaves behind no later step reads.
LEMMA KeptDrops ==
  ASSUME ClaimedInv, ReadInv, HoldsInv, EdgeInv, Going, NEW c, c \in {0, KeptLeft - base}
  PROVE  /\ c \in 0 .. Len(Held) /\ Held \in Seq(Sample) /\ base \in Nat
         /\ Holding(Samples, SubSeq(Held, c + 1, Len(Held)), Read, IsRange, WindowStart, WindowStop, FinalEnd)
<1> DEFINE s == Held
           m == Len(s)
           d == WindowStart
           e == WindowStop
<1>1. TypeOK /\ WindowInv /\ InBounds /\ pc # "closed" /\ nextStep < steps
  BY DEF ClaimedInv, WindowInv, Going
<1>2. s \in Seq(Sample) /\ m \in Nat /\ base \in Nat /\ lo \in Nat /\ hi \in Nat /\ Edge = base + m
  BY <1>1, StateTyped DEF Edge
<1>3. KeptLeft \in Nat /\ base <= KeptLeft /\ KeptLeft <= Edge /\ (Pinning => KeptLeft = base)
  <2>1. /\ KeptLeft \in Nat /\ KeptRight \in Nat
        /\ base <= KeptLeft /\ KeptLeft <= KeptRight /\ KeptRight <= Edge
        /\ Pinning => KeptLeft = base /\ KeptRight = base
    BY <1>1, KeptTyped
  <2>2. Edge \in Nat
    BY <1>2
  <2> QED BY <2>1, <2>2
<1>4. c \in 0 .. m /\ c \in Nat
  BY <1>2, <1>3
<1>5. Holding(Samples, s, Read, IsRange, d, e, FinalEnd)
  BY DEF HoldsInv
<1>6. Samples \in Seq(Sample) /\ Read \in 0 .. Len(Samples) /\ d \in Int
  BY <1>1, SamplesTyped, UnreadIsLater, GoingTyped
<1>7. \A i \in Nat : Nth(i) = s[(i - base) + 1]
  <2> TAKE i \in Nat
  <2>1. i - base + 1 = (i - base) + 1
    BY <1>2
  <2> QED BY <2>1 DEF Nth
<1>8. IsRange => \A i \in 1 .. c : s[i].t <= d
  <2> SUFFICES ASSUME IsRange, NEW i \in 1 .. c PROVE s[i].t <= d
    OBVIOUS
  <2>1. ~Pinning => KeptLeft = lo
    BY DEF KeptLeft
  <2>2. KeptLeft = base \/ KeptLeft = lo
    BY <1>3, <2>1
  <2>3. c = lo - base
    BY <1>2, <1>4, <2>2
  <2> DEFINE j == base + (i - 1)
  <2>4. j \in base .. lo - 1 /\ j \in Nat /\ (j - base) + 1 = i
    BY <1>2, <2>3
  <2> HIDE DEF j
  <2>5. Nth(j).t <= WindowStart
    BY <2>4 DEF EdgeInv
  <2> QED BY <1>7, <2>4, <2>5
<1>9. ~IsRange /\ c # 0 => c < m /\ s[c + 1].t <= e
  <2> SUFFICES ASSUME ~IsRange, c # 0 PROVE c < m /\ s[c + 1].t <= e
    OBVIOUS
  <2>1. ~Pinning /\ c = KeptLeft - base
    BY <1>2, <1>3
  <2>2. KeptLeft = Greater(hi - 1, base)
    BY <2>1 DEF KeptLeft
  <2>3. c = (hi - 1) - base /\ hi - 1 > base
    BY <1>2, <1>4, <2>1, <2>2 DEF Greater
  <2>4. hi <= Edge
    BY <1>1 DEF InBounds
  <2>5. c < m /\ hi - 1 \in base .. hi - 1 /\ hi - 1 \in Nat /\ ((hi - 1) - base) + 1 = c + 1
    BY <1>2, <2>3, <2>4
  <2>6. Nth(hi - 1).t <= WindowStop
    BY <2>5 DEF EdgeInv
  <2>7. Nth(hi - 1) = s[c + 1]
    BY <1>7, <2>5
  <2> QED BY <2>5, <2>6, <2>7
<1> HIDE DEF s, m, d, e
<1>10. Holding(Samples, SubSeq(s, c + 1, Len(s)), Read, IsRange, d, e, FinalEnd)
  <2>1. c \in 0 .. Len(s)
    BY <1>4 DEF m
  <2>2. ~IsRange /\ c # 0 => c < Len(s) /\ s[c + 1].t <= e
    BY <1>9 DEF m
  <2> QED BY <1>2, <1>5, <1>6, <1>8, <2>1, <2>2, HoldingDrops
<1> QED BY <1>2, <1>4, <1>10 DEF s, m, d, e

\* What a return leaves in hand.
LEMMA ReturnHeld ==
  ASSUME ClaimedInv, Return
  PROVE  /\ input' = input /\ (Going' => Going)
         /\ Going' => /\ nextStep' = nextStep /\ pinned' = pinned /\ sweep' = sweep
                      /\ lo' = KeptLeft /\ hi' = KeptRight
                      /\ \E c \in {0, KeptLeft - base} :
                           Held' = SubSeq(Held, c + 1, Len(Held)) /\ base' = base + c
<1>1. input' = input
  BY DEF Return, ReturnToRow, ReturnSlice, ReturnToClose, series
<1>2. steps' = steps /\ NoWindow' = NoWindow
  BY <1>1, SameInput
<1>3. SUFFICES ASSUME Going'
      PROVE  /\ Going /\ nextStep' = nextStep /\ pinned' = pinned /\ sweep' = sweep
             /\ lo' = KeptLeft /\ hi' = KeptRight
             /\ \E c \in {0, KeptLeft - base} :
                  Held' = SubSeq(Held, c + 1, Len(Held)) /\ base' = base + c
  BY <1>1
<1>4. nextStep' < steps /\ pc' # "closed" /\ ~NoWindow
  BY <1>2, <1>3 DEF Going
<1>a. TypeOK /\ nextStep \in Nat /\ steps \in Nat
  <2>1. TypeOK BY DEF ClaimedInv, WindowInv
  <2> QED BY <2>1, StateTyped, InputTyped
<1>5. ~Reset
  BY <1>4 DEF Reset
<1>6. nextStep' = nextStep /\ pinned' = pinned /\ pc # "closed"
  BY <1>5 DEF Return, ReturnToRow, ReturnSlice, ReturnToClose
<1>7. ~(nextStep >= steps) /\ Going
  BY <1>2, <1>4, <1>6, <1>a DEF Going
<1>8. Cut \in {0, KeptLeft - base}
  BY DEF Cut
<1>9. CASE ReturnToRow
  <2>1. Reduce /\ pc # "borrow" /\ pc' # "borrow"
    BY <1>7, <1>9 DEF ReturnToRow
  <2>2. Held' = SubSeq(Held, Cut + 1, Len(Held)) /\ base' = base + Cut
    BY <2>1 DEF Reduce, Held
  <2> QED BY <1>6, <1>7, <1>8, <2>1, <2>2 DEF Reduce
<1>10. CASE ReturnToClose
  <2>1. Reduce /\ pc # "borrow" /\ pc' # "borrow"
    BY <1>5, <1>10 DEF ReturnToClose
  <2>2. Held' = SubSeq(Held, Cut + 1, Len(Held)) /\ base' = base + Cut
    BY <2>1 DEF Reduce, Held
  <2> QED BY <1>6, <1>7, <1>8, <2>1, <2>2 DEF Reduce
<1>11. CASE ReturnSlice
  <2>1. /\ buf' = SubSeq(slice, KeptLeft - base + 1, Len(slice))
        /\ base' = KeptLeft /\ lo' = KeptLeft /\ hi' = KeptRight /\ sweep' = sweep
        /\ pc = "borrow" /\ pc' = "row"
    BY <1>7, <1>11 DEF ReturnSlice
  <2>2. KeptLeft \in Nat /\ base \in Nat
    <3>1. WindowInv
      BY DEF ClaimedInv
    <3> QED BY <1>a, <3>1, StateTyped, KeptTyped
  <2>3. KeptLeft - base + 1 = (KeptLeft - base) + 1 /\ base + (KeptLeft - base) = KeptLeft
    BY <2>2
  <2>4. Held' = SubSeq(Held, (KeptLeft - base) + 1, Len(Held))
    BY <2>1, <2>3 DEF Held
  <2>5. base' = base + (KeptLeft - base)
    BY <2>1, <2>3
  <2> QED BY <1>6, <1>7, <2>1, <2>4, <2>5
<1> QED BY <1>9, <1>10, <1>11 DEF Return

\* A return keeps whatever a later step can read.
LEMMA HoldsReturn ==
  ASSUME ClaimedInv, ReadInv, HoldsInv, EdgeInv, Return
  PROVE  HoldsInv'
<1>1. SUFFICES ASSUME Going' PROVE Holding(Samples', Held', Read', IsRange', WindowStart', WindowStop', FinalEnd')
  BY DEF HoldsInv
<1>2. input' = input /\ Going /\ nextStep' = nextStep
  BY <1>1, ReturnHeld
<1>3. PICK c \in {0, KeptLeft - base} : Held' = SubSeq(Held, c + 1, Len(Held))
  BY <1>1, ReturnHeld
<1>4. Holding(Samples, Held', Read, IsRange, WindowStart, WindowStop, FinalEnd)
  BY <1>2, <1>3, KeptDrops
<1>5. /\ Samples' = Samples /\ IsRange' = IsRange /\ FinalEnd' = FinalEnd
      /\ WindowStart' = WindowStart /\ WindowStop' = WindowStop
  BY <1>2, SameInput
<1>6. Read' = Read
  BY ReadKept
<1> QED BY <1>4, <1>5, <1>6, Zenon

\* Between the kernels what is held stays as it is.
LEMMA QuietHeld ==
  ASSUME ClaimedInv, Poll \/ Push \/ EnterKernel \/ EndRow \/ Close \/ UNCHANGED vars, pc' # "closed"
  PROVE  /\ input' = input /\ Held' = Held /\ Edge' = Edge /\ Values' = Values /\ pc # "closed"
         /\ base' = base /\ lo' = lo /\ hi' = hi /\ nextStep' = nextStep
         /\ pinned' = pinned /\ sweep' = sweep /\ out' = out
<1>1. CASE Poll \/ Push \/ EnterKernel \/ EndRow
  <2>1. /\ input' = input /\ buf' = buf /\ base' = base /\ lo' = lo /\ hi' = hi /\ nextStep' = nextStep
        /\ pinned' = pinned /\ sweep' = sweep /\ out' = out /\ pc # "closed" /\ pc # "borrow" /\ pc' # "borrow"
    BY <1>1 DEF Poll, Push, EnterKernel, EndRow, AtRow, series, history
  <2>2. Held' = Held
    BY <2>1 DEF Held
  <2>3. Edge' = Edge
    BY <2>1, <2>2 DEF Edge
  <2> QED BY <2>1, <2>2, <2>3 DEF Values, Nth
<1>2. CASE Close
  <2>1. ~Reset
    BY DEF Reset
  <2>2. /\ input' = input /\ buf' = buf /\ base' = base /\ lo' = lo /\ hi' = hi /\ nextStep' = nextStep
        /\ pinned' = pinned /\ sweep' = sweep /\ out' = out /\ pc # "closed" /\ pc # "borrow" /\ pc' # "borrow"
    BY <1>2, <2>1 DEF Close, series
  <2>3. Held' = Held
    BY <2>2 DEF Held
  <2>4. Edge' = Edge
    BY <2>2, <2>3 DEF Edge
  <2> QED BY <2>2, <2>3, <2>4 DEF Values, Nth
<1>3. CASE UNCHANGED vars
  <2>1. /\ input' = input /\ buf' = buf /\ base' = base /\ lo' = lo /\ hi' = hi /\ nextStep' = nextStep
        /\ pinned' = pinned /\ sweep' = sweep /\ out' = out /\ pc' = pc /\ slice' = slice
    BY <1>3 DEF vars, series
  <2>2. Held' = Held
    BY <2>1 DEF Held
  <2>3. Edge' = Edge
    BY <2>1, <2>2 DEF Edge
  <2> QED BY <2>1, <2>2, <2>3 DEF Values, Nth
<1> QED BY <1>1, <1>2, <1>3

\* A kernel holds what it walks.
LEMMA KernelHeld ==
  ASSUME Kernel
  PROVE  /\ input' = input /\ Held' = Held /\ Edge' = Edge /\ Values' = Values /\ pc' = pc /\ pc # "closed"
         /\ base' = base /\ lastT' = lastT /\ nextStep < steps /\ ~NoWindow /\ Ready /\ Going
<1>1. /\ input' = input /\ slice' = slice /\ buf' = buf /\ base' = base /\ pc' = pc /\ lastT' = lastT
      /\ InKernel /\ Ready
  BY DEF Kernel, AdvanceLeft, DropBeaten, AdvanceRight, Evaluate, PinValue, RepeatPinned, series,
         Walking, Working
<1>2. Held' = Held /\ Edge' = Edge /\ Values' = Values
  BY <1>1, KernelHolds
<1>3. pc # "closed" /\ nextStep < steps /\ ~NoWindow
  BY <1>1 DEF InKernel, Ready, ReadyAt
<1> QED BY <1>1, <1>2, <1>3 DEF Going

\* Whatever is done next, what is held is what a later step can read.
LEMMA HoldsNext ==
  ASSUME ClaimedInv, ReadInv, HoldsInv, EdgeInv, [Next]_vars
  PROVE  HoldsInv'
<1>1. SUFFICES ASSUME Going' PROVE HoldsInv'
  BY DEF HoldsInv
<1>2. pc' # "closed" /\ nextStep' < steps'
  BY <1>1 DEF Going
<1>3. CASE Poll \/ EnterKernel \/ Close \/ UNCHANGED vars
  <2>1. input' = input /\ Held' = Held /\ pc # "closed" /\ nextStep' = nextStep
    BY <1>2, <1>3, QuietHeld
  <2>2. Read' = Read
    BY <1>3, ReadKept
  <2> QED BY <2>1, <2>2, HoldsStays
<1>4. CASE Push
  <2>1. input' = input /\ Held' = Held /\ pc # "closed" /\ nextStep' = nextStep
    BY <1>2, <1>4, QuietHeld
  <2>2. Read' = Read
    BY <1>4, ReadPush
  <2> QED BY <2>1, <2>2, HoldsStays
<1>5. CASE EndRow
  <2>1. input' = input /\ Held' = Held /\ pc # "closed" /\ nextStep' = nextStep
    BY <1>2, <1>5, QuietHeld
  <2>2. Read' = Read
    BY <1>5, ReadEndRow
  <2> QED BY <2>1, <2>2, HoldsStays
<1>6. CASE DropRow
  <2>1. nextStep' = steps /\ steps' = steps /\ steps \in Nat
    <3>1. input' = input /\ nextStep' = steps
      BY <1>6 DEF DropRow, series
    <3>2. TypeOK
      BY DEF ClaimedInv, WindowInv
    <3> QED BY <3>1, <3>2, SameInput, StateTyped, InputTyped
  <2> QED BY <1>2, <2>1
<1>7. CASE SkipTail
  BY <1>7, HoldsSkip
<1>8. CASE IngestSlice
  BY <1>8, HoldsIngest
<1>9. CASE Kernel
  <2>1. input' = input /\ Held' = Held /\ pc # "closed" /\ nextStep < steps /\ Read' = Read
    BY <1>9, KernelHeld, ReadKept
  <2>2. nextStep' = nextStep \/ nextStep' = nextStep + 1
    BY <1>9 DEF Kernel, AdvanceLeft, DropBeaten, AdvanceRight, Evaluate, PinValue, RepeatPinned
  <2> QED BY <2>1, <2>2, HoldsStays, HoldsOn
<1>10. CASE Return
  BY <1>10, HoldsReturn
<1> QED BY <1>3, <1>4, <1>5, <1>6, <1>7, <1>8, <1>9, <1>10 DEF Next, Row

-----------------------------------------------------------------------------
\* Only what is due is passed.
LEMMA EdgeMoves ==
  ASSUME ClaimedInv, WindowInv', EdgeInv, Going, Going', input' = input,
         nextStep' \in {nextStep, nextStep + 1},
         base <= base', Edge' = Edge,
         \A i \in base' .. Edge - 1 : Held'[i - base' + 1] = Held[i - base + 1],
         hi' \in {hi, Right} \/ (hi' = Right + 1 /\ Nth(Right).t <= WindowStop),
         IsRange => lo' = lo \/ (lo' = lo + 1 /\ Nth(lo).t <= WindowStart)
  PROVE  EdgeInv'
<1> DEFINE T(i) == Held[i - base + 1].t
           d == WindowStart
           e == WindowStop
           d2 == WindowStart'
           e2 == WindowStop'
<1>1. /\ TypeOK /\ WindowInv /\ InBounds /\ TypeOK' /\ InBounds' /\ nextStep < steps
      /\ nextStep \in Nat /\ steps \in Nat
  <2>1. TypeOK /\ WindowInv /\ InBounds /\ TypeOK' /\ InBounds' /\ nextStep < steps
    BY DEF ClaimedInv, WindowInv, Going
  <2> QED BY <2>1, StateTyped, InputTyped
<1>2. /\ base \in Nat /\ lo \in Nat /\ hi \in Nat /\ Right \in Nat /\ Edge \in Nat
      /\ base' \in Nat /\ lo' \in Nat /\ hi' \in Nat /\ lo' <= Edge /\ hi' <= Edge
      /\ hi <= Right /\ lo <= Edge /\ Right <= Edge
  <2>1. base \in Nat /\ lo \in Nat /\ hi \in Nat
    BY <1>1, StateTyped
  <2>2. Right \in Nat /\ Edge \in Nat /\ hi <= Right /\ Right <= Edge
    BY <1>1, RightTyped
  <2>3. base' \in Nat /\ lo' \in Nat /\ hi' \in Nat
    BY <1>1 DEF TypeOK
  <2>4. lo' <= Edge' /\ hi' <= Edge' /\ lo <= Edge
    BY <1>1 DEF InBounds
  <2> QED BY <2>1, <2>2, <2>3, <2>4
<1>3. \A i \in base .. Edge - 1 : T(i) \in Int /\ Nth(i) = Held[i - base + 1]
  <2> TAKE i \in base .. Edge - 1
  <2>1. i \in Nat /\ base <= i /\ i < Edge
    BY <1>2
  <2>2. Nth(i) \in Sample
    BY <1>1, <2>1, NthTyped
  <2> QED BY <2>2 DEF Nth, Sample
<1>4. /\ d \in Int /\ e \in Int /\ FinalEnd \in Int
      /\ d2 \in Int /\ e2 \in Int /\ d <= d2 /\ e <= e2
      /\ IsRange => d < e
      /\ Pinning => d2 = d
  <2>1. /\ WindowStop \in Int /\ WindowStart \in Int /\ FinalEnd \in Int /\ grid.window \in Int
        /\ WindowStart = WindowStop - grid.window
        /\ Pinning => WindowStop = FinalEnd
        /\ IsRange /\ ~NoWindow => WindowStart < WindowStop
        /\ WindowStop <= FinalEnd
        /\ \A k \in nextStep .. steps - 1 :
             End(grid, k) \in Int /\ WindowStop <= End(grid, k) /\ End(grid, k) <= FinalEnd
    BY <1>1, GoingTyped
  <2>2. grid' = grid /\ steps' = steps /\ nextStep' < steps
    <3>1. grid' = grid /\ steps' = steps
      BY SameInput
    <3> QED BY <3>1 DEF Going
  <2>3. WindowStop' = End(grid, nextStep') /\ WindowStart' = WindowStop' - grid.window
    BY <2>2 DEF WindowStop, WindowStart
  <2>4. nextStep' \in nextStep .. steps - 1
    BY <1>1, <2>2
  <2>5. WindowStop' \in Int /\ WindowStop <= WindowStop' /\ WindowStop' <= FinalEnd
    BY <2>1, <2>3, <2>4
  <2>6. d2 \in Int /\ d <= d2 /\ (Pinning => d2 = d)
    BY <2>1, <2>3, <2>5
  <2> QED BY <2>1, <2>5, <2>6 DEF Going
<1>5. /\ IsRange' = IsRange /\ Pinning' = Pinning /\ FinalEnd' = FinalEnd
  BY SameInput
<1>6. /\ \A i \in base .. hi - 1 : T(i) <= e
      /\ IsRange => \A i \in base .. lo - 1 : T(i) <= d
      /\ \A i \in base .. Edge - 1 : T(i) <= FinalEnd /\ (Pinning => d < T(i))
  BY DEF EdgeInv, Nth
<1>a. /\ hi' \in {hi, Right} \/ (hi' = Right + 1 /\ T(Right) <= e)
      /\ IsRange => lo' = lo \/ (lo' = lo + 1 /\ T(lo) <= d)
  BY DEF Nth
<1>b. \A i : (i \in base' .. hi' - 1 => i \in base .. Edge - 1 /\ i \in Int /\ i < hi' /\ i \in base' .. Edge - 1)
           /\ (i \in base' .. lo' - 1 => i \in base .. Edge - 1 /\ i \in Int /\ i < lo' /\ i \in base' .. Edge - 1)
  <2> DEFINE b2 == base'
             l2 == lo'
             h2 == hi'
  <2>1. b2 \in Nat /\ l2 \in Nat /\ h2 \in Nat /\ l2 <= Edge /\ h2 <= Edge /\ base \in Nat /\ Edge \in Nat /\ base <= b2
    BY <1>2
  <2> HIDE DEF b2, l2, h2
  <2>2. \A i : i \in b2 .. h2 - 1 => i \in base .. Edge - 1 /\ i \in Int /\ i < h2 /\ i \in b2 .. Edge - 1
    BY ONLY <2>1
  <2>3. \A i : i \in b2 .. l2 - 1 => i \in base .. Edge - 1 /\ i \in Int /\ i < l2 /\ i \in b2 .. Edge - 1
    BY ONLY <2>1
  <2> QED BY <2>2, <2>3 DEF b2, l2, h2
<1> HIDE DEF T, d, e, d2, e2
<1>7. \A i \in base' .. hi' - 1 : T(i) <= e2
  <2> TAKE i \in base' .. hi' - 1
  <2>1. i \in base .. Edge - 1 /\ i \in Int /\ i < hi' /\ base <= i
    <3>1. i \in base .. Edge - 1 /\ i \in Int /\ i < hi'
      BY <1>b
    <3> QED BY <1>2, <3>1
  <2>2. CASE i < hi
    <3>1. T(i) <= e
      BY <1>2, <1>6, <2>1, <2>2
    <3> QED BY <1>3, <1>4, <2>1, <3>1
  <2>3. CASE ~(i < hi) /\ i < Right
    <3>1. IsRange /\ Right = lo
      BY <1>2, <2>1, <2>3 DEF Right, Greater
    <3>2. T(i) <= d /\ d < e
      BY <1>2, <1>4, <1>6, <2>1, <2>3, <3>1
    <3> QED BY <1>3, <1>4, <2>1, <3>2
  <2>4. CASE ~(i < hi) /\ ~(i < Right)
    <3>1. i = Right /\ T(Right) <= e
      BY <1>2, <1>a, <2>1, <2>4
    <3>2. T(Right) \in Int
      BY <1>3, <2>1, <3>1
    <3> QED BY <1>4, <3>1, <3>2
  <2> QED BY <2>2, <2>3, <2>4
<1>8. IsRange => \A i \in base' .. lo' - 1 : T(i) <= d2
  <2> SUFFICES ASSUME IsRange, NEW i \in base' .. lo' - 1 PROVE T(i) <= d2
    OBVIOUS
  <2>1. i \in base .. Edge - 1 /\ i \in Int /\ i < lo' /\ base <= i
    <3>1. i \in base .. Edge - 1 /\ i \in Int /\ i < lo'
      BY <1>b
    <3> QED BY <1>2, <3>1
  <2>2. T(i) <= d
    <3>1. CASE i < lo
      <4>1. i \in base .. lo - 1
        BY <1>2, <2>1, <3>1
      <4> QED BY <1>6, <4>1
    <3>2. CASE ~(i < lo)
      <4>1. i = lo /\ T(lo) <= d
        BY <1>2, <1>a, <2>1, <3>2
      <4> QED BY <4>1
    <3> QED BY <3>1, <3>2
  <2> QED BY <1>3, <1>4, <2>1, <2>2
<1>9. \A i \in base' .. Edge - 1 : T(i) <= FinalEnd /\ (Pinning => d2 < T(i))
  <2> TAKE i \in base' .. Edge - 1
  <2>1. i \in base .. Edge - 1
    BY <1>2
  <2> QED BY <1>4, <1>6, <2>1
<1>10. \A i \in base' .. Edge - 1 : Held'[i - base' + 1].t = T(i)
  BY DEF T
<1>11. /\ \A i \in base' .. hi' - 1 : Held'[i - base' + 1].t <= WindowStop'
       /\ IsRange' => \A i \in base' .. lo' - 1 : Held'[i - base' + 1].t <= WindowStart'
       /\ \A i \in base' .. Edge' - 1 : Held'[i - base' + 1].t <= FinalEnd'
                                         /\ (Pinning' => WindowStart' < Held'[i - base' + 1].t)
  <2>1. \A i \in base' .. hi' - 1 : i \in base' .. Edge - 1
    BY <1>b
  <2>2. \A i \in base' .. lo' - 1 : i \in base' .. Edge - 1
    BY <1>b
  <2>3. \A i \in base' .. hi' - 1 : Held'[i - base' + 1].t <= WindowStop'
    BY <1>7, <1>10, <2>1 DEF e2
  <2>4. IsRange' => \A i \in base' .. lo' - 1 : Held'[i - base' + 1].t <= WindowStart'
    BY <1>5, <1>8, <1>10, <2>2 DEF d2
  <2>5. \A i \in base' .. Edge' - 1 : Held'[i - base' + 1].t <= FinalEnd'
                                         /\ (Pinning' => WindowStart' < Held'[i - base' + 1].t)
    BY <1>5, <1>9, <1>10 DEF d2
  <2> QED BY <2>3, <2>4, <2>5
<1> QED BY <1>11 DEF EdgeInv, Nth

\* A return keeps what it keeps where it was.
LEMMA ReturnShifts ==
  ASSUME ClaimedInv, ReadInv, HoldsInv, EdgeInv, Return, Going'
  PROVE  /\ base <= base' /\ Edge' = Edge
         /\ \A i \in base' .. Edge - 1 : Held'[i - base' + 1] = Held[i - base + 1]
<1>1. Going
  BY ReturnHeld
<1>2. PICK c \in {0, KeptLeft - base} : Held' = SubSeq(Held, c + 1, Len(Held)) /\ base' = base + c
  BY ReturnHeld
<1>3. c \in 0 .. Len(Held) /\ Held \in Seq(Sample) /\ base \in Nat
  BY <1>1, KeptDrops
<1> DEFINE h == Held
           r == SubSeq(h, c + 1, Len(h))
<1>4. h \in Seq(Sample) /\ Len(h) \in Nat /\ c \in 0 .. Len(h) /\ c + 1 \in 1 .. Len(h) + 1 /\ Len(h) \in 0 .. Len(h)
  BY <1>3
<1>5. Held' = r /\ Edge = base + Len(h) /\ Edge' = base' + Len(Held')
  BY <1>2 DEF Edge
<1> HIDE DEF h
<1>6. /\ Len(r) = (IF c + 1 <= Len(h) THEN Len(h) - (c + 1) + 1 ELSE 0)
      /\ \A k \in 1 .. Len(h) - (c + 1) + 1 : r[k] = h[c + 1 + k - 1]
  BY <1>4, StretchTyped
<1> HIDE DEF r
<1>7. Len(r) = Len(h) - c
  BY <1>4, <1>6
<1>8. Edge' = Edge /\ base <= base'
  BY <1>2, <1>3, <1>4, <1>5, <1>7
<1>9. ASSUME NEW i \in base' .. Edge - 1 PROVE r[i - base' + 1] = h[i - base + 1]
  <2> DEFINE k == i - base' + 1
             n == Len(h)
             b2 == base'
             x == Edge
  <2>1. i \in b2 .. x - 1 /\ b2 = base + c /\ x = base + n /\ base \in Nat /\ c \in 0 .. n /\ n \in Nat
    BY <1>2, <1>3, <1>4, <1>5
  <2> HIDE DEF n, b2, x
  <2>2. i - b2 + 1 \in 1 .. n - (c + 1) + 1 /\ c + 1 + (i - b2 + 1) - 1 = i - base + 1
    BY ONLY <2>1
  <2>3. k \in 1 .. Len(h) - (c + 1) + 1 /\ c + 1 + k - 1 = i - base + 1
    BY <2>2 DEF n, b2
  <2> HIDE DEF k
  <2>4. r[k] = h[c + 1 + k - 1]
    BY <1>6, <2>3
  <2> QED BY <2>3, <2>4 DEF k
<1> QED BY <1>5, <1>8, <1>9 DEF h

\* What is held is kept, but by a pinned selector; what comes lies in the windows to come.
LEMMA IngestGrows ==
  ASSUME ClaimedInv, ReadInv, IngestSlice
  PROVE  /\ Held' \in Seq(Sample) /\ Held \in Seq(Sample)
         /\ IsRange \/ ~Pinning =>
              Len(Held) <= Len(Held') /\ \A j \in 1 .. Len(Held) : Held'[j] = Held[j]
         /\ \A j \in 1 .. Len(Held') :
              \/ j <= Len(Held) /\ Held'[j] = Held[j]
              \/ WindowStart < Held'[j].t /\ Held'[j].t <= FinalEnd
<1> DEFINE In(x) == WindowStart < x.t /\ x.t <= FinalEnd
<1>1. Held = buf /\ buf \in Seq(Sample) /\ Taken \in Seq(Sample)
  BY IngestAtHand
<1>2. \A i \in 1 .. Len(Taken) : In(Taken[i])
  BY TakenTakes
<1> HIDE DEF In
<1>3. /\ Live(Taken) \in Seq(Sample)
      /\ \A i \in 1 .. Len(Live(Taken)) : In(Live(Taken)[i])
  <2> DEFINE ta == Taken
             ks == {k \in DOMAIN ta : ta[k].v # Stale}
  <2>1. ta \in Seq(Sample) /\ \A i \in DOMAIN ta : In(ta[i])
    BY <1>1, <1>2
  <2> HIDE DEF ta
  <2>2. ks \in SUBSET DOMAIN ta /\ Live(ta) = At(ta, ks)
    BY DEF Live
  <2> HIDE DEF ks
  <2>3. At(ta, ks) \in Seq(Sample) /\ \A n \in DOMAIN At(ta, ks) : \E k \in ks : At(ta, ks)[n] = ta[k]
    BY <2>1, <2>2, AtTyped, AtMembers
  <2>4. \A n \in DOMAIN At(ta, ks) : In(At(ta, ks)[n])
    BY <2>1, <2>2, <2>3
  <2> QED BY <2>2, <2>3, <2>4 DEF ta
<1>4. ASSUME NEW m, m \in Seq(Sample), \A i \in 1 .. Len(m) : In(m[i]), Held' = buf \o m
      PROVE  /\ Held' \in Seq(Sample)
             /\ Len(Held) <= Len(Held') /\ \A j \in 1 .. Len(Held) : Held'[j] = Held[j]
             /\ \A j \in 1 .. Len(Held') : (j <= Len(Held) /\ Held'[j] = Held[j]) \/ In(Held'[j])
  <2> DEFINE b == buf
             x == b \o m
  <2>1. b \in Seq(Sample) /\ Len(b) \in Nat /\ Len(m) \in Nat
    BY <1>1, <1>4
  <2> HIDE DEF b
  <2>2. /\ x \in Seq(Sample) /\ Len(x) = Len(b) + Len(m)
        /\ \A j \in 1 .. Len(b) : x[j] = b[j]
        /\ \A j \in Len(b) + 1 .. Len(b) + Len(m) : x[j] = m[j - Len(b)]
    BY <1>4, <2>1
  <2> HIDE DEF x
  <2>3. Len(b) <= Len(x)
    BY <2>1, <2>2
  <2>4. \A j \in 1 .. Len(x) : (j <= Len(b) /\ x[j] = b[j]) \/ In(x[j])
    <3> TAKE j \in 1 .. Len(x)
    <3>1. CASE j <= Len(b)
      <4>1. j \in 1 .. Len(b)
        BY <2>1, <3>1
      <4> QED BY <2>2, <3>1, <4>1
    <3>2. CASE ~(j <= Len(b))
      <4>1. j \in Len(b) + 1 .. Len(b) + Len(m) /\ j - Len(b) \in 1 .. Len(m)
        BY <2>1, <2>2, <3>2
      <4> QED BY <1>4, <2>2, <4>1
    <3> QED BY <3>1, <3>2
  <2>5. Held' = x /\ Held = b
    BY <1>1, <1>4 DEF x, b
  <2> QED BY <2>2, <2>3, <2>4, <2>5
<1>5. CASE IsRange
  <2>1. Held' = buf \o Live(Taken)
    BY <1>5, IngestHeld
  <2> DEFINE m == Live(Taken)
  <2>2. m \in Seq(Sample) /\ (\A i \in 1 .. Len(m) : In(m[i])) /\ Held' = buf \o m
    BY <1>3, <2>1
  <2> HIDE DEF m
  <2> QED BY <1>1, <1>4, <2>2 DEF In
<1>6. CASE ~IsRange /\ ~Pinning
  <2>1. Held' = buf \o Taken
    BY <1>6, IngestHeld
  <2> QED BY <1>1, <1>2, <1>4, <2>1 DEF In
<1>7. CASE ~IsRange /\ Pinning /\ Taken = <<>>
  <2>1. Held' = buf
    BY <1>7, IngestHeld
  <2> QED BY <1>1, <1>7, <2>1
<1>8. CASE ~IsRange /\ Pinning /\ Taken # <<>>
  <2>1. Held' = << Last(Taken) >>
    BY <1>8, IngestHeld
  <2>2. Last(Taken) = Taken[Len(Taken)] /\ Len(Taken) \in 1 .. Len(Taken)
    BY <1>1, <1>8 DEF Last
  <2>3. In(Last(Taken)) /\ Last(Taken) \in Sample
    BY <1>1, <1>2, <2>2
  <2> DEFINE x == Last(Taken)
  <2> HIDE DEF x
  <2>4. << x >> \in Seq(Sample) /\ Len(<< x >>) = 1 /\ << x >>[1] = x
    BY <2>3 DEF x
  <2>5. Held' \in Seq(Sample) /\ \A j \in 1 .. Len(Held') : In(Held'[j])
    BY <2>1, <2>3, <2>4 DEF x
  <2> QED BY <1>1, <1>8, <2>5 DEF In
<1> QED BY <1>5, <1>6, <1>7, <1>8

\* A slice taken in, or walked in place, moves no edge past its end of the window.
LEMMA EdgeIngest ==
  ASSUME ClaimedInv, ReadInv, EdgeInv, IngestSlice
  PROVE  EdgeInv'
<1> DEFINE h == Held
           h2 == Held'
           d == WindowStart
           e == WindowStop
           f == FinalEnd
<1>1. /\ TypeOK /\ WindowInv /\ InBounds /\ input' = input /\ nextStep' = nextStep
      /\ base' = base /\ lo' = lo /\ hi' = hi /\ Going
      /\ Pinning => lo = base /\ hi = base
  BY IngestAtHand DEF Going, WindowInv, Grounded
<1>2. /\ h2 \in Seq(Sample) /\ h \in Seq(Sample)
      /\ IsRange \/ ~Pinning => Len(h) <= Len(h2) /\ \A j \in 1 .. Len(h) : h2[j] = h[j]
      /\ \A j \in 1 .. Len(h2) : (j <= Len(h) /\ h2[j] = h[j]) \/ (d < h2[j].t /\ h2[j].t <= f)
  BY IngestGrows
<1>3. /\ base \in Nat /\ lo \in Nat /\ hi \in Nat /\ lo <= base + Len(h) /\ hi <= base + Len(h)
      /\ Edge = base + Len(h) /\ Edge' = base + Len(h2)
  BY <1>1, StateTyped DEF InBounds, Edge
<1>4. /\ IsRange' = IsRange /\ Pinning' = Pinning /\ FinalEnd' = f
      /\ WindowStart' = d /\ WindowStop' = e
  BY <1>1, SameInput
<1>5. /\ \A i \in base .. hi - 1 : h[i - base + 1].t <= e
      /\ IsRange => \A i \in base .. lo - 1 : h[i - base + 1].t <= d
      /\ \A i \in base .. Edge - 1 : h[i - base + 1].t <= f /\ (Pinning => d < h[i - base + 1].t)
  BY <1>1 DEF EdgeInv, Nth
<1> HIDE DEF h, h2, d, e, f
<1>6. \A i \in base .. hi - 1 : h2[i - base + 1].t <= e
  <2> TAKE i \in base .. hi - 1
  <2>1. ~Pinning
    BY <1>1, <1>3
  <2>2. i - base + 1 \in 1 .. Len(h)
    BY <1>2, <1>3
  <2>3. h2[i - base + 1] = h[i - base + 1]
    BY <1>2, <2>1, <2>2
  <2> QED BY <1>5, <2>3
<1>7. IsRange => \A i \in base .. lo - 1 : h2[i - base + 1].t <= d
  <2> SUFFICES ASSUME IsRange, NEW i \in base .. lo - 1 PROVE h2[i - base + 1].t <= d
    OBVIOUS
  <2>2. i - base + 1 \in 1 .. Len(h)
    BY <1>2, <1>3
  <2>3. h2[i - base + 1] = h[i - base + 1]
    BY <1>2, <2>2
  <2> QED BY <1>5, <2>3
<1>8. \A i \in base .. Edge' - 1 : h2[i - base + 1].t <= f /\ (Pinning => d < h2[i - base + 1].t)
  <2> TAKE i \in base .. Edge' - 1
  <2> DEFINE j == i - base + 1
  <2>1. j \in 1 .. Len(h2) /\ j \in Int /\ i - base + 1 = j
    BY <1>2, <1>3
  <2>a. j <= Len(h) => i \in base .. Edge - 1
    BY <1>2, <1>3
  <2> HIDE DEF j
  <2>2. CASE j <= Len(h) /\ h2[j] = h[j]
    <3>1. i \in base .. Edge - 1
      BY <2>a, <2>2
    <3>2. h[i - base + 1].t <= f /\ (Pinning => d < h[i - base + 1].t)
      BY <1>5, <3>1
    <3> QED BY <2>1, <2>2, <3>2
  <2>3. CASE d < h2[j].t /\ h2[j].t <= f
    BY <2>1, <2>3
  <2> QED BY <1>2, <2>1, <2>2, <2>3
<1>9. /\ \A i \in base' .. hi' - 1 : h2[i - base' + 1].t <= WindowStop'
      /\ IsRange' => \A i \in base' .. lo' - 1 : h2[i - base' + 1].t <= WindowStart'
      /\ \A i \in base' .. Edge' - 1 : h2[i - base' + 1].t <= FinalEnd' /\ (Pinning' => WindowStart' < h2[i - base' + 1].t)
  BY <1>1, <1>4, <1>6, <1>7, <1>8
<1> QED BY <1>9 DEF EdgeInv, Nth, h2

\* What a kernel does to its edges.
LEMMA KernelEdges ==
  ASSUME ClaimedInv, Kernel
  PROVE  /\ nextStep' \in {nextStep, nextStep + 1}
         /\ hi' \in {hi, Right} \/ (hi' = Right + 1 /\ Nth(Right).t <= WindowStop)
         /\ IsRange => lo' = lo \/ (lo' = lo + 1 /\ Nth(lo).t <= WindowStart)
<1>1. CASE AdvanceLeft
  BY <1>1 DEF AdvanceLeft, LeavesLeft
<1>2. CASE DropBeaten
  BY <1>2 DEF DropBeaten
<1>3. CASE AdvanceRight
  BY <1>3 DEF AdvanceRight, EntersRight
<1>4. CASE Evaluate
  BY <1>4 DEF Evaluate
<1>5. CASE PinValue
  BY <1>5 DEF PinValue
<1>6. CASE RepeatPinned
  BY <1>6 DEF RepeatPinned
<1> QED BY <1>1, <1>2, <1>3, <1>4, <1>5, <1>6 DEF Kernel

\* Whatever is done next, no edge is past its end of the window.
LEMMA EdgeNext ==
  ASSUME ClaimedInv, ReadInv, HoldsInv, EdgeInv, [Next]_vars
  PROVE  EdgeInv'
<1>1. SUFFICES ASSUME Going' PROVE EdgeInv'
  BY DEF EdgeInv
<1>2. pc' # "closed" /\ nextStep' < steps' /\ ~NoWindow'
  BY <1>1 DEF Going
<1>3. WindowInv' /\ TypeOK /\ base \in Nat
  <2>1. WindowInv
    BY DEF ClaimedInv
  <2>2. WindowInv'
    BY <2>1, WindowNext
  <2> QED BY <2>1, <2>2, StateTyped DEF WindowInv
<1>4. CASE Poll \/ Push \/ EnterKernel \/ EndRow \/ Close \/ UNCHANGED vars
  <2>1. /\ input' = input /\ Held' = Held /\ Edge' = Edge /\ pc # "closed" /\ nextStep' = nextStep
        /\ base' = base /\ lo' = lo /\ hi' = hi
    BY <1>2, <1>4, QuietHeld
  <2>2. Going
    BY <1>2, <2>1, SameInput DEF Going
  <2> QED BY <1>1, <1>3, <2>1, <2>2, EdgeMoves
<1>5. CASE SkipTail
  <2>1. /\ input' = input /\ Held' = Held /\ Edge' = Edge /\ pc # "closed" /\ nextStep' = nextStep
        /\ base' = base /\ lo' = lo /\ hi' = hi
    BY <1>5 DEF SkipTail, Ingesting, AtRow, series, Held, Edge
  <2>2. Going
    BY <1>2, <2>1, SameInput DEF Going
  <2> QED BY <1>1, <1>3, <2>1, <2>2, EdgeMoves
<1>6. CASE DropRow
  <2>1. nextStep' = steps /\ steps' = steps /\ steps \in Nat
    BY <1>3, <1>6, SameInput, StateTyped, InputTyped DEF DropRow, series
  <2> QED BY <1>2, <2>1
<1>7. CASE IngestSlice
  BY <1>7, EdgeIngest
<1>8. CASE Kernel
  <2>1. input' = input /\ Held' = Held /\ Edge' = Edge /\ base' = base /\ Going
    BY <1>8, KernelHeld
  <2>2. /\ nextStep' \in {nextStep, nextStep + 1}
        /\ hi' \in {hi, Right} \/ (hi' = Right + 1 /\ Nth(Right).t <= WindowStop)
        /\ IsRange => lo' = lo \/ (lo' = lo + 1 /\ Nth(lo).t <= WindowStart)
    BY <1>8, KernelEdges
  <2> QED BY <1>1, <1>3, <2>1, <2>2, EdgeMoves
<1>9. CASE Return
  <2>1. /\ input' = input /\ Going /\ nextStep' = nextStep /\ lo' = KeptLeft /\ hi' = KeptRight
    BY <1>1, <1>9, ReturnHeld
  <2>2. /\ base <= base' /\ Edge' = Edge
        /\ \A i \in base' .. Edge - 1 : Held'[i - base' + 1] = Held[i - base + 1]
    BY <1>1, <1>9, ReturnShifts
  <2>3. hi' \in {hi, Right} /\ (IsRange => lo' = lo)
    BY <2>1 DEF KeptRight, KeptLeft
  <2> QED BY <1>1, <1>3, <2>1, <2>2, <2>3, EdgeMoves
<1> QED BY <1>4, <1>5, <1>6, <1>7, <1>8, <1>9 DEF Next, Row

-----------------------------------------------------------------------------
\* All that is found is tracked.
TracksAll(k, v, l, h, s) == \A i : Found(k, v, l, h, i) => \E n \in DOMAIN s : s[n] = i

\* Where there is nothing, and wherever the same is seen.
LEMMA AllSame ==
  ASSUME NEW k, NEW v, NEW w, NEW l \in Nat, NEW h \in Nat, NEW s,
         \A j \in l .. h - 1 : w[j] = v[j]
  PROVE  /\ h <= l => TracksAll(k, v, l, h, s)
         /\ TracksAll(k, v, l, h, s) => TracksAll(k, w, l, h, s)
<1>1. h <= l => \A i : ~Found(k, v, l, h, i)
  <2> SUFFICES ASSUME h <= l, NEW i, Found(k, v, l, h, i) PROVE FALSE
    OBVIOUS
  <2>1. i \in l .. h - 1
    BY FoundInside
  <2> QED BY <2>1
<1>2. \A i : Found(k, w, l, h, i) => Found(k, v, l, h, i)
  <2> SUFFICES ASSUME NEW i, Found(k, w, l, h, i) PROVE Found(k, v, l, h, i)
    OBVIOUS
  <2>1. CASE k = "counter"
    <3>1. i \in l .. h - 2 /\ Less(w[i + 1], w[i])
      BY <2>1 DEF Found
    <3>2. i \in l .. h - 1 /\ i + 1 \in l .. h - 1
      BY <3>1
    <3>3. w[i + 1] = v[i + 1] /\ w[i] = v[i]
      BY <3>2
    <3> QED BY <2>1, <3>1, <3>3 DEF Found
  <2>2. CASE k # "counter"
    <3>1. i \in l .. h - 1 /\ w[i] # NaN /\ \A j \in i + 1 .. h - 1 : ~Beaten(k, w[i], w[j])
      BY <2>2 DEF Found
    <3>2. w[i] = v[i]
      BY <3>1
    <3>3. \A j \in i + 1 .. h - 1 : w[j] = v[j]
      BY <3>1
    <3>4. \A j \in i + 1 .. h - 1 : ~Beaten(k, v[i], v[j])
      BY <3>1, <3>2, <3>3
    <3> QED BY <2>2, <3>1, <3>2, <3>4 DEF Found
  <2> QED BY <2>1, <2>2
<1> QED BY <1>1, <1>2 DEF TracksAll

\* The left edge takes only what leaves.
LEMMA AllLeft ==
  ASSUME NEW k, NEW v, NEW l \in Nat, NEW h \in Nat, NEW s, s \in Seq(Nat), NEW r,
         TracksAll(k, v, l, h, s),
         r = IF l < h /\ s # <<>> /\ Head(s) = l THEN Tail(s) ELSE s
  PROVE  TracksAll(k, v, l + 1, h, r)
<1> SUFFICES ASSUME NEW i, Found(k, v, l + 1, h, i) PROVE \E n \in DOMAIN r : r[n] = i
  BY DEF TracksAll
<1>1. i \in l + 1 .. h - 1 /\ i # l
  <2>1. i \in l + 1 .. h - 1
    BY FoundInside
  <2> QED BY <2>1
<1>2. Found(k, v, l, h, i)
  <2>1. k = "counter" => i \in l .. h - 2
    BY <1>1 DEF Found
  <2>2. i \in l .. h - 1
    BY <1>1
  <2> QED BY <2>1, <2>2 DEF Found
<1>3. PICK n \in DOMAIN s : s[n] = i
  BY <1>2 DEF TracksAll
<1>4. CASE r = s
  BY <1>3, <1>4
<1>5. CASE r # s
  <2>1. s # <<>> /\ Head(s) = l /\ r = Tail(s)
    BY <1>5
  <2>2. Len(s) \in Nat \ {0} /\ DOMAIN s = 1 .. Len(s) /\ Head(s) = s[1]
    BY <2>1
  <2>3. n # 1 /\ n \in 1 .. Len(s)
    BY <1>1, <1>3, <2>1, <2>2
  <2>4. n - 1 \in 1 .. Len(s) - 1 /\ (n - 1) + 1 = n
    BY <2>2, <2>3
  <2>5. DOMAIN r = 1 .. Len(s) - 1 /\ \A m \in 1 .. Len(s) - 1 : r[m] = s[m + 1]
    BY <2>1
  <2>6. n - 1 \in DOMAIN r /\ r[n - 1] = i
    BY <1>3, <2>4, <2>5
  <2> QED BY <2>6
<1> QED BY <1>4, <1>5

\* Whatever enters leaves nothing in doubt.
LEMMA AllRight ==
  ASSUME NEW k, NEW v, NEW e \in Nat, NEW l \in Nat, NEW h \in Nat, NEW s, s \in Seq(Nat), NEW r,
         k # "counter", l <= h, h < e, Tracks(k, v, e, l, h, s),
         r = IF v[h] = NaN THEN s ELSE Append(s, h)
  PROVE  TracksAll(k, v, l, h + 1, r)
<1> SUFFICES ASSUME NEW i, Found(k, v, l, h + 1, i) PROVE \E n \in DOMAIN r : r[n] = i
  BY DEF TracksAll
<1>1. i \in l .. (h + 1) - 1 /\ v[i] # NaN /\ \A j \in i + 1 .. (h + 1) - 1 : ~Beaten(k, v[i], v[j])
  BY DEF Found
<1>2. Len(s) \in Nat /\ DOMAIN s = 1 .. Len(s)
  OBVIOUS
<1>3. CASE i = h
  <2>1. r = Append(s, h)
    BY <1>1, <1>3
  <2>2. Len(s) + 1 \in DOMAIN r /\ r[Len(s) + 1] = h
    BY <1>2, <2>1
  <2> QED BY <1>3, <2>2
<1>4. CASE i # h
  <2>1. i \in l .. h - 1 /\ h \in i + 1 .. (h + 1) - 1
    BY <1>1, <1>4
  <2>2. ~Beaten(k, v[i], v[h])
    BY <1>1, <2>1
  <2>3. \A j \in i + 1 .. h - 1 : j \in i + 1 .. (h + 1) - 1
    BY <2>1
  <2>4. Found(k, v, l, h, i)
    BY <1>1, <2>1, <2>3 DEF Found
  <2>5. PICK n \in DOMAIN s : s[n] = i
    BY <2>2, <2>4 DEF Tracks, Doomed
  <2>6. n \in DOMAIN r /\ r[n] = s[n]
    BY <1>2, <2>5
  <2> QED BY <2>5, <2>6
<1> QED BY <1>3, <1>4

\* Between two steps the sweep has all that is found, unless a sample is about to enter.
SlackInv ==
  Going /\ Sweeps /\ ~Pinning =>
    TracksAll(kernel, Values, lo, hi, sweep) \/ (hi < Edge /\ Nth(hi).t <= WindowStop)

\* Where a step is answered, and no sample is due, it has.
LEMMA NothingSlack ==
  ASSUME HeldInv, SlackInv, Going, Sweeps, ~Pinning, ~EntersRight
  PROVE  TracksAll(kernel, Values, lo, Right, sweep)
<1>1. /\ base \in Nat /\ lo \in Nat /\ hi \in Nat /\ Right = Greater(hi, lo) /\ Right \in Nat
  BY SweepAtHand
<1> DEFINE v == Values
<1>2. CASE hi <= lo
  <2>1. Right = lo
    BY <1>1, <1>2 DEF Greater
  <2> HIDE DEF v
  <2>2. TracksAll(kernel, v, lo, lo, sweep)
    <3>1. lo <= lo /\ \A j \in lo .. lo - 1 : v[j] = v[j]
      BY <1>1
    <3> QED BY <1>1, <3>1, AllSame
  <2> QED BY <2>1, <2>2 DEF v
<1>3. CASE ~(hi <= lo)
  <2>1. Right = hi
    BY <1>1, <1>3 DEF Greater
  <2>2. ~(hi < Edge /\ Nth(hi).t <= WindowStop)
    BY <2>1 DEF EntersRight
  <2> QED BY <2>1, <2>2 DEF SlackInv
<1> QED BY <1>2, <1>3

\* Nothing enters and nothing leaves.
LEMMA SlackStays ==
  ASSUME HeldInv, HeldInv', SlackInv, Going, input' = input, nextStep' = nextStep,
         Sweeps /\ ~Pinning =>
           /\ sweep' = sweep /\ lo' = lo /\ hi' \in {hi, Right} /\ base' <= lo /\ Edge <= Edge'
           /\ \A i \in lo .. Edge - 1 : Held'[i - base' + 1] = Held[i - base + 1]
  PROVE  SlackInv'
<1>1. /\ kernel' = kernel /\ Pinning' = Pinning /\ Sweeps' = Sweeps /\ WindowStop' = WindowStop
  BY SameInput
<1>2. SUFFICES ASSUME Sweeps, ~Pinning
      PROVE  TracksAll(kernel', Values', lo', hi', sweep') \/ (hi' < Edge' /\ Held'[hi' - base' + 1].t <= WindowStop')
  BY <1>1 DEF SlackInv, Nth
<1>3. /\ base \in Nat /\ lo \in Nat /\ hi \in Nat /\ Edge \in Nat /\ sweep \in Seq(Nat)
      /\ base <= lo /\ lo <= Edge /\ hi <= Edge
      /\ Right = Greater(hi, lo) /\ Right \in Nat
  BY <1>2, SweepAtHand
<1>4. base' \in Nat /\ Edge' \in Nat
  <2>1. base' \in Nat /\ slice' \in Seq(Sample) /\ buf' \in Seq(Sample)
    BY DEF HeldInv, WindowInv, TypeOK
  <2>2. Held' \in Seq(Sample)
    BY <2>1 DEF Held
  <2> QED BY <2>1, <2>2 DEF Edge
<1>5. \A i \in lo .. Edge - 1 : Values'[i] = Values[i]
  <2> TAKE i \in lo .. Edge - 1
  <2>1. i \in base .. Edge - 1
    BY <1>3
  <2>2. i \in base' .. Edge' - 1
    <3> DEFINE b == base'
               x == Edge'
    <3>1. b \in Nat /\ x \in Nat /\ b <= lo /\ Edge <= x /\ lo \in Nat /\ Edge \in Nat
      BY <1>2, <1>3, <1>4
    <3> HIDE DEF b, x
    <3>2. i \in b .. x - 1
      BY ONLY <3>1, i \in lo .. Edge - 1
    <3> QED BY <3>2 DEF b, x
  <2>3. Values[i] = Nth(i).v
    BY <2>1, ValuesTyped
  <2>4. Values'[i] = Held'[i - base' + 1].v
    BY <2>2 DEF Values, Nth
  <2>5. Held'[i - base' + 1] = Held[i - base + 1]
    BY <1>2
  <2> QED BY <2>3, <2>4, <2>5 DEF Nth
<1> DEFINE v == Values
           w == Values'
           h2 == hi'
<1>6. h2 \in Nat /\ h2 <= Edge /\ (h2 = hi \/ (hi <= lo /\ h2 = lo))
  BY <1>2, <1>3 DEF Greater
<1> HIDE DEF v, w, h2
<1>7. CASE h2 <= lo
  <2>1. TracksAll(kernel, w, lo, h2, sweep)
    <3>1. \A j \in lo .. h2 - 1 : w[j] = w[j]
      OBVIOUS
    <3> QED BY <1>3, <1>6, <1>7, <3>1, AllSame
  <2> QED BY <1>1, <1>2, <2>1 DEF w, h2
<1>8. CASE ~(h2 <= lo) /\ TracksAll(kernel, v, lo, hi, sweep)
  <2>1. h2 = hi
    BY <1>3, <1>6, <1>8
  <2>2. \A j \in lo .. h2 - 1 : w[j] = v[j]
    <3>1. \A j \in lo .. h2 - 1 : j \in lo .. Edge - 1
      BY <1>3, <1>6
    <3> QED BY <1>5, <3>1 DEF w, v
  <2>3. TracksAll(kernel, w, lo, h2, sweep)
    BY <1>3, <1>6, <1>8, <2>1, <2>2, AllSame
  <2> QED BY <1>1, <1>2, <2>3 DEF w, h2
<1>9. CASE ~(h2 <= lo) /\ ~TracksAll(kernel, v, lo, hi, sweep)
  <2>1. h2 = hi /\ lo < hi
    BY <1>3, <1>6, <1>9
  <2>2. hi < Edge /\ Nth(hi).t <= WindowStop
    BY <1>2, <1>9 DEF SlackInv, v
  <2>3. hi \in lo .. Edge - 1
    BY <1>3, <2>1, <2>2
  <2>4. Held'[hi - base' + 1] = Held[hi - base + 1]
    BY <1>2, <2>3
  <2>5. hi' < Edge'
    BY <1>2, <1>3, <1>4, <2>1, <2>2 DEF h2
  <2> QED BY <1>1, <2>1, <2>2, <2>4, <2>5 DEF Nth, h2
<1> QED BY <1>7, <1>8, <1>9

\* A turn of a kernel.
LEMMA SlackKernel ==
  ASSUME HeldInv, SlackInv, Kernel
  PROVE  SlackInv'
<1>1. /\ input' = input /\ Held' = Held /\ Edge' = Edge /\ Values' = Values /\ base' = base /\ Going
  BY KernelHeld
<1>2. /\ kernel' = kernel /\ Pinning' = Pinning /\ Sweeps' = Sweeps
  BY <1>1, SameInput
<1>3. SUFFICES ASSUME Sweeps, ~Pinning
      PROVE  TracksAll(kernel, Values, lo', hi', sweep')
             \/ (hi' < Edge /\ Nth(hi').t <= WindowStop')
  BY <1>1, <1>2 DEF SlackInv, Nth
<1>4. /\ base \in Nat /\ lo \in Nat /\ hi \in Nat /\ Edge \in Nat /\ sweep \in Seq(Nat)
      /\ base <= lo /\ lo <= Edge /\ hi <= Edge
      /\ Right = Greater(hi, lo) /\ Right \in Nat /\ lo <= Right
      /\ Tracks(kernel, Values, Edge, lo, Right, sweep)
      /\ \A i \in lo .. Edge - 1 : Values[i] = Nth(i).v
  BY <1>3, SweepAtHand
<1> DEFINE v == Values
           e == Edge
<1>5. TracksAll(kernel, v, lo, hi, sweep) \/ (hi < e /\ Nth(hi).t <= WindowStop)
  BY <1>1, <1>3 DEF SlackInv
<1>6. CASE AdvanceLeft
  <2>1. /\ lo' = lo + 1 /\ hi' = hi /\ nextStep' = nextStep
        /\ sweep' = IF lo < hi /\ sweep # <<>> /\ Head(sweep) = lo THEN Tail(sweep) ELSE sweep
    BY <1>6 DEF AdvanceLeft
  <2>2. WindowStop' = WindowStop
    BY <1>1, <2>1, SameInput
  <2> HIDE DEF v, e
  <2>3. CASE TracksAll(kernel, v, lo, hi, sweep)
    <3> DEFINE r == sweep'
    <3>1. r = IF lo < hi /\ sweep # <<>> /\ Head(sweep) = lo THEN Tail(sweep) ELSE sweep
      BY <2>1
    <3> HIDE DEF r
    <3>2. TracksAll(kernel, v, lo + 1, hi, r)
      BY <1>4, <2>3, <3>1, AllLeft
    <3> QED BY <2>1, <3>2 DEF r, v
  <2>4. CASE hi < e /\ Nth(hi).t <= WindowStop
    BY <2>1, <2>2, <2>4 DEF e
  <2> QED BY <1>5, <2>3, <2>4
<1>7. CASE DropBeaten
  <2>1. lo' = lo /\ hi' = hi /\ nextStep' = nextStep /\ EntersRight
    BY <1>7 DEF DropBeaten
  <2>2. WindowStop' = WindowStop
    BY <1>1, <2>1, SameInput
  <2>3. CASE hi <= lo
    <3> DEFINE r == sweep'
    <3> HIDE DEF v, r
    <3>1. \A j \in lo .. hi - 1 : v[j] = v[j]
      OBVIOUS
    <3>2. TracksAll(kernel, v, lo, hi, r)
      BY <1>4, <2>3, <3>1, AllSame
    <3> QED BY <2>1, <3>2 DEF v, r
  <2>4. CASE ~(hi <= lo)
    <3>1. Right = hi
      BY <1>4, <2>4 DEF Greater
    <3> QED BY <2>1, <2>2, <3>1 DEF EntersRight
  <2> QED BY <2>3, <2>4
<1>8. CASE AdvanceRight
  <2>1. /\ lo' = lo /\ hi' = Right + 1 /\ Right < e
        /\ sweep' = CASE kernel = "counter" ->
                           IF Right > lo /\ Less(Nth(Right).v, Nth(Right - 1).v)
                           THEN Append(sweep, Right - 1) ELSE sweep
                      [] kernel \in {"min", "max"} ->
                           IF Nth(Right).v = NaN THEN sweep ELSE Append(sweep, Right)
                      [] OTHER -> sweep
    BY <1>8 DEF AdvanceRight, EntersRight
  <2>2. kernel \in {"counter", "min", "max"}
    BY <1>3 DEF Sweeps
  <2>3. Right \in lo .. e - 1 /\ (Right > lo => Right - 1 \in lo .. e - 1)
    BY <1>4, <2>1
  <2>4. v[Right] = Nth(Right).v /\ (Right > lo => v[Right - 1] = Nth(Right - 1).v)
    BY <1>4, <2>3
  <2> DEFINE r == sweep'
             h == Right
  <2>5. Tracks(kernel, v, e, lo, h, sweep) /\ e \in Nat /\ h \in Nat /\ lo <= h /\ h < e
    BY <1>4, <2>1
  <2>6. kernel = "counter" => r = IF h > lo /\ Less(v[h], v[h - 1]) THEN Append(sweep, h - 1) ELSE sweep
    BY <2>1, <2>4
  <2>7. kernel # "counter" => r = IF v[h] = NaN THEN sweep ELSE Append(sweep, h)
    BY <2>1, <2>2, <2>4
  <2> HIDE DEF v, e, r, h
  <2>8. TracksAll(kernel, v, lo, h + 1, r)
    <3>1. CASE kernel = "counter"
      <4>1. Tracks(kernel, v, e, lo, h + 1, r)
        BY <1>4, <2>5, <2>6, <3>1, TracksReset
      <4> QED BY <3>1, <4>1 DEF Tracks, TracksAll, Doomed
    <3>2. CASE kernel # "counter"
      BY <1>4, <2>5, <2>7, <3>2, AllRight
    <3> QED BY <3>1, <3>2
  <2> QED BY <2>1, <2>8 DEF v, r, h
<1>9. CASE Evaluate
  <2>1. lo' = lo /\ hi' = Right /\ sweep' = sweep /\ ~EntersRight
    BY <1>9 DEF Evaluate
  <2> QED BY <1>1, <1>3, <2>1, NothingSlack
<1>10. CASE PinValue \/ RepeatPinned
  BY <1>3, <1>10 DEF PinValue, RepeatPinned
<1> QED BY <1>6, <1>7, <1>8, <1>9, <1>10 DEF Kernel

\* Whatever is done next, a sweep lacks nothing but a sample about to enter.
LEMMA SlackNext ==
  ASSUME HeldInv, ClaimInv, ReadInv, HoldsInv, EdgeInv, SlackInv, [Next]_vars
  PROVE  SlackInv'
<1>1. SUFFICES ASSUME Going', Sweeps', ~Pinning' PROVE SlackInv'
  BY DEF SlackInv
<1>2. pc' # "closed" /\ nextStep' < steps' /\ ~NoWindow'
  BY <1>1 DEF Going
<1>3. HeldInv' /\ WindowInv' /\ TypeOK /\ ClaimedInv /\ InBounds' /\ WindowInv
  BY HeldNext DEF HeldInv, ClaimedInv, WindowInv
<1>4. /\ base \in Nat /\ lo \in Nat /\ Edge \in Nat /\ base <= lo /\ base' \in Nat
  BY <1>3, SweepAtHand DEF WindowInv, TypeOK
<1>5. CASE Poll \/ Push \/ EnterKernel \/ EndRow \/ Close \/ UNCHANGED vars
  <2>1. /\ input' = input /\ Held' = Held /\ Edge' = Edge /\ pc # "closed" /\ nextStep' = nextStep
        /\ base' = base /\ lo' = lo /\ hi' = hi /\ sweep' = sweep
    BY <1>2, <1>3, <1>5, QuietHeld
  <2>2. Going
    BY <1>2, <2>1, SameInput DEF Going
  <2> QED BY <1>3, <1>4, <2>1, <2>2, SlackStays
<1>6. CASE SkipTail
  <2>1. /\ input' = input /\ Held' = Held /\ Edge' = Edge /\ pc # "closed" /\ nextStep' = nextStep
        /\ base' = base /\ lo' = lo /\ hi' = hi /\ sweep' = sweep
    BY <1>6 DEF SkipTail, Ingesting, AtRow, series, Held, Edge
  <2>2. Going
    BY <1>2, <2>1, SameInput DEF Going
  <2> QED BY <1>3, <1>4, <2>1, <2>2, SlackStays
<1>7. CASE DropRow
  <2>1. nextStep' = steps /\ steps' = steps /\ steps \in Nat
    BY <1>3, <1>7, SameInput, StateTyped, InputTyped DEF DropRow, series
  <2> QED BY <1>2, <2>1
<1>8. CASE IngestSlice
  <2>1. /\ input' = input /\ pc # "closed" /\ nextStep' = nextStep
        /\ base' = base /\ lo' = lo /\ hi' = hi /\ sweep' = sweep
    BY <1>3, <1>8, IngestAtHand
  <2>2. Going
    BY <1>2, <2>1, SameInput DEF Going
  <2>3. /\ Held' \in Seq(Sample) /\ Held \in Seq(Sample)
        /\ IsRange \/ ~Pinning => Len(Held) <= Len(Held') /\ \A j \in 1 .. Len(Held) : Held'[j] = Held[j]
    BY <1>3, <1>8, IngestGrows
  <2>4. ~Pinning
    BY <1>1, <2>1, SameInput
  <2>5. Edge <= Edge' /\ \A i \in lo .. Edge - 1 : Held'[i - base' + 1] = Held[i - base + 1]
    <3> DEFINE h == Held
               h2 == Held'
               x == Edge
    <3>1. /\ h \in Seq(Sample) /\ h2 \in Seq(Sample) /\ Len(h) \in Nat /\ Len(h2) \in Nat
          /\ Len(h) <= Len(h2) /\ \A j \in 1 .. Len(h) : h2[j] = h[j]
          /\ x = base + Len(h) /\ Edge' = base + Len(h2) /\ base' = base /\ base \in Nat /\ lo \in Nat /\ base <= lo
      BY <1>4, <2>1, <2>3, <2>4 DEF Edge
    <3> HIDE DEF h, h2, x
    <3>2. \A i \in lo .. x - 1 : i - base + 1 \in 1 .. Len(h)
      BY <3>1
    <3> QED BY <3>1, <3>2 DEF h, h2, x
  <2> QED BY <1>3, <1>4, <2>1, <2>2, <2>5, SlackStays
<1>9. CASE Kernel
  BY <1>9, SlackKernel
<1>10. CASE Return
  <2>1. /\ input' = input /\ Going /\ nextStep' = nextStep /\ lo' = KeptLeft /\ hi' = KeptRight /\ sweep' = sweep
    BY <1>1, <1>3, <1>10, ReturnHeld
  <2>2. /\ base <= base' /\ Edge' = Edge
        /\ \A i \in base' .. Edge - 1 : Held'[i - base' + 1] = Held[i - base + 1]
    BY <1>1, <1>3, <1>10, ReturnShifts
  <2>3. IsRange /\ ~Pinning
    BY <1>1, <2>1, SameInput DEF Sweeps, IsRange
  <2>4. hi' \in {hi, Right} /\ lo' = lo
    BY <2>1, <2>3 DEF KeptRight, KeptLeft
  <2>5. base' <= lo
    BY <1>3, <2>4 DEF InBounds
  <2>6. \A i \in lo .. Edge - 1 : i \in base' .. Edge - 1
    BY <1>4, <2>5
  <2>7. Edge <= Edge'
    BY <1>4, <2>2
  <2> QED BY <1>3, <2>1, <2>2, <2>4, <2>5, <2>6, <2>7, SlackStays
<1> QED BY <1>5, <1>6, <1>7, <1>8, <1>9, <1>10 DEF Next, Row

\* What has been read is read on, a step at a time.
LEMMA ReadNext ==
  ASSUME ClaimedInv, ReadInv, [Next]_vars
  PROVE  ReadInv'
<1>1. CASE Poll \/ EnterKernel \/ Kernel \/ Return \/ Close \/ UNCHANGED vars
  BY <1>1, ReadKept
<1>2. CASE EndRow
  BY <1>2, ReadEndRow
<1>3. CASE Push
  BY <1>3, ReadPush
<1>4. CASE DropRow
  <2>1. pc' = "between"
    BY <1>4 DEF DropRow
  <2> QED BY <2>1 DEF ReadInv, InHand
<1>5. CASE SkipTail
  <2>1. WindowInv /\ pc = "row" /\ pc' = pc /\ row' = row /\ input' = input /\ position' = Len(rows[row])
    BY <1>5 DEF SkipTail, Ingesting, AtRow, ClaimedInv, series
  <2>2. row <= Len(rows) /\ TypeOK /\ rows' = rows
    BY <2>1, SameInput DEF WindowInv, Grounded
  <2>3. InHand /\ InHand'
    BY <2>1, <2>2 DEF InHand
  <2>4. position \in 0 .. Len(rows[row]) /\ Len(rows[row]) \in Nat
    BY <2>3, RowFollows
  <2>5. position' \in position .. Len(rows[row])
    BY <2>1, <2>4
  <2> QED BY <2>1, <2>3, <2>5, ReadOn
<1>6. CASE IngestSlice
  <2>1. InHand /\ InHand' /\ input' = input /\ row' = row /\ position' = Until
    BY <1>6, IngestAtHand DEF IngestSlice
  <2>2. Until \in position .. Len(rows[row])
    BY <1>6, TakenTakes
  <2> QED BY <2>1, <2>2, ReadOn
<1> QED BY <1>1, <1>2, <1>3, <1>4, <1>5, <1>6 DEF Next, Row

\* Nothing is read and nothing held to begin with.
LEMMA BeginsEmpty ==
  ASSUME Init
  PROVE  ReadInv /\ HoldsInv /\ EdgeInv /\ SlackInv
<1>1. HeldInv /\ ClaimedInv /\ TypeOK
  BY HeldInit, ClaimedInit DEF HeldInv, WindowInv
<1>2. /\ pc = "between" /\ row = 1 /\ buf = <<>> /\ base = 0 /\ lo = 0 /\ hi = 0 /\ sweep = <<>>
  BY DEF Init
<1>3. ~InHand /\ Held = <<>> /\ Edge = 0
  BY <1>2 DEF InHand, Held, Edge
<1>4. Read = 0 /\ ReadInv
  <2>1. SubSeq(rows, 1, row - 1) = <<>>
    BY <1>1, <1>2, InputTyped, StateTyped
  <2>2. Merged(<<>>) = <<>>
    <3>1. <<>> \in Seq(Seq(Sample)) /\ <<>> \in Seq(Sample)
      OBVIOUS
    <3> QED BY <3>1, MergedGrows
  <2>3. Upto(rows, row - 1) = <<>>
    BY <2>1, <2>2 DEF Upto
  <2>4. Read = Len(Upto(rows, row - 1))
    BY <1>3 DEF Read
  <2> QED BY <1>3, <2>3, <2>4 DEF ReadInv
<1>5. HoldsInv
  <2> DEFINE f == [i \in 1 .. 0 |-> 1]
  <2>1. Picked(Samples, <<>>, f)
    BY DEF Picked
  <2>2. Holds(Samples, <<>>, f, 0, IsRange, WindowStart, WindowStop, FinalEnd)
    BY <2>1 DEF Holds
  <2> HIDE DEF f
  <2> QED BY <1>3, <1>4, <2>2 DEF HoldsInv, Holding
<1>6. EdgeInv
  BY <1>2, <1>3 DEF EdgeInv
<1>7. SlackInv
  <2> DEFINE v == Values
  <2> HIDE DEF v
  <2>1. TracksAll(kernel, v, 0, 0, <<>>)
    <3>1. 0 \in Nat /\ 0 <= 0 /\ \A j \in 0 .. 0 - 1 : v[j] = v[j]
      OBVIOUS
    <3> QED BY <3>1, AllSame
  <2> QED BY <1>2, <2>1 DEF SlackInv, v
<1> QED BY <1>4, <1>5, <1>6, <1>7

-----------------------------------------------------------------------------
\* The positions of a window.
Inside(s, d, e) == {n \in DOMAIN s : d < s[n].t /\ s[n].t <= e}

\* What is held is in time order.
LEMMA HeldAscends ==
  ASSUME NEW s, NEW held, NEW f, s \in Seq(Sample), held \in Seq(Sample), Ascends(s), Picked(s, held, f)
  PROVE  /\ \A i, j \in 1 .. Len(held) : i <= j => held[i].t <= held[j].t
         /\ InTimeOrder(held)
         /\ Len(held) \in Nat /\ \A i \in 1 .. Len(held) : held[i] \in Sample /\ held[i].t \in Int
         /\ \A i \in 1 .. Len(held) : f[i] \in 1 .. Len(s) /\ held[i] = s[f[i]]
         /\ \A i, j \in 1 .. Len(held) : i <= j => f[i] <= f[j]
<1>1. /\ Len(held) \in Nat /\ DOMAIN held = 1 .. Len(held)
      /\ \A i \in 1 .. Len(held) : held[i] \in Sample /\ held[i].t \in Int
  BY TimesTyped
<1>2. Len(s) \in Nat
  OBVIOUS
<1>3. /\ \A i \in 1 .. Len(held) : f[i] \in 1 .. Len(s) /\ held[i] = s[f[i]]
      /\ \A i, j \in 1 .. Len(held) : i < j => f[i] < f[j]
  BY DEF Picked
<1>4. \A i, j \in 1 .. Len(held) : i <= j => f[i] <= f[j]
  <2> SUFFICES ASSUME NEW i \in 1 .. Len(held), NEW j \in 1 .. Len(held), i <= j PROVE f[i] <= f[j]
    OBVIOUS
  <2>1. i = j \/ i < j
    BY <1>1
  <2>2. f[i] \in 1 .. Len(s) /\ f[j] \in 1 .. Len(s) /\ (i < j => f[i] < f[j])
    BY <1>3
  <2> QED BY <1>2, <2>1, <2>2
<1>5. \A i, j \in 1 .. Len(held) : i <= j => held[i].t <= held[j].t
  <2> SUFFICES ASSUME NEW i \in 1 .. Len(held), NEW j \in 1 .. Len(held), i <= j PROVE held[i].t <= held[j].t
    OBVIOUS
  <2>1. f[i] <= f[j] /\ f[i] \in 1 .. Len(s) /\ f[j] \in 1 .. Len(s)
    BY <1>3, <1>4
  <2>2. s[f[i]].t <= s[f[j]].t
    BY <2>1 DEF Ascends
  <2> QED BY <1>3, <2>2
<1>6. InTimeOrder(held)
  <2>1. \A i, j \in DOMAIN held : i < j => i <= j
    BY <1>1
  <2> QED BY <1>1, <1>5, <2>1 DEF InTimeOrder
<1> QED BY <1>1, <1>3, <1>4, <1>5, <1>6

\* What has not been read is later than that.
Beyond(s, rd, e) == \A n \in rd + 1 .. Len(s) : s[n].t > e

\* What is held inside a window lies after a and up to b.
Between(held, d, e, a, b) ==
  /\ a \in 0 .. Len(held) /\ b \in a .. Len(held)
  /\ \A i \in 1 .. Len(held) : (d < held[i].t /\ held[i].t <= e) <=> (a < i /\ i <= b)

\* The first m of what is held are due, and no more.
Passed(held, m, e) ==
  /\ m \in 0 .. Len(held) /\ \A i \in 1 .. m : held[i].t <= e
  /\ m < Len(held) => held[m + 1].t > e

\* And what lies there is all that is alive in it.
IsLive(held, a, b, s, d, e) == SubSeq(held, a + 1, b) = Live(At(s, Inside(s, d, e)))

\* What a range fold holds of a window is what is alive in it.
LEMMA WindowIsLive ==
  ASSUME NEW s, NEW held, NEW f, NEW rd, NEW d \in Int, NEW e \in Int, NEW fin \in Int, NEW a, NEW b,
         s \in Seq(Sample), held \in Seq(Sample), Ascends(s), rd \in 0 .. Len(s), e <= fin,
         Holds(s, held, f, rd, TRUE, d, e, fin), NoneStale(held), Beyond(s, rd, e), Between(held, d, e, a, b)
  PROVE  IsLive(held, a, b, s, d, e)
<1> DEFINE ks == {n \in Inside(s, d, e) : s[n].v # Stale}
           r == SubSeq(held, a + 1, b)
           g == [j \in 1 .. b - a |-> f[a + j]]
<1>0. /\ \A n \in rd + 1 .. Len(s) : s[n].t > e
      /\ a \in 0 .. Len(held) /\ b \in a .. Len(held)
      /\ \A i \in 1 .. Len(held) : (d < held[i].t /\ held[i].t <= e) <=> (a < i /\ i <= b)
  BY DEF Beyond, Between
<1> USE <1>0
<1>1. Len(s) \in Nat /\ DOMAIN s = 1 .. Len(s) /\ \A n \in 1 .. Len(s) : s[n] \in Sample /\ s[n].t \in Int
  BY TimesTyped
<1>2. /\ Len(held) \in Nat /\ \A i \in 1 .. Len(held) : held[i] \in Sample /\ held[i].t \in Int
      /\ \A i \in 1 .. Len(held) : f[i] \in 1 .. Len(s) /\ held[i] = s[f[i]]
  <2>1. Picked(s, held, f)
    BY DEF Holds
  <2> QED BY <2>1, HeldAscends
<1>3. a \in Nat /\ b \in Nat /\ a <= b /\ b <= Len(held)
  BY <1>2
<1>4. /\ r \in Seq(Sample) /\ Len(r) = b - a
      /\ \A j \in 1 .. b - a : r[j] = held[a + j]
  <2>1. a + 1 \in 1 .. Len(held) + 1 /\ b \in 0 .. Len(held)
    BY <1>2, <1>3
  <2>2. /\ r \in Seq(Sample)
        /\ Len(r) = (IF a + 1 <= b THEN b - (a + 1) + 1 ELSE 0)
        /\ \A k \in 1 .. b - (a + 1) + 1 : r[k] = held[a + 1 + k - 1]
    BY <2>1, StretchTyped
  <2>3. (IF a + 1 <= b THEN b - (a + 1) + 1 ELSE 0) = b - a /\ b - (a + 1) + 1 = b - a
    BY <1>3
  <2>4. \A k \in 1 .. b - a : a + 1 + k - 1 = a + k
    BY <1>3
  <2> HIDE DEF r
  <2> QED BY <2>2, <2>3, <2>4
<1> HIDE DEF r
<1>5. \A j \in 1 .. b - a : a + j \in 1 .. Len(held) /\ a < a + j /\ a + j <= b
  BY <1>2, <1>3
<1>6. \A j \in 1 .. b - a : g[j] = f[a + j] /\ g[j] \in 1 .. Len(s) /\ r[j] = s[g[j]]
  BY <1>2, <1>4, <1>5
<1>7. \A j, k \in 1 .. b - a : j < k => g[j] < g[k]
  <2> SUFFICES ASSUME NEW j \in 1 .. b - a, NEW k \in 1 .. b - a, j < k PROVE g[j] < g[k]
    OBVIOUS
  <2>1. a + j < a + k
    BY <1>3
  <2> QED BY <1>5, <1>6, <2>1 DEF Holds, Picked
<1>8. Picked(s, r, g)
  <2>1. g \in [1 .. Len(r) -> 1 .. Len(s)]
    BY <1>4, <1>6
  <2> QED BY <1>4, <1>6, <1>7, <2>1 DEF Picked
<1> HIDE DEF g
<1>9. \A j \in 1 .. b - a : g[j] \in ks
  <2> TAKE j \in 1 .. b - a
  <2>1. a + j \in 1 .. Len(held) /\ a < a + j /\ a + j <= b /\ held[a + j] = s[g[j]] /\ g[j] \in DOMAIN s
    BY <1>1, <1>4, <1>5, <1>6
  <2>2. d < s[g[j]].t /\ s[g[j]].t <= e
    BY <2>1
  <2>3. s[g[j]].v # Stale
    <3>1. a + j \in DOMAIN held
      BY <2>1
    <3> QED BY <2>1, <3>1 DEF NoneStale
  <2> QED BY <2>1, <2>2, <2>3 DEF Inside
<1>10. \A n \in ks : \E j \in 1 .. b - a : g[j] = n
  <2> TAKE n \in ks
  <2>1. n \in 1 .. Len(s) /\ d < s[n].t /\ s[n].t <= e /\ s[n].v # Stale /\ s[n].t \in Int
    BY <1>1 DEF Inside
  <2>2. n \in 1 .. rd
    <3>1. ~(s[n].t > e)
      BY <2>1
    <3>2. n \notin rd + 1 .. Len(s)
      BY <3>1
    <3> QED BY <1>1, <2>1, <3>2
  <2>3. Readable(s[n], TRUE, d, fin)
    BY <2>1 DEF Readable
  <2>4. PICK i \in 1 .. Len(held) : n = f[i]
    BY <2>2, <2>3 DEF Holds, Stands
  <2>5. a < i /\ i <= b
    BY <1>2, <2>1, <2>4
  <2>6. i - a \in 1 .. b - a /\ a + (i - a) = i
    BY <1>3, <2>5
  <2>7. g[i - a] = n
    BY <1>6, <2>4, <2>6
  <2> QED BY <2>6, <2>7
<1>11. ks \in SUBSET DOMAIN s /\ Inside(s, d, e) \in SUBSET DOMAIN s
  BY DEF Inside
<1>12. r = At(s, ks)
  <2>1. Onto(r, g, ks)
    BY <1>4, <1>9, <1>10 DEF Onto
  <2> HIDE DEF ks
  <2> QED BY <1>4, <1>8, <1>11, <2>1, PickedIsAt
<1>13. Live(At(s, Inside(s, d, e))) = At(s, ks)
  BY <1>11, LiveAt
<1> QED BY <1>12, <1>13 DEF r, IsLive

\* What a selector has passed last is the latest of the window, if it is in it.
LEMMA LatestHeld ==
  ASSUME NEW s, NEW held, NEW f, NEW rd, NEW d \in Int, NEW e \in Int, NEW fin \in Int, NEW m,
         s \in Seq(Sample), held \in Seq(Sample), Ascends(s), rd \in 0 .. Len(s), e <= fin,
         Holds(s, held, f, rd, FALSE, d, e, fin), Beyond(s, rd, e), Passed(held, m, e)
  PROVE  IsLatest(s, d, e, IF m = 0 \/ held[m].t <= d THEN NoSample ELSE held[m])
<1>0. /\ \A n \in rd + 1 .. Len(s) : s[n].t > e
      /\ m \in 0 .. Len(held) /\ \A i \in 1 .. m : held[i].t <= e
      /\ m < Len(held) => held[m + 1].t > e
  BY DEF Beyond, Passed
<1> USE <1>0
<1>1. Len(s) \in Nat /\ DOMAIN s = 1 .. Len(s) /\ \A n \in 1 .. Len(s) : s[n] \in Sample /\ s[n].t \in Int
  BY TimesTyped
<1>2. /\ Len(held) \in Nat /\ \A i \in 1 .. Len(held) : held[i] \in Sample /\ held[i].t \in Int
      /\ \A i \in 1 .. Len(held) : f[i] \in 1 .. Len(s) /\ held[i] = s[f[i]]
      /\ \A i, j \in 1 .. Len(held) : i <= j => held[i].t <= held[j].t
      /\ \A i, j \in 1 .. Len(held) : i <= j => f[i] <= f[j]
  <2>1. Picked(s, held, f)
    BY DEF Holds
  <2> QED BY <2>1, HeldAscends
<1>3. ASSUME NEW n \in 1 .. Len(s), d < s[n].t, s[n].t <= e
      PROVE  m # 0 /\ n <= f[m] /\ s[n].t <= held[m].t
  <2>1. n \in 1 .. rd
    <3>1. ~(s[n].t > e)
      BY <1>1, <1>3
    <3>2. n \notin rd + 1 .. Len(s)
      BY <3>1
    <3> QED BY <1>1, <3>2
  <2>2. s[n].t <= fin
    BY <1>1, <1>3
  <2>3. Readable(s[n], FALSE, d, fin)
    BY <1>3, <2>2 DEF Readable
  <2>4. PICK i \in 1 .. Len(held) : n <= f[i] /\ (n = f[i] \/ s[f[i]].t <= e)
    BY <2>1, <2>3 DEF Holds, Stands
  <2>5. held[i].t <= e
    BY <1>2, <1>3, <2>4
  <2>6. i <= m
    <3> SUFFICES ASSUME ~(i <= m) PROVE FALSE
      OBVIOUS
    <3>1. m < Len(held) /\ m + 1 \in 1 .. Len(held) /\ m + 1 <= i
      BY <1>2
    <3>2. held[m + 1].t > e /\ held[m + 1].t <= held[i].t
      BY <1>2, <3>1
    <3>3. held[m + 1].t \in Int /\ held[i].t \in Int
      BY <1>2, <3>1
    <3> QED BY <2>5, <3>2, <3>3
  <2>7. m # 0 /\ m \in 1 .. Len(held)
    BY <1>2, <2>6
  <2>8. f[i] <= f[m] /\ f[i] \in Int /\ f[m] \in 1 .. Len(s)
    BY <1>2, <2>6, <2>7
  <2>9. n <= f[m]
    BY <1>1, <2>4, <2>8
  <2>10. s[n].t <= s[f[m]].t
    BY <2>8, <2>9 DEF Ascends
  <2> QED BY <1>2, <2>7, <2>9, <2>10
<1>4. CASE m = 0 \/ held[m].t <= d
  <2>1. \A k \in DOMAIN s : ~(d < s[k].t /\ s[k].t <= e)
    <3> SUFFICES ASSUME NEW k \in 1 .. Len(s), d < s[k].t, s[k].t <= e PROVE FALSE
      BY <1>1
    <3>1. m # 0 /\ s[k].t <= held[m].t
      BY <1>3
    <3>2. held[m].t <= d /\ held[m].t \in Int /\ s[k].t \in Int
      BY <1>1, <1>2, <1>4, <3>1
    <3> QED BY <3>1, <3>2
  <2> QED BY <1>4, <2>1 DEF IsLatest
<1>5. CASE ~(m = 0 \/ held[m].t <= d)
  <2>1. m \in 1 .. Len(held) /\ m \in 1 .. m
    BY <1>2, <1>5
  <2> DEFINE k == f[m]
  <2>2. k \in DOMAIN s /\ held[m] = s[k] /\ held[m].t \in Int
    BY <1>1, <1>2, <2>1
  <2>3. d < s[k].t /\ s[k].t <= e
    BY <1>5, <2>1, <2>2
  <2>4. \A j \in DOMAIN s : k < j => ~(d < s[j].t /\ s[j].t <= e)
    <3> SUFFICES ASSUME NEW j \in 1 .. Len(s), k < j, d < s[j].t, s[j].t <= e PROVE FALSE
      BY <1>1
    <3>1. j <= k
      BY <1>3
    <3> QED BY <1>1, <2>2, <3>1
  <2> HIDE DEF k
  <2> QED BY <1>5, <2>2, <2>3, <2>4 DEF IsLatest
<1> QED BY <1>4, <1>5

-----------------------------------------------------------------------------
\* The better of two samples, as min_of and max_of fold them.
Better(k) ==
  [xy \in Sample \X Sample |->
     IF xy[1].v = NaN \/ Beaten(k, xy[1].v, xy[2].v) THEN xy[2] ELSE xy[1]]

\* It is one of the two.
LEMMA BetterTyped ==
  ASSUME NEW k
  PROVE  /\ Better(k) \in [Sample \X Sample -> Sample]
         /\ \A x, y \in Sample :
              Better(k)[<<x, y>>] = IF x.v = NaN \/ Beaten(k, x.v, y.v) THEN y ELSE x
<1> DEFINE M(x, y) == IF x.v = NaN \/ Beaten(k, x.v, y.v) THEN y ELSE x
           X == Sample
<1>1. Better(k) = [xy \in X \X X |-> M(xy[1], xy[2])]
  BY DEF Better
<1>2. \A x, y \in X : M(x, y) \in X
  OBVIOUS
<1> HIDE DEF M, X
<1>3. \A x, y \in X : Better(k)[<<x, y>>] = M(x, y)
  BY <1>1
<1>4. Better(k) \in [X \X X -> X]
  BY <1>1, <1>2
<1> QED BY <1>3, <1>4 DEF X, M

\* Extreme is that fold.
LEMMA ExtremeFolds ==
  ASSUME NEW k, NEW w, w \in Seq(Sample), w # <<>>
  PROVE  FoldsTo(Sample, Better(k), Head(w), Tail(w), Extreme(k, w))
<1> DEFINE X == Sample
           H == Better(k)
           one == Head(w)
           ws == Tail(w)
           Iter == CHOOSE iter : iter = [T \in SUBSET DOMAIN ws |->
                     IF T = {} THEN one
                     ELSE IF iter[T \ {Max(T)}].v = NaN \/ Beaten(k, iter[T \ {Max(T)}].v, ws[Max(T)].v)
                          THEN ws[Max(T)] ELSE iter[T \ {Max(T)}]]
<1>1. Extreme(k, w) = Iter[DOMAIN ws]
  BY Zenon DEF Extreme, FoldLeft, MapThenFoldSet
<1>2. H \in [X \X X -> X] /\ \A x, y \in X : H[<<x, y>>] = IF x.v = NaN \/ Beaten(k, x.v, y.v) THEN y ELSE x
  BY BetterTyped
<1>3. one \in X /\ ws \in Seq(X)
  OBVIOUS
<1> HIDE DEF X, H, one, ws
<1>4. PICK g \in [SUBSET DOMAIN ws -> X] : FoldsOver(H, one, ws, g)
  BY <1>2, <1>3, FoldExists, Zenon
<1>5. \A T \in SUBSET DOMAIN ws : T # {} =>
        Max(T) \in DOMAIN ws /\ ws[Max(T)] \in X /\ T \ {Max(T)} \in SUBSET DOMAIN ws
  <2> TAKE T \in SUBSET DOMAIN ws
  <2> HAVE T # {}
  <2>1. DOMAIN ws = 1 .. Len(ws) /\ Len(ws) \in Nat BY <1>3
  <2>2. Max(T) \in T
    BY <2>1, MaxIn
  <2> QED BY <1>3, <2>1, <2>2
<1>6. \A T \in SUBSET DOMAIN ws :
        g[T] = IF T = {} THEN one
               ELSE IF g[T \ {Max(T)}].v = NaN \/ Beaten(k, g[T \ {Max(T)}].v, ws[Max(T)].v)
                    THEN ws[Max(T)] ELSE g[T \ {Max(T)}]
  <2> TAKE T \in SUBSET DOMAIN ws
  <2>1. CASE T = {} BY <1>4, <2>1 DEF FoldsOver
  <2>2. CASE T # {}
    <3> DEFINE a == g[T \ {Max(T)}]
               b == ws[Max(T)]
    <3>1. g[T] = H[<<a, b>>]
      BY <1>4, <2>2 DEF FoldsOver
    <3>2. a \in X /\ b \in X
      BY <1>4, <1>5, <2>2
    <3> HIDE DEF a, b
    <3>3. g[T] = IF a.v = NaN \/ Beaten(k, a.v, b.v) THEN b ELSE a
      BY <1>2, <3>1, <3>2
    <3> QED BY <2>2, <3>3 DEF a, b
  <2> QED BY <2>1, <2>2
<1>7. g = [T \in SUBSET DOMAIN ws |->
             IF T = {} THEN one
             ELSE IF g[T \ {Max(T)}].v = NaN \/ Beaten(k, g[T \ {Max(T)}].v, ws[Max(T)].v)
                  THEN ws[Max(T)] ELSE g[T \ {Max(T)}]]
  BY <1>4, <1>6, Zenon
<1>8. Iter = [T \in SUBSET DOMAIN ws |->
             IF T = {} THEN one
             ELSE IF Iter[T \ {Max(T)}].v = NaN \/ Beaten(k, Iter[T \ {Max(T)}].v, ws[Max(T)].v)
                  THEN ws[Max(T)] ELSE Iter[T \ {Max(T)}]]
  BY <1>7, Zenon
<1> HIDE DEF Iter
<1>9. Iter[{}] = one
  BY <1>8
<1>10. FoldsWithin(X, H, ws, Iter)
  <2> SUFFICES ASSUME NEW T \in SUBSET DOMAIN ws, T # {}, Iter[T \ {Max(T)}] \in X
               PROVE  Iter[T] = H[<<Iter[T \ {Max(T)}], ws[Max(T)]>>]
    BY DEF FoldsWithin
  <2> DEFINE a == Iter[T \ {Max(T)}]
             b == ws[Max(T)]
  <2>1. Iter[T] = IF a.v = NaN \/ Beaten(k, a.v, b.v) THEN b ELSE a
    BY <1>8
  <2>2. a \in X /\ b \in X
    BY <1>5
  <2> HIDE DEF a, b
  <2>3. Iter[T] = H[<<a, b>>]
    BY <1>2, <2>1, <2>2
  <2> QED BY <2>3 DEF a, b
<1>11. FoldsTo(X, H, one, ws, Iter[DOMAIN ws])
  BY <1>2, <1>3, <1>9, <1>10, FoldPrefixes
<1> QED BY <1>1, <1>11, Zenon DEF X, H, one, ws

\* Among the first n values, the first of the best; the last of only NaNs.
IsBest(k, v, n, x) ==
  \/ /\ v[x] # NaN
     /\ \A y \in 1 .. x - 1 : v[y] = NaN \/ Beaten(k, v[y], v[x])
     /\ \A y \in x + 1 .. n : ~Beaten(k, v[x], v[y])
  \/ x = n /\ \A y \in 1 .. n : v[y] = NaN

\* One value more.
LEMMA BestOn ==
  ASSUME NEW k, NEW n \in Nat, NEW v, \A y \in 1 .. n + 1 : v[y] \in Value, NEW x \in 1 .. n,
         IsBest(k, v, n, x)
  PROVE  IsBest(k, v, n + 1, IF v[x] = NaN \/ Beaten(k, v[x], v[n + 1]) THEN n + 1 ELSE x)
<1> DEFINE z == v[n + 1]
<1>1. z \in Value /\ v[x] \in Value /\ n + 1 \in 1 .. n + 1 /\ \A y \in 1 .. n : v[y] \in Value
  OBVIOUS
<1> HIDE DEF z
<1>2. CASE v[x] = NaN
  <2>1. x = n /\ \A y \in 1 .. n : v[y] = NaN
    BY <1>2 DEF IsBest
  <2>2. CASE z = NaN
    <3>1. \A y \in 1 .. n + 1 : v[y] = NaN
      <4> TAKE y \in 1 .. n + 1
      <4>1. y \in 1 .. n \/ y = n + 1
        OBVIOUS
      <4> QED BY <2>1, <2>2, <4>1 DEF z
    <3> QED BY <1>2, <3>1 DEF IsBest
  <2>3. CASE z # NaN
    <3>1. /\ (n + 1) - 1 = n /\ (n + 1) + 1 .. n + 1 = {}
      OBVIOUS
    <3>2. IsBest(k, v, n + 1, n + 1)
      BY <2>1, <2>3, <3>1 DEF IsBest, z
    <3> QED BY <1>2, <3>2
  <2> QED BY <2>2, <2>3
<1>3. CASE v[x] # NaN /\ Beaten(k, v[x], z)
  <2>1. /\ \A y \in 1 .. x - 1 : v[y] = NaN \/ Beaten(k, v[y], v[x])
        /\ \A y \in x + 1 .. n : ~Beaten(k, v[x], v[y])
    <3>1. v[x] # NaN /\ x \in 1 .. n
      BY <1>3
    <3> QED BY <3>1 DEF IsBest
  <2>2. z # NaN
    BY <1>3 DEF Beaten, Less
  <2>3. \A y \in 1 .. n : v[y] = NaN \/ Beaten(k, v[y], z)
    <3> SUFFICES ASSUME NEW y \in 1 .. n, v[y] # NaN PROVE Beaten(k, v[y], z)
      OBVIOUS
    <3>1. v[x] \in Int /\ v[y] \in Int /\ z \in Int
      BY <1>1, <1>3, <2>2 DEF Value
    <3>2. CASE y < x
      <4>1. y \in 1 .. x - 1
        BY <3>2
      <4>2. Beaten(k, v[y], v[x])
        BY <2>1, <4>1
      <4> QED BY <1>3, <2>2, <3>1, <4>2 DEF Beaten, Less
    <3>3. CASE y = x
      BY <1>3, <3>3
    <3>4. CASE y > x
      <4>1. y \in x + 1 .. n
        BY <3>4
      <4>2. ~Beaten(k, v[x], v[y])
        BY <2>1, <4>1
      <4> QED BY <1>3, <2>2, <3>1, <4>2 DEF Beaten, Less
    <3> QED BY <3>2, <3>3, <3>4
  <2>4. (n + 1) - 1 = n /\ (n + 1) + 1 .. n + 1 = {}
    OBVIOUS
  <2>5. IsBest(k, v, n + 1, n + 1)
    BY <2>2, <2>3, <2>4 DEF IsBest, z
  <2> QED BY <1>3, <2>5 DEF z
<1>4. CASE v[x] # NaN /\ ~Beaten(k, v[x], z)
  <2>1. /\ \A y \in 1 .. x - 1 : v[y] = NaN \/ Beaten(k, v[y], v[x])
        /\ \A y \in x + 1 .. n : ~Beaten(k, v[x], v[y])
    <3>1. v[x] # NaN /\ x \in 1 .. n
      BY <1>4
    <3> QED BY <3>1 DEF IsBest
  <2>2. \A y \in x + 1 .. n + 1 : ~Beaten(k, v[x], v[y])
    <3> TAKE y \in x + 1 .. n + 1
    <3>1. y \in x + 1 .. n \/ y = n + 1
      OBVIOUS
    <3> QED BY <1>4, <2>1, <3>1 DEF z
  <2>3. IsBest(k, v, n + 1, x)
    BY <1>4, <2>1, <2>2 DEF IsBest
  <2> QED BY <1>4, <2>3 DEF z
<1> QED BY <1>2, <1>3, <1>4

\* What the fold settles on.
LEMMA ExtremeIsBest ==
  ASSUME NEW k, NEW w, w \in Seq(Sample), w # <<>>, NoneStale(w)
  PROVE  \E x \in 1 .. Len(w) : /\ Extreme(k, w) = w[x]
                               /\ IsBest(k, [i \in 1 .. Len(w) |-> w[i].v], Len(w), x)
<1> DEFINE v == [i \in 1 .. Len(w) |-> w[i].v]
           ws == Tail(w)
           H == Better(k)
           one == Head(w)
<1>1. /\ Len(w) \in Nat \ {0} /\ DOMAIN w = 1 .. Len(w) /\ \A i \in 1 .. Len(w) : w[i] \in Sample
  OBVIOUS
<1>2. \A i \in 1 .. Len(w) : v[i] = w[i].v /\ v[i] \in Value
  <2> TAKE i \in 1 .. Len(w)
  <2>1. w[i].v # Stale /\ w[i] \in Sample
    BY <1>1 DEF NoneStale
  <2> QED BY <2>1 DEF Sample, Value
<1>3. Len(ws) = Len(w) - 1 /\ one = w[1] /\ \A i \in 1 .. Len(w) - 1 : ws[i] = w[i + 1]
  BY <1>1
<1>4. PICK R \in [0 .. Len(ws) -> Sample] : FoldsAlong(H, one, ws, R) /\ R[Len(ws)] = Extreme(k, w)
  BY ExtremeFolds DEF FoldsTo
<1>5. \A x, y \in Sample : H[<<x, y>>] = IF x.v = NaN \/ Beaten(k, x.v, y.v) THEN y ELSE x
  BY BetterTyped
<1> HIDE DEF v, ws, H, one
<1> DEFINE S == {j \in 0 .. Len(ws) : \E x \in 1 .. j + 1 : R[j] = w[x] /\ IsBest(k, v, j + 1, x)}
<1>6. \A j : j \in S <=> j \in 0 .. Len(ws) /\ \E x \in 1 .. j + 1 : R[j] = w[x] /\ IsBest(k, v, j + 1, x)
  OBVIOUS
<1> HIDE DEF S
<1>7. 0 \in S
  <2>1. R[0] = w[1]
    BY <1>3, <1>4 DEF FoldsAlong
  <2>2. IsBest(k, v, 1, 1)
    <3>1. 1 .. 1 - 1 = {} /\ 1 + 1 .. 1 = {} /\ 1 .. 1 = {1}
      OBVIOUS
    <3> QED BY <3>1 DEF IsBest
  <2>3. 0 \in 0 .. Len(ws) /\ 0 + 1 = 1 /\ 1 \in 1 .. 0 + 1
    BY <1>1, <1>3
  <2> QED BY <1>6, <2>1, <2>2, <2>3
<1>8. ASSUME NEW j \in 0 .. Len(ws) - 1, j \in S PROVE j + 1 \in S
  <2>1. PICK x \in 1 .. j + 1 : R[j] = w[x] /\ IsBest(k, v, j + 1, x)
    BY <1>6, <1>8
  <2> DEFINE n == j + 1
  <2>2. n \in Nat /\ n \in 0 .. Len(ws) /\ n + 1 \in 1 .. Len(w) /\ n \in 1 .. Len(w) - 1 /\ x \in 1 .. Len(w)
    BY <1>1, <1>3
  <2>3. R[n] = H[<<R[j], ws[n]>>] /\ ws[n] = w[n + 1]
    BY <1>3, <1>4, <2>2 DEF FoldsAlong
  <2>4. IsBest(k, v, n, x) /\ x \in 1 .. n
    BY <2>1
  <2> HIDE DEF n
  <2>5. R[n] = IF v[x] = NaN \/ Beaten(k, v[x], v[n + 1]) THEN w[n + 1] ELSE w[x]
    <3>1. w[x] \in Sample /\ w[n + 1] \in Sample /\ v[x] = w[x].v /\ v[n + 1] = w[n + 1].v
      BY <1>1, <1>2, <2>2
    <3> QED BY <1>5, <2>1, <2>3, <3>1
  <2> DEFINE y == IF v[x] = NaN \/ Beaten(k, v[x], v[n + 1]) THEN n + 1 ELSE x
  <2>6. IsBest(k, v, n + 1, y)
    <3>1. \A i \in 1 .. n + 1 : v[i] \in Value
      <4>1. \A i \in 1 .. n + 1 : i \in 1 .. Len(w)
        BY <1>1, <2>2
      <4> QED BY <1>2, <4>1
    <3> QED BY <2>2, <2>4, <3>1, BestOn
  <2>7. y \in 1 .. n + 1 /\ R[n] = w[y]
    BY <2>2, <2>4, <2>5
  <2> HIDE DEF y
  <2>8. n \in S
    BY <1>6, <2>2, <2>6, <2>7
  <2> QED BY <2>8 DEF n
<1>9. Len(ws) \in S
  <2>1. Len(ws) \in Nat /\ Len(ws) \in 0 .. Len(ws)
    BY <1>1, <1>3
  <2> QED BY <1>7, <1>8, <2>1, Induct
<1>10. Len(ws) + 1 = Len(w)
  BY <1>1, <1>3
<1>11. \E x \in 1 .. Len(w) : R[Len(ws)] = w[x] /\ IsBest(k, v, Len(w), x)
  BY <1>6, <1>9, <1>10
<1> QED BY <1>4, <1>11 DEF v

\* The window in hand.
LEMMA WindowInHand ==
  ASSUME HeldInv, IsRange
  PROVE  /\ lo \in Nat /\ Right \in Nat /\ lo <= Right /\ Right <= Edge /\ base \in Nat /\ base <= lo /\ Edge = base + Len(Held)
         /\ Held \in Seq(Sample) /\ Len(Held) \in Nat
         /\ Window = SubSeq(Held, (lo - base) + 1, Right - base)
         /\ Window \in Seq(Sample) /\ Len(Window) = Right - lo /\ NoneStale(Window) /\ NoneStale(Held)
         /\ \A j \in 1 .. Right - lo :
              Window[j] = Nth(lo + (j - 1)) /\ Values[lo + (j - 1)] = Window[j].v /\ Values[lo + (j - 1)] \in Value
<1>1. /\ TypeOK /\ InBounds
  BY DEF HeldInv, WindowInv
<1>2. /\ lo \in Nat /\ base \in Nat /\ Held \in Seq(Sample) /\ Len(Held) \in Nat /\ base <= lo
      /\ Right \in Nat /\ lo <= Right /\ Right <= Edge /\ Edge = base + Len(Held)
  <2>1. lo \in Nat /\ base \in Nat /\ Held \in Seq(Sample) /\ Len(Held) \in Nat
    BY <1>1, StateTyped
  <2>2. Right \in Nat /\ lo <= Right /\ Right <= Edge
    BY <1>1, RightTyped
  <2>3. base <= lo
    BY <1>1 DEF InBounds
  <2> QED BY <2>1, <2>2, <2>3 DEF Edge
<1>3. NoneStale(Held)
  BY DEF HeldInv, SweepInv, Held
<1> DEFINE h == Held
           a == lo - base
           b == Right - base
           w == Window
<1>4. a \in Nat /\ b \in Nat /\ a <= b /\ b <= Len(h) /\ b - a = Right - lo
  BY <1>2
<1>5. lo - base + 1 = (lo - base) + 1
  BY <1>2
<1>6. w = SubSeq(h, a + 1, b)
  BY <1>5 DEF Window
<1>a. \A j \in 1 .. Right - lo : a + j \in 1 .. Len(h) /\ lo + (j - 1) \in base .. Edge - 1
  BY <1>2
<1>b. h \in Seq(Sample) /\ Len(h) \in Nat
  BY <1>2
<1> HIDE DEF h, a, b, w
<1>7. w \in Seq(Sample) /\ Len(w) = b - a /\ \A j \in 1 .. b - a : w[j] = h[a + j]
  <2>1. a + 1 \in 1 .. Len(h) + 1 /\ b \in 0 .. Len(h)
    BY <1>4, <1>b
  <2>2. /\ SubSeq(h, a + 1, b) \in Seq(Sample)
        /\ Len(SubSeq(h, a + 1, b)) = (IF a + 1 <= b THEN b - (a + 1) + 1 ELSE 0)
        /\ \A k \in 1 .. b - (a + 1) + 1 : SubSeq(h, a + 1, b)[k] = h[a + 1 + k - 1]
    BY <1>b, <2>1, StretchTyped
  <2>3. (IF a + 1 <= b THEN b - (a + 1) + 1 ELSE 0) = b - a /\ b - (a + 1) + 1 = b - a
    BY <1>4
  <2>4. \A k \in 1 .. b - a : a + 1 + k - 1 = a + k
    BY <1>4
  <2> DEFINE r == SubSeq(h, a + 1, b)
  <2> HIDE DEF r
  <2>5. r \in Seq(Sample) /\ Len(r) = b - a
    BY <2>2, <2>3 DEF r
  <2>6. \A j \in 1 .. b - a : r[j] = h[a + j]
    <3> TAKE j \in 1 .. b - a
    <3>1. j \in 1 .. b - (a + 1) + 1 /\ a + 1 + j - 1 = a + j
      BY <2>3, <2>4
    <3>2. r[j] = h[a + 1 + j - 1]
      BY <2>2, <3>1 DEF r
    <3> QED BY <3>1, <3>2
  <2>7. w = r
    BY <1>6 DEF r
  <2> QED BY <2>5, <2>6, <2>7
<1>8. \A j \in 1 .. Right - lo : w[j] = Nth(lo + (j - 1))
  <2> TAKE j \in 1 .. Right - lo
  <2>1. w[j] = h[a + j]
    BY <1>4, <1>7
  <2>2. (lo + (j - 1)) - base + 1 = a + j
    BY <1>2 DEF a
  <2>3. Nth(lo + (j - 1)) = Held[(lo + (j - 1)) - base + 1]
    BY DEF Nth
  <2> QED BY <2>1, <2>2, <2>3 DEF h
<1>9. \A j \in 1 .. Right - lo : Values[lo + (j - 1)] = w[j].v /\ Values[lo + (j - 1)] \in Value
  BY <1>8, <1>a, ValuesTyped
<1>10. NoneStale(w)
  <2>1. \A n \in DOMAIN w : a + n \in DOMAIN h /\ w[n] = h[a + n]
    BY <1>4, <1>7, <1>a, <1>b
  <2> QED BY <1>3, <2>1 DEF NoneStale, h
<1> QED BY <1>2, <1>3, <1>4, <1>6, <1>7, <1>8, <1>9, <1>10 DEF w, h, a, b

\* What the sweep tracks is what refolding the window would pick.
LEMMA SweepPicks ==
  ASSUME HeldInv, SlackInv, Going, IsRange, ~Pinning, ~EntersRight, Window # <<>>
  PROVE  SweptPicks = Picks(kernel, Window)
<1> DEFINE w == Window
           v == Values
           m == Right - lo
<1>1. /\ lo \in Nat /\ Right \in Nat /\ lo <= Right /\ m \in Nat
      /\ w \in Seq(Sample) /\ Len(w) = m /\ NoneStale(w)
      /\ \A j \in 1 .. m : w[j] = Nth(lo + (j - 1)) /\ v[lo + (j - 1)] = w[j].v /\ v[lo + (j - 1)] \in Value
  BY WindowInHand
<1>2. w # <<>> /\ m # 0
  BY <1>1
<1>3. Sweeps => /\ TracksAll(kernel, v, lo, Right, sweep)
                /\ Tracks(kernel, v, Edge, lo, Right, sweep)
                /\ sweep \in Seq(Nat)
  BY NothingSlack, SweepAtHand
<1>4. \A i \in lo .. Right - 1 : (i - lo) + 1 \in 1 .. m /\ lo + (((i - lo) + 1) - 1) = i
  BY <1>1
<1>5. \A i \in lo .. Right - 1 : w[(i - lo) + 1] = Nth(i) /\ v[i] = w[(i - lo) + 1].v
  <2> TAKE i \in lo .. Right - 1
  <2> DEFINE j == (i - lo) + 1
  <2>1. j \in 1 .. m /\ lo + (j - 1) = i
    BY <1>4
  <2> HIDE DEF j, w, v, m
  <2>2. w[j] = Nth(lo + (j - 1)) /\ v[lo + (j - 1)] = w[j].v
    BY <1>1, <2>1
  <2> QED BY <2>1, <2>2 DEF j
<1>6. CASE kernel = "counter"
  <2> DEFINE r == [k \in DOMAIN sweep |-> Nth(sweep[k])]
             g == [k \in DOMAIN sweep |-> (sweep[k] - lo) + 1]
             ks == {k \in 1 .. Len(w) - 1 : Less(w[k + 1].v, w[k].v)}
  <2>1. /\ TracksAll(kernel, v, lo, Right, sweep)
        /\ Tracks(kernel, v, Edge, lo, Right, sweep)
        /\ sweep \in Seq(Nat) /\ Len(sweep) \in Nat /\ DOMAIN sweep = 1 .. Len(sweep)
    BY <1>3, <1>6 DEF Sweeps
  <2> HIDE DEF w, v, m
  <2>2. \A n \in 1 .. Len(sweep) : sweep[n] \in lo .. Right - 2 /\ Less(v[sweep[n] + 1], v[sweep[n]])
    BY <1>6, <2>1 DEF Tracks, Found
  <2>3. \A n \in 1 .. Len(sweep) : sweep[n] \in lo .. Right - 1 /\ sweep[n] + 1 \in lo .. Right - 1
    BY <1>1, <2>2
  <2>4. \A n \in 1 .. Len(sweep) : g[n] \in 1 .. m /\ g[n] \in 1 .. m - 1 /\ ((sweep[n] + 1) - lo) + 1 = g[n] + 1
    <3> TAKE n \in 1 .. Len(sweep)
    <3>1. lo \in Nat /\ Right \in Nat /\ m = Right - lo
      BY <1>1 DEF m
    <3>2. sweep[n] \in lo .. Right - 2 /\ g[n] = (sweep[n] - lo) + 1
      BY <2>1, <2>2
    <3> HIDE DEF g
    <3> QED BY ONLY <3>1, <3>2
  <2>5. \A n \in 1 .. Len(sweep) : r[n] = w[g[n]] /\ Less(w[g[n] + 1].v, w[g[n]].v)
    <3> TAKE n \in 1 .. Len(sweep)
    <3>1. w[g[n]] = Nth(sweep[n]) /\ v[sweep[n]] = w[g[n]].v
      BY <1>5, <2>1, <2>3
    <3>2. v[sweep[n] + 1] = w[((sweep[n] + 1) - lo) + 1].v
      BY <1>5, <2>3
    <3>3. v[sweep[n] + 1] = w[g[n] + 1].v
      BY <2>4, <3>2
    <3> QED BY <2>1, <2>2, <3>1, <3>3
  <2>6. Len(r) = Len(sweep) /\ DOMAIN r = 1 .. Len(sweep) /\ r \in Seq(Sample)
    <3>1. \A n \in 1 .. Len(sweep) : r[n] \in Sample
      <4>1. \A n \in 1 .. m : w[n] \in Sample
        BY <1>1
      <4> QED BY <2>4, <2>5, <4>1
    <3>2. r = [n \in 1 .. Len(sweep) |-> r[n]]
      BY <2>1
    <3> HIDE DEF r
    <3> QED BY <2>1, <3>1, <3>2
  <2>a. g = [n \in 1 .. Len(sweep) |-> (sweep[n] - lo) + 1]
    BY <2>1
  <2>7. Picked(w, r, g)
    <3>1. \A i, j \in 1 .. Len(sweep) : i < j => g[i] < g[j]
      <4> SUFFICES ASSUME NEW i \in 1 .. Len(sweep), NEW j \in 1 .. Len(sweep), i < j PROVE g[i] < g[j]
        OBVIOUS
      <4>1. sweep[i] < sweep[j]
        BY <2>1 DEF Tracks
      <4>2. sweep[i] \in Int /\ sweep[j] \in Int
        BY <2>3
      <4> QED BY <1>1, <2>a, <4>1, <4>2
    <3>2. g \in [1 .. Len(sweep) -> 1 .. m]
      BY <2>4, <2>a
    <3> HIDE DEF g, r
    <3> QED BY <1>1, <2>5, <2>6, <3>1, <3>2 DEF Picked
  <2>8. Onto(r, g, ks)
    <3>1. \A n \in 1 .. Len(sweep) : g[n] \in ks
      BY <1>1, <2>4, <2>5
    <3>2. \A k \in ks : \E n \in 1 .. Len(sweep) : g[n] = k
      <4> TAKE k \in ks
      <4> DEFINE i == lo + (k - 1)
      <4>1. k \in 1 .. m - 1 /\ Less(w[k + 1].v, w[k].v) /\ k \in Int
        BY <1>1
      <4>2. i \in lo .. Right - 2 /\ i \in lo .. Right - 1 /\ i + 1 \in lo .. Right - 1
            /\ (i - lo) + 1 = k /\ ((i + 1) - lo) + 1 = k + 1
        BY <1>1, <4>1 DEF m
      <4> HIDE DEF i
      <4>3. v[i] = w[k].v /\ v[i + 1] = w[k + 1].v
        BY <1>5, <4>2
      <4>4. Found(kernel, v, lo, Right, i)
        BY <1>6, <4>1, <4>2, <4>3 DEF Found
      <4>5. PICK n \in DOMAIN sweep : sweep[n] = i
        BY <2>1, <4>4 DEF TracksAll
      <4> QED BY <2>1, <2>a, <4>2, <4>5
    <3> QED BY <2>6, <3>1, <3>2 DEF Onto
  <2>9. ks \in SUBSET DOMAIN w
    BY <1>1
  <2> HIDE DEF r, g, ks
  <2>10. r = At(w, ks)
    BY <1>1, <2>6, <2>7, <2>8, <2>9, PickedIsAt
  <2> QED BY <1>6, <2>10 DEF SweptPicks, Picks, Resets, r, ks, w
<1>7. CASE kernel \in {"min", "max"}
  <2>1. /\ TracksAll(kernel, v, lo, Right, sweep)
        /\ Tracks(kernel, v, Edge, lo, Right, sweep)
        /\ sweep \in Seq(Nat) /\ Len(sweep) \in Nat /\ DOMAIN sweep = 1 .. Len(sweep)
    BY <1>3, <1>7 DEF Sweeps
  <2> HIDE DEF w, v, m
  <2>2. PICK x \in 1 .. Len(w) : /\ Extreme(kernel, w) = w[x]
                                /\ IsBest(kernel, [i \in 1 .. Len(w) |-> w[i].v], Len(w), x)
    BY <1>1, <1>2, ExtremeIsBest
  <2> DEFINE u == [i \in 1 .. Len(w) |-> w[i].v]
             i0 == lo + (x - 1)
  <2>3. i0 \in lo .. Right - 1 /\ (i0 - lo) + 1 = x /\ x \in 1 .. m
    BY <1>1, <2>2 DEF m
  <2>4. \A i \in lo .. Right - 1 : (i - lo) + 1 \in 1 .. m /\ u[(i - lo) + 1] = v[i]
    BY <1>1, <1>4, <1>5
  <2>5. IsBest(kernel, u, m, x)
    BY <1>1, <2>2
  <2> HIDE DEF u, i0
  <2>6. u[x] = v[i0] /\ w[x] = Nth(i0)
    BY <1>5, <2>3, <2>4
  <2>7. ASSUME u[x] # NaN PROVE Found(kernel, v, lo, Right, i0)
    <3>1. \A y \in x + 1 .. m : ~Beaten(kernel, u[x], u[y])
      BY <1>1, <2>3, <2>5, <2>7 DEF IsBest
    <3>2. \A j \in i0 + 1 .. Right - 1 : ~Beaten(kernel, v[i0], v[j])
      <4> TAKE j \in i0 + 1 .. Right - 1
      <4>1. j \in lo .. Right - 1 /\ (j - lo) + 1 \in x + 1 .. m
        BY <1>1, <2>3 DEF m
      <4> QED BY <2>4, <2>6, <3>1, <4>1
    <3> QED BY <1>7, <2>3, <2>6, <2>7, <3>2 DEF Found
  <2>8. CASE sweep = <<>>
    <3>1. u[x] = NaN
      <4> SUFFICES ASSUME u[x] # NaN PROVE FALSE
        OBVIOUS
      <4>1. \E n \in DOMAIN sweep : sweep[n] = i0
        BY <2>1, <2>7 DEF TracksAll
      <4> QED BY <2>8, <4>1
    <3>2. x = m
      BY <2>5, <3>1 DEF IsBest
    <3>3. Last(w) = w[x]
      BY <1>1, <3>2 DEF Last
    <3> QED BY <1>7, <2>2, <2>8, <3>3 DEF SweptPicks, Picks, w
  <2>9. CASE sweep # <<>>
    <3> DEFINE y0 == sweep[1]
               y == (y0 - lo) + 1
    <3>1. Len(sweep) >= 1 /\ 1 \in DOMAIN sweep /\ Head(sweep) = y0
      BY <2>1, <2>9
    <3>2. Found(kernel, v, lo, Right, y0)
      BY <2>1, <3>1 DEF Tracks
    <3>3. y0 \in lo .. Right - 1 /\ v[y0] # NaN /\ \A j \in y0 + 1 .. Right - 1 : ~Beaten(kernel, v[y0], v[j])
      BY <1>7, <3>2 DEF Found
    <3> HIDE DEF y0
    <3>4. y \in 1 .. m /\ u[y] = v[y0]
      BY <2>4, <3>3
    <3>5. y \in Int /\ y0 \in Int /\ y = (y0 - lo) + 1
      BY <3>3, <1>1
    <3> HIDE DEF y
    <3>6. u[x] # NaN
      <4> SUFFICES ASSUME u[x] = NaN PROVE FALSE
        OBVIOUS
      <4>1. \A z \in 1 .. m : u[z] = NaN
        BY <2>5 DEF IsBest
      <4> QED BY <3>3, <3>4, <4>1
    <3>7. PICK n \in DOMAIN sweep : sweep[n] = i0
      BY <2>1, <2>7, <3>6 DEF TracksAll
    <3>8. y0 <= i0
      <4>1. n = 1 \/ 1 < n
        BY <2>1, <3>7
      <4>2. 1 < n => sweep[1] < sweep[n]
        BY <2>1, <3>1, <3>7 DEF Tracks
      <4>3. i0 \in Int
        BY <2>3
      <4> QED BY <3>5, <3>7, <4>1, <4>2, <4>3 DEF y0
    <3>9. ~(y0 < i0)
      <4> SUFFICES ASSUME y0 < i0 PROVE FALSE
        OBVIOUS
      <4>1. y \in 1 .. x - 1 /\ i0 \in y0 + 1 .. Right - 1
        BY <1>1, <2>3, <3>3, <3>4, <3>5
      <4>2. u[y] = NaN \/ Beaten(kernel, u[y], u[x])
        BY <2>5, <3>6, <4>1 DEF IsBest
      <4>3. ~Beaten(kernel, v[y0], v[i0])
        BY <3>3, <4>1
      <4> QED BY <2>6, <3>3, <3>4, <4>2, <4>3
    <3>10. y0 = i0
      BY <2>3, <3>5, <3>8, <3>9
    <3> QED BY <1>7, <2>2, <2>6, <2>9, <3>1, <3>10 DEF SweptPicks, Picks, w
  <2> QED BY <2>8, <2>9
<1>8. CASE kernel \notin {"counter", "min", "max"}
  BY <1>8 DEF SweptPicks, Picks
<1> QED BY <1>6, <1>7, <1>8

-----------------------------------------------------------------------------
(***************************************************************************)
(* What a step is answered.                                                *)
(***************************************************************************)
\* When a step is ready, nothing unread lands in its window.
LEMMA ReadyCovers ==
  ASSUME ClaimedInv, ReadInv, pc # "closed", Ready
  PROVE  /\ Going /\ Read \in 0 .. Len(Samples)
         /\ WindowStop \in Int /\ WindowStart \in Int /\ FinalEnd \in Int /\ WindowStop <= FinalEnd
         /\ Beyond(Samples, Read, WindowStop)
<1>1. TypeOK /\ nextStep < steps /\ ~NoWindow /\ lastT # NoTime /\ WindowStop <= lastT
  <2>1. TypeOK
    BY DEF ClaimedInv, WindowInv
  <2> QED BY <2>1 DEF Ready, ReadyAt, WindowStop
<1>2. Going /\ lastT \in Int
  <2>1. lastT \in Int
    BY <1>1 DEF TypeOK
  <2> QED BY <1>1, <2>1 DEF Going
<1>3. WindowStop \in Int /\ WindowStart \in Int /\ FinalEnd \in Int /\ WindowStop <= FinalEnd
  BY <1>1, GoingTyped
<1>4. Read \in 0 .. Len(Samples) /\ \A n \in Read + 1 .. Len(Samples) : Samples[n].t > lastT
  BY <1>1, UnreadIsLater
<1>5. \A n \in Read + 1 .. Len(Samples) : Samples[n].t > WindowStop
  <2> TAKE n \in Read + 1 .. Len(Samples)
  <2>1. Read \in Nat /\ Len(Samples) \in Nat /\ n \in 1 .. Len(Samples)
    BY <1>1, <1>4, SamplesTyped
  <2>2. Samples[n].t \in Int
    BY <1>1, <2>1, SamplesTyped
  <2>3. Samples[n].t > lastT
    BY <1>4
  <2> QED BY <1>1, <1>2, <1>3, <2>2, <2>3
<1> QED BY <1>2, <1>3, <1>4, <1>5 DEF Beyond

\* The window of the step at hand.
LEMMA WindowOfStep ==
  StepWindow(grid, Samples, nextStep) = At(Samples, Inside(Samples, WindowStart, WindowStop))
  BY DEF StepWindow, Inside, WindowStart, WindowStop

\* Where both edges have settled, what lies between them is what is in the window.
LEMMA EdgesAtWindow ==
  ASSUME HeldInv, ClaimedInv, ReadInv, HoldsInv, EdgeInv, Going, IsRange, ~LeavesLeft, ~EntersRight
  PROVE  Between(Held, WindowStart, WindowStop, lo - base, Right - base)
<1> DEFINE h == Held
           d == WindowStart
           e == WindowStop
<1>1. /\ lo \in Nat /\ Right \in Nat /\ lo <= Right /\ Right <= Edge /\ base \in Nat /\ base <= lo
      /\ Edge = base + Len(h) /\ h \in Seq(Sample) /\ Len(h) \in Nat
  BY WindowInHand
<1>2. hi \in Nat /\ Right = Greater(hi, lo)
  <2>1. TypeOK
    BY DEF HeldInv, WindowInv
  <2> QED BY <2>1 DEF TypeOK, Right
<1>3. d \in Int /\ e \in Int /\ d < e
  <2>1. TypeOK /\ nextStep < steps /\ ~NoWindow
    BY DEF HeldInv, WindowInv, Going
  <2> QED BY <2>1, GoingTyped
<1>4. /\ \A i, j \in 1 .. Len(h) : i <= j => h[i].t <= h[j].t
      /\ \A i \in 1 .. Len(h) : h[i].t \in Int
  <2>1. PICK f : Holds(Samples, h, f, Read, IsRange, d, e, FinalEnd)
    BY DEF HoldsInv, Holding
  <2>2. Picked(Samples, h, f)
    BY <2>1 DEF Holds
  <2>3. Samples \in Seq(Sample) /\ Ascends(Samples)
    <3>1. TypeOK
      BY DEF HeldInv, WindowInv
    <3> QED BY <3>1, SamplesTyped
  <2> HIDE DEF h
  <2> QED BY <1>1, <2>2, <2>3, HeldAscends
<1>5. /\ \A i \in base .. hi - 1 : Nth(i).t <= e
      /\ \A i \in base .. lo - 1 : Nth(i).t <= d
  BY DEF EdgeInv
<1>6. \A i \in base .. Edge - 1 : (i - base) + 1 \in 1 .. Len(h) /\ Nth(i) = h[(i - base) + 1]
  <2> TAKE i \in base .. Edge - 1
  <2>1. (i - base) + 1 \in 1 .. Len(h)
    BY <1>1
  <2> QED BY <2>1 DEF Nth
<1>7. \A i \in 1 .. Len(h) :
        /\ base + (i - 1) \in base .. Edge - 1 /\ ((base + (i - 1)) - base) + 1 = i
        /\ i <= lo - base => base + (i - 1) \in base .. lo - 1
        /\ i <= hi - base => base + (i - 1) \in base .. hi - 1
  BY <1>1, <1>2
<1>8. \A i \in 1 .. Len(h) : Nth(base + (i - 1)) = h[i]
  <2> TAKE i \in 1 .. Len(h)
  <2> DEFINE n == base + (i - 1)
  <2>1. n \in base .. Edge - 1 /\ (n - base) + 1 = i
    BY <1>7
  <2> HIDE DEF n, h
  <2>2. Nth(n) = h[(n - base) + 1]
    BY <1>6, <2>1
  <2> QED BY <2>1, <2>2 DEF n
<1> HIDE DEF h, d, e
<1>9. \A i \in 1 .. Len(h) : i <= lo - base => h[i].t <= d
  BY <1>5, <1>7, <1>8
<1>10. \A i \in 1 .. Len(h) : lo - base < i => d < h[i].t
  <2> SUFFICES ASSUME NEW i \in 1 .. Len(h), lo - base < i PROVE d < h[i].t
    OBVIOUS
  <2>1. lo < Edge /\ (lo - base) + 1 \in 1 .. Len(h) /\ (lo - base) + 1 <= i /\ lo \in base .. Edge - 1
    BY <1>1
  <2>2. Nth(lo) = h[(lo - base) + 1]
    BY <1>6, <2>1
  <2>3. ~(Nth(lo).t <= d)
    BY <2>1 DEF LeavesLeft, d
  <2>4. h[(lo - base) + 1].t <= h[i].t /\ h[(lo - base) + 1].t \in Int /\ h[i].t \in Int
    BY <1>4, <2>1
  <2> QED BY <1>3, <2>2, <2>3, <2>4
<1>11. \A i \in 1 .. Len(h) : i <= Right - base => h[i].t <= e
  <2> SUFFICES ASSUME NEW i \in 1 .. Len(h), i <= Right - base PROVE h[i].t <= e
    OBVIOUS
  <2>1. i <= lo - base \/ i <= hi - base
    BY <1>1, <1>2 DEF Greater
  <2>2. CASE i <= lo - base
    <3>1. h[i].t <= d /\ h[i].t \in Int
      BY <1>4, <1>9, <2>2
    <3> QED BY <1>3, <3>1
  <2>3. CASE i <= hi - base
    BY <1>5, <1>7, <1>8, <2>3
  <2> QED BY <2>1, <2>2, <2>3
<1>12. \A i \in 1 .. Len(h) : Right - base < i => ~(h[i].t <= e)
  <2> SUFFICES ASSUME NEW i \in 1 .. Len(h), Right - base < i PROVE ~(h[i].t <= e)
    OBVIOUS
  <2>1. /\ Right < Edge /\ (Right - base) + 1 \in 1 .. Len(h) /\ (Right - base) + 1 <= i
        /\ Right \in base .. Edge - 1
    BY <1>1
  <2>2. Nth(Right) = h[(Right - base) + 1]
    BY <1>6, <2>1
  <2>3. ~(Nth(Right).t <= e)
    BY <2>1 DEF EntersRight, e
  <2>4. h[(Right - base) + 1].t <= h[i].t /\ h[(Right - base) + 1].t \in Int /\ h[i].t \in Int
    BY <1>4, <2>1
  <2> QED BY <1>3, <2>2, <2>3, <2>4
<1>13. \A i \in 1 .. Len(h) : (d < h[i].t /\ h[i].t <= e) <=> (lo - base < i /\ i <= Right - base)
  <2> TAKE i \in 1 .. Len(h)
  <2>1. lo - base \in Int /\ Right - base \in Int /\ i \in Int /\ h[i].t \in Int
    BY <1>1, <1>4
  <2>2. /\ i <= lo - base => h[i].t <= d
        /\ lo - base < i => d < h[i].t
        /\ i <= Right - base => h[i].t <= e
        /\ Right - base < i => ~(h[i].t <= e)
    BY <1>9, <1>10, <1>11, <1>12
  <2> QED BY <1>3, <2>1, <2>2
<1>14. lo - base \in 0 .. Len(h) /\ Right - base \in lo - base .. Len(h)
  BY <1>1
<1> QED BY <1>13, <1>14 DEF Between, h, d, e

\* The window that is refolded, or swept, is what the step can read alive.
LEMMA WindowAtStep ==
  ASSUME HeldInv, ClaimedInv, ReadInv, HoldsInv, EdgeInv, pc # "closed", Ready, IsRange, ~LeavesLeft, ~EntersRight
  PROVE  Window = Live(StepWindow(grid, Samples, nextStep))
<1>1. /\ Going /\ Read \in 0 .. Len(Samples)
      /\ WindowStop \in Int /\ WindowStart \in Int /\ FinalEnd \in Int /\ WindowStop <= FinalEnd
      /\ Beyond(Samples, Read, WindowStop)
  BY ReadyCovers
<1>2. Held \in Seq(Sample) /\ Window = SubSeq(Held, (lo - base) + 1, Right - base) /\ NoneStale(Held)
  BY WindowInHand
<1> DEFINE a == lo - base
           b == Right - base
<1>3. Between(Held, WindowStart, WindowStop, a, b)
  BY <1>1, EdgesAtWindow
<1>4. PICK f : Holds(Samples, Held, f, Read, TRUE, WindowStart, WindowStop, FinalEnd)
  BY <1>1 DEF HoldsInv, Holding
<1>5. Samples \in Seq(Sample) /\ Ascends(Samples)
  <2>1. TypeOK
    BY DEF HeldInv, WindowInv
  <2> QED BY <2>1, SamplesTyped
<1> HIDE DEF a, b
<1>6. IsLive(Held, a, b, Samples, WindowStart, WindowStop)
  BY <1>1, <1>2, <1>3, <1>4, <1>5, WindowIsLive
<1> QED BY <1>2, <1>6, WindowOfStep DEF a, b, IsLive

\* A range fold answers the step.
LEMMA RangeAnswers ==
  ASSUME HeldInv, ClaimedInv, ReadInv, HoldsInv, EdgeInv, SlackInv, pc # "closed", Ready, IsRange, ~Pinning,
         ~LeavesLeft, ~EntersRight
  PROVE  RangeValue = AnswerAt(kernel, grid, Samples, nextStep)
<1>1. Window = Live(StepWindow(grid, Samples, nextStep))
  BY WindowAtStep
<1>2. Going
  BY ReadyCovers
<1>3. Window # <<>> => SweptPicks = Picks(kernel, Window)
  BY <1>2, SweepPicks
<1>4. AnswerAt(kernel, grid, Samples, nextStep)
      = IF Window = <<>> THEN <<>> ELSE << Answer(nextStep, Window, Picks(kernel, Window)) >>
  BY <1>1 DEF AnswerAt, IsRange
<1> QED BY <1>3, <1>4 DEF RangeValue

\* What a step reads, and its answer.
Reading(k) ==
  LET inside == StepWindow(grid, Samples, k)
  IN  IF IsRange THEN Live(inside)
      ELSE IF inside = <<>> \/ Last(inside).v = Stale THEN <<>> ELSE << Last(inside) >>

Answering(k, read) == IF read = <<>> THEN <<>> ELSE << Answer(k, read, Picks(kernel, read)) >>

\* It is the answer to what it reads.
LEMMA AnswersReading ==
  ASSUME NEW k
  PROVE  AnswerAt(kernel, grid, Samples, k) = Answering(k, Reading(k))
BY DEF AnswerAt, Answering, Reading, IsRange

\* A selector reads the last sample it has passed.
LEMMA SelectorReads ==
  ASSUME HeldInv, ClaimedInv, ReadInv, HoldsInv, pc # "closed", Ready, ~IsRange,
         NEW m, Passed(Held, m, WindowStop)
  PROVE  Reading(nextStep)
         = IF m # 0 /\ WindowStart < Held[m].t /\ Held[m].v # Stale THEN << Held[m] >> ELSE <<>>
<1>1. /\ Going /\ Read \in 0 .. Len(Samples)
      /\ WindowStop \in Int /\ WindowStart \in Int /\ FinalEnd \in Int /\ WindowStop <= FinalEnd
      /\ Beyond(Samples, Read, WindowStop)
  BY ReadyCovers
<1>2. TypeOK /\ Held \in Seq(Sample) /\ Len(Held) \in Nat
  BY StateTyped DEF HeldInv, WindowInv
<1>3. PICK f : Holds(Samples, Held, f, Read, FALSE, WindowStart, WindowStop, FinalEnd)
  <2>1. Holding(Samples, Held, Read, IsRange, WindowStart, WindowStop, FinalEnd)
    BY <1>1 DEF HoldsInv
  <2>2. IsRange = FALSE
    BY DEF IsRange
  <2>3. Holding(Samples, Held, Read, FALSE, WindowStart, WindowStop, FinalEnd)
    BY ONLY <2>1, <2>2, Zenon
  <2> QED BY <2>3 DEF Holding
<1>4. Samples \in Seq(Sample) /\ Ascends(Samples)
  BY <1>2, SamplesTyped
<1> DEFINE x == IF m = 0 \/ Held[m].t <= WindowStart THEN NoSample ELSE Held[m]
           w == StepWindow(grid, Samples, nextStep)
<1>5. IsLatest(Samples, WindowStart, WindowStop, x)
  BY <1>1, <1>2, <1>3, <1>4, LatestHeld
<1>6. m \in 0 .. Len(Held) /\ (m # 0 => Held[m] \in Sample /\ Held[m].t \in Int)
  <2>1. m \in 0 .. Len(Held)
    BY DEF Passed
  <2>2. m # 0 => m \in 1 .. Len(Held)
    BY <1>2, <2>1
  <2>3. m # 0 => Held[m] \in Sample
    BY <1>2, <2>2
  <2> QED BY <2>1, <2>3 DEF Sample
<1>7. x \in Sample \cup {NoSample}
  BY <1>6
<1>8. x = IF w = <<>> THEN NoSample ELSE Last(w)
  <2> DEFINE g == grid
             seen == Samples
             k == nextStep
  <2>1. IsLatest(seen, End(g, k) - g.window, End(g, k), x)
    BY <1>5 DEF WindowStart, WindowStop
  <2>2. seen \in Seq(Sample)
    BY <1>4
  <2> HIDE DEF g, seen, k, x
  <2>3. x = IF StepWindow(g, seen, k) = <<>> THEN NoSample ELSE Last(StepWindow(g, seen, k))
    BY <1>7, <2>1, <2>2, LatestOfWindow
  <2> QED BY <2>3 DEF g, seen, k
<1>9. NoSample \notin Sample
  BY StateAssumption
<1>10. Reading(nextStep) = IF w = <<>> \/ Last(w).v = Stale THEN <<>> ELSE << Last(w) >>
  BY DEF Reading
<1>11. CASE m = 0 \/ Held[m].t <= WindowStart
  <2>1. x = NoSample
    BY <1>11
  <2>2. w # <<>> => Last(w) \in Sample
    <3>1. w \in Seq(Sample)
      <4>1. w = At(Samples, Inside(Samples, WindowStart, WindowStop))
        BY WindowOfStep
      <4>2. Inside(Samples, WindowStart, WindowStop) \in SUBSET DOMAIN Samples
        BY DEF Inside
      <4> QED BY <1>4, <4>1, <4>2, AtTyped
    <3> QED BY <3>1, LastTyped
  <2> HIDE DEF w, x
  <2>3. w = <<>>
    BY <1>8, <1>9, <2>1, <2>2
  <2>4. ~(m # 0 /\ WindowStart < Held[m].t)
    BY <1>1, <1>6, <1>11
  <2> QED BY <1>10, <2>3, <2>4
<1>12. CASE ~(m = 0 \/ Held[m].t <= WindowStart)
  <2>1. x = Held[m] /\ Held[m] \in Sample /\ WindowStart < Held[m].t
    BY <1>1, <1>6, <1>12
  <2> HIDE DEF w, x
  <2>2. w # <<>> /\ Last(w) = Held[m]
    BY <1>8, <1>9, <2>1
  <2> QED BY <1>10, <1>12, <2>1, <2>2
<1> QED BY <1>11, <1>12

\* A selector answers the step.
LEMMA SelectorAnswers ==
  ASSUME HeldInv, ClaimedInv, ReadInv, HoldsInv, EdgeInv, pc # "closed", Ready, ~IsRange, ~EntersRight
  PROVE  SelectorValue = AnswerAt(kernel, grid, Samples, nextStep)
<1> DEFINE m == hi - base
<1>1. /\ TypeOK /\ base \in Nat /\ hi \in Nat /\ base <= hi /\ hi <= Edge /\ Edge = base + Len(Held)
      /\ Len(Held) \in Nat
  <2>1. TypeOK /\ InBounds
    BY DEF HeldInv, WindowInv
  <2> QED BY <2>1, StateTyped DEF InBounds, Edge
<1>2. Going
  BY ReadyCovers
<1>3. \A i \in base .. hi - 1 : Nth(i).t <= WindowStop
  BY <1>2 DEF EdgeInv
<1>4. hi < Edge => ~(Nth(hi).t <= WindowStop)
  BY DEF EntersRight, Right
<1>5. m \in 0 .. Len(Held) /\ (hi = base <=> m = 0)
  BY <1>1
<1>6. m # 0 => Nth(hi - 1) = Held[m]
  <2>1. hi - 1 - base + 1 = m
    BY <1>1
  <2>2. (hi - 1) - base + 1 = m
    BY <1>1
  <2> QED BY <2>1, <2>2 DEF Nth
<1>7. Passed(Held, m, WindowStop)
  <2>1. \A i \in 1 .. m : Held[i].t <= WindowStop
    <3> TAKE i \in 1 .. m
    <3> DEFINE n == base + (i - 1)
    <3>1. n \in base .. hi - 1 /\ n - base + 1 = i
      BY <1>1
    <3> HIDE DEF n
    <3> QED BY <1>3, <3>1 DEF Nth
  <2>2. m < Len(Held) => Held[m + 1].t > WindowStop
    <3> SUFFICES ASSUME m < Len(Held) PROVE Held[m + 1].t > WindowStop
      OBVIOUS
    <3>1. hi < Edge /\ hi - base + 1 = m + 1 /\ m + 1 \in 1 .. Len(Held)
      BY <1>1
    <3>2. ~(Held[m + 1].t <= WindowStop)
      BY <1>4, <3>1 DEF Nth
    <3>3. Held[m + 1].t \in Int
      <4>1. Held[m + 1] \in Sample
        BY <1>1, <3>1, StateTyped
      <4> QED BY <4>1 DEF Sample
    <3>4. WindowStop \in Int
      BY ReadyCovers
    <3> QED BY <3>2, <3>3, <3>4
  <2> QED BY <1>5, <2>1, <2>2 DEF Passed
<1> HIDE DEF m
<1>8. Reading(nextStep)
      = IF m # 0 /\ WindowStart < Held[m].t /\ Held[m].v # Stale THEN << Held[m] >> ELSE <<>>
  BY <1>7, SelectorReads
<1>9. Picks(kernel, << Held[m] >>) = <<>>
  BY DEF Picks, IsRange
<1>10. AnswerAt(kernel, grid, Samples, nextStep) = Answering(nextStep, Reading(nextStep))
  BY AnswersReading
<1>11. CASE m = 0
  BY <1>5, <1>8, <1>10, <1>11 DEF SelectorValue, Answering
<1>12. CASE m # 0
  <2>1. hi # base /\ Nth(hi - 1) = Held[m]
    BY <1>5, <1>6, <1>12
  <2>2. (Held[m].t > WindowStart) = (WindowStart < Held[m].t)
    OBVIOUS
  <2>3. SelectorValue = IF WindowStart < Held[m].t /\ Held[m].v # Stale
                        THEN << Answer(nextStep, << Held[m] >>, <<>>) >> ELSE <<>>
    BY <2>1, <2>2 DEF SelectorValue
  <2>4. CASE WindowStart < Held[m].t /\ Held[m].v # Stale
    <3>1. Reading(nextStep) = << Held[m] >>
      BY <1>8, <1>12, <2>4
    <3>2. << Held[m] >> # <<>>
      OBVIOUS
    <3> QED BY <1>9, <1>10, <2>3, <2>4, <3>1, <3>2 DEF Answering
  <2>5. CASE ~(WindowStart < Held[m].t /\ Held[m].v # Stale)
    <3>1. Reading(nextStep) = <<>>
      BY <1>8, <2>5
    <3> QED BY <1>10, <2>3, <2>5, <3>1 DEF Answering
  <2> QED BY <2>4, <2>5
<1> QED BY <1>11, <1>12

\* Under @ every step reads the same window.
LEMMA OneWindow ==
  ASSUME TypeOK, Pinning, nextStep < steps
  PROVE  \A k \in 0 .. steps - 1 : Reading(k) = Reading(nextStep)
<1> TAKE k \in 0 .. steps - 1
<1>1. grid \in Grids /\ nextStep \in Int /\ k \in Int /\ StepCount(grid) # 0
  <2>1. grid \in Grids /\ nextStep \in Nat /\ steps \in Nat
    BY StateTyped, InputTyped DEF TypeOK
  <2> QED BY <2>1 DEF steps
<1>2. End(grid, k) = WindowEnd(grid, grid.start)
  <2>1. k <= k
    BY <1>1
  <2> QED BY <1>1, <2>1, EndsAscend DEF Pinning
<1>3. End(grid, nextStep) = WindowEnd(grid, grid.start)
  <2>1. nextStep <= nextStep
    BY <1>1
  <2> QED BY <1>1, <2>1, EndsAscend DEF Pinning
<1>4. StepWindow(grid, Samples, k) = StepWindow(grid, Samples, nextStep)
  BY <1>2, <1>3 DEF StepWindow
<1> QED BY <1>4 DEF Reading

\* What is pinned is what every step reads.
LEMMA PinnedReads ==
  ASSUME HeldInv, ClaimedInv, ReadInv, HoldsInv, EdgeInv, InKernel, Ready, Pinning
  PROVE  \A k \in 0 .. steps - 1 : Reading(k) = PinnedWindow
<1>1. /\ TypeOK /\ pc # "closed" /\ pc # "borrow" /\ Held = buf /\ base \in Nat /\ buf \in Seq(Sample)
      /\ Len(buf) \in Nat /\ Edge = base + Len(buf)
  <2>1. TypeOK /\ pc # "closed" /\ pc # "borrow"
    BY DEF HeldInv, WindowInv, Grounded, InKernel
  <2> QED BY <2>1, StateTyped DEF Held, Edge
<1>2. /\ Going /\ Read \in 0 .. Len(Samples)
      /\ WindowStop \in Int /\ WindowStart \in Int /\ FinalEnd \in Int /\ WindowStop <= FinalEnd
      /\ Beyond(Samples, Read, WindowStop)
  BY <1>1, ReadyCovers
<1>3. nextStep < steps /\ WindowStop = FinalEnd /\ (IsRange => WindowStart < WindowStop)
  BY <1>1, <1>2, GoingTyped DEF Going
<1>4. \A i \in 1 .. Len(buf) : WindowStart < buf[i].t /\ buf[i].t <= WindowStop
  <2> TAKE i \in 1 .. Len(buf)
  <2> DEFINE n == base + (i - 1)
  <2>1. n \in base .. Edge - 1 /\ n - base + 1 = i
    BY <1>1
  <2> HIDE DEF n
  <2>2. Nth(n).t <= FinalEnd /\ WindowStart < Nth(n).t
    BY <1>2, <2>1 DEF EdgeInv
  <2>3. Nth(n) = buf[i]
    BY <1>1, <2>1 DEF Nth
  <2> QED BY <1>3, <2>2, <2>3
<1>5. CASE ~IsRange
  <2> DEFINE m == Len(buf)
  <2>1. Passed(Held, m, WindowStop)
    BY <1>1, <1>4 DEF Passed
  <2> HIDE DEF m
  <2>2. Reading(nextStep)
        = IF m # 0 /\ WindowStart < Held[m].t /\ Held[m].v # Stale THEN << Held[m] >> ELSE <<>>
    BY <1>1, <1>5, <2>1, SelectorReads
  <2>3. PinnedWindow = IF buf # <<>> /\ Last(buf).v # Stale THEN << Last(buf) >> ELSE <<>>
    BY <1>5 DEF PinnedWindow
  <2>4. buf # <<>> <=> m # 0
    BY <1>1 DEF m
  <2>5. m # 0 => WindowStart < buf[m].t /\ Last(buf) = buf[m]
    BY <1>1, <1>4 DEF m, Last
  <2>6. Reading(nextStep) = PinnedWindow
    BY <1>1, <2>2, <2>3, <2>4, <2>5
  <2> QED BY <1>1, <1>3, <2>6, OneWindow
<1>6. CASE IsRange
  <2> DEFINE a == Through(buf, 0, WindowStart)
             b == Through(buf, 0, WindowStop)
  <2>1. PICK f : Holds(Samples, Held, f, Read, TRUE, WindowStart, WindowStop, FinalEnd)
    BY <1>2, <1>6 DEF HoldsInv, Holding
  <2>2. Samples \in Seq(Sample) /\ Ascends(Samples)
    BY <1>1, SamplesTyped
  <2>3. InTimeOrder(buf)
    <3>1. Picked(Samples, buf, f)
      BY <1>1, <2>1 DEF Holds
    <3> QED BY <1>1, <2>2, <3>1, HeldAscends
  <2>4. a \in 0 .. Len(buf) /\ b \in 0 .. Len(buf)
    BY <1>1, ThroughIn
  <2>5. 0 \in 0 .. Len(buf) /\ 0 + 1 = 1
    BY <1>1
  <2>6. \A k \in 1 .. Len(buf) : buf[k].t <= WindowStart <=> k <= a
    BY <1>1, <1>2, <2>3, <2>5, ThroughParts
  <2>7. \A k \in 1 .. Len(buf) : buf[k].t <= WindowStop <=> k <= b
    BY <1>1, <1>2, <2>3, <2>5, ThroughParts
  <2> HIDE DEF a, b
  <2>8. \A k \in 1 .. Len(buf) : buf[k].t \in Int
    <3>1. \A k \in 1 .. Len(buf) : buf[k] \in Sample
      BY <1>1
    <3> QED BY <3>1 DEF Sample
  <2>9. a <= b
    <3> SUFFICES ASSUME ~(a <= b) PROVE FALSE
      OBVIOUS
    <3>1. a \in 1 .. Len(buf)
      BY <1>1, <2>4
    <3>2. buf[a].t <= WindowStart /\ ~(buf[a].t <= WindowStop)
      BY <2>4, <2>6, <2>7, <3>1
    <3> QED BY <1>2, <1>3, <1>6, <2>8, <3>1, <3>2
  <2>10. Between(buf, WindowStart, WindowStop, a, b)
    <3>1. b \in a .. Len(buf)
      BY <1>1, <2>4, <2>9
    <3>2. \A i \in 1 .. Len(buf) : (WindowStart < buf[i].t /\ buf[i].t <= WindowStop) <=> (a < i /\ i <= b)
      <4> TAKE i \in 1 .. Len(buf)
      <4>1. (buf[i].t <= WindowStart <=> i <= a) /\ (buf[i].t <= WindowStop <=> i <= b) /\ buf[i].t \in Int
        BY <2>6, <2>7, <2>8
      <4>2. a \in Int /\ b \in Int /\ i \in Int
        BY <2>4
      <4> QED BY <1>2, <4>1, <4>2
    <3> QED BY <2>4, <3>1, <3>2 DEF Between
  <2>11. NoneStale(Held)
    BY <1>6, WindowInHand
  <2>12. IsLive(Held, a, b, Samples, WindowStart, WindowStop)
    BY <1>1, <1>2, <2>1, <2>2, <2>10, <2>11, WindowIsLive
  <2>13. PinnedWindow = SubSeq(buf, a + 1, b)
    BY <1>6 DEF PinnedWindow, a, b
  <2>14. Reading(nextStep) = Live(At(Samples, Inside(Samples, WindowStart, WindowStop)))
    BY <1>6, WindowOfStep DEF Reading
  <2>15. Reading(nextStep) = PinnedWindow
    BY <1>1, <2>12, <2>13, <2>14 DEF IsLive
  <2> QED BY <1>1, <1>3, <2>15, OneWindow
<1> QED BY <1>5, <1>6

-----------------------------------------------------------------------------
(***************************************************************************)
(* What has come out.                                                      *)
(***************************************************************************)
\* The first m of some answers, at most one a step.
First(A, m) == FlattenSeq([k \in 1 .. m |-> A[k]])

\* One more step, one more answer, or none.
LEMMA FirstGrows ==
  ASSUME NEW X, NEW n \in Nat, NEW A, A \in [1 .. n -> Seq(X)]
  PROVE  /\ First(A, 0) = <<>>
         /\ \A m \in 0 .. n : First(A, m) \in Seq(X)
         /\ \A m \in 0 .. n - 1 : First(A, m + 1) = First(A, m) \o A[m + 1]
<1> DEFINE P(m) == [k \in 1 .. m |-> A[k]]
           Z == Seq(X)
<1>1. \A m \in 0 .. n : P(m) \in Seq(Z) /\ Len(P(m)) = m
  <2> TAKE m \in 0 .. n
  <2>1. m \in Nat /\ \A k \in 1 .. m : k \in 1 .. n /\ A[k] \in Z
    OBVIOUS
  <2> HIDE DEF Z
  <2> QED BY <2>1
<1>2. \A m \in 0 .. n - 1 : P(m + 1) = Append(P(m), A[m + 1]) /\ A[m + 1] \in Z
  <2> TAKE m \in 0 .. n - 1
  <2>1. m \in Nat /\ m \in 0 .. n /\ m + 1 \in 0 .. n /\ m + 1 \in 1 .. n /\ 1 .. m + 1 = (1 .. m) \cup {m + 1}
    OBVIOUS
  <2>2. P(m) \in Seq(Z) /\ Len(P(m)) = m /\ P(m + 1) \in Seq(Z) /\ Len(P(m + 1)) = m + 1
    BY <1>1, <2>1
  <2>3. A[m + 1] \in Z
    BY <2>1
  <2> HIDE DEF Z
  <2>4. \A k \in 1 .. m + 1 : P(m + 1)[k] = Append(P(m), A[m + 1])[k]
    <3> TAKE k \in 1 .. m + 1
    <3>1. P(m + 1)[k] = A[k]
      BY <2>1
    <3>2. k \in 1 .. m => P(m)[k] = A[k]
      OBVIOUS
    <3>3. k \in 1 .. m \/ k = m + 1
      BY <2>1
    <3> HIDE DEF P
    <3> QED BY <2>1, <2>2, <2>3, <3>1, <3>2, <3>3
  <2> HIDE DEF P
  <2>5. Append(P(m), A[m + 1]) \in Seq(Z) /\ Len(Append(P(m), A[m + 1])) = m + 1
    BY <2>1, <2>2, <2>3
  <2> QED BY <2>2, <2>3, <2>4, <2>5
<1>3. First(A, 0) = <<>>
  <2>1. P(0) = <<>>
    OBVIOUS
  <2> QED BY <2>1, FlattenNone DEF First
<1>4. \A m \in 0 .. n : First(A, m) \in Seq(X)
  BY <1>1, FlattenType DEF First
<1>5. \A m \in 0 .. n - 1 : First(A, m + 1) = First(A, m) \o A[m + 1]
  <2> TAKE m \in 0 .. n - 1
  <2>1. m \in 0 .. n
    OBVIOUS
  <2>2. P(m) \in Seq(Z) /\ P(m + 1) = Append(P(m), A[m + 1]) /\ A[m + 1] \in Z
    BY <1>1, <1>2, <2>1
  <2>3. First(A, m) = FlattenSeq(P(m)) /\ First(A, m + 1) = FlattenSeq(P(m + 1))
    BY DEF First
  <2> HIDE DEF P
  <2> QED BY <2>2, <2>3, FlattenAppend
<1> QED BY <1>3, <1>4, <1>5

\* The first m are the first of n, and all of them where the others are none.
Opens(A, m, n) ==
  /\ Len(First(A, m)) <= Len(First(A, n))
  /\ \A i \in 1 .. Len(First(A, m)) : First(A, n)[i] = First(A, m)[i]
  /\ (\A k \in m + 1 .. n : A[k] = <<>>) => First(A, n) = First(A, m)

\* What comes out first stays first.
LEMMA FirstStays ==
  ASSUME NEW X, NEW n \in Nat, NEW A, A \in [1 .. n -> Seq(X)], NEW m, m \in 0 .. n
  PROVE  Opens(A, m, n)
<1> DEFINE Keeps(s, r) == Len(s) <= Len(r) /\ \A i \in 1 .. Len(s) : r[i] = s[i]
           S == {j \in 0 .. n - m : /\ Keeps(First(A, m), First(A, m + j))
                                    /\ (\A k \in m + 1 .. n : A[k] = <<>>) => First(A, m + j) = First(A, m)}
<1>1. m \in Nat /\ n - m \in Nat /\ m + 0 = m /\ m + (n - m) = n /\ m \in 0 .. n
  OBVIOUS
<1>2. \A j \in 0 .. n : First(A, j) \in Seq(X) /\ Len(First(A, j)) \in Nat
  BY FirstGrows
<1>3. 0 \in S
  <2>1. 0 \in 0 .. n - m
    BY <1>1
  <2>2. Keeps(First(A, m), First(A, m))
    BY <1>1, <1>2
  <2> HIDE DEF Keeps
  <2> QED BY <1>1, <2>1, <2>2
<1>4. ASSUME NEW j \in 0 .. n - m - 1, j \in S PROVE j + 1 \in S
  <2> DEFINE i == m + j
             s == First(A, m)
             r == First(A, i)
             t == A[i + 1]
             more == First(A, m + (j + 1))
  <2>1. i \in 0 .. n - 1 /\ i \in 0 .. n /\ i + 1 \in 0 .. n /\ i + 1 \in m + 1 .. n /\ i + 1 \in 1 .. n
        /\ m + (j + 1) = i + 1 /\ j + 1 \in 0 .. n - m
    BY <1>1
  <2>2. /\ s \in Seq(X) /\ r \in Seq(X) /\ t \in Seq(X) /\ more = r \o t
    <3>1. First(A, i + 1) = First(A, i) \o A[i + 1]
      BY <2>1, FirstGrows
    <3>2. A[i + 1] \in Seq(X)
      BY <2>1
    <3> QED BY <1>1, <1>2, <2>1, <3>1, <3>2
  <2>3. Keeps(s, r) /\ ((\A k \in m + 1 .. n : A[k] = <<>>) => r = s)
    BY <1>4
  <2> HIDE DEF s, r, t, more, i
  <2>4. Keeps(s, more)
    BY <2>2, <2>3
  <2>5. (\A k \in m + 1 .. n : A[k] = <<>>) => more = s
    <3> SUFFICES ASSUME \A k \in m + 1 .. n : A[k] = <<>> PROVE more = s
      OBVIOUS
    <3>1. t = <<>> /\ r = s
      BY <2>1, <2>3 DEF t
    <3> QED BY <2>2, <3>1
  <2> HIDE DEF Keeps
  <2> QED BY <2>1, <2>4, <2>5 DEF s, more
<1>5. n - m \in S
  <2>1. n - m \in 0 .. n - m
    BY <1>1
  <2> HIDE DEF S
  <2> QED BY <1>1, <1>3, <1>4, <2>1, Induct
<1> QED BY <1>1, <1>2, <1>5 DEF Opens

\* The answers of the first m steps, and everything a step may answer.
Stepwise == [k \in 1 .. steps |-> AnswerAt(kernel, grid, Samples, k - 1)]

Outs(m) == First(Stepwise, m)

Told == {Answer(k, Reading(k), Picks(kernel, Reading(k))) : k \in 0 .. steps - 1}

\* They come one step after another, and all of them are the answers.
LEMMA OutsGrow ==
  ASSUME steps \in Nat
  PROVE  /\ Outs(0) = <<>>
         /\ \A m \in 0 .. steps : Outs(m) \in Seq(Told) /\ Len(Outs(m)) \in Nat
         /\ \A m \in 0 .. steps - 1 :
              /\ AnswerAt(kernel, grid, Samples, m) = Answering(m, Reading(m))
              /\ Reading(m) # <<>> => Answer(m, Reading(m), Picks(kernel, Reading(m))) \in Told
              /\ Outs(m + 1) = Outs(m) \o Answering(m, Reading(m))
         /\ Answers(kernel, grid, rows) = Outs(steps)
<1>1. \A m \in 0 .. steps - 1 :
        /\ AnswerAt(kernel, grid, Samples, m) = Answering(m, Reading(m))
        /\ Answer(m, Reading(m), Picks(kernel, Reading(m))) \in Told
        /\ Answering(m, Reading(m)) \in Seq(Told)
  <2> TAKE m \in 0 .. steps - 1
  <2> DEFINE x == Answer(m, Reading(m), Picks(kernel, Reading(m)))
  <2>1. x \in Told
    BY DEF Told
  <2>2. Answering(m, Reading(m)) = IF Reading(m) = <<>> THEN <<>> ELSE << x >>
    BY DEF Answering
  <2> DEFINE Z == Told
  <2> HIDE DEF x, Z
  <2>3. x \in Z
    BY <2>1 DEF Z
  <2>4. << x >> \in Seq(Z) /\ <<>> \in Seq(Z)
    BY <2>3
  <2>5. Answering(m, Reading(m)) \in Seq(Z)
    BY <2>2, <2>4
  <2> QED BY <2>1, <2>5, AnswersReading DEF x, Z
<1> DEFINE A == Stepwise
<1>2. \A m \in 0 .. steps - 1 : m + 1 \in 1 .. steps /\ A[m + 1] = Answering(m, Reading(m))
  <2> TAKE m \in 0 .. steps - 1
  <2>1. m + 1 \in 1 .. steps /\ (m + 1) - 1 = m
    OBVIOUS
  <2>2. A[m + 1] = AnswerAt(kernel, grid, Samples, (m + 1) - 1)
    BY <2>1 DEF Stepwise
  <2> QED BY <1>1, <2>1, <2>2
<1>3. A \in [1 .. steps -> Seq(Told)]
  <2> DEFINE Z == Seq(Told)
  <2>1. \A k \in 1 .. steps : A[k] \in Z
    <3> TAKE k \in 1 .. steps
    <3>1. k - 1 \in 0 .. steps - 1 /\ (k - 1) + 1 = k
      OBVIOUS
    <3>2. A[(k - 1) + 1] \in Z
      BY <1>1, <1>2, <3>1
    <3> QED BY <3>1, <3>2
  <2>2. A = [k \in 1 .. steps |-> A[k]]
    BY DEF Stepwise
  <2> HIDE DEF A, Z
  <2>3. A \in [1 .. steps -> Z]
    BY <2>1, <2>2
  <2> QED BY <2>3 DEF Z
<1>4. Answers(kernel, grid, rows) = Outs(steps)
  <2>1. StepCount(grid) = steps
    BY DEF steps
  <2>2. Answers(kernel, grid, rows) = FlattenSeq(A)
    BY <2>1 DEF Answers, Stepwise, Samples
  <2>3. [k \in 1 .. steps |-> A[k]] = A
    BY DEF Stepwise
  <2> HIDE DEF A
  <2>4. First(A, steps) = FlattenSeq(A)
    BY <2>3 DEF First
  <2> QED BY <2>2, <2>4 DEF Outs, A
<1> HIDE DEF A
<1>5. /\ First(A, 0) = <<>>
      /\ \A m \in 0 .. steps : First(A, m) \in Seq(Told)
      /\ \A m \in 0 .. steps - 1 : First(A, m + 1) = First(A, m) \o A[m + 1]
  BY <1>3, FirstGrows
<1>6. \A m : Outs(m) = First(A, m)
  BY DEF Outs, A
<1>7. \A m \in 0 .. steps : Outs(m) \in Seq(Told) /\ Len(Outs(m)) \in Nat
  <2> TAKE m \in 0 .. steps
  <2>1. Outs(m) \in Seq(Told)
    BY <1>5, <1>6
  <2> QED BY <2>1
<1>8. \A m \in 0 .. steps - 1 : Outs(m + 1) = Outs(m) \o Answering(m, Reading(m))
  BY <1>2, <1>5, <1>6
<1> QED BY <1>1, <1>4, <1>5, <1>6, <1>7, <1>8

\* What has come out stays, and where no step reads any more it is everything.
LEMMA OutsStay ==
  ASSUME steps \in Nat, NEW m, m \in 0 .. steps
  PROVE  /\ Len(Outs(m)) <= Len(Outs(steps))
         /\ \A i \in 1 .. Len(Outs(m)) : Outs(steps)[i] = Outs(m)[i]
         /\ (\A k \in m .. steps - 1 : Reading(k) = <<>>) => Outs(steps) = Outs(m)
<1> DEFINE A == Stepwise
<1>1. \A k \in 1 .. steps : A[k] \in Seq(Told) /\ A[k] = Answering(k - 1, Reading(k - 1))
  <2> TAKE k \in 1 .. steps
  <2>1. k - 1 \in 0 .. steps - 1
    OBVIOUS
  <2> DEFINE x == Answer(k - 1, Reading(k - 1), Picks(kernel, Reading(k - 1)))
             Z == Told
  <2>2. A[k] = Answering(k - 1, Reading(k - 1))
    BY <2>1, OutsGrow DEF Stepwise
  <2>3. A[k] = IF Reading(k - 1) = <<>> THEN <<>> ELSE << x >>
    BY <2>2 DEF Answering
  <2>4. x \in Z
    BY <2>1 DEF Told
  <2> HIDE DEF x, Z
  <2>5. << x >> \in Seq(Z) /\ <<>> \in Seq(Z)
    BY <2>4
  <2>6. A[k] \in Seq(Z)
    BY <2>3, <2>5
  <2> QED BY <2>2, <2>6 DEF Z
<1>2. A \in [1 .. steps -> Seq(Told)]
  <2> DEFINE Z == Seq(Told)
  <2>1. A = [k \in 1 .. steps |-> A[k]] /\ \A k \in 1 .. steps : A[k] \in Z
    BY <1>1 DEF Stepwise
  <2> HIDE DEF A, Z
  <2>2. A \in [1 .. steps -> Z]
    BY <2>1
  <2> QED BY <2>2 DEF Z
<1> HIDE DEF A
<1>3. /\ Len(First(A, m)) <= Len(First(A, steps))
      /\ \A i \in 1 .. Len(First(A, m)) : First(A, steps)[i] = First(A, m)[i]
      /\ (\A k \in m + 1 .. steps : A[k] = <<>>) => First(A, steps) = First(A, m)
  <2> DEFINE n == steps
             X == Told
  <2>1. n \in Nat /\ A \in [1 .. n -> Seq(X)] /\ m \in 0 .. n
    BY <1>2
  <2> HIDE DEF n, X
  <2>2. Opens(A, m, n)
    BY <2>1, FirstStays
  <2> QED BY <2>2 DEF n, Opens
<1>4. Outs(m) = First(A, m) /\ Outs(steps) = First(A, steps)
  BY DEF Outs, A
<1>5. ASSUME \A k \in m .. steps - 1 : Reading(k) = <<>> PROVE \A k \in m + 1 .. steps : A[k] = <<>>
  <2> TAKE k \in m + 1 .. steps
  <2>1. k - 1 \in m .. steps - 1 /\ k \in 1 .. steps
    OBVIOUS
  <2>2. Reading(k - 1) = <<>>
    BY <1>5, <2>1
  <2> QED BY <1>1, <2>1, <2>2 DEF Answering
<1> QED BY <1>3, <1>4, <1>5

\* The answer of the step at hand is the next one the abstract fold emits.
LEMMA AnswerComesOut ==
  ASSUME steps \in Nat, nextStep \in 0 .. steps - 1, pc # "closed", pc' = pc,
         out = Outs(nextStep), answers = Outs(steps), answers' = answers,
         out' = out \o Answering(nextStep, Reading(nextStep))
  PROVE  out' = Outs(nextStep + 1) /\ [Fold!Next]_(Fold!view)
<1> DEFINE n == nextStep
           x == Answer(n, Reading(n), Picks(kernel, Reading(n)))
<1>1. out' = Outs(n + 1) /\ n \in 0 .. steps /\ n + 1 \in 0 .. steps
  <2>1. n \in 0 .. steps - 1 /\ n \in 0 .. steps /\ n + 1 \in 0 .. steps
    OBVIOUS
  <2>2. Outs(n + 1) = Outs(n) \o Answering(n, Reading(n))
    BY <2>1, OutsGrow
  <2> QED BY <2>1, <2>2
<1>2. out \in Seq(Told) /\ Len(out) \in Nat /\ out' \in Seq(Told)
  BY <1>1, OutsGrow
<1>3. (pc = "closed")' = (pc = "closed")
  OBVIOUS
<1>4. CASE Reading(n) = <<>>
  <2>1. Answering(n, Reading(n)) = <<>>
    BY <1>4 DEF Answering
  <2>2. out' = out
    <3> DEFINE Z == Told
               o == out
    <3>1. o \in Seq(Z)
      BY <1>2
    <3> HIDE DEF Z, o
    <3>2. o \o <<>> = o
      BY <3>1
    <3> QED BY <2>1, <3>2 DEF o
  <2> QED BY <1>1, <1>3, <2>2 DEF Fold!view
<1>5. CASE Reading(n) # <<>>
  <2>1. Answering(n, Reading(n)) = << x >> /\ x \in Told
    BY <1>5, OutsGrow DEF Answering
  <2> DEFINE Z == Told
             o == out
             o2 == out'
             a == answers
  <2> HIDE DEF x
  <2>2. o \in Seq(Z) /\ x \in Z /\ o2 = o \o << x >>
    BY <1>2, <2>1
  <2>3. Len(o2) <= Len(a) /\ \A i \in 1 .. Len(o2) : a[i] = o2[i]
    BY <1>1, OutsStay
  <2>4. a \in Seq(Z)
    BY <1>1, OutsGrow
  <2> HIDE DEF Z, o, o2, a
  <2>5. o2 = Append(o, x) /\ Len(o2) = Len(o) + 1 /\ o2[Len(o) + 1] = x /\ Len(o) \in Nat /\ Len(a) \in Nat
    BY <2>2, <2>4
  <2>6. Len(o) < Len(a) /\ a[Len(o) + 1] = x
    <3>1. Len(o) + 1 \in 1 .. Len(o2)
      BY <2>5
    <3> QED BY <2>3, <2>5, <3>1
  <2>7. o2 = Append(o, a[Len(o) + 1])
    BY <2>5, <2>6
  <2>8. Len(out) < Len(answers) /\ out' = Append(out, answers[Len(out) + 1])
    BY <2>6, <2>7 DEF o, o2, a
  <2>9. Fold!Emit
    BY <1>3, <2>8 DEF Fold!Emit
  <2> QED BY <1>1, <2>9 DEF Fold!Next
<1> QED BY <1>4, <1>5

\* A window with nothing in it to read.
LEMMA ReadsNothing ==
  ASSUME TypeOK, NEW k,
         \A n \in 1 .. Len(Samples) :
           End(grid, k) - grid.window < Samples[n].t /\ Samples[n].t <= End(grid, k)
             => IsRange /\ Samples[n].v = Stale
  PROVE  Reading(k) = <<>>
<1> DEFINE s == Samples
           d == End(grid, k) - grid.window
           e == End(grid, k)
           ks == {n \in Inside(s, d, e) : s[n].v # Stale}
<1>1. s \in Seq(Sample) /\ Len(s) \in Nat /\ DOMAIN s = 1 .. Len(s)
  <2>1. s \in Seq(Sample)
    BY SamplesTyped
  <2> QED BY <2>1
<1>2. StepWindow(grid, s, k) = At(s, Inside(s, d, e)) /\ Inside(s, d, e) \in SUBSET DOMAIN s
  BY DEF StepWindow, Inside
<1>3. \A n \in Inside(s, d, e) : IsRange /\ s[n].v = Stale
  BY <1>1 DEF Inside
<1>4. CASE IsRange
  <2>1. ks = {}
    BY <1>3
  <2>2. ks \in SUBSET DOMAIN s
    BY <1>2
  <2>3. Live(At(s, Inside(s, d, e))) = At(s, ks)
    BY <1>1, <1>2, LiveAt
  <2> HIDE DEF ks, s
  <2>4. Live(At(s, Inside(s, d, e))) = <<>>
    BY <2>1, <2>3, AtNone
  <2> QED BY <1>2, <1>4, <2>4 DEF Reading, s
<1>5. CASE ~IsRange
  <2>1. Inside(s, d, e) = {}
    BY <1>3, <1>5
  <2> HIDE DEF s
  <2>2. StepWindow(grid, s, k) = <<>>
    BY <1>2, <2>1, AtNone
  <2> QED BY <1>5, <2>2 DEF Reading, s
<1> QED BY <1>4, <1>5

\* A window without width holds nothing.
LEMMA NarrowReadsNothing ==
  ASSUME TypeOK, NoWindow
  PROVE  \A k \in 0 .. steps - 1 : Reading(k) = <<>>
<1> TAKE k \in 0 .. steps - 1
<1>1. grid \in Grids /\ k \in Int
  BY InputTyped DEF TypeOK
<1>2. End(grid, k) \in Int /\ grid.window \in Int /\ grid.window <= 0
  BY <1>1, EndTyped DEF NoWindow
<1>3. \A n \in 1 .. Len(Samples) : ~(End(grid, k) - grid.window < Samples[n].t /\ Samples[n].t <= End(grid, k))
  <2> TAKE n \in 1 .. Len(Samples)
  <2>1. Samples[n].t \in Int
    BY SamplesTyped
  <2> QED BY <1>2, <2>1
<1> QED BY <1>3, ReadsNothing

\* With everything read and nothing held, no step that is left reads anything.
LEMMA NothingIsLeft ==
  ASSUME ClaimedInv, ReadInv, HoldsInv, pc = "between", row > Len(rows), buf = <<>>
  PROVE  \A k \in nextStep .. steps - 1 : Reading(k) = <<>>
<1>1. TypeOK /\ pc # "closed" /\ Held = <<>> /\ nextStep \in Nat /\ steps \in Nat
  <2>1. TypeOK
    BY DEF ClaimedInv, WindowInv
  <2> QED BY <2>1, StateTyped, InputTyped DEF Held, TypeOK
<1>2. CASE NoWindow
  <2>1. \A k \in nextStep .. steps - 1 : k \in 0 .. steps - 1
    BY <1>1
  <2> QED BY <1>1, <1>2, <2>1, NarrowReadsNothing
<1>3. CASE ~NoWindow
  <2> TAKE k \in nextStep .. steps - 1
  <2>1. nextStep < steps
    BY <1>1
  <2>2. Going
    BY <1>1, <1>3, <2>1 DEF Going
  <2>3. Read = Len(Samples)
    BY <1>1, UnreadIsLater DEF InHand
  <2>4. PICK f : Holds(Samples, <<>>, f, Read, IsRange, WindowStart, WindowStop, FinalEnd)
    BY <1>1, <2>2 DEF HoldsInv, Holding
  <2>5. \A n \in 1 .. Len(Samples) : ~Readable(Samples[n], IsRange, WindowStart, FinalEnd)
    BY <2>3, <2>4 DEF Holds, Stands
  <2>6. /\ End(grid, k) \in Int /\ WindowStop \in Int /\ WindowStart \in Int /\ FinalEnd \in Int /\ grid.window \in Int
        /\ WindowStart = WindowStop - grid.window
        /\ WindowStop <= End(grid, k) /\ End(grid, k) <= FinalEnd
    BY <1>1, <2>1, GoingTyped
  <2>7. ASSUME NEW n \in 1 .. Len(Samples),
               End(grid, k) - grid.window < Samples[n].t, Samples[n].t <= End(grid, k)
        PROVE  IsRange /\ Samples[n].v = Stale
    <3>1. Samples[n].t \in Int
      BY <1>1, SamplesTyped
    <3>2. WindowStart < Samples[n].t /\ Samples[n].t <= FinalEnd
      BY <2>6, <2>7, <3>1
    <3> QED BY <2>5, <3>2 DEF Readable
  <2> QED BY <1>1, <2>7, ReadsNothing
<1> QED BY <1>2, <1>3

\* Once the last steps are ready too, and none is, none is left.
LEMMA ClosesWithAll ==
  ASSUME ClaimedInv, pc = "close", ~Ready
  PROVE  \A k \in nextStep .. steps - 1 : Reading(k) = <<>>
<1>1. TypeOK /\ lastT = IntMax /\ nextStep \in Nat /\ steps \in Nat
  <2>1. TypeOK
    BY DEF ClaimedInv, WindowInv
  <2> QED BY <2>1, StateTyped, InputTyped DEF ClaimedInv, ClaimInv
<1>2. lastT # NoTime
  BY <1>1, BufferAssumption, IntAssumption
<1>3. CASE NoWindow
  <2>1. \A k \in nextStep .. steps - 1 : k \in 0 .. steps - 1
    BY <1>1
  <2> QED BY <1>1, <1>3, <2>1, NarrowReadsNothing
<1>4. CASE ~NoWindow
  <2>1. ~(nextStep < steps)
    <3> SUFFICES ASSUME nextStep < steps PROVE FALSE
      OBVIOUS
    <3>1. nextStep \in nextStep .. steps - 1
      BY <1>1
    <3>2. End(grid, nextStep) <= IntMax
      BY <1>1, <3>1, GoingTyped
    <3> QED BY <1>1, <1>2, <1>4, <3>2 DEF Ready, ReadyAt
  <2>2. nextStep .. steps - 1 = {}
    BY <1>1, <2>1
  <2> QED BY <2>2
<1> QED BY <1>3, <1>4

-----------------------------------------------------------------------------
(***************************************************************************)
(* The fold is the abstract one.                                           *)
(***************************************************************************)
\* A pinned value is what every step reads.
PinnedInv ==
  pc # "closed" /\ pinned # Unpinned => Pinning /\ \A k \in 0 .. steps - 1 : Reading(k) = pinned

\* The answers of the steps before this one are out, and no other.
OutInv == pc # "closed" => out = Outs(nextStep)

FoldInv ==
  /\ HeldInv /\ ClaimInv
  /\ ReadInv /\ HoldsInv /\ EdgeInv /\ SlackInv
  /\ PinnedInv /\ OutInv
  /\ answers = Answers(kernel, grid, rows)

\* With the input stay the readings and the answers.
LEMMA SameReading ==
  ASSUME input' = input
  PROVE  /\ \A k : Reading(k)' = Reading(k)
         /\ \A m : Outs(m)' = Outs(m)
         /\ Answers(kernel, grid, rows)' = Answers(kernel, grid, rows)
<1>1. /\ Samples' = Samples /\ rows' = rows /\ grid' = grid /\ kernel' = kernel /\ steps' = steps
      /\ IsRange' = IsRange
  BY SameInput
<1>2. \A k : Reading(k)' = Reading(k)
  BY <1>1 DEF Reading
<1>3. Stepwise' = Stepwise
  BY <1>1 DEF Stepwise
<1>4. \A m : Outs(m)' = Outs(m)
  BY <1>3 DEF Outs
<1> QED BY <1>1, <1>2, <1>4

\* What the invariant says of the types.
LEMMA FoldTyped ==
  ASSUME FoldInv
  PROVE  /\ HeldInv /\ ClaimedInv /\ WindowInv /\ TypeOK /\ ReadInv /\ HoldsInv /\ EdgeInv /\ SlackInv
         /\ PinnedInv /\ OutInv /\ steps \in Nat /\ nextStep \in 0 .. steps /\ nextStep \in Nat
         /\ answers = Outs(steps)
<1>1. HeldInv /\ ClaimedInv /\ WindowInv /\ TypeOK
  BY DEF FoldInv, HeldInv, ClaimedInv, WindowInv
<1>2. steps \in Nat /\ nextStep \in 0 .. steps /\ nextStep \in Nat
  BY <1>1, StateTyped, InputTyped DEF TypeOK
<1>3. answers = Outs(steps)
  BY <1>2, OutsGrow DEF FoldInv
<1> QED BY <1>1, <1>2, <1>3 DEF FoldInv

\* What is pinned stays what every step reads.
LEMMA PinnedNext ==
  ASSUME FoldInv, [Next]_vars
  PROVE  PinnedInv'
<1>1. SUFFICES ASSUME pc' # "closed", pinned' # Unpinned
               PROVE  Pinning' /\ \A k \in 0 .. steps' - 1 : Reading(k)' = pinned'
  BY DEF PinnedInv
<1>2. ASSUME input' = input, pinned' = pinned, pc # "closed"
      PROVE  Pinning' /\ \A k \in 0 .. steps' - 1 : Reading(k)' = pinned'
  <2>1. Pinning /\ \A k \in 0 .. steps - 1 : Reading(k) = pinned
    BY <1>1, <1>2, FoldTyped DEF PinnedInv
  <2>2. Pinning' = Pinning /\ steps' = steps
    BY <1>2, SameInput
  <2>3. \A k : Reading(k)' = Reading(k)
    BY <1>2, SameReading
  <2> QED BY <1>2, <2>1, <2>2, <2>3
<1>3. CASE PinValue
  <2>1. input' = input /\ pinned' = PinnedWindow /\ InKernel /\ Ready /\ Pinning
    BY <1>3 DEF PinValue, Working, series
  <2>2. \A k \in 0 .. steps - 1 : Reading(k) = PinnedWindow
    BY <2>1, FoldTyped, PinnedReads
  <2>3. Pinning' = Pinning /\ steps' = steps
    BY <2>1, SameInput
  <2>4. \A k : Reading(k)' = Reading(k)
    BY <2>1, SameReading
  <2> QED BY <2>1, <2>2, <2>3, <2>4
<1>4. CASE Poll \/ Push \/ EnterKernel \/ EndRow \/ Close \/ UNCHANGED vars
  BY <1>1, <1>2, <1>4, FoldTyped, QuietHeld
<1>5. CASE DropRow \/ SkipTail \/ IngestSlice
  <2>1. input' = input /\ pinned' = pinned /\ pc # "closed"
    BY <1>5 DEF DropRow, SkipTail, IngestSlice, Ingesting, AtRow, series
  <2> QED BY <1>2, <2>1
<1>6. CASE AdvanceLeft \/ DropBeaten \/ AdvanceRight \/ Evaluate \/ RepeatPinned
  <2>1. input' = input /\ pinned' = pinned /\ pc # "closed"
    BY <1>6 DEF AdvanceLeft, DropBeaten, AdvanceRight, Evaluate, RepeatPinned, Walking, Working, InKernel, series
  <2> QED BY <1>2, <2>1
<1>7. CASE Return
  <2>1. ~Reset
    BY <1>1 DEF Reset
  <2>2. input' = input /\ pinned' = pinned /\ pc # "closed"
    BY <1>7, <2>1 DEF Return, ReturnToRow, ReturnSlice, ReturnToClose, series
  <2> QED BY <1>2, <2>2
<1> QED BY <1>3, <1>4, <1>5, <1>6, <1>7 DEF Next, Row, Kernel

\* Nothing comes out.
LEMMA NothingComesOut ==
  ASSUME OutInv, input' = input, answers' = answers, out' = out, nextStep' = nextStep,
         pc' = "closed" <=> pc = "closed"
  PROVE  OutInv' /\ [Fold!Next]_(Fold!view)
<1>1. \A m : Outs(m)' = Outs(m)
  BY SameReading
<1>2. Outs(nextStep)' = Outs(nextStep)
  BY <1>1 DEF Outs, Stepwise
<1>3. OutInv'
  BY <1>2 DEF OutInv
<1>4. (pc = "closed")' = (pc = "closed")
  OBVIOUS
<1> QED BY <1>3, <1>4 DEF Fold!view

\* It closes with everything out.
LEMMA EverythingIsOut ==
  ASSUME FoldInv, pc # "closed", pc' = "closed", answers' = answers, out' = out,
         \A k \in nextStep .. steps - 1 : Reading(k) = <<>>
  PROVE  OutInv' /\ [Fold!Next]_(Fold!view)
<1>1. steps \in Nat /\ nextStep \in 0 .. steps /\ answers = Outs(steps) /\ out = Outs(nextStep)
  BY FoldTyped DEF OutInv
<1>2. Outs(steps) = Outs(nextStep)
  BY <1>1, OutsStay
<1>3. Fold!Finish
  BY <1>1, <1>2 DEF Fold!Finish
<1> QED BY <1>3 DEF OutInv, Fold!Next

\* A step answered in turn is the abstract fold's.
LEMMA StepAnswered ==
  ASSUME FoldInv, Kernel, answers' = answers, nextStep' = nextStep + 1,
         out' = out \o Answering(nextStep, Reading(nextStep))
  PROVE  OutInv' /\ [Fold!Next]_(Fold!view)
<1>1. input' = input /\ pc' = pc /\ pc # "closed" /\ nextStep < steps
  BY KernelHeld
<1>2. steps \in Nat /\ nextStep \in 0 .. steps - 1 /\ answers = Outs(steps) /\ out = Outs(nextStep)
  BY <1>1, FoldTyped DEF OutInv
<1>3. out' = Outs(nextStep + 1) /\ [Fold!Next]_(Fold!view)
  BY <1>1, <1>2, AnswerComesOut
<1>4. Stepwise' = Stepwise
  BY <1>1, SameInput DEF Stepwise
<1>5. OutInv'
  BY <1>3, <1>4 DEF OutInv, Outs
<1> QED BY <1>3, <1>5

\* Every turn is a step of the abstract fold, or none.
LEMMA FoldStep ==
  ASSUME FoldInv, [Next]_vars
  PROVE  OutInv' /\ [Fold!Next]_(Fold!view)
<1>1. /\ HeldInv /\ ClaimedInv /\ WindowInv /\ TypeOK /\ ReadInv /\ HoldsInv /\ EdgeInv /\ SlackInv
      /\ PinnedInv /\ OutInv /\ steps \in Nat /\ nextStep \in 0 .. steps /\ nextStep \in Nat
  BY FoldTyped
<1>2. CASE Poll \/ Push \/ EnterKernel \/ EndRow \/ SkipTail \/ IngestSlice \/ UNCHANGED vars
  <2>1. input' = input /\ answers' = answers /\ out' = out /\ nextStep' = nextStep
    BY <1>2 DEF Poll, Push, EnterKernel, EndRow, SkipTail, IngestSlice, series, history, vars
  <2>2. pc' = "closed" <=> pc = "closed"
    BY <1>2 DEF Poll, Push, EnterKernel, EndRow, SkipTail, IngestSlice, AtRow, Ingesting, vars
  <2> QED BY <1>1, <2>1, <2>2, NothingComesOut
<1>3. CASE DropRow
  <2>1. /\ input' = input /\ answers' = answers /\ out' = out /\ nextStep' = steps /\ pc' = "between" /\ pc = "row"
        /\ Finished
    BY <1>3 DEF DropRow, AtRow, series
  <2>2. \A k \in nextStep .. steps - 1 : Reading(k) = <<>>
    <3>1. CASE nextStep >= steps
      <4>1. nextStep .. steps - 1 = {}
        BY <1>1, <3>1
      <4> QED BY <4>1
    <3>2. CASE NoWindow
      <4>1. \A k \in nextStep .. steps - 1 : k \in 0 .. steps - 1
        BY <1>1
      <4> QED BY <1>1, <3>2, <4>1, NarrowReadsNothing
    <3> QED BY <2>1, <3>1, <3>2 DEF Finished
  <2>3. Outs(steps) = Outs(nextStep)
    BY <1>1, <2>2, OutsStay
  <2>4. Stepwise' = Stepwise /\ steps' = steps
    BY <2>1, SameInput DEF Stepwise
  <2>5. out = Outs(steps)
    BY <1>1, <2>1, <2>3 DEF OutInv
  <2>6. OutInv'
    BY <2>1, <2>4, <2>5 DEF OutInv, Outs
  <2>7. (pc = "closed")' = (pc = "closed")
    BY <2>1
  <2> QED BY <2>1, <2>6, <2>7 DEF Fold!view
<1>4. CASE AdvanceLeft \/ DropBeaten \/ AdvanceRight \/ PinValue
  <2>1. input' = input /\ answers' = answers /\ out' = out /\ nextStep' = nextStep /\ pc' = pc
    BY <1>4 DEF AdvanceLeft, DropBeaten, AdvanceRight, PinValue, series
  <2> QED BY <1>1, <2>1, NothingComesOut
<1>5. CASE Evaluate
  <2>1. /\ answers' = answers /\ nextStep' = nextStep + 1 /\ InKernel /\ Ready /\ ~Pinning /\ ~LeavesLeft /\ ~EntersRight
        /\ out' = out \o (IF IsRange THEN RangeValue ELSE SelectorValue)
    BY <1>5 DEF Evaluate, Walking, Working, series
  <2>2. pc # "closed"
    BY <2>1 DEF InKernel
  <2>3. (IF IsRange THEN RangeValue ELSE SelectorValue) = AnswerAt(kernel, grid, Samples, nextStep)
    BY <1>1, <2>1, <2>2, RangeAnswers, SelectorAnswers
  <2>4. out' = out \o Answering(nextStep, Reading(nextStep))
    BY <2>1, <2>3, AnswersReading
  <2> QED BY <1>5, <2>1, <2>4, StepAnswered DEF Kernel
<1>6. CASE RepeatPinned
  <2>1. /\ answers' = answers /\ nextStep' = nextStep + 1 /\ InKernel /\ Ready /\ Pinning /\ pinned # Unpinned
        /\ out' = out \o (IF pinned = <<>> THEN <<>>
                          ELSE << Answer(nextStep, pinned, Picks(kernel, pinned)) >>)
    BY <1>6 DEF RepeatPinned, Working, series
  <2>2. nextStep \in 0 .. steps - 1 /\ pc # "closed"
    BY <1>1, <2>1 DEF Ready, ReadyAt, InKernel
  <2>3. Reading(nextStep) = pinned
    BY <1>1, <2>1, <2>2 DEF PinnedInv
  <2>4. out' = out \o Answering(nextStep, Reading(nextStep))
    BY <2>1, <2>3 DEF Answering
  <2> QED BY <1>6, <2>1, <2>4, StepAnswered DEF Kernel
<1>7. CASE Close
  <2>1. input' = input /\ answers' = answers /\ out' = out /\ pc = "between" /\ row > Len(rows)
    BY <1>7 DEF Close, series
  <2>2. CASE buf # <<>> \/ pinned # Unpinned
    <3>1. nextStep' = nextStep /\ pc' = "close"
      BY <1>7, <2>2 DEF Close
    <3> QED BY <1>1, <2>1, <3>1, NothingComesOut
  <2>3. CASE ~(buf # <<>> \/ pinned # Unpinned)
    <3>1. pc' = "closed"
      BY <1>7, <2>3 DEF Close, Reset
    <3>2. \A k \in nextStep .. steps - 1 : Reading(k) = <<>>
      BY <1>1, <2>1, <2>3, NothingIsLeft
    <3> QED BY <2>1, <3>1, <3>2, EverythingIsOut
  <2> QED BY <2>2, <2>3
<1>8. CASE ReturnToRow \/ ReturnSlice
  <2>1. input' = input /\ answers' = answers /\ out' = out /\ nextStep' = nextStep
    BY <1>8 DEF ReturnToRow, ReturnSlice, series
  <2>2. pc # "closed" /\ pc' # "closed"
    BY <1>8 DEF ReturnToRow, ReturnSlice
  <2> QED BY <1>1, <2>1, <2>2, NothingComesOut
<1>9. CASE ReturnToClose
  <2>1. input' = input /\ answers' = answers /\ out' = out /\ pc = "close"
    BY <1>9 DEF ReturnToClose, series
  <2>2. CASE Ready
    <3>1. nextStep' = nextStep /\ pc' = "suspended"
      BY <1>9, <2>2 DEF ReturnToClose
    <3> QED BY <1>1, <2>1, <3>1, NothingComesOut
  <2>3. CASE ~Ready
    <3>1. pc' = "closed"
      BY <1>9, <2>3 DEF ReturnToClose, Reset
    <3>2. \A k \in nextStep .. steps - 1 : Reading(k) = <<>>
      BY <1>1, <2>1, <2>3, ClosesWithAll
    <3> QED BY <2>1, <3>1, <3>2, EverythingIsOut
  <2> QED BY <2>2, <2>3
<1> QED BY <1>2, <1>3, <1>4, <1>5, <1>6, <1>7, <1>8, <1>9 DEF Next, Row, Kernel, Return

\* The answers stay what every chunk at hand gives.
LEMMA FoldNext ==
  ASSUME FoldInv, [Next]_vars
  PROVE  FoldInv' /\ [Fold!Next]_(Fold!view)
<1>1. /\ HeldInv /\ ClaimInv /\ ClaimedInv /\ ReadInv /\ HoldsInv /\ EdgeInv /\ SlackInv
      /\ answers = Answers(kernel, grid, rows)
  BY FoldTyped DEF FoldInv
<1>2. HeldInv' /\ ClaimInv'
  BY <1>1, HeldNext, ClaimedNext DEF ClaimedInv
<1>3. ReadInv' /\ HoldsInv' /\ EdgeInv' /\ SlackInv'
  BY <1>1, ReadNext, HoldsNext, EdgeNext, SlackNext
<1>4. PinnedInv' /\ OutInv' /\ [Fold!Next]_(Fold!view)
  BY PinnedNext, FoldStep
<1>5. input' = input /\ answers' = answers
  BY DEF Next, Poll, Push, Row, EnterKernel, EndRow, DropRow, SkipTail, IngestSlice, Kernel, AdvanceLeft,
         DropBeaten, AdvanceRight, Evaluate, PinValue, RepeatPinned, Return, ReturnToRow, ReturnSlice,
         ReturnToClose, Close, series, vars
<1>6. answers' = Answers(kernel, grid, rows)'
  BY <1>1, <1>5, SameReading
<1> QED BY <1>2, <1>3, <1>4, <1>6 DEF FoldInv

\* Nothing is out and nothing pinned to begin with.
LEMMA FoldBegins ==
  ASSUME Init
  PROVE  FoldInv /\ Fold!Init
<1>1. HeldInv /\ ClaimInv /\ ClaimedInv /\ ReadInv /\ HoldsInv /\ EdgeInv /\ SlackInv
  BY HeldInit, ClaimedInit, BeginsEmpty DEF ClaimedInv
<1>2. pinned = Unpinned /\ out = <<>> /\ nextStep = 0 /\ pc = "between" /\ answers = Answers(kernel, grid, rows)
  BY DEF Init
<1>3. steps \in Nat
  BY <1>1, InputTyped DEF HeldInv, WindowInv, TypeOK
<1>4. PinnedInv
  BY <1>2 DEF PinnedInv
<1>5. OutInv
  BY <1>2, <1>3, OutsGrow DEF OutInv
<1> QED BY <1>1, <1>2, <1>4, <1>5 DEF FoldInv, Fold!Init

\* The two modules answer alike.
LEMMA SameAnswer ==
  \A g, samples : Candidate!AnswerAt("selector", g, samples, 0) = AnswerAt("selector", g, samples, 0)
<1> TAKE g, samples
<1>1. Candidate!StepWindow(g, samples, 0) = StepWindow(g, samples, 0)
  BY SameAnswers
<1>2. \A s : Candidate!Last(s) = Last(s)
  BY Zenon DEF Candidate!Last, Last
<1>3. \A s : Candidate!Answer(0, s, Candidate!Picks("selector", s)) = Answer(0, s, Picks("selector", s))
  <2> TAKE s
  <2>1. Candidate!Picks("selector", s) = <<>> /\ Picks("selector", s) = <<>>
    BY DEF Candidate!Picks, Picks
  <2> QED BY <2>1 DEF Candidate!Answer, Answer
<1> DEFINE w == StepWindow(g, samples, 0)
           r == IF w = <<>> \/ Last(w).v = Stale THEN <<>> ELSE << Last(w) >>
<1>4. AnswerAt("selector", g, samples, 0)
      = IF r = <<>> THEN <<>> ELSE << Answer(0, r, Picks("selector", r)) >>
  BY DEF AnswerAt
<1>5. Candidate!AnswerAt("selector", g, samples, 0)
      = IF r = <<>> THEN <<>> ELSE << Candidate!Answer(0, r, Candidate!Picks("selector", r)) >>
  BY <1>1, <1>2 DEF Candidate!AnswerAt
<1> QED BY <1>3, <1>4, <1>5

\* A selector of one step is told what a fold would be.
ToldInv == CandidateInv /\ answers = Answers(kernel, grid, rows)

\* One step, one answer.
LEMMA OneAnswer ==
  ASSUME input \in OneStepInputs
  PROVE  /\ kernel = "selector" /\ steps = 1 /\ ~IsRange
         /\ Answers(kernel, grid, rows) = AnswerAt("selector", grid, Samples, 0)
         /\ Answers(kernel, grid, rows) = Answering(0, Reading(0))
<1>1. kernel = "selector" /\ steps = 1 /\ ~IsRange
  <2>1. IsOneStep(input)
    BY StateAssumption
  <2> QED BY <2>1 DEF IsOneStep, kernel, steps, grid, IsRange
<1>2. Answers(kernel, grid, rows) = Outs(1) /\ Outs(0) = <<>> /\ Outs(0 + 1) = Outs(0) \o Answering(0, Reading(0))
      /\ AnswerAt(kernel, grid, Samples, 0) = Answering(0, Reading(0))
  <2>1. steps \in Nat /\ 0 \in 0 .. steps - 1
    BY <1>1
  <2> QED BY <1>1, <2>1, OutsGrow
<1>3. <<>> \o Answering(0, Reading(0)) = Answering(0, Reading(0))
  <2> DEFINE x == Answer(0, Reading(0), Picks(kernel, Reading(0)))
  <2>1. Answering(0, Reading(0)) = IF Reading(0) = <<>> THEN <<>> ELSE << x >>
    BY DEF Answering
  <2> HIDE DEF x
  <2>2. <<>> \o <<>> = <<>> /\ <<>> \o << x >> = << x >>
    OBVIOUS
  <2> QED BY <2>1, <2>2
<1>4. Outs(0 + 1) = Outs(1)
  OBVIOUS
<1> QED BY <1>1, <1>2, <1>3, <1>4

\* What the selector's module is told is the same.
LEMMA ToldAlike ==
  ASSUME input \in OneStepInputs
  PROVE  Candidate!Answers("selector", Candidate!grid, Candidate!rows) = Answers(kernel, grid, rows)
<1>1. Candidate!grid = grid /\ Candidate!rows = rows
  BY CandidateInput
<1>2. kernel = "selector" /\ steps = 1
  BY OneAnswer
<1>3. Candidate!StepCount(grid) = 1 /\ StepCount(grid) = 1
  BY <1>2 DEF Candidate!StepCount, StepCount, steps
<1>4. Candidate!Merged(rows) = Samples
  BY SameAnswers DEF Samples
<1> DEFINE A == [k \in 1 .. 1 |-> AnswerAt("selector", grid, Samples, k - 1)]
           B == [k \in 1 .. 1 |-> Candidate!AnswerAt("selector", grid, Samples, k - 1)]
<1>5. \A k \in 1 .. 1 : k - 1 = 0
  OBVIOUS
<1>6. \A k \in 1 .. 1 : Candidate!AnswerAt("selector", grid, Samples, k - 1) = AnswerAt("selector", grid, Samples, k - 1)
  BY <1>5, SameAnswer
<1>7. A = B
  BY <1>6
<1> HIDE DEF A, B
<1>8. \A s : Candidate!FlattenSeq(s) = FlattenSeq(s)
  BY Zenon DEF Candidate!FlattenSeq, FlattenSeq
<1>9. Answers(kernel, grid, rows) = FlattenSeq(A)
  BY <1>2, <1>3 DEF Answers, Samples, A
<1>10. Candidate!Answers("selector", grid, rows) = Candidate!FlattenSeq(B)
  BY <1>3, <1>4 DEF Candidate!Answers, B
<1> QED BY <1>1, <1>7, <1>8, <1>9, <1>10

\* The candidate is told so from the start.
LEMMA ToldBegins ==
  ASSUME Candidate!Init, pc = "between"
  PROVE  ToldInv /\ OneStep /\ Fold!Init
<1>1. CandidateInv
  BY LatestInit
<1>2. input \in OneStepInputs /\ out = <<>> /\ answers = Candidate!Answers("selector", Candidate!grid, Candidate!rows)
  BY DEF Candidate!Init
<1> QED BY <1>1, <1>2, ToldAlike, CandidateInput DEF ToldInv, Fold!Init

\* The one step answered, or not, is all there is to answer.
LEMMA OneStepFolds ==
  ASSUME ToldInv, CandidateNext
  PROVE  ToldInv' /\ input' = input /\ [Fold!Next]_(Fold!view)
<1>1. /\ input \in OneStepInputs /\ row \in 1 .. Len(rows) + 1 /\ sample \in Sample \cup {NoSample}
      /\ CandidateInv
  BY SameHelpers DEF ToldInv, CandidateInv, Candidate!TypeOK, Candidate!rows, rows
<1>2. input' = input /\ CandidateInv'
  BY <1>1, CandidateStep, LatestStep DEF CandidateInv
<1>3. answers' = answers
  BY DEF CandidateNext, Candidate!Poll, Candidate!Push, Candidate!Close
<1>4. ToldInv'
  BY <1>2, <1>3, SameReading DEF ToldInv
<1>5. CASE pc' = pc /\ (Candidate!Poll \/ Candidate!Push)
  <2>1. out' = out
    BY <1>5 DEF Candidate!Poll, Candidate!Push
  <2> QED BY <1>2, <1>3, <1>4, <1>5, <2>1 DEF Fold!view
<1>6. CASE pc' = "closed" /\ Candidate!Close
  <2>1. /\ pc # "closed" /\ row > Len(Candidate!rows)
        /\ out' = IF sample # NoSample /\ sample.v # Stale THEN << Candidate!Answer(0, << sample >>, <<>>) >> ELSE <<>>
    BY <1>6 DEF Candidate!Close
  <2>2. Candidate!rows = rows /\ Len(rows) \in Nat /\ rows \in Seq(Seq(Sample)) /\ Candidate!grid = grid
    BY <1>1, CandidateInput
  <2>3. SubSeq(rows, 1, row - 1) = rows
    <3>1. row - 1 = Len(rows)
      BY <1>1, <2>1, <2>2
    <3> QED BY <2>2, <3>1
  <2> DEFINE w == StepWindow(grid, Samples, 0)
  <2>4. sample = IF w = <<>> THEN NoSample ELSE Last(w)
    <3>1. Candidate!CandidateIsLatest
      BY <1>1, LatestIsHeld
    <3>2. LET inside == Candidate!StepWindow(Candidate!grid,
                          Candidate!Merged(SubSeq(Candidate!rows, 1, row - 1)), 0)
          IN  sample = IF inside = <<>> THEN NoSample ELSE Candidate!Last(inside)
      BY <2>1, <3>1 DEF Candidate!CandidateIsLatest
    <3>3. Candidate!StepWindow(Candidate!grid, Candidate!Merged(SubSeq(Candidate!rows, 1, row - 1)), 0) = w
      BY <2>2, <2>3, SameAnswers DEF Samples
    <3>4. Candidate!Last(w) = Last(w)
      BY Zenon DEF Candidate!Last, Last
    <3> HIDE DEF w
    <3> QED BY <3>2, <3>3, <3>4
  <2>5. answers = Answering(0, Reading(0)) /\ kernel = "selector" /\ ~IsRange
    BY <1>1, OneAnswer DEF ToldInv
  <2>6. Reading(0) = IF w = <<>> \/ Last(w).v = Stale THEN <<>> ELSE << Last(w) >>
    BY <2>5 DEF Reading
  <2>7. w # <<>> => Last(w) # NoSample
    <3>1. w # <<>> => Last(w) \in Sample
      <4>1. Samples \in Seq(Sample)
        <5>1. <<>> \in Seq(Sample)
          OBVIOUS
        <5> QED BY <2>2, <5>1, MergedGrows DEF Samples
      <4>2. w = At(Samples, Inside(Samples, End(grid, 0) - grid.window, End(grid, 0)))
        BY DEF StepWindow, Inside
      <4>3. Inside(Samples, End(grid, 0) - grid.window, End(grid, 0)) \in SUBSET DOMAIN Samples
        BY DEF Inside
      <4>4. w \in Seq(Sample)
        BY <4>1, <4>2, <4>3, AtTyped
      <4> QED BY <4>4, LastTyped
    <3> QED BY <3>1, StateAssumption
  <2>8. \A x : Candidate!Answer(0, << x >>, <<>>) = Answer(0, << x >>, <<>>) /\ Picks(kernel, << x >>) = <<>>
    BY <2>5 DEF Candidate!Answer, Answer, Picks
  <2>9. out' = answers
    <3> HIDE DEF w
    <3>1. CASE w = <<>> \/ Last(w).v = Stale
      <4>1. Reading(0) = <<>> /\ ~(sample # NoSample /\ sample.v # Stale)
        BY <2>4, <2>6, <3>1
      <4> QED BY <2>1, <2>5, <4>1 DEF Answering
    <3>2. CASE ~(w = <<>> \/ Last(w).v = Stale)
      <4>1. sample = Last(w) /\ sample # NoSample /\ sample.v # Stale /\ Reading(0) = << sample >>
        BY <2>4, <2>6, <2>7, <3>2
      <4>2. << sample >> # <<>>
        OBVIOUS
      <4>3. answers = << Answer(0, << sample >>, Picks(kernel, << sample >>)) >>
        BY <2>5, <4>1, <4>2 DEF Answering
      <4> QED BY <2>1, <2>8, <4>1, <4>3
    <3> QED BY <3>1, <3>2
  <2>10. Fold!Finish
    BY <1>3, <1>6, <2>1, <2>9 DEF Fold!Finish
  <2> QED BY <1>2, <1>4, <2>10 DEF Fold!Next
<1> QED BY <1>5, <1>6 DEF CandidateNext

-----------------------------------------------------------------------------
(***************************************************************************)
(* Whichever owner answers.                                                *)
(***************************************************************************)
AnsweringInv == IF OneStep THEN ToldInv ELSE FoldInv

\* Both owners start with nothing out.
LEMMA AnsweringInit == StateInit => AnsweringInv /\ Fold!Init
<1> SUFFICES ASSUME StateInit PROVE AnsweringInv /\ Fold!Init
  OBVIOUS
<1>1. CASE Init
  <2>1. ~OneStep
    BY <1>1, StateAssumption DEF Init, OneStep
  <2> QED BY <1>1, <2>1, FoldBegins DEF AnsweringInv
<1>2. CASE pc = "between" /\ Candidate!Init
  BY <1>2, ToldBegins DEF AnsweringInv
<1> QED BY <1>1, <1>2 DEF StateInit

\* A step of either owner is a step of what is promised, or none.
LEMMA AnsweringStep ==
  ASSUME AnsweringInv, [StateNext]_<<vars, sample>>
  PROVE  AnsweringInv' /\ [Fold!Next]_(Fold!view)
<1>1. CASE OneStep /\ CandidateNext
  <2>1. ToldInv' /\ input' = input /\ [Fold!Next]_(Fold!view)
    BY <1>1, OneStepFolds DEF AnsweringInv
  <2> QED BY <1>1, <2>1 DEF AnsweringInv, OneStep
<1>2. CASE ~OneStep /\ [Next]_vars
  <2>1. FoldInv' /\ [Fold!Next]_(Fold!view)
    BY <1>2, FoldNext DEF AnsweringInv
  <2>2. ~OneStep'
    BY <2>1, StateAssumption DEF FoldInv, HeldInv, WindowInv, TypeOK, OneStep
  <2> QED BY <2>1, <2>2 DEF AnsweringInv
<1>3. CASE OneStep /\ UNCHANGED <<vars, sample>>
  <2>1. StateInv /\ answers = Answers(kernel, grid, rows)
    BY <1>3 DEF AnsweringInv, ToldInv, StateInv
  <2>2. StateInv'
    BY <1>3, <2>1, StateStep
  <2>3. input' = input /\ answers' = answers /\ out' = out /\ pc' = pc
    BY <1>3 DEF vars, series
  <2>4. answers' = Answers(kernel, grid, rows)'
    BY <2>1, <2>3, SameReading
  <2>5. UNCHANGED Fold!view
    BY <2>3 DEF Fold!view
  <2> QED BY <1>3, <2>2, <2>3, <2>4, <2>5 DEF AnsweringInv, ToldInv, StateInv, OneStep
<1> QED BY <1>1, <1>2, <1>3 DEF StateNext

(***************************************************************************)
(* A series implements OrderedAnswers, step by step: whatever the kernel,  *)
(* the grid, the chunks and the budgets, and whoever owns it, its answers  *)
(* come out one at a time, in step order, each the one that every chunk at *)
(* hand would give and none of them revised by a chunk that arrives later, *)
(* and it closes with all of them out (SeriesState::push and close,        *)
(* buffer.rs).                                                             *)
(***************************************************************************)
THEOREM AnswersComeInOrder == Spec => Fold!Init /\ [][Fold!Next]_(Fold!view)
<1>1. StateInit => AnsweringInv /\ Fold!Init
  BY AnsweringInit
<1>2. AnsweringInv /\ [StateNext]_<<vars, sample>> => AnsweringInv' /\ [Fold!Next]_(Fold!view)
  BY AnsweringStep
<1> QED BY <1>1, <1>2, PTL DEF Spec
=============================================================================
