---------------------------- MODULE SequenceFacts ----------------------------
(***************************************************************************)
(* What the proofs need of the community modules' sequences: that the      *)
(* folds and FlattenSeq, which are defined by recursive functions, take    *)
(* the values their recursion says, on sequences of any length.            *)
(***************************************************************************)
EXTENDS Integers, Sequences, SequencesExt, FiniteSetsExt, TLAPS, SequenceTheorems,
        FiniteSetTheorems, WellFoundedInduction

-----------------------------------------------------------------------------
(***************************************************************************)
(* Induction over data: on a set of numbers, not on a predicate.           *)
(***************************************************************************)
\* Every set of naturals has a least one.
LEMMA Least ==
  ASSUME NEW S, S \subseteq Nat, S # {}
  PROVE  \E m \in S : \A n \in S : m <= n
<1> DEFINE R == OpToRel(<, Nat)
<1>1. IsWellFoundedOn(R, Nat)
  BY NatLessThanWellFounded, Zenon
<1>2. \A x, y \in Nat : <<x, y>> \in R <=> x < y
  BY DEF OpToRel
<1> HIDE DEF R
<1>3. PICK m \in S : \A n \in S : ~(<<n, m>> \in R)
  BY <1>1, WFMin, Zenon
<1>4. ASSUME NEW n \in S PROVE m <= n
  <2>1. m \in Nat /\ n \in Nat OBVIOUS
  <2>2. ~(n < m) BY <1>2, <1>3, <2>1
  <2> QED BY <2>1, <2>2
<1> QED BY <1>4

\* A set of numbers with zero and every successor up to n has all of them.
LEMMA Induct ==
  ASSUME NEW n \in Nat, NEW S, 0 \in S, \A k \in 0 .. n - 1 : k \in S => k + 1 \in S
  PROVE  \A k \in 0 .. n : k \in S
<1> DEFINE Left == {k \in 0 .. n : k \notin S}
<1>1. SUFFICES ASSUME Left # {} PROVE FALSE
  OBVIOUS
<1>2. Left \subseteq Nat /\ \A k : k \in Left <=> k \in 0 .. n /\ k \notin S
  OBVIOUS
<1> HIDE DEF Left
<1>3. PICK m \in Left : \A k \in Left : m <= k
  BY <1>1, <1>2, Least
<1>4. m # 0 /\ m \in 0 .. n /\ m \notin S
  BY <1>2, <1>3
<1>5. m - 1 \in 0 .. n - 1 /\ m - 1 \notin Left /\ m - 1 \in 0 .. n
  BY <1>2, <1>3, <1>4
<1>6. m - 1 \in S
  BY <1>2, <1>5
<1> QED BY <1>4, <1>5, <1>6

\* The greatest of some positions of a sequence is one of them.
LEMMA MaxIn ==
  ASSUME NEW n \in Nat, NEW T \in SUBSET (1 .. n), T # {}
  PROVE  Max(T) \in T /\ \A y \in T : y <= Max(T)
<1> DEFINE S == {n - x : x \in T}
<1>0. \A x \in T : x \in Nat /\ n - x \in Nat
  OBVIOUS
<1>1. S \subseteq Nat /\ S # {}
  <2>1. S \subseteq Nat BY <1>0
  <2>2. PICK x : x \in T OBVIOUS
  <2>3. n - x \in S BY <2>2
  <2> QED BY <2>1, <2>3
<1>2. PICK m \in S : \A k \in S : m <= k
  BY <1>1, Least
<1>3. PICK x \in T : m = n - x
  OBVIOUS
<1>4. \A y \in T : x >= y
  <2> TAKE y \in T
  <2>1. n - y \in S /\ x \in Int /\ y \in Int
    OBVIOUS
  <2> HIDE DEF S
  <2>2. m <= n - y
    BY <1>2, <2>1
  <2>3. n - x <= n - y
    BY <1>3, <2>2
  <2> QED BY <2>1, <2>3
<1>5. Max(T) \in T /\ \A y \in T : Max(T) >= y
  BY <1>4 DEF Max
<1> QED BY <1>5

\* The greatest of the positions up to k is k.
LEMMA MaxUpTo ==
  ASSUME NEW k \in Nat \ {0}
  PROVE  Max(1 .. k) = k /\ (1 .. k) \ {k} = 1 .. k - 1 /\ 1 .. k # {}
<1>1. 1 .. k \in SUBSET (1 .. k) /\ k \in 1 .. k /\ 1 .. k # {}
  OBVIOUS
<1>2. Max(1 .. k) \in 1 .. k /\ \A y \in 1 .. k : y <= Max(1 .. k)
  BY <1>1, MaxIn
<1>3. Max(1 .. k) = k
  BY <1>1, <1>2
<1> QED BY <1>1, <1>3

\* The members of a set of numbers, each by how many are before it.
LEMMA RankedNumbers ==
  ASSUME NEW n \in Nat, NEW S \in SUBSET (0 .. n - 1)
  PROVE  /\ IsFiniteSet(S) /\ Cardinality(S) \in Nat
         /\ \A k \in 1 .. Cardinality(S) :
              \E s \in S : Cardinality({e \in S : e < s}) = k - 1
<1> DEFINE Low(m) == {e \in S : e < m}
           Fine(m) == /\ IsFiniteSet(Low(m)) /\ Cardinality(Low(m)) \in Nat
                      /\ \A k \in 1 .. Cardinality(Low(m)) :
                           \E s \in S : Cardinality(Low(s)) = k - 1
           T == {m \in 0 .. n : Fine(m)}
<1>1. \A m : m \in T <=> m \in 0 .. n /\ Fine(m)
  OBVIOUS
<1>a. \A e \in S : e \in Nat /\ e < n /\ ~(e < 0)
  OBVIOUS
<1>b. \A m : \A e : e \in Low(m) <=> e \in S /\ e < m
  OBVIOUS
<1>2. Low(0) = {} /\ Low(n) = S
  <2>1. \A e : e \notin Low(0) BY <1>a, <1>b
  <2>2. \A e : e \in Low(n) <=> e \in S BY <1>a, <1>b
  <2> HIDE DEF Low
  <2>3. Low(0) = {} BY <2>1
  <2>4. Low(n) = S BY <2>2
  <2> QED BY <2>3, <2>4
<1>3. 0 \in T
  <2>1. IsFiniteSet({}) /\ Cardinality({}) = 0
    BY FS_EmptySet
  <2>2. 0 \in 0 .. n /\ 1 .. 0 = {}
    OBVIOUS
  <2> HIDE DEF T, Low
  <2>3. Fine(0)
    BY <1>2, <2>1, <2>2
  <2> QED BY <1>1, <2>2, <2>3
<1>4. \A m \in 0 .. n - 1 : m \in T => m + 1 \in T
  <2> SUFFICES ASSUME NEW m \in 0 .. n - 1, m \in T PROVE m + 1 \in T
    OBVIOUS
  <2>1. m + 1 \in 0 .. n /\ Fine(m)
    BY <1>1
  <2>2. CASE m \in S
    <3>1. Low(m + 1) = Low(m) \cup {m} /\ m \notin Low(m)
      <4>1. m \notin Low(m) BY <1>b
      <4>2. \A e : e \in Low(m + 1) <=> e \in Low(m) \cup {m}
        <5> TAKE e
        <5>1. e \in S => (e < m + 1 <=> e < m \/ e = m) BY <1>a
        <5> QED BY <1>b, <2>2, <5>1
      <4> HIDE DEF Low
      <4> QED BY <4>1, <4>2
    <3> DEFINE L == Low(m)
               M == Low(m + 1)
    <3>2. IsFiniteSet(L) /\ Cardinality(L) \in Nat /\ M = L \cup {m} /\ m \notin L
      BY <2>1, <3>1
    <3>a. \A k \in 1 .. Cardinality(L) : \E s \in S : Cardinality(Low(s)) = k - 1
      BY <2>1
    <3>b. Cardinality(Low(m)) = Cardinality(L)
      OBVIOUS
    <3> HIDE DEF L, M, Low
    <3>3. IsFiniteSet(M) /\ Cardinality(M) = Cardinality(L) + 1
      BY <3>2, FS_AddElement
    <3>4. \A k \in 1 .. Cardinality(M) : \E s \in S : Cardinality(Low(s)) = k - 1
      <4> TAKE k \in 1 .. Cardinality(M)
      <4>1. k \in 1 .. Cardinality(L) \/ k = Cardinality(L) + 1
        BY <3>2, <3>3
      <4>2. CASE k = Cardinality(L) + 1
        <5>1. Cardinality(Low(m)) = k - 1 BY <3>2, <3>b, <4>2
        <5> QED BY <2>2, <5>1
      <4> QED BY <3>a, <4>1, <4>2
    <3>5. Cardinality(M) \in Nat
      BY <3>2, <3>3
    <3> QED BY <1>1, <2>1, <3>3, <3>4, <3>5 DEF M
  <2>3. CASE m \notin S
    <3>1. Low(m + 1) = Low(m)
      <4>1. \A e : e \in Low(m + 1) <=> e \in Low(m)
        <5> TAKE e
        <5>1. e \in S => (e < m + 1 <=> e < m) BY <1>a, <2>3
        <5> QED BY <1>b, <5>1
      <4> HIDE DEF Low
      <4> QED BY <4>1
    <3> HIDE DEF Low
    <3> QED BY <1>1, <2>1, <3>1
  <2> QED BY <2>2, <2>3
<1>5. Fine(n)
  <2> HIDE DEF T, Fine
  <2>1. n \in 0 .. n OBVIOUS
  <2> QED BY <1>1, <1>3, <1>4, <2>1, Induct
<1> QED BY <1>2, <1>5

-----------------------------------------------------------------------------
(***************************************************************************)
(* The recursion of MapThenFoldSet has a solution on the positions of a    *)
(* sequence, whatever is folded: H stands for the operator of the fold.    *)
(***************************************************************************)
FoldsOver(H, base, s, g) ==
  \A T \in SUBSET DOMAIN s :
    g[T] = IF T = {} THEN base ELSE H[<<g[T \ {Max(T)}], s[Max(T)]>>]

\* There is such a solution, for a sequence of any length.
LEMMA FoldExists ==
  ASSUME NEW X, NEW Y, NEW H \in [X \X Y -> X], NEW base \in X, NEW s \in Seq(Y)
  PROVE  \E g \in [SUBSET DOMAIN s -> X] : FoldsOver(H, base, s, g)
<1> DEFINE Solves(g, k) == \A T \in SUBSET (1 .. k) :
             g[T] = IF T = {} THEN base ELSE H[<<g[T \ {Max(T)}], s[Max(T)]>>]
           S == {k \in 0 .. Len(s) : \E g \in [SUBSET (1 .. k) -> X] : Solves(g, k)}
<1>1. Len(s) \in Nat /\ DOMAIN s = 1 .. Len(s) /\ \A k \in 1 .. Len(s) : s[k] \in Y
  OBVIOUS
<1> HIDE DEF Solves
<1>0. \A k : k \in S <=> k \in 0 .. Len(s) /\ \E g \in [SUBSET (1 .. k) -> X] : Solves(g, k)
  OBVIOUS
<1> HIDE DEF S
<1>2. 0 \in S
  <2> DEFINE g == [T \in SUBSET (1 .. 0) |-> base]
  <2>1. 1 .. 0 = {}
    OBVIOUS
  <2>2. g \in [SUBSET (1 .. 0) -> X] /\ Solves(g, 0)
    BY <2>1 DEF Solves
  <2>3. \E f \in [SUBSET (1 .. 0) -> X] : Solves(f, 0)
    BY <2>2
  <2>4. 0 \in 0 .. Len(s)
    BY <1>1
  <2> QED BY <1>0, <2>3, <2>4, Zenon
<1>3. ASSUME NEW k \in 0 .. Len(s) - 1, k \in S PROVE k + 1 \in S
  <2>1. /\ k \in Nat /\ k + 1 \in 1 .. Len(s) /\ k + 1 \in 0 .. Len(s) /\ s[k + 1] \in Y
        /\ k + 1 \in Nat
    BY <1>1
  <2>2. PICK g \in [SUBSET (1 .. k) -> X] : Solves(g, k)
    BY <1>0, <1>3
  <2> DEFINE h == [T \in SUBSET (1 .. k + 1) |->
                     IF k + 1 \in T THEN H[<<g[T \ {k + 1}], s[k + 1]>>] ELSE g[T]]
  <2>3. \A T \in SUBSET (1 .. k + 1) :
          /\ k + 1 \in T => T \ {k + 1} \in SUBSET (1 .. k)
          /\ k + 1 \notin T => T \in SUBSET (1 .. k)
    BY <2>1
  <2>4. h \in [SUBSET (1 .. k + 1) -> X]
    BY <2>1, <2>2, <2>3
  <2>5. /\ \A T \in SUBSET (1 .. k + 1) :
             h[T] = IF k + 1 \in T THEN H[<<g[T \ {k + 1}], s[k + 1]>>] ELSE g[T]
        /\ \A T \in SUBSET (1 .. k) : h[T] = g[T]
    <3>1. \A T \in SUBSET (1 .. k) : T \in SUBSET (1 .. k + 1) /\ k + 1 \notin T
      BY <2>1
    <3> QED BY <3>1
  <2> HIDE DEF h
  <2>6. Solves(h, k + 1)
    <3> SUFFICES ASSUME NEW T \in SUBSET (1 .. k + 1)
                 PROVE  h[T] = IF T = {} THEN base ELSE H[<<h[T \ {Max(T)}], s[Max(T)]>>]
      BY DEF Solves
    <3>1. CASE k + 1 \in T
      <4>1. Max(T) \in T /\ \A y \in T : y <= Max(T)
        BY <2>1, <3>1, MaxIn
      <4>2. Max(T) = k + 1
        <5>1. Max(T) \in 1 .. k + 1 /\ k + 1 <= Max(T)
          BY <3>1, <4>1
        <5> QED BY <2>1, <5>1
      <4>3. T \ {k + 1} \in SUBSET (1 .. k)
        BY <2>3, <3>1
      <4>4. h[T \ {k + 1}] = g[T \ {k + 1}]
        BY <2>5, <4>3
      <4> QED BY <2>5, <3>1, <4>2, <4>4
    <3>2. CASE k + 1 \notin T /\ T # {}
      <4>1. T \in SUBSET (1 .. k)
        BY <2>3, <3>2
      <4> DEFINE U == T \ {Max(T)}
      <4>2. U \in SUBSET (1 .. k)
        BY <4>1
      <4> HIDE DEF U
      <4>4. h[T] = g[T] /\ h[U] = g[U]
        BY <2>5, <4>1, <4>2
      <4>3. h[T] = g[T] /\ h[T \ {Max(T)}] = g[T \ {Max(T)}]
        BY <4>4 DEF U
      <4> QED BY <2>2, <3>2, <4>1, <4>3 DEF Solves
    <3>3. CASE T = {}
      <4>1. {} \in SUBSET (1 .. k)
        OBVIOUS
      <4>2. h[T] = g[{}] /\ g[{}] = base
        BY <2>2, <2>5, <3>3, <4>1 DEF Solves
      <4> QED BY <3>3, <4>2
    <3> QED BY <3>1, <3>2, <3>3
  <2> QED BY <1>0, <2>1, <2>4, <2>6
<1>4. Len(s) \in S
  <2>1. \A k \in 0 .. Len(s) : k \in S
    BY <1>1, <1>2, <1>3, Induct
  <2> QED BY <1>1, <2>1
<1>5. PICK g \in [SUBSET (1 .. Len(s)) -> X] : Solves(g, Len(s))
  BY <1>0, <1>4, Zenon
<1>6. \A T \in SUBSET (1 .. Len(s)) :
        g[T] = IF T = {} THEN base ELSE H[<<g[T \ {Max(T)}], s[Max(T)]>>]
  BY <1>5 DEF Solves
<1>7. DOMAIN s = 1 .. Len(s)
  BY <1>1
<1>8. FoldsOver(H, base, s, g)
  BY <1>6, <1>7, Zenon DEF FoldsOver
<1> QED BY <1>5, <1>7, <1>8, Zenon
\* A solution of it runs through the prefixes: iter stands for the CHOOSE of
\* MapThenFoldSet's recursion.
FoldsWithin(X, H, s, iter) ==
  \A T \in SUBSET DOMAIN s : T # {} /\ iter[T \ {Max(T)}] \in X =>
    iter[T] = H[<<iter[T \ {Max(T)}], s[Max(T)]>>]


\* R holds the value of the fold after each prefix of s; value is the last.
FoldsAlong(H, base, s, R) ==
  /\ R[0] = base
  /\ \A k \in 0 .. Len(s) - 1 : R[k + 1] = H[<<R[k], s[k + 1]>>]

FoldsTo(X, H, base, s, value) ==
  \E R \in [0 .. Len(s) -> X] : FoldsAlong(H, base, s, R) /\ R[Len(s)] = value

\* What iter gives for all the positions is the fold along the prefixes.
LEMMA FoldPrefixes ==
  ASSUME NEW X, NEW Y, NEW H \in [X \X Y -> X], NEW base \in X, NEW s \in Seq(Y),
         NEW iter, iter[{}] = base, FoldsWithin(X, H, s, iter)
  PROVE  FoldsTo(X, H, base, s, iter[DOMAIN s])
<1> DEFINE R == [k \in 0 .. Len(s) |-> iter[1 .. k]]
           S == {k \in 0 .. Len(s) : R[k] \in X}
<1>1. Len(s) \in Nat /\ DOMAIN s = 1 .. Len(s) /\ \A k \in 1 .. Len(s) : s[k] \in Y
  OBVIOUS
<1>2. R[0] = base
  <2>1. 0 \in 0 .. Len(s) /\ 1 .. 0 = {}
    BY <1>1
  <2> QED BY <2>1
<1>3. \A k \in 0 .. Len(s) - 1 : R[k] \in X =>
        R[k + 1] = H[<<R[k], s[k + 1]>>] /\ R[k + 1] \in X
  <2> SUFFICES ASSUME NEW k \in 0 .. Len(s) - 1, R[k] \in X
               PROVE  R[k + 1] = H[<<R[k], s[k + 1]>>] /\ R[k + 1] \in X
    OBVIOUS
  <2>1. /\ k + 1 \in Nat \ {0} /\ k \in 0 .. Len(s) /\ k + 1 \in 0 .. Len(s)
        /\ k + 1 \in 1 .. Len(s) /\ (k + 1) - 1 = k
    BY <1>1
  <2>2. Max(1 .. k + 1) = k + 1 /\ (1 .. k + 1) \ {k + 1} = 1 .. k /\ 1 .. k + 1 # {}
    <3>1. /\ Max(1 .. k + 1) = k + 1 /\ 1 .. k + 1 # {}
          /\ (1 .. k + 1) \ {k + 1} = 1 .. (k + 1) - 1
      BY <2>1, MaxUpTo, Zenon
    <3> QED BY <2>1, <3>1
  <2>3. 1 .. k + 1 \in SUBSET DOMAIN s
    BY <1>1, <2>1
  <2>4. R[k] = iter[1 .. k] /\ R[k + 1] = iter[1 .. k + 1]
    BY <2>1
  <2> HIDE DEF R
  <2>5. iter[1 .. k + 1] = H[<<iter[1 .. k], s[k + 1]>>]
    BY <2>2, <2>3, <2>4 DEF FoldsWithin
  <2> QED BY <1>1, <2>1, <2>4, <2>5
<1>4. \A k : k \in S <=> k \in 0 .. Len(s) /\ R[k] \in X
  OBVIOUS
<1>5. \A k \in 0 .. Len(s) : R[k] = iter[1 .. k]
  OBVIOUS
<1> HIDE DEF R, S
<1>6. 0 \in S /\ \A k \in 0 .. Len(s) - 1 : k \in S => k + 1 \in S
  <2>1. 0 \in 0 .. Len(s) /\ \A k \in 0 .. Len(s) - 1 : k + 1 \in 0 .. Len(s)
    BY <1>1
  <2> QED BY <1>2, <1>3, <1>4, <2>1
<1>7. \A k \in 0 .. Len(s) : R[k] \in X
  BY <1>1, <1>4, <1>6, Induct
<1>8. R \in [0 .. Len(s) -> X]
  <2>1. R = [k \in 0 .. Len(s) |-> R[k]]
    BY DEF R
  <2> QED BY <1>7, <2>1
<1>9. R[Len(s)] = iter[DOMAIN s]
  BY <1>1, <1>5
<1>10. \A k \in 0 .. Len(s) - 1 : R[k + 1] = H[<<R[k], s[k + 1]>>]
  BY <1>1, <1>3, <1>7
<1>11. FoldsAlong(H, base, s, R)
  BY <1>2, <1>10, Zenon DEF FoldsAlong
<1> QED BY <1>8, <1>9, <1>11, Zenon DEF FoldsTo
\* There are such prefixes, and they are what a longer sequence's begin with.
LEMMA FoldAlongExists ==
  ASSUME NEW X, NEW Y, NEW H \in [X \X Y -> X], NEW base \in X, NEW s \in Seq(Y)
  PROVE  \E R \in [0 .. Len(s) -> X] : FoldsAlong(H, base, s, R)
<1>1. PICK g \in [SUBSET DOMAIN s -> X] : FoldsOver(H, base, s, g)
  BY FoldExists
<1>2. g[{}] = base
  <2>1. {} \in SUBSET DOMAIN s OBVIOUS
  <2> QED BY <1>1, <2>1 DEF FoldsOver
<1>3. FoldsWithin(X, H, s, g)
  BY <1>1, Zenon DEF FoldsOver, FoldsWithin
<1>4. FoldsTo(X, H, base, s, g[DOMAIN s])
  BY <1>2, <1>3, FoldPrefixes
<1> QED BY <1>4 DEF FoldsTo

\* What is folded has its types, and s extended by y is t.
Folding(X, Y, H, base) == H \in [X \X Y -> X] /\ base \in X

Extended(s, y, t) ==
  Len(t) = Len(s) + 1 /\ t[Len(s) + 1] = y /\ \A k \in 1 .. Len(s) : t[k] = s[k]

\* Append extends a sequence by the element it is given.
LEMMA AppendExtends ==
  ASSUME NEW X, NEW s \in Seq(X), NEW y \in X
  PROVE  Extended(s, y, Append(s, y))
BY AppendProperties DEF Extended

\* Folding a sequence extended by y is one more step of the fold.
LEMMA FoldAppend ==
  ASSUME NEW X, NEW Y, NEW H, NEW base, NEW s, NEW y, NEW t, NEW v, NEW w,
         Folding(X, Y, H, base), s \in Seq(Y), y \in Y, Extended(s, y, t),
         FoldsTo(X, H, base, s, v), FoldsTo(X, H, base, t, w)
  PROVE  w = H[<<v, y>>]
<1>1. PICK R \in [0 .. Len(s) -> X] : FoldsAlong(H, base, s, R) /\ R[Len(s)] = v
  BY DEF FoldsTo, Folding
<1>2. PICK Q \in [0 .. Len(t) -> X] : FoldsAlong(H, base, t, Q) /\ Q[Len(t)] = w
  BY DEF FoldsTo
<1>3. /\ Len(s) \in Nat /\ Len(t) = Len(s) + 1 /\ t[Len(s) + 1] = y
      /\ \A k \in 1 .. Len(s) : t[k] = s[k]
  BY DEF Extended
<1> DEFINE S == {k \in 0 .. Len(s) : R[k] = Q[k]}
<1>4. \A k : k \in S <=> k \in 0 .. Len(s) /\ R[k] = Q[k]
  OBVIOUS
<1> HIDE DEF S
<1>5. 0 \in S
  BY <1>1, <1>2, <1>3, <1>4 DEF FoldsAlong
<1>6. \A k \in 0 .. Len(s) - 1 : k \in S => k + 1 \in S
  <2> SUFFICES ASSUME NEW k \in 0 .. Len(s) - 1, k \in S PROVE k + 1 \in S
    OBVIOUS
  <2>1. k + 1 \in 1 .. Len(s) /\ k + 1 \in 0 .. Len(s) /\ k \in 0 .. Len(t) - 1
    BY <1>3
  <2>2. R[k + 1] = H[<<R[k], s[k + 1]>>] /\ Q[k + 1] = H[<<Q[k], t[k + 1]>>]
    BY <1>1, <1>2, <2>1 DEF FoldsAlong
  <2>3. R[k] = Q[k] /\ t[k + 1] = s[k + 1]
    BY <1>3, <1>4, <2>1
  <2> QED BY <1>4, <2>1, <2>2, <2>3
<1>7. Len(s) \in S
  <2>1. Len(s) \in 0 .. Len(s) BY <1>3
  <2>2. \A k \in 0 .. Len(s) : k \in S BY <1>3, <1>5, <1>6, Induct
  <2> QED BY <2>1, <2>2
<1>8. Q[Len(s)] = v
  BY <1>1, <1>4, <1>7
<1>9. Len(s) \in 0 .. Len(t) - 1
  BY <1>3
<1>10. Q[Len(s) + 1] = H[<<Q[Len(s)], t[Len(s) + 1]>>]
  BY <1>2, <1>9 DEF FoldsAlong
<1> QED BY <1>2, <1>3, <1>8, <1>10

\* A fold of nothing is its base.
LEMMA FoldOfNone ==
  ASSUME NEW X, NEW H, NEW base, NEW v, FoldsTo(X, H, base, <<>>, v)
  PROVE  v = base
<1>1. Len(<<>>) = 0 OBVIOUS
<1>2. PICK R : FoldsAlong(H, base, <<>>, R) /\ R[Len(<<>>)] = v
  BY Zenon DEF FoldsTo
<1>3. R[0] = base
  BY <1>2, Zenon DEF FoldsAlong
<1> QED BY <1>1, <1>2, <1>3

\* One more at the end of two sequences is one more at the end of the second.
LEMMA ConcatAppend ==
  ASSUME NEW X, NEW s, NEW t, NEW e, s \in Seq(X), t \in Seq(X), e \in X
  PROVE  s \o Append(t, e) = Append(s \o t, e)
OBVIOUS

-----------------------------------------------------------------------------
(***************************************************************************)
(* FlattenSeq is the fold of concatenation.                                *)
(***************************************************************************)
Concat(X) == [st \in Seq(X) \X Seq(X) |-> st[1] \o st[2]]

\* Concatenation as a function.
LEMMA ConcatType ==
  ASSUME NEW X
  PROVE  /\ Concat(X) \in [Seq(X) \X Seq(X) -> Seq(X)]
         /\ \A s, t \in Seq(X) : Concat(X)[<<s, t>>] = s \o t
<1> DEFINE Z == Seq(X)
<1>1. \A s, t \in Z : s \o t \in Z
  BY ConcatProperties
<1>2. Concat(X) = [st \in Z \X Z |-> st[1] \o st[2]]
  BY DEF Concat
<1> HIDE DEF Z
<1>3. \A st \in Z \X Z : st[1] \in Z /\ st[2] \in Z
  OBVIOUS
<1>4. Concat(X) \in [Z \X Z -> Z]
  BY <1>1, <1>2, <1>3
<1>5. \A s, t \in Z : Concat(X)[<<s, t>>] = s \o t
  BY <1>2
<1> QED BY <1>4, <1>5 DEF Z

\* FlattenSeq's recursive function has a solution, and takes its last value.
LEMMA FlattenFolds ==
  ASSUME NEW X, NEW ss \in Seq(Seq(X))
  PROVE  FoldsTo(Seq(X), Concat(X), <<>>, ss, FlattenSeq(ss))
<1> DEFINE H == Concat(X)
           none == <<>>
<1>1. H \in [Seq(X) \X Seq(X) -> Seq(X)] /\ \A s, t \in Seq(X) : H[<<s, t>>] = s \o t
  BY ConcatType
<1>2. none \in Seq(X) /\ \A s \in Seq(X) : none \o s = s
  OBVIOUS
<1>3. Len(ss) \in Nat /\ \A k \in 1 .. Len(ss) : ss[k] \in Seq(X)
  OBVIOUS
<1> HIDE DEF H, none
<1>4. PICK R \in [0 .. Len(ss) -> Seq(X)] : FoldsAlong(H, none, ss, R)
  BY <1>1, <1>2, FoldAlongExists
<1>5. \A k \in 0 .. Len(ss) - 1 : R[k + 1] = R[k] \o ss[k + 1]
  <2> TAKE k \in 0 .. Len(ss) - 1
  <2>1. k \in 0 .. Len(ss) /\ k + 1 \in 1 .. Len(ss)
    BY <1>3
  <2>2. R[k] \in Seq(X) /\ ss[k + 1] \in Seq(X) /\ R[k + 1] = H[<<R[k], ss[k + 1]>>]
    BY <1>3, <1>4, <2>1 DEF FoldsAlong
  <2> QED BY <1>1, <2>2
<1>6. CASE Len(ss) = 0
  <2>1. FlattenSeq(ss) = ss
    BY <1>6 DEF FlattenSeq
  <2>2. R[Len(ss)] = none
    BY <1>4, <1>6 DEF FoldsAlong
  <2>3. ss = <<>>
    BY <1>6
  <2> QED BY <1>4, <2>1, <2>2, <2>3 DEF FoldsTo, none, H
<1>7. CASE Len(ss) # 0
  <2> DEFINE flat == CHOOSE flatten : flatten = [i \in 1 .. Len(ss) |->
                        IF i = 1 THEN ss[i] ELSE flatten[i - 1] \o ss[i]]
             f == [i \in 1 .. Len(ss) |-> R[i]]
             S == {i \in 0 .. Len(ss) : i = 0 \/ flat[i] = R[i]}
  <2>1. FlattenSeq(ss) = flat[Len(ss)]
    BY <1>7, Zenon DEF FlattenSeq
  <2>2. R[0] = none /\ R[1] = ss[1]
    <3>1. 1 \in 1 .. Len(ss) /\ 0 \in 0 .. Len(ss) - 1 /\ 0 + 1 = 1
      BY <1>3, <1>7
    <3>2. R[0] = none BY <1>4 DEF FoldsAlong
    <3>3. R[1] = R[0] \o ss[1] BY <1>5, <3>1
    <3> QED BY <1>2, <1>3, <3>1, <3>2, <3>3
  <2>3. \A i \in 1 .. Len(ss) : i # 1 => R[i] = R[i - 1] \o ss[i] /\ i - 1 \in 1 .. Len(ss)
    <3> TAKE i \in 1 .. Len(ss)
    <3> HAVE i # 1
    <3>1. i - 1 \in 0 .. Len(ss) - 1 /\ (i - 1) + 1 = i /\ i - 1 \in 1 .. Len(ss)
      BY <1>3
    <3> QED BY <1>5, <3>1
  <2>4. f = [i \in 1 .. Len(ss) |-> IF i = 1 THEN ss[i] ELSE f[i - 1] \o ss[i]]
    <3>1. \A i \in 1 .. Len(ss) : f[i] = IF i = 1 THEN ss[i] ELSE f[i - 1] \o ss[i]
      <4> TAKE i \in 1 .. Len(ss)
      <4>1. CASE i = 1 BY <2>2, <4>1
      <4>2. CASE i # 1
        <5>1. f[i] = R[i] /\ f[i - 1] = R[i - 1]
          BY <2>3, <4>2
        <5> HIDE DEF f
        <5> QED BY <2>3, <4>2, <5>1
      <4> QED BY <4>1, <4>2
    <3>2. f = [i \in 1 .. Len(ss) |-> f[i]] OBVIOUS
    <3> HIDE DEF f
    <3> QED BY <3>1, <3>2
  <2>5. flat = [i \in 1 .. Len(ss) |-> IF i = 1 THEN ss[i] ELSE flat[i - 1] \o ss[i]]
    <3> HIDE DEF f
    <3> QED BY <2>4, Zenon
  <2>6. \A i : i \in S <=> i \in 0 .. Len(ss) /\ (i = 0 \/ flat[i] = R[i])
    OBVIOUS
  <2> HIDE DEF flat, S, f
  <2>7. 0 \in S
    BY <1>3, <2>6
  <2>8. \A k \in 0 .. Len(ss) - 1 : k \in S => k + 1 \in S
    <3> SUFFICES ASSUME NEW k \in 0 .. Len(ss) - 1, k \in S PROVE k + 1 \in S
      OBVIOUS
    <3>1. /\ k + 1 \in 1 .. Len(ss) /\ k + 1 \in 0 .. Len(ss) /\ (k + 1) - 1 = k
          /\ (k # 0 => k + 1 # 1) /\ (k = 0 => k + 1 = 1)
      BY <1>3
    <3>2. flat[k + 1] = IF k + 1 = 1 THEN ss[k + 1] ELSE flat[(k + 1) - 1] \o ss[k + 1]
      BY <2>5, <3>1
    <3>3. CASE k = 0 BY <2>2, <2>6, <3>1, <3>2, <3>3
    <3>4. CASE k # 0
      <4>1. flat[k] = R[k] BY <2>6, <3>4
      <4>2. flat[k + 1] = R[k] \o ss[k + 1] BY <3>1, <3>2, <3>4, <4>1
      <4>3. flat[k + 1] = R[k + 1] BY <1>5, <4>2
      <4> QED BY <2>6, <3>1, <4>3
    <3> QED BY <3>3, <3>4
  <2>9. \A k \in 0 .. Len(ss) : k \in S
    BY <1>3, <2>7, <2>8, Induct
  <2>10. flat[Len(ss)] = R[Len(ss)]
    <3>1. Len(ss) \in 0 .. Len(ss) BY <1>3
    <3> QED BY <1>7, <2>6, <2>9, <3>1
  <2> QED BY <1>4, <2>1, <2>10 DEF FoldsTo, none, H
<1> QED BY <1>6, <1>7
\* FlattenSeq of no sequence, of one more at the end, of one more at the front.
LEMMA FlattenNone == FlattenSeq(<<>>) = <<>>
<1>1. Len(<<>>) = 0 OBVIOUS
<1> QED BY <1>1 DEF FlattenSeq

\* Flattening a sequence of sequences gives a sequence of their elements.
LEMMA FlattenType ==
  ASSUME NEW X, NEW ss \in Seq(Seq(X))
  PROVE  FlattenSeq(ss) \in Seq(X)
<1>1. FoldsTo(Seq(X), Concat(X), <<>>, ss, FlattenSeq(ss))
  BY FlattenFolds
<1>2. Len(ss) \in 0 .. Len(ss)
  OBVIOUS
<1> QED BY <1>1, <1>2 DEF FoldsTo

\* Flattening a sequence extended by y concatenates y after the rest.
LEMMA FlattenAppend ==
  ASSUME NEW X, NEW ss \in Seq(Seq(X)), NEW t \in Seq(X)
  PROVE  FlattenSeq(Append(ss, t)) = FlattenSeq(ss) \o t
<1> DEFINE none == <<>>
           H == Concat(X)
           Z == Seq(X)
           more == Append(ss, t)
<1>1. /\ more \in Seq(Z) /\ none \in Z /\ t \in Z /\ ss \in Seq(Z)
      /\ Extended(ss, t, more)
  BY AppendExtends
<1>2. FoldsTo(Z, H, none, ss, FlattenSeq(ss))
  BY FlattenFolds
<1>3. FoldsTo(Z, H, none, more, FlattenSeq(more))
  <2> HIDE DEF more
  <2> QED BY <1>1, FlattenFolds
<1>4. H \in [Z \X Z -> Z] /\ \A u, v \in Z : H[<<u, v>>] = u \o v
  BY ConcatType
<1>5. FlattenSeq(ss) \in Z
  BY FlattenType
<1> HIDE DEF none, H, Z, more
<1>8. Folding(Z, Z, H, none)
  BY <1>1, <1>4 DEF Folding
<1>6. FlattenSeq(more) = H[<<FlattenSeq(ss), t>>]
  <2> DEFINE v == FlattenSeq(ss)
             w == FlattenSeq(more)
  <2>1. FoldsTo(Z, H, none, more, w) /\ FoldsTo(Z, H, none, ss, v)
    BY <1>2, <1>3
  <2> HIDE DEF v, w
  <2>2. w = H[<<v, t>>]
    BY <1>1, <1>8, <2>1, FoldAppend
  <2> QED BY <2>2 DEF v, w
<1>7. H[<<FlattenSeq(ss), t>>] = FlattenSeq(ss) \o t
  BY <1>1, <1>4, <1>5, Zenon
<1> QED BY <1>6, <1>7, Zenon DEF more

\* Concatenation stays among the sequences of X and associates.
LEMMA Associates ==
  ASSUME NEW X
  PROVE  \A a, b, c \in Seq(X) : (a \o b) \o c = a \o (b \o c) /\ a \o b \in Seq(X)
<1>1. \A a, b, c \in Seq(X) : (a \o b) \o c = a \o (b \o c)
  <2> TAKE a, b, c \in Seq(X)
  <2> QED BY ConcatAssociative
<1>2. \A a, b \in Seq(X) : a \o b \in Seq(X)
  OBVIOUS
<1> QED BY <1>1, <1>2, Zenon

\* The same of three sequences, to cite by their names.
LEMMA Regroups ==
  ASSUME NEW X, NEW a, NEW b, NEW c, a \in Seq(X), b \in Seq(X), c \in Seq(X)
  PROVE  (a \o b) \o c = a \o (b \o c)
<1> DEFINE Z == Seq(X)
           Cat(u, v) == u \o v
<1>1. a \in Z /\ b \in Z /\ c \in Z
  OBVIOUS
<1>2. \A u, v, w \in Z : Cat(Cat(u, v), w) = Cat(u, Cat(v, w)) /\ Cat(u, v) \in Z
  BY Associates
<1> HIDE DEF Z, Cat
<1>3. Cat(Cat(a, b), c) = Cat(a, Cat(b, c))
  BY <1>1, <1>2
<1> QED BY <1>3 DEF Cat

\* Appending is concatenating a sequence of one.
LEMMA Ones ==
  ASSUME NEW X, NEW a, NEW r, a \in Seq(X), r \in X
  PROVE  <<r>> \in Seq(X) /\ Append(a, r) = a \o <<r>>
<1>1. <<r>> \in Seq(X)
  OBVIOUS
<1>2. Append(a, r) = a \o <<r>>
  BY AppendIsConcat
<1> QED BY <1>1, <1>2

\* It does not matter whether an element ends one sequence or begins the next.
LEMMA PushesOne ==
  ASSUME NEW X, NEW a, NEW c, NEW r, a \in Seq(X), c \in Seq(X), r \in X
  PROVE  a \o (<<r>> \o c) = Append(a, r) \o c
<1> DEFINE Z == Seq(X)
           Cat(u, v) == u \o v
           one == <<r>>
<1>1. one \in Z /\ a \in Z /\ c \in Z
  BY Ones
<1>2. \A u, v, w \in Z : Cat(Cat(u, v), w) = Cat(u, Cat(v, w)) /\ Cat(u, v) \in Z
  BY Associates
<1>3. Append(a, r) = Cat(a, one)
  BY Ones
<1> HIDE DEF Z, Cat, one
<1>4. Cat(Append(a, r), c) = Cat(a, Cat(one, c))
  BY <1>1, <1>2, <1>3
<1> QED BY <1>4 DEF Cat, one

\* Flattening a sequence that starts with x concatenates x before the rest.
LEMMA FlattenCons ==
  ASSUME NEW X, NEW t \in Seq(X), NEW ss \in Seq(Seq(X))
  PROVE  FlattenSeq(<<t>> \o ss) = t \o FlattenSeq(ss)
<1> DEFINE P(k) == SubSeq(ss, 1, k)
           S == {k \in 0 .. Len(ss) : FlattenSeq(<<t>> \o P(k)) = t \o FlattenSeq(P(k))}
<1>0. \A a, b, c \in Seq(X) : (a \o b) \o c = a \o (b \o c) /\ a \o b \in Seq(X)
  BY Associates
<1>1. Len(ss) \in Nat /\ P(0) = <<>> /\ P(Len(ss)) = ss /\ <<t>> \in Seq(Seq(X))
  OBVIOUS
<1>2. \A k \in 0 .. Len(ss) : P(k) \in Seq(Seq(X))
  OBVIOUS
<1>3. \A k \in 0 .. Len(ss) - 1 :
        /\ k \in 0 .. Len(ss) /\ k + 1 \in 0 .. Len(ss) /\ ss[k + 1] \in Seq(X)
        /\ P(k + 1) = Append(P(k), ss[k + 1])
  OBVIOUS
<1>4. \A k : k \in S <=> k \in 0 .. Len(ss) /\ FlattenSeq(<<t>> \o P(k)) = t \o FlattenSeq(P(k))
  OBVIOUS
<1> HIDE DEF S, P
<1>5. 0 \in S
  <2>1. <<t>> \o P(0) = Append(<<>>, t) /\ <<>> \in Seq(Seq(X)) /\ <<>> \in Seq(X)
    <3>1. <<t>> \o <<>> = <<t>>
      BY <1>1, ConcatEmptySeq, Zenon
    <3>2. <<t>> = Append(<<>>, t)
      OBVIOUS
    <3> QED BY <1>1, <3>1, <3>2, EmptySeq
  <2>2. FlattenSeq(<<t>> \o P(0)) = <<>> \o t
    BY <2>1, FlattenAppend, FlattenNone
  <2>3. t \o FlattenSeq(P(0)) = t /\ <<>> \o t = t
    BY <1>1, FlattenNone, ConcatEmptySeq
  <2> QED BY <1>1, <1>4, <2>2, <2>3
<1>6. \A k \in 0 .. Len(ss) - 1 : k \in S => k + 1 \in S
  <2> SUFFICES ASSUME NEW k \in 0 .. Len(ss) - 1, k \in S PROVE k + 1 \in S
    OBVIOUS
  <2> DEFINE p == P(k)
             r == ss[k + 1]
             front == <<t>> \o p
  <2>1. p \in Seq(Seq(X)) /\ r \in Seq(X) /\ P(k + 1) = Append(p, r) /\ front \in Seq(Seq(X))
    BY <1>1, <1>2, <1>3
  <2>2. FlattenSeq(front) = t \o FlattenSeq(p) /\ FlattenSeq(p) \in Seq(X)
    BY <1>4, <2>1, FlattenType
  <2>3. <<t>> \o P(k + 1) = Append(front, r)
    <3> HIDE DEF p, r
    <3> DEFINE one == <<t>>
               Z == Seq(X)
    <3>1. one \in Seq(Z) /\ p \in Seq(Z) /\ r \in Z BY <1>1, <2>1
    <3> HIDE DEF one, Z
    <3>2. one \o Append(p, r) = Append(one \o p, r) BY <3>1, ConcatAppend
    <3> QED BY <2>1, <3>2, Zenon DEF one
  <2>4. FlattenSeq(Append(front, r)) = FlattenSeq(front) \o r
    <3> HIDE DEF front, r
    <3> QED BY <2>1, FlattenAppend
  <2>5. FlattenSeq(P(k + 1)) = FlattenSeq(p) \o r
    <3> HIDE DEF p, r
    <3> QED BY <2>1, FlattenAppend
  <2>6. (t \o FlattenSeq(p)) \o r = t \o (FlattenSeq(p) \o r)
    <3> HIDE DEF p, r
    <3> DEFINE fp == FlattenSeq(p)
    <3>1. fp \in Seq(X) BY <2>2
    <3> HIDE DEF fp
    <3>2. r \in Seq(X) BY <2>1
    <3>3. (t \o fp) \o r = t \o (fp \o r) BY <1>0, <3>1, <3>2, Zenon
    <3> QED BY <3>3, Zenon DEF fp
  <2>7. FlattenSeq(<<t>> \o P(k + 1)) = t \o FlattenSeq(P(k + 1))
    <3> HIDE DEF front, p, r
    <3> QED BY <2>2, <2>3, <2>4, <2>5, <2>6, Zenon DEF front
  <2> QED BY <1>3, <1>4, <2>7
<1>7. \A k \in 0 .. Len(ss) : k \in S
  BY <1>1, <1>5, <1>6, Induct
<1>8. Len(ss) \in S
  <2>1. Len(ss) \in 0 .. Len(ss) BY <1>1
  <2> QED BY <1>7, <2>1, Zenon
<1>9. FlattenSeq(<<t>> \o P(Len(ss))) = t \o FlattenSeq(P(Len(ss)))
  BY <1>4, <1>8, Zenon
<1>10. P(Len(ss)) = ss
  BY <1>1
<1> QED BY <1>9, <1>10, Zenon

-----------------------------------------------------------------------------
(***************************************************************************)
(* What a function gives for each element of a sequence, one behind the    *)
(* other.                                                                  *)
(***************************************************************************)
Mapped(F, s) == [n \in DOMAIN s |-> F[s[n]]]

Spread(F, s) == FlattenSeq(Mapped(F, s))

\* The function gives a sequence for every element.
Spreads(F, Y, X) == F \in [Y -> Seq(X)]

\* A sequence is spread to a sequence.
LEMMA SpreadType ==
  ASSUME NEW X, NEW Y, NEW F, Spreads(F, Y, X), NEW s, s \in Seq(Y)
  PROVE  Mapped(F, s) \in Seq(Seq(X)) /\ Spread(F, s) \in Seq(X)
<1> DEFINE Z == Seq(X)
<1>1. F \in [Y -> Z]
  BY DEF Spreads
<1> HIDE DEF Z
<1>2. Mapped(F, s) \in Seq(Z)
  BY <1>1 DEF Mapped
<1> QED BY <1>2, FlattenType DEF Spread, Z

\* Nothing is spread to nothing.
LEMMA SpreadNone ==
  ASSUME NEW F
  PROVE  Spread(F, <<>>) = <<>>
<1>1. Mapped(F, <<>>) = <<>>
  BY DEF Mapped
<1> QED BY <1>1, FlattenNone DEF Spread

\* One more element is spread behind the others.
LEMMA SpreadAppend ==
  ASSUME NEW X, NEW Y, NEW F, Spreads(F, Y, X), NEW s, s \in Seq(Y), NEW y, y \in Y
  PROVE  Spread(F, Append(s, y)) = Spread(F, s) \o F[y]
<1> DEFINE Z == Seq(X)
           m == Mapped(F, s)
<1>1. m \in Seq(Z) /\ F[y] \in Z
  BY SpreadType DEF Spreads
<1>2. F \in [Y -> Z]
  BY DEF Spreads
<1> HIDE DEF Z
<1>3. Mapped(F, Append(s, y)) = Append(m, F[y])
  BY <1>2 DEF Mapped
<1> HIDE DEF m
<1> DEFINE z == F[y]
<1>4. z \in Z
  BY <1>1
<1> HIDE DEF z
<1>5. FlattenSeq(Append(m, z)) = FlattenSeq(m) \o z
  BY <1>1, <1>4, FlattenAppend DEF Z
<1> QED BY <1>3, <1>5 DEF Spread, m, z

\* One element is spread to what the function gives for it.
LEMMA SpreadOne ==
  ASSUME NEW X, NEW Y, NEW F, Spreads(F, Y, X), NEW y, y \in Y
  PROVE  Spread(F, <<y>>) = F[y]
<1>1. <<>> \in Seq(Y) /\ Append(<<>>, y) = <<y>>
  OBVIOUS
<1>2. Spread(F, <<y>>) = Spread(F, <<>>) \o F[y]
  <2> DEFINE none == <<>>
  <2>1. none \in Seq(Y)
    OBVIOUS
  <2>2. Append(none, y) = <<y>>
    OBVIOUS
  <2> HIDE DEF none
  <2>3. Spread(F, Append(none, y)) = Spread(F, none) \o F[y]
    BY <2>1, SpreadAppend
  <2> QED BY <2>2, <2>3 DEF none
<1>3. F[y] \in Seq(X)
  BY DEF Spreads
<1> QED BY <1>2, <1>3, SpreadNone, ConcatEmptySeq

\* Two sequences, one behind the other, are spread one behind the other.
LEMMA SpreadConcat ==
  ASSUME NEW X, NEW Y, NEW F, Spreads(F, Y, X), NEW s, s \in Seq(Y), NEW t, t \in Seq(Y)
  PROVE  Spread(F, s \o t) = Spread(F, s) \o Spread(F, t)
<1> DEFINE P(k) == SubSeq(t, 1, k)
           n == Len(t)
           S == {k \in 0 .. n : Spread(F, s \o P(k)) = Spread(F, s) \o Spread(F, P(k))}
<1>1. /\ n \in Nat /\ P(0) = <<>> /\ P(n) = t /\ \A k \in 0 .. n : P(k) \in Seq(Y)
      /\ \A k \in 0 .. n - 1 :
           /\ k \in 0 .. n /\ k + 1 \in 0 .. n /\ t[k + 1] \in Y
           /\ P(k + 1) = Append(P(k), t[k + 1])
  OBVIOUS
<1>2. \A k : k \in S <=> k \in 0 .. n /\ Spread(F, s \o P(k)) = Spread(F, s) \o Spread(F, P(k))
  OBVIOUS
<1>3. Spread(F, s) \in Seq(X)
  BY SpreadType
<1> HIDE DEF S, P, n
<1>4. 0 \in S
  <2>1. s \o <<>> = s /\ Spread(F, s) \o <<>> = Spread(F, s)
    BY <1>3, ConcatEmptySeq
  <2>2. 0 \in 0 .. n
    BY <1>1
  <2>3. Spread(F, s \o P(0)) = Spread(F, s) \o Spread(F, P(0))
    BY <1>1, <2>1, SpreadNone
  <2> QED BY <1>2, <2>2, <2>3
<1>5. \A k \in 0 .. n - 1 : k \in S => k + 1 \in S
  <2> SUFFICES ASSUME NEW k \in 0 .. n - 1, k \in S PROVE k + 1 \in S
    OBVIOUS
  <2> DEFINE p == P(k)
             y == t[k + 1]
             sp == s \o p
  <2>1. p \in Seq(Y) /\ y \in Y /\ P(k + 1) = Append(p, y)
    BY <1>1
  <2> HIDE DEF p, y
  <2>2. sp \in Seq(Y) /\ s \o Append(p, y) = Append(sp, y)
    BY <2>1, ConcatAppend, ConcatProperties
  <2> HIDE DEF sp
  <2>3. Spread(F, Append(sp, y)) = Spread(F, sp) \o F[y]
    BY <2>1, <2>2, SpreadAppend
  <2>4. Spread(F, Append(p, y)) = Spread(F, p) \o F[y]
    BY <2>1, SpreadAppend
  <2>5. Spread(F, sp) = Spread(F, s) \o Spread(F, p)
    BY <1>2 DEF sp, p
  <2>6. Spread(F, p) \in Seq(X) /\ F[y] \in Seq(X)
    BY <2>1, SpreadType DEF Spreads
  <2> DEFINE a == Spread(F, s)
             b == Spread(F, p)
             c == F[y]
  <2>7. (a \o b) \o c = a \o (b \o c)
    <3>1. a \in Seq(X) /\ b \in Seq(X) /\ c \in Seq(X)
      BY <1>3, <2>6
    <3> HIDE DEF a, b, c
    <3> QED BY <3>1, Regroups
  <2>8. Spread(F, s \o Append(p, y)) = Spread(F, s) \o Spread(F, Append(p, y))
    BY <2>2, <2>3, <2>4, <2>5, <2>7
  <2>9. k + 1 \in 0 .. n
    BY <1>1
  <2> QED BY <1>2, <2>1, <2>8, <2>9
<1>6. n \in S
  <2>1. n \in 0 .. n BY <1>1
  <2>2. \A k \in 0 .. n : k \in S BY <1>1, <1>4, <1>5, Induct
  <2> QED BY <2>1, <2>2
<1> QED BY <1>1, <1>2, <1>6

\* What gives nothing anywhere is nothing; where the elements give themselves, it is
\* the sequence.
LEMMA SpreadTrivial ==
  ASSUME NEW X, NEW Y, NEW F, Spreads(F, Y, X), NEW s, s \in Seq(Y)
  PROVE  /\ (\A n \in DOMAIN s : F[s[n]] = <<>>) => Spread(F, s) = <<>>
         /\ (Y = X /\ \A n \in DOMAIN s : F[s[n]] = <<s[n]>>) => Spread(F, s) = s
<1> DEFINE P(k) == SubSeq(s, 1, k)
           n == Len(s)
<1>1. /\ n \in Nat /\ P(0) = <<>> /\ P(n) = s /\ \A k \in 0 .. n : P(k) \in Seq(Y)
      /\ \A k \in 0 .. n - 1 :
           /\ k \in 0 .. n /\ k + 1 \in 0 .. n /\ k + 1 \in 1 .. n /\ s[k + 1] \in Y
           /\ P(k + 1) = Append(P(k), s[k + 1])
  OBVIOUS
<1>2. n \in 0 .. n /\ DOMAIN s = 1 .. n
  BY <1>1
<1> HIDE DEF P, n
<1>3. \A k \in 0 .. n - 1 : Spread(F, P(k + 1)) = Spread(F, P(k)) \o F[s[k + 1]]
  <2> TAKE k \in 0 .. n - 1
  <2> DEFINE p == P(k)
             y == s[k + 1]
  <2>1. p \in Seq(Y) /\ y \in Y /\ P(k + 1) = Append(p, y)
    BY <1>1
  <2> HIDE DEF p, y
  <2>2. Spread(F, Append(p, y)) = Spread(F, p) \o F[y]
    BY <2>1, SpreadAppend
  <2> QED BY <2>1, <2>2 DEF p, y
<1>4. ASSUME \A i \in DOMAIN s : F[s[i]] = <<>> PROVE Spread(F, s) = <<>>
  <2> DEFINE S == {k \in 0 .. n : Spread(F, P(k)) = <<>>}
  <2>1. \A k : k \in S <=> k \in 0 .. n /\ Spread(F, P(k)) = <<>>
    OBVIOUS
  <2> HIDE DEF S
  <2>2. 0 \in S
    <3>1. 0 \in 0 .. n /\ P(0) = <<>>
      BY <1>1
    <3>2. Spread(F, P(0)) = <<>>
      BY <3>1, SpreadNone
    <3> QED BY <2>1, <3>1, <3>2
  <2>3. \A k \in 0 .. n - 1 : k \in S => k + 1 \in S
    <3> TAKE k \in 0 .. n - 1
    <3>1. F[s[k + 1]] = <<>>
      BY <1>1, <1>2, <1>4
    <3>2. <<>> \o <<>> = <<>>
      OBVIOUS
    <3> QED BY <1>1, <1>3, <2>1, <3>1, <3>2
  <2>4. \A k \in 0 .. n : k \in S
    BY <1>1, <2>2, <2>3, Induct
  <2> QED BY <1>1, <1>2, <2>1, <2>4
<1>5. ASSUME Y = X, \A i \in DOMAIN s : F[s[i]] = <<s[i]>> PROVE Spread(F, s) = s
  <2> DEFINE S == {k \in 0 .. n : Spread(F, P(k)) = P(k)}
  <2>1. \A k : k \in S <=> k \in 0 .. n /\ Spread(F, P(k)) = P(k)
    OBVIOUS
  <2> HIDE DEF S
  <2>2. 0 \in S
    <3>1. 0 \in 0 .. n /\ P(0) = <<>>
      BY <1>1
    <3>2. Spread(F, P(0)) = <<>>
      BY <3>1, SpreadNone
    <3> QED BY <2>1, <3>1, <3>2
  <2>3. \A k \in 0 .. n - 1 : k \in S => k + 1 \in S
    <3> SUFFICES ASSUME NEW k \in 0 .. n - 1, k \in S PROVE k + 1 \in S
      OBVIOUS
    <3> DEFINE p == P(k)
               y == s[k + 1]
    <3>1. F[y] = <<y>> /\ p \in Seq(X) /\ y \in X /\ P(k + 1) = Append(p, y) /\ Spread(F, p) = p
      BY <1>1, <1>2, <1>5, <2>1
    <3>2. Spread(F, P(k + 1)) = p \o <<y>>
      BY <1>3, <3>1
    <3> HIDE DEF p, y
    <3>3. Append(p, y) = p \o <<y>>
      BY <3>1, Ones
    <3> QED BY <1>1, <2>1, <3>1, <3>2, <3>3
  <2>4. \A k \in 0 .. n : k \in S
    BY <1>1, <2>2, <2>3, Induct
  <2> QED BY <1>1, <1>2, <2>1, <2>4
<1> QED BY <1>4, <1>5

\* Where only one element gives something, that is what the sequence is spread to.
LEMMA SpreadOnly ==
  ASSUME NEW X, NEW Y, NEW F, Spreads(F, Y, X), NEW s, s \in Seq(Y), NEW g, g \in 1 .. Len(s),
         \A n \in 1 .. Len(s) : n # g => F[s[n]] = <<>>
  PROVE  Spread(F, s) = F[s[g]]
<1> DEFINE a == SubSeq(s, 1, g - 1)
           b == SubSeq(s, g + 1, Len(s))
           y == s[g]
           ay == Append(a, y)
<1>0. Len(s) \in Nat /\ DOMAIN s = 1 .. Len(s) /\ y \in Y /\ g \in Nat
  OBVIOUS
<1>a. /\ a \in Seq(Y) /\ Len(a) = g - 1 /\ DOMAIN a = 1 .. g - 1
      /\ \A n \in 1 .. g - 1 : a[n] = s[n]
  OBVIOUS
<1>b. /\ b \in Seq(Y) /\ Len(b) = Len(s) - g /\ DOMAIN b = 1 .. Len(s) - g
      /\ \A n \in 1 .. Len(s) - g : b[n] = s[g + n]
  <2> DEFINE m == Len(s)
  <2>1. m \in Nat /\ g + 1 \in 1 .. m + 1 /\ m - (g + 1) + 1 = m - g
    BY <1>0
  <2>2. \A n \in 1 .. m - g : b[n] = s[g + 1 + n - 1] /\ g + 1 + n - 1 = g + n
    BY <1>0, <2>1
  <2>3. b \in Seq(Y)
    <3>1. \A n \in g + 1 .. m : s[n] \in Y
      BY <1>0, <2>1
    <3> QED BY <1>0, <2>1, <3>1
  <2>4. Len(b) = m - g
    <3>1. g + 1 \in Int /\ m \in Int /\ \A n \in g + 1 .. m : s[n] \in Y
      BY <1>0, <2>1
    <3> HIDE DEF m
    <3>2. Len(b) = IF g + 1 <= m THEN m - (g + 1) + 1 ELSE 0
      <4> DEFINE f == g + 1
      <4>1. f \in Int BY <3>1
      <4>2. \A n \in f .. m : s[n] \in Y BY <3>1
      <4> HIDE DEF f
      <4>3. Len(SubSeq(s, f, m)) = IF f <= m THEN m - f + 1 ELSE 0
        BY <3>1, <4>1, <4>2, SubSeqProperties
      <4> QED BY <4>3 DEF f, m
    <3> QED BY <2>1, <3>1, <3>2
  <2>5. DOMAIN b = 1 .. m - g
    BY <2>3, <2>4
  <2> QED BY <2>2, <2>3, <2>4, <2>5
<1> HIDE DEF a, b, y
<1>1. /\ a \in Seq(Y) /\ b \in Seq(Y) /\ y \in Y /\ ay \in Seq(Y)
      /\ \A n \in DOMAIN a : a[n] = s[n] /\ n \in 1 .. Len(s) /\ n # g
      /\ \A n \in DOMAIN b : b[n] = s[g + n] /\ g + n \in 1 .. Len(s) /\ g + n # g
  <2>1. a \in Seq(Y) /\ b \in Seq(Y) /\ y \in Y
    BY <1>0, <1>a, <1>b
  <2>2. ay \in Seq(Y)
    BY <2>1
  <2>3. \A n \in DOMAIN a : a[n] = s[n] /\ n \in 1 .. Len(s) /\ n # g
    BY <1>0, <1>a
  <2>4. \A n \in DOMAIN b : b[n] = s[g + n] /\ g + n \in 1 .. Len(s) /\ g + n # g
    BY <1>0, <1>b
  <2> QED BY <2>1, <2>2, <2>3, <2>4
<1>2. s = ay \o b
  <2>0. /\ Len(ay) = g /\ \A n \in 1 .. g : ay[n] = IF n = g THEN y ELSE a[n]
    BY <1>0, <1>1, <1>a
  <2>1. /\ Len(ay \o b) = Len(s)
        /\ \A n \in 1 .. Len(s) : (ay \o b)[n] = s[n]
    <3> HIDE DEF ay
    <3>0. /\ Len(ay \o b) = Len(ay) + Len(b)
          /\ \A n \in 1 .. Len(ay) + Len(b) :
               (ay \o b)[n] = IF n <= Len(ay) THEN ay[n] ELSE b[n - Len(ay)]
      BY <1>1, ConcatProperties
    <3>1. Len(ay \o b) = Len(s) /\ Len(ay) + Len(b) = Len(s)
      BY <1>0, <1>b, <2>0, <3>0
    <3>2. \A n \in 1 .. Len(s) : (ay \o b)[n] = IF n <= g THEN ay[n] ELSE b[n - g]
      BY <2>0, <3>0, <3>1
    <3>3. \A n \in 1 .. Len(s) : ~(n <= g) => b[n - g] = s[n]
      <4> TAKE n \in 1 .. Len(s)
      <4> HAVE ~(n <= g)
      <4>1. n - g \in 1 .. Len(s) - g /\ g + (n - g) = n
        BY <1>0
      <4> QED BY <1>b, <4>1
    <3>4. \A n \in 1 .. Len(s) : n <= g => ay[n] = s[n]
      BY <1>0, <1>a, <2>0 DEF y
    <3> QED BY <3>1, <3>2, <3>3, <3>4
  <2>2. ay \o b \in Seq(Y)
    BY <1>1, ConcatProperties
  <2> DEFINE q == ay \o b
  <2>3. q \in Seq(Y) /\ Len(q) = Len(s) /\ \A n \in 1 .. Len(s) : q[n] = s[n]
    BY <2>1, <2>2
  <2> HIDE DEF q
  <2>4. q = s
    BY <2>3
  <2> QED BY <2>4 DEF q
<1>3. Spread(F, a) = <<>> /\ Spread(F, b) = <<>>
  <2>1. (\A n \in DOMAIN a : F[a[n]] = <<>>)
    BY <1>1
  <2>2. (\A n \in DOMAIN b : F[b[n]] = <<>>)
    BY <1>1
  <2> QED BY <1>1, <2>1, <2>2, SpreadTrivial
<1>4. Spread(F, ay) = Spread(F, a) \o F[y]
  BY <1>1, SpreadAppend
<1> HIDE DEF ay
<1>5. Spread(F, s) = Spread(F, ay) \o Spread(F, b)
  BY <1>1, <1>2, SpreadConcat
<1>6. F[y] \in Seq(X)
  BY <1>1 DEF Spreads
<1>7. <<>> \o F[y] = F[y] /\ F[y] \o <<>> = F[y]
  BY <1>6, ConcatEmptySeq
<1> QED BY <1>3, <1>4, <1>5, <1>7 DEF y

\* Only what the function gives along the sequence matters.
LEMMA SpreadSame ==
  ASSUME NEW F, NEW s, NEW t, DOMAIN s = DOMAIN t, \A n \in DOMAIN s : F[s[n]] = F[t[n]]
  PROVE  Spread(F, s) = Spread(F, t)
<1>1. Mapped(F, s) = Mapped(F, t)
  BY DEF Mapped
<1> QED BY <1>1 DEF Spread

\* Sequences of sequences, one behind the other, are flattened one behind the other.
LEMMA FlattenConcat ==
  ASSUME NEW X, NEW ss, ss \in Seq(Seq(X)), NEW tt, tt \in Seq(Seq(X))
  PROVE  FlattenSeq(ss \o tt) = FlattenSeq(ss) \o FlattenSeq(tt)
<1> DEFINE Z == Seq(X)
           F == [s \in Z |-> s]
<1>1. F \in [Z -> Z]
  OBVIOUS
<1>2. Spreads(F, Z, X)
  BY <1>1 DEF Spreads
<1>3. ss \in Seq(Z) /\ tt \in Seq(Z) /\ ss \o tt \in Seq(Z)
  BY ConcatProperties
<1>4. \A u \in Seq(Z) : Mapped(F, u) = u
  <2> HIDE DEF Z
  <2> QED BY DEF Mapped
<1> HIDE DEF F, Z
<1>5. Spread(F, ss \o tt) = Spread(F, ss) \o Spread(F, tt)
  BY <1>2, <1>3, SpreadConcat
<1> QED BY <1>3, <1>4, <1>5 DEF Spread

\* Two sequences, one behind the other.
Joined(s, a, b) == s = a \o b

\* A sequence in two parts.
Parts(Y, s, k, a, b) ==
  /\ a \in Seq(Y) /\ Len(a) = k /\ DOMAIN a = 1 .. k /\ \A n \in 1 .. k : a[n] = s[n]
  /\ b \in Seq(Y) /\ Len(b) = Len(s) - k /\ DOMAIN b = 1 .. Len(s) - k
  /\ \A n \in 1 .. Len(s) - k : b[n] = s[n + k] /\ n + k \in 1 .. Len(s)
  /\ s = a \o b

\* A sequence is what it starts with and the rest.
LEMMA Parted ==
  ASSUME NEW Y, NEW s, s \in Seq(Y), NEW k, k \in 0 .. Len(s),
         NEW a, a = SubSeq(s, 1, k), NEW b, b = SubSeq(s, k + 1, Len(s))
  PROVE  Parts(Y, s, k, a, b)
<1> DEFINE m == Len(s)
           f == k + 1
<1>1. m \in Nat /\ DOMAIN s = 1 .. m /\ k \in Nat /\ k <= m /\ f \in Int /\ 1 \in Int
      /\ \A n \in 1 .. m : s[n] \in Y
  OBVIOUS
<1>2. /\ a \in Seq(Y) /\ Len(a) = k /\ DOMAIN a = 1 .. k /\ \A n \in 1 .. k : a[n] = s[n]
  <2>1. \A n \in 1 .. k : s[n] \in Y
    BY <1>1
  <2> QED BY <1>1, <2>1, SubSeqProperties
<1>3. \A n \in f .. m : s[n] \in Y
  BY <1>1
<1>4. b = SubSeq(s, f, m)
  OBVIOUS
<1>5. f = k + 1
  OBVIOUS
<1> HIDE DEF m, f
<1>6. /\ b \in Seq(Y) /\ Len(b) = (IF f <= m THEN m - f + 1 ELSE 0)
      /\ \A n \in 1 .. m - f + 1 : b[n] = s[f + n - 1]
  BY <1>1, <1>3, <1>4, SubSeqProperties
<1>7. Len(b) = m - k /\ m - f + 1 = m - k
  BY <1>1, <1>5, <1>6
<1>8. DOMAIN b = 1 .. m - k
  BY <1>6, <1>7
<1>9. \A n \in 1 .. m - k : b[n] = s[n + k] /\ n + k \in 1 .. m
  <2> TAKE n \in 1 .. m - k
  <2>1. n \in 1 .. m - f + 1 /\ f + n - 1 = n + k /\ n + k \in 1 .. m
    BY <1>1, <1>5, <1>7
  <2> QED BY <1>6, <2>1
<1>10. /\ a \o b \in Seq(Y) /\ Len(a \o b) = Len(a) + Len(b)
       /\ \A n \in 1 .. Len(a) + Len(b) : (a \o b)[n] = IF n <= Len(a) THEN a[n] ELSE b[n - Len(a)]
  <2>1. a \in Seq(Y) /\ b \in Seq(Y)
    BY <1>2, <1>6
  <2> QED BY <2>1, ConcatProperties
<1> DEFINE q == a \o b
<1>a. Len(a) = k /\ Len(a) + Len(b) = m
  <2> DEFINE x == Len(a)
             y == Len(b)
  <2>1. x = k
    BY <1>2
  <2>2. y = m - k /\ m \in Nat /\ k \in Nat
    BY <1>1, <1>7
  <2> HIDE DEF x, y
  <2>3. x + y = m
    BY <2>1, <2>2
  <2> QED BY <2>1, <2>3 DEF x, y
<1>11. q \in Seq(Y) /\ Len(q) = m
  BY <1>a, <1>10
<1>12. ASSUME NEW n \in 1 .. m PROVE q[n] = s[n]
  <2>1. n \in 1 .. Len(a) + Len(b) /\ Len(a) = k
    BY <1>a
  <2>2. CASE n <= k
    <3>1. n \in 1 .. k
      BY <2>2
    <3> QED BY <1>2, <1>10, <2>1, <3>1
  <2>3. CASE ~(n <= k)
    <3>1. n - k \in 1 .. m - k /\ (n - k) + k = n
      BY <1>1, <2>3
    <3>2. q[n] = b[n - k]
      BY <1>10, <2>1, <2>3
    <3> QED BY <1>9, <3>1, <3>2
  <2> QED BY <2>2, <2>3
<1> HIDE DEF q
<1>13. q = s
  BY <1>1, <1>11, <1>12 DEF m
<1> QED BY <1>2, <1>6, <1>7, <1>8, <1>9, <1>13 DEF m, q, Parts

\* What functions give along sequences, where they give the same.
LEMMA SpreadAlike ==
  ASSUME NEW F, NEW s, NEW G, NEW r, DOMAIN s = DOMAIN r, \A n \in DOMAIN r : F[s[n]] = G[r[n]]
  PROVE  Spread(F, s) = Spread(G, r)
<1>1. Mapped(F, s) = Mapped(G, r)
  BY DEF Mapped
<1> QED BY <1>1 DEF Spread

\* The ids of a sequence of rows, and contributions that are all of them.
IdsOf(q) == {q[n] : n \in DOMAIN q}
OfIds(ids, s) == \A n \in DOMAIN s : s[n][1] \in ids

\* Where an id is, and contributions in the order of their rows.
Place(q, id) == CHOOSE i \in DOMAIN q : q[i] = id
InOrder(q, s) ==
  \A m, n \in DOMAIN s :
    m < n /\ s[m][1] \in IdsOf(q) /\ s[n][1] \in IdsOf(q) => Place(q, s[m][1]) < Place(q, s[n][1])

\* Two pieces of contributions and the whole.
Pieces(s, a, b) ==
  /\ DOMAIN a = 1 .. Len(a) /\ Len(a) \in Nat /\ DOMAIN b = 1 .. Len(b) /\ Len(b) \in Nat
  /\ DOMAIN s = 1 .. Len(a) + Len(b)
  /\ \A n \in DOMAIN a : n \in DOMAIN s /\ s[n] = a[n]
  /\ \A n \in DOMAIN b : n + Len(a) \in DOMAIN s /\ s[n + Len(a)] = b[n]
  /\ \A n \in DOMAIN s : n \in DOMAIN a \/ n - Len(a) \in DOMAIN b

\* What is put together has these pieces.
LEMMA JoinedPieces ==
  ASSUME NEW X, NEW a, a \in Seq(X), NEW b, b \in Seq(X), NEW s, s = a \o b
  PROVE  Pieces(s, a, b) /\ s \in Seq(X)
<1> DEFINE x == Len(a)
           y == Len(b)
<1>1. /\ s \in Seq(X) /\ Len(s) = x + y
      /\ \A n \in 1 .. x + y : s[n] = IF n <= x THEN a[n] ELSE b[n - x]
  BY ConcatProperties
<1>2. DOMAIN a = 1 .. x /\ x \in Nat /\ DOMAIN b = 1 .. y /\ y \in Nat
  OBVIOUS
<1>3. DOMAIN s = 1 .. x + y
  <2>1. DOMAIN s = 1 .. Len(s)
    BY <1>1
  <2> QED BY <1>1, <2>1
<1> HIDE DEF x, y
<1>4. \A n \in 1 .. x : n \in 1 .. x + y /\ s[n] = a[n]
  BY <1>1, <1>2
<1>5. \A n \in 1 .. y : n + x \in 1 .. x + y /\ s[n + x] = b[n]
  <2> TAKE n \in 1 .. y
  <2>1. n + x \in 1 .. x + y /\ ~(n + x <= x) /\ (n + x) - x = n
    BY <1>2
  <2> QED BY <1>1, <2>1
<1>6. \A n \in 1 .. x + y : n \in 1 .. x \/ n - x \in 1 .. y
  BY <1>2
<1> QED BY <1>1, <1>2, <1>3, <1>4, <1>5, <1>6 DEF Pieces, x, y

\* Pieces of contributions that are of ids, or in order, are.
LEMMA OfPieces ==
  ASSUME NEW s, NEW a, NEW b, Pieces(s, a, b)
  PROVE  /\ \A ids : OfIds(ids, s) <=> OfIds(ids, a) /\ OfIds(ids, b)
         /\ \A q : InOrder(q, s) => InOrder(q, a) /\ InOrder(q, b)
<1>1. ASSUME NEW ids PROVE OfIds(ids, s) <=> OfIds(ids, a) /\ OfIds(ids, b)
  <2>1. ASSUME OfIds(ids, s) PROVE OfIds(ids, a) /\ OfIds(ids, b)
    BY <2>1 DEF OfIds, Pieces
  <2>2. ASSUME OfIds(ids, a), OfIds(ids, b) PROVE OfIds(ids, s)
    <3> SUFFICES ASSUME NEW n \in DOMAIN s PROVE s[n][1] \in ids
      BY DEF OfIds
    <3>1. CASE n \in DOMAIN a
      BY <2>2, <3>1 DEF OfIds, Pieces
    <3>2. CASE n - Len(a) \in DOMAIN b
      <4>1. n \in Int /\ Len(a) \in Int
        BY DEF Pieces
      <4>2. (n - Len(a)) + Len(a) = n
        BY <4>1
      <4> QED BY <2>2, <3>2, <4>2 DEF OfIds, Pieces
    <3> QED BY <3>1, <3>2 DEF Pieces
  <2> QED BY <2>1, <2>2
<1>2. ASSUME NEW q, InOrder(q, s) PROVE InOrder(q, a)
  BY <1>2 DEF InOrder, Pieces
<1>3. ASSUME NEW q, InOrder(q, s) PROVE InOrder(q, b)
  <2> SUFFICES ASSUME NEW m \in DOMAIN b, NEW n \in DOMAIN b, m < n,
                      b[m][1] \in IdsOf(q), b[n][1] \in IdsOf(q)
               PROVE  Place(q, b[m][1]) < Place(q, b[n][1])
    BY DEF InOrder
  <2>1. m \in Int /\ n \in Int /\ Len(a) \in Int
    BY DEF Pieces
  <2>2. m + Len(a) < n + Len(a)
    BY <2>1
  <2>3. /\ m + Len(a) \in DOMAIN s /\ s[m + Len(a)] = b[m]
        /\ n + Len(a) \in DOMAIN s /\ s[n + Len(a)] = b[n]
    BY DEF Pieces
  <2> QED BY <1>3, <2>2, <2>3 DEF InOrder
<1> QED BY <1>1, <1>2, <1>3

\* What an element of a sequence gives is a piece of what the sequence is spread to.
LEMMA SpreadPiece ==
  ASSUME NEW X, NEW Y, NEW F, Spreads(F, Y, X), NEW s, s \in Seq(Y), NEW n, n \in 1 .. Len(s)
  PROVE  \E u, v \in Seq(X) : Joined(Spread(F, s), u, F[s[n]] \o v)
<1> DEFINE k == n - 1
           a == SubSeq(s, 1, k)
           b == SubSeq(s, k + 1, Len(s))
           c == SubSeq(b, 1, 1)
           d == SubSeq(b, 2, Len(b))
           y == s[n]
           one == <<y>>
<1>0. n \in Nat /\ Len(s) \in Nat /\ k \in 0 .. Len(s) /\ y \in Y /\ k + 1 = n /\ 1 \in 1 .. Len(s) - k
  OBVIOUS
<1>1. Parts(Y, s, k, a, b)
  <2> HIDE DEF k, a, b
  <2>1. a = SubSeq(s, 1, k) /\ b = SubSeq(s, k + 1, Len(s))
    BY DEF a, b
  <2> QED BY <1>0, <2>1, Parted
<1> HIDE DEF k, a, b, y
<1>2. a \in Seq(Y) /\ b \in Seq(Y) /\ s = a \o b /\ Len(b) \in Nat /\ 1 \in 0 .. Len(b) /\ b[1] = y
  <2>1. /\ a \in Seq(Y) /\ b \in Seq(Y) /\ s = a \o b /\ Len(b) = Len(s) - k
        /\ \A m \in 1 .. Len(s) - k : b[m] = s[m + k]
    BY <1>1 DEF Parts
  <2>2. Len(s) - k \in Nat /\ 1 \in 0 .. Len(s) - k /\ 1 + k = n
    BY <1>0
  <2> QED BY <1>0, <2>1, <2>2 DEF y
<1>3. Parts(Y, b, 1, c, d)
  <2> HIDE DEF c, d
  <2>1. c = SubSeq(b, 1, 1) /\ d = SubSeq(b, 1 + 1, Len(b))
    BY DEF c, d
  <2> QED BY <1>2, <2>1, Parted
<1> HIDE DEF c, d
<1>4. c \in Seq(Y) /\ d \in Seq(Y) /\ b = c \o d /\ c = one
  <2>1. c \in Seq(Y) /\ d \in Seq(Y) /\ b = c \o d /\ Len(c) = 1 /\ c[1] = b[1]
    BY <1>3 DEF Parts
  <2> QED BY <1>2, <2>1
<1>5. Spread(F, s) = Spread(F, a) \o Spread(F, b)
  BY <1>2, SpreadConcat
<1>6. Spread(F, b) = Spread(F, c) \o Spread(F, d)
  <2>1. c \in Seq(Y) /\ d \in Seq(Y)
    BY <1>4
  <2>2. Spread(F, c \o d) = Spread(F, c) \o Spread(F, d)
    BY <2>1, SpreadConcat
  <2> QED BY <1>4, <2>2
<1>7. Spread(F, c) = F[y]
  BY <1>0, <1>4, SpreadOne
<1>8. Spread(F, a) \in Seq(X) /\ Spread(F, d) \in Seq(X)
  BY <1>2, <1>4, SpreadType
<1> DEFINE u == Spread(F, a)
           v == Spread(F, d)
<1>9. Joined(Spread(F, s), u, F[s[n]] \o v)
  BY <1>5, <1>6, <1>7 DEF Joined, y
<1> HIDE DEF u, v
<1> QED BY <1>8, <1>9 DEF u, v

\* It is in the sequence.
Has(s, e) == \E n \in DOMAIN s : s[n] = e

\* A contribution of one of the rows in the sequence.
Alone(q, e) == e[1] \in IdsOf(q) /\ q \in Seq(Nat)

\* What is in a whole is in a piece, and nothing of a row's own is in two.
LEMMA HasPieces ==
  ASSUME NEW s, NEW a, NEW b, Pieces(s, a, b), NEW e
  PROVE  /\ Has(s, e) <=> Has(a, e) \/ Has(b, e)
         /\ \A q : InOrder(q, s) /\ Alone(q, e) => ~(Has(a, e) /\ Has(b, e))
<1>1. ASSUME Has(s, e) PROVE Has(a, e) \/ Has(b, e)
  <2>1. PICK n \in DOMAIN s : s[n] = e
    BY <1>1 DEF Has
  <2>2. CASE n \in DOMAIN a
    BY <2>1, <2>2 DEF Has, Pieces
  <2>3. CASE n - Len(a) \in DOMAIN b
    <3>1. n \in Int /\ Len(a) \in Int
      BY DEF Pieces
    <3>2. (n - Len(a)) + Len(a) = n
      BY <3>1
    <3> QED BY <2>1, <2>3, <3>2 DEF Has, Pieces
  <2> QED BY <2>2, <2>3 DEF Pieces
<1>2. ASSUME Has(a, e) \/ Has(b, e) PROVE Has(s, e)
  BY <1>2 DEF Has, Pieces
<1>3. ASSUME NEW q, InOrder(q, s), Alone(q, e), Has(a, e), Has(b, e) PROVE FALSE
  <2>1. PICK m \in DOMAIN a : a[m] = e
    BY <1>3 DEF Has
  <2>2. PICK n \in DOMAIN b : b[n] = e
    BY <1>3 DEF Has
  <2>3. /\ m \in DOMAIN s /\ s[m] = e /\ n + Len(a) \in DOMAIN s /\ s[n + Len(a)] = e
    BY <2>1, <2>2 DEF Pieces
  <2>4. m < n + Len(a)
    BY DEF Pieces
  <2>5. Place(q, e[1]) < Place(q, e[1])
    BY <1>3, <2>3, <2>4 DEF InOrder, Alone
  <2>6. Place(q, e[1]) \in Int
    <3>1. \E i \in DOMAIN q : q[i] = e[1]
      BY <1>3 DEF Alone, IdsOf
    <3>2. Place(q, e[1]) \in DOMAIN q
      BY <3>1 DEF Place
    <3> QED BY <1>3, <3>2 DEF Alone
  <2> QED BY <2>5, <2>6
<1> QED BY <1>1, <1>2, <1>3

\* What a sequence is spread to has what its elements give.
LEMMA SpreadHas ==
  ASSUME NEW X, NEW Y, NEW F, Spreads(F, Y, X), NEW s, s \in Seq(Y), NEW e
  PROVE  Has(Spread(F, s), e) <=> \E n \in DOMAIN s : Has(F[s[n]], e)
<1>1. ASSUME NEW n \in DOMAIN s, Has(F[s[n]], e) PROVE Has(Spread(F, s), e)
  <2> DEFINE w == Spread(F, s)
             f == F[s[n]]
  <2>1. n \in 1 .. Len(s) /\ f \in Seq(X)
    BY DEF Spreads
  <2>2. PICK u, v \in Seq(X) : Joined(w, u, f \o v)
    BY <2>1, SpreadPiece
  <2> DEFINE fv == f \o v
  <2> HIDE DEF w, f
  <2>3. Pieces(fv, f, v) /\ fv \in Seq(X)
    BY <2>1, JoinedPieces
  <2>4. w = u \o fv
    BY <2>2 DEF Joined
  <2> HIDE DEF fv
  <2>5. Pieces(w, u, fv)
    BY <2>3, <2>4, JoinedPieces
  <2>6. Has(f, e)
    BY <1>1 DEF f
  <2>7. Has(fv, e)
    BY <2>3, <2>6, HasPieces
  <2>8. Has(w, e)
    BY <2>5, <2>7, HasPieces
  <2> QED BY <2>8 DEF w
<1>2. ASSUME \A n \in DOMAIN s : ~Has(F[s[n]], e), Has(Spread(F, s), e) PROVE FALSE
  <2> DEFINE Z == {s[n] : n \in DOMAIN s}
             W == X \ {e}
             G == [y \in Z |-> F[y]]
  <2>1. s \in Seq(Z)
    OBVIOUS
  <2>2. ASSUME NEW y \in Z PROVE F[y] \in Seq(W)
    <3>1. PICK n \in DOMAIN s : y = s[n]
      OBVIOUS
    <3> DEFINE f == F[y]
    <3>2. f \in Seq(X)
      BY <3>1 DEF Spreads
    <3>3. ~Has(f, e)
      BY <1>2, <3>1
    <3> HIDE DEF f
    <3>4. \A i \in DOMAIN f : f[i] \in W
      BY <3>2, <3>3 DEF Has
    <3> HIDE DEF W
    <3>5. f \in Seq(W)
      BY <3>2, <3>4
    <3> QED BY <3>5 DEF f
  <2>3. Spreads(G, Z, W)
    <3> DEFINE V == Seq(W)
    <3>1. \A y \in Z : F[y] \in V
      BY <2>2
    <3> HIDE DEF V, Z
    <3>2. G \in [Z -> V]
      BY <3>1
    <3> QED BY <3>2 DEF Spreads, V
  <2>4. \A n \in DOMAIN s : F[s[n]] = G[s[n]]
    OBVIOUS
  <2> HIDE DEF Z, W, G
  <2>5. Spread(F, s) = Spread(G, s)
    BY <2>4, SpreadAlike
  <2>6. Spread(G, s) \in Seq(W)
    BY <2>1, <2>3, SpreadType
  <2>7. e \in W
    BY <1>2, <2>5, <2>6 DEF Has
  <2> QED BY <2>7 DEF W
<1> QED BY <1>1, <1>2

\* Where what is spread is in order, no two elements give the same of a row's own.
LEMMA SpreadApart ==
  ASSUME NEW X, NEW Y, NEW F, Spreads(F, Y, X), NEW s, s \in Seq(Y), NEW e,
         NEW q, InOrder(q, Spread(F, s)), Alone(q, e),
         NEW m, m \in DOMAIN s, NEW n, n \in DOMAIN s, Has(F[s[m]], e), Has(F[s[n]], e)
  PROVE  m = n
<1>1. ASSUME NEW i, i \in DOMAIN s, NEW j, j \in DOMAIN s, Has(F[s[i]], e), Has(F[s[j]], e), i < j
      PROVE  FALSE
  <2> DEFINE a == SubSeq(s, 1, i)
             b == SubSeq(s, i + 1, Len(s))
  <2>1. i \in 0 .. Len(s) /\ i \in Nat /\ j \in 1 .. Len(s) /\ i \in 1 .. i /\ j - i \in 1 .. Len(s) - i
        /\ j - i + i = j
    BY <1>1
  <2>2. Parts(Y, s, i, a, b)
    <3>1. a = SubSeq(s, 1, i) /\ b = SubSeq(s, i + 1, Len(s))
      OBVIOUS
    <3> HIDE DEF a, b
    <3> QED BY <2>1, <3>1, Parted
  <2> HIDE DEF a, b
  <2>3. /\ a \in Seq(Y) /\ i \in DOMAIN a /\ a[i] = s[i]
        /\ b \in Seq(Y) /\ j - i \in DOMAIN b /\ b[j - i] = s[j] /\ s = a \o b
    BY <2>1, <2>2 DEF Parts
  <2>4. Has(Spread(F, a), e)
    BY <1>1, <2>3, SpreadHas
  <2>5. Has(Spread(F, b), e)
    BY <1>1, <2>3, SpreadHas
  <2> DEFINE u == Spread(F, a)
             v == Spread(F, b)
             w == Spread(F, s)
  <2>6. u \in Seq(X) /\ v \in Seq(X)
    BY <2>3, SpreadType
  <2>7. w = u \o v
    BY <2>3, SpreadConcat
  <2> HIDE DEF u, v, w
  <2>8. Pieces(w, u, v)
    BY <2>6, <2>7, JoinedPieces
  <2> QED BY <2>4, <2>5, <2>8, HasPieces DEF u, v, w
<1>2. m \in Int /\ n \in Int
  OBVIOUS
<1>3. ~(m < n) /\ ~(n < m)
  BY <1>1
<1> QED BY <1>2, <1>3

\* What an element of rows in order gives is in order.
LEMMA SpreadKeepsOrder ==
  ASSUME NEW X, NEW Y, NEW F, Spreads(F, Y, X), NEW s, s \in Seq(Y), NEW n, n \in DOMAIN s,
         NEW q, InOrder(q, Spread(F, s))
  PROVE  InOrder(q, F[s[n]])
<1> DEFINE w == Spread(F, s)
           f == F[s[n]]
<1>1. n \in 1 .. Len(s) /\ f \in Seq(X)
  BY DEF Spreads
<1>2. PICK u, v \in Seq(X) : Joined(w, u, f \o v)
  BY <1>1, SpreadPiece
<1> DEFINE fv == f \o v
<1>3. InOrder(q, w)
  OBVIOUS
<1> HIDE DEF w, f
<1>4. Pieces(fv, f, v) /\ fv \in Seq(X)
  BY <1>1, JoinedPieces
<1>5. w = u \o fv
  BY <1>2 DEF Joined
<1> HIDE DEF fv
<1>6. Pieces(w, u, fv)
  BY <1>4, <1>5, JoinedPieces
<1>7. InOrder(q, fv)
  BY <1>3, <1>6, OfPieces
<1>8. InOrder(q, f)
  BY <1>4, <1>7, OfPieces
<1> QED BY <1>8 DEF f

\* In contributions in order, one of a row's own is once.
LEMMA OnceInOrder ==
  ASSUME NEW q, NEW X, NEW s, s \in Seq(X), InOrder(q, s), NEW e, Alone(q, e), Has(s, e)
  PROVE  Cardinality({n \in DOMAIN s : s[n] = e}) = 1
<1>1. PICK n \in DOMAIN s : s[n] = e
  BY DEF Has
<1>2. Place(q, e[1]) \in Int
  <2>1. \E i \in DOMAIN q : q[i] = e[1]
    BY DEF Alone, IdsOf
  <2>2. Place(q, e[1]) \in DOMAIN q
    BY <2>1 DEF Place
  <2> QED BY <2>2 DEF Alone
<1>3. ASSUME NEW m \in DOMAIN s, s[m] = e PROVE m = n
  <2>1. m \in Int /\ n \in Int
    OBVIOUS
  <2>2. ~(m < n) /\ ~(n < m)
    BY <1>1, <1>2, <1>3 DEF InOrder, Alone
  <2> QED BY <2>1, <2>2
<1>4. {m \in DOMAIN s : s[m] = e} = {n}
  BY <1>1, <1>3
<1> QED BY <1>4, FS_Singleton
=============================================================================
