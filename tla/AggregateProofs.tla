--------------------------- MODULE AggregateProofs ---------------------------
(***************************************************************************)
(* The grouped accumulator, for every grid, input and grouping.  First the *)
(* two helpers every row goes through: the span that grows to hold it      *)
(* (Span::include) and the check of its timestamps (Grid::try_runs).  Then *)
(* each operation of a store, and last the invariant of the accumulators   *)
(* and of what is sent between them: a call fails only on malformed rows,  *)
(* no span costs more than twice its cells, rows are folded in the order   *)
(* they arrived, and every sample given is in one cell, once.              *)
(***************************************************************************)
EXTENDS Aggregate, SequenceFacts, FiniteSetTheorems

-----------------------------------------------------------------------------
(***************************************************************************)
(* Span::include.                                                          *)
(***************************************************************************)
Fields == {"first", "start", "len", "seen", "lanes", "moved"}

\* A bit that is not set.
Unseen == FALSE

\* A span whose bitmap and lanes are of its length.
IsSpan(s) ==
  /\ DOMAIN s = Fields
  /\ s.first \in Nat /\ s.start \in Nat /\ s.len \in Nat /\ s.moved \in Nat
  /\ s.start <= s.len
  /\ DOMAIN s.seen = 0 .. s.len - 1 /\ DOMAIN s.lanes = 0 .. s.len - 1

\* Headroom holds nothing yet.
Clear(s) == \A i \in 0 .. s.start - 1 : s.seen[i] = Unseen /\ s.lanes[i] = Fresh

\* What a span holds of a step of the grid.
CellAt(s, g) ==
  IF s.first <= g /\ g < s.first + Active(s)
  THEN [seen |-> s.seen[s.start + g - s.first], cell |-> s.lanes[s.start + g - s.first]]
  ELSE [seen |-> Unseen, cell |-> Fresh]

\* The front moved into the headroom.
Shift(s, left) == [s EXCEPT !.start = @ - left, !.first = @ - left]

\* Headroom is no wider than what it serves and stays on the grid; once it
\* reaches grid zero nothing moves again, and before that the cells there are
\* outnumber those ever moved.
Lean(s) ==
  /\ s.start <= s.first /\ s.start <= Active(s)
  /\ s.moved <= 2 * s.len
  /\ s.start = s.first \/ s.moved <= s.len

\* Cells put in front of others (Vec::splice).
LEMMA PrependExact ==
  ASSUME NEW cells, NEW fill, NEW count \in Nat, NEW m \in Nat
  PROVE  /\ DOMAIN Prepend(cells, count, m, fill) = 0 .. m - 1
         /\ \A i \in 0 .. m - 1 :
              Prepend(cells, count, m, fill)[i] = IF i < count THEN fill ELSE cells[i - count]
  BY DEF Prepend

\* Cells put behind others (Vec::resize).
LEMMA ResizeExact ==
  ASSUME NEW cells, NEW fill, NEW m \in Nat
  PROVE  /\ DOMAIN Resize(cells, m, fill) = 0 .. m - 1
         /\ \A i \in 0 .. m - 1 :
              Resize(cells, m, fill)[i] = IF i \in DOMAIN cells THEN cells[i] ELSE fill
  BY DEF Resize

\* Rebasing gives headroom and moves every cell with its step (Span::include).
LEMMA RebaseExact ==
  ASSUME NEW s, IsSpan(s), Clear(s), NEW count \in Nat, NEW r, r = Rebase(s, count)
  PROVE  /\ IsSpan(r) /\ Clear(r) /\ \A g \in Nat : CellAt(r, g) = CellAt(s, g)
         /\ r.first = s.first /\ r.start = s.start + count /\ r.len = s.len + count
         /\ r.moved = s.moved + s.len
<1>1. /\ s.first \in Nat /\ s.start \in Nat /\ s.len \in Nat /\ s.moved \in Nat
      /\ s.start <= s.len /\ DOMAIN s = Fields
      /\ DOMAIN s.seen = 0 .. s.len - 1 /\ DOMAIN s.lanes = 0 .. s.len - 1
  BY DEF IsSpan
<1>2. /\ DOMAIN r = Fields
      /\ r.first = s.first /\ r.start = s.start + count /\ r.len = s.len + count
      /\ r.moved = s.moved + s.len
      /\ r.seen = Prepend(s.seen, count, r.len, Unseen)
      /\ r.lanes = Prepend(s.lanes, count, r.len, Fresh)
  BY <1>1 DEF Rebase, Fields, Unseen
<1>3. r.len \in Nat
  BY <1>1, <1>2
<1>4. /\ DOMAIN r.seen = 0 .. r.len - 1 /\ DOMAIN r.lanes = 0 .. r.len - 1
      /\ \A i \in 0 .. count - 1 : r.seen[i] = Unseen /\ r.lanes[i] = Fresh
      /\ \A i \in count .. r.len - 1 :
           r.seen[i] = s.seen[i - count] /\ r.lanes[i] = s.lanes[i - count]
  <2>1. /\ DOMAIN r.seen = 0 .. r.len - 1
        /\ \A i \in 0 .. r.len - 1 : r.seen[i] = IF i < count THEN Unseen ELSE s.seen[i - count]
    BY <1>2, <1>3, PrependExact
  <2>2. /\ DOMAIN r.lanes = 0 .. r.len - 1
        /\ \A i \in 0 .. r.len - 1 : r.lanes[i] = IF i < count THEN Fresh ELSE s.lanes[i - count]
    BY <1>2, <1>3, PrependExact
  <2>3. /\ \A i \in 0 .. count - 1 : i \in 0 .. r.len - 1 /\ i < count
        /\ \A i \in count .. r.len - 1 : i \in 0 .. r.len - 1 /\ ~(i < count)
    BY SMTT(30), <1>1, <1>2, <1>3
  <2> QED BY <2>1, <2>2, <2>3
<1>5. IsSpan(r)
  BY SMTT(30), <1>1, <1>2, <1>3, <1>4 DEF IsSpan
<1>6. Clear(r)
  <2> SUFFICES ASSUME NEW i \in 0 .. r.start - 1
               PROVE  r.seen[i] = Unseen /\ r.lanes[i] = Fresh
    BY DEF Clear
  <2>1. CASE i < count BY <1>1, <1>2, <1>4, <2>1
  <2>2. CASE count <= i
    <3>1. i - count \in 0 .. s.start - 1 BY <1>1, <1>2, <2>2
    <3>2. s.seen[i - count] = Unseen /\ s.lanes[i - count] = Fresh BY <3>1 DEF Clear
    <3>3. i \in count .. r.len - 1 BY <1>1, <1>2, <2>2
    <3> QED BY <1>4, <3>2, <3>3
  <2> QED BY <1>1, <1>2, <2>1, <2>2
<1>7. ASSUME NEW g \in Nat PROVE CellAt(r, g) = CellAt(s, g)
  <2>1. Active(r) = Active(s) /\ Active(s) = s.len - s.start BY <1>1, <1>2 DEF Active
  <2>2. CASE s.first <= g /\ g < s.first + Active(s)
    <3> DEFINE i == r.start + g - r.first
               k == s.start + g - s.first
    <3>1. k \in Nat /\ s.start <= k /\ k < s.len
      BY <1>1, <2>1, <2>2
    <3>a. i = k + count
      BY <1>1, <1>2
    <3> HIDE DEF i, k
    <3>b. i \in count .. r.len - 1 /\ i - count = k
      BY <1>1, <1>2, <3>1, <3>a
    <3>2. r.seen[i] = s.seen[k] /\ r.lanes[i] = s.lanes[k]
      BY <1>4, <3>b
    <3> USE DEF i, k
    <3> QED BY <1>2, <2>1, <2>2, <3>2 DEF CellAt
  <2>3. CASE ~(s.first <= g /\ g < s.first + Active(s))
    BY <1>2, <2>1, <2>3 DEF CellAt
  <2> QED BY <2>2, <2>3
<1> QED BY <1>2, <1>5, <1>6, <1>7

\* Moving the front into the headroom adds steps that hold nothing.
LEMMA ShiftExact ==
  ASSUME NEW s, IsSpan(s), Clear(s), NEW left \in Nat, left <= s.start, left <= s.first,
         NEW r, r = Shift(s, left)
  PROVE  /\ IsSpan(r) /\ Clear(r) /\ \A g \in Nat : CellAt(r, g) = CellAt(s, g)
         /\ r.first = s.first - left /\ r.start = s.start - left /\ r.len = s.len
         /\ r.moved = s.moved
<1>1. /\ s.first \in Nat /\ s.start \in Nat /\ s.len \in Nat /\ s.moved \in Nat
      /\ s.start <= s.len /\ DOMAIN s = Fields
      /\ DOMAIN s.seen = 0 .. s.len - 1 /\ DOMAIN s.lanes = 0 .. s.len - 1
  BY DEF IsSpan
<1>2. /\ DOMAIN r = Fields
      /\ r.first = s.first - left /\ r.start = s.start - left /\ r.len = s.len
      /\ r.moved = s.moved /\ r.seen = s.seen /\ r.lanes = s.lanes
  BY <1>1 DEF Fields, Shift
<1>3. IsSpan(r) /\ Clear(r)
  <2>1. r.first \in Nat /\ r.start \in Nat /\ r.start <= r.len BY <1>1, <1>2
  <2>2. IsSpan(r) BY <1>1, <1>2, <2>1 DEF IsSpan
  <2>3. \A i \in 0 .. r.start - 1 : i \in 0 .. s.start - 1 BY <1>1, <1>2
  <2> QED BY <1>2, <2>2, <2>3 DEF Clear
<1>4. ASSUME NEW g \in Nat PROVE CellAt(r, g) = CellAt(s, g)
  <2>1. /\ Active(r) = Active(s) + left /\ Active(s) \in Nat
        /\ r.start + g - r.first = s.start + g - s.first
    BY SMTT(30), <1>1, <1>2 DEF Active
  <2>2. CASE s.first <= g /\ g < s.first + Active(s)
    <3>1. r.first <= g /\ g < r.first + Active(r) BY SMTT(30), <1>1, <1>2, <2>1, <2>2
    <3> QED BY <1>2, <2>1, <2>2, <3>1 DEF CellAt
  <2>3. CASE r.first <= g /\ g < s.first
    <3>1. s.start + g - s.first \in 0 .. s.start - 1 BY SMTT(30), <1>1, <1>2, <2>3
    <3>2. s.seen[s.start + g - s.first] = Unseen /\ s.lanes[s.start + g - s.first] = Fresh
      BY <3>1 DEF Clear
    <3>3. g < r.first + Active(r) BY <1>1, <1>2, <2>1, <2>3
    <3> QED BY <1>1, <1>2, <2>1, <2>3, <3>2, <3>3 DEF CellAt
  <2>4. CASE g < r.first \/ s.first + Active(s) <= g
    <3>1. ~(r.first <= g /\ g < r.first + Active(r)) BY SMTT(30), <1>1, <1>2, <2>1, <2>4
    <3>2. ~(s.first <= g /\ g < s.first + Active(s)) BY <1>1, <1>2, <2>1, <2>4
    <3> QED BY <3>1, <3>2 DEF CellAt
  <2> QED BY SMTT(30), <1>1, <1>2, <2>1, <2>2, <2>3, <2>4
<1> QED BY <1>2, <1>3, <1>4

\* Widening adds steps at the back that hold nothing (Span::resize).
LEMMA WidenExact ==
  ASSUME NEW s, IsSpan(s), Clear(s), NEW len \in Nat, s.len <= len, NEW r, r = Widen(s, len)
  PROVE  /\ IsSpan(r) /\ Clear(r) /\ \A g \in Nat : CellAt(r, g) = CellAt(s, g)
         /\ r.first = s.first /\ r.start = s.start /\ r.len = len /\ r.moved = s.moved
<1>1. /\ s.first \in Nat /\ s.start \in Nat /\ s.len \in Nat /\ s.moved \in Nat
      /\ s.start <= s.len /\ DOMAIN s = Fields
      /\ DOMAIN s.seen = 0 .. s.len - 1 /\ DOMAIN s.lanes = 0 .. s.len - 1
  BY DEF IsSpan
<1>2. /\ DOMAIN r = Fields
      /\ r.first = s.first /\ r.start = s.start /\ r.len = len /\ r.moved = s.moved
      /\ r.seen = Resize(s.seen, len, Unseen) /\ r.lanes = Resize(s.lanes, len, Fresh)
  BY <1>1 DEF Widen, Fields, Unseen
<1>3. /\ DOMAIN r.seen = 0 .. len - 1 /\ DOMAIN r.lanes = 0 .. len - 1
      /\ \A i \in 0 .. s.len - 1 : r.seen[i] = s.seen[i] /\ r.lanes[i] = s.lanes[i]
      /\ \A i \in s.len .. len - 1 : r.seen[i] = Unseen /\ r.lanes[i] = Fresh
  BY <1>1, <1>2, ResizeExact
<1>4. IsSpan(r) /\ Clear(r)
  <2>1. IsSpan(r) BY <1>1, <1>2, <1>3 DEF IsSpan
  <2>2. \A i \in 0 .. r.start - 1 : i \in 0 .. s.start - 1 /\ i \in 0 .. s.len - 1
    BY <1>1, <1>2
  <2> QED BY <1>3, <2>1, <2>2 DEF Clear
<1>5. ASSUME NEW g \in Nat PROVE CellAt(r, g) = CellAt(s, g)
  <2>1. Active(r) = len - s.start /\ Active(s) = s.len - s.start BY <1>2 DEF Active
  <2>2. CASE s.first <= g /\ g < s.first + Active(s)
    <3>1. s.start + g - s.first \in 0 .. s.len - 1
      BY SMTT(30), <1>1, <2>1, <2>2
    <3>2. r.first <= g /\ r.start + g - r.first = s.start + g - s.first
      BY <1>2, <2>2
    <3>3. g < r.first + Active(r)
      BY <1>1, <1>2, <2>1, <2>2
    <3> QED BY <1>3, <2>2, <3>1, <3>2, <3>3 DEF CellAt
  <2>3. CASE s.first + Active(s) <= g /\ g < r.first + Active(r)
    <3>1. /\ s.start + g - s.first \in s.len .. len - 1
          /\ r.first <= g /\ ~(g < s.first + Active(s))
          /\ r.start + g - r.first = s.start + g - s.first
      BY SMTT(30), <1>1, <1>2, <2>1, <2>3
    <3> QED BY <1>3, <2>3, <3>1 DEF CellAt
  <2>4. CASE g < s.first \/ r.first + Active(r) <= g
    <3>1. ~(r.first <= g /\ g < r.first + Active(r)) BY <1>1, <1>2, <2>1, <2>4
    <3>2. ~(s.first <= g /\ g < s.first + Active(s)) BY <1>1, <1>2, <2>1, <2>4
    <3> QED BY <3>1, <3>2 DEF CellAt
  <2> QED BY <1>1, <1>2, <2>1, <2>2, <2>3, <2>4
<1> QED BY <1>2, <1>4, <1>5

(***************************************************************************)
(* Growing a span to hold a row's steps, either way and any distance,      *)
(* moves every cell with its step, gives out only fresh cells, and keeps   *)
(* the cost linear: all the cells ever moved are at most twice those there *)
(* are (Span::include).                                                    *)
(***************************************************************************)
THEOREM IncludeIsExact ==
  ASSUME NEW old, IsSpan(old), Clear(old), Lean(old),
         NEW first \in Nat, NEW last \in Nat, first <= last
  PROVE  LET new == Include(old, first, last)
         IN  /\ IsSpan(new) /\ Clear(new) /\ Lean(new)
             /\ new.first <= first /\ last < new.first + Active(new)
             /\ \A g \in Nat : CellAt(new, g) = CellAt(old, g)
<1> DEFINE span == IF Active(old) = 0 THEN [old EXCEPT !.first = first] ELSE old
           left == IF first < span.first THEN span.first - first ELSE 0
           end == IF last + 1 > span.first + Active(span) THEN last + 1
                  ELSE span.first + Active(span)
           count == Headroom(span, left)
           roomy == IF left > span.start THEN Rebase(span, count) ELSE span
           moved == Shift(roomy, left)
           needed == moved.start + end - moved.first
           new == IF needed > moved.len THEN Widen(moved, needed) ELSE moved
<1>1. Include(old, first, last) = new
  BY DEF Include, Shift
<1>2. /\ IsSpan(span) /\ Clear(span) /\ Lean(span)
      /\ \A g \in Nat : CellAt(span, g) = CellAt(old, g)
  <2>1. CASE Active(old) = 0
    <3>1. /\ old.first \in Nat /\ old.start = 0 /\ old.len = 0 /\ old.moved = 0
          /\ DOMAIN old = Fields
          /\ DOMAIN old.seen = 0 .. old.len - 1 /\ DOMAIN old.lanes = 0 .. old.len - 1
      BY <2>1 DEF IsSpan, Lean, Active
    <3>2. /\ span.first = first /\ span.start = 0 /\ span.len = 0 /\ span.moved = 0
          /\ span.seen = old.seen /\ span.lanes = old.lanes /\ DOMAIN span = Fields
      BY <2>1, <3>1 DEF Fields
    <3> HIDE DEF span
    <3>3. IsSpan(span) /\ Clear(span)
      BY <3>1, <3>2 DEF IsSpan, Clear
    <3>4. Lean(span)
      BY <3>2 DEF Lean, Active
    <3>5. \A g \in Nat : CellAt(span, g) = CellAt(old, g)
      BY <3>1, <3>2 DEF CellAt, Active
    <3> QED BY <3>3, <3>4, <3>5
  <2>2. CASE Active(old) # 0
    BY <2>2
  <2> QED BY <2>1, <2>2
<1> HIDE DEF span
<1>3. /\ span.first \in Nat /\ span.start \in Nat /\ span.len \in Nat /\ span.moved \in Nat
      /\ span.start <= span.len /\ span.start <= span.first
      /\ span.start <= span.len - span.start /\ span.moved <= 2 * span.len
      /\ span.start = span.first \/ span.moved <= span.len
  BY <1>2 DEF IsSpan, Lean, Active
<1>4. left \in Nat /\ left <= span.first /\ span.first - left <= first
  BY <1>3
<1>5. left > span.start =>
        /\ count \in Nat /\ left <= span.start + count
        /\ span.start + count <= span.first
        /\ count <= span.len \/ count <= left - span.start
        /\ span.start + count = span.first \/ span.len <= count
        /\ span.moved <= span.len
  BY <1>3, <1>4 DEF Headroom
<1> HIDE DEF left, count
<1>6. /\ IsSpan(roomy) /\ Clear(roomy)
      /\ \A g \in Nat : CellAt(roomy, g) = CellAt(span, g)
      /\ roomy.first = span.first /\ left <= roomy.start
      /\ left > span.start =>
           /\ roomy.start = span.start + count /\ roomy.len = span.len + count
           /\ roomy.moved = span.moved + span.len
      /\ ~(left > span.start) => roomy = span
  <2>1. CASE left > span.start
    <3>1. roomy = Rebase(span, count) BY <2>1
    <3> HIDE DEF roomy
    <3>2. count \in Nat BY <1>5, <2>1
    <3>3. /\ IsSpan(roomy) /\ Clear(roomy)
          /\ \A g \in Nat : CellAt(roomy, g) = CellAt(span, g)
          /\ roomy.first = span.first /\ roomy.start = span.start + count
          /\ roomy.len = span.len + count /\ roomy.moved = span.moved + span.len
      BY <1>2, <3>1, <3>2, RebaseExact
    <3>4. left <= roomy.start BY <1>5, <2>1, <3>3
    <3> QED BY <2>1, <3>3, <3>4
  <2>2. CASE ~(left > span.start)
    <3>1. roomy = span BY <2>2
    <3> HIDE DEF roomy
    <3> QED BY <1>2, <1>3, <1>4, <2>2, <3>1
  <2> QED BY <2>1, <2>2
<1> HIDE DEF roomy
<1>7. /\ IsSpan(moved) /\ Clear(moved)
      /\ \A g \in Nat : CellAt(moved, g) = CellAt(roomy, g)
      /\ moved.first = span.first - left /\ moved.start = roomy.start - left
      /\ moved.len = roomy.len /\ moved.moved = roomy.moved
  <2>1. moved = Shift(roomy, left)
    OBVIOUS
  <2>2. left <= roomy.first
    BY <1>4, <1>6
  <2> HIDE DEF moved
  <2>3. /\ IsSpan(moved) /\ Clear(moved)
        /\ \A g \in Nat : CellAt(moved, g) = CellAt(roomy, g)
        /\ moved.first = roomy.first - left /\ moved.start = roomy.start - left
        /\ moved.len = roomy.len /\ moved.moved = roomy.moved
    BY <1>4, <1>6, <2>1, <2>2, ShiftExact
  <2> QED BY <1>6, <2>3
<1> HIDE DEF moved
<1>8. /\ moved.first \in Nat /\ moved.start \in Nat /\ moved.len \in Nat
      /\ moved.moved \in Nat /\ roomy.start \in Nat /\ roomy.len \in Nat
  BY <1>6, <1>7 DEF IsSpan
<1>9. Lean(moved)
  <2>1. CASE left > span.start
    BY <1>3, <1>4, <1>5, <1>6, <1>7, <1>8, <2>1 DEF Lean, Active
  <2>2. CASE ~(left > span.start)
    BY <1>3, <1>4, <1>6, <1>7, <1>8, <2>2 DEF Lean, Active
  <2> QED BY <2>1, <2>2
<1>10. end \in Nat /\ last < end /\ moved.first <= end
  BY <1>3, <1>4, <1>7 DEF Active
<1> HIDE DEF end
<1>11. needed \in Nat /\ needed = moved.start + end - moved.first
  BY <1>8, <1>10
<1> HIDE DEF needed
<1>12. /\ IsSpan(new) /\ Clear(new)
       /\ \A g \in Nat : CellAt(new, g) = CellAt(moved, g)
       /\ new.first = moved.first /\ new.start = moved.start /\ new.moved = moved.moved
       /\ new.len \in Nat /\ moved.len <= new.len /\ needed <= new.len
  BY <1>7, <1>8, <1>11, WidenExact
<1> HIDE DEF new
<1>13. Lean(new)
  BY <1>8, <1>9, <1>12 DEF Lean, Active
<1>14. new.first <= first /\ last < new.first + Active(new)
  BY <1>4, <1>7, <1>8, <1>10, <1>11, <1>12 DEF Active
<1> QED BY <1>1, <1>2, <1>6, <1>7, <1>12, <1>13, <1>14

-----------------------------------------------------------------------------
(***************************************************************************)
(* Grid::try_runs.                                                         *)
(***************************************************************************)
\* Min of a set of naturals is one of them, and the least (FiniteSetsExt).
LEMMA MinIsLeast ==
  ASSUME NEW S, S \subseteq Nat, S # {}
  PROVE  Min(S) \in S /\ \A n \in S : Min(S) <= n
  BY Least DEF Min

\* A number is its quotient times the divisor and the rest.
LEMMA DivMod ==
  ASSUME NEW a \in Nat, NEW d \in Nat, 0 < d
  PROVE  /\ a \div d \in Nat /\ (a \div d) * d \in Nat
         /\ a = (a \div d) * d + (a % d)
  BY SMT

\* The quotient and the rest of a multiple.
LEMMA MultipleDivMod ==
  ASSUME NEW i \in Nat, NEW d \in Nat, 0 < d
  PROVE  i * d \in Nat /\ (i * d) \div d = i /\ (i * d) % d = 0
  BY SMT

\* Multiples of a positive number ascend.
LEMMA MulMono ==
  ASSUME NEW i \in Int, NEW j \in Int, NEW d \in Nat, 0 < d
  PROVE  (i * d <= j * d) <=> (i <= j)
  BY SMT

\* A time is on the grid exactly when it is the time of a step (Grid::index).
LEMMA OnGridExact ==
  ASSUME grid \in Grids, NEW t \in Int
  PROVE  OnGrid(t) <=> \E i \in 0 .. grid.len - 1 : t = Timestamp(i)
<1> DEFINE d == grid.step
<1>1. /\ grid.start \in Int /\ d \in Int /\ 0 < d /\ grid.len \in Int /\ 0 < grid.len
      /\ (grid.len - 1) * d <= IntMax /\ IntMax \in Int
  BY AggregateAssumption DEF Grids
<1>2. ASSUME OnGrid(t) PROVE \E i \in 0 .. grid.len - 1 : t = Timestamp(i)
  <2> DEFINE o == t - grid.start
             i == o \div d
  <2>1. o \in Nat /\ o % d = 0 /\ i < grid.len
    BY <1>1, <1>2 DEF OnGrid
  <2>2. i \in Nat /\ i * d \in Nat /\ o = i * d + (o % d)
    BY <1>1, <2>1, DivMod
  <2>a. o = i * d
    <3> DEFINE m == i * d
               rest == o % d
    <3>1. m \in Nat /\ o = m + rest /\ rest = 0 BY <2>1, <2>2
    <3> HIDE DEF m, rest, o
    <3>2. o = m BY <3>1
    <3> QED BY <3>2 DEF m
  <2>b. t = grid.start + o
    BY <1>1
  <2> HIDE DEF i, o
  <2>3. t = grid.start + i * d
    BY <2>a, <2>b, Zenon
  <2>c. t = Timestamp(i)
    BY <2>3 DEF Timestamp
  <2>4. i \in 0 .. grid.len - 1
    <3>1. i \in Nat /\ i < grid.len BY <2>1, <2>2, Zenon
    <3> QED BY <1>1, <3>1
  <2> QED BY <2>c, <2>4
<1>3. ASSUME NEW i \in 0 .. grid.len - 1, t = Timestamp(i) PROVE OnGrid(t)
  <2> DEFINE o == t - grid.start
  <2>1. o = i * d
    BY <1>1, <1>3 DEF Timestamp
  <2>2. i * d <= (grid.len - 1) * d
    BY <1>1, MulMono
  <2>3. i * d \in Nat /\ (i * d) \div d = i /\ (i * d) % d = 0
    BY <1>1, MultipleDivMod
  <2> QED BY <1>1, <2>1, <2>2, <2>3 DEF OnGrid
<1> QED BY <1>2, <1>3

\* The times along a row of one run ascend step by step.
LEMMA FollowsAscends ==
  ASSUME grid \in Grids, NEW times \in Seq(Int), NEW k \in 2 .. Len(times)
  PROVE  /\ times[k] \in Int /\ times[k - 1] \in Int
         /\ Follows(times, k) => times[k] = times[k - 1] + grid.step /\ times[k - 1] < times[k]
<1>1. grid.step \in Int /\ 0 < grid.step
  BY AggregateAssumption DEF Grids
<1>2. k \in 1 .. Len(times) /\ k - 1 \in 1 .. Len(times)
  OBVIOUS
<1>3. times[k] \in Int /\ times[k - 1] \in Int
  BY <1>2
<1> QED BY <1>1, <1>3 DEF Follows

\* Where each time is after the one before it, it is after every earlier one.
LEMMA AscendingPairwise ==
  ASSUME NEW times \in Seq(Int), \A k \in 2 .. Len(times) : times[k - 1] < times[k]
  PROVE  \A j, k \in 1 .. Len(times) : j < k => times[j] < times[k]
<1> SUFFICES ASSUME NEW j \in 1 .. Len(times), NEW k \in 1 .. Len(times), j < k,
                    ~(times[j] < times[k])
             PROVE  FALSE
  OBVIOUS
<1> DEFINE Bad == {n \in 1 .. Len(times) : j < n /\ ~(times[j] < times[n])}
<1>1. Bad \subseteq Nat /\ k \in Bad
  OBVIOUS
<1> HIDE DEF Bad
<1>2. PICK m \in Bad : \A n \in Bad : m <= n
  BY <1>1, Least
<1>3. m \in 1 .. Len(times) /\ j < m /\ ~(times[j] < times[m])
  BY <1>2 DEF Bad
<1>4. m - 1 \in 1 .. Len(times) /\ j <= m - 1 /\ m \in 2 .. Len(times)
  BY <1>3
<1>5. m - 1 \notin Bad
  BY <1>2, <1>4
<1>6. times[j] <= times[m - 1]
  <2>1. CASE j = m - 1 BY <2>1
  <2>2. CASE j < m - 1
    <3>1. times[j] < times[m - 1] BY <1>4, <1>5, <2>2 DEF Bad
    <3>2. times[j] \in Int /\ times[m - 1] \in Int BY SMTT(30), <1>4
    <3> QED BY <3>1, <3>2
  <2> QED BY <1>4, <2>1, <2>2
<1>7. times[m - 1] < times[m] /\ times[j] \in Int /\ times[m - 1] \in Int /\ times[m] \in Int
  BY SMTT(30), <1>3, <1>4
<1> QED BY <1>3, <1>6, <1>7

\* Every run ends within the row, at or after its start (Runs::next).
LEMMA RunEnds ==
  ASSUME NEW times \in Seq(Int), NEW r \in Runs(times)
  PROVE  r.from \in 1 .. Len(times) /\ r.to \in 1 .. Len(times)
<1>1. PICK s \in Edges(times) \cup {k \in DOMAIN times : k = 1} :
        r = [from |-> s, to |-> Min({e \in Edges(times) \cup {Len(times) + 1} : e > s}) - 1]
  BY DEF Runs
<1> DEFINE Later == {e \in Edges(times) \cup {Len(times) + 1} : e > s}
<1>2. s \in 1 .. Len(times)
  BY <1>1 DEF Edges
<1>3. Later \subseteq Nat /\ Later # {} /\ Len(times) + 1 \in Later
  <2>1. Len(times) + 1 \in Later BY <1>2
  <2>2. Later \subseteq Nat BY DEF Edges
  <2> QED BY <2>1, <2>2
<1>4. \A e \in Later : s < e /\ e <= Len(times) + 1
  BY <1>2 DEF Edges
<1>5. r.from = s /\ r.to = Min(Later) - 1
  BY <1>1
<1> HIDE DEF Later
<1>6. Min(Later) \in Later
  BY <1>3, MinIsLeast
<1>7. Min(Later) \in Nat /\ s < Min(Later) /\ Min(Later) <= Len(times) + 1
  BY <1>3, <1>4, <1>6
<1> QED BY <1>2, <1>5, <1>7

\* The last run ends with the row.
LEMMA LastRun ==
  ASSUME NEW times \in Seq(Int), times # <<>>
  PROVE  \E r \in Runs(times) : r.to = Len(times)
<1> DEFINE N == Len(times)
           Starts == Edges(times) \cup {k \in DOMAIN times : k = 1}
           Before == {n \in Nat : \E s \in Starts : s = N - n}
<1>1. N \in Nat /\ N # 0 /\ DOMAIN times = 1 .. N
  OBVIOUS
<1>2. Starts \subseteq 1 .. N /\ 1 \in Starts
  BY <1>1 DEF Edges
<1>3. N - 1 \in Before
  BY <1>1, <1>2
<1>4. PICK n \in Before : \A o \in Before : n <= o
  <2>1. Before \subseteq Nat /\ Before # {} BY <1>3
  <2> HIDE DEF Before
  <2> QED BY <2>1, Least
<1>5. PICK s \in Starts : s = N - n
  OBVIOUS
<1>6. \A e \in Starts : e <= s
  <2> SUFFICES ASSUME NEW e \in Starts PROVE e <= s
    OBVIOUS
  <2>1. e \in 1 .. N /\ N - e \in Nat /\ e = N - (N - e)
    BY <1>1, <1>2
  <2>2. N - e \in Before
    BY <2>1
  <2>3. n <= N - e /\ n \in Nat
    BY <1>4, <2>2
  <2>4. N \in Nat BY <1>1
  <2> HIDE DEF N, Starts, Before
  <2> QED BY <1>5, <2>1, <2>3, <2>4
<1> DEFINE Later == {e \in Edges(times) \cup {N + 1} : e > s}
           r == [from |-> s, to |-> Min(Later) - 1]
<1>7. s \in 1 .. N
  BY <1>2, <1>5
<1>8. N + 1 \in Later /\ \A e \in Later : e = N + 1
  <2>a. N + 1 > s
    <3>1. N \in Nat BY <1>1
    <3> HIDE DEF N, Starts, Before
    <3> QED BY <1>7, <3>1
  <2>1. N + 1 \in Later BY <2>a
  <2>2. \A e \in Edges(times) : e \in Int /\ e <= s BY <1>6 DEF Edges
  <2> QED BY <1>7, <2>1, <2>2
<1>9. Min(Later) = N + 1
  <2>1. Later \subseteq Nat /\ Later # {} BY <1>1, <1>8
  <2> HIDE DEF Later
  <2> QED BY <1>8, <2>1, MinIsLeast
<1>10. r \in Runs(times)
  BY <1>5 DEF Runs
<1>11. r.to = N
  BY <1>1, <1>9
<1> QED BY <1>10, <1>11

\* Every time of a row whose runs start on the grid is a whole number of steps
\* from the grid's start.
LEMMA WholeSteps ==
  ASSUME grid \in Grids, NEW times \in Seq(Int), Accepted(times)
  PROVE  \A k \in 1 .. Len(times) : \E i \in Nat : times[k] = Timestamp(i)
<1> DEFINE Bad == {k \in 1 .. Len(times) : ~\E i \in Nat : times[k] = Timestamp(i)}
<1> SUFFICES ASSUME Bad # {} PROVE FALSE
  OBVIOUS
<1>1. Bad \subseteq Nat
  OBVIOUS
<1> HIDE DEF Bad
<1>2. PICK m \in Bad : \A n \in Bad : m <= n
  BY <1>1, Least
<1>3. m \in 1 .. Len(times) /\ ~\E i \in Nat : times[m] = Timestamp(i)
  BY <1>2 DEF Bad
<1>4. times[m] \in Int
  BY <1>3
<1>5. ~OnGrid(times[m])
  BY <1>3, <1>4, OnGridExact
<1>6. m \notin Edges(times) /\ m # 1
  <2> SUFFICES ASSUME m \in Edges(times) \cup {k \in DOMAIN times : k = 1} PROVE FALSE
    BY <1>3
  <2> DEFINE end == Min({e \in Edges(times) \cup {Len(times) + 1} : e > m}) - 1
  <2>a. [from |-> m, to |-> end] \in Runs(times)
    BY DEF Runs
  <2>1. PICK r \in Runs(times) : r.from = m
    BY <2>a
  <2> QED BY <1>5, <2>1 DEF Accepted
<1>7. m \in 2 .. Len(times) /\ Follows(times, m)
  BY <1>3, <1>6 DEF Edges
<1>8. m - 1 \in 1 .. Len(times) /\ m - 1 \notin Bad
  BY <1>2, <1>7
<1>9. PICK i \in Nat : times[m - 1] = Timestamp(i)
  BY <1>8 DEF Bad
<1>10. times[m] = times[m - 1] + grid.step
  BY <1>7, FollowsAscends
<1>11. /\ grid.start \in Int /\ grid.step \in Int
       /\ i * grid.step \in Int /\ (i + 1) * grid.step = i * grid.step + grid.step
  BY AggregateAssumption DEF Grids
<1>12. times[m] = Timestamp(i + 1)
  <2> DEFINE p == i * grid.step
  <2>1. times[m - 1] = grid.start + p BY <1>9 DEF Timestamp
  <2>2. Timestamp(i + 1) = grid.start + (p + grid.step) BY <1>11 DEF Timestamp
  <2>3. p \in Int BY <1>11
  <2> HIDE DEF p
  <2> QED BY <1>10, <1>11, <2>1, <2>2, <2>3
<1> QED BY <1>3, <1>12

(***************************************************************************)
(* Looking at the two ends of every run is enough: a row is let through    *)
(* exactly when its timestamps are ascending steps of the grid             *)
(* (Grid::try_runs).                                                       *)
(***************************************************************************)
THEOREM AcceptedIsWellFormed ==
  ASSUME grid \in Grids, NEW times \in Seq(Int)
  PROVE  Accepted(times) <=> WellFormed(times)
<1> DEFINE N == Len(times)
<1>1. N \in Nat /\ DOMAIN times = 1 .. N /\ \A k \in 1 .. N : times[k] \in Int
  OBVIOUS
<1>2. ASSUME Accepted(times) PROVE WellFormed(times)
  <2>1. \A k \in 2 .. N : times[k - 1] < times[k]
    <3> SUFFICES ASSUME NEW k \in 2 .. N PROVE times[k - 1] < times[k]
      OBVIOUS
    <3>1. CASE k \in Edges(times)
      <4>1. times[k] > times[k - 1] BY <1>2, <3>1 DEF Accepted
      <4> QED BY <4>1, FollowsAscends
    <3>2. CASE k \notin Edges(times)
      BY <3>2, FollowsAscends DEF Edges
    <3> QED BY <3>1, <3>2
  <2>2. \A j, k \in 1 .. N : j < k => times[j] < times[k]
    BY <2>1, AscendingPairwise
  <2>3. ASSUME NEW k \in 1 .. N PROVE \E i \in 0 .. grid.len - 1 : times[k] = Timestamp(i)
    <3>1. PICK i \in Nat : times[k] = Timestamp(i)
      BY <1>2, WholeSteps
    <3>2. PICK r \in Runs(times) : r.to = N
      BY LastRun
    <3>3. N \in 1 .. N /\ times[N] \in Int /\ OnGrid(times[N])
      BY <1>1, <1>2, <3>2 DEF Accepted
    <3>4. PICK l \in 0 .. grid.len - 1 : times[N] = Timestamp(l)
      BY <3>3, OnGridExact
    <3>5. times[k] <= times[N]
      <4>1. CASE k = N BY <1>1, <4>1
      <4>2. CASE k < N BY <1>1, <2>2, <3>3, <4>2
      <4>3. k = N \/ k < N
        <5>1. N \in Nat BY <1>1
        <5> HIDE DEF N
        <5> QED BY <5>1
      <4> QED BY <4>1, <4>2, <4>3
    <3>6. /\ grid.start \in Int /\ grid.step \in Nat /\ 0 < grid.step
          /\ grid.len \in Int /\ l \in Nat
      BY SMTT(30), AggregateAssumption DEF Grids
    <3>7. i * grid.step \in Int /\ l * grid.step \in Int
      BY <3>6
    <3>8. i * grid.step <= l * grid.step
      <4> DEFINE a == i * grid.step
                 b == l * grid.step
      <4>1. grid.start + a <= grid.start + b BY <3>1, <3>4, <3>5 DEF Timestamp
      <4>2. a \in Int /\ b \in Int BY <3>7
      <4> HIDE DEF a, b
      <4>3. a <= b BY <3>6, <4>1, <4>2
      <4> QED BY <4>3 DEF a, b
    <3>9. i <= l
      BY SMTT(30), <3>6, <3>8, MulMono
    <3>10. i \in 0 .. grid.len - 1
      BY <3>4, <3>6, <3>9
    <3> QED BY <3>1, <3>10
  <2> QED BY <1>1, <2>2, <2>3 DEF WellFormed
<1>3. ASSUME WellFormed(times) PROVE Accepted(times)
  <2>1. ASSUME NEW k \in Edges(times) PROVE times[k] > times[k - 1]
    <3>1. k \in 1 .. N /\ k - 1 \in 1 .. N /\ k - 1 < k BY DEF Edges
    <3>2. times[k - 1] < times[k] BY <1>1, <1>3, <3>1 DEF WellFormed
    <3> QED BY <1>1, <3>1, <3>2
  <2>2. ASSUME NEW r \in Runs(times) PROVE OnGrid(times[r.from]) /\ OnGrid(times[r.to])
    <3>1. r.from \in 1 .. N /\ r.to \in 1 .. N BY RunEnds
    <3>2. \A k \in 1 .. N : OnGrid(times[k])
      BY <1>1, <1>3, OnGridExact DEF WellFormed
    <3> QED BY <3>1, <3>2
  <2> QED BY <2>1, <2>2 DEF Accepted
<1> QED BY <1>2, <1>3
-----------------------------------------------------------------------------
(***************************************************************************)
(* The folds of the model: the groups of a batch, its rows no filter       *)
(* drops, and the bytes of the spans.                                      *)
(***************************************************************************)
\* The bits and the cells of a span of any length.
Bits == UNION {[0 .. n - 1 -> BOOLEAN] : n \in Nat}
Lanes == UNION {[0 .. n - 1 -> Cell] : n \in Nat}

SpanType ==
  [first : Nat, start : Nat, len : Nat, seen : Bits, lanes : Lanes, moved : Nat]

\* What a group is known by.
GroupKeys == Nat

\* InternedWith as a function.
Interning(R) == [kr \in Seq(GroupKeys) \X R |-> InternedWith(kr[1], kr[2])]

\* Interned is a solution of its recursion.
LEMMA InternedFolds ==
  ASSUME NEW R, \A r \in R : r.key \in GroupKeys, NEW known \in Seq(GroupKeys), NEW s \in Seq(R)
  PROVE  FoldsTo(Seq(GroupKeys), Interning(R), known, s, Interned(known, s))
<1> DEFINE X == Seq(GroupKeys)
           Y == R
           H == Interning(R)
           base == known
           Iter == CHOOSE iter : iter = [T \in SUBSET DOMAIN s |->
                     IF T = {} THEN known ELSE InternedWith(iter[T \ {Max(T)}], s[Max(T)])]
<1>1. Interned(known, s) = Iter[DOMAIN s]
  BY Zenon DEF Interned, FoldLeft, MapThenFoldSet
<1>2. H \in [X \X Y -> X] /\ base \in X /\ s \in Seq(Y)
      /\ \A x \in X, y \in Y : H[<<x, y>>] = InternedWith(x, y)
  <2>1. \A x \in X, y \in Y : InternedWith(x, y) \in X
    BY DEF InternedWith
  <2>2. H = [xy \in X \X Y |-> InternedWith(xy[1], xy[2])]
    BY DEF Interning
  <2>3. base \in X /\ s \in Seq(Y)
    OBVIOUS
  <2> HIDE DEF X, Y, base
  <2>4. \A xy \in X \X Y : InternedWith(xy[1], xy[2]) \in X
    BY <2>1
  <2>5. H \in [X \X Y -> X]
    BY <2>2, <2>4
  <2>6. \A x \in X, y \in Y : H[<<x, y>>] = InternedWith(x, y)
    BY <2>2
  <2> QED BY <2>3, <2>5, <2>6
<1>3. base = known
  OBVIOUS
<1> HIDE DEF X, Y, H, base
<1>4. PICK g \in [SUBSET DOMAIN s -> X] : FoldsOver(H, base, s, g)
  BY <1>2, FoldExists, Zenon
<1>5. \A T \in SUBSET DOMAIN s : T # {} =>
        Max(T) \in DOMAIN s /\ s[Max(T)] \in Y /\ T \ {Max(T)} \in SUBSET DOMAIN s
  <2> TAKE T \in SUBSET DOMAIN s
  <2> HAVE T # {}
  <2>1. DOMAIN s = 1 .. Len(s) /\ Len(s) \in Nat BY <1>2
  <2>2. Max(T) \in T
    BY <2>1, MaxIn
  <2> QED BY <1>2, <2>1, <2>2
<1>6. \A T \in SUBSET DOMAIN s :
        g[T] = IF T = {} THEN known ELSE InternedWith(g[T \ {Max(T)}], s[Max(T)])
  <2> TAKE T \in SUBSET DOMAIN s
  <2>1. CASE T = {} BY <1>3, <1>4, <2>1 DEF FoldsOver
  <2>2. CASE T # {} BY <1>2, <1>4, <1>5, <2>2 DEF FoldsOver
  <2> QED BY <2>1, <2>2
<1>7. g = [T \in SUBSET DOMAIN s |->
             IF T = {} THEN known ELSE InternedWith(g[T \ {Max(T)}], s[Max(T)])]
  BY <1>4, <1>6, Zenon
<1>8. Iter = [T \in SUBSET DOMAIN s |->
             IF T = {} THEN known ELSE InternedWith(Iter[T \ {Max(T)}], s[Max(T)])]
  BY <1>7, Zenon
<1> HIDE DEF Iter
<1>9. Iter[{}] = base
  BY <1>3, <1>8
<1>10. FoldsWithin(X, H, s, Iter)
  <2> SUFFICES ASSUME NEW T \in SUBSET DOMAIN s, T # {}, Iter[T \ {Max(T)}] \in X
               PROVE  Iter[T] = H[<<Iter[T \ {Max(T)}], s[Max(T)]>>]
    BY DEF FoldsWithin
  <2>1. Iter[T] = InternedWith(Iter[T \ {Max(T)}], s[Max(T)])
    BY <1>8
  <2> QED BY <1>2, <1>5, <2>1
<1>11. FoldsTo(X, H, base, s, Iter[DOMAIN s])
  BY <1>2, <1>9, <1>10, FoldPrefixes
<1> QED BY <1>1, <1>3, <1>11, Zenon DEF X, H

\* UnskippedWith as a function.
Keeping == [kr \in Seq(InputRow) \X InputRow |-> UnskippedWith(kr[1], kr[2])]

\* Unskipped is a solution of its recursion.
LEMMA UnskippedFolds ==
  ASSUME NEW s \in Seq(InputRow)
  PROVE  FoldsTo(Seq(InputRow), Keeping, <<>>, s, Unskipped(s))
<1> DEFINE X == Seq(InputRow)
           Y == InputRow
           H == Keeping
           base == <<>>
           Iter == CHOOSE iter : iter = [T \in SUBSET DOMAIN s |->
                     IF T = {} THEN <<>> ELSE UnskippedWith(iter[T \ {Max(T)}], s[Max(T)])]
<1>1. Unskipped(s) = Iter[DOMAIN s]
  BY Zenon DEF Unskipped, FoldLeft, MapThenFoldSet
<1>2. H \in [X \X Y -> X] /\ base \in X /\ s \in Seq(Y)
      /\ \A x \in X, y \in Y : H[<<x, y>>] = UnskippedWith(x, y)
  <2>1. \A x \in X, y \in Y : UnskippedWith(x, y) \in X
    BY DEF UnskippedWith
  <2>2. H = [xy \in X \X Y |-> UnskippedWith(xy[1], xy[2])]
    BY DEF Keeping
  <2>3. base \in X /\ s \in Seq(Y)
    OBVIOUS
  <2> HIDE DEF X, Y, base
  <2>4. \A xy \in X \X Y : UnskippedWith(xy[1], xy[2]) \in X
    BY <2>1
  <2>5. H \in [X \X Y -> X]
    BY <2>2, <2>4
  <2>6. \A x \in X, y \in Y : H[<<x, y>>] = UnskippedWith(x, y)
    BY <2>2
  <2> QED BY <2>3, <2>5, <2>6
<1>3. base = <<>>
  OBVIOUS
<1> HIDE DEF X, Y, H, base
<1>4. PICK g \in [SUBSET DOMAIN s -> X] : FoldsOver(H, base, s, g)
  BY <1>2, FoldExists, Zenon
<1>5. \A T \in SUBSET DOMAIN s : T # {} =>
        Max(T) \in DOMAIN s /\ s[Max(T)] \in Y /\ T \ {Max(T)} \in SUBSET DOMAIN s
  <2> TAKE T \in SUBSET DOMAIN s
  <2> HAVE T # {}
  <2>1. DOMAIN s = 1 .. Len(s) /\ Len(s) \in Nat BY <1>2
  <2>2. Max(T) \in T
    BY <2>1, MaxIn
  <2> QED BY <1>2, <2>1, <2>2
<1>6. \A T \in SUBSET DOMAIN s :
        g[T] = IF T = {} THEN <<>> ELSE UnskippedWith(g[T \ {Max(T)}], s[Max(T)])
  <2> TAKE T \in SUBSET DOMAIN s
  <2>1. CASE T = {} BY <1>3, <1>4, <2>1 DEF FoldsOver
  <2>2. CASE T # {} BY <1>2, <1>4, <1>5, <2>2 DEF FoldsOver
  <2> QED BY <2>1, <2>2
<1>7. g = [T \in SUBSET DOMAIN s |->
             IF T = {} THEN <<>> ELSE UnskippedWith(g[T \ {Max(T)}], s[Max(T)])]
  BY <1>4, <1>6, Zenon
<1>8. Iter = [T \in SUBSET DOMAIN s |->
             IF T = {} THEN <<>> ELSE UnskippedWith(Iter[T \ {Max(T)}], s[Max(T)])]
  BY <1>7, Zenon
<1> HIDE DEF Iter
<1>9. Iter[{}] = base
  BY <1>3, <1>8
<1>10. FoldsWithin(X, H, s, Iter)
  <2> SUFFICES ASSUME NEW T \in SUBSET DOMAIN s, T # {}, Iter[T \ {Max(T)}] \in X
               PROVE  Iter[T] = H[<<Iter[T \ {Max(T)}], s[Max(T)]>>]
    BY DEF FoldsWithin
  <2>1. Iter[T] = UnskippedWith(Iter[T \ {Max(T)}], s[Max(T)])
    BY <1>8
  <2> QED BY <1>2, <1>5, <2>1
<1>11. FoldsTo(X, H, base, s, Iter[DOMAIN s])
  BY <1>2, <1>9, <1>10, FoldPrefixes
<1> QED BY <1>1, <1>3, <1>11, Zenon DEF X, H

\* Charged as a function.
Charging == [sp \in Nat \X SpanType |-> Charged(sp[1], sp[2])]

\* SpanBytes is a solution of its recursion.
LEMMA BytesFold ==
  ASSUME NEW s \in Seq(SpanType)
  PROVE  FoldsTo(Nat, Charging, 0, s, SpanBytes(s))
<1> DEFINE X == Nat
           Y == SpanType
           H == Charging
           base == 0
           Iter == CHOOSE iter : iter = [T \in SUBSET DOMAIN s |->
                     IF T = {} THEN 0 ELSE Charged(iter[T \ {Max(T)}], s[Max(T)])]
<1>1. SpanBytes(s) = Iter[DOMAIN s]
  BY Zenon DEF SpanBytes, FoldLeft, MapThenFoldSet
<1>2. H \in [X \X Y -> X] /\ base \in X /\ s \in Seq(Y)
      /\ \A x \in X, y \in Y : H[<<x, y>>] = Charged(x, y)
  <2>1. \A x \in X, y \in Y : Charged(x, y) \in X
    BY DEF Charged, SpanType
  <2>2. H = [xy \in X \X Y |-> Charged(xy[1], xy[2])]
    BY DEF Charging
  <2>3. base \in X /\ s \in Seq(Y)
    OBVIOUS
  <2> HIDE DEF X, Y, base
  <2>4. \A xy \in X \X Y : Charged(xy[1], xy[2]) \in X
    BY <2>1
  <2>5. H \in [X \X Y -> X]
    BY <2>2, <2>4
  <2>6. \A x \in X, y \in Y : H[<<x, y>>] = Charged(x, y)
    BY <2>2
  <2> QED BY <2>3, <2>5, <2>6
<1>3. base = 0
  OBVIOUS
<1> HIDE DEF X, Y, H, base
<1>4. PICK g \in [SUBSET DOMAIN s -> X] : FoldsOver(H, base, s, g)
  BY <1>2, FoldExists, Zenon
<1>5. \A T \in SUBSET DOMAIN s : T # {} =>
        Max(T) \in DOMAIN s /\ s[Max(T)] \in Y /\ T \ {Max(T)} \in SUBSET DOMAIN s
  <2> TAKE T \in SUBSET DOMAIN s
  <2> HAVE T # {}
  <2>1. DOMAIN s = 1 .. Len(s) /\ Len(s) \in Nat BY <1>2
  <2>2. Max(T) \in T
    BY <2>1, MaxIn
  <2> QED BY <1>2, <2>1, <2>2
<1>6. \A T \in SUBSET DOMAIN s :
        g[T] = IF T = {} THEN 0 ELSE Charged(g[T \ {Max(T)}], s[Max(T)])
  <2> TAKE T \in SUBSET DOMAIN s
  <2>1. CASE T = {} BY <1>3, <1>4, <2>1 DEF FoldsOver
  <2>2. CASE T # {} BY <1>2, <1>4, <1>5, <2>2 DEF FoldsOver
  <2> QED BY <2>1, <2>2
<1>7. g = [T \in SUBSET DOMAIN s |->
             IF T = {} THEN 0 ELSE Charged(g[T \ {Max(T)}], s[Max(T)])]
  BY <1>4, <1>6, Zenon
<1>8. Iter = [T \in SUBSET DOMAIN s |->
             IF T = {} THEN 0 ELSE Charged(Iter[T \ {Max(T)}], s[Max(T)])]
  BY <1>7, Zenon
<1> HIDE DEF Iter
<1>9. Iter[{}] = base
  BY <1>3, <1>8
<1>10. FoldsWithin(X, H, s, Iter)
  <2> SUFFICES ASSUME NEW T \in SUBSET DOMAIN s, T # {}, Iter[T \ {Max(T)}] \in X
               PROVE  Iter[T] = H[<<Iter[T \ {Max(T)}], s[Max(T)]>>]
    BY DEF FoldsWithin
  <2>1. Iter[T] = Charged(Iter[T \ {Max(T)}], s[Max(T)])
    BY <1>8
  <2> QED BY <1>2, <1>5, <2>1
<1>11. FoldsTo(X, H, base, s, Iter[DOMAIN s])
  BY <1>2, <1>9, <1>10, FoldPrefixes
<1> QED BY <1>1, <1>3, <1>11, Zenon DEF X, H

\* Every group of a batch gets a place, behind the places there were.
LEMMA InternedExact ==
  ASSUME NEW R, \A r \in R : r.key \in GroupKeys, NEW known \in Seq(GroupKeys), NEW s \in Seq(R),
         NEW new, new = Interned(known, s)
  PROVE  /\ new \in Seq(GroupKeys) /\ Len(known) <= Len(new)
         /\ \A n \in DOMAIN s : GroupOf(new, s[n].key) \in DOMAIN new
<1>1. PICK I \in [0 .. Len(s) -> Seq(GroupKeys)] : FoldsAlong(Interning(R), known, s, I) /\ I[Len(s)] = new
  BY InternedFolds DEF FoldsTo
<1>2. Len(s) \in Nat /\ DOMAIN s = 1 .. Len(s) /\ \A n \in 1 .. Len(s) : s[n] \in R
  OBVIOUS
<1>3. I[0] = known /\ \A k \in 0 .. Len(s) - 1 : I[k + 1] = InternedWith(I[k], s[k + 1])
  <2>1. I[0] = known
    BY <1>1 DEF FoldsAlong
  <2>2. ASSUME NEW k \in 0 .. Len(s) - 1 PROVE I[k + 1] = InternedWith(I[k], s[k + 1])
    <3>1. I[k + 1] = Interning(R)[<<I[k], s[k + 1]>>]
      BY <1>1 DEF FoldsAlong
    <3>2. I[k] \in Seq(GroupKeys) /\ s[k + 1] \in R
      BY <1>2
    <3> QED BY <3>1, <3>2 DEF Interning
  <2> QED BY <2>1, <2>2
<1> DEFINE Knows(ks, key) == \E g \in DOMAIN ks : ks[g] = key
           S == {k \in 0 .. Len(s) : /\ Len(known) <= Len(I[k])
                                     /\ \A n \in 1 .. k : Knows(I[k], s[n].key)}
<1>4. \A k : k \in S <=> k \in 0 .. Len(s) /\ Len(known) <= Len(I[k])
                           /\ \A n \in 1 .. k : Knows(I[k], s[n].key)
  OBVIOUS
<1>5. \A ks \in Seq(GroupKeys), r \in R :
        /\ Len(ks) <= Len(InternedWith(ks, r))
        /\ Knows(InternedWith(ks, r), r.key)
        /\ \A key : Knows(ks, key) => Knows(InternedWith(ks, r), key)
  <2> TAKE ks \in Seq(GroupKeys), r \in R
  <2>1. CASE r.key \in ToSet(ks)
    BY <2>1 DEF InternedWith, ToSet
  <2>2. CASE r.key \notin ToSet(ks)
    <3>1. InternedWith(ks, r) = Append(ks, r.key) /\ r.key \in GroupKeys
      BY <2>2 DEF InternedWith
    <3> DEFINE more == Append(ks, r.key)
    <3>2. Len(more) = Len(ks) + 1 /\ more[Len(ks) + 1] = r.key /\ DOMAIN more = 1 .. Len(ks) + 1
          /\ \A g \in 1 .. Len(ks) : more[g] = ks[g]
      BY <3>1
    <3>3. Len(ks) \in Nat /\ DOMAIN ks = 1 .. Len(ks)
      OBVIOUS
    <3> HIDE DEF more
    <3>4. Knows(more, r.key) /\ \A key : Knows(ks, key) => Knows(more, key)
      BY <3>2, <3>3
    <3> QED BY <3>1, <3>2, <3>3, <3>4 DEF more
  <2> QED BY <2>1, <2>2
<1> HIDE DEF S, Knows
<1>6. 0 \in S
  <2>1. Len(I[0]) \in Nat BY <1>3
  <2> QED BY <1>2, <1>3, <1>4, <2>1
<1>7. \A k \in 0 .. Len(s) - 1 : k \in S => k + 1 \in S
  <2> SUFFICES ASSUME NEW k \in 0 .. Len(s) - 1, k \in S PROVE k + 1 \in S
    OBVIOUS
  <2>a. k \in 0 .. Len(s) /\ k + 1 \in 0 .. Len(s) /\ k + 1 \in 1 .. Len(s)
    BY <1>2
  <2>1. /\ k + 1 \in 0 .. Len(s) /\ I[k] \in Seq(GroupKeys) /\ s[k + 1] \in R
        /\ I[k + 1] \in Seq(GroupKeys)
    BY <1>2, <2>a
  <2>2. I[k + 1] = InternedWith(I[k], s[k + 1])
    BY <1>3
  <2>3. /\ Len(I[k]) <= Len(I[k + 1]) /\ Knows(I[k + 1], s[k + 1].key)
        /\ \A key : Knows(I[k], key) => Knows(I[k + 1], key)
    BY <1>5, <2>1, <2>2
  <2>4. Len(known) <= Len(I[k]) /\ \A n \in 1 .. k : Knows(I[k], s[n].key)
    BY <1>4
  <2>5. \A n \in 1 .. k + 1 : Knows(I[k + 1], s[n].key)
    <3> TAKE n \in 1 .. k + 1
    <3>1. n \in 1 .. k \/ n = k + 1 BY <2>1
    <3> QED BY <2>3, <2>4, <3>1
  <2>6. Len(known) <= Len(I[k + 1])
    <3>1. Len(known) \in Nat /\ Len(I[k]) \in Nat /\ Len(I[k + 1]) \in Nat BY <2>1
    <3> QED BY <2>3, <2>4, <3>1
  <2> QED BY <1>4, <2>1, <2>5, <2>6
<1>8. Len(s) \in S
  <2>1. Len(s) \in 0 .. Len(s) BY <1>2
  <2>2. \A k \in 0 .. Len(s) : k \in S BY <1>2, <1>6, <1>7, Induct
  <2> QED BY <2>1, <2>2
<1>9. new \in Seq(GroupKeys)
  BY <1>1, <1>2
<1>10. ASSUME NEW n \in DOMAIN s PROVE GroupOf(new, s[n].key) \in DOMAIN new
  <2>1. Knows(new, s[n].key) BY <1>1, <1>2, <1>4, <1>8
  <2> QED BY <2>1 DEF GroupOf, Knows
<1> QED BY <1>1, <1>4, <1>8, <1>9, <1>10

\* What a filter keeps are the rows it does not skip, and it keeps all of them.
LEMMA UnskippedExact ==
  ASSUME NEW s \in Seq(InputRow), NEW kept, kept = Unskipped(s)
  PROVE  /\ kept \in Seq(InputRow)
         /\ \A m \in DOMAIN kept : \E n \in DOMAIN s : kept[m] = s[n]
         /\ \A n \in DOMAIN s : s[n].skipped \/ \E m \in DOMAIN kept : kept[m] = s[n]
<1>1. PICK I \in [0 .. Len(s) -> Seq(InputRow)] : FoldsAlong(Keeping, <<>>, s, I) /\ I[Len(s)] = kept
  BY UnskippedFolds DEF FoldsTo
<1>2. Len(s) \in Nat /\ DOMAIN s = 1 .. Len(s) /\ \A n \in 1 .. Len(s) : s[n] \in InputRow
  OBVIOUS
<1>3. I[0] = <<>> /\ \A k \in 0 .. Len(s) - 1 : I[k + 1] = UnskippedWith(I[k], s[k + 1])
  <2>1. I[0] = <<>>
    BY <1>1 DEF FoldsAlong
  <2>2. ASSUME NEW k \in 0 .. Len(s) - 1 PROVE I[k + 1] = UnskippedWith(I[k], s[k + 1])
    <3>1. I[k + 1] = Keeping[<<I[k], s[k + 1]>>]
      BY <1>1 DEF FoldsAlong
    <3>2. I[k] \in Seq(InputRow) /\ s[k + 1] \in InputRow
      BY <1>2
    <3> QED BY <3>1, <3>2 DEF Keeping
  <2> QED BY <2>1, <2>2
<1> DEFINE Knows(rows, r) == \E m \in DOMAIN rows : rows[m] = r
           From(k) == \A r : Knows(I[k], r) => \E n \in 1 .. k : r = s[n]
           All(k) == \A n \in 1 .. k : s[n].skipped \/ Knows(I[k], s[n])
           S == {k \in 0 .. Len(s) : From(k) /\ All(k)}
<1>4. \A k : k \in S <=> k \in 0 .. Len(s) /\ From(k) /\ All(k)
  OBVIOUS
<1>5. \A rows \in Seq(InputRow), r \in InputRow : \A x :
        Knows(UnskippedWith(rows, r), x) <=> Knows(rows, x) \/ (x = r /\ ~r.skipped)
  <2> TAKE rows \in Seq(InputRow), r \in InputRow
  <2>1. CASE r.skipped
    BY <2>1 DEF UnskippedWith
  <2>2. CASE ~r.skipped
    <3> DEFINE more == Append(rows, r)
    <3>1. UnskippedWith(rows, r) = more
      BY <2>2 DEF UnskippedWith
    <3>2. Len(more) = Len(rows) + 1 /\ more[Len(rows) + 1] = r /\ DOMAIN more = 1 .. Len(rows) + 1
          /\ \A g \in 1 .. Len(rows) : more[g] = rows[g]
      OBVIOUS
    <3>3. Len(rows) \in Nat /\ DOMAIN rows = 1 .. Len(rows)
      OBVIOUS
    <3> HIDE DEF more
    <3>4. \A x : Knows(more, x) <=> Knows(rows, x) \/ x = r
      <4> TAKE x
      <4>1. ASSUME Knows(more, x) PROVE Knows(rows, x) \/ x = r
        <5>1. PICK m \in 1 .. Len(rows) + 1 : more[m] = x BY <3>2, <4>1
        <5>2. m \in 1 .. Len(rows) \/ m = Len(rows) + 1 BY <3>3
        <5> QED BY <3>2, <3>3, <5>1, <5>2
      <4>2. ASSUME Knows(rows, x) \/ x = r PROVE Knows(more, x)
        BY <3>2, <3>3, <4>2
      <4> QED BY <4>1, <4>2
    <3> QED BY <2>2, <3>1, <3>4
  <2> QED BY <2>1, <2>2
<1> HIDE DEF S, Knows
<1>6. 0 \in S
  <2>1. \A x : ~Knows(<<>>, x) BY DEF Knows
  <2> QED BY <1>2, <1>3, <1>4, <2>1
<1>7. \A k \in 0 .. Len(s) - 1 : k \in S => k + 1 \in S
  <2> SUFFICES ASSUME NEW k \in 0 .. Len(s) - 1, k \in S PROVE k + 1 \in S
    OBVIOUS
  <2>1. /\ k + 1 \in 0 .. Len(s) /\ I[k] \in Seq(InputRow) /\ s[k + 1] \in InputRow
        /\ k + 1 \in 1 .. k + 1 /\ \A n \in 1 .. k + 1 : n \in 1 .. k \/ n = k + 1
        /\ \A n \in 1 .. k : n \in 1 .. k + 1
    BY <1>2
  <2>2. I[k + 1] = UnskippedWith(I[k], s[k + 1])
    BY <1>3
  <2>3. \A x : Knows(I[k + 1], x) <=> Knows(I[k], x) \/ (x = s[k + 1] /\ ~s[k + 1].skipped)
    BY <1>5, <2>1, <2>2
  <2>4. From(k) /\ All(k)
    BY <1>4
  <2>5. From(k + 1)
    BY <2>1, <2>3, <2>4
  <2>6. All(k + 1)
    BY <2>1, <2>3, <2>4
  <2> QED BY <1>4, <2>1, <2>5, <2>6
<1>8. Len(s) \in S
  <2>1. Len(s) \in 0 .. Len(s) BY <1>2
  <2>2. \A k \in 0 .. Len(s) : k \in S BY <1>2, <1>6, <1>7, Induct
  <2> QED BY <2>1, <2>2
<1>9. kept \in Seq(InputRow)
  BY <1>1, <1>2
<1>10. From(Len(s)) /\ All(Len(s)) /\ I[Len(s)] = kept
  BY <1>1, <1>4, <1>8
<1> QED BY <1>2, <1>9, <1>10 DEF Knows

\* B holds the bytes of the spans up to each.
Sums(s, B) ==
  /\ B[0] = 0 /\ \A k \in 0 .. Len(s) : B[k] \in Nat
  /\ \A k \in 0 .. Len(s) - 1 : B[k + 1] = B[k] + s[k + 1].len
  /\ \A k \in 1 .. Len(s) : s[k].len \in Nat

\* The bytes of the spans are the last of them.
LEMMA BytesAlong ==
  ASSUME NEW s \in Seq(SpanType)
  PROVE  \E B : Sums(s, B) /\ B[Len(s)] = SpanBytes(s)
<1>1. PICK B \in [0 .. Len(s) -> Nat] : FoldsAlong(Charging, 0, s, B) /\ B[Len(s)] = SpanBytes(s)
  BY BytesFold DEF FoldsTo
<1>2. Len(s) \in Nat /\ \A n \in 1 .. Len(s) : s[n] \in SpanType
  OBVIOUS
<1>3. ASSUME NEW k \in 0 .. Len(s) - 1 PROVE B[k + 1] = B[k] + s[k + 1].len
  <2>1. B[k + 1] = Charging[<<B[k], s[k + 1]>>]
    BY <1>1 DEF FoldsAlong
  <2>2. k \in 0 .. Len(s) /\ k + 1 \in 1 .. Len(s)
    BY <1>2
  <2>3. B[k] \in Nat /\ s[k + 1] \in SpanType
    BY <1>2, <2>2
  <2> QED BY <2>1, <2>3 DEF Charging, Charged
<1>4. B[0] = 0
  BY <1>1 DEF FoldsAlong
<1>5. Sums(s, B)
  <2>1. \A k \in 1 .. Len(s) : s[k].len \in Nat
    BY <1>2 DEF SpanType
  <2> QED BY <1>3, <1>4, <2>1 DEF Sums
<1> QED BY <1>1, <1>5

\* The spans of s behind the i-th up to the e-th, and those of t behind the j-th up
\* to the f-th.
SameSizes(s, i, e, t, j, f) ==
  /\ Len(s) \in Nat /\ Len(t) \in Nat
  /\ i \in Nat /\ j \in Nat /\ i <= e /\ j <= f /\ e \in 0 .. Len(s) /\ f \in 0 .. Len(t)
  /\ f - j = e - i
  /\ \A k \in 1 .. e - i : t[j + k].len = s[i + k].len

\* Stretches of spans of the same sizes are of the same bytes.
LEMMA SumsOfStretch ==
  ASSUME NEW s, NEW t, NEW A, NEW B, Sums(s, A), Sums(t, B),
         NEW i, NEW e, NEW j, NEW f, SameSizes(s, i, e, t, j, f)
  PROVE  B[f] = B[j] + (A[e] - A[i])
<1> DEFINE m == e - i
<1>a. /\ Len(s) \in Nat /\ Len(t) \in Nat /\ i \in Nat /\ j \in Nat /\ m \in Nat
      /\ i + m = e /\ j + m = f /\ i + m <= Len(s) /\ j + m <= Len(t)
      /\ \A k \in 1 .. m : t[j + k].len = s[i + k].len
  BY DEF SameSizes
<1> HIDE DEF m
<1> DEFINE S == {k \in 0 .. m : B[j + k] = B[j] + (A[i + k] - A[i])}
<1>1. \A k : k \in S <=> k \in 0 .. m /\ B[j + k] = B[j] + (A[i + k] - A[i])
  OBVIOUS
<1>2. \A k \in 0 .. m : A[i + k] \in Nat /\ B[j + k] \in Nat /\ j + k \in Nat /\ i + k \in Nat
  <2> TAKE k \in 0 .. m
  <2>1. /\ i + k \in 0 .. Len(s) /\ j + k \in 0 .. Len(t) /\ i + k \in Nat /\ j + k \in Nat
    BY <1>a
  <2> QED BY <2>1 DEF Sums
<1> HIDE DEF S
<1>3. 0 \in S
  <2>1. 0 \in 0 .. m /\ i + 0 = i /\ j + 0 = j BY <1>a
  <2> DEFINE a == A[i]
             b == B[j]
  <2>2. a \in Nat /\ b \in Nat /\ (0 \in S <=> b = b + (a - a)) BY <1>1, <1>2, <2>1
  <2> HIDE DEF a, b
  <2> QED BY <2>2
<1>4. \A k \in 0 .. m - 1 : k \in S => k + 1 \in S
  <2> SUFFICES ASSUME NEW k \in 0 .. m - 1, k \in S PROVE k + 1 \in S
    OBVIOUS
  <2>1. /\ k \in 0 .. m /\ k + 1 \in 0 .. m /\ k + 1 \in 1 .. m /\ 0 \in 0 .. m
        /\ i + k \in 0 .. Len(s) - 1 /\ j + k \in 0 .. Len(t) - 1
        /\ (i + k) + 1 = i + (k + 1) /\ (j + k) + 1 = j + (k + 1)
        /\ i + 0 = i /\ j + 0 = j
    BY <1>a
  <2>2. A[i + (k + 1)] = A[i + k] + s[i + (k + 1)].len
    BY <2>1 DEF Sums
  <2>3. B[j + (k + 1)] = B[j + k] + t[j + (k + 1)].len
    BY <2>1 DEF Sums
  <2>4. t[j + (k + 1)].len = s[i + (k + 1)].len
    BY <1>a, <2>1
  <2>5. B[j + k] = B[j] + (A[i + k] - A[i])
    BY <1>1
  <2>6. /\ A[i + k] \in Nat /\ B[j + k] \in Nat /\ A[i] \in Nat /\ B[j] \in Nat
        /\ A[i + (k + 1)] \in Nat /\ B[j + (k + 1)] \in Nat
    BY <1>2, <2>1
  <2> DEFINE l == s[i + (k + 1)].len
             a1 == A[i + (k + 1)]
             b1 == B[j + (k + 1)]
             a0 == A[i + k]
             b0 == B[j + k]
             a == A[i]
             b == B[j]
  <2>7. a1 = a0 + l /\ b1 = b0 + l /\ b0 = b + (a0 - a)
    BY <2>2, <2>3, <2>4, <2>5
  <2>8. a1 \in Nat /\ b1 \in Nat /\ a0 \in Nat /\ b0 \in Nat /\ a \in Nat /\ b \in Nat
    BY <2>6, Zenon
  <2>a. l \in Nat
    <3>1. i + (k + 1) \in 1 .. Len(s) BY <1>a, <2>1
    <3> QED BY <3>1 DEF Sums
  <2>9. b1 = b + (a1 - a)
    <3> HIDE DEF l, a1, b1, a0, b0, a, b
    <3> QED BY <2>7, <2>8, <2>a
  <2> QED BY <1>1, <2>1, <2>9
<1>5. m \in S
  <2>1. m \in 0 .. m BY <1>a
  <2>2. \A k \in 0 .. m : k \in S BY <1>3, <1>4, <1>a, Induct
  <2> QED BY <2>1, <2>2
<1> QED BY <1>1, <1>5, <1>a

\* One span of another size.
LEMMA BytesReplaced ==
  ASSUME NEW s \in Seq(SpanType), NEW g \in DOMAIN s, NEW new \in SpanType,
         NEW t, t = [s EXCEPT ![g] = new]
  PROVE  SpanBytes(t) = SpanBytes(s) - s[g].len + new.len
<1>1. /\ t \in Seq(SpanType) /\ Len(t) = Len(s) /\ Len(s) \in Nat /\ g \in 1 .. Len(s)
      /\ t[g] = new /\ \A k \in 1 .. Len(s) : k # g => t[k] = s[k]
  OBVIOUS
<1>2. PICK A : Sums(s, A) /\ A[Len(s)] = SpanBytes(s)
  BY BytesAlong
<1>3. PICK B : Sums(t, B) /\ B[Len(t)] = SpanBytes(t)
  BY <1>1, BytesAlong
<1> DEFINE n == Len(s)
           h == g - 1
           r == n - g
<1>4. h \in Nat /\ r \in Nat /\ 0 + h <= n /\ g + r <= n /\ g \in Nat /\ g + r = n /\ 0 + h = h
      /\ n \in Nat /\ h + 1 = g /\ h \in 0 .. n - 1 /\ h \in 0 .. n /\ g \in 0 .. n /\ n \in 0 .. n
  BY <1>1
<1>5. B[h] = B[0] + (A[h] - A[0])
  <2>1. \A k \in 1 .. h : t[0 + k].len = s[0 + k].len
    BY <1>1
  <2>2. SameSizes(s, 0, h, t, 0, h)
    BY <1>1, <1>4, <2>1 DEF SameSizes
  <2> QED BY <1>2, <1>3, <2>2, SumsOfStretch
<1>6. B[n] = B[g] + (A[n] - A[g])
  <2>1. \A k \in 1 .. r : t[g + k].len = s[g + k].len
    BY <1>1
  <2>2. SameSizes(s, g, n, t, g, n)
    BY <1>1, <1>4, <2>1 DEF SameSizes
  <2> QED BY <1>2, <1>3, <2>2, SumsOfStretch
<1>7. A[g] = A[h] + s[g].len /\ B[g] = B[h] + new.len
  <2>1. A[h + 1] = A[h] + s[h + 1].len
    BY <1>2, <1>4 DEF Sums
  <2>2. B[h + 1] = B[h] + t[h + 1].len
    BY <1>1, <1>3, <1>4 DEF Sums
  <2> QED BY <1>1, <1>4, <2>1, <2>2
<1>8. A[0] = 0 /\ B[0] = 0 /\ s[g].len \in Nat /\ new.len \in Nat
      /\ \A k \in 0 .. n : A[k] \in Nat /\ B[k] \in Nat
  BY <1>1, <1>2, <1>3 DEF Sums, SpanType
<1> DEFINE ah == A[h]
           ag == A[g]
           an == A[n]
           bh == B[h]
           bg == B[g]
           bn == B[n]
           l == s[g].len
           m == new.len
<1>9. /\ ah \in Nat /\ ag \in Nat /\ an \in Nat /\ bh \in Nat /\ bg \in Nat /\ bn \in Nat
      /\ l \in Nat /\ m \in Nat
  BY <1>4, <1>8
<1>10. bh = 0 + (ah - 0) /\ bn = bg + (an - ag) /\ ag = ah + l /\ bg = bh + m
  BY <1>5, <1>6, <1>7, <1>8
<1>11. bn = an - l + m
  <2> HIDE DEF ah, ag, an, bh, bg, bn, l, m
  <2>1. bn = ((0 + (ah - 0)) + m) + (an - (ah + l))
    BY <1>10
  <2> QED BY <1>9, <2>1
<1> QED BY <1>1, <1>2, <1>3, <1>11

\* More spans, of nothing.
LEMMA BytesGrown ==
  ASSUME NEW s \in Seq(SpanType), NEW t \in Seq(SpanType), Len(s) <= Len(t),
         \A k \in 1 .. Len(s) : t[k] = s[k],
         \A k \in Len(s) + 1 .. Len(t) : t[k].len = 0
  PROVE  SpanBytes(t) = SpanBytes(s)
<1>1. Len(s) \in Nat /\ Len(t) \in Nat
  OBVIOUS
<1>2. PICK A : Sums(s, A) /\ A[Len(s)] = SpanBytes(s)
  BY BytesAlong
<1>3. PICK B : Sums(t, B) /\ B[Len(t)] = SpanBytes(t)
  BY BytesAlong
<1> DEFINE n == Len(s)
           S == {k \in 0 .. Len(t) - n : B[n + k] = A[n]}
<1>4. B[n] = A[n]
  <2>1. \A k \in 1 .. n : t[0 + k].len = s[0 + k].len
    BY <1>1
  <2>2. n \in Nat /\ 0 + n <= n /\ 0 + n <= Len(t) /\ 0 + n = n /\ n \in 0 .. n /\ n \in 0 .. Len(t)
    BY <1>1
  <2>a. SameSizes(s, 0, n, t, 0, n)
    BY <1>1, <2>1 DEF SameSizes
  <2>3. B[n] = B[0] + (A[n] - A[0])
    BY <1>2, <1>3, <2>a, SumsOfStretch
  <2>4. A[0] = 0 /\ B[0] = 0 /\ A[n] \in Nat /\ B[n] \in Nat
    BY <1>2, <1>3, <2>2 DEF Sums
  <2> DEFINE a == A[n]
             b == B[n]
  <2>5. b = 0 + (a - 0) /\ a \in Nat /\ b \in Nat BY <2>2, <2>3, <2>4
  <2>6. a = b
    <3> HIDE DEF a, b
    <3> QED BY <2>5
  <2> QED BY <2>6
<1>5. \A k : k \in S <=> k \in 0 .. Len(t) - n /\ B[n + k] = A[n]
  OBVIOUS
<1>6. n \in Nat /\ Len(t) - n \in Nat /\ 0 \in 0 .. Len(t) - n /\ n + 0 = n
      /\ Len(t) - n \in 0 .. Len(t) - n /\ n + (Len(t) - n) = Len(t)
  BY <1>1
<1> HIDE DEF S
<1>7. 0 \in S
  BY <1>4, <1>5, <1>6
<1>8. \A k \in 0 .. (Len(t) - n) - 1 : k \in S => k + 1 \in S
  <2> SUFFICES ASSUME NEW k \in 0 .. (Len(t) - n) - 1, k \in S PROVE k + 1 \in S
    OBVIOUS
  <2>1. /\ k + 1 \in 0 .. Len(t) - n /\ n + k \in 0 .. Len(t) - 1 /\ (n + k) + 1 = n + (k + 1)
        /\ n + (k + 1) \in Len(s) + 1 .. Len(t) /\ n + k \in 0 .. Len(t)
    BY <1>1
  <2>2. B[n + (k + 1)] = B[n + k] + t[n + (k + 1)].len /\ B[n + k] \in Nat
    BY <1>3, <2>1 DEF Sums
  <2>3. t[n + (k + 1)].len = 0
    BY <2>1
  <2> DEFINE b == B[n + k]
  <2>4. b \in Nat /\ B[n + (k + 1)] = b + 0 BY <2>2, <2>3
  <2>5. b + 0 = b
    <3> HIDE DEF b
    <3> QED BY <2>4
  <2> QED BY <1>5, <2>1, <2>4, <2>5
<1>9. Len(t) - n \in S
  BY <1>6, <1>7, <1>8, Induct
<1> QED BY <1>2, <1>3, <1>5, <1>6, <1>9

\* The first n spans and the others.
LEMMA BytesSplit ==
  ASSUME NEW s \in Seq(SpanType), NEW n \in 0 .. Len(s)
  PROVE  SpanBytes(s) = SpanBytes(SubSeq(s, 1, n)) + SpanBytes(SubSeq(s, n + 1, Len(s)))
<1> DEFINE u == SubSeq(s, 1, n)
           t == SubSeq(s, n + 1, Len(s))
<1>1. /\ u \in Seq(SpanType) /\ Len(u) = n /\ \A k \in 1 .. n : u[k] = s[k]
      /\ t \in Seq(SpanType) /\ Len(t) = Len(s) - n /\ \A k \in 1 .. Len(s) - n : t[k] = s[n + k]
      /\ n \in Nat /\ Len(s) \in Nat /\ Len(s) - n \in Nat
  OBVIOUS
<1> HIDE DEF u, t
<1>2. PICK A : Sums(s, A) /\ A[Len(s)] = SpanBytes(s)
  BY BytesAlong
<1>3. PICK B : Sums(u, B) /\ B[Len(u)] = SpanBytes(u)
  BY <1>1, BytesAlong
<1>4. PICK C : Sums(t, C) /\ C[Len(t)] = SpanBytes(t)
  BY <1>1, BytesAlong
<1> DEFINE m == Len(s) - n
<1>5. B[n] = B[0] + (A[n] - A[0])
  <2>1. \A k \in 1 .. n : u[0 + k].len = s[0 + k].len
    BY <1>1
  <2>2. SameSizes(s, 0, n, u, 0, n)
    BY <1>1, <2>1 DEF SameSizes
  <2> QED BY <1>2, <1>3, <2>2, SumsOfStretch
<1>6. C[m] = C[0] + (A[Len(s)] - A[n])
  <2>1. \A k \in 1 .. m : t[0 + k].len = s[n + k].len
    BY <1>1
  <2>2. SameSizes(s, n, Len(s), t, 0, m)
    BY <1>1, <2>1 DEF SameSizes
  <2> QED BY <1>2, <1>4, <2>2, SumsOfStretch
<1>7. /\ A[0] = 0 /\ B[0] = 0 /\ C[0] = 0 /\ A[n] \in Nat /\ B[n] \in Nat /\ C[m] \in Nat
      /\ A[Len(s)] \in Nat
  <2>1. n \in 0 .. Len(s) /\ n \in 0 .. Len(u) /\ m \in 0 .. Len(t) /\ Len(s) \in 0 .. Len(s)
    BY <1>1
  <2> QED BY <1>2, <1>3, <1>4, <2>1 DEF Sums
<1> DEFINE a == A[n]
           b == B[n]
           c == C[m]
           d == A[Len(s)]
<1>8. b = 0 + (a - 0) /\ c = 0 + (d - a) /\ a \in Nat /\ b \in Nat /\ c \in Nat /\ d \in Nat
  BY <1>5, <1>6, <1>7
<1>9. d = b + c
  <2> HIDE DEF a, b, c, d
  <2> QED BY <1>8
<1>10. d = SpanBytes(s) /\ b = SpanBytes(u) /\ c = SpanBytes(t)
  BY <1>1, <1>2, <1>3, <1>4
<1> QED BY <1>9, <1>10 DEF u, t

-----------------------------------------------------------------------------
(***************************************************************************)
(* A span the accumulators keep, through every row.                        *)
(***************************************************************************)
Good(s) == s \in SpanType /\ IsSpan(s) /\ Clear(s) /\ Lean(s)

\* Cells put in front and behind are of the kind of the others.
LEMMA MovedTyped ==
  ASSUME NEW T, NEW m \in Nat, NEW cells \in [0 .. m - 1 -> T], NEW fill \in T
  PROVE  /\ \A count \in Nat : \A n \in Nat : n = m + count =>
              Prepend(cells, count, n, fill) \in [0 .. n - 1 -> T]
         /\ \A n \in Nat : Resize(cells, n, fill) \in [0 .. n - 1 -> T]
<1>1. ASSUME NEW count \in Nat, NEW n \in Nat, n = m + count
      PROVE  Prepend(cells, count, n, fill) \in [0 .. n - 1 -> T]
  <2>1. \A i \in 0 .. n - 1 : ~(i < count) => i - count \in 0 .. m - 1
    BY <1>1
  <2> QED BY <2>1 DEF Prepend
<1>2. ASSUME NEW n \in Nat PROVE Resize(cells, n, fill) \in [0 .. n - 1 -> T]
  BY DEF Resize
<1> QED BY <1>1, <1>2

\* The bits and cells of a span are as many as its length says.
LEMMA SpanTyped ==
  ASSUME NEW s \in SpanType, IsSpan(s)
  PROVE  s.seen \in [0 .. s.len - 1 -> BOOLEAN] /\ s.lanes \in [0 .. s.len - 1 -> Cell]
<1>1. s.seen \in Bits /\ s.lanes \in Lanes /\ s.len \in Nat
      /\ DOMAIN s.seen = 0 .. s.len - 1 /\ DOMAIN s.lanes = 0 .. s.len - 1
  BY DEF SpanType, IsSpan
<1>2. PICK n \in Nat : s.seen \in [0 .. n - 1 -> BOOLEAN]
  BY <1>1 DEF Bits
<1>3. PICK m \in Nat : s.lanes \in [0 .. m - 1 -> Cell]
  BY <1>1 DEF Lanes
<1>4. 0 .. n - 1 = 0 .. s.len - 1 /\ 0 .. m - 1 = 0 .. s.len - 1
  BY <1>1, <1>2, <1>3
<1> QED BY <1>2, <1>3, <1>4

\* A fresh cell is a cell.
LEMMA FreshTyped == Fresh \in Cell
<1>1. <<>> \in Seq(Seq(Int)) OBVIOUS
<1> QED BY <1>1 DEF Fresh, Cell

\* Records with the fields of a span.
LEMMA SpanMade ==
  ASSUME NEW s \in SpanType
  PROVE  /\ \A f \in Nat : [s EXCEPT !.first = f] \in SpanType
         /\ \A st, f \in Nat : [s EXCEPT !.start = st, !.first = f] \in SpanType
         /\ \A l \in Nat, b \in Bits, c \in Lanes :
              [s EXCEPT !.len = l, !.seen = b, !.lanes = c] \in SpanType
         /\ \A l, st, mv \in Nat, b \in Bits, c \in Lanes :
              [s EXCEPT !.len = l, !.start = st, !.moved = mv, !.seen = b, !.lanes = c] \in SpanType
         /\ \A b \in Bits, c \in Lanes : [s EXCEPT !.seen = b, !.lanes = c] \in SpanType
BY DEF SpanType

\* A span that grew is a span.
LEMMA IncludeTyped ==
  ASSUME NEW old, Good(old), NEW first \in Nat, NEW last \in Nat, first <= last
  PROVE  Include(old, first, last) \in SpanType
<1> DEFINE span == IF Active(old) = 0 THEN [old EXCEPT !.first = first] ELSE old
           left == IF first < span.first THEN span.first - first ELSE 0
           end == IF last + 1 > span.first + Active(span) THEN last + 1
                  ELSE span.first + Active(span)
           count == Headroom(span, left)
           roomy == IF left > span.start THEN Rebase(span, count) ELSE span
           moved == [roomy EXCEPT !.start = @ - left, !.first = @ - left]
           needed == moved.start + end - moved.first
           new == IF needed > moved.len THEN Widen(moved, needed) ELSE moved
<1>1. Include(old, first, last) = new
  BY DEF Include
<1>2. old \in SpanType /\ IsSpan(old) /\ Lean(old)
  BY DEF Good
<1>3. span \in SpanType /\ IsSpan(span) /\ span.start <= span.first
  <2>1. CASE Active(old) = 0
    <3>1. span = [old EXCEPT !.first = first]
      BY <2>1
    <3>2. old.start = 0
      BY <1>2, <2>1 DEF Lean, Active, IsSpan
    <3>3. span.start = 0 /\ span.first = first /\ span.len = old.len /\ span.moved = old.moved
          /\ span.seen = old.seen /\ span.lanes = old.lanes /\ DOMAIN span = Fields
      BY <1>2, <3>1, <3>2 DEF SpanType, IsSpan
    <3>4. span \in SpanType
      BY <1>2, <3>1, SpanMade DEF SpanType
    <3> HIDE DEF span
    <3> QED BY <1>2, <3>3, <3>4 DEF IsSpan
  <2>2. CASE Active(old) # 0
    BY <1>2, <2>2 DEF Lean
  <2> QED BY <2>1, <2>2
<1> HIDE DEF span
<1>4. span.first \in Nat /\ span.start \in Nat /\ span.len \in Nat /\ span.start <= span.len
  BY <1>3 DEF IsSpan
<1>5. left \in Nat /\ end \in Nat /\ end >= span.first + Active(span) /\ left <= span.first
  BY <1>4 DEF Active
<1> HIDE DEF left, end
<1>6. left > span.start => count \in Nat /\ left <= span.start + count
  BY <1>3, <1>4, <1>5 DEF Headroom
<1> HIDE DEF count
<1>7. /\ roomy \in SpanType /\ roomy.first = span.first /\ left <= roomy.start
      /\ roomy.len \in Nat /\ roomy.start \in Nat
      /\ roomy.seen \in [0 .. roomy.len - 1 -> BOOLEAN]
      /\ roomy.lanes \in [0 .. roomy.len - 1 -> Cell]
  <2>0. span.seen \in [0 .. span.len - 1 -> BOOLEAN] /\ span.lanes \in [0 .. span.len - 1 -> Cell]
    BY <1>3, SpanTyped
  <2>1. CASE left > span.start
    <3> DEFINE n == span.len + count
               b == Prepend(span.seen, count, n, FALSE)
               c == Prepend(span.lanes, count, n, Fresh)
    <3>1. n \in Nat /\ count \in Nat
      BY <1>4, <1>6, <2>1
    <3>2. b \in [0 .. n - 1 -> BOOLEAN]
      <4>1. FALSE \in BOOLEAN OBVIOUS
      <4>2. n = span.len + count OBVIOUS
      <4> HIDE DEF n
      <4> QED BY <1>4, <2>0, <3>1, <4>1, <4>2, MovedTyped
    <3>3. c \in [0 .. n - 1 -> Cell]
      <4>2. n = span.len + count OBVIOUS
      <4> HIDE DEF n
      <4> QED BY <1>4, <2>0, <3>1, <4>2, MovedTyped, FreshTyped
    <3>4. roomy = [span EXCEPT !.len = @ + count, !.start = @ + count, !.moved = @ + span.len,
                               !.seen = b, !.lanes = c]
      BY <2>1 DEF Rebase
    <3> HIDE DEF b, c, roomy
    <3>5. b \in Bits /\ c \in Lanes
      BY <3>1, <3>2, <3>3 DEF Bits, Lanes
    <3> DEFINE mv == span.moved + span.len
               sr == span.start + count
    <3>6. span.moved \in Nat /\ mv \in Nat /\ sr \in Nat
      BY <1>4, <3>1, <1>3 DEF SpanType
    <3>7. roomy = [span EXCEPT !.len = n, !.start = sr, !.moved = mv, !.seen = b, !.lanes = c]
      BY <3>4
    <3>8. /\ roomy.len = n /\ roomy.start = sr /\ roomy.seen = b /\ roomy.lanes = c
          /\ roomy.first = span.first
      BY <1>3, <3>7 DEF SpanType
    <3>9. roomy \in SpanType
      <4> HIDE DEF n, mv, sr
      <4> QED BY <1>3, <3>1, <3>5, <3>6, <3>7, SpanMade
    <3> QED BY <1>6, <2>1, <3>1, <3>2, <3>3, <3>6, <3>8, <3>9
  <2>2. CASE ~(left > span.start)
    <3>1. roomy = span /\ left <= span.start BY <1>4, <1>5, <2>2
    <3> QED BY <1>3, <1>4, <2>0, <3>1
  <2> QED BY <2>1, <2>2
<1> HIDE DEF roomy
<1>8. /\ moved \in SpanType /\ moved.len = roomy.len /\ moved.seen = roomy.seen
      /\ moved.lanes = roomy.lanes
      /\ moved.start = roomy.start - left /\ moved.first = roomy.first - left
  <2> DEFINE st == roomy.start - left
             f == roomy.first - left
  <2>1. st \in Nat /\ f \in Nat
    BY <1>4, <1>5, <1>7
  <2>2. moved = [roomy EXCEPT !.start = st, !.first = f]
    OBVIOUS
  <2> HIDE DEF moved
  <2>3. moved \in SpanType
    <3> HIDE DEF st, f
    <3> QED BY <1>7, <2>1, <2>2, SpanMade
  <2> QED BY <1>7, <2>2, <2>3 DEF SpanType
<1> HIDE DEF moved
<1>9. needed \in Nat
  <2>1. needed = (roomy.start - left) + end - (roomy.first - left)
    BY <1>8
  <2>2. /\ roomy.start \in Nat /\ left \in Nat /\ end \in Nat /\ roomy.first = span.first
        /\ left <= roomy.start /\ end >= span.first
    BY <1>4, <1>5, <1>7 DEF Active
  <2> HIDE DEF needed
  <2> QED BY <1>4, <2>1, <2>2
<1> HIDE DEF needed
<1>10. CASE needed > moved.len
  <2> DEFINE b == Resize(moved.seen, needed, FALSE)
             c == Resize(moved.lanes, needed, Fresh)
  <2>1. b \in [0 .. needed - 1 -> BOOLEAN] /\ c \in [0 .. needed - 1 -> Cell]
    <3>1. FALSE \in BOOLEAN OBVIOUS
    <3> QED BY <1>7, <1>8, <1>9, <3>1, MovedTyped, FreshTyped
  <2>2. new = [moved EXCEPT !.len = needed, !.seen = b, !.lanes = c]
    BY <1>10 DEF Widen
  <2>3. b \in Bits /\ c \in Lanes
    BY <1>9, <2>1 DEF Bits, Lanes
  <2> HIDE DEF b, c, new
  <2>4. \A l \in Nat, b1 \in Bits, c1 \in Lanes :
          [moved EXCEPT !.len = l, !.seen = b1, !.lanes = c1] \in SpanType
    BY <1>8, SpanMade, Zenon
  <2>5. new \in SpanType
    BY <1>9, <2>2, <2>3, <2>4, Zenon
  <2> QED BY <1>1, <2>5 DEF new
<1>11. CASE ~(needed > moved.len)
  BY <1>1, <1>8, <1>11
<1> QED BY <1>10, <1>11

\* A span that grew to hold a row's steps is as good as it was, and holds them.
LEMMA IncludeGood ==
  ASSUME NEW old, Good(old), NEW first \in Nat, NEW last \in Nat, first <= last,
         NEW new, new = Include(old, first, last)
  PROVE  Good(new) /\ new.first <= first /\ last < new.first + Active(new)
<1>1. IsSpan(old) /\ Clear(old) /\ Lean(old)
  BY DEF Good
<1>2. /\ IsSpan(new) /\ Clear(new) /\ Lean(new)
      /\ new.first <= first /\ last < new.first + Active(new)
  BY <1>1, IncludeIsExact
<1>3. new \in SpanType
  BY IncludeTyped
<1> QED BY <1>2, <1>3 DEF Good

\* The bits set byte by byte and one by one are those between the two ends.
LEMMA BitsInside ==
  ASSUME NEW from \in Nat, NEW to \in Nat
  PROVE  \A i : i \in BitsSet(from, to) <=> i \in Nat /\ from <= i /\ i < to
<1> DEFINE up == from + Byte - 1
           first == up \div Byte
           last == to \div Byte
           a == first * Byte
           b == last * Byte
<1>1. Byte \in Nat /\ 0 < Byte /\ up \in Nat
  BY AggregateAssumption
<1>2. first \in Nat /\ a \in Nat /\ up = a + (up % Byte)
  BY <1>1, DivMod
<1>3. last \in Nat /\ b \in Nat /\ to = b + (to % Byte)
  BY <1>1, DivMod
<1>4. up % Byte \in 0 .. Byte - 1 /\ to % Byte \in 0 .. Byte - 1
  <2> HIDE DEF up
  <2> QED BY <1>1
<1>5. from <= a /\ b <= to
  <2> DEFINE u == up % Byte
             v == to % Byte
  <2>1. u \in 0 .. Byte - 1 /\ v \in 0 .. Byte - 1 /\ from + Byte - 1 = a + u /\ to = b + v
    BY <1>2, <1>3, <1>4
  <2> HIDE DEF u, v, a, b
  <2> QED BY <1>1, <1>2, <1>3, <2>1
<1>6. first < last => a <= b
  BY <1>1, <1>2, <1>3, MulMono
<1>7. BitsSet(from, to) =
        IF first >= last THEN from .. to - 1 ELSE from .. a - 1 \cup a .. b - 1 \cup b .. to - 1
  BY DEF BitsSet
<1>8. first >= last \/ first < last
  <2> HIDE DEF first, last
  <2> QED BY <1>2, <1>3
<1> HIDE DEF up, first, last, a, b
<1> QED BY <1>2, <1>3, <1>5, <1>6, <1>7, <1>8

\* Rows as a call has them: values added, or states taken.
CallRow ==
  {r \in [group : Nat, times : Seq(Int), values : Seq(Cell \cup Seq(Int)), partial : BOOLEAN] :
     /\ Len(r.values) = Len(r.times)
     /\ \A k \in DOMAIN r.times :
          IF r.partial THEN r.values[k] \in Cell ELSE r.values[k] \in Seq(Int)}

\* Whatever a cell takes, it is a cell.
LEMMA TakenTyped ==
  ASSUME NEW cell \in Cell, NEW bit, NEW row \in CallRow, NEW k \in DOMAIN row.times
  PROVE  Taken(cell, bit, row, k) \in Cell
<1>1. cell.of \in Seq(Seq(Int)) /\ cell.merges \in Nat
  BY DEF Cell
<1> DEFINE v == row.values[k]
<1>2. IF row.partial THEN v \in Cell ELSE v \in Seq(Int)
  BY DEF CallRow
<1>3. Taken(cell, bit, row, k) =
        IF ~row.partial THEN Add(cell, v) ELSE IF bit THEN Merge(cell, v) ELSE Copied(cell, v)
  BY DEF Taken
<1> HIDE DEF v
<1>4. CASE row.partial
  <2>1. v.of \in Seq(Seq(Int)) /\ v.merges \in Nat
    BY <1>2, <1>4 DEF Cell
  <2>2. cell.of \o v.of \in Seq(Seq(Int)) /\ cell.merges + v.merges + 1 \in Nat
    BY <1>1, <2>1
  <2>3. Merge(cell, v) \in Cell /\ Copied(cell, v) \in Cell
    BY <2>1, <2>2 DEF Merge, Copied, Cell
  <2> QED BY <1>3, <1>4, <2>3
<1>5. CASE ~row.partial
  <2>1. v \in Seq(Int)
    BY <1>2, <1>5
  <2>2. Append(cell.of, v) \in Seq(Seq(Int))
    BY <1>1, <2>1
  <2>3. Add(cell, v) \in Cell
    BY <2>2 DEF Add, Cell
  <2> QED BY <1>3, <1>5, <2>3
<1> QED BY <1>4, <1>5

\* Where the cells of a row are in use, its headroom stays clear.
LEMMA WriteGood ==
  ASSUME NEW span, Good(span), NEW row \in CallRow, NEW at, DOMAIN at = DOMAIN row.times,
         \A k \in DOMAIN at : at[k] \in span.start .. span.len - 1,
         NEW new, new = Write(span, row, at)
  PROVE  Good(new) /\ new.len = span.len /\ new.first = span.first /\ new.start = span.start
<1> DEFINE bits == UNION {BitsSet(at[r.from], at[r.to] + 1) : r \in Runs(row.times)}
           hits(i) == {k \in DOMAIN at : at[k] = i}
           b == [i \in DOMAIN span.seen |-> span.seen[i] \/ i \in bits]
           c == [i \in DOMAIN span.lanes |->
                   IF hits(i) = {} THEN span.lanes[i]
                   ELSE Taken(span.lanes[i], span.seen[i], row, Min(hits(i)))]
<1>1. new = [span EXCEPT !.seen = b, !.lanes = c]
  BY Zenon DEF Write
<1>2. /\ span \in SpanType /\ IsSpan(span) /\ Clear(span) /\ Lean(span)
      /\ span.seen \in [0 .. span.len - 1 -> BOOLEAN] /\ span.lanes \in [0 .. span.len - 1 -> Cell]
  BY SpanTyped DEF Good
<1>3. span.start \in Nat /\ span.len \in Nat /\ span.start <= span.len
  BY <1>2 DEF IsSpan
<1>4. row.times \in Seq(Int) /\ DOMAIN row.times = 1 .. Len(row.times)
  BY DEF CallRow
<1>5. \A i \in bits : i \in span.start .. span.len - 1
  <2> SUFFICES ASSUME NEW r \in Runs(row.times), NEW i \in BitsSet(at[r.from], at[r.to] + 1)
               PROVE  i \in span.start .. span.len - 1
    BY Zenon
  <2>1. r.from \in DOMAIN at /\ r.to \in DOMAIN at
    BY <1>4, RunEnds
  <2> DEFINE from == at[r.from]
             to == at[r.to]
  <2>2. from \in span.start .. span.len - 1 /\ to \in span.start .. span.len - 1
    BY <2>1
  <2>3. i \in BitsSet(from, to + 1)
    OBVIOUS
  <2> HIDE DEF from, to
  <2>4. from \in Nat /\ to + 1 \in Nat
    BY <1>3, <2>2
  <2>5. i \in Nat /\ from <= i /\ i < to + 1
    BY <2>3, <2>4, BitsInside
  <2> QED BY <1>3, <2>2, <2>5
<1>6. b \in [0 .. span.len - 1 -> BOOLEAN]
  <2>1. \A i : (span.seen[i] \/ i \in bits) \in BOOLEAN
    OBVIOUS
  <2> HIDE DEF bits
  <2> QED BY <1>2, <2>1, Zenon
<1>7. c \in [0 .. span.len - 1 -> Cell]
  <2>1. \A i \in 0 .. span.len - 1 : hits(i) # {} => Min(hits(i)) \in DOMAIN row.times
    <3> TAKE i \in 0 .. span.len - 1
    <3> HAVE hits(i) # {}
    <3> DEFINE S == hits(i)
    <3>1. S \subseteq Nat /\ S \subseteq DOMAIN row.times /\ S # {}
      BY <1>4
    <3> HIDE DEF S
    <3>2. Min(S) \in S
      BY <3>1, MinIsLeast
    <3> QED BY <3>1, <3>2 DEF S
  <2> HIDE DEF hits
  <2>2. \A i \in 0 .. span.len - 1 :
          (IF hits(i) = {} THEN span.lanes[i]
           ELSE Taken(span.lanes[i], span.seen[i], row, Min(hits(i)))) \in Cell
    <3> TAKE i \in 0 .. span.len - 1
    <3>1. span.lanes[i] \in Cell
      BY <1>2
    <3>2. CASE hits(i) = {} BY <3>1, <3>2
    <3>3. CASE hits(i) # {} BY <2>1, <3>1, <3>3, TakenTyped
    <3> QED BY <3>2, <3>3
  <2>3. DOMAIN span.lanes = 0 .. span.len - 1
    BY <1>2
  <2> QED BY <2>2, <2>3
<1>8. \A i \in 0 .. span.start - 1 : b[i] = Unseen /\ c[i] = Fresh
  <2> SUFFICES ASSUME NEW i \in 0 .. span.start - 1 PROVE b[i] = Unseen /\ c[i] = Fresh
    OBVIOUS
  <2>1. i \in 0 .. span.len - 1 /\ i \notin span.start .. span.len - 1
    BY <1>3
  <2>2. i \notin bits /\ hits(i) = {}
    BY <1>5, <2>1
  <2>3. span.seen[i] = Unseen /\ span.lanes[i] = Fresh
    BY <1>2 DEF Clear
  <2>4. DOMAIN span.seen = 0 .. span.len - 1 /\ DOMAIN span.lanes = 0 .. span.len - 1
    BY <1>2
  <2> HIDE DEF bits, hits
  <2>5. c[i] = Fresh
    BY <2>1, <2>2, <2>3, <2>4
  <2>6. b[i] = (span.seen[i] \/ i \in bits)
    BY <2>1, <2>4
  <2>7. b[i] = Unseen
    <3>1. span.seen[i] = FALSE BY <2>3 DEF Unseen
    <3>2. ~(span.seen[i] \/ i \in bits) BY <2>2, <3>1
    <3>3. (span.seen[i] \/ i \in bits) = FALSE BY <3>2
    <3> HIDE DEF b
    <3> QED BY <2>6, <3>3, Zenon DEF Unseen
  <2> QED BY <2>5, <2>7
<1> HIDE DEF b, c, bits, hits
<1>9. b \in Bits /\ c \in Lanes
  BY <1>3, <1>6, <1>7 DEF Bits, Lanes
<1>10. new \in SpanType
  <2>1. \A b1 \in Bits, c1 \in Lanes : [span EXCEPT !.seen = b1, !.lanes = c1] \in SpanType
    BY <1>2, SpanMade, Zenon
  <2> QED BY <1>1, <1>9, <2>1, Zenon
<1>11. /\ new.first = span.first /\ new.start = span.start /\ new.len = span.len
       /\ new.moved = span.moved /\ new.seen = b /\ new.lanes = c /\ DOMAIN new = Fields
  BY <1>1, <1>2 DEF SpanType, IsSpan
<1>12. IsSpan(new)
  BY <1>2, <1>6, <1>7, <1>11 DEF IsSpan
<1>13. Clear(new)
  BY <1>8, <1>11 DEF Clear
<1>14. Lean(new)
  BY <1>2, <1>11 DEF Lean, Active
<1> QED BY <1>10, <1>11, <1>12, <1>13, <1>14 DEF Good

-----------------------------------------------------------------------------
(***************************************************************************)
(* A row among the steps of a span.                                        *)
(***************************************************************************)
\* Every time of a row is in a run, and all of a run but its start follow.
LEMMA RunAround ==
  ASSUME NEW times \in Seq(Int), NEW k \in 1 .. Len(times)
  PROVE  RunOf(times, k) \in Runs(times) /\ RunOf(times, k).from <= k /\ k <= RunOf(times, k).to
<1> DEFINE N == Len(times)
           Starts == Edges(times) \cup {j \in DOMAIN times : j = 1}
           Upto == {s \in Starts : s <= k}
<1>1. N \in Nat /\ DOMAIN times = 1 .. N /\ k \in 1 .. N
  OBVIOUS
<1>2. Starts \subseteq 1 .. N /\ 1 \in Starts
  BY <1>1 DEF Edges
<1>3. \A s : s \in Upto <=> s \in Starts /\ s <= k
  OBVIOUS
<1>4. Upto \in SUBSET (1 .. N) /\ Upto # {}
  BY <1>1, <1>2
<1> DEFINE s == Max(Upto)
<1>5. s \in Upto /\ \A y \in Upto : y <= s
  BY <1>1, <1>4, MaxIn
<1> DEFINE Later == {e \in Edges(times) \cup {N + 1} : e > s}
           r == [from |-> s, to |-> Min(Later) - 1]
<1> HIDE DEF s, Upto, Starts
<1>6. s \in Starts /\ s <= k /\ s \in 1 .. N
  BY <1>2, <1>3, <1>5
<1>7. N + 1 \in Later /\ Later \subseteq Nat
  BY <1>1, <1>6 DEF Edges
<1>8. \A e \in Later : k < e
  <2> TAKE e \in Later
  <2>1. CASE e \in Edges(times)
    <3>1. e \in Starts /\ e > s /\ e \in 1 .. N BY <1>1, <2>1 DEF Starts, Edges
    <3>2. ~(e <= k) BY <1>3, <1>5, <1>6, <3>1
    <3> QED BY <1>1, <3>1, <3>2
  <2>2. CASE e = N + 1 BY <1>1, <2>2
  <2> QED BY <2>1, <2>2
<1>9. r \in Runs(times)
  BY <1>6 DEF Runs, Starts
<1> HIDE DEF Later
<1>10. Min(Later) \in Later
  BY <1>7, MinIsLeast
<1>11. r.from <= k /\ k <= r.to
  <2> DEFINE m == Min(Later)
  <2>1. m \in Nat /\ k < m /\ k \in Nat
    <3>1. k \in Nat OBVIOUS
    <3>2. m \in Nat BY <1>7, <1>10, Zenon
    <3>3. k < m BY <1>8, <1>10, Zenon
    <3> QED BY <3>1, <3>2, <3>3
  <2>2. r.from = s /\ r.to = m - 1
    OBVIOUS
  <2> HIDE DEF m, r
  <2> QED BY <1>6, <2>1, <2>2
<1>12. \E q \in Runs(times) : q.from <= k /\ k <= q.to
  BY <1>9, <1>11
<1> QED BY <1>12 DEF RunOf

\* No edge is inside a run.
LEMMA RunFollows ==
  ASSUME NEW times \in Seq(Int), NEW r \in Runs(times), NEW k \in Nat, r.from < k, k <= r.to
  PROVE  k \in 2 .. Len(times) /\ Follows(times, k)
<1>1. r.from \in 1 .. Len(times) /\ r.to \in 1 .. Len(times)
  BY RunEnds
<1>2. PICK s \in Edges(times) \cup {j \in DOMAIN times : j = 1} :
        r = [from |-> s, to |-> Min({e \in Edges(times) \cup {Len(times) + 1} : e > s}) - 1]
  BY DEF Runs
<1> DEFINE Later == {e \in Edges(times) \cup {Len(times) + 1} : e > s}
<1>3. r.from = s /\ r.to = Min(Later) - 1
  BY <1>2
<1>4. s \in 1 .. Len(times) /\ Len(times) \in Nat
  BY <1>1, <1>3
<1>5. Len(times) + 1 \in Later /\ Later \subseteq Nat
  BY <1>4 DEF Edges
<1>6. k \in 2 .. Len(times)
  BY <1>1
<1>7. ASSUME k \in Edges(times) PROVE FALSE
  <2>1. k \in Later BY <1>3, <1>7
  <2> HIDE DEF Later
  <2>2. Min(Later) \in Later /\ Min(Later) <= k BY <1>5, <2>1, MinIsLeast
  <2>3. Min(Later) \in Nat BY <1>5, <2>2
  <2> QED BY <1>3, <2>2, <2>3
<1> QED BY <1>6, <1>7 DEF Edges

\* The steps of a grid, by their numbers.
LEMMA IndexOfStep ==
  ASSUME grid \in Grids, NEW i \in Nat
  PROVE  Timestamp(i) \in Int /\ Index(Timestamp(i)) = i
<1>1. grid.start \in Int /\ grid.step \in Nat /\ 0 < grid.step
  BY AggregateAssumption DEF Grids
<1> DEFINE p == i * grid.step
<1>2. p \in Nat /\ p \div grid.step = i
  BY <1>1, MultipleDivMod
<1>3. Timestamp(i) = grid.start + p
  BY DEF Timestamp
<1> HIDE DEF p
<1>4. Timestamp(i) - grid.start = p /\ Timestamp(i) \in Int
  BY <1>1, <1>2, <1>3
<1> QED BY <1>2, <1>4 DEF Index

\* The numbers of steps are in the order of their times.
LEMMA StepsAscend ==
  ASSUME grid \in Grids, NEW i \in Nat, NEW j \in Nat
  PROVE  (Timestamp(i) <= Timestamp(j)) <=> (i <= j)
<1>1. grid.start \in Int /\ grid.step \in Nat /\ 0 < grid.step
  BY AggregateAssumption DEF Grids
<1> DEFINE p == i * grid.step
           q == j * grid.step
<1>2. p \in Int /\ q \in Int /\ (p <= q <=> i <= j)
  BY <1>1, MulMono
<1>3. Timestamp(i) = grid.start + p /\ Timestamp(j) = grid.start + q
  BY DEF Timestamp
<1> HIDE DEF p, q
<1> QED BY <1>1, <1>2, <1>3

\* The steps a row is at are numbered one by one along each of its runs.
LEMMA IndexAlongRun ==
  ASSUME grid \in Grids, NEW times \in Seq(Int), WellFormed(times), NEW r \in Runs(times)
  PROVE  /\ r.from \in Nat /\ r.to \in Nat /\ r.from <= r.to
         /\ Index(times[r.to]) = Index(times[r.from]) + (r.to - r.from)
         /\ \A k \in r.from .. r.to : Index(times[k]) = Index(times[r.from]) + (k - r.from)
<1>1. r.from \in 1 .. Len(times) /\ r.to \in 1 .. Len(times) /\ DOMAIN times = 1 .. Len(times)
      /\ Len(times) \in Nat
  BY RunEnds
<1>2. \A k \in 1 .. Len(times) : Index(times[k]) \in Nat /\ times[k] = Timestamp(Index(times[k]))
  <2> TAKE k \in 1 .. Len(times)
  <2>1. PICK i \in 0 .. grid.len - 1 : times[k] = Timestamp(i)
    BY <1>1 DEF WellFormed
  <2>2. i \in Nat OBVIOUS
  <2> QED BY <2>1, <2>2, IndexOfStep
<1>3. ASSUME NEW k \in Nat, r.from < k, k <= r.to
      PROVE  Index(times[k]) = Index(times[k - 1]) + 1
  <2>1. k \in 2 .. Len(times) /\ Follows(times, k)
    BY <1>3, RunFollows
  <2>2. times[k] = times[k - 1] + grid.step
    BY <2>1 DEF Follows
  <2>3. k - 1 \in 1 .. Len(times) /\ k \in 1 .. Len(times)
    BY <1>1, <2>1
  <2> DEFINE i == Index(times[k - 1])
  <2>4. i \in Nat /\ times[k - 1] = Timestamp(i)
    BY <1>2, <2>3
  <2> HIDE DEF i
  <2>5. Timestamp(i + 1) = Timestamp(i) + grid.step
    <3>1. /\ grid.start \in Int /\ grid.step \in Int
          /\ i * grid.step \in Int /\ (i + 1) * grid.step = i * grid.step + grid.step
      BY <2>4, AggregateAssumption DEF Grids
    <3> DEFINE p == i * grid.step
    <3>2. Timestamp(i) = grid.start + p /\ Timestamp(i + 1) = grid.start + (p + grid.step)
          /\ p \in Int
      BY <3>1 DEF Timestamp
    <3> HIDE DEF p
    <3> QED BY <3>1, <3>2
  <2>6. times[k] = Timestamp(i + 1) /\ i + 1 \in Nat
    BY <2>2, <2>4, <2>5
  <2> QED BY <2>6, IndexOfStep DEF i
<1>4. r.from <= r.to
  <2>1. PICK s \in Edges(times) \cup {j \in DOMAIN times : j = 1} :
          r = [from |-> s, to |-> Min({e \in Edges(times) \cup {Len(times) + 1} : e > s}) - 1]
    BY DEF Runs
  <2> DEFINE Later == {e \in Edges(times) \cup {Len(times) + 1} : e > s}
  <2>2. r.from = s /\ r.to = Min(Later) - 1 /\ s \in 1 .. Len(times)
    BY <1>1, <2>1
  <2>3. Later \subseteq Nat /\ Len(times) + 1 \in Later /\ \A e \in Later : e > s
    BY <1>1, <2>2 DEF Edges
  <2> HIDE DEF Later
  <2>4. Min(Later) \in Later BY <2>3, MinIsLeast
  <2>5. Min(Later) \in Nat /\ Min(Later) > s BY <2>3, <2>4
  <2> QED BY <2>2, <2>5
<1> DEFINE n == r.to - r.from
           S == {d \in 0 .. n : Index(times[r.from + d]) = Index(times[r.from]) + d}
<1>5. \A d : d \in S <=> d \in 0 .. n /\ Index(times[r.from + d]) = Index(times[r.from]) + d
  OBVIOUS
<1>6. n \in Nat /\ r.from + n = r.to /\ r.from + 0 = r.from /\ 0 \in 0 .. n /\ n \in 0 .. n
  BY <1>1, <1>4
<1> HIDE DEF S
<1>7. 0 \in S
  <2>1. Index(times[r.from]) \in Nat BY <1>1, <1>2
  <2> QED BY <1>5, <1>6, <2>1
<1>8. \A d \in 0 .. n - 1 : d \in S => d + 1 \in S
  <2> SUFFICES ASSUME NEW d \in 0 .. n - 1, d \in S PROVE d + 1 \in S
    OBVIOUS
  <2> DEFINE k == r.from + (d + 1)
  <2> DEFINE f == r.from
             t == r.to
  <2>a. f \in Nat /\ t \in Nat /\ n = t - f /\ k = f + (d + 1) /\ n \in Nat
    BY <1>1, <1>6
  <2>b. k \in Nat /\ f < k /\ k <= t /\ k - 1 = f + d /\ d + 1 \in 0 .. n
    <3> HIDE DEF f, t, n, k
    <3> QED BY <2>a
  <2>1. k \in Nat /\ r.from < k /\ k <= r.to /\ k - 1 = r.from + d /\ d + 1 \in 0 .. n
    BY <2>b
  <2> HIDE DEF k
  <2>2. Index(times[k]) = Index(times[k - 1]) + 1
    BY <1>3, <2>1
  <2>3. Index(times[r.from + d]) = Index(times[r.from]) + d /\ Index(times[r.from]) \in Nat
    BY <1>1, <1>2, <1>5
  <2>4. Index(times[k]) = Index(times[r.from]) + (d + 1)
    BY <2>1, <2>2, <2>3
  <2> QED BY <1>5, <2>1, <2>4 DEF k
<1>9. \A d \in 0 .. n : d \in S
  BY <1>6, <1>7, <1>8, Induct
<1>10. \A k \in r.from .. r.to : Index(times[k]) = Index(times[r.from]) + (k - r.from)
  <2> TAKE k \in r.from .. r.to
  <2> DEFINE d == k - r.from
  <2>1. d \in 0 .. n /\ r.from + d = k
    BY <1>1
  <2> HIDE DEF d, n
  <2>2. Index(times[r.from + d]) = Index(times[r.from]) + d
    BY <1>5, <1>9, <2>1
  <2> QED BY <2>1, <2>2 DEF d
<1>11. r.to \in r.from .. r.to
  BY <1>1, <1>4
<1> QED BY <1>1, <1>4, <1>10, <1>11

\* Inside a span, the cells of a row are behind the headroom (Grouped::prepare).
LEMMA AtInside ==
  ASSUME grid \in Grids, NEW span, Good(span), NEW times \in Seq(Int), Accepted(times),
         Local(span, times)
  PROVE  /\ DOMAIN At(span, times) = DOMAIN times
         /\ \A k \in DOMAIN times : At(span, times)[k] \in span.start .. span.len - 1
<1>1. span.first \in Nat /\ span.start \in Nat /\ span.len \in Nat /\ span.start <= span.len
  BY DEF Good, IsSpan
<1>2. WellFormed(times)
  BY AcceptedIsWellFormed
<1>3. ASSUME NEW k \in DOMAIN times PROVE At(span, times)[k] \in span.start .. span.len - 1
  <2> DEFINE r == RunOf(times, k)
             i == Index(times[r.from])
             f == r.from
             t == r.to
  <2>1. k \in 1 .. Len(times)
    OBVIOUS
  <2>2. r \in Runs(times) /\ f <= k /\ k <= t
    BY <2>1, RunAround
  <2>3. f \in Nat /\ t \in Nat /\ f \in DOMAIN times
    BY <2>2, RunEnds
  <2>4. i \in Nat
    <3>1. PICK j \in 0 .. grid.len - 1 : times[f] = Timestamp(j)
      BY <1>2, <2>3 DEF WellFormed
    <3>2. j \in Nat OBVIOUS
    <3> QED BY <3>1, <3>2, IndexOfStep
  <2>5. i >= span.first /\ i - span.first + (t - f + 1) <= Active(span)
    BY <2>2 DEF Local
  <2>6. At(span, times)[k] = span.start + i - span.first + (k - f)
    BY DEF At
  <2>7. k \in Nat
    BY <2>1
  <2> DEFINE c == At(span, times)[k]
             p == span.first
             b == span.start
             e == span.len
  <2>8. /\ p \in Nat /\ b \in Nat /\ e \in Nat /\ f <= k /\ k <= t
        /\ i >= p /\ i - p + (t - f + 1) <= e - b /\ c = b + i - p + (k - f)
    BY <1>1, <2>2, <2>5, <2>6 DEF Active
  <2>a. f \in Nat /\ t \in Nat /\ i \in Nat /\ k \in Nat
    BY <2>3, <2>4, <2>7
  <2> HIDE DEF r, i, f, t, c, p, b, e
  <2>9. c \in b .. e - 1
    <3>1. c \in Int /\ e - 1 \in Int
      BY <2>8, <2>a
    <3>2. b <= c /\ c <= e - 1
      BY SMTT(20), <2>8, <2>a
    <3> QED BY <2>8, <3>1, <3>2
  <2> QED BY <2>9 DEF c, b, e
<1> QED BY <1>3 DEF At

\* A row of ascending steps fits the span that grew for it (Grouped::prepare).
LEMMA WellFormedFits ==
  ASSUME grid \in Grids, NEW old, Good(old), NEW times \in Seq(Int), times # <<>>,
         WellFormed(times),
         NEW new, new = Include(old, Index(times[1]), Index(times[Len(times)]))
  PROVE  /\ OnGrid(times[1]) /\ OnGrid(times[Len(times)])
         /\ Index(times[1]) \in Nat /\ Index(times[Len(times)]) \in Nat
         /\ Index(times[1]) <= Index(times[Len(times)])
         /\ Local(new, times)
<1> DEFINE N == Len(times)
           a == Index(times[1])
           z == Index(times[N])
<1>1. N \in Nat /\ 0 < N /\ DOMAIN times = 1 .. N /\ 1 \in 1 .. N /\ N \in 1 .. N
  OBVIOUS
<1>2. \A k \in 1 .. N :
        /\ OnGrid(times[k]) /\ Index(times[k]) \in Nat /\ times[k] = Timestamp(Index(times[k]))
  <2> TAKE k \in 1 .. N
  <2>1. PICK i \in 0 .. grid.len - 1 : times[k] = Timestamp(i)
    BY <1>1 DEF WellFormed
  <2>2. i \in Nat /\ times[k] \in Int
    BY <1>1
  <2> QED BY <2>1, <2>2, IndexOfStep, OnGridExact
<1>3. \A j, k \in 1 .. N : j <= k => Index(times[j]) <= Index(times[k])
  <2> SUFFICES ASSUME NEW j \in 1 .. N, NEW k \in 1 .. N, j <= k
               PROVE  Index(times[j]) <= Index(times[k])
    OBVIOUS
  <2> DEFINE i == Index(times[j])
             l == Index(times[k])
  <2>1. i \in Nat /\ l \in Nat /\ times[j] = Timestamp(i) /\ times[k] = Timestamp(l)
    BY <1>2
  <2>2. j = k \/ j < k OBVIOUS
  <2>3. CASE j = k BY <2>1, <2>3
  <2>4. CASE j < k
    <3>1. times[j] < times[k] BY <1>1, <2>4 DEF WellFormed
    <3>2. times[j] \in Int /\ times[k] \in Int OBVIOUS
    <3>3. Timestamp(i) <= Timestamp(l) BY <2>1, <3>1, <3>2
    <3> HIDE DEF i, l
    <3>4. i <= l BY <2>1, <3>3, StepsAscend
    <3> QED BY <3>4 DEF i, l
  <2> QED BY <2>2, <2>3, <2>4
<1>4. a \in Nat /\ z \in Nat /\ a <= z
  BY <1>1, <1>2, <1>3
<1>5. Good(new) /\ new.first <= a /\ z < new.first + Active(new)
  BY <1>4, IncludeGood
<1>6. ASSUME NEW r \in Runs(times)
      PROVE  /\ Index(times[r.from]) >= new.first
             /\ Index(times[r.from]) - new.first + (r.to - r.from + 1) <= Active(new)
  <2> DEFINE i == Index(times[r.from])
             l == Index(times[r.to])
             f == r.from
             t == r.to
             n == new.first
             m == Active(new)
  <2>1. f \in 1 .. N /\ t \in 1 .. N
    BY RunEnds
  <2>2. 1 <= f /\ t <= N
    BY <1>1, <2>1
  <2>3. a <= i /\ l <= z
    BY <1>1, <1>3, <2>1, <2>2
  <2>4. i \in Nat /\ l \in Nat
    BY <1>2, <2>1
  <2>5. f \in Nat /\ t \in Nat /\ f <= t /\ l = i + (t - f)
    BY IndexAlongRun
  <2>6. n \in Nat /\ m \in Int
    BY <1>5 DEF Good, IsSpan, Active
  <2>7. n <= a /\ z < n + m
    BY <1>5
  <2> HIDE DEF i, l, f, t, n, m, a, z
  <2>8. i >= n /\ i - n + (t - f + 1) <= m
    BY <1>4, <2>3, <2>4, <2>5, <2>6, <2>7
  <2> QED BY <2>8 DEF i, l, f, t, n, m
<1>7. Local(new, times)
  BY <1>6 DEF Local
<1> QED BY <1>1, <1>2, <1>4, <1>7

-----------------------------------------------------------------------------
(***************************************************************************)
(* The seen cells of a group as a row.                                     *)
(***************************************************************************)
\* The places of the cells that were reached.
LEMMA KeptTyped ==
  ASSUME NEW view, view.len \in Nat
  PROVE  /\ Cardinality({s \in 0 .. view.len - 1 : view.span.seen[view.start + s]}) \in Nat
         /\ DOMAIN Kept(view) =
              1 .. Cardinality({s \in 0 .. view.len - 1 : view.span.seen[view.start + s]})
         /\ \A k \in DOMAIN Kept(view) :
              Kept(view)[k] \in 0 .. view.len - 1 /\ view.span.seen[view.start + Kept(view)[k]]
<1> DEFINE seen == {s \in 0 .. view.len - 1 : view.span.seen[view.start + s]}
           n == view.len
<1>1. \A s : s \in seen <=> s \in 0 .. n - 1 /\ view.span.seen[view.start + s]
  OBVIOUS
<1>2. Kept(view) = [k \in 1 .. Cardinality(seen) |->
                      CHOOSE s \in seen : Cardinality({e \in seen : e < s}) = k - 1]
  BY DEF Kept
<1> HIDE DEF seen
<1>3. n \in Nat /\ seen \in SUBSET (0 .. n - 1)
  BY <1>1
<1>4. /\ Cardinality(seen) \in Nat
      /\ \A k \in 1 .. Cardinality(seen) : \E s \in seen : Cardinality({e \in seen : e < s}) = k - 1
  BY <1>3, RankedNumbers
<1>5. DOMAIN Kept(view) = 1 .. Cardinality(seen)
  BY <1>2
<1>6. \A k \in 1 .. Cardinality(seen) : Kept(view)[k] \in seen
  BY <1>2, <1>4
<1>7. \A k \in DOMAIN Kept(view) :
        Kept(view)[k] \in 0 .. n - 1 /\ view.span.seen[view.start + Kept(view)[k]]
  BY <1>1, <1>5, <1>6
<1> QED BY <1>4, <1>5, <1>7 DEF seen

\* Rows of states, on their way between accumulators.
StateRow ==
  {r \in [key : Nat, times : Seq(Int), values : Seq(Cell)] : Len(r.values) = Len(r.times)}

\* A group's cells make a row of states (Grouped::state).
LEMMA ListRowTyped ==
  ASSUME grid \in Grids, NEW st, NEW g, NEW key \in Nat,
         NEW view, view = View(st, g), Good(view.span), view.first \in Nat,
         view.start \in Nat, view.len \in Nat, view.start + view.len <= view.span.len
  PROVE  ListRow(st, g, key) \in StateRow
<1> DEFINE kept == Kept(view)
           n == Cardinality({s \in 0 .. view.len - 1 : view.span.seen[view.start + s]})
           times == [k \in DOMAIN kept |-> Timestamp(view.first + kept[k])]
           values == [k \in DOMAIN kept |-> view.span.lanes[view.start + kept[k]]]
<1>1. n \in Nat /\ DOMAIN kept = 1 .. n /\ \A k \in 1 .. n : kept[k] \in 0 .. view.len - 1
  BY KeptTyped
<1>2. ListRow(st, g, key) = [key |-> key, times |-> times, values |-> values]
  BY DEF ListRow
<1> HIDE DEF kept, n
<1>3. view.span.lanes \in [0 .. view.span.len - 1 -> Cell] /\ view.span.len \in Nat
  BY SpanTyped DEF Good, IsSpan
<1>4. ASSUME NEW k \in 1 .. n
      PROVE  times[k] \in Int /\ values[k] \in Cell
  <2> DEFINE s == kept[k]
             a == view.start
             l == view.len
             f == view.first
             m == view.span.len
  <2>1. s \in 0 .. l - 1 /\ a \in Nat /\ l \in Nat /\ f \in Nat /\ m \in Nat /\ a + l <= m
    BY <1>1, <1>3, <1>4
  <2>2. times[k] = Timestamp(f + s) /\ values[k] = view.span.lanes[a + s]
    BY <1>1
  <2>3. view.span.lanes \in [0 .. m - 1 -> Cell]
    BY <1>3
  <2> HIDE DEF s, a, l, f, m, times, values
  <2>4. f + s \in Nat /\ a + s \in 0 .. m - 1
    BY <2>1
  <2> QED BY <2>2, <2>3, <2>4, IndexOfStep
<1>5. DOMAIN times = 1 .. n /\ DOMAIN values = 1 .. n
  BY <1>1
<1>6. times = [k \in 1 .. n |-> times[k]] /\ values = [k \in 1 .. n |-> values[k]]
  BY <1>1
<1> HIDE DEF times, values
<1>7. times \in Seq(Int) /\ values \in Seq(Cell) /\ Len(times) = n /\ Len(values) = n
  <2>1. times \in [1 .. n -> Int] /\ values \in [1 .. n -> Cell]
    BY <1>4, <1>6
  <2> QED BY <1>1, <1>5, <2>1
<1> QED BY <1>2, <1>7 DEF StateRow

-----------------------------------------------------------------------------
(***************************************************************************)
(* The storage of an accumulator that knows n groups.                      *)
(***************************************************************************)
Storages == [flat : SpanType, spans : Seq(SpanType), heap : Nat]

StoreOK(st, n) ==
  /\ st \in Storages /\ st.heap = SpanBytes(st.spans)
  /\ Good(st.flat) /\ \A g \in DOMAIN st.spans : Good(st.spans[g])
  /\ SingleStep => st.flat.len = n /\ st.flat.start = 0 /\ st.flat.moved = 0
  /\ ~SingleStep => Len(st.spans) = n

\* The bytes of spans are a number.
LEMMA BytesTyped ==
  ASSUME NEW s \in Seq(SpanType)
  PROVE  SpanBytes(s) \in Nat
<1>1. PICK B : Sums(s, B) /\ B[Len(s)] = SpanBytes(s)
  BY BytesAlong
<1>2. Len(s) \in 0 .. Len(s)
  OBVIOUS
<1> QED BY <1>1, <1>2 DEF Sums

\* A span of nothing is good.
LEMMA NewSpanGood == Good(NewSpan) /\ NewSpan.len = 0 /\ NewSpan.start = 0 /\ NewSpan.moved = 0
<1>1. Cells(0, FALSE) \in [0 .. 0 - 1 -> BOOLEAN] /\ Cells(0, Fresh) \in [0 .. 0 - 1 -> Cell]
  BY FreshTyped DEF Cells
<1>2. Cells(0, FALSE) \in Bits /\ Cells(0, Fresh) \in Lanes
  <2>1. 0 \in Nat OBVIOUS
  <2> QED BY <1>1, <2>1, Zenon DEF Bits, Lanes
<1>3. NewSpan \in SpanType
  BY <1>2 DEF NewSpan, SpanType
<1>4. /\ NewSpan.first = 0 /\ NewSpan.start = 0 /\ NewSpan.len = 0 /\ NewSpan.moved = 0
      /\ NewSpan.seen = Cells(0, FALSE) /\ NewSpan.lanes = Cells(0, Fresh)
      /\ DOMAIN NewSpan = Fields
  BY DEF NewSpan, Fields
<1>5. IsSpan(NewSpan)
  <2>1. DOMAIN Cells(0, FALSE) = 0 .. 0 - 1 /\ DOMAIN Cells(0, Fresh) = 0 .. 0 - 1
    BY DEF Cells
  <2>2. 0 \in Nat /\ 0 <= 0 OBVIOUS
  <2> QED BY <1>4, <2>1, <2>2, Zenon DEF IsSpan
<1>6. Clear(NewSpan) /\ Lean(NewSpan)
  BY <1>4 DEF Clear, Lean, Active
<1> QED BY <1>3, <1>4, <1>5, <1>6 DEF Good

\* A new accumulator's storage (Grouped::new).
LEMMA NewStoreOK == StoreOK(NewStore, 0)
<1>1. NewStore.flat = NewSpan /\ NewStore.spans = <<>> /\ NewStore.heap = 0
  BY DEF NewStore
<1>2. <<>> \in Seq(SpanType) /\ Len(<<>>) = 0
  OBVIOUS
<1>3. SpanBytes(<<>>) = 0
  <2>1. PICK B : Sums(<<>>, B) /\ B[Len(<<>>)] = SpanBytes(<<>>)
    BY <1>2, BytesAlong
  <2> QED BY <1>2, <2>1 DEF Sums
<1>4. NewStore \in Storages
  BY <1>2, NewSpanGood DEF NewStore, Storages, Good
<1> QED BY <1>1, <1>2, <1>3, <1>4, NewSpanGood DEF StoreOK

\* A flat span has no headroom and never moved.
FlatSpan(s) == Good(s) /\ s.start = 0 /\ s.moved = 0

\* The bits and cells of n groups.
FlatParts(n, b, c) == n \in Nat /\ b \in [0 .. n - 1 -> BOOLEAN] /\ c \in [0 .. n - 1 -> Cell]

\* A flat span with more or fewer groups.
FlatAs(s, n, b, c) == [s EXCEPT !.len = n, !.seen = b, !.lanes = c]

\* It is as good as it was.
LEMMA FlatGood ==
  ASSUME NEW s, NEW n, NEW b, NEW c, FlatSpan(s), FlatParts(n, b, c)
  PROVE  FlatSpan(FlatAs(s, n, b, c)) /\ FlatAs(s, n, b, c).len = n
<1> DEFINE t == FlatAs(s, n, b, c)
<1>0. /\ Good(s) /\ s.start = 0 /\ s.moved = 0
      /\ n \in Nat /\ b \in [0 .. n - 1 -> BOOLEAN] /\ c \in [0 .. n - 1 -> Cell]
  BY DEF FlatSpan, FlatParts
<1>1. s \in SpanType /\ IsSpan(s)
  BY <1>0 DEF Good
<1>2. b \in Bits /\ c \in Lanes
  BY <1>0 DEF Bits, Lanes
<1>3. t \in SpanType
  BY <1>0, <1>1, <1>2, SpanMade, Zenon DEF FlatAs
<1>4. /\ t.first = s.first /\ t.start = 0 /\ t.len = n /\ t.moved = 0
      /\ t.seen = b /\ t.lanes = c /\ DOMAIN t = Fields
  BY <1>0, <1>1 DEF SpanType, IsSpan, FlatAs
<1>5. s.first \in Nat
  BY <1>1 DEF IsSpan
<1> HIDE DEF t
<1>6. IsSpan(t) /\ Clear(t) /\ Lean(t)
  BY <1>0, <1>4, <1>5 DEF IsSpan, Clear, Lean, Active
<1> QED BY <1>3, <1>4, <1>6 DEF Good, FlatSpan, t

\* Room for more groups (Storage::grow).
LEMMA GrowOK ==
  ASSUME NEW st, NEW n \in Nat, StoreOK(st, n), NEW m \in Nat, n <= m
  PROVE  StoreOK(Grow(st, m), m)
<1>1. st \in Storages /\ Good(st.flat) /\ \A g \in DOMAIN st.spans : Good(st.spans[g])
  BY DEF StoreOK
<1>2. CASE SingleStep
  <2>1. st.flat.len = n /\ st.flat.start = 0 /\ st.flat.moved = 0
    BY <1>2 DEF StoreOK
  <2>2. CASE m > n
    <3> DEFINE b == Resize(st.flat.seen, m, FALSE)
               c == Resize(st.flat.lanes, m, Fresh)
               t == Widen(st.flat, m)
    <3>1. Grow(st, m) = [st EXCEPT !.flat = t]
      BY <1>2, <2>1, <2>2 DEF Grow
    <3>2. st.flat.seen \in [0 .. n - 1 -> BOOLEAN] /\ st.flat.lanes \in [0 .. n - 1 -> Cell]
      BY <1>1, <2>1, SpanTyped DEF Good
    <3>3. b \in [0 .. m - 1 -> BOOLEAN] /\ c \in [0 .. m - 1 -> Cell]
      <4>1. FALSE \in BOOLEAN OBVIOUS
      <4> QED BY <3>2, <4>1, MovedTyped, FreshTyped
    <3>4. t = FlatAs(st.flat, m, b, c)
      BY DEF Widen, FlatAs
    <3> HIDE DEF b, c, t
    <3>5. Good(t) /\ t.len = m /\ t.start = 0 /\ t.moved = 0
      <4>1. FlatSpan(st.flat) /\ FlatParts(m, b, c)
        BY <1>1, <2>1, <3>3 DEF FlatSpan, FlatParts
      <4>2. FlatSpan(t) /\ t.len = m
        BY <3>4, <4>1, FlatGood
      <4> QED BY <4>2 DEF FlatSpan
    <3> DEFINE new == [st EXCEPT !.flat = t]
    <3>6. new \in Storages /\ new.flat = t /\ new.spans = st.spans /\ new.heap = st.heap
      BY <1>1, <3>5 DEF Storages, Good
    <3> HIDE DEF new
    <3>7. StoreOK(new, m)
      BY <1>1, <1>2, <3>5, <3>6 DEF StoreOK
    <3> QED BY <3>1, <3>7 DEF new
  <2>3. CASE ~(m > n)
    <3>1. m = n BY <2>3
    <3> QED BY <1>2, <2>1, <2>3, <3>1 DEF Grow
  <2> QED BY <2>2, <2>3
<1>3. CASE ~SingleStep
  <2>1. Len(st.spans) = n /\ st.spans \in Seq(SpanType) /\ DOMAIN st.spans = 1 .. n
    BY <1>1, <1>3 DEF StoreOK, Storages
  <2> DEFINE old == st.spans
             t == [g \in 1 .. m |-> IF g \in DOMAIN old THEN old[g] ELSE NewSpan]
  <2>2. Grow(st, m) = [st EXCEPT !.spans = t]
    BY <1>3 DEF Grow
  <2>3. old \in Seq(SpanType) /\ Len(old) = n /\ DOMAIN old = 1 .. n
        /\ \A g \in 1 .. n : Good(old[g]) /\ old[g] \in SpanType
    BY <1>1, <2>1
  <2> HIDE DEF old
  <2>4. \A g \in 1 .. m : t[g] \in SpanType /\ Good(t[g])
    <3> TAKE g \in 1 .. m
    <3>1. CASE g \in DOMAIN old BY <2>3, <3>1
    <3>2. CASE g \notin DOMAIN old BY <3>2, NewSpanGood DEF Good
    <3> QED BY <3>1, <3>2
  <2>5. t \in Seq(SpanType) /\ Len(t) = m /\ DOMAIN t = 1 .. m
    <3>1. t \in [1 .. m -> SpanType] BY <2>4
    <3> HIDE DEF t
    <3> QED BY <3>1
  <2>6. SpanBytes(t) = SpanBytes(old)
    <3>1. \A k \in 1 .. Len(old) : t[k] = old[k]
      BY <2>3
    <3>2. \A k \in Len(old) + 1 .. Len(t) : t[k].len = 0
      <4> TAKE k \in Len(old) + 1 .. Len(t)
      <4>1. k \in 1 .. m /\ k \notin DOMAIN old BY <2>3, <2>5
      <4>2. t[k] = NewSpan BY <4>1
      <4> QED BY <4>2, NewSpanGood
    <3>3. Len(old) <= Len(t)
      BY <2>3, <2>5
    <3> HIDE DEF t
    <3> QED BY <2>3, <2>5, <3>1, <3>2, <3>3, BytesGrown
  <2> HIDE DEF t
  <2> DEFINE new == [st EXCEPT !.spans = t]
  <2>7. new \in Storages /\ new.flat = st.flat /\ new.spans = t /\ new.heap = st.heap
    BY <1>1, <2>5 DEF Storages
  <2>8. st.heap = SpanBytes(t)
    BY <2>6 DEF old, StoreOK
  <2> HIDE DEF new
  <2>9. StoreOK(new, m)
    BY <1>1, <1>3, <2>4, <2>5, <2>7, <2>8 DEF StoreOK
  <2> QED BY <2>2, <2>9 DEF new
<1> QED BY <1>2, <1>3

\* The first groups leave (Storage::release).
LEMMA ReleaseOK ==
  ASSUME NEW st, NEW n \in Nat, StoreOK(st, n), NEW k \in 1 .. n
  PROVE  StoreOK(Release(st, k), n - k)
<1>1. st \in Storages /\ Good(st.flat) /\ \A g \in DOMAIN st.spans : Good(st.spans[g])
  BY DEF StoreOK
<1> DEFINE m == n - k
<1>a. m \in Nat /\ k \in Nat /\ \A i \in 0 .. m - 1 : i + k \in 0 .. n - 1
  OBVIOUS
<1>2. CASE SingleStep
  <2>1. st.flat.len = n /\ st.flat.start = 0 /\ st.flat.moved = 0
    BY <1>2 DEF StoreOK
  <2> DEFINE b == [i \in 0 .. st.flat.len - k - 1 |-> st.flat.seen[i + k]]
             c == [i \in 0 .. st.flat.len - k - 1 |-> st.flat.lanes[i + k]]
             w == Widen(st.flat, st.flat.len - k)
             t == [w EXCEPT !.seen = b, !.lanes = c]
  <2>2. Release(st, k) = [st EXCEPT !.flat = t]
    BY <1>2, Zenon DEF Release
  <2>3. st.flat.seen \in [0 .. n - 1 -> BOOLEAN] /\ st.flat.lanes \in [0 .. n - 1 -> Cell]
    BY <1>1, <2>1, SpanTyped DEF Good
  <2>4. b \in [0 .. m - 1 -> BOOLEAN] /\ c \in [0 .. m - 1 -> Cell]
    <3>1. \A i \in 0 .. m - 1 : st.flat.seen[i + k] \in BOOLEAN /\ st.flat.lanes[i + k] \in Cell
      BY <1>a, <2>3
    <3>2. st.flat.len - k - 1 = m - 1
      BY <2>1
    <3> QED BY <3>1, <3>2
  <2>5. st.flat \in SpanType /\ DOMAIN st.flat = Fields
    BY <1>1 DEF Good, IsSpan
  <2>6. t = FlatAs(st.flat, m, b, c)
    <3> HIDE DEF b, c
    <3>1. st.flat.len - k = m BY <2>1
    <3> QED BY <2>5, <3>1 DEF Widen, Fields, SpanType, FlatAs
  <2> HIDE DEF b, c, w, t
  <2>7. Good(t) /\ t.len = m /\ t.start = 0 /\ t.moved = 0
    <3> HIDE DEF m
    <3>1. FlatSpan(st.flat) /\ FlatParts(m, b, c)
      BY <1>1, <1>a, <2>1, <2>4 DEF FlatSpan, FlatParts
    <3>2. FlatSpan(t) /\ t.len = m
      BY <2>6, <3>1, FlatGood
    <3> QED BY <3>2 DEF FlatSpan
  <2> DEFINE new == [st EXCEPT !.flat = t]
  <2>8. new \in Storages /\ new.flat = t /\ new.spans = st.spans /\ new.heap = st.heap
    BY <1>1, <2>7 DEF Storages, Good
  <2> HIDE DEF new
  <2>9. StoreOK(new, m)
    BY <1>1, <1>2, <2>7, <2>8 DEF StoreOK
  <2> QED BY <2>2, <2>9 DEF new
<1>3. CASE ~SingleStep
  <2> DEFINE old == st.spans
             u == SubSeq(old, 1, k)
             t == SubSeq(old, k + 1, Len(old))
  <2>1. old \in Seq(SpanType) /\ Len(old) = n /\ st.heap = SpanBytes(old) /\ st.heap \in Nat
        /\ \A g \in 1 .. n : Good(old[g])
    BY <1>1, <1>3 DEF StoreOK, Storages
  <2>2. Release(st, k) = [st EXCEPT !.heap = st.heap - SpanBytes(u), !.spans = t]
    BY <1>1, <1>3 DEF Release, Storages
  <2> HIDE DEF old
  <2>3. u \in Seq(SpanType) /\ t \in Seq(SpanType) /\ Len(t) = m /\ DOMAIN t = 1 .. m
        /\ \A g \in 1 .. m : t[g] = old[k + g]
    BY <2>1
  <2>4. \A g \in 1 .. m : Good(t[g])
    <3> TAKE g \in 1 .. m
    <3>1. k + g \in 1 .. n OBVIOUS
    <3> QED BY <2>1, <2>3, <3>1
  <2>5. SpanBytes(old) = SpanBytes(u) + SpanBytes(t)
    <3>1. k \in 0 .. Len(old) BY <2>1
    <3> QED BY <2>1, <3>1, BytesSplit
  <2> HIDE DEF u, t
  <2>6. SpanBytes(u) \in Nat /\ SpanBytes(t) \in Nat
    BY <2>3, BytesTyped
  <2> DEFINE h == st.heap
             a == SpanBytes(u)
             z == SpanBytes(t)
  <2>7. h - a = z
    <3>1. h = a + z /\ a \in Nat /\ z \in Nat BY <2>1, <2>5, <2>6
    <3> HIDE DEF h, a, z
    <3> QED BY <3>1
  <2> DEFINE new == [st EXCEPT !.heap = z, !.spans = t]
  <2>8. new \in Storages /\ new.flat = st.flat /\ new.spans = t /\ new.heap = z
    BY <1>1, <2>3, <2>6 DEF Storages
  <2>9. Release(st, k) = new
    BY <2>2, <2>7
  <2> HIDE DEF new
  <2>10. StoreOK(new, m)
    BY <1>1, <1>3, <2>3, <2>4, <2>8 DEF StoreOK
  <2> QED BY <2>9, <2>10
<1> QED BY <1>2, <1>3

\* A row of ascending steps is acceptable, and no other (Grid::try_runs).
LEMMA AcceptableExact ==
  ASSUME grid \in Grids, NEW st, NEW n \in Nat, StoreOK(st, n), NEW row \in CallRow,
         row.group \in 1 .. n
  PROVE  Acceptable(st, row) <=> WellFormed(row.times)
<1> DEFINE times == row.times
           old == st.spans[row.group]
<1>1. times \in Seq(Int)
  BY DEF CallRow
<1>2. Acceptable(st, row) => WellFormed(times)
  BY <1>1, AcceptedIsWellFormed DEF Acceptable
<1>3. ASSUME WellFormed(times) PROVE Acceptable(st, row)
  <2>1. Accepted(times)
    BY <1>1, <1>3, AcceptedIsWellFormed
  <2>2. CASE SingleStep \/ times = <<>>
    BY <2>1, <2>2 DEF Acceptable
  <2>3. CASE ~SingleStep /\ times # <<>>
    <3>1. DOMAIN st.spans = 1 .. n
      BY <2>3 DEF StoreOK, Storages
    <3>2. Good(old)
      BY <3>1 DEF StoreOK
    <3> DEFINE new == Include(old, Index(times[1]), Index(times[Len(times)]))
    <3>3. Prepared(old, times) = new
      BY <2>3 DEF Prepared
    <3> HIDE DEF times, old, new
    <3>4. /\ OnGrid(times[1]) /\ OnGrid(times[Len(times)])
          /\ Index(times[1]) <= Index(times[Len(times)])
          /\ Local(new, times)
      BY <1>1, <1>3, <2>3, <3>2, WellFormedFits DEF new
    <3> QED BY <2>1, <3>3, <3>4 DEF Acceptable, times, old
  <2> QED BY <2>2, <2>3
<1> QED BY <1>2, <1>3

\* A row's cells are written and its group's span is charged (Grouped::add_series).
LEMMA AddSeriesOK ==
  ASSUME grid \in Grids, NEW st, NEW n \in Nat, StoreOK(st, n), NEW row \in CallRow,
         row.group \in 1 .. n, Acceptable(st, row)
  PROVE  StoreOK(AddSeries(st, row), n)
<1>0. st \in Storages /\ Good(st.flat) /\ \A g \in DOMAIN st.spans : Good(st.spans[g])
  BY DEF StoreOK
<1>1. row.times \in Seq(Int) /\ row.group \in Nat /\ DOMAIN row.times = 1 .. Len(row.times)
  BY DEF CallRow
<1>2. CASE SingleStep
  <2> DEFINE at == [k \in DOMAIN row.times |-> row.group - 1]
             t == Write(st.flat, row, at)
             new == [st EXCEPT !.flat = t]
  <2>1. AddSeries(st, row) = new
    BY <1>2 DEF AddSeries
  <2>2. st.flat.len = n /\ st.flat.start = 0 /\ st.flat.moved = 0
    BY <1>2 DEF StoreOK
  <2>3. DOMAIN at = DOMAIN row.times
        /\ \A k \in DOMAIN at : at[k] \in st.flat.start .. st.flat.len - 1
    BY <1>1, <2>2
  <2>a. t.moved = st.flat.moved
    <3>1. st.flat \in SpanType BY <1>0 DEF Good
    <3> QED BY <3>1 DEF Write, SpanType
  <2> HIDE DEF at
  <2>4. Good(t) /\ t.len = st.flat.len /\ t.start = st.flat.start
    BY <1>0, <2>3, WriteGood
  <2> HIDE DEF t
  <2>5. new \in Storages /\ new.flat = t /\ new.spans = st.spans /\ new.heap = st.heap
    BY <1>0, <2>4 DEF Storages, Good
  <2> HIDE DEF new
  <2>6. StoreOK(new, n)
    BY <1>0, <1>2, <2>2, <2>a, <2>4, <2>5 DEF StoreOK
  <2> QED BY <2>1, <2>6
<1>3. CASE ~SingleStep
  <2> DEFINE g == row.group
             old == st.spans[g]
             span == Prepared(old, row.times)
             at == At(span, row.times)
             t == Write(span, row, at)
             h == st.heap - old.len + span.len
             spans == [st.spans EXCEPT ![g] = t]
             new == [st EXCEPT !.heap = h, !.spans = spans]
  <2>1. AddSeries(st, row) = new
    BY <1>0, <1>3 DEF AddSeries, Storages
  <2>2. st.spans \in Seq(SpanType) /\ Len(st.spans) = n /\ DOMAIN st.spans = 1 .. n
        /\ g \in DOMAIN st.spans
    BY <1>3 DEF StoreOK, Storages
  <2>3. Good(old)
    BY <2>2 DEF StoreOK
  <2>4. Good(span) /\ DOMAIN at = DOMAIN row.times
        /\ \A k \in DOMAIN at : at[k] \in span.start .. span.len - 1
    <3>1. Accepted(row.times)
      BY DEF Acceptable
    <3>2. WellFormed(row.times)
      BY <1>1, <3>1, AcceptedIsWellFormed
    <3>3. CASE row.times = <<>>
      <4>1. span = old BY <3>3 DEF Prepared
      <4>2. DOMAIN row.times = {} BY <3>3
      <4>3. DOMAIN at = {} BY <4>2 DEF At
      <4> QED BY <2>3, <4>1, <4>2, <4>3
    <3>4. CASE row.times # <<>>
      <4> DEFINE a == Index(row.times[1])
                 z == Index(row.times[Len(row.times)])
      <4>1. span = Include(old, a, z)
        BY <3>4 DEF Prepared
      <4>2. Local(span, row.times)
        BY <1>3, <3>4 DEF Acceptable
      <4> HIDE DEF span
      <4>3. a \in Nat /\ z \in Nat /\ a <= z
        BY <1>1, <2>3, <3>2, <3>4, WellFormedFits
      <4> HIDE DEF a, z, old
      <4>4. Good(span)
        BY <2>3, <4>1, <4>3, IncludeGood
      <4> QED BY <1>1, <3>1, <4>2, <4>4, AtInside
    <3> QED BY <3>3, <3>4
  <2> HIDE DEF span, at
  <2>5. Good(t) /\ t.len = span.len
    BY <2>4, WriteGood
  <2> HIDE DEF t
  <2>6. t \in SpanType /\ old \in SpanType
    BY <2>3, <2>5 DEF Good
  <2>7. SpanBytes(spans) = SpanBytes(st.spans) - old.len + t.len
    BY <2>2, <2>6, BytesReplaced
  <2>8. h = SpanBytes(spans)
    BY <2>5, <2>7 DEF StoreOK
  <2>9. spans \in Seq(SpanType) /\ Len(spans) = n /\ DOMAIN spans = 1 .. n
        /\ \A k \in 1 .. n : spans[k] = IF k = g THEN t ELSE st.spans[k]
    BY <2>2, <2>6
  <2>10. \A k \in 1 .. n : Good(spans[k])
    BY <1>0, <2>2, <2>5, <2>9
  <2> HIDE DEF spans
  <2>11. h \in Nat
    BY <2>8, <2>9, BytesTyped
  <2> HIDE DEF h
  <2>12. new \in Storages /\ new.flat = st.flat /\ new.spans = spans /\ new.heap = h
    BY <1>0, <2>9, <2>11 DEF Storages
  <2> HIDE DEF new
  <2>13. StoreOK(new, n)
    BY <1>0, <1>3, <2>8, <2>9, <2>10, <2>12 DEF StoreOK
  <2> QED BY <2>1, <2>13
<1> QED BY <1>2, <1>3

\* What leaves an accumulator are rows of states (Grouped::state).
LEMMA EmittedTyped ==
  ASSUME grid \in Grids, NEW st, NEW n \in Nat, StoreOK(st, n), NEW g \in 1 .. n, NEW key \in Nat
  PROVE  ListRow(st, g, key) \in StateRow
<1> DEFINE view == View(st, g)
<1>0. Good(st.flat) /\ \A i \in DOMAIN st.spans : Good(st.spans[i])
  BY DEF StoreOK
<1>1. CASE SingleStep
  <2>1. view = [span |-> st.flat, start |-> g - 1, len |-> 1, first |-> 0]
    BY <1>1 DEF View
  <2>2. st.flat.len = n
    BY <1>1 DEF StoreOK
  <2>3. Good(view.span) /\ view.first = 0 /\ view.start = g - 1 /\ view.len = 1 /\ view.span.len = n
    BY <1>0, <2>1, <2>2
  <2> HIDE DEF view
  <2>4. view.first \in Nat /\ view.start \in Nat /\ view.len \in Nat
        /\ view.start + view.len <= view.span.len
    BY <2>3
  <2> QED BY <2>3, <2>4, ListRowTyped DEF view
<1>2. CASE ~SingleStep
  <2> DEFINE s == st.spans[g]
  <2>1. view = [span |-> s, start |-> s.start, len |-> Active(s), first |-> s.first]
    BY <1>2 DEF View
  <2>2. DOMAIN st.spans = 1 .. n
    BY <1>2 DEF StoreOK, Storages
  <2>3. Good(s)
    BY <1>0, <2>2
  <2> HIDE DEF s
  <2>4. s.first \in Nat /\ s.start \in Nat /\ s.len \in Nat /\ s.start <= s.len
    BY <2>3 DEF Good, IsSpan
  <2>5. /\ Good(view.span) /\ view.first = s.first /\ view.start = s.start
        /\ view.len = s.len - s.start /\ view.span.len = s.len
    BY <2>1, <2>3 DEF Active
  <2> HIDE DEF view
  <2>6. view.first \in Nat /\ view.start \in Nat /\ view.len \in Nat
        /\ view.start + view.len <= view.span.len
    BY <2>4, <2>5
  <2> QED BY <2>5, <2>6, ListRowTyped DEF view
<1> QED BY <1>1, <1>2

-----------------------------------------------------------------------------
(***************************************************************************)
(* The inductive invariant of the accumulators.                            *)
(***************************************************************************)
InputsOK ==
  /\ grid \in Grids /\ input \in [Partials -> Seq(Seq(InputRow))]
  /\ taken \in [Partials -> Nat] /\ \A p \in Partials : taken[p] <= Len(input[p])
  /\ skipping \subseteq Partials

KeysOK == keys \in [Accumulators -> Seq(Nat)]

StoresOK ==
  DOMAIN store = Accumulators /\ \A a \in Accumulators : StoreOK(store[a], Len(keys[a]))

SentOK == sent \in [Partials -> Seq(Seq(StateRow))]

CallOK ==
  /\ call \in Seq(CallRow)
  /\ call # <<>> =>
       callee \in Accumulators /\ \A n \in DOMAIN call : call[n].group \in DOMAIN keys[callee]

IInv == InputsOK /\ KeysOK /\ StoresOK /\ SentOK /\ CallOK /\ FailsOnlyMalformed

\* A call opens: its groups have places, and room.
LEMMA OpenKeeps ==
  ASSUME KeysOK, StoresOK, grid' = grid, NEW a \in Accumulators,
         NEW R, \A r \in R : r.key \in Nat, NEW rows \in Seq(R),
         NEW ks, ks = Interned(keys[a], rows),
         NEW feed \in Seq(CallRow), \A n \in DOMAIN feed : feed[n].group \in DOMAIN ks,
         Open(a, rows, feed)
  PROVE  KeysOK' /\ StoresOK' /\ CallOK'
<1>1. keys[a] \in Seq(Nat) /\ keys[a] \in Seq(GroupKeys) /\ \A r \in R : r.key \in GroupKeys
  BY DEF KeysOK, GroupKeys
<1>2. ks \in Seq(Nat) /\ Len(keys[a]) <= Len(ks)
  BY <1>1, InternedExact DEF GroupKeys
<1>3. /\ keys' = [keys EXCEPT ![a] = ks]
      /\ store' = [store EXCEPT ![a] = Grow(store[a], Len(ks))]
      /\ callee' = a /\ call' = feed
  BY DEF Open
<1>4. keys' \in [Accumulators -> Seq(Nat)] /\ keys'[a] = ks
      /\ \A b \in Accumulators : b # a => keys'[b] = keys[b]
  BY <1>2, <1>3 DEF KeysOK
<1>5. DOMAIN store' = Accumulators /\ store'[a] = Grow(store[a], Len(ks))
      /\ \A b \in Accumulators : b # a => store'[b] = store[b]
  BY <1>3 DEF StoresOK
<1>6. StoreOK(store'[a], Len(keys'[a]))
  <2> DEFINE n == Len(keys[a])
             m == Len(ks)
  <2>1. n \in Nat /\ m \in Nat /\ n <= m
    BY <1>1, <1>2
  <2>2. StoreOK(store[a], n)
    BY DEF StoresOK
  <2> HIDE DEF n, m
  <2>3. StoreOK(Grow(store[a], m), m)
    BY <2>1, <2>2, GrowOK
  <2> QED BY <1>4, <1>5, <2>3 DEF m
<1>7. \A b \in Accumulators : StoreOK(store'[b], Len(keys'[b]))
  <2> TAKE b \in Accumulators
  <2>1. CASE b = a BY <1>6, <2>1
  <2>2. CASE b # a BY <1>4, <1>5, <2>2 DEF StoresOK
  <2> QED BY <2>1, <2>2
<1>8. StoresOK'
  BY <1>5, <1>7 DEF StoresOK, StoreOK, SingleStep
<1>9. CallOK'
  BY <1>3, <1>4 DEF CallOK
<1> QED BY <1>4, <1>8, <1>9 DEF KeysOK

\* The first groups of an accumulator leave.
LEMMA DrainKeeps ==
  ASSUME KeysOK, StoresOK, grid' = grid, NEW a \in Accumulators, NEW n \in 1 .. Len(keys[a]),
         Drain(a, n)
  PROVE  KeysOK' /\ StoresOK'
<1> DEFINE ks == SubSeq(keys[a], n + 1, Len(keys[a]))
           l == Len(keys[a])
<1>1. keys[a] \in Seq(Nat) /\ l \in Nat /\ n \in 1 .. l
  BY DEF KeysOK
<1>2. ks \in Seq(Nat) /\ Len(ks) = l - n
  BY <1>1
<1>3. /\ keys' = [keys EXCEPT ![a] = ks]
      /\ store' = [store EXCEPT ![a] = Release(store[a], n)]
  BY DEF Drain
<1> HIDE DEF ks
<1>4. keys' \in [Accumulators -> Seq(Nat)] /\ keys'[a] = ks
      /\ \A b \in Accumulators : b # a => keys'[b] = keys[b]
  BY <1>2, <1>3 DEF KeysOK
<1>5. DOMAIN store' = Accumulators /\ store'[a] = Release(store[a], n)
      /\ \A b \in Accumulators : b # a => store'[b] = store[b]
  BY <1>3 DEF StoresOK
<1>6. StoreOK(store'[a], Len(keys'[a]))
  <2>1. StoreOK(store[a], l)
    BY DEF StoresOK
  <2> HIDE DEF l
  <2>2. StoreOK(Release(store[a], n), l - n)
    BY <1>1, <2>1, ReleaseOK
  <2> QED BY <1>2, <1>4, <1>5, <2>2
<1>7. \A b \in Accumulators : StoreOK(store'[b], Len(keys'[b]))
  <2> TAKE b \in Accumulators
  <2>1. CASE b = a BY <1>6, <2>1
  <2>2. CASE b # a BY <1>4, <1>5, <2>2 DEF StoresOK
  <2> QED BY <2>1, <2>2
<1>8. StoresOK'
  BY <1>5, <1>7 DEF StoresOK, StoreOK, SingleStep
<1> QED BY <1>4, <1>8 DEF KeysOK

\* What leaves an accumulator with its first groups.
LEMMA EmittedRows ==
  ASSUME grid \in Grids, KeysOK, StoresOK, NEW a \in Accumulators, NEW n \in 1 .. Len(keys[a])
  PROVE  Emitted(a, n) \in Seq(StateRow)
<1> DEFINE l == Len(keys[a])
<1>1. keys[a] \in Seq(Nat) /\ l \in Nat /\ n \in Nat /\ \A g \in 1 .. n : g \in 1 .. l
  BY DEF KeysOK
<1>2. StoreOK(store[a], l)
  BY DEF StoresOK
<1>3. \A g \in 1 .. n : keys[a][g] \in Nat
  BY <1>1
<1> HIDE DEF l
<1>4. \A g \in 1 .. n : ListRow(store[a], g, keys[a][g]) \in StateRow
  BY <1>1, <1>2, <1>3, EmittedTyped
<1>5. Emitted(a, n) \in [1 .. n -> StateRow]
  BY <1>4 DEF Emitted
<1> QED BY <1>1, <1>5

\* What a partial was given, once it took its next batch.
LEMMA GivenGrows ==
  ASSUME InputsOK, input' = input, NEW p \in Partials, taken[p] < Len(input[p]),
         taken' = [taken EXCEPT ![p] = @ + 1]
  PROVE  /\ taken' \in [Partials -> Nat] /\ \A q \in Partials : taken'[q] <= Len(input[q])
         /\ input[p][taken[p] + 1] \in Seq(InputRow)
         /\ \A r \in Given' : r \in Given \/ \E n \in DOMAIN input[p][taken[p] + 1] :
                                               r = input[p][taken[p] + 1][n]
<1>1. taken \in [Partials -> Nat] /\ input[p] \in Seq(Seq(InputRow)) /\ taken[p] \in Nat
      /\ Len(input[p]) \in Nat
  BY DEF InputsOK
<1>2. taken' \in [Partials -> Nat] /\ taken'[p] = taken[p] + 1
      /\ \A q \in Partials : q # p => taken'[q] = taken[q]
  BY <1>1
<1>3. \A q \in Partials : taken'[q] <= Len(input[q])
  <2> TAKE q \in Partials
  <2>1. CASE q = p BY <1>1, <1>2, <2>1
  <2>2. CASE q # p BY <1>2, <2>2 DEF InputsOK
  <2> QED BY <2>1, <2>2
<1>4. taken[p] + 1 \in 1 .. Len(input[p])
  BY <1>1
<1>5. input[p][taken[p] + 1] \in Seq(InputRow)
  BY <1>1, <1>4
<1>6. ASSUME NEW r \in Given'
      PROVE  r \in Given \/ \E n \in DOMAIN input[p][taken[p] + 1] : r = input[p][taken[p] + 1][n]
  <2>1. PICK q \in Partials : r \in UNION {ToSet(input[q][n]) : n \in 1 .. taken'[q]}
    BY <1>6 DEF Given
  <2>2. PICK n \in 1 .. taken'[q] : r \in ToSet(input[q][n])
    BY <2>1
  <2>3. CASE n \in 1 .. taken[q]
    BY <2>2, <2>3 DEF Given
  <2>4. CASE n \notin 1 .. taken[q]
    <3>1. q = p BY <1>2, <2>4
    <3>2. n = taken[p] + 1 BY <1>1, <1>2, <2>4, <3>1
    <3> QED BY <2>2, <3>1, <3>2 DEF ToSet
  <2> QED BY <2>3, <2>4
<1> QED BY <1>2, <1>3, <1>5, <1>6

\* The rows of a call of update_batch.
FeedOf(ks, kept) ==
  [n \in DOMAIN kept |->
     [group |-> GroupOf(ks, kept[n].key), times |-> kept[n].times,
      values |-> Contributions(kept[n]), partial |-> FALSE]]

\* A filter's batch as the rows of a call: they are of groups there are.
LEMMA FeedTyped ==
  ASSUME NEW rows \in Seq(InputRow), NEW known \in Seq(Nat), NEW ks, ks = Interned(known, rows),
         NEW feed, feed = FeedOf(ks, Unskipped(rows))
  PROVE  /\ feed \in Seq(CallRow) /\ \A n \in DOMAIN feed : feed[n].group \in DOMAIN ks
         /\ \A n \in DOMAIN rows : rows[n].skipped \/
              \E m \in DOMAIN feed : ~feed[m].partial /\ feed[m].times = rows[n].times
<1> DEFINE kept == Unskipped(rows)
<1>1. /\ kept \in Seq(InputRow)
      /\ \A m \in DOMAIN kept : \E n \in DOMAIN rows : kept[m] = rows[n]
      /\ \A n \in DOMAIN rows : rows[n].skipped \/ \E m \in DOMAIN kept : kept[m] = rows[n]
  BY UnskippedExact
<1>2. feed = [n \in DOMAIN kept |->
                [group |-> GroupOf(ks, kept[n].key), times |-> kept[n].times,
                 values |-> Contributions(kept[n]), partial |-> FALSE]]
  BY DEF FeedOf
<1> HIDE DEF kept
<1>3. ks \in Seq(Nat) /\ \A n \in DOMAIN rows : GroupOf(ks, rows[n].key) \in DOMAIN ks
  <2>1. known \in Seq(GroupKeys) /\ \A r \in InputRow : r.key \in GroupKeys
    BY DEF GroupKeys, InputRow
  <2> QED BY <2>1, InternedExact DEF GroupKeys
<1>4. \A n \in DOMAIN kept : GroupOf(ks, kept[n].key) \in DOMAIN ks
  BY <1>1, <1>3
<1>5. DOMAIN kept = 1 .. Len(kept) /\ Len(kept) \in Nat /\ \A n \in DOMAIN kept : kept[n] \in InputRow
  BY <1>1
<1>6. DOMAIN feed = DOMAIN kept
      /\ \A n \in DOMAIN kept :
           feed[n] = [group |-> GroupOf(ks, kept[n].key), times |-> kept[n].times,
                      values |-> Contributions(kept[n]), partial |-> FALSE]
  BY <1>2
<1>7. \A n \in DOMAIN kept : feed[n] \in CallRow
  <2> TAKE n \in DOMAIN kept
  <2> DEFINE r == kept[n]
             v == Contributions(r)
             g == GroupOf(ks, r.key)
             t == r.times
             row == [group |-> g, times |-> t, values |-> v, partial |-> FALSE]
  <2>1. r.id \in Nat /\ t \in Seq(Int)
    BY <1>5 DEF InputRow
  <2>2. v \in Seq(Seq(Int)) /\ Len(v) = Len(t)
    <3>1. \A k \in DOMAIN t : <<r.id, t[k]>> \in Seq(Int)
      BY <2>1
    <3>2. v = [k \in 1 .. Len(t) |-> <<r.id, t[k]>>] /\ Len(t) \in Nat /\ DOMAIN t = 1 .. Len(t)
      BY <2>1 DEF Contributions
    <3> DEFINE Z == Seq(Int)
               l == Len(t)
    <3>3. v \in [1 .. l -> Z] /\ l \in Nat
      BY <3>1, <3>2
    <3> HIDE DEF Z, l, v
    <3>4. v \in Seq(Z) /\ Len(v) = l
      BY <3>3
    <3> QED BY <3>4 DEF Z, l
  <2>3. g \in Nat
    <3>1. g \in DOMAIN ks BY <1>4
    <3> QED BY <1>3, <3>1
  <2> HIDE DEF r, v, g, t
  <2>4. v \in Seq(Cell \cup Seq(Int))
    BY <2>2
  <2>5. \A k \in DOMAIN t : v[k] \in Seq(Int)
    BY <2>1, <2>2
  <2>6. row \in CallRow
    BY <2>1, <2>2, <2>3, <2>4, <2>5 DEF CallRow
  <2>7. feed[n] = row
    BY <1>6 DEF r, v, g, t
  <2> QED BY <2>6, <2>7
<1>8. feed \in Seq(CallRow)
  <2>1. feed \in [1 .. Len(kept) -> CallRow]
    BY <1>2, <1>5, <1>6, <1>7
  <2> QED BY <1>5, <2>1
<1>9. \A n \in DOMAIN feed : feed[n].group \in DOMAIN ks
  BY <1>4, <1>6
<1>10. ASSUME NEW n \in DOMAIN rows
       PROVE  rows[n].skipped \/ \E m \in DOMAIN feed : ~feed[m].partial /\ feed[m].times = rows[n].times
  <2>1. CASE rows[n].skipped BY <2>1
  <2>2. CASE ~rows[n].skipped
    <3>1. PICK m \in DOMAIN kept : kept[m] = rows[n] BY <1>1, <2>2
    <3>2. feed[m].partial = FALSE /\ feed[m].times = rows[n].times BY <1>6, <3>1
    <3>3. ~feed[m].partial BY <3>2
    <3> QED BY <1>6, <3>2, <3>3
  <2> QED BY <2>1, <2>2
<1> QED BY <1>8, <1>9, <1>10

\* A batch of states as the rows of a call.
LEMMA MergeFeedTyped ==
  ASSUME NEW rows \in Seq(StateRow), NEW known \in Seq(Nat), NEW ks, ks = Interned(known, rows),
         NEW feed, feed = [n \in DOMAIN rows |->
                             [group |-> GroupOf(ks, rows[n].key), times |-> rows[n].times,
                              values |-> rows[n].values, partial |-> TRUE]]
  PROVE  feed \in Seq(CallRow) /\ \A n \in DOMAIN feed : feed[n].group \in DOMAIN ks
<1>1. ks \in Seq(Nat) /\ \A n \in DOMAIN rows : GroupOf(ks, rows[n].key) \in DOMAIN ks
  <2>1. known \in Seq(GroupKeys) /\ \A r \in StateRow : r.key \in GroupKeys
    BY DEF GroupKeys, StateRow
  <2> QED BY <2>1, InternedExact DEF GroupKeys
<1>2. DOMAIN rows = 1 .. Len(rows) /\ Len(rows) \in Nat /\ \A n \in DOMAIN rows : rows[n] \in StateRow
  OBVIOUS
<1>3. \A n \in DOMAIN rows : feed[n] \in CallRow
  <2> TAKE n \in DOMAIN rows
  <2> DEFINE v == rows[n].values
             g == GroupOf(ks, rows[n].key)
             t == rows[n].times
             row == [group |-> g, times |-> t, values |-> v, partial |-> TRUE]
  <2>1. t \in Seq(Int) /\ v \in Seq(Cell) /\ Len(v) = Len(t)
    BY <1>2 DEF StateRow
  <2>2. g \in Nat
    <3>1. g \in DOMAIN ks BY <1>1
    <3> QED BY <1>1, <3>1
  <2>3. feed[n] = row
    OBVIOUS
  <2> HIDE DEF v, g, t
  <2>4. v \in Seq(Cell \cup Seq(Int)) /\ \A k \in DOMAIN t : v[k] \in Cell
    BY <2>1
  <2>5. row \in CallRow
    BY <2>1, <2>2, <2>4 DEF CallRow
  <2> QED BY <2>3, <2>5
<1>4. feed \in Seq(CallRow)
  <2>1. feed \in [1 .. Len(rows) -> CallRow]
    BY <1>2, <1>3
  <2> QED BY <1>2, <2>1
<1>5. \A n \in DOMAIN feed : feed[n].group \in DOMAIN ks
  BY <1>1
<1> QED BY <1>4, <1>5

\* A row passed through is a row of states.
LEMMA ConvertedTyped ==
  ASSUME NEW r \in InputRow
  PROVE  Converted(r) \in StateRow
<1>1. r.key \in Nat /\ r.times \in Seq(Int) /\ r.id \in Nat
  BY DEF InputRow
<1>2. CASE r.skipped
  <2>1. Converted(r) = [key |-> r.key, times |-> <<>>, values |-> <<>>]
    BY <1>2 DEF Converted
  <2>2. <<>> \in Seq(Int) /\ <<>> \in Seq(Cell)
    OBVIOUS
  <2> QED BY <1>1, <2>1, <2>2 DEF StateRow
<1>3. CASE ~r.skipped
  <2> DEFINE t == r.times
             v == [k \in DOMAIN t |-> Add(Fresh, Contributions(r)[k])]
  <2>1. Converted(r) = [key |-> r.key, times |-> t, values |-> v]
    BY <1>3 DEF Converted
  <2>2. \A k \in DOMAIN t : Add(Fresh, Contributions(r)[k]) \in Cell
    <3> TAKE k \in DOMAIN t
    <3>1. Contributions(r)[k] = <<r.id, t[k]>> /\ t[k] \in Int
      BY <1>1 DEF Contributions
    <3> DEFINE c == <<r.id, t[k]>>
    <3>2. c \in Seq(Int)
      BY <1>1, <3>1
    <3> HIDE DEF c
    <3>3. Append(<<>>, c) \in Seq(Seq(Int))
      BY <3>2
    <3>4. Add(Fresh, c) = [of |-> Append(<<>>, c), merges |-> 0]
      BY DEF Add, Fresh
    <3>5. Add(Fresh, c) \in Cell
      BY <3>3, <3>4 DEF Cell
    <3> QED BY <3>1, <3>5 DEF c
  <2>3. DOMAIN t = 1 .. Len(t) /\ Len(t) \in Nat
    BY <1>1
  <2>4. v \in [1 .. Len(t) -> Cell]
    BY <2>2, <2>3
  <2> HIDE DEF v, t
  <2>5. v \in Seq(Cell) /\ Len(v) = Len(t)
    BY <2>3, <2>4
  <2> QED BY <1>1, <2>1, <2>5 DEF StateRow, t
<1> QED BY <1>2, <1>3

\* Steps that take no batch, fold no row and fail nowhere leave the verdicts alone.
LEMMA FailFrame ==
  ASSUME FailsOnlyMalformed, grid' = grid, input' = input, taken' = taken, failed' = failed,
         \A n \in DOMAIN call : \E m \in DOMAIN call' : call'[m] = call[n]
  PROVE  FailsOnlyMalformed'
<1>1. \A times : WellFormed(times)' <=> WellFormed(times)
  BY DEF WellFormed, Timestamp
<1>2. Given' = Given
  BY DEF Given
<1>3. ASSUME failed' = None, NEW r \in Given, ~r.skipped, ~WellFormed(r.times)
      PROVE  \E m \in DOMAIN call' : ~call'[m].partial /\ call'[m].times = r.times
  <2>1. PICK n \in DOMAIN call : ~call[n].partial /\ call[n].times = r.times
    BY <1>3 DEF FailsOnlyMalformed
  <2>2. PICK m \in DOMAIN call' : call'[m] = call[n]
    OBVIOUS
  <2> QED BY <2>1, <2>2
<1>4. failed' # None => ~WellFormed(failed)'
  <2>1. failed # None => ~WellFormed(failed)
    BY DEF FailsOnlyMalformed
  <2>2. WellFormed(failed)' <=> WellFormed(failed)
    BY DEF WellFormed, Timestamp
  <2> QED BY <2>1, <2>2
<1> QED BY <1>1, <1>2, <1>3, <1>4 DEF FailsOnlyMalformed

\* A partial that took its next batch took no more than it has.
LEMMA InputsKept ==
  ASSUME InputsOK, grid' = grid, input' = input, skipping' = skipping,
         taken' \in [Partials -> Nat], \A q \in Partials : taken'[q] <= Len(input[q])
  PROVE  InputsOK'
  BY DEF InputsOK

\* A partial's next batch (update_batch).
LEMMA UpdateKeeps ==
  ASSUME IInv, NEW p \in Partials, Update(p)
  PROVE  IInv'
<1> DEFINE rows == input[p][taken[p] + 1]
           ks == Interned(keys[p], rows)
           feed == [n \in DOMAIN Unskipped(rows) |->
                      LET r == Unskipped(rows)[n]
                      IN  [group |-> GroupOf(ks, r.key), times |-> r.times,
                           values |-> Contributions(r), partial |-> FALSE]]
<1>0. InputsOK /\ KeysOK /\ StoresOK /\ SentOK /\ FailsOnlyMalformed
  BY DEF IInv
<1>1. /\ call = <<>> /\ failed = None /\ taken[p] < Len(input[p])
      /\ Open(p, rows, feed) /\ taken' = [taken EXCEPT ![p] = @ + 1]
      /\ grid' = grid /\ input' = input /\ skipping' = skipping /\ sent' = sent
      /\ failed' = failed
  BY Zenon DEF Update, Idle
<1>2. /\ taken' \in [Partials -> Nat] /\ \A q \in Partials : taken'[q] <= Len(input[q])
      /\ rows \in Seq(InputRow)
      /\ \A r \in Given' : r \in Given \/ \E n \in DOMAIN rows : r = rows[n]
  BY <1>0, <1>1, GivenGrows
<1>3. InputsOK'
  BY <1>0, <1>1, <1>2, InputsKept
<1>4. p \in Accumulators /\ keys[p] \in Seq(Nat)
  BY <1>0 DEF Accumulators, KeysOK
<1>a. ks = Interned(keys[p], rows) /\ feed = FeedOf(ks, Unskipped(rows))
  BY DEF FeedOf
<1> HIDE DEF rows, ks, feed
<1>5. /\ feed \in Seq(CallRow) /\ \A n \in DOMAIN feed : feed[n].group \in DOMAIN ks
      /\ \A n \in DOMAIN rows : rows[n].skipped \/
           \E m \in DOMAIN feed : ~feed[m].partial /\ feed[m].times = rows[n].times
  BY <1>2, <1>4, <1>a, FeedTyped
<1>6. KeysOK' /\ StoresOK' /\ CallOK'
  <2>1. \A r \in InputRow : r.key \in Nat BY DEF InputRow
  <2> QED BY <1>0, <1>1, <1>2, <1>4, <1>5, <1>a, <2>1, OpenKeeps
<1>7. SentOK'
  BY <1>0, <1>1 DEF SentOK
<1>8. FailsOnlyMalformed'
  <2>1. \A times : WellFormed(times)' <=> WellFormed(times)
    BY <1>1 DEF WellFormed, Timestamp
  <2>2. call' = feed
    BY <1>1 DEF Open
  <2>3. \A r \in Given : r.skipped \/ WellFormed(r.times)
    BY <1>0, <1>1 DEF FailsOnlyMalformed
  <2>4. ASSUME NEW r \in Given', ~r.skipped, ~WellFormed(r.times)
        PROVE  \E m \in DOMAIN feed : ~feed[m].partial /\ feed[m].times = r.times
    <3>1. PICK n \in DOMAIN rows : r = rows[n] BY <1>2, <2>3, <2>4
    <3> QED BY <1>5, <2>4, <3>1
  <2> QED BY <1>1, <2>1, <2>2, <2>4 DEF FailsOnlyMalformed
<1> QED BY <1>3, <1>6, <1>7, <1>8 DEF IInv

\* The final accumulator takes a batch of states (merge_batch).
LEMMA MergeBatchKeeps ==
  ASSUME IInv, NEW p \in Partials, MergeBatch(p)
  PROVE  IInv'
<1> DEFINE rows == Head(sent[p])
           ks == Interned(keys[Final], rows)
           feed == [n \in DOMAIN rows |->
                      [group |-> GroupOf(ks, rows[n].key), times |-> rows[n].times,
                       values |-> rows[n].values, partial |-> TRUE]]
<1>0. InputsOK /\ KeysOK /\ StoresOK /\ SentOK /\ FailsOnlyMalformed
  BY DEF IInv
<1>1. /\ call = <<>> /\ sent[p] # <<>>
      /\ Open(Final, rows, feed) /\ sent' = [sent EXCEPT ![p] = Tail(@)]
      /\ grid' = grid /\ input' = input /\ taken' = taken /\ skipping' = skipping
      /\ failed' = failed
  BY Zenon DEF MergeBatch, Idle
<1>2. sent[p] \in Seq(Seq(StateRow))
  BY <1>0 DEF SentOK
<1>3. rows \in Seq(StateRow) /\ Tail(sent[p]) \in Seq(Seq(StateRow))
  <2> DEFINE Z == Seq(StateRow)
             s == sent[p]
  <2>1. s \in Seq(Z) /\ s # <<>> BY <1>1, <1>2
  <2> HIDE DEF Z, s
  <2>2. Head(s) \in Z /\ Tail(s) \in Seq(Z) BY <2>1
  <2> QED BY <2>2 DEF Z, s
<1>4. Final \in Accumulators /\ keys[Final] \in Seq(Nat)
  BY <1>0 DEF Accumulators, KeysOK
<1> HIDE DEF rows
<1>5. feed \in Seq(CallRow) /\ \A n \in DOMAIN feed : feed[n].group \in DOMAIN ks
  BY <1>3, <1>4, MergeFeedTyped
<1>a. ks = Interned(keys[Final], rows)
  OBVIOUS
<1> HIDE DEF ks, feed
<1>6. KeysOK' /\ StoresOK' /\ CallOK'
  <2>1. \A r \in StateRow : r.key \in Nat BY DEF StateRow
  <2> QED BY <1>0, <1>1, <1>3, <1>4, <1>5, <1>a, <2>1, OpenKeeps
<1>7. SentOK'
  BY <1>0, <1>1, <1>3 DEF SentOK
<1>8. FailsOnlyMalformed'
  <2>1. DOMAIN call = {} BY <1>1
  <2> QED BY <1>0, <1>1, <2>1, FailFrame
<1>9. InputsOK'
  BY <1>0, <1>1 DEF InputsOK
<1> QED BY <1>6, <1>7, <1>8, <1>9 DEF IInv

\* The row at the head of a call.
LEMMA HeadRow ==
  ASSUME CallOK, KeysOK, StoresOK, grid \in Grids, call # <<>>
  PROVE  /\ Head(call) \in CallRow /\ callee \in Accumulators
         /\ Len(keys[callee]) \in Nat /\ StoreOK(store[callee], Len(keys[callee]))
         /\ Head(call).group \in 1 .. Len(keys[callee])
         /\ Acceptable(store[callee], Head(call)) <=> WellFormed(Head(call).times)
<1>1. call \in Seq(CallRow) /\ callee \in Accumulators
      /\ \A n \in DOMAIN call : call[n].group \in DOMAIN keys[callee]
  BY DEF CallOK
<1>2. Head(call) = call[1] /\ 1 \in DOMAIN call /\ call[1] \in CallRow
  BY <1>1
<1>3. keys[callee] \in Seq(Nat) /\ StoreOK(store[callee], Len(keys[callee]))
  BY <1>1 DEF KeysOK, StoresOK
<1>4. Len(keys[callee]) \in Nat /\ DOMAIN keys[callee] = 1 .. Len(keys[callee])
  BY <1>3
<1>5. Head(call) \in CallRow /\ Head(call).group \in 1 .. Len(keys[callee])
  BY <1>1, <1>2, <1>4
<1> QED BY <1>1, <1>3, <1>4, <1>5, AcceptableExact

\* A row of a call is folded (add_series).
LEMMA FoldRowKeeps ==
  ASSUME IInv, FoldRow
  PROVE  IInv'
<1>0. InputsOK /\ KeysOK /\ StoresOK /\ SentOK /\ CallOK /\ FailsOnlyMalformed /\ grid \in Grids
  BY DEF IInv, InputsOK
<1>1. /\ call # <<>> /\ failed = None /\ Acceptable(store[callee], Head(call))
      /\ store' = [store EXCEPT ![callee] = AddSeries(store[callee], Head(call))]
      /\ call' = Tail(call)
      /\ grid' = grid /\ input' = input /\ taken' = taken /\ skipping' = skipping
      /\ keys' = keys /\ callee' = callee /\ sent' = sent /\ failed' = failed
  BY DEF FoldRow
<1>2. /\ Head(call) \in CallRow /\ callee \in Accumulators
      /\ Len(keys[callee]) \in Nat /\ StoreOK(store[callee], Len(keys[callee]))
      /\ Head(call).group \in 1 .. Len(keys[callee]) /\ WellFormed(Head(call).times)
  BY <1>0, <1>1, HeadRow
<1>3. StoreOK(AddSeries(store[callee], Head(call)), Len(keys[callee]))
  BY <1>0, <1>1, <1>2, AddSeriesOK
<1>4. StoresOK'
  <2>1. DOMAIN store' = Accumulators /\ store'[callee] = AddSeries(store[callee], Head(call))
        /\ \A b \in Accumulators : b # callee => store'[b] = store[b]
    BY <1>0, <1>1, <1>2 DEF StoresOK
  <2>2. \A b \in Accumulators : StoreOK(store'[b], Len(keys[b]))
    <3> TAKE b \in Accumulators
    <3>1. CASE b = callee BY <1>3, <2>1, <3>1
    <3>2. CASE b # callee BY <1>0, <2>1, <3>2 DEF StoresOK
    <3> QED BY <3>1, <3>2
  <2> QED BY <1>1, <2>1, <2>2 DEF StoresOK, StoreOK, SingleStep
<1>5. /\ call \in Seq(CallRow) /\ call' \in Seq(CallRow) /\ Len(call) \in Nat
      /\ DOMAIN call = 1 .. Len(call) /\ DOMAIN call' = 1 .. Len(call) - 1
      /\ \A n \in 1 .. Len(call) - 1 : call'[n] = call[n + 1]
      /\ Head(call) = call[1]
  BY <1>0, <1>1 DEF CallOK
<1>6. CallOK'
  <2>1. \A n \in DOMAIN call' : call'[n].group \in DOMAIN keys[callee]
    <3> TAKE n \in DOMAIN call'
    <3>1. call'[n] = call[n + 1] /\ n + 1 \in DOMAIN call BY <1>5
    <3> QED BY <1>0, <1>1, <3>1 DEF CallOK
  <2> QED BY <1>1, <1>2, <1>5, <2>1 DEF CallOK
<1>7. FailsOnlyMalformed'
  <2>1. \A times : WellFormed(times)' <=> WellFormed(times)
    BY <1>1 DEF WellFormed, Timestamp
  <2>2. Given' = Given
    BY <1>1 DEF Given
  <2>3. ASSUME NEW r \in Given, ~r.skipped, ~WellFormed(r.times)
        PROVE  \E m \in DOMAIN call' : ~call'[m].partial /\ call'[m].times = r.times
    <3>1. PICK n \in DOMAIN call : ~call[n].partial /\ call[n].times = r.times
      BY <1>0, <1>1, <2>3 DEF FailsOnlyMalformed
    <3>2. n # 1 BY <1>2, <1>5, <2>3, <3>1
    <3>3. n - 1 \in 1 .. Len(call) - 1 /\ (n - 1) + 1 = n BY <1>5, <3>2
    <3>4. call'[n - 1] = call[n] /\ n - 1 \in DOMAIN call' BY <1>5, <3>3
    <3> QED BY <3>1, <3>4
  <2> QED BY <1>1, <2>1, <2>2, <2>3 DEF FailsOnlyMalformed
<1>8. InputsOK' /\ KeysOK' /\ SentOK'
  BY <1>0, <1>1 DEF InputsOK, KeysOK, SentOK
<1> QED BY <1>4, <1>6, <1>7, <1>8 DEF IInv

\* A row of a call is refused (add_series).
LEMMA RejectRowKeeps ==
  ASSUME IInv, RejectRow
  PROVE  IInv'
<1>0. InputsOK /\ KeysOK /\ StoresOK /\ SentOK /\ CallOK /\ FailsOnlyMalformed /\ grid \in Grids
  BY DEF IInv, InputsOK
<1>1. /\ call # <<>> /\ failed = None /\ ~Acceptable(store[callee], Head(call))
      /\ failed' = Head(call).times
      /\ grid' = grid /\ input' = input /\ taken' = taken /\ skipping' = skipping
      /\ keys' = keys /\ store' = store /\ callee' = callee /\ call' = call /\ sent' = sent
  BY DEF RejectRow
<1>2. Head(call) \in CallRow /\ ~WellFormed(Head(call).times)
  BY <1>0, <1>1, HeadRow
<1>3. failed' # None
  BY <1>1, <1>2, AggregateAssumption DEF CallRow
<1>4. FailsOnlyMalformed'
  <2>1. WellFormed(failed)' <=> WellFormed(Head(call).times)
    BY <1>1 DEF WellFormed, Timestamp
  <2> QED BY <1>2, <1>3, <2>1 DEF FailsOnlyMalformed
<1>5. InputsOK' /\ KeysOK' /\ SentOK' /\ CallOK'
  BY <1>0, <1>1 DEF InputsOK, KeysOK, SentOK, CallOK
<1>6. StoresOK'
  BY <1>0, <1>1 DEF StoresOK, StoreOK, SingleStep
<1> QED BY <1>4, <1>5, <1>6 DEF IInv

\* Some of a partial's groups leave for the final accumulator (state).
LEMMA StateKeeps ==
  ASSUME IInv, NEW p \in Partials, NEW n, State(p, n)
  PROVE  IInv'
<1>0. InputsOK /\ KeysOK /\ StoresOK /\ SentOK /\ FailsOnlyMalformed /\ grid \in Grids
  BY DEF IInv, InputsOK
<1>1. /\ call = <<>> /\ n \in 1 .. Len(keys[p])
      /\ sent' = [sent EXCEPT ![p] = Append(sent[p], Emitted(p, n))] /\ Drain(p, n)
      /\ grid' = grid /\ input' = input /\ taken' = taken /\ skipping' = skipping
      /\ callee' = callee /\ call' = call /\ failed' = failed
  BY DEF State, Idle
<1>2. p \in Accumulators
  BY DEF Accumulators
<1>3. KeysOK' /\ StoresOK'
  BY <1>0, <1>1, <1>2, DrainKeeps
<1>4. Emitted(p, n) \in Seq(StateRow)
  BY <1>0, <1>1, <1>2, EmittedRows
<1>5. SentOK'
  <2> DEFINE Z == Seq(StateRow)
             rows == Emitted(p, n)
  <2>1. rows \in Z /\ sent \in [Partials -> Seq(Z)]
    BY <1>0, <1>4 DEF SentOK
  <2>2. sent' = [sent EXCEPT ![p] = Append(sent[p], rows)]
    BY <1>1
  <2> HIDE DEF Z, rows
  <2>3. Append(sent[p], rows) \in Seq(Z)
    BY <2>1
  <2>4. sent' \in [Partials -> Seq(Z)]
    BY <2>1, <2>2, <2>3
  <2> QED BY <2>4 DEF SentOK, Z
<1>6. FailsOnlyMalformed'
  <2>1. DOMAIN call = {} BY <1>1
  <2> QED BY <1>0, <1>1, <2>1, FailFrame
<1>7. InputsOK' /\ CallOK'
  BY <1>0, <1>1 DEF InputsOK, CallOK
<1> QED BY <1>3, <1>5, <1>6, <1>7 DEF IInv

\* Some of the final accumulator's groups leave as answers (evaluate).
LEMMA EvaluateKeeps ==
  ASSUME IInv, NEW n, Evaluate(n)
  PROVE  IInv'
<1>0. InputsOK /\ KeysOK /\ StoresOK /\ SentOK /\ FailsOnlyMalformed
  BY DEF IInv
<1>1. /\ call = <<>> /\ n \in 1 .. Len(keys[Final]) /\ Drain(Final, n)
      /\ grid' = grid /\ input' = input /\ taken' = taken /\ skipping' = skipping
      /\ callee' = callee /\ call' = call /\ sent' = sent /\ failed' = failed
  BY Zenon DEF Evaluate, Idle
<1>2. Final \in Accumulators
  BY DEF Accumulators
<1>3. KeysOK' /\ StoresOK'
  BY <1>0, <1>1, <1>2, DrainKeeps
<1>4. FailsOnlyMalformed'
  <2>1. DOMAIN call = {} BY <1>1
  <2> QED BY <1>0, <1>1, <2>1, FailFrame
<1>5. InputsOK' /\ SentOK' /\ CallOK'
  BY <1>0, <1>1 DEF InputsOK, SentOK, CallOK
<1> QED BY <1>3, <1>4, <1>5 DEF IInv

\* A partial's rows pass through from now on.
LEMMA SkipPartialKeeps ==
  ASSUME IInv, NEW p \in Partials, SkipPartial(p)
  PROVE  IInv'
<1>0. InputsOK /\ KeysOK /\ StoresOK /\ SentOK /\ CallOK /\ FailsOnlyMalformed
  BY DEF IInv
<1>1. /\ skipping' = skipping \cup {p}
      /\ grid' = grid /\ input' = input /\ taken' = taken /\ keys' = keys /\ store' = store
      /\ callee' = callee /\ call' = call /\ sent' = sent /\ failed' = failed
  BY DEF SkipPartial
<1>2. InputsOK'
  BY <1>0, <1>1 DEF InputsOK
<1>3. KeysOK' /\ SentOK' /\ CallOK'
  BY <1>0, <1>1 DEF KeysOK, SentOK, CallOK
<1>4. StoresOK'
  BY <1>0, <1>1 DEF StoresOK, StoreOK, SingleStep
<1>5. FailsOnlyMalformed'
  BY <1>0, <1>1, FailFrame
<1> QED BY <1>2, <1>3, <1>4, <1>5 DEF IInv

\* A batch passes through as states (convert_to_state).
LEMMA ConvertKeeps ==
  ASSUME IInv, NEW p \in Partials, Convert(p)
  PROVE  IInv'
<1> DEFINE rows == input[p][taken[p] + 1]
           refused == {n \in DOMAIN rows : ~rows[n].skipped /\ ~Accepted(rows[n].times)}
           states == [n \in DOMAIN rows |-> Converted(rows[n])]
<1>0. InputsOK /\ KeysOK /\ StoresOK /\ SentOK /\ FailsOnlyMalformed /\ grid \in Grids
  BY DEF IInv, InputsOK
<1>1. /\ call = <<>> /\ failed = None /\ taken[p] < Len(input[p])
      /\ \/ refused = {} /\ sent' = [sent EXCEPT ![p] = Append(@, states)] /\ failed' = failed
         \/ refused # {} /\ failed' = rows[Min(refused)].times /\ sent' = sent
      /\ taken' = [taken EXCEPT ![p] = @ + 1]
      /\ grid' = grid /\ input' = input /\ skipping' = skipping /\ keys' = keys
      /\ store' = store /\ callee' = callee /\ call' = call
  BY Zenon DEF Convert, Idle
<1>2. /\ taken' \in [Partials -> Nat] /\ \A q \in Partials : taken'[q] <= Len(input[q])
      /\ rows \in Seq(InputRow)
      /\ \A r \in Given' : r \in Given \/ \E n \in DOMAIN rows : r = rows[n]
  BY <1>0, <1>1, GivenGrows
<1>3. InputsOK'
  <2>1. grid' = grid /\ input' = input /\ skipping' = skipping
    BY <1>1
  <2>2. taken' \in [Partials -> Nat] /\ \A q \in Partials : taken'[q] <= Len(input[q])
    BY <1>2
  <2> QED BY <1>0, <2>1, <2>2, InputsKept
<1>4. KeysOK' /\ CallOK'
  <2>1. keys' = keys /\ call = <<>> /\ call' = <<>>
    BY <1>1
  <2> QED BY <1>0, <2>1 DEF KeysOK, CallOK
<1>5. StoresOK'
  BY <1>0, <1>1 DEF StoresOK, StoreOK, SingleStep
<1>a. \A n : n \in refused <=> n \in DOMAIN rows /\ ~rows[n].skipped /\ ~Accepted(rows[n].times)
  OBVIOUS
<1>b. DOMAIN states = DOMAIN rows /\ \A n \in DOMAIN rows : states[n] = Converted(rows[n])
  OBVIOUS
<1> HIDE DEF rows, refused, states
<1>6. DOMAIN rows = 1 .. Len(rows) /\ Len(rows) \in Nat
      /\ \A n \in DOMAIN rows : rows[n] \in InputRow /\ rows[n].times \in Seq(Int)
  <2>1. DOMAIN rows = 1 .. Len(rows) /\ Len(rows) \in Nat /\ \A n \in DOMAIN rows : rows[n] \in InputRow
    BY <1>2
  <2> QED BY <2>1 DEF InputRow
<1>7. \A times : WellFormed(times)' <=> WellFormed(times)
  BY <1>1 DEF WellFormed, Timestamp
<1>8. \A n \in DOMAIN rows : WellFormed(rows[n].times) <=> Accepted(rows[n].times)
  BY <1>0, <1>6, AcceptedIsWellFormed
<1>9. CASE refused = {}
  <2>1. sent' = [sent EXCEPT ![p] = Append(sent[p], states)] /\ failed' = None
    BY <1>1, <1>9
  <2>2. states \in Seq(StateRow)
    <3>1. \A n \in DOMAIN rows : states[n] \in StateRow
      BY <1>6, <1>b, ConvertedTyped
    <3>2. states = [n \in 1 .. Len(rows) |-> states[n]]
      BY <1>6 DEF states
    <3>3. states \in [1 .. Len(rows) -> StateRow]
      BY <1>6, <3>1, <3>2
    <3> QED BY <1>6, <3>3
  <2>3. SentOK'
    <3> DEFINE Z == Seq(StateRow)
    <3>1. states \in Z /\ sent \in [Partials -> Seq(Z)]
      BY <1>0, <2>2 DEF SentOK
    <3> HIDE DEF Z
    <3>2. Append(sent[p], states) \in Seq(Z)
      BY <3>1
    <3>3. sent' \in [Partials -> Seq(Z)]
      BY <2>1, <3>1, <3>2
    <3> QED BY <3>3 DEF SentOK, Z
  <2>4. \A r \in Given' : r.skipped \/ WellFormed(r.times)
    <3> TAKE r \in Given'
    <3>1. CASE r \in Given
      <4>1. DOMAIN call = {} BY <1>1
      <4> QED BY <1>0, <1>1, <3>1, <4>1 DEF FailsOnlyMalformed
    <3>2. CASE r \notin Given
      <4>1. PICK n \in DOMAIN rows : r = rows[n] BY <1>2, <3>2
      <4>2. n \notin refused BY <1>9
      <4> QED BY <1>a, <1>8, <4>1, <4>2
    <3> QED BY <3>1, <3>2
  <2>5. FailsOnlyMalformed'
    BY <1>7, <2>1, <2>4 DEF FailsOnlyMalformed
  <2> QED BY <1>3, <1>4, <1>5, <2>3, <2>5 DEF IInv
<1>10. CASE refused # {}
  <2>1. failed' = rows[Min(refused)].times /\ sent' = sent
    BY <1>1, <1>10
  <2>2. Min(refused) \in refused
    <3>1. refused \subseteq Nat BY <1>6, <1>a
    <3> QED BY <1>10, <3>1, MinIsLeast
  <2>3. failed' \in Seq(Int) /\ ~WellFormed(failed')
    BY <1>6, <1>8, <1>a, <2>1, <2>2
  <2>4. failed' # None
    BY <2>3, AggregateAssumption
  <2>5. FailsOnlyMalformed'
    <3>1. WellFormed(failed)' <=> WellFormed(failed')
      BY <1>1 DEF WellFormed, Timestamp
    <3> QED BY <2>3, <2>4, <3>1 DEF FailsOnlyMalformed
  <2>6. SentOK'
    BY <1>0, <2>1 DEF SentOK
  <2> QED BY <1>3, <1>4, <1>5, <2>5, <2>6 DEF IInv
<1> QED BY <1>9, <1>10

\* Nothing was given yet and no accumulator knows a group.
LEMMA InitKeeps == Init => IInv
<1> SUFFICES ASSUME Init PROVE IInv
  OBVIOUS
<1>1. PICK s \in Scenarios : grid = s.grid /\ input = s.input
  BY DEF Init
<1>2. /\ taken = [q \in Partials |-> 0] /\ skipping = {}
      /\ keys = [a \in Accumulators |-> <<>>] /\ store = [a \in Accumulators |-> NewStore]
      /\ call = <<>> /\ sent = [q \in Partials |-> <<>>] /\ failed = None
  BY DEF Init
<1>3. grid \in Grids /\ input \in [Partials -> Seq(Seq(InputRow))]
  BY <1>1, ScenarioAssumption
<1>4. InputsOK
  <2>1. \A q \in Partials : taken[q] <= Len(input[q])
    <3> TAKE q \in Partials
    <3> DEFINE Z == Seq(InputRow)
    <3>1. input[q] \in Seq(Z) BY <1>3
    <3> HIDE DEF Z
    <3>2. Len(input[q]) \in Nat BY <3>1
    <3> QED BY <1>2, <3>2
  <2> QED BY <1>2, <1>3, <2>1 DEF InputsOK
<1>5. KeysOK
  BY <1>2 DEF KeysOK
<1>6. StoresOK
  <2>1. Len(<<>>) = 0 OBVIOUS
  <2> QED BY <1>2, <2>1, NewStoreOK DEF StoresOK
<1>7. SentOK
  <2> DEFINE Z == Seq(StateRow)
  <2>1. \A q \in Partials : sent[q] \in Seq(Z) BY <1>2
  <2>2. sent \in [Partials -> Seq(Z)] BY <1>2, <2>1
  <2> QED BY <2>2 DEF SentOK
<1>8. CallOK
  BY <1>2 DEF CallOK
<1>9. FailsOnlyMalformed
  <2>1. Given = {}
    <3>1. \A q \in Partials : 1 .. taken[q] = {} BY <1>2
    <3> QED BY <3>1 DEF Given
  <2> QED BY <1>2, <2>1 DEF FailsOnlyMalformed
<1> QED BY <1>4, <1>5, <1>6, <1>7, <1>8, <1>9 DEF IInv

\* The inductive invariant holds throughout: every batch, prefix, merge and
\* conversion of Grouped leaves good spans, charged for what they take, and a
\* verdict on exactly the rows that are not ascending steps of the grid.
THEOREM AggregateInvariance == Spec => []IInv
<1>1. IInv /\ [Next]_vars => IInv'
  <2> SUFFICES ASSUME IInv, [Next]_vars PROVE IInv'
    OBVIOUS
  <2>1. ASSUME NEW p \in Partials, Update(p) PROVE IInv'
    BY <2>1, UpdateKeeps
  <2>2. ASSUME NEW p \in Partials, MergeBatch(p) PROVE IInv'
    BY <2>2, MergeBatchKeeps
  <2>3. ASSUME NEW p \in Partials, SkipPartial(p) PROVE IInv'
    BY <2>3, SkipPartialKeeps
  <2>4. ASSUME NEW p \in Partials, Convert(p) PROVE IInv'
    BY <2>4, ConvertKeeps
  <2>5. ASSUME NEW p \in Partials, NEW n \in 1 .. Len(keys[p]), State(p, n) PROVE IInv'
    BY <2>5, StateKeeps
  <2>6. ASSUME NEW n \in 1 .. Len(keys[Final]), Evaluate(n) PROVE IInv'
    BY <2>6, EvaluateKeeps
  <2>7. CASE FoldRow
    BY <2>7, FoldRowKeeps
  <2>8. CASE RejectRow
    BY <2>8, RejectRowKeeps
  <2>9. CASE UNCHANGED vars
    <3>0. InputsOK /\ KeysOK /\ StoresOK /\ SentOK /\ CallOK /\ FailsOnlyMalformed
      BY DEF IInv
    <3>1. /\ grid' = grid /\ input' = input /\ taken' = taken /\ skipping' = skipping
          /\ keys' = keys /\ store' = store /\ callee' = callee /\ call' = call
          /\ sent' = sent /\ failed' = failed
      BY <2>9 DEF vars
    <3>2. InputsOK' /\ KeysOK' /\ SentOK' /\ CallOK'
      BY <3>0, <3>1 DEF InputsOK, KeysOK, SentOK, CallOK
    <3>3. StoresOK'
      BY <3>0, <3>1 DEF StoresOK, StoreOK, SingleStep
    <3>4. FailsOnlyMalformed'
      BY <3>0, <3>1, FailFrame
    <3> QED BY <3>2, <3>3, <3>4 DEF IInv
  <2> QED BY <2>1, <2>2, <2>3, <2>4, <2>5, <2>6, <2>7, <2>8, <2>9, Zenon DEF Next
<1> QED BY <1>1, InitKeeps, PTL DEF Spec

\* A row is refused exactly when its timestamps are not ascending steps of the
\* grid, on every grid, in every batch, filtered or passed through.
THEOREM RefusesOnlyMalformed == Spec => []FailsOnlyMalformed
<1>1. IInv => FailsOnlyMalformed
  BY DEF IInv
<1> QED BY <1>1, AggregateInvariance, PTL

\* A good span is as the type invariant says.
LEMMA GoodSpanOK ==
  ASSUME NEW s, Good(s)
  PROVE  SpanOK(s) /\ s.start <= Active(s) /\ s.start <= s.first /\ s.moved <= 2 * s.len
<1>1. s \in SpanType /\ IsSpan(s) /\ Lean(s)
  BY DEF Good
<1>2. s.seen \in [0 .. s.len - 1 -> BOOLEAN] /\ s.lanes \in [0 .. s.len - 1 -> Cell]
  BY <1>1, SpanTyped
<1>3. s.first \in Nat /\ s.start \in Nat /\ s.len \in Nat /\ s.moved \in Nat /\ s.start <= s.len
  BY <1>1 DEF IsSpan
<1>4. SpanOK(s)
  BY <1>2, <1>3, Zenon DEF SpanOK
<1> QED BY <1>1, <1>4 DEF Lean

\* The inductive invariant implies the types.
LEMMA InvTypes == IInv => TypeOK
<1> SUFFICES ASSUME IInv PROVE TypeOK
  OBVIOUS
<1>0. InputsOK /\ KeysOK /\ StoresOK /\ CallOK
  BY DEF IInv
<1>1. \A p \in Partials : taken[p] \in 0 .. Len(input[p])
  <2> TAKE p \in Partials
  <2> DEFINE Z == Seq(InputRow)
  <2>1. input[p] \in Seq(Z) /\ taken[p] \in Nat /\ taken[p] <= Len(input[p])
    BY <1>0 DEF InputsOK
  <2> HIDE DEF Z
  <2>2. Len(input[p]) \in Nat BY <2>1
  <2> QED BY <2>1, <2>2
<1>2. ASSUME NEW a \in Accumulators
      PROVE  /\ keys[a] \in Seq(Nat)
             /\ SpanOK(store[a].flat) /\ \A g \in DOMAIN store[a].spans : SpanOK(store[a].spans[g])
             /\ store[a].heap \in Nat
             /\ Len(keys[a]) = IF SingleStep THEN store[a].flat.len ELSE Len(store[a].spans)
  <2>1. keys[a] \in Seq(Nat) /\ StoreOK(store[a], Len(keys[a]))
    BY <1>0 DEF KeysOK, StoresOK
  <2>2. /\ store[a].heap \in Nat
        /\ Good(store[a].flat) /\ \A g \in DOMAIN store[a].spans : Good(store[a].spans[g])
        /\ Len(keys[a]) = IF SingleStep THEN store[a].flat.len ELSE Len(store[a].spans)
    BY <2>1 DEF StoreOK, Storages
  <2> QED BY <2>1, <2>2, GoodSpanOK
<1>3. call # <<>> => callee \in Accumulators /\ Head(call).group \in DOMAIN keys[callee]
  <2> SUFFICES ASSUME call # <<>> PROVE callee \in Accumulators /\ Head(call).group \in DOMAIN keys[callee]
    OBVIOUS
  <2>1. call \in Seq(CallRow) /\ callee \in Accumulators
        /\ \A n \in DOMAIN call : call[n].group \in DOMAIN keys[callee]
    BY <1>0 DEF CallOK
  <2>2. Head(call) = call[1] /\ 1 \in DOMAIN call
    BY <2>1
  <2> QED BY <2>1, <2>2
<1>4. skipping \subseteq Partials
  BY <1>0 DEF InputsOK
<1> QED BY <1>1, <1>2, <1>3, <1>4, Zenon DEF TypeOK

\* The inductive invariant implies that spans are lean and charged for.
LEMMA InvLean == IInv => SpansStayLean
<1> SUFFICES ASSUME IInv PROVE SpansStayLean
  OBVIOUS
<1>0. StoresOK
  BY DEF IInv
<1>1. HeapIsSpans
  <2> SUFFICES ASSUME NEW a \in Accumulators PROVE store[a].heap = SpanBytes(store[a].spans)
    BY Zenon DEF HeapIsSpans
  <2> QED BY <1>0 DEF StoresOK, StoreOK
<1>2. ASSUME NEW s \in Spans PROVE Good(s)
  <2>1. CASE s \in {store[a].flat : a \in Accumulators}
    BY <1>0, <2>1 DEF StoresOK, StoreOK
  <2>2. CASE s \in UNION {ToSet(store[a].spans) : a \in Accumulators}
    <3>1. PICK a \in Accumulators : s \in ToSet(store[a].spans)
      BY <2>2
    <3>2. PICK g \in DOMAIN store[a].spans : s = store[a].spans[g]
      BY <3>1 DEF ToSet
    <3> QED BY <1>0, <3>2 DEF StoresOK, StoreOK
  <2> QED BY <2>1, <2>2 DEF Spans
<1>3. \A s \in Spans : s.start <= Active(s) /\ s.start <= s.first /\ s.moved <= 2 * s.len
  BY <1>2, GoodSpanOK
<1> QED BY <1>1, <1>3, InvTypes, Zenon DEF SpansStayLean

\* However its groups are fed, grown and drained, a span never has more headroom
\* than cells nor steps before grid zero, its rebases are paid for by its length,
\* and what the accumulator reports it holds is the sum of its spans.
THEOREM StaysLean == Spec => []SpansStayLean
BY AggregateInvariance, InvLean, PTL

\* A member of a set of numbers has a rank of its own.
LEMMA RanksDiffer ==
  ASSUME NEW n \in Nat, NEW S, S \subseteq 0 .. n - 1, NEW s, s \in S
  PROVE  /\ Cardinality({e \in S : e < s}) + 1 \in 1 .. Cardinality(S)
         /\ \A m \in S : Cardinality({e \in S : e < m}) = Cardinality({e \in S : e < s}) => m = s
<1> DEFINE Low(m) == {e \in S : e < m}
<1>1. IsFiniteSet(S) /\ Cardinality(S) \in Nat /\ \A m \in S : m \in Nat
  <2>1. S \in SUBSET (0 .. n - 1) /\ \A m \in S : m \in Nat
    OBVIOUS
  <2>2. IsFiniteSet(S) /\ Cardinality(S) \in Nat
    BY <2>1, RankedNumbers
  <2> QED BY <2>1, <2>2
<1>2. \A m \in S : IsFiniteSet(Low(m)) /\ Cardinality(Low(m)) \in Nat
  <2> TAKE m \in S
  <2>1. Low(m) \subseteq S
    OBVIOUS
  <2> HIDE DEF Low
  <2> QED BY <1>1, <2>1, FS_Subset, FS_CardinalityType
<1>3. ASSUME NEW m, m \in S, NEW T, IsFiniteSet(T), Cardinality(T) \in Nat,
             Low(m) \subseteq T, m \in T
      PROVE  Cardinality(Low(m)) + 1 <= Cardinality(T)
  <2>1. m \notin Low(m)
    BY <1>1, <1>3
  <2> DEFINE L == Low(m)
             M == L \cup {m}
  <2>2. IsFiniteSet(L) /\ m \notin L /\ Cardinality(L) \in Nat
    BY <1>2, <1>3, <2>1
  <2>3. M \subseteq T
    BY <1>3
  <2> HIDE DEF L, Low
  <2>4. IsFiniteSet(M) /\ Cardinality(M) = Cardinality(L) + 1
    BY <2>2, FS_AddElement
  <2> HIDE DEF M
  <2>5. Cardinality(M) <= Cardinality(T)
    BY <1>3, <2>3, FS_Subset
  <2> QED BY <2>4, <2>5 DEF L
<1>4. ASSUME NEW a, NEW b, a \in S, b \in S, a < b
      PROVE  Cardinality(Low(a)) + 1 <= Cardinality(Low(b))
  <2>1. Low(a) \subseteq Low(b) /\ a \in Low(b)
    <3>1. a \in Nat /\ b \in Nat /\ \A e \in S : e \in Nat
      BY <1>1, <1>4
    <3>2. \A e \in S : e < a => e < b
      BY <1>4, <3>1
    <3> QED BY <1>4, <3>2
  <2>2. IsFiniteSet(Low(b)) /\ Cardinality(Low(b)) \in Nat
    BY <1>2, <1>4
  <2> DEFINE T == Low(b)
  <2>3. IsFiniteSet(T) /\ Cardinality(T) \in Nat /\ Low(a) \subseteq T /\ a \in T
    BY <2>1, <2>2
  <2> HIDE DEF T, Low
  <2>4. Cardinality(Low(a)) + 1 <= Cardinality(T)
    BY <1>3, <1>4, <2>3
  <2> QED BY <2>4 DEF T
<1>5. Cardinality(Low(s)) + 1 <= Cardinality(S)
  <2>1. Low(s) \subseteq S
    OBVIOUS
  <2> HIDE DEF Low
  <2> QED BY <1>1, <1>3, <2>1
<1>6. ASSUME NEW m \in S, Cardinality(Low(m)) = Cardinality(Low(s)) PROVE m = s
  <2>1. m \in Nat /\ s \in Nat
    BY <1>1
  <2>2. Cardinality(Low(m)) \in Nat /\ Cardinality(Low(s)) \in Nat
    BY <1>2
  <2> HIDE DEF Low
  <2>3. ~(m < s)
    <3> SUFFICES ASSUME m < s PROVE FALSE
      OBVIOUS
    <3>1. Cardinality(Low(m)) + 1 <= Cardinality(Low(s))
      BY <1>4
    <3> QED BY <1>6, <2>2, <3>1
  <2>4. ~(s < m)
    <3> SUFFICES ASSUME s < m PROVE FALSE
      OBVIOUS
    <3>1. Cardinality(Low(s)) + 1 <= Cardinality(Low(m))
      BY <1>4
    <3> QED BY <1>6, <2>2, <3>1
  <2> QED BY <2>1, <2>3, <2>4
<1>7. Cardinality(Low(s)) \in Nat
  BY <1>2
<1> QED BY <1>1, <1>5, <1>6, <1>7

-----------------------------------------------------------------------------
\* A view of a group: cells of a good span.
ViewOK(v) ==
  /\ Good(v.span) /\ v.first \in Nat /\ v.start \in Nat /\ v.len \in Nat
  /\ v.start + v.len <= v.span.len

\* What a view has of a step of the grid.
CellOf(v, i) ==
  IF v.first <= i /\ i < v.first + v.len
  THEN [seen |-> v.span.seen[v.start + (i - v.first)], cell |-> v.span.lanes[v.start + (i - v.first)]]
  ELSE [seen |-> Unseen, cell |-> Fresh]

\* What a store has of a group and a step of the grid.
CellIn(st, g, i) == CellOf(View(st, g), i)

\* Every group of a store has a view.
LEMMA ViewTyped ==
  ASSUME NEW st, NEW n \in Nat, StoreOK(st, n), NEW g \in 1 .. n
  PROVE  /\ ViewOK(View(st, g))
         /\ ~SingleStep => \A i \in Nat : CellIn(st, g, i) = CellAt(st.spans[g], i)
<1>1. st \in Storages /\ Good(st.flat) /\ \A k \in DOMAIN st.spans : Good(st.spans[k])
  BY DEF StoreOK
<1>2. CASE SingleStep
  <2>1. View(st, g) = [span |-> st.flat, start |-> g - 1, len |-> 1, first |-> 0]
    BY <1>2 DEF View
  <2>2. st.flat.len = n
    BY <1>2 DEF StoreOK
  <2> QED BY <1>1, <1>2, <2>1, <2>2 DEF ViewOK
<1>3. CASE ~SingleStep
  <2> DEFINE s == st.spans[g]
  <2>1. View(st, g) = [span |-> s, start |-> s.start, len |-> Active(s), first |-> s.first]
    BY <1>3 DEF View
  <2>2. Good(s)
    <3>1. Len(st.spans) = n /\ st.spans \in Seq(SpanType)
      BY <1>1, <1>3 DEF StoreOK, Storages
    <3>2. g \in DOMAIN st.spans
      BY <3>1
    <3> QED BY <1>1, <3>2
  <2> HIDE DEF s
  <2>3. /\ s.first \in Nat /\ s.start \in Nat /\ s.len \in Nat /\ s.start <= s.len
        /\ Active(s) = s.len - s.start
    BY <2>2 DEF Good, IsSpan, Active
  <2>4. Active(s) \in Nat /\ s.start + Active(s) <= s.len
    BY <2>3
  <2>5. ViewOK(View(st, g))
    BY <2>1, <2>2, <2>3, <2>4 DEF ViewOK
  <2>6. ASSUME NEW i \in Nat PROVE CellIn(st, g, i) = CellAt(s, i)
    <3>1. s.start + (i - s.first) = s.start + i - s.first
      BY <2>3
    <3>2. CellIn(st, g, i) = CellOf([span |-> s, start |-> s.start, len |-> Active(s), first |-> s.first], i)
      BY <2>1 DEF CellIn
    <3> QED BY <3>1, <3>2 DEF CellOf, CellAt
  <2> QED BY <2>5, <2>6 DEF s
<1> QED BY <1>2, <1>3

-----------------------------------------------------------------------------
\* What a row of states holds of a group and a time.
OfRow(row, c, t) ==
  IF row.key = c /\ \E k \in DOMAIN row.times : row.times[k] = t
  THEN row.values[CHOOSE k \in DOMAIN row.times : row.times[k] = t].of ELSE <<>>

\* The row a group leaves in has a time for each step that was reached, and its cell.
LEMMA ListRowHolds ==
  ASSUME grid \in Grids, NEW st, NEW g, NEW key, ViewOK(View(st, g)),
         NEW row, row = ListRow(st, g, key)
  PROVE  /\ row.key = key
         /\ \A k \in DOMAIN row.times : \E i \in Nat :
              row.times[k] = Timestamp(i) /\ CellIn(st, g, i).seen
                /\ row.values[k] = CellIn(st, g, i).cell
         /\ \A i \in Nat : CellIn(st, g, i).seen =>
              \E k \in DOMAIN row.times : row.times[k] = Timestamp(i)
<1> DEFINE v == View(st, g)
           kept == Kept(v)
           S == {s \in 0 .. v.len - 1 : v.span.seen[v.start + s]}
<1>1. row = [key |-> key, times |-> [k \in DOMAIN kept |-> Timestamp(v.first + kept[k])],
             values |-> [k \in DOMAIN kept |-> v.span.lanes[v.start + kept[k]]]]
  BY DEF ListRow
<1>2. /\ v.len \in Nat /\ v.start \in Nat /\ v.first \in Nat
  BY DEF ViewOK
<1>3. kept = [k \in 1 .. Cardinality(S) |->
                CHOOSE s \in S : Cardinality({e \in S : e < s}) = k - 1]
  BY Zenon DEF Kept
<1>4. /\ DOMAIN kept = 1 .. Cardinality(S)
      /\ \A k \in DOMAIN kept : kept[k] \in S
  BY <1>2, KeptTyped
<1>5. /\ row.key = key /\ DOMAIN row.times = DOMAIN kept
      /\ \A k \in DOMAIN kept : row.times[k] = Timestamp(v.first + kept[k])
      /\ \A k \in DOMAIN kept : row.values[k] = v.span.lanes[v.start + kept[k]]
  <2> HIDE DEF v, kept
  <2> QED BY <1>1
<1>6. S \subseteq 0 .. v.len - 1 /\ \A s : s \in S <=> s \in 0 .. v.len - 1 /\ v.span.seen[v.start + s]
  OBVIOUS
<1> HIDE DEF v, kept, S
<1>7. \A s \in S : \E k \in DOMAIN kept : kept[k] = s
  <2> SUFFICES ASSUME NEW s, s \in S PROVE \E k \in DOMAIN kept : kept[k] = s
    OBVIOUS
  <2> DEFINE Rank(m) == Cardinality({e \in S : e < m})
  <2>1. Rank(s) + 1 \in 1 .. Cardinality(S) /\ \A m \in S : Rank(m) = Rank(s) => m = s
    BY <1>2, <1>6, RanksDiffer
  <2>2. \A k \in 1 .. Cardinality(S) : kept[k] = CHOOSE m \in S : Rank(m) = k - 1
    BY <1>3
  <2>3. Cardinality(S) \in Nat
    BY <1>2, <1>6, RankedNumbers
  <2> HIDE DEF Rank
  <2> DEFINE k == Rank(s) + 1
  <2>4. k \in 1 .. Cardinality(S) /\ k - 1 = Rank(s)
    <3>1. Rank(s) \in Int
      <4>1. {e \in S : e < s} \subseteq S OBVIOUS
      <4>2. IsFiniteSet(S) BY <1>2, <1>6, RankedNumbers
      <4>3. IsFiniteSet({e \in S : e < s}) BY <4>1, <4>2, FS_Subset
      <4> QED BY <4>3, FS_CardinalityType DEF Rank
    <3> QED BY <2>1, <3>1
  <2>5. kept[k] = CHOOSE m \in S : Rank(m) = Rank(s)
    BY <2>2, <2>4
  <2>6. (CHOOSE m \in S : Rank(m) = Rank(s)) \in S /\ Rank(CHOOSE m \in S : Rank(m) = Rank(s)) = Rank(s)
    OBVIOUS
  <2>7. kept[k] = s
    BY <2>1, <2>5, <2>6
  <2> QED BY <1>4, <2>4, <2>7
<1>8. \A i : CellIn(st, g, i) = CellOf(v, i)
  BY DEF CellIn, v
<1>9. ASSUME NEW s, s \in S
      PROVE  /\ v.first + s \in Nat
             /\ CellOf(v, v.first + s) = [seen |-> v.span.seen[v.start + s], cell |-> v.span.lanes[v.start + s]]
  <2>1. s \in 0 .. v.len - 1
    BY <1>6, <1>9
  <2>2. v.first + s \in Nat /\ v.first <= v.first + s /\ v.first + s < v.first + v.len
        /\ v.start + ((v.first + s) - v.first) = v.start + s
    BY <1>2, <2>1
  <2> QED BY <2>2 DEF CellOf
<1>10. \A k \in DOMAIN row.times : \E i \in Nat :
         row.times[k] = Timestamp(i) /\ CellIn(st, g, i).seen
           /\ row.values[k] = CellIn(st, g, i).cell
  <2> SUFFICES ASSUME NEW k \in DOMAIN row.times
               PROVE  \E i \in Nat : row.times[k] = Timestamp(i) /\ CellIn(st, g, i).seen
                                       /\ row.values[k] = CellIn(st, g, i).cell
    OBVIOUS
  <2>1. kept[k] \in S
    BY <1>4, <1>5
  <2> DEFINE i == v.first + kept[k]
  <2>2. /\ i \in Nat
        /\ CellOf(v, i) = [seen |-> v.span.seen[v.start + kept[k]], cell |-> v.span.lanes[v.start + kept[k]]]
    BY <1>9, <2>1
  <2>3. v.span.seen[v.start + kept[k]]
    BY <1>6, <2>1
  <2>4. row.times[k] = Timestamp(i) /\ row.values[k] = v.span.lanes[v.start + kept[k]]
    BY <1>5
  <2> HIDE DEF i
  <2>5. CellIn(st, g, i).seen /\ row.values[k] = CellIn(st, g, i).cell
    BY <1>8, <2>2, <2>3, <2>4
  <2> QED BY <2>2, <2>4, <2>5
<1>11. \A i \in Nat : CellIn(st, g, i).seen => \E k \in DOMAIN row.times : row.times[k] = Timestamp(i)
  <2> SUFFICES ASSUME NEW i \in Nat, CellIn(st, g, i).seen
               PROVE  \E k \in DOMAIN row.times : row.times[k] = Timestamp(i)
    OBVIOUS
  <2>1. CellOf(v, i).seen
    BY <1>8
  <2>2. v.first <= i /\ i < v.first + v.len /\ v.span.seen[v.start + (i - v.first)]
    BY <2>1 DEF CellOf, Unseen
  <2>3. i - v.first \in S
    <3>1. i - v.first \in 0 .. v.len - 1
      BY <1>2, <2>2
    <3> QED BY <1>6, <2>2, <3>1
  <2>4. PICK k \in DOMAIN kept : kept[k] = i - v.first
    BY <1>7, <2>3
  <2>5. v.first + kept[k] = i
    BY <1>2, <2>4
  <2> QED BY <1>5, <2>4, <2>5
<1> QED BY <1>5, <1>10, <1>11

\* A run ends at or after its start.
LEMMA RunForward ==
  ASSUME NEW times \in Seq(Int), NEW r \in Runs(times)
  PROVE  r.from <= r.to
<1>1. r.from \in 1 .. Len(times) /\ DOMAIN times = 1 .. Len(times) /\ Len(times) \in Nat
  BY RunEnds
<1>2. PICK s \in Edges(times) \cup {j \in DOMAIN times : j = 1} :
        r = [from |-> s, to |-> Min({e \in Edges(times) \cup {Len(times) + 1} : e > s}) - 1]
  BY DEF Runs
<1> DEFINE Later == {e \in Edges(times) \cup {Len(times) + 1} : e > s}
<1>3. r.from = s /\ r.to = Min(Later) - 1 /\ s \in 1 .. Len(times)
  BY <1>1, <1>2
<1>4. Later \subseteq Nat /\ Len(times) + 1 \in Later /\ \A e \in Later : e > s
  BY <1>1, <1>3 DEF Edges
<1> HIDE DEF Later
<1>5. Min(Later) \in Later
  BY <1>4, MinIsLeast
<1>6. Min(Later) \in Nat /\ Min(Later) > s
  BY <1>4, <1>5
<1> QED BY <1>3, <1>6

\* The cells of a row are those of its runs: each sample has one, and no two the same.
Placed(at, times) ==
  /\ DOMAIN at = DOMAIN times
  /\ \A k \in DOMAIN at : at[k] \in Nat
  /\ \A j, k \in DOMAIN at : at[j] = at[k] => j = k
  /\ \A r \in Runs(times) : \A k \in r.from .. r.to : at[k] = at[r.from] + (k - r.from)

\* Writing a row reaches the cells of its samples, each with its own, and no other.
LEMMA WriteHolds ==
  ASSUME NEW span, Good(span), NEW row, row \in CallRow, NEW at, Placed(at, row.times),
         \A k \in DOMAIN at : at[k] \in span.start .. span.len - 1,
         NEW new, new = Write(span, row, at)
  PROVE  /\ \A k \in DOMAIN at :
              /\ new.seen[at[k]]
              /\ new.lanes[at[k]] = Taken(span.lanes[at[k]], span.seen[at[k]], row, k)
         /\ \A i \in 0 .. span.len - 1 : (\A k \in DOMAIN at : at[k] # i) =>
              new.seen[i] = span.seen[i] /\ new.lanes[i] = span.lanes[i]
<1> DEFINE bits == UNION {BitsSet(at[r.from], at[r.to] + 1) : r \in Runs(row.times)}
           hits(i) == {k \in DOMAIN at : at[k] = i}
           b == [i \in DOMAIN span.seen |-> span.seen[i] \/ i \in bits]
           c == [i \in DOMAIN span.lanes |->
                   IF hits(i) = {} THEN span.lanes[i]
                   ELSE Taken(span.lanes[i], span.seen[i], row, Min(hits(i)))]
<1>1. new = [span EXCEPT !.seen = b, !.lanes = c]
  BY Zenon DEF Write
<1>2. /\ span \in SpanType /\ IsSpan(span)
      /\ span.seen \in [0 .. span.len - 1 -> BOOLEAN] /\ span.lanes \in [0 .. span.len - 1 -> Cell]
  BY SpanTyped DEF Good
<1>3. span.start \in Nat /\ span.len \in Nat /\ span.start <= span.len
  BY <1>2 DEF IsSpan
<1>4. /\ row.times \in Seq(Int) /\ DOMAIN row.times = 1 .. Len(row.times) /\ DOMAIN at = DOMAIN row.times
      /\ \A k \in DOMAIN at : at[k] \in Nat
      /\ \A j, k \in DOMAIN at : at[j] = at[k] => j = k
      /\ \A r \in Runs(row.times) : \A k \in r.from .. r.to : at[k] = at[r.from] + (k - r.from)
  BY DEF CallRow, Placed
<1>5. ASSUME NEW r \in Runs(row.times)
      PROVE  /\ r.from \in DOMAIN at /\ r.to \in DOMAIN at
             /\ r.from \in Nat /\ r.to \in Nat /\ at[r.from] \in Nat /\ at[r.to] \in Nat
  BY <1>4, RunEnds
<1>6. ASSUME NEW k \in DOMAIN at PROVE at[k] \in bits
  <2>1. k \in 1 .. Len(row.times)
    BY <1>4
  <2> DEFINE r == RunOf(row.times, k)
  <2>2. r \in Runs(row.times) /\ r.from <= k /\ k <= r.to
    BY <1>4, <2>1, RunAround
  <2> HIDE DEF r
  <2>3. /\ r.from \in Nat /\ r.to \in Nat /\ at[r.from] \in Nat /\ at[r.to] \in Nat
    BY <1>5, <2>2
  <2>4. k \in r.from .. r.to /\ r.to \in r.from .. r.to /\ k \in Nat
    BY <2>1, <2>2, <2>3
  <2>5. at[k] = at[r.from] + (k - r.from) /\ at[r.to] = at[r.from] + (r.to - r.from)
    BY <1>4, <2>2, <2>4
  <2>6. at[k] \in Nat /\ at[r.from] <= at[k] /\ at[k] < at[r.to] + 1
    BY <2>2, <2>3, <2>4, <2>5
  <2> DEFINE from == at[r.from]
             to == at[r.to] + 1
             i == at[k]
  <2>7. from \in Nat /\ to \in Nat /\ i \in Nat /\ from <= i /\ i < to
    BY <2>3, <2>6
  <2> HIDE DEF from, to, i
  <2>8. i \in BitsSet(from, to)
    BY <2>7, BitsInside
  <2> QED BY <2>2, <2>8, Zenon DEF from, to, i
<1>7. ASSUME NEW i, i \in bits PROVE \E k \in DOMAIN at : at[k] = i
  <2>1. PICK r \in Runs(row.times) : i \in BitsSet(at[r.from], at[r.to] + 1)
    BY <1>7, Zenon
  <2>2. /\ r.from \in DOMAIN at /\ r.to \in DOMAIN at
        /\ r.from \in Nat /\ r.to \in Nat /\ at[r.from] \in Nat /\ at[r.to] \in Nat
    BY <1>5
  <2> DEFINE from == at[r.from]
             to == at[r.to] + 1
  <2>3. from \in Nat /\ to \in Nat /\ i \in BitsSet(from, to)
    BY <2>1, <2>2
  <2> HIDE DEF from, to
  <2>4. i \in Nat /\ from <= i /\ i < to
    BY <2>3, BitsInside
  <2>5. r.from <= r.to
    BY <1>4, RunForward
  <2>6. r.to \in r.from .. r.to
    BY <2>2, <2>5
  <2>7. at[r.to] = at[r.from] + (r.to - r.from)
    BY <1>4, <2>6
  <2> DEFINE k == r.from + (i - from)
  <2>8. k \in r.from .. r.to /\ k - r.from = i - from
    BY <2>2, <2>3, <2>4, <2>7 DEF from, to
  <2>9. k \in DOMAIN at
    BY <1>4, <2>2, <2>8
  <2>10. at[k] = from + (i - from)
    BY <1>4, <2>8 DEF from
  <2>11. at[k] = i
    BY <2>3, <2>4, <2>10
  <2> QED BY <2>9, <2>11
<1>8. /\ new.seen = b /\ new.lanes = c
      /\ \A i \in 0 .. span.len - 1 : b[i] = (span.seen[i] \/ i \in bits)
      /\ \A i \in 0 .. span.len - 1 : c[i] = IF hits(i) = {} THEN span.lanes[i]
                   ELSE Taken(span.lanes[i], span.seen[i], row, Min(hits(i)))
  <2>1. new.seen = b /\ new.lanes = c
    <3> HIDE DEF b, c
    <3> QED BY <1>1, <1>2 DEF SpanType
  <2>2. DOMAIN span.seen = 0 .. span.len - 1 /\ DOMAIN span.lanes = 0 .. span.len - 1
    BY <1>2
  <2> HIDE DEF bits, hits
  <2> QED BY <2>1, <2>2
<1> HIDE DEF b, c, bits
<1>9. ASSUME NEW k \in DOMAIN at
      PROVE  /\ new.seen[at[k]]
             /\ new.lanes[at[k]] = Taken(span.lanes[at[k]], span.seen[at[k]], row, k)
  <2> DEFINE i == at[k]
  <2>1. i \in 0 .. span.len - 1
    BY <1>3
  <2>2. i \in bits
    BY <1>6
  <2>3. hits(i) = {k}
    BY <1>4
  <2>4. Min(hits(i)) = k
    <3>1. {k} \subseteq Nat /\ {k} # {}
      BY <1>4
    <3>2. Min({k}) \in {k}
      BY <3>1, MinIsLeast
    <3> QED BY <2>3, <3>2
  <2> HIDE DEF i
  <2>5. hits(i) # {}
    BY <2>3
  <2> HIDE DEF hits
  <2>6. c[i] = Taken(span.lanes[i], span.seen[i], row, k)
    BY <1>8, <2>1, <2>4, <2>5
  <2>7. b[i] = (span.seen[i] \/ i \in bits)
    BY <1>8, <2>1
  <2>8. b[i]
    BY <2>2, <2>7
  <2> QED BY <1>8, <2>6, <2>8 DEF i
<1>10. ASSUME NEW i \in 0 .. span.len - 1, \A k \in DOMAIN at : at[k] # i
       PROVE  new.seen[i] = span.seen[i] /\ new.lanes[i] = span.lanes[i]
  <2>1. hits(i) = {} /\ i \notin bits
    BY <1>7, <1>10
  <2>2. span.seen[i] \in BOOLEAN
    BY <1>2
  <2> HIDE DEF hits
  <2>3. c[i] = span.lanes[i]
    BY <1>8, <2>1
  <2>4. b[i] = (span.seen[i] \/ i \in bits)
    BY <1>8
  <2>5. b[i] = span.seen[i]
    BY <2>1, <2>2, <2>4
  <2> QED BY <1>8, <2>3, <2>5
<1> QED BY <1>9, <1>10

-----------------------------------------------------------------------------
\* What a store has of a group and a time.
HeldAt(st, g, t) ==
  IF \E i \in Nat : t = Timestamp(i) /\ CellIn(st, g, i).seen
  THEN CellIn(st, g, Index(t)).cell.of ELSE <<>>

\* The row a group leaves in has of a time what the store has.
LEMMA ListedIs ==
  ASSUME grid \in Grids, NEW st, NEW g, NEW key, ViewOK(View(st, g)),
         NEW row, row = ListRow(st, g, key), NEW c, NEW t
  PROVE  OfRow(row, c, t) = IF key = c THEN HeldAt(st, g, t) ELSE <<>>
<1>1. /\ row.key = key
      /\ \A k \in DOMAIN row.times : \E i \in Nat :
           row.times[k] = Timestamp(i) /\ CellIn(st, g, i).seen
             /\ row.values[k] = CellIn(st, g, i).cell
      /\ \A i \in Nat : CellIn(st, g, i).seen =>
           \E k \in DOMAIN row.times : row.times[k] = Timestamp(i)
  BY ListRowHolds
<1>2. CASE key # c
  BY <1>1, <1>2 DEF OfRow
<1>3. CASE key = c /\ \E k \in DOMAIN row.times : row.times[k] = t
  <2> DEFINE k == CHOOSE k \in DOMAIN row.times : row.times[k] = t
  <2>1. k \in DOMAIN row.times /\ row.times[k] = t
    BY <1>3
  <2>2. OfRow(row, c, t) = row.values[k].of
    BY <1>1, <1>3 DEF OfRow
  <2> HIDE DEF k
  <2>3. PICK i \in Nat : row.times[k] = Timestamp(i) /\ CellIn(st, g, i).seen
                           /\ row.values[k] = CellIn(st, g, i).cell
    BY <1>1, <2>1
  <2>4. t = Timestamp(i) /\ Index(t) = i
    BY <2>1, <2>3, IndexOfStep
  <2>5. HeldAt(st, g, t) = CellIn(st, g, i).cell.of
    BY <2>3, <2>4 DEF HeldAt
  <2> QED BY <1>3, <2>2, <2>3, <2>5
<1>4. CASE key = c /\ ~\E k \in DOMAIN row.times : row.times[k] = t
  <2>1. OfRow(row, c, t) = <<>>
    BY <1>4 DEF OfRow
  <2>2. ~\E i \in Nat : t = Timestamp(i) /\ CellIn(st, g, i).seen
    BY <1>1, <1>4
  <2>3. HeldAt(st, g, t) = <<>>
    BY <2>2 DEF HeldAt
  <2> QED BY <1>4, <2>1, <2>3
<1> QED BY <1>2, <1>3, <1>4

\* Only the cells matter.
LEMMA HeldSame ==
  ASSUME grid \in Grids, NEW st, NEW g, NEW new, NEW h, NEW t,
         \A i \in Nat : CellIn(new, h, i) = CellIn(st, g, i)
  PROVE  HeldAt(new, h, t) = HeldAt(st, g, t)
<1>1. CASE \E i \in Nat : t = Timestamp(i) /\ CellIn(st, g, i).seen
  <2>1. PICK i \in Nat : t = Timestamp(i) /\ CellIn(st, g, i).seen
    BY <1>1
  <2>2. Index(t) = i
    BY <2>1, IndexOfStep
  <2> QED BY <2>1, <2>2 DEF HeldAt
<1>2. CASE ~\E i \in Nat : t = Timestamp(i) /\ CellIn(st, g, i).seen
  BY <1>2 DEF HeldAt
<1> QED BY <1>1, <1>2

\* A group nothing reached holds nothing.
LEMMA HeldNot ==
  ASSUME NEW st, NEW g, NEW t, \A i \in Nat : ~CellIn(st, g, i).seen
  PROVE  HeldAt(st, g, t) = <<>>
BY DEF HeldAt

-----------------------------------------------------------------------------
\* Room for more groups leaves the cells there are, and gives fresh ones.
LEMMA GrowHolds ==
  ASSUME NEW st, NEW n \in Nat, StoreOK(st, n), NEW m \in Nat, n <= m,
         NEW new, new = Grow(st, m)
  PROVE  /\ \A g \in 1 .. n : \A i \in Nat : CellIn(new, g, i) = CellIn(st, g, i)
         /\ \A g \in n + 1 .. m : \A i \in Nat :
              ~CellIn(new, g, i).seen /\ CellIn(new, g, i).cell = Fresh
<1>1. st \in Storages /\ Good(st.flat)
  BY DEF StoreOK
<1>2. CASE SingleStep
  <2>1. st.flat.len = n /\ st.flat.start = 0 /\ IsSpan(st.flat) /\ st.flat \in SpanType
    BY <1>1, <1>2 DEF StoreOK, Good
  <2>2. DOMAIN st.flat.seen = 0 .. n - 1 /\ DOMAIN st.flat.lanes = 0 .. n - 1
    BY <2>1 DEF IsSpan
  <2> DEFINE t == IF m > n THEN Widen(st.flat, m) ELSE st.flat
  <2>3. new.flat = t
    <3>1. CASE m > n
      <4>1. Grow(st, m) = [st EXCEPT !.flat = Widen(st.flat, m)]
        BY <1>2, <2>1, <3>1 DEF Grow
      <4> DEFINE w == Widen(st.flat, m)
      <4> HIDE DEF w
      <4>2. [st EXCEPT !.flat = w].flat = w
        BY <1>1 DEF Storages
      <4> QED BY <3>1, <4>1, <4>2 DEF w
    <3>2. CASE ~(m > n)
      BY <1>2, <2>1, <3>2 DEF Grow
    <3> QED BY <3>1, <3>2
  <2>4. \A i \in 0 .. m - 1 : /\ i < n => t.seen[i] = st.flat.seen[i] /\ t.lanes[i] = st.flat.lanes[i]
                              /\ ~(i < n) => ~t.seen[i] /\ t.lanes[i] = Fresh
    <3>1. CASE m > n
      <4>1. t.seen = Resize(st.flat.seen, m, FALSE) /\ t.lanes = Resize(st.flat.lanes, m, Fresh)
        BY <2>1, <3>1 DEF Widen, SpanType
      <4>2. \A i \in 0 .. m - 1 : i < n <=> i \in 0 .. n - 1
        OBVIOUS
      <4> HIDE DEF t
      <4>3. ASSUME NEW i \in 0 .. m - 1, i < n
            PROVE  t.seen[i] = st.flat.seen[i] /\ t.lanes[i] = st.flat.lanes[i]
        BY <2>2, <4>1, <4>2, <4>3 DEF Resize
      <4>4. ASSUME NEW i \in 0 .. m - 1, ~(i < n)
            PROVE  ~t.seen[i] /\ t.lanes[i] = Fresh
        BY <2>2, <4>1, <4>2, <4>4 DEF Resize
      <4> QED BY <4>3, <4>4
    <3>2. CASE ~(m > n)
      <4>1. m = n BY <3>2
      <4> QED BY <3>2, <4>1
    <3> QED BY <3>1, <3>2
  <2> HIDE DEF t
  <2>5. ASSUME NEW g \in 1 .. m, NEW i \in Nat
        PROVE  CellIn(new, g, i) = IF i = 0 THEN [seen |-> t.seen[g - 1], cell |-> t.lanes[g - 1]]
                                   ELSE [seen |-> Unseen, cell |-> Fresh]
    <3>1. View(new, g) = [span |-> t, start |-> g - 1, len |-> 1, first |-> 0]
      BY <1>2, <2>3 DEF View
    <3>2. g - 1 + (0 - 0) = g - 1
      OBVIOUS
    <3>3. (0 <= i /\ i < 0 + 1) <=> i = 0
      OBVIOUS
    <3> QED BY <3>1, <3>2, <3>3 DEF CellIn, CellOf
  <2>6. ASSUME NEW g \in 1 .. n, NEW i \in Nat
        PROVE  CellIn(st, g, i) = IF i = 0 THEN [seen |-> st.flat.seen[g - 1], cell |-> st.flat.lanes[g - 1]]
                                  ELSE [seen |-> Unseen, cell |-> Fresh]
    <3>1. View(st, g) = [span |-> st.flat, start |-> g - 1, len |-> 1, first |-> 0]
      BY <1>2 DEF View
    <3>2. g - 1 + (0 - 0) = g - 1
      OBVIOUS
    <3>3. (0 <= i /\ i < 0 + 1) <=> i = 0
      OBVIOUS
    <3> QED BY <3>1, <3>2, <3>3 DEF CellIn, CellOf
  <2>7. ASSUME NEW g \in 1 .. n, NEW i \in Nat PROVE CellIn(new, g, i) = CellIn(st, g, i)
    <3>1. g \in 1 .. m /\ g - 1 \in 0 .. m - 1 /\ g - 1 < n
      OBVIOUS
    <3>2. t.seen[g - 1] = st.flat.seen[g - 1] /\ t.lanes[g - 1] = st.flat.lanes[g - 1]
      BY <2>4, <3>1
    <3> QED BY <2>5, <2>6, <3>1, <3>2
  <2>8. ASSUME NEW g \in n + 1 .. m, NEW i \in Nat
        PROVE  ~CellIn(new, g, i).seen /\ CellIn(new, g, i).cell = Fresh
    <3>1. g \in 1 .. m /\ g - 1 \in 0 .. m - 1 /\ ~(g - 1 < n)
      OBVIOUS
    <3>2. ~t.seen[g - 1] /\ t.lanes[g - 1] = Fresh
      BY <2>4, <3>1
    <3> QED BY <2>5, <3>1, <3>2 DEF Unseen
  <2> QED BY <2>7, <2>8
<1>3. CASE ~SingleStep
  <2>1. Len(st.spans) = n /\ st.spans \in Seq(SpanType) /\ DOMAIN st.spans = 1 .. n
    BY <1>1, <1>3 DEF StoreOK, Storages
  <2> DEFINE old == st.spans
             t == [g \in 1 .. m |-> IF g \in DOMAIN old THEN old[g] ELSE NewSpan]
  <2>2. Grow(st, m) = [st EXCEPT !.spans = t]
    BY <1>3 DEF Grow
  <2>3. new.spans = t
    <3> HIDE DEF t
    <3> QED BY <1>1, <2>2 DEF Storages
  <2>4. \A g \in 1 .. n : g \in 1 .. m /\ t[g] = old[g]
    BY <2>1
  <2>5. \A g \in n + 1 .. m : t[g] = NewSpan
    BY <2>1
  <2> HIDE DEF t, old
  <2>6. ASSUME NEW g \in 1 .. n, NEW i \in Nat PROVE CellIn(new, g, i) = CellIn(st, g, i)
    <3>1. View(new, g) = View(st, g)
      BY <1>3, <2>3, <2>4 DEF View, old
    <3> QED BY <3>1 DEF CellIn
  <2>7. ASSUME NEW g \in n + 1 .. m, NEW i \in Nat
        PROVE  ~CellIn(new, g, i).seen /\ CellIn(new, g, i).cell = Fresh
    <3>1. new.spans[g] = NewSpan
      BY <2>3, <2>5
    <3>2. View(new, g).first = 0 /\ View(new, g).len = 0
      BY <1>3, <3>1 DEF View, NewSpan, Active
    <3>3. CellIn(new, g, i) = [seen |-> Unseen, cell |-> Fresh]
      BY <3>2 DEF CellIn, CellOf
    <3> QED BY <3>3 DEF Unseen
  <2> QED BY <2>6, <2>7
<1> QED BY <1>2, <1>3

\* When the first groups leave, the others keep their cells.
LEMMA ReleaseHolds ==
  ASSUME NEW st, NEW n \in Nat, StoreOK(st, n), NEW k \in 1 .. n,
         NEW new, new = Release(st, k)
  PROVE  \A g \in 1 .. n - k : \A i \in Nat : CellIn(new, g, i) = CellIn(st, g + k, i)
<1>1. st \in Storages /\ Good(st.flat)
  BY DEF StoreOK
<1>2. CASE SingleStep
  <2>1. st.flat.len = n /\ st.flat \in SpanType
    BY <1>1, <1>2 DEF StoreOK, Good
  <2> DEFINE b == [i \in 0 .. st.flat.len - k - 1 |-> st.flat.seen[i + k]]
             c == [i \in 0 .. st.flat.len - k - 1 |-> st.flat.lanes[i + k]]
             w == Widen(st.flat, st.flat.len - k)
             t == [w EXCEPT !.seen = b, !.lanes = c]
  <2>2. new = [st EXCEPT !.flat = t]
    BY <1>2, Zenon DEF Release
  <2>3. t.seen = b /\ t.lanes = c
    <3> HIDE DEF b, c
    <3> QED BY <2>1 DEF Widen, SpanType
  <2>4. new.flat = t
    <3> HIDE DEF t
    <3> QED BY <1>1, <2>2 DEF Storages
  <2>5. ASSUME NEW g \in 1 .. n - k, NEW i \in Nat PROVE CellIn(new, g, i) = CellIn(st, g + k, i)
    <3>1. g - 1 \in 0 .. n - k - 1 /\ g - 1 + k = g + k - 1
      OBVIOUS
    <3>2. b[g - 1] = st.flat.seen[g + k - 1] /\ c[g - 1] = st.flat.lanes[g + k - 1]
      BY <2>1, <3>1
    <3> HIDE DEF b, c, t
    <3>3. View(new, g) = [span |-> t, start |-> g - 1, len |-> 1, first |-> 0]
      BY <1>2, <2>4 DEF View
    <3>4. View(st, g + k) = [span |-> st.flat, start |-> g + k - 1, len |-> 1, first |-> 0]
      BY <1>2 DEF View
    <3>5. g - 1 + (0 - 0) = g - 1 /\ g + k - 1 + (0 - 0) = g + k - 1
      OBVIOUS
    <3>6. (0 <= i /\ i < 0 + 1) <=> i = 0
      OBVIOUS
    <3>7. CASE i = 0
      <4>1. CellIn(new, g, i) = [seen |-> t.seen[g - 1], cell |-> t.lanes[g - 1]]
        BY <3>3, <3>5, <3>6, <3>7 DEF CellIn, CellOf
      <4>2. CellIn(st, g + k, i) = [seen |-> st.flat.seen[g + k - 1], cell |-> st.flat.lanes[g + k - 1]]
        BY <3>4, <3>5, <3>6, <3>7 DEF CellIn, CellOf
      <4> QED BY <2>3, <3>2, <4>1, <4>2
    <3>8. CASE i # 0
      <4>1. CellIn(new, g, i) = [seen |-> Unseen, cell |-> Fresh]
        BY <3>3, <3>6, <3>8 DEF CellIn, CellOf
      <4>2. CellIn(st, g + k, i) = [seen |-> Unseen, cell |-> Fresh]
        BY <3>4, <3>6, <3>8 DEF CellIn, CellOf
      <4> QED BY <4>1, <4>2
    <3> QED BY <3>7, <3>8
  <2> QED BY <2>5
<1>3. CASE ~SingleStep
  <2> DEFINE old == st.spans
             t == SubSeq(old, k + 1, Len(old))
  <2>1. old \in Seq(SpanType) /\ Len(old) = n
    BY <1>1, <1>3 DEF StoreOK, Storages
  <2>2. Release(st, k) = [st EXCEPT !.heap = st.heap - SpanBytes(SubSeq(old, 1, k)), !.spans = t]
    BY <1>1, <1>3 DEF Release, Storages
  <2>3. \A g \in 1 .. n - k : t[g] = old[g + k]
    BY <2>1
  <2>4. new.spans = t
    <3> HIDE DEF t
    <3> QED BY <1>1, <2>2 DEF Storages
  <2> HIDE DEF old, t
  <2>5. ASSUME NEW g \in 1 .. n - k, NEW i \in Nat PROVE CellIn(new, g, i) = CellIn(st, g + k, i)
    <3>1. new.spans[g] = st.spans[g + k]
      BY <2>3, <2>4 DEF old
    <3>2. View(new, g) = View(st, g + k)
      BY <1>3, <3>1 DEF View
    <3> QED BY <3>2 DEF CellIn
  <2> QED BY <2>5
<1> QED BY <1>2, <1>3

\* Each sample of a row goes to the cell of its own step, and no two to the same.
LEMMA AtPlaced ==
  ASSUME grid \in Grids, NEW span, Good(span), NEW times \in Seq(Int), WellFormed(times),
         Local(span, times), NEW at, at = At(span, times)
  PROVE  /\ Placed(at, times)
         /\ \A k \in DOMAIN times :
              /\ Index(times[k]) \in Nat /\ times[k] = Timestamp(Index(times[k]))
              /\ at[k] = span.start + (Index(times[k]) - span.first)
              /\ span.first <= Index(times[k]) /\ Index(times[k]) < span.first + Active(span)
<1>1. /\ span.first \in Nat /\ span.start \in Nat /\ span.len \in Nat /\ span.start <= span.len
      /\ Active(span) \in Int /\ Active(span) = span.len - span.start
  BY DEF Good, IsSpan, Active
<1>a. DOMAIN times = 1 .. Len(times) /\ Len(times) \in Nat
  OBVIOUS
<1>2. ASSUME NEW k \in DOMAIN times
      PROVE  Index(times[k]) \in Nat /\ times[k] = Timestamp(Index(times[k])) /\ k \in Nat
  <2>1. PICK i \in 0 .. grid.len - 1 : times[k] = Timestamp(i)
    BY DEF WellFormed
  <2>2. i \in Nat OBVIOUS
  <2> QED BY <1>a, <2>1, <2>2, IndexOfStep
<1>3. ASSUME NEW k \in DOMAIN times, NEW r \in Runs(times), r.from <= k, k <= r.to
      PROVE  /\ Index(times[k]) = Index(times[r.from]) + (k - r.from)
             /\ span.first <= Index(times[k]) /\ Index(times[k]) < span.first + Active(span)
             /\ r.from \in DOMAIN times /\ r.to \in DOMAIN times
  <2>1. r.from \in Nat /\ r.to \in Nat /\ r.from \in DOMAIN times /\ r.to \in DOMAIN times
    BY <1>a, RunEnds
  <2>2. k \in r.from .. r.to
    BY <1>2, <1>3, <2>1
  <2>3. Index(times[k]) = Index(times[r.from]) + (k - r.from)
    BY <2>2, IndexAlongRun
  <2>4. Index(times[r.from]) >= span.first
        /\ Index(times[r.from]) - span.first + (r.to - r.from + 1) <= Active(span)
    BY DEF Local
  <2> DEFINE i == Index(times[k])
             j == Index(times[r.from])
             a == Active(span)
             f == r.from
             t == r.to
             p == span.first
  <2>5. i \in Nat /\ j \in Nat /\ a \in Int /\ f \in Nat /\ t \in Nat /\ p \in Nat /\ k \in Nat
    BY <1>1, <1>2, <2>1
  <2>6. i = j + (k - f) /\ j >= p /\ j - p + (t - f + 1) <= a /\ f <= k /\ k <= t
    BY <1>3, <2>3, <2>4
  <2> HIDE DEF i, j, a, f, t, p
  <2>7. p <= i /\ i < p + a
    BY <2>5, <2>6
  <2> QED BY <2>1, <2>3, <2>7 DEF i, a, p
<1>4. ASSUME NEW k \in DOMAIN times
      PROVE  /\ at[k] = span.start + (Index(times[k]) - span.first)
             /\ span.first <= Index(times[k]) /\ Index(times[k]) < span.first + Active(span)
  <2> DEFINE r == RunOf(times, k)
  <2>1. r \in Runs(times) /\ r.from <= k /\ k <= r.to
    BY <1>a, RunAround
  <2>2. at[k] = span.start + Index(times[r.from]) - span.first + (k - r.from)
    BY DEF At
  <2> HIDE DEF r
  <2>3. /\ Index(times[k]) = Index(times[r.from]) + (k - r.from)
        /\ span.first <= Index(times[k]) /\ Index(times[k]) < span.first + Active(span)
        /\ r.from \in DOMAIN times
    BY <1>3, <2>1
  <2> DEFINE i == Index(times[k])
             j == Index(times[r.from])
             f == r.from
             p == span.first
             b == span.start
  <2>4. i \in Nat /\ j \in Nat /\ f \in Nat /\ k \in Nat /\ p \in Nat /\ b \in Nat
    BY <1>1, <1>2, <2>3
  <2>5. i = j + (k - f) /\ at[k] = b + j - p + (k - f)
    BY <2>2, <2>3
  <2> HIDE DEF i, j, f, p, b
  <2>6. at[k] = b + (i - p)
    BY <2>4, <2>5
  <2> QED BY <2>3, <2>6 DEF i, p, b
<1>5. DOMAIN at = DOMAIN times
  BY DEF At
<1>6. \A k \in DOMAIN at : at[k] \in Nat
  BY <1>1, <1>2, <1>4, <1>5
<1>7. ASSUME NEW j \in DOMAIN at, NEW k \in DOMAIN at, at[j] = at[k] PROVE j = k
  <2>1. Index(times[j]) = Index(times[k])
    <3> DEFINE x == Index(times[j])
               y == Index(times[k])
               p == span.first
               b == span.start
    <3>1. at[j] = b + (x - p) /\ at[k] = b + (y - p) /\ x \in Nat /\ y \in Nat /\ p \in Nat /\ b \in Nat
      BY <1>1, <1>2, <1>4, <1>5
    <3> HIDE DEF x, y, p, b
    <3>2. b + (x - p) = b + (y - p)
      BY <1>7, <3>1, Zenon
    <3>3. x \in Nat /\ y \in Nat /\ p \in Nat /\ b \in Nat
      BY <3>1
    <3>4. x = y
      BY <3>2, <3>3
    <3> QED BY <3>4 DEF x, y
  <2>2. times[j] = times[k]
    BY <1>2, <1>5, <2>1
  <2>3. times[j] \in Int /\ j \in Int /\ k \in Int
    BY <1>a, <1>5
  <2>4. ~(j < k) /\ ~(k < j)
    BY <1>5, <2>2, <2>3 DEF WellFormed
  <2> QED BY <2>3, <2>4
<1>8. ASSUME NEW r \in Runs(times), NEW k \in r.from .. r.to PROVE at[k] = at[r.from] + (k - r.from)
  <2>1. r.from \in Nat /\ r.to \in Nat /\ r.from \in 1 .. Len(times) /\ r.to \in 1 .. Len(times)
    BY <1>a, RunEnds
  <2>2. k \in DOMAIN times /\ r.from \in DOMAIN times /\ r.from <= k /\ k <= r.to /\ k \in Nat
    BY <1>a, <2>1
  <2>3. Index(times[k]) = Index(times[r.from]) + (k - r.from)
    BY <1>3, <2>2
  <2>4. /\ at[k] = span.start + (Index(times[k]) - span.first)
        /\ at[r.from] = span.start + (Index(times[r.from]) - span.first)
    BY <1>4, <2>2
  <2> DEFINE x == Index(times[k])
             y == Index(times[r.from])
             f == r.from
             p == span.first
             b == span.start
  <2>5. /\ x \in Nat /\ y \in Nat /\ p \in Nat /\ b \in Nat /\ f \in Nat /\ k \in Nat
        /\ x = y + (k - f) /\ at[k] = b + (x - p) /\ at[f] = b + (y - p)
    BY <1>1, <1>2, <2>1, <2>2, <2>3, <2>4
  <2> HIDE DEF x, y, f, p, b
  <2>6. at[k] = at[f] + (k - f)
    BY <2>5
  <2> QED BY <2>6 DEF f
<1>9. Placed(at, times)
  BY <1>5, <1>6, <1>7, <1>8 DEF Placed
<1> QED BY <1>2, <1>4, <1>9

\* The span prepared for a row: as good, with the same cells, and room for the row.
LEMMA PreparedHolds ==
  ASSUME grid \in Grids, NEW old, Good(old), NEW times \in Seq(Int), WellFormed(times),
         NEW span, span = Prepared(old, times)
  PROVE  /\ Good(span) /\ Local(span, times)
         /\ \A i \in Nat : CellAt(span, i) = CellAt(old, i)
<1>1. CASE times = <<>>
  <2>1. span = old
    BY <1>1 DEF Prepared
  <2>2. Runs(times) = {}
    <3>1. DOMAIN times = {} /\ Len(times) = 0
      BY <1>1
    <3>2. Edges(times) = {}
      BY <3>1 DEF Edges
    <3>3. {k \in DOMAIN times : k = 1} = {}
      BY <3>1
    <3> QED BY <3>2, <3>3 DEF Runs
  <2> QED BY <2>1, <2>2 DEF Local
<1>2. CASE times # <<>>
  <2> DEFINE a == Index(times[1])
             z == Index(times[Len(times)])
  <2>1. span = Include(old, a, z)
    BY <1>2 DEF Prepared
  <2>2. a \in Nat /\ z \in Nat /\ a <= z /\ Local(span, times)
    BY <1>2, <2>1, WellFormedFits
  <2> HIDE DEF a, z
  <2>3. Good(span)
    BY <2>1, <2>2, IncludeGood
  <2>4. IsSpan(old) /\ Clear(old) /\ Lean(old)
    BY DEF Good
  <2>5. \A i \in Nat : CellAt(span, i) = CellAt(old, i)
    BY <2>1, <2>2, <2>4, IncludeIsExact
  <2> QED BY <2>2, <2>3, <2>5
<1> QED BY <1>1, <1>2

\* On a grid of one step a row has at most one sample, of that step.
LEMMA OneStep ==
  ASSUME grid \in Grids, SingleStep, NEW times \in Seq(Int), WellFormed(times)
  PROVE  \A k \in DOMAIN times : k = 1 /\ times[k] = Timestamp(0)
<1>1. DOMAIN times = 1 .. Len(times) /\ Len(times) \in Nat /\ \A k \in DOMAIN times : times[k] \in Int
  OBVIOUS
<1>2. \A k \in DOMAIN times : times[k] = Timestamp(0)
  <2> TAKE k \in DOMAIN times
  <2>1. PICK i \in 0 .. grid.len - 1 : times[k] = Timestamp(i)
    BY DEF WellFormed
  <2>2. i = 0
    BY DEF SingleStep
  <2> QED BY <2>1, <2>2
<1>3. \A k \in DOMAIN times : k = 1
  <2> TAKE k \in DOMAIN times
  <2>1. k \in Nat /\ 1 <= k /\ 1 \in DOMAIN times
    BY <1>1
  <2>2. ~(1 < k)
    <3> SUFFICES ASSUME 1 < k PROVE FALSE
      OBVIOUS
    <3>1. times[1] < times[k]
      BY <2>1 DEF WellFormed
    <3> QED BY <1>1, <1>2, <2>1, <3>1
  <2> QED BY <2>1, <2>2
<1> QED BY <1>2, <1>3

\* A folded row reaches, in its group, the cells of its steps, each with its own sample,
\* and no other cell.
LEMMA AddHolds ==
  ASSUME grid \in Grids, NEW st, NEW n \in Nat, StoreOK(st, n), NEW row \in CallRow,
         row.group \in 1 .. n, WellFormed(row.times), NEW new, new = AddSeries(st, row),
         NEW g \in 1 .. n, NEW i \in Nat
  PROVE  /\ \A k \in DOMAIN row.times : g = row.group /\ row.times[k] = Timestamp(i) =>
              /\ CellIn(new, g, i).seen
              /\ CellIn(new, g, i).cell = Taken(CellIn(st, g, i).cell, CellIn(st, g, i).seen, row, k)
         /\ g # row.group \/ (\A k \in DOMAIN row.times : row.times[k] # Timestamp(i)) =>
              CellIn(new, g, i) = CellIn(st, g, i)
<1>0. st \in Storages /\ Good(st.flat) /\ \A h \in DOMAIN st.spans : Good(st.spans[h])
  BY DEF StoreOK
<1>1. row.times \in Seq(Int) /\ row.group \in Nat /\ DOMAIN row.times = 1 .. Len(row.times)
      /\ Len(row.times) \in Nat
  BY DEF CallRow
<1>2. CASE SingleStep
  <2> DEFINE at == [k \in DOMAIN row.times |-> row.group - 1]
             t == Write(st.flat, row, at)
  <2>1. st.flat.len = n /\ st.flat.start = 0
    BY <1>2 DEF StoreOK
  <2>2. new = [st EXCEPT !.flat = t]
    BY <1>2 DEF AddSeries
  <2>3. \A k \in DOMAIN row.times : k = 1 /\ row.times[k] = Timestamp(0)
    BY <1>1, <1>2, OneStep
  <2>4. DOMAIN at = DOMAIN row.times /\ \A k \in DOMAIN at : at[k] = row.group - 1
    OBVIOUS
  <2> HIDE DEF at
  <2>5. Placed(at, row.times)
    <3>1. \A j, k \in DOMAIN at : j = k
      BY <2>3, <2>4
    <3>2. \A k \in DOMAIN at : at[k] \in Nat
      BY <2>4
    <3>3. ASSUME NEW r \in Runs(row.times), NEW k \in r.from .. r.to PROVE at[k] = at[r.from] + (k - r.from)
      <4>1. r.from \in 1 .. Len(row.times) /\ r.to \in 1 .. Len(row.times)
        BY <1>1, RunEnds
      <4>2. k \in DOMAIN row.times /\ r.from \in DOMAIN row.times
        BY <1>1, <4>1
      <4>3. k = 1 /\ r.from = 1
        BY <2>3, <4>2
      <4>4. at[1] \in Nat
        BY <2>4, <3>2, <4>2, <4>3
      <4> QED BY <4>3, <4>4
    <3> QED BY <2>4, <3>1, <3>2, <3>3 DEF Placed
  <2>6. \A k \in DOMAIN at : at[k] \in st.flat.start .. st.flat.len - 1
    BY <2>1, <2>4
  <2>7. /\ \A k \in DOMAIN at :
             /\ t.seen[at[k]]
             /\ t.lanes[at[k]] = Taken(st.flat.lanes[at[k]], st.flat.seen[at[k]], row, k)
        /\ \A j \in 0 .. st.flat.len - 1 : (\A k \in DOMAIN at : at[k] # j) =>
             t.seen[j] = st.flat.seen[j] /\ t.lanes[j] = st.flat.lanes[j]
    BY <1>0, <2>5, <2>6, WriteHolds
  <2> HIDE DEF t
  <2>8. new.flat = t
    BY <1>0, <2>2 DEF Storages
  <2>9. /\ View(new, g) = [span |-> t, start |-> g - 1, len |-> 1, first |-> 0]
        /\ View(st, g) = [span |-> st.flat, start |-> g - 1, len |-> 1, first |-> 0]
    BY <1>2, <2>8 DEF View
  <2>10. g - 1 + (0 - 0) = g - 1 /\ ((0 <= i /\ i < 0 + 1) <=> i = 0)
    OBVIOUS
  <2>11. CASE i = 0
    <3>1. CellIn(new, g, i) = [seen |-> t.seen[g - 1], cell |-> t.lanes[g - 1]]
      BY <2>9, <2>10, <2>11 DEF CellIn, CellOf
    <3>2. CellIn(st, g, i) = [seen |-> st.flat.seen[g - 1], cell |-> st.flat.lanes[g - 1]]
      BY <2>9, <2>10, <2>11 DEF CellIn, CellOf
    <3>3. ASSUME NEW k \in DOMAIN row.times, g = row.group
          PROVE  /\ CellIn(new, g, i).seen
                 /\ CellIn(new, g, i).cell = Taken(CellIn(st, g, i).cell, CellIn(st, g, i).seen, row, k)
      <4>1. at[k] = g - 1 /\ k \in DOMAIN at
        BY <2>4, <3>3
      <4>2. t.seen[g - 1] /\ t.lanes[g - 1] = Taken(st.flat.lanes[g - 1], st.flat.seen[g - 1], row, k)
        BY <2>7, <4>1
      <4> QED BY <3>1, <3>2, <4>2
    <3>4. ASSUME g # row.group \/ (\A k \in DOMAIN row.times : row.times[k] # Timestamp(i))
          PROVE  CellIn(new, g, i) = CellIn(st, g, i)
      <4>1. \A k \in DOMAIN at : at[k] # g - 1
        BY <1>1, <2>3, <2>4, <2>11, <3>4
      <4>2. g - 1 \in 0 .. st.flat.len - 1
        BY <2>1
      <4>3. t.seen[g - 1] = st.flat.seen[g - 1] /\ t.lanes[g - 1] = st.flat.lanes[g - 1]
        BY <2>7, <4>1, <4>2
      <4> QED BY <3>1, <3>2, <4>3
    <3> QED BY <3>3, <3>4
  <2>12. CASE i # 0
    <3>1. CellIn(new, g, i) = CellIn(st, g, i)
      BY <2>9, <2>10, <2>12 DEF CellIn, CellOf
    <3>2. \A k \in DOMAIN row.times : row.times[k] # Timestamp(i)
      <4>1. Timestamp(0) # Timestamp(i)
        <5>1. Index(Timestamp(0)) = 0 /\ Index(Timestamp(i)) = i
          BY IndexOfStep
        <5> QED BY <2>12, <5>1
      <4> QED BY <2>3, <4>1
    <3> QED BY <3>1, <3>2
  <2> QED BY <2>11, <2>12
<1>3. CASE ~SingleStep
  <2> DEFINE q == row.group
             old == st.spans[q]
             span == Prepared(old, row.times)
             at == At(span, row.times)
             t == Write(span, row, at)
             h == st.heap - old.len + span.len
             spans == [st.spans EXCEPT ![q] = t]
  <2>1. new = [st EXCEPT !.heap = h, !.spans = spans]
    BY <1>0, <1>3 DEF AddSeries, Storages
  <2>2. st.spans \in Seq(SpanType) /\ Len(st.spans) = n /\ DOMAIN st.spans = 1 .. n
        /\ q \in DOMAIN st.spans
    BY <1>3 DEF StoreOK, Storages
  <2>3. Good(old)
    BY <1>0, <2>2
  <2>4. Good(span) /\ Local(span, row.times) /\ \A j \in Nat : CellAt(span, j) = CellAt(old, j)
    BY <1>1, <2>3, PreparedHolds
  <2>5. new.spans = spans
    <3> HIDE DEF spans, h
    <3> QED BY <1>0, <2>1 DEF Storages
  <2>6. \A k \in 1 .. n : new.spans[k] = IF k = q THEN t ELSE st.spans[k]
    <3> HIDE DEF t
    <3> QED BY <2>2, <2>5
  <2> HIDE DEF span, h, spans
  <2>7. /\ Placed(at, row.times)
        /\ \A k \in DOMAIN row.times :
              /\ Index(row.times[k]) \in Nat /\ row.times[k] = Timestamp(Index(row.times[k]))
              /\ at[k] = span.start + (Index(row.times[k]) - span.first)
              /\ span.first <= Index(row.times[k]) /\ Index(row.times[k]) < span.first + Active(span)
    BY <1>1, <2>4, AtPlaced
  <2> HIDE DEF at
  <2>8. /\ span.first \in Nat /\ span.start \in Nat /\ span.len \in Nat /\ span.start <= span.len
        /\ Active(span) = span.len - span.start
    BY <2>4 DEF Good, IsSpan, Active
  <2>9. DOMAIN at = DOMAIN row.times /\ \A k \in DOMAIN at : at[k] \in span.start .. span.len - 1
    <3>1. DOMAIN at = DOMAIN row.times
      BY <2>7 DEF Placed
    <3>2. ASSUME NEW k \in DOMAIN at PROVE at[k] \in span.start .. span.len - 1
      <4> DEFINE j == Index(row.times[k])
      <4>1. j \in Nat /\ at[k] = span.start + (j - span.first) /\ span.first <= j /\ j < span.first + Active(span)
        BY <2>7, <3>1
      <4> HIDE DEF j
      <4> QED BY <2>8, <4>1
    <3> QED BY <3>1, <3>2
  <2>10. /\ \A k \in DOMAIN at :
              /\ t.seen[at[k]]
              /\ t.lanes[at[k]] = Taken(span.lanes[at[k]], span.seen[at[k]], row, k)
         /\ \A j \in 0 .. span.len - 1 : (\A k \in DOMAIN at : at[k] # j) =>
              t.seen[j] = span.seen[j] /\ t.lanes[j] = span.lanes[j]
    BY <2>4, <2>7, <2>9, WriteHolds
  <2>11. t.len = span.len /\ t.first = span.first /\ t.start = span.start
    BY <2>4, <2>9, WriteGood
  <2> HIDE DEF t
  <2>12. CASE g # q
    <3>1. new.spans[g] = st.spans[g]
      BY <2>6, <2>12
    <3>2. CellIn(new, g, i) = CellIn(st, g, i)
      BY <1>3, <3>1 DEF CellIn, View
    <3> QED BY <2>12, <3>2
  <2>13. CASE g = q
    <3>1. new.spans[g] = t
      BY <2>6, <2>13
    <3>2. CellIn(st, g, i) = CellAt(span, i)
      <4>1. CellIn(st, g, i) = CellAt(st.spans[g], i)
        BY <1>3, ViewTyped
      <4> QED BY <2>4, <2>13, <4>1
    <3> DEFINE c == span.start + (i - span.first)
               in == span.first <= i /\ i < span.first + Active(span)
    <3>3. CellIn(new, g, i) = IF in THEN [seen |-> t.seen[c], cell |-> t.lanes[c]]
                              ELSE [seen |-> Unseen, cell |-> Fresh]
      <4>1. View(new, g) = [span |-> t, start |-> t.start, len |-> Active(t), first |-> t.first]
        BY <1>3, <3>1 DEF View
      <4>2. Active(t) = Active(span)
        BY <2>11 DEF Active
      <4> QED BY <2>11, <4>1, <4>2 DEF CellIn, CellOf
    <3>4. CellAt(span, i) = IF in THEN [seen |-> span.seen[c], cell |-> span.lanes[c]]
                            ELSE [seen |-> Unseen, cell |-> Fresh]
      <4>1. span.start + i - span.first = c
        BY <2>8
      <4> QED BY <4>1 DEF CellAt
    <3>5. ASSUME NEW k \in DOMAIN row.times, row.times[k] = Timestamp(i)
          PROVE  /\ CellIn(new, g, i).seen
                 /\ CellIn(new, g, i).cell = Taken(CellIn(st, g, i).cell, CellIn(st, g, i).seen, row, k)
      <4>1. Index(row.times[k]) = i
        BY <3>5, IndexOfStep
      <4>2. in /\ at[k] = c /\ k \in DOMAIN at
        BY <2>7, <2>9, <4>1
      <4> HIDE DEF c, in
      <4>3. t.seen[c] /\ t.lanes[c] = Taken(span.lanes[c], span.seen[c], row, k)
        BY <2>10, <4>2
      <4> QED BY <3>2, <3>3, <3>4, <4>2, <4>3
    <3>6. ASSUME \A k \in DOMAIN row.times : row.times[k] # Timestamp(i)
          PROVE  CellIn(new, g, i) = CellIn(st, g, i)
      <4>1. CASE in
        <5>1. c \in 0 .. span.len - 1
          BY <2>8, <4>1
        <5>2. \A k \in DOMAIN at : at[k] # c
          <6> SUFFICES ASSUME NEW k \in DOMAIN at, at[k] = c PROVE FALSE
            OBVIOUS
          <6> DEFINE j == Index(row.times[k])
          <6>1. j \in Nat /\ at[k] = span.start + (j - span.first) /\ row.times[k] = Timestamp(j)
            BY <2>7, <2>9
          <6> HIDE DEF j
          <6>2. j = i
            BY <2>8, <6>1
          <6> QED BY <2>9, <3>6, <6>1, <6>2
        <5> HIDE DEF c, in
        <5>3. t.seen[c] = span.seen[c] /\ t.lanes[c] = span.lanes[c]
          BY <2>10, <5>1, <5>2
        <5> QED BY <3>2, <3>3, <3>4, <5>3
      <4>2. CASE ~in
        <5> HIDE DEF c, in
        <5> QED BY <3>2, <3>3, <3>4, <4>2
      <4> QED BY <4>1, <4>2
    <3> QED BY <2>13, <3>5, <3>6
  <2> QED BY <2>12, <2>13
<1> QED BY <1>2, <1>3

\* A cell that holds more than was merged into it.
Full(cell) == cell.merges < Len(cell.of)

\* Cells that were reached hold something, the others nothing.
Marked(st, n) ==
  \A g \in 1 .. n : \A i \in Nat :
    IF CellIn(st, g, i).seen THEN Full(CellIn(st, g, i).cell) ELSE CellIn(st, g, i).cell = Fresh

\* A row of full cells, each at a time of its own.
SoundRow(row) ==
  /\ \A k \in DOMAIN row.times : Full(row.values[k])
  /\ \A j, k \in DOMAIN row.times : row.times[j] = row.times[k] => j = k

SoundRows == {r \in StateRow : SoundRow(r)}

\* A row of a call as a row of states.
AsStates(r, ks) ==
  [key |-> ks[r.group], times |-> r.times,
   values |-> IF r.partial THEN r.values ELSE [k \in DOMAIN r.times |-> Add(Fresh, r.values[k])]]

\* The cells of a store are cells.
LEMMA CellTyped ==
  ASSUME NEW st, NEW n \in Nat, StoreOK(st, n), NEW g \in 1 .. n, NEW i \in Nat
  PROVE  CellIn(st, g, i).seen \in BOOLEAN /\ CellIn(st, g, i).cell \in Cell
<1> DEFINE v == View(st, g)
<1>1. Good(v.span) /\ v.first \in Nat /\ v.start \in Nat /\ v.len \in Nat
      /\ v.start + v.len <= v.span.len
  BY ViewTyped DEF ViewOK
<1>2. /\ v.span.seen \in [0 .. v.span.len - 1 -> BOOLEAN] /\ v.span.lanes \in [0 .. v.span.len - 1 -> Cell]
      /\ v.span.len \in Nat
  BY <1>1, SpanTyped DEF Good, IsSpan
<1>3. CellIn(st, g, i) = CellOf(v, i)
  BY DEF CellIn
<1> HIDE DEF v
<1>4. CASE v.first <= i /\ i < v.first + v.len
  <2> DEFINE c == v.start + (i - v.first)
             f == v.first
             b == v.start
             l == v.len
             m == v.span.len
  <2>1. f \in Nat /\ b \in Nat /\ l \in Nat /\ m \in Nat /\ b + l <= m /\ f <= i /\ i < f + l
        /\ c = b + (i - f)
    BY <1>1, <1>2, <1>4
  <2>2. CellIn(st, g, i) = [seen |-> v.span.seen[c], cell |-> v.span.lanes[c]]
    BY <1>3, <1>4 DEF CellOf
  <2> HIDE DEF c, f, b, l, m
  <2>3. c \in 0 .. m - 1
    BY <2>1
  <2> QED BY <1>2, <2>2, <2>3 DEF m
<1>5. CASE ~(v.first <= i /\ i < v.first + v.len)
  <2>1. CellIn(st, g, i) = [seen |-> Unseen, cell |-> Fresh]
    BY <1>3, <1>5 DEF CellOf
  <2> QED BY <2>1, FreshTyped DEF Unseen
<1> QED BY <1>4, <1>5

\* What a store may have of a group and a step, and what of it counts.
CellFits(x) ==
  x.cell \in Cell /\ x.seen \in BOOLEAN /\ IF x.seen THEN Full(x.cell) ELSE x.cell = Fresh
Had(x) == IF x.seen THEN x.cell.of ELSE <<>>

\* A sample of a call's row, and the state that would have it.
SampleFits(row, k) ==
  row \in CallRow /\ k \in DOMAIN row.times /\ (row.partial => Full(row.values[k]))
StateIn(row, k) == IF row.partial THEN row.values[k] ELSE Add(Fresh, row.values[k])

\* What a cell takes, it has behind what it had, and it is full.
LEMMA TakenHolds ==
  ASSUME NEW x, CellFits(x), NEW row, NEW k, SampleFits(row, k),
         NEW new, new = Taken(x.cell, x.seen, row, k), NEW state, state = StateIn(row, k)
  PROVE  state \in Cell /\ new.of = Had(x) \o state.of /\ Full(new)
<1> DEFINE cell == x.cell
           seen == x.seen
<1>0. /\ cell \in Cell /\ seen \in BOOLEAN /\ IF seen THEN Full(cell) ELSE cell = Fresh
      /\ row \in CallRow /\ k \in DOMAIN row.times /\ (row.partial => Full(row.values[k]))
      /\ state = IF row.partial THEN row.values[k] ELSE Add(Fresh, row.values[k])
      /\ new = Taken(cell, seen, row, k)
  BY DEF CellFits, SampleFits, StateIn
<1>b. Had(x) = IF seen THEN cell.of ELSE <<>>
  BY DEF Had
<1> HIDE DEF cell, seen
<1> DEFINE v == row.values[k]
<1>1. cell.of \in Seq(Seq(Int)) /\ cell.merges \in Nat /\ Len(cell.of) \in Nat
  BY <1>0 DEF Cell
<1>2. IF row.partial THEN v \in Cell ELSE v \in Seq(Int)
  BY <1>0 DEF CallRow
<1>3. new = IF ~row.partial THEN Add(cell, v) ELSE IF seen THEN Merge(cell, v) ELSE Copied(cell, v)
  BY <1>0 DEF Taken
<1>4. Fresh.of = <<>> /\ Fresh.merges = 0
  BY DEF Fresh
<1> HIDE DEF v
<1>5. CASE row.partial
  <2>1. /\ v.of \in Seq(Seq(Int)) /\ v.merges \in Nat /\ Len(v.of) \in Nat
        /\ v.merges < Len(v.of) /\ state = v /\ state \in Cell
    BY <1>0, <1>2, <1>5 DEF Cell, Full, v
  <2>2. CASE seen
    <3> DEFINE o == cell.of
               y == v.of
               a == cell.merges
               b == v.merges
    <3>1. new.of = o \o y /\ new.merges = a + b + 1
      <4>1. new = Merge(cell, v)
        BY <1>3, <1>5, <2>2
      <4> DEFINE w == o \o y
                 m == a + b + 1
      <4>2. new = [of |-> w, merges |-> m]
        BY <4>1 DEF Merge
      <4> HIDE DEF w, m
      <4>3. new.of = w /\ new.merges = m
        BY <4>2
      <4> QED BY <4>3 DEF w, m
    <3>2. o \in Seq(Seq(Int)) /\ y \in Seq(Seq(Int)) /\ a \in Nat /\ b \in Nat
          /\ a < Len(o) /\ b < Len(y)
      BY <1>0, <1>1, <2>1, <2>2 DEF Full
    <3> HIDE DEF o, y, a, b
    <3>3. Len(o \o y) = Len(o) + Len(y) /\ Len(o) \in Nat /\ Len(y) \in Nat
      BY <3>2
    <3>4. Full(new)
      BY <3>1, <3>2, <3>3 DEF Full
    <3> QED BY <1>b, <2>1, <2>2, <3>1, <3>4 DEF o, y
  <2>3. CASE ~seen
    <3>1. new.of = v.of /\ new.merges = v.merges
      BY <1>1, <1>3, <1>5, <2>3 DEF Copied, Cell
    <3>2. <<>> \o v.of = v.of
      BY <2>1, ConcatEmptySeq
    <3> QED BY <1>b, <2>1, <2>3, <3>1, <3>2 DEF Full
  <2> QED BY <2>2, <2>3
<1>6. CASE ~row.partial
  <2>1. v \in Seq(Int) /\ new = Add(cell, v) /\ state = Add(Fresh, v)
    BY <1>0, <1>2, <1>3, <1>6 DEF v
  <2>2. new.of = Append(cell.of, v) /\ new.merges = cell.merges
    BY <1>0, <2>1 DEF Add, Cell
  <2>3. state.of = Append(<<>>, v) /\ state.merges = 0 /\ state = [of |-> Append(<<>>, v), merges |-> 0]
    BY <2>1 DEF Add, Fresh
  <2>4. Append(<<>>, v) \in Seq(Seq(Int)) /\ Append(<<>>, v) = <<v>>
    BY <2>1
  <2>5. state \in Cell
    <3> DEFINE o == Append(<<>>, v)
    <3>1. o \in Seq(Seq(Int)) /\ state = [of |-> o, merges |-> 0]
      BY <2>3, <2>4
    <3> HIDE DEF o
    <3> QED BY <3>1 DEF Cell
  <2>6. new.of = cell.of \o state.of
    <3> DEFINE Z == Seq(Int)
               o == cell.of
    <3>1. o \in Seq(Z) /\ v \in Z
      BY <1>1, <2>1
    <3> HIDE DEF Z, o
    <3>2. Append(o, v) = o \o <<v>>
      BY <3>1, Ones
    <3> QED BY <2>2, <2>3, <2>4, <3>2 DEF o
  <2>7. ~seen => cell.of = <<>> /\ cell.merges = 0
    BY <1>0, <1>4
  <2>8. Len(new.of) = Len(cell.of) + 1
    BY <1>1, <2>1, <2>2
  <2>9. cell.merges <= Len(cell.of)
    BY <1>0, <1>1, <2>7 DEF Full
  <2>10. Full(new)
    BY <1>1, <2>2, <2>8, <2>9 DEF Full
  <2>11. Had(x) = cell.of
    BY <1>b, <2>7
  <2> QED BY <2>5, <2>6, <2>10, <2>11
<1> QED BY <1>5, <1>6

\* A call's row that has a group, and its states are sound.
RowFits(row, n) ==
  /\ row \in CallRow /\ row.group \in 1 .. n
  /\ row.partial => SoundRow(row)

\* A store that holds what another does, and the row behind it in its group.
Behind(st, new, n, row, ks) ==
  \A g \in 1 .. n : \A t :
    HeldAt(new, g, t) =
      HeldAt(st, g, t) \o (IF g = row.group THEN OfRow(AsStates(row, ks), ks[g], t) ELSE <<>>)

\* A folded row adds what it has to its group, and leaves every cell full or fresh.
LEMMA FoldHolds ==
  ASSUME grid \in Grids, NEW st, NEW n, n \in Nat, StoreOK(st, n), Marked(st, n),
         NEW row, RowFits(row, n), WellFormed(row.times),
         NEW new, new = AddSeries(st, row), NEW ks, ks \in Seq(Nat)
  PROVE  Marked(new, n) /\ Behind(st, new, n, row, ks)
<1> USE DEF RowFits, SoundRow
<1>1. row.times \in Seq(Int) /\ DOMAIN row.times = 1 .. Len(row.times)
  BY DEF CallRow
<1>2. ASSUME NEW g \in 1 .. n, NEW i \in Nat
      PROVE  /\ CellIn(st, g, i).seen \in BOOLEAN /\ CellIn(st, g, i).cell \in Cell
             /\ IF CellIn(st, g, i).seen THEN Full(CellIn(st, g, i).cell) ELSE CellIn(st, g, i).cell = Fresh
  BY CellTyped DEF Marked
<1>3. ASSUME NEW g \in 1 .. n, NEW i \in Nat, NEW k \in DOMAIN row.times,
             g = row.group, row.times[k] = Timestamp(i)
      PROVE  /\ CellIn(new, g, i).seen /\ Full(CellIn(new, g, i).cell)
             /\ CellIn(new, g, i).cell.of =
                  (IF CellIn(st, g, i).seen THEN CellIn(st, g, i).cell.of ELSE <<>>)
                    \o (IF row.partial THEN row.values[k] ELSE Add(Fresh, row.values[k])).of
  <2> DEFINE x == CellIn(st, g, i)
             y == CellIn(new, g, i)
             v == StateIn(row, k)
             z == y.cell
  <2>1. y.seen /\ y.cell = Taken(x.cell, x.seen, row, k)
    BY <1>3, AddHolds
  <2>2. CellFits(x)
    BY <1>2 DEF CellFits
  <2>4. SampleFits(row, k)
    BY DEF SampleFits
  <2>5. z = Taken(x.cell, x.seen, row, k)
    BY <2>1
  <2> HIDE DEF x, y, z, v
  <2>6. z.of = Had(x) \o v.of /\ Full(z)
    BY <2>2, <2>4, <2>5, TakenHolds DEF v
  <2>3. y.cell.of = (IF x.seen THEN x.cell.of ELSE <<>>) \o v.of /\ Full(y.cell)
    BY <2>6 DEF z, Had
  <2> QED BY <2>1, <2>3 DEF x, y, v, StateIn
<1>4. ASSUME NEW g \in 1 .. n, NEW i \in Nat,
             g # row.group \/ \A k \in DOMAIN row.times : row.times[k] # Timestamp(i)
      PROVE  CellIn(new, g, i) = CellIn(st, g, i)
  BY <1>4, AddHolds
<1>5. Marked(new, n)
  <2> SUFFICES ASSUME NEW g \in 1 .. n, NEW i \in Nat
               PROVE  IF CellIn(new, g, i).seen THEN Full(CellIn(new, g, i).cell)
                      ELSE CellIn(new, g, i).cell = Fresh
    BY DEF Marked
  <2>1. CASE g = row.group /\ \E k \in DOMAIN row.times : row.times[k] = Timestamp(i)
    BY <1>3, <2>1
  <2>2. CASE ~(g = row.group /\ \E k \in DOMAIN row.times : row.times[k] = Timestamp(i))
    <3>1. CellIn(new, g, i) = CellIn(st, g, i)
      BY <1>4, <2>2
    <3> QED BY <1>2, <3>1
  <2> QED BY <2>1, <2>2
<1>6. ASSUME NEW g \in 1 .. n, NEW t
      PROVE  HeldAt(new, g, t) =
               HeldAt(st, g, t) \o (IF g = row.group THEN OfRow(AsStates(row, ks), ks[g], t) ELSE <<>>)
  <2>1. HeldAt(st, g, t) \in Seq(Seq(Int))
    <3>1. CASE \E i \in Nat : t = Timestamp(i) /\ CellIn(st, g, i).seen
      <4>1. PICK i \in Nat : t = Timestamp(i) /\ CellIn(st, g, i).seen
        BY <3>1
      <4>2. Index(t) = i
        BY <4>1, IndexOfStep
      <4>3. HeldAt(st, g, t) = CellIn(st, g, i).cell.of
        BY <4>1, <4>2 DEF HeldAt
      <4> QED BY <1>2, <4>3 DEF Cell
    <3>2. CASE ~\E i \in Nat : t = Timestamp(i) /\ CellIn(st, g, i).seen
      <4>1. HeldAt(st, g, t) = <<>>
        BY <3>2 DEF HeldAt
      <4> QED BY <4>1
    <3> QED BY <3>1, <3>2
  <2>2. HeldAt(st, g, t) \o <<>> = HeldAt(st, g, t)
    BY <2>1, ConcatEmptySeq
  <2>3. CASE g # row.group
    <3>1. \A i \in Nat : CellIn(new, g, i) = CellIn(st, g, i)
      BY <1>4, <2>3
    <3>2. HeldAt(new, g, t) = HeldAt(st, g, t)
      BY <3>1, HeldSame
    <3> QED BY <2>2, <2>3, <3>2
  <2> DEFINE srow == AsStates(row, ks)
  <2>4. srow.key = ks[row.group] /\ srow.times = row.times
        /\ srow.values = IF row.partial THEN row.values ELSE [k \in DOMAIN row.times |-> Add(Fresh, row.values[k])]
    BY DEF AsStates
  <2> HIDE DEF srow
  <2>5. CASE g = row.group /\ \E k \in DOMAIN row.times : row.times[k] = t
    <3> DEFINE k == CHOOSE k \in DOMAIN row.times : row.times[k] = t
               v == IF row.partial THEN row.values[k] ELSE Add(Fresh, row.values[k])
    <3>1. k \in DOMAIN row.times /\ row.times[k] = t
      BY <2>5
    <3>2. OfRow(srow, ks[g], t) = srow.values[k].of
      BY <2>4, <2>5 DEF OfRow
    <3> HIDE DEF k
    <3>3. srow.values[k] = v
      BY <2>4, <3>1
    <3>4. PICK i \in 0 .. grid.len - 1 : row.times[k] = Timestamp(i)
      BY <3>1 DEF WellFormed
    <3>5. i \in Nat /\ t = Timestamp(i) /\ Index(t) = i
      BY <3>1, <3>4, IndexOfStep
    <3>6. /\ CellIn(new, g, i).seen
          /\ CellIn(new, g, i).cell.of =
               (IF CellIn(st, g, i).seen THEN CellIn(st, g, i).cell.of ELSE <<>>) \o v.of
      BY <1>3, <2>5, <3>1, <3>4, <3>5
    <3> HIDE DEF v
    <3>7. HeldAt(new, g, t) = CellIn(new, g, i).cell.of
      BY <3>5, <3>6 DEF HeldAt
    <3>8. HeldAt(st, g, t) = IF CellIn(st, g, i).seen THEN CellIn(st, g, i).cell.of ELSE <<>>
      <4>1. \A j \in Nat : t = Timestamp(j) => j = i
        BY <3>5, IndexOfStep
      <4>2. (\E j \in Nat : t = Timestamp(j) /\ CellIn(st, g, j).seen) <=> CellIn(st, g, i).seen
        BY <3>5, <4>1
      <4> QED BY <3>5, <4>2 DEF HeldAt
    <3> QED BY <2>5, <3>2, <3>3, <3>6, <3>7, <3>8 DEF srow
  <2>6. CASE g = row.group /\ ~\E k \in DOMAIN row.times : row.times[k] = t
    <3>1. OfRow(srow, ks[g], t) = <<>>
      BY <2>4, <2>6 DEF OfRow
    <3>2. ASSUME NEW i \in Nat, t = Timestamp(i) PROVE CellIn(new, g, i) = CellIn(st, g, i)
      BY <1>4, <2>6, <3>2
    <3>3. HeldAt(new, g, t) = HeldAt(st, g, t)
      <4>1. CASE \E i \in Nat : t = Timestamp(i)
        <5>1. PICK i \in Nat : t = Timestamp(i)
          BY <4>1
        <5>2. Index(t) = i /\ \A j \in Nat : t = Timestamp(j) => j = i
          BY <5>1, IndexOfStep
        <5>3. CellIn(new, g, i) = CellIn(st, g, i)
          BY <3>2, <5>1
        <5>4. (\E j \in Nat : t = Timestamp(j) /\ CellIn(st, g, j).seen)
                <=> (\E j \in Nat : t = Timestamp(j) /\ CellIn(new, g, j).seen)
          BY <5>1, <5>2, <5>3
        <5> QED BY <5>2, <5>3, <5>4 DEF HeldAt
      <4>2. CASE ~\E i \in Nat : t = Timestamp(i)
        BY <4>2 DEF HeldAt
      <4> QED BY <4>1, <4>2
    <3> QED BY <2>2, <2>6, <3>1, <3>3 DEF srow
  <2> QED BY <2>3, <2>5, <2>6
<1> QED BY <1>5, <1>6 DEF Behind

\* The row a group leaves in is sound.
LEMMA ListRowSound ==
  ASSUME grid \in Grids, NEW st, NEW n \in Nat, StoreOK(st, n), Marked(st, n),
         NEW g \in 1 .. n, NEW key, NEW row, row = ListRow(st, g, key)
  PROVE  SoundRow(row)
<1>1. ViewOK(View(st, g))
  BY ViewTyped
<1>2. \A k \in DOMAIN row.times : \E i \in Nat :
        row.times[k] = Timestamp(i) /\ CellIn(st, g, i).seen /\ row.values[k] = CellIn(st, g, i).cell
  BY <1>1, ListRowHolds
<1>3. \A k \in DOMAIN row.times : Full(row.values[k])
  BY <1>2 DEF Marked
<1> DEFINE v == View(st, g)
           kept == Kept(v)
           S == {s \in 0 .. v.len - 1 : v.span.seen[v.start + s]}
           Rank(m) == Cardinality({e \in S : e < m})
<1>4. row.times = [k \in DOMAIN kept |-> Timestamp(v.first + kept[k])]
  BY DEF ListRow
<1>5. kept = [k \in 1 .. Cardinality(S) |-> CHOOSE s \in S : Rank(s) = k - 1]
  BY Zenon DEF Kept
<1>6. v.len \in Nat /\ v.first \in Nat
  BY <1>1 DEF ViewOK
<1>7. S \in SUBSET (0 .. v.len - 1)
  OBVIOUS
<1>8. Cardinality(S) \in Nat /\ \A k \in 1 .. Cardinality(S) : \E s \in S : Rank(s) = k - 1
  <2> HIDE DEF S
  <2> QED BY <1>6, <1>7, RankedNumbers
<1>9. \A s \in S : s \in Nat
  BY <1>7
<1> HIDE DEF kept, S, Rank, v
<1>10. ASSUME NEW j \in DOMAIN row.times, NEW k \in DOMAIN row.times, row.times[j] = row.times[k]
       PROVE  j = k
  <2>1. /\ j \in 1 .. Cardinality(S) /\ k \in 1 .. Cardinality(S)
        /\ row.times[j] = Timestamp(v.first + kept[j]) /\ row.times[k] = Timestamp(v.first + kept[k])
    BY <1>4, <1>5, <1>10
  <2>2. kept[j] \in S /\ Rank(kept[j]) = j - 1 /\ kept[k] \in S /\ Rank(kept[k]) = k - 1
    BY <1>5, <1>8, <2>1
  <2> DEFINE x == kept[j]
             y == kept[k]
  <2>3. x \in Nat /\ y \in Nat
    BY <1>9, <2>2
  <2> HIDE DEF x, y
  <2>4. v.first + x = v.first + y
    <3>1. v.first + x \in Nat /\ v.first + y \in Nat
      BY <1>6, <2>3
    <3>2. Index(Timestamp(v.first + x)) = v.first + x /\ Index(Timestamp(v.first + y)) = v.first + y
      BY <3>1, IndexOfStep
    <3>3. Timestamp(v.first + x) = Timestamp(v.first + y)
      BY <1>10, <2>1 DEF x, y
    <3> QED BY <3>2, <3>3
  <2>5. x = y
    BY <1>6, <2>3, <2>4
  <2>6. j \in Nat /\ k \in Nat
    BY <1>8, <2>1
  <2> QED BY <2>2, <2>5, <2>6 DEF x, y
<1> QED BY <1>3, <1>10 DEF SoundRow

-----------------------------------------------------------------------------
\* What rows of states hold of a group and a time, row by row.
Out(c, t) == [r \in StateRow |-> OfRow(r, c, t)]

\* No key has two groups.
Distinct(ks) == \A g, h \in DOMAIN ks : ks[g] = ks[h] => g = h

\* Keys that continue others.
Continues(ks, more) ==
  /\ more \in Seq(Nat) /\ Distinct(more) /\ Len(ks) <= Len(more)
  /\ \A g \in DOMAIN ks : more[g] = ks[g]

\* What is left of keys when the first have gone.
After(ks, k) == SubSeq(ks, k + 1, Len(ks))

\* The first groups of a store as rows.
FirstRows(st, ks, k) == [g \in 1 .. k |-> ListRow(st, g, ks[g])]

\* All groups of a store as rows.
StoredRows(st, ks) == [g \in 1 .. Len(ks) |-> ListRow(st, g, ks[g])]

\* A store and its groups.
Stocked(st, ks) ==
  /\ grid \in Grids /\ ks \in Seq(Nat) /\ Distinct(ks)
  /\ StoreOK(st, Len(ks)) /\ Marked(st, Len(ks))

\* A row holds contributions.
LEMMA OutTyped ==
  ASSUME NEW c, NEW t
  PROVE  /\ Spreads(Out(c, t), StateRow, Seq(Int))
         /\ \A r \in StateRow : Out(c, t)[r] = OfRow(r, c, t) /\ OfRow(r, c, t) \in Seq(Seq(Int))
<1>1. ASSUME NEW r \in StateRow PROVE OfRow(r, c, t) \in Seq(Seq(Int))
  <2>1. CASE r.key = c /\ \E k \in DOMAIN r.times : r.times[k] = t
    <3> DEFINE k == CHOOSE k \in DOMAIN r.times : r.times[k] = t
    <3>1. k \in DOMAIN r.times
      BY <2>1
    <3>2. OfRow(r, c, t) = r.values[k].of
      BY <2>1 DEF OfRow
    <3> HIDE DEF k
    <3>3. r.values \in Seq(Cell) /\ k \in DOMAIN r.values
      BY <3>1 DEF StateRow
    <3>4. r.values[k] \in Cell
      BY <3>3
    <3> QED BY <3>2, <3>4 DEF Cell
  <2>2. CASE ~(r.key = c /\ \E k \in DOMAIN r.times : r.times[k] = t)
    <3>1. OfRow(r, c, t) = <<>>
      BY <2>2 DEF OfRow
    <3> QED BY <3>1
  <2> QED BY <2>1, <2>2
<1>2. \A r \in StateRow : Out(c, t)[r] = OfRow(r, c, t)
  BY DEF Out
<1> DEFINE Z == Seq(Seq(Int))
<1>3. Out(c, t) \in [StateRow -> Z]
  <2>1. \A r \in StateRow : OfRow(r, c, t) \in Z
    BY <1>1
  <2> HIDE DEF Z
  <2> QED BY <2>1 DEF Out
<1> QED BY <1>1, <1>2, <1>3 DEF Spreads

\* The rows of a store.
Listed(st, ks, rows) ==
  /\ rows \in Seq(StateRow) /\ Len(rows) = Len(ks) /\ DOMAIN rows = DOMAIN ks
  /\ \A g \in DOMAIN ks : rows[g] = ListRow(st, g, ks[g]) /\ SoundRow(rows[g])

\* What each of them has of a key and a time.
Holding(st, ks, c, t, rows) ==
  \A g \in DOMAIN ks : Out(c, t)[rows[g]] = IF ks[g] = c THEN HeldAt(st, g, t) ELSE <<>>

\* The groups of a store are rows, and each has of a time what the store has.
LEMMA StoredTyped ==
  ASSUME NEW st, NEW ks, Stocked(st, ks), NEW c \in Nat, NEW t \in Int, NEW rows, rows = StoredRows(st, ks)
  PROVE  Listed(st, ks, rows) /\ Holding(st, ks, c, t, rows)
<1>1. /\ grid \in Grids /\ ks \in Seq(Nat) /\ StoreOK(st, Len(ks)) /\ Marked(st, Len(ks))
      /\ Len(ks) \in Nat /\ DOMAIN ks = 1 .. Len(ks) /\ \A g \in DOMAIN ks : ks[g] \in Nat
  BY DEF Stocked
<1>2. DOMAIN rows = 1 .. Len(ks) /\ \A g \in 1 .. Len(ks) : rows[g] = ListRow(st, g, ks[g])
  BY DEF StoredRows
<1>3. ASSUME NEW g \in 1 .. Len(ks)
      PROVE  /\ rows[g] \in StateRow /\ SoundRow(rows[g])
             /\ Out(c, t)[rows[g]] = IF ks[g] = c THEN HeldAt(st, g, t) ELSE <<>>
  <2> DEFINE n == Len(ks)
             key == ks[g]
             row == rows[g]
  <2>1. n \in Nat /\ StoreOK(st, n) /\ g \in 1 .. n /\ key \in Nat /\ row = ListRow(st, g, key)
        /\ Marked(st, n)
    BY <1>1, <1>2
  <2> HIDE DEF n, key, row
  <2>2. row \in StateRow /\ SoundRow(row) /\ ViewOK(View(st, g))
    BY <1>1, <2>1, EmittedTyped, ListRowSound, ViewTyped
  <2>3. OfRow(row, c, t) = IF key = c THEN HeldAt(st, g, t) ELSE <<>>
    BY <1>1, <2>1, <2>2, ListedIs
  <2>4. Out(c, t)[row] = OfRow(row, c, t)
    BY <2>2, OutTyped
  <2> QED BY <2>2, <2>3, <2>4 DEF key, row
<1>4. rows \in Seq(StateRow) /\ Len(rows) = Len(ks)
  <2> DEFINE n == Len(ks)
  <2>1. n \in Nat /\ rows = [g \in 1 .. n |-> rows[g]] /\ \A g \in 1 .. n : rows[g] \in StateRow
    BY <1>1, <1>2, <1>3 DEF StoredRows
  <2> HIDE DEF n
  <2>2. rows \in [1 .. n -> StateRow]
    BY <2>1
  <2>3. rows \in Seq(StateRow) /\ Len(rows) = n
    BY <2>1, <2>2
  <2> QED BY <2>3 DEF n
<1> QED BY <1>1, <1>2, <1>3, <1>4 DEF Listed, Holding

\* What a store has of a key and a time is what the key's group has.
LEMMA StoredHolds ==
  ASSUME NEW st, NEW ks, Stocked(st, ks), NEW c \in Nat, NEW t \in Int
  PROVE  /\ \A g \in DOMAIN ks : ks[g] = c => Spread(Out(c, t), StoredRows(st, ks)) = HeldAt(st, g, t)
         /\ (\A g \in DOMAIN ks : ks[g] # c) => Spread(Out(c, t), StoredRows(st, ks)) = <<>>
<1> DEFINE rows == StoredRows(st, ks)
           F == Out(c, t)
           X == Seq(Int)
<1>0. Listed(st, ks, rows) /\ Holding(st, ks, c, t, rows)
  BY StoredTyped
<1>1. /\ rows \in Seq(StateRow) /\ Len(rows) = Len(ks) /\ DOMAIN rows = DOMAIN ks
      /\ \A g \in DOMAIN ks : F[rows[g]] = IF ks[g] = c THEN HeldAt(st, g, t) ELSE <<>>
  <2> HIDE DEF rows
  <2> QED BY <1>0 DEF Listed, Holding
<1>2. Spreads(F, StateRow, X)
  BY OutTyped
<1>3. DOMAIN ks = 1 .. Len(ks) /\ \A g, h \in DOMAIN ks : ks[g] = ks[h] => g = h
  BY DEF Stocked, Distinct
<1> HIDE DEF rows, F, X
<1>4. ASSUME NEW g \in DOMAIN ks, ks[g] = c PROVE Spread(F, rows) = HeldAt(st, g, t)
  <2>1. \A n \in 1 .. Len(rows) : n # g => F[rows[n]] = <<>>
    BY <1>1, <1>3, <1>4
  <2>2. g \in 1 .. Len(rows) /\ F[rows[g]] = HeldAt(st, g, t)
    BY <1>1, <1>3, <1>4
  <2> QED BY <1>1, <1>2, <2>1, <2>2, SpreadOnly
<1>5. ASSUME \A g \in DOMAIN ks : ks[g] # c PROVE Spread(F, rows) = <<>>
  <2>1. \A n \in DOMAIN rows : F[rows[n]] = <<>>
    BY <1>1, <1>5
  <2> QED BY <1>1, <1>2, <2>1, SpreadTrivial
<1> QED BY <1>4, <1>5 DEF rows, F

\* A folded row is behind what its group had.
LEMMA StoredFolds ==
  ASSUME NEW st, NEW ks, Stocked(st, ks), NEW row, RowFits(row, Len(ks)), WellFormed(row.times),
         NEW new, new = AddSeries(st, row), NEW c \in Nat, NEW t \in Int
  PROVE  /\ Stocked(new, ks)
         /\ Joined(Spread(Out(c, t), StoredRows(new, ks)),
                   Spread(Out(c, t), StoredRows(st, ks)), OfRow(AsStates(row, ks), c, t))
<1> DEFINE n == Len(ks)
           own == row.group
           add == OfRow(AsStates(row, ks), c, t)
<1>1. /\ grid \in Grids /\ ks \in Seq(Nat) /\ StoreOK(st, n) /\ Marked(st, n)
      /\ n \in Nat /\ DOMAIN ks = 1 .. n /\ Distinct(ks) /\ RowFits(row, n)
  BY DEF Stocked
<1> HIDE DEF n
<1>a. row.group \in 1 .. n /\ row \in CallRow /\ own \in 1 .. n
  BY <1>1 DEF RowFits
<1>2. /\ Marked(new, n)
      /\ \A g \in 1 .. n : \A u :
           HeldAt(new, g, u) =
             HeldAt(st, g, u) \o (IF g = row.group THEN OfRow(AsStates(row, ks), ks[g], u) ELSE <<>>)
  <2>1. Marked(new, n) /\ Behind(st, new, n, row, ks)
    BY <1>1, FoldHolds
  <2> QED BY <2>1 DEF Behind
<1>3. StoreOK(new, n)
  <2>1. Acceptable(st, row)
    BY <1>1, <1>a, AcceptableExact
  <2> QED BY <1>1, <1>a, <2>1, AddSeriesOK
<1>4. Stocked(new, ks)
  BY <1>1, <1>2, <1>3 DEF Stocked, n
<1>5. Spread(Out(c, t), StoredRows(st, ks)) \in Seq(Seq(Int))
  <2> DEFINE rows == StoredRows(st, ks)
             X == Seq(Int)
             F == Out(c, t)
  <2>0. Listed(st, ks, rows)
    BY StoredTyped
  <2>1. rows \in Seq(StateRow) /\ Spreads(F, StateRow, X)
    BY <2>0, OutTyped DEF Listed
  <2> HIDE DEF rows, X, F
  <2>2. Spread(F, rows) \in Seq(X)
    BY <2>1, SpreadType
  <2> QED BY <2>2 DEF rows, X, F
<1>6. ks[own] # c => add = <<>>
  BY DEF OfRow, AsStates
<1>7. CASE \E g \in 1 .. n : ks[g] = c
  <2>1. PICK g \in 1 .. n : ks[g] = c
    BY <1>7
  <2>2. /\ Spread(Out(c, t), StoredRows(st, ks)) = HeldAt(st, g, t)
        /\ Spread(Out(c, t), StoredRows(new, ks)) = HeldAt(new, g, t)
    BY <1>1, <1>4, <2>1, StoredHolds
  <2>3. HeldAt(new, g, t) = HeldAt(st, g, t) \o (IF g = own THEN add ELSE <<>>)
    BY <1>2, <2>1
  <2>4. g # own => add = <<>>
    BY <1>1, <1>a, <1>6, <2>1 DEF Distinct
  <2> HIDE DEF add
  <2> QED BY <1>4, <2>2, <2>3, <2>4 DEF add, Joined
<1>8. CASE ~\E g \in 1 .. n : ks[g] = c
  <2>1. /\ Spread(Out(c, t), StoredRows(st, ks)) = <<>>
        /\ Spread(Out(c, t), StoredRows(new, ks)) = <<>>
    BY <1>1, <1>4, <1>8, StoredHolds
  <2>2. add = <<>>
    BY <1>a, <1>6, <1>8
  <2>3. <<>> \o <<>> = <<>>
    OBVIOUS
  <2> HIDE DEF add
  <2> QED BY <1>4, <2>1, <2>2, <2>3 DEF add, Joined
<1> QED BY <1>7, <1>8

\* Groups made room for hold nothing yet, and the others what they had.
LEMMA StoredGrows ==
  ASSUME NEW st, NEW ks, Stocked(st, ks), NEW more, Continues(ks, more),
         NEW new, new = Grow(st, Len(more)), NEW c \in Nat, NEW t \in Int
  PROVE  /\ Stocked(new, more)
         /\ Spread(Out(c, t), StoredRows(new, more)) = Spread(Out(c, t), StoredRows(st, ks))
<1> DEFINE n == Len(ks)
           m == Len(more)
<1>1. /\ grid \in Grids /\ ks \in Seq(Nat) /\ StoreOK(st, n) /\ Marked(st, n)
      /\ n \in Nat /\ DOMAIN ks = 1 .. n /\ m \in Nat /\ DOMAIN more = 1 .. m /\ n <= m
      /\ Distinct(ks) /\ more \in Seq(Nat) /\ Distinct(more)
      /\ \A g \in DOMAIN ks : more[g] = ks[g]
  BY DEF Stocked, Continues
<1> HIDE DEF n, m
<1>2. /\ \A g \in 1 .. n : \A i \in Nat : CellIn(new, g, i) = CellIn(st, g, i)
      /\ \A g \in n + 1 .. m : \A i \in Nat : ~CellIn(new, g, i).seen /\ CellIn(new, g, i).cell = Fresh
  BY <1>1, GrowHolds DEF m
<1>3. StoreOK(new, m)
  BY <1>1, GrowOK DEF m
<1>a. \A g \in 1 .. m : g \in 1 .. n \/ g \in n + 1 .. m
  BY <1>1
<1>4. Marked(new, m)
  <2> SUFFICES ASSUME NEW g \in 1 .. m, NEW i \in Nat
               PROVE  IF CellIn(new, g, i).seen THEN Full(CellIn(new, g, i).cell)
                      ELSE CellIn(new, g, i).cell = Fresh
    BY DEF Marked
  <2>1. CASE g \in 1 .. n
    BY <1>1, <1>2, <2>1 DEF Marked
  <2>2. CASE g \in n + 1 .. m
    BY <1>2, <2>2
  <2> QED BY <1>a, <2>1, <2>2
<1>5. Stocked(new, more)
  BY <1>1, <1>3, <1>4 DEF Stocked, m
<1>6. CASE \E g \in 1 .. m : more[g] = c
  <2>1. PICK g \in 1 .. m : more[g] = c
    BY <1>6
  <2>2. Spread(Out(c, t), StoredRows(new, more)) = HeldAt(new, g, t)
    BY <1>1, <1>5, <2>1, StoredHolds
  <2>3. CASE g \in 1 .. n
    <3>1. Spread(Out(c, t), StoredRows(st, ks)) = HeldAt(st, g, t)
      <4>1. g \in DOMAIN ks /\ ks[g] = c
        BY <1>1, <2>1, <2>3
      <4> QED BY <4>1, StoredHolds
    <3>2. HeldAt(new, g, t) = HeldAt(st, g, t)
      BY <1>1, <1>2, <2>3, HeldSame
    <3> QED BY <1>5, <2>2, <3>1, <3>2
  <2>4. CASE g \in n + 1 .. m
    <3>1. HeldAt(new, g, t) = <<>>
      BY <1>2, <2>4, HeldNot
    <3>2. \A h \in DOMAIN ks : ks[h] # c
      <4> TAKE h \in DOMAIN ks
      <4>1. h \in 1 .. m /\ h # g /\ more[h] = ks[h]
        BY <1>1, <2>4
      <4> QED BY <1>1, <2>1, <4>1 DEF Distinct
    <3>3. Spread(Out(c, t), StoredRows(st, ks)) = <<>>
      BY <3>2, StoredHolds
    <3> QED BY <1>5, <2>2, <3>1, <3>3
  <2> QED BY <1>a, <2>1, <2>3, <2>4
<1>7. CASE ~\E g \in 1 .. m : more[g] = c
  <2>1. \A h \in DOMAIN ks : ks[h] # c
    <3> TAKE h \in DOMAIN ks
    <3>1. h \in 1 .. m /\ more[h] = ks[h]
      BY <1>1
    <3> QED BY <1>7, <3>1
  <2>2. Spread(Out(c, t), StoredRows(st, ks)) = <<>> /\ Spread(Out(c, t), StoredRows(new, more)) = <<>>
    BY <1>1, <1>5, <1>7, <2>1, StoredHolds
  <2> QED BY <1>5, <2>2
<1> QED BY <1>6, <1>7

\* What a store had is what leaves and what stays.
LEMMA StoredDrains ==
  ASSUME NEW st, NEW ks, Stocked(st, ks), NEW k \in 1 .. Len(ks),
         NEW new, new = Release(st, k), NEW rest, rest = After(ks, k),
         NEW out, out = FirstRows(st, ks, k), NEW c \in Nat, NEW t \in Int
  PROVE  /\ Stocked(new, rest) /\ out \in Seq(SoundRows)
         /\ Joined(Spread(Out(c, t), StoredRows(st, ks)),
                   Spread(Out(c, t), out), Spread(Out(c, t), StoredRows(new, rest)))
<1> DEFINE n == Len(ks)
           rows == StoredRows(st, ks)
           F == Out(c, t)
           X == Seq(Int)
           tail == StoredRows(new, rest)
           last == SubSeq(rows, k + 1, Len(rows))
<1>b. rows = StoredRows(st, ks) /\ tail = StoredRows(new, rest)
  OBVIOUS
<1> HIDE DEF rows, tail, F, X
<1>1. /\ grid \in Grids /\ ks \in Seq(Nat) /\ StoreOK(st, n) /\ Marked(st, n)
      /\ n \in Nat /\ DOMAIN ks = 1 .. n /\ Distinct(ks) /\ k \in 1 .. n
  BY DEF Stocked
<1>2. rest \in Seq(Nat) /\ Len(rest) = n - k /\ DOMAIN rest = 1 .. n - k
      /\ \A g \in 1 .. n - k : rest[g] = ks[g + k]
  <2>1. k \in 0 .. Len(ks)
    BY <1>1
  <2> DEFINE a == SubSeq(ks, 1, k)
  <2>2. Parts(Nat, ks, k, a, rest)
    BY <1>1, <2>1, Parted DEF After
  <2> HIDE DEF a
  <2> QED BY <2>2 DEF Parts
<1> HIDE DEF n
<1>3. \A g \in 1 .. n - k : \A i \in Nat : CellIn(new, g, i) = CellIn(st, g + k, i)
  BY <1>1, ReleaseHolds
<1>4. StoreOK(new, n - k)
  BY <1>1, ReleaseOK
<1>5. \A g \in 1 .. n - k : g + k \in 1 .. n
  BY <1>1
<1>6. Marked(new, n - k)
  BY <1>1, <1>3, <1>5 DEF Marked
<1>7. Distinct(rest)
  <2> SUFFICES ASSUME NEW g \in DOMAIN rest, NEW h \in DOMAIN rest, rest[g] = rest[h] PROVE g = h
    BY DEF Distinct
  <2>1. ks[g + k] = ks[h + k] /\ g + k \in 1 .. n /\ h + k \in 1 .. n
    BY <1>2, <1>5
  <2>2. g + k = h + k
    BY <1>1, <2>1 DEF Distinct
  <2> QED BY <1>1, <1>2, <2>2
<1>8. Stocked(new, rest)
  BY <1>1, <1>2, <1>4, <1>6, <1>7 DEF Stocked
<1>9. /\ rows \in Seq(StateRow) /\ Len(rows) = n /\ DOMAIN rows = DOMAIN ks
      /\ \A g \in DOMAIN ks : F[rows[g]] = IF ks[g] = c THEN HeldAt(st, g, t) ELSE <<>>
      /\ \A g \in DOMAIN ks : rows[g] = ListRow(st, g, ks[g]) /\ SoundRow(rows[g])
  <2>1. /\ rows \in Seq(StateRow) /\ Len(rows) = Len(ks) /\ DOMAIN rows = DOMAIN ks
        /\ \A g \in DOMAIN ks : Out(c, t)[rows[g]] = IF ks[g] = c THEN HeldAt(st, g, t) ELSE <<>>
        /\ \A g \in DOMAIN ks : rows[g] = ListRow(st, g, ks[g]) /\ SoundRow(rows[g])
    <3>1. Listed(st, ks, rows) /\ Holding(st, ks, c, t, rows)
      BY <1>b, StoredTyped
    <3> QED BY <3>1 DEF Listed, Holding
  <2> QED BY <2>1 DEF n, F
<1>10. /\ tail \in Seq(StateRow) /\ Len(tail) = n - k /\ DOMAIN tail = DOMAIN rest
       /\ \A g \in DOMAIN rest : F[tail[g]] = IF rest[g] = c THEN HeldAt(new, g, t) ELSE <<>>
  <2>1. /\ tail \in Seq(StateRow) /\ Len(tail) = Len(rest) /\ DOMAIN tail = DOMAIN rest
        /\ \A g \in DOMAIN rest : Out(c, t)[tail[g]] = IF rest[g] = c THEN HeldAt(new, g, t) ELSE <<>>
    <3>1. Listed(new, rest, tail) /\ Holding(new, rest, c, t, tail)
      BY <1>b, <1>8, StoredTyped
    <3> QED BY <3>1 DEF Listed, Holding
  <2> QED BY <1>2, <2>1 DEF F
<1> DEFINE first == SubSeq(rows, 1, k)
<1>a. k \in 0 .. Len(rows)
  BY <1>1, <1>9
<1>11. /\ first \in Seq(StateRow) /\ Len(first) = k /\ DOMAIN first = 1 .. k
       /\ \A g \in 1 .. k : first[g] = rows[g]
       /\ last \in Seq(StateRow) /\ DOMAIN last = 1 .. Len(rows) - k
       /\ \A g \in 1 .. Len(rows) - k : last[g] = rows[g + k]
       /\ rows = first \o last
  <2>1. Parts(StateRow, rows, k, first, last)
    BY <1>9, <1>a, Parted
  <2> HIDE DEF first, last
  <2> QED BY <2>1 DEF Parts
<1>12. out = first
  <2>1. \A g \in 1 .. k : first[g] = ListRow(st, g, ks[g])
    <3> HIDE DEF first
    <3> TAKE g \in 1 .. k
    <3>1. first[g] = rows[g]
      BY <1>11
    <3>2. g \in DOMAIN ks
      BY <1>1
    <3> QED BY <1>9, <3>1, <3>2
  <2>2. first = [g \in 1 .. k |-> first[g]]
    BY <1>11
  <2> HIDE DEF first
  <2> QED BY <2>1, <2>2 DEF FirstRows
<1> HIDE DEF first, last
<1>13. out \in Seq(StateRow) /\ DOMAIN out = 1 .. k /\ \A g \in 1 .. k : out[g] = rows[g]
  BY <1>11, <1>12
<1>14. DOMAIN last = 1 .. n - k /\ \A g \in 1 .. n - k : last[g] = rows[g + k]
  BY <1>9, <1>11
<1>15. Spreads(F, StateRow, X)
  BY OutTyped DEF F, X
<1>16. Spread(F, rows) = Spread(F, out) \o Spread(F, last)
  <2> DEFINE Y == StateRow
  <2>4. Spreads(F, Y, X)
    BY <1>15
  <2>1. last \in Seq(StateRow) /\ rows = out \o last
    BY <1>11, <1>12
  <2>2. out \in Seq(StateRow) /\ last \in Seq(StateRow)
    BY <1>13, <2>1
  <2> HIDE DEF Y
  <2>5. out \in Seq(Y) /\ last \in Seq(Y)
    BY <2>2 DEF Y
  <2>6. PICK o : o = out
    OBVIOUS
  <2>7. o \in Seq(Y) /\ last \in Seq(Y)
    BY <2>5, <2>6
  <2>8. Spread(F, o \o last) = Spread(F, o) \o Spread(F, last)
    BY <2>4, <2>7, SpreadConcat
  <2>3. Spread(F, out \o last) = Spread(F, out) \o Spread(F, last)
    BY <2>6, <2>8
  <2> QED BY <2>1, <2>3
<1>17. Spread(F, last) = Spread(F, tail)
  <2>1. ASSUME NEW g \in 1 .. n - k PROVE F[last[g]] = F[tail[g]]
    <3>1. g + k \in DOMAIN ks /\ g \in DOMAIN rest /\ rest[g] = ks[g + k] /\ last[g] = rows[g + k]
      BY <1>1, <1>2, <1>5, <1>14
    <3>2. HeldAt(new, g, t) = HeldAt(st, g + k, t)
      BY <1>1, <1>3, HeldSame
    <3> QED BY <1>9, <1>10, <3>1, <3>2
  <2>2. DOMAIN last = DOMAIN tail /\ \A g \in DOMAIN last : F[last[g]] = F[tail[g]]
    BY <1>2, <1>10, <1>14, <2>1
  <2> QED BY <2>2, SpreadSame
<1>18. out \in Seq(SoundRows)
  <2>1. k \in Nat /\ DOMAIN out = 1 .. k /\ \A g \in 1 .. k : g \in DOMAIN ks
    BY <1>1, <1>13
  <2>2. \A g \in 1 .. k : out[g] \in SoundRows
    <3> TAKE g \in 1 .. k
    <3>1. out[g] \in StateRow
      BY <1>13, <2>1
    <3>2. SoundRow(out[g])
      BY <1>9, <1>13, <2>1
    <3> QED BY <3>1, <3>2 DEF SoundRows
  <2>3. out = [g \in 1 .. k |-> out[g]]
    BY <1>13, <2>1 DEF FirstRows
  <2>4. out \in [1 .. k -> SoundRows]
    BY <2>2, <2>3
  <2> QED BY <2>1, <2>4
<1> QED BY <1>8, <1>16, <1>17, <1>18 DEF F, rows, tail, Joined

-----------------------------------------------------------------------------
\* Keys that follow known ones, none twice, one for each row.
Follow(known, new, s) ==
  /\ Continues(known, new)
  /\ \A n \in DOMAIN s : GroupOf(new, s[n].key) \in DOMAIN new /\ new[GroupOf(new, s[n].key)] = s[n].key

\* Keys after one more row: the groups there were, and one for the row.
OneMore(ks, r, new) ==
  /\ new \in Seq(Nat) /\ Distinct(new) /\ Len(ks) <= Len(new)
  /\ \A g \in DOMAIN ks : g \in DOMAIN new /\ new[g] = ks[g]
  /\ \E g \in DOMAIN new : new[g] = r.key

\* One more row keeps the groups there are and has a group.
LEMMA InternedOne ==
  ASSUME NEW ks, ks \in Seq(Nat), Distinct(ks), NEW r, r.key \in Nat, NEW new, new = InternedWith(ks, r)
  PROVE  OneMore(ks, r, new)
<1>0. Len(ks) \in Nat /\ DOMAIN ks = 1 .. Len(ks)
  OBVIOUS
<1>1. CASE r.key \in ToSet(ks)
  <2>1. new = ks
    BY <1>1 DEF InternedWith
  <2>2. \E g \in DOMAIN ks : ks[g] = r.key
    BY <1>1 DEF ToSet
  <2> QED BY <1>0, <2>1, <2>2 DEF OneMore
<1>2. CASE r.key \notin ToSet(ks)
  <2>1. new = Append(ks, r.key)
    BY <1>2 DEF InternedWith
  <2>2. new \in Seq(Nat) /\ Len(new) = Len(ks) + 1 /\ new[Len(ks) + 1] = r.key
        /\ DOMAIN new = 1 .. Len(ks) + 1 /\ \A g \in 1 .. Len(ks) : new[g] = ks[g]
    BY <2>1
  <2>3. \A g \in DOMAIN ks : ks[g] # r.key
    BY <1>2 DEF ToSet
  <2>4. Distinct(new)
    <3> SUFFICES ASSUME NEW g \in DOMAIN new, NEW h \in DOMAIN new, new[g] = new[h] PROVE g = h
      BY DEF Distinct
    <3>1. (g \in 1 .. Len(ks) \/ g = Len(ks) + 1) /\ (h \in 1 .. Len(ks) \/ h = Len(ks) + 1)
      BY <1>0, <2>2
    <3>2. CASE g \in 1 .. Len(ks) /\ h \in 1 .. Len(ks)
      BY <1>0, <2>2, <3>2 DEF Distinct
    <3>3. CASE g \in 1 .. Len(ks) /\ h = Len(ks) + 1
      BY <1>0, <2>2, <2>3, <3>3
    <3>4. CASE h \in 1 .. Len(ks) /\ g = Len(ks) + 1
      BY <1>0, <2>2, <2>3, <3>4
    <3> QED BY <3>1, <3>2, <3>3, <3>4
  <2> QED BY <1>0, <2>2, <2>4 DEF OneMore
<1> QED BY <1>1, <1>2

\* The groups of a batch follow the known ones.
LEMMA InternedFollow ==
  ASSUME NEW R, \A r \in R : r.key \in Nat, NEW known, known \in Seq(Nat), Distinct(known),
         NEW s, s \in Seq(R), NEW new, new = Interned(known, s)
  PROVE  Follow(known, new, s)
<1>1. PICK I : FoldsAlong(Interning(R), known, s, I) /\ I[Len(s)] = new
               /\ I \in [0 .. Len(s) -> Seq(Nat)]
  BY InternedFolds DEF FoldsTo, GroupKeys
<1>2. Len(s) \in Nat /\ DOMAIN s = 1 .. Len(s) /\ \A n \in 1 .. Len(s) : s[n] \in R
  OBVIOUS
<1>3. I[0] = known /\ \A k \in 0 .. Len(s) - 1 : I[k + 1] = InternedWith(I[k], s[k + 1])
  <2>1. I[0] = known
    BY <1>1 DEF FoldsAlong
  <2>2. ASSUME NEW k \in 0 .. Len(s) - 1 PROVE I[k + 1] = InternedWith(I[k], s[k + 1])
    <3>1. I[k + 1] = Interning(R)[<<I[k], s[k + 1]>>]
      BY <1>1 DEF FoldsAlong
    <3>2. I[k] \in Seq(Nat) /\ s[k + 1] \in R
      <4>1. k \in 0 .. Len(s) /\ k + 1 \in 1 .. Len(s)
        BY <1>2
      <4> QED BY <1>1, <1>2, <4>1
    <3> QED BY <3>1, <3>2 DEF Interning, GroupKeys
  <2> QED BY <2>1, <2>2
<1> DEFINE Knows(ks, key) == \E g \in DOMAIN ks : ks[g] = key
           Ext(k) == /\ I[k] \in Seq(Nat) /\ Distinct(I[k]) /\ Len(known) <= Len(I[k])
                     /\ \A g \in DOMAIN known : g \in DOMAIN I[k] /\ I[k][g] = known[g]
                     /\ \A n \in 1 .. k : Knows(I[k], s[n].key)
           S == {k \in 0 .. Len(s) : Ext(k)}
<1>4. \A k : k \in S <=> k \in 0 .. Len(s) /\ Ext(k)
  OBVIOUS
<1> HIDE DEF S
<1>5. 0 \in S
  <2>1. Ext(0)
    BY <1>3
  <2> HIDE DEF Ext
  <2> QED BY <1>2, <1>4, <2>1
<1>6. \A k \in 0 .. Len(s) - 1 : k \in S => k + 1 \in S
  <2> SUFFICES ASSUME NEW k \in 0 .. Len(s) - 1, k \in S PROVE k + 1 \in S
    OBVIOUS
  <2>1. k \in 0 .. Len(s) /\ k + 1 \in 0 .. Len(s) /\ k + 1 \in 1 .. Len(s)
    BY <1>2
  <2> DEFINE old == I[k]
             more == I[k + 1]
             r == s[k + 1]
  <2>2. Ext(k) /\ more = InternedWith(old, r) /\ r.key \in Nat
    BY <1>2, <1>3, <1>4, <2>1
  <2>3. /\ old \in Seq(Nat) /\ Distinct(old) /\ Len(known) <= Len(old)
        /\ \A g \in DOMAIN known : g \in DOMAIN old /\ old[g] = known[g]
        /\ \A n \in 1 .. k : Knows(old, s[n].key)
    BY <2>2
  <2> HIDE DEF old, more, r, Ext
  <2>4. /\ more \in Seq(Nat) /\ Distinct(more) /\ Len(old) <= Len(more)
        /\ \A g \in DOMAIN old : g \in DOMAIN more /\ more[g] = old[g]
        /\ Knows(more, r.key)
    <3> HIDE DEF Knows
    <3>1. OneMore(old, r, more)
      <4>1. old \in Seq(Nat) /\ Distinct(old) /\ r.key \in Nat /\ more = InternedWith(old, r)
        BY <2>2, <2>3
      <4> QED BY <4>1, InternedOne
    <3> QED BY <3>1 DEF OneMore, Knows
  <2>5. Len(known) <= Len(more)
    <3>1. Len(known) \in Nat /\ Len(old) \in Nat /\ Len(more) \in Nat
      BY <2>3, <2>4
    <3> QED BY <2>3, <2>4, <3>1
  <2>6. \A g \in DOMAIN known : g \in DOMAIN more /\ more[g] = known[g]
    BY <2>3, <2>4
  <2>7. \A n \in 1 .. k + 1 : Knows(more, s[n].key)
    <3> TAKE n \in 1 .. k + 1
    <3>1. n \in 1 .. k \/ n = k + 1
      BY <2>1
    <3>2. \A key : Knows(old, key) => Knows(more, key)
      BY <2>4
    <3> QED BY <2>3, <2>4, <3>1, <3>2 DEF r
  <2>8. Ext(k + 1)
    BY <2>4, <2>5, <2>6, <2>7 DEF Ext, more
  <2> QED BY <1>4, <2>1, <2>8
<1>7. Len(s) \in S
  <2>1. \A k \in 0 .. Len(s) : k \in S
    BY <1>2, <1>5, <1>6, Induct
  <2> QED BY <1>2, <2>1
<1>8. Ext(Len(s))
  BY <1>4, <1>7
<1>9. ASSUME NEW n \in DOMAIN s
      PROVE  GroupOf(new, s[n].key) \in DOMAIN new /\ new[GroupOf(new, s[n].key)] = s[n].key
  <2>1. \E g \in DOMAIN new : new[g] = s[n].key
    BY <1>1, <1>2, <1>8
  <2> QED BY <2>1 DEF GroupOf
<1> QED BY <1>1, <1>8, <1>9 DEF Follow, Continues

\* Keys that stay when the first groups leave are still no key twice.
LEMMA RestDistinct ==
  ASSUME NEW ks, ks \in Seq(Nat), Distinct(ks), NEW k, k \in 0 .. Len(ks),
         NEW rest, rest = SubSeq(ks, k + 1, Len(ks))
  PROVE  Distinct(rest)
<1> DEFINE first == SubSeq(ks, 1, k)
<1>1. Parts(Nat, ks, k, first, rest)
  BY Parted
<1> HIDE DEF first
<1>2. /\ DOMAIN rest = 1 .. Len(ks) - k
      /\ \A g \in 1 .. Len(ks) - k : rest[g] = ks[g + k] /\ g + k \in DOMAIN ks
  <2>1. DOMAIN ks = 1 .. Len(ks)
    OBVIOUS
  <2> QED BY <1>1, <2>1 DEF Parts
<1> SUFFICES ASSUME NEW g \in DOMAIN rest, NEW h \in DOMAIN rest, rest[g] = rest[h] PROVE g = h
  BY DEF Distinct
<1>3. g + k = h + k
  BY <1>2 DEF Distinct
<1>4. g \in Int /\ h \in Int /\ k \in Int
  BY <1>2
<1> QED BY <1>3, <1>4

-----------------------------------------------------------------------------
(***************************************************************************)
(* The trail of a partial's rows: what the final accumulator has folded of *)
(* them, then what the partial still has.                                  *)
(***************************************************************************)
StoredOf(a) == StoredRows(store[a], keys[a])

Pending(a) == IF callee = a THEN [n \in DOMAIN call |-> AsStates(call[n], keys[a])] ELSE <<>>

HeldBy(a, c, t) == Spread(Out(c, t), StoredOf(a)) \o Spread(Out(c, t), Pending(a))

FinalOf(c, t) == Spread(Out(c, t), answers) \o HeldBy(Final, c, t)

PartialOf(p, c, t) == Spread(Out(c, t), FlattenSeq(sent[p])) \o HeldBy(p, c, t)

\* What a row of input has of a key and a time.
GivenOut(c, t) == [r \in InputRow |-> OfRow(Converted(r), c, t)]

TakenRows(p) == FlattenSeq(SubSeq(input[p], 1, taken[p]))

GivenOf(p, c, t) == Spread(GivenOut(c, t), TakenRows(p))

\* The contributions that are of a partial's rows.
Ids(p) == {Sequence(p)[n] : n \in DOMAIN Sequence(p)}
Owned(ids) == [e \in Seq(Int) |-> IF e[1] \in ids THEN <<e>> ELSE <<>>]

Trail(p, c, t) ==
  Spread(Owned(Ids(p)), FinalOf(c, t)) \o PartialOf(p, c, t) = GivenOf(p, c, t)

AllStocked == \A a \in Accumulators : Stocked(store[a], keys[a])

RowsSound ==
  /\ sent \in [Partials -> Seq(Seq(SoundRows))]
  /\ answers \in Seq(SoundRows)
  /\ skipping \subseteq Partials /\ \A p \in skipping : keys[p] = <<>>

CallFits ==
  /\ call \in Seq(CallRow)
  /\ call # <<>> =>
       callee \in Accumulators /\ \A n \in DOMAIN call : RowFits(call[n], Len(keys[callee]))

\* What an accumulator has stored after a step.
LEMMA StoredNext ==
  ASSUME grid' = grid, NEW a, NEW st, NEW ks, store'[a] = st, keys'[a] = ks
  PROVE  /\ StoredOf(a)' = StoredRows(st, ks)
         /\ Stocked(st, ks) => Stocked(store[a], keys[a])'
<1>1. StoredOf(a)' = StoredRows(st, ks)
  BY DEF StoredOf, StoredRows, ListRow, View, Kept, SingleStep, Timestamp
<1>2. Stocked(st, ks) => Stocked(store[a], keys[a])'
  BY DEF Stocked, StoreOK, Marked, CellIn, CellOf, View, SingleStep
<1> QED BY <1>1, <1>2

\* A call's row as a row of states.
LEMMA AsStatesTyped ==
  ASSUME NEW ks, ks \in Seq(Nat), NEW row, RowFits(row, Len(ks)), NEW srow, srow = AsStates(row, ks)
  PROVE  srow \in StateRow
<1> DEFINE vs == IF row.partial THEN row.values ELSE [k \in DOMAIN row.times |-> Add(Fresh, row.values[k])]
           key == ks[row.group]
<1>1. row \in CallRow /\ key \in Nat
  BY DEF RowFits
<1>2. /\ row.times \in Seq(Int) /\ Len(row.values) = Len(row.times) /\ row.values \in Seq(Cell \cup Seq(Int))
      /\ \A k \in DOMAIN row.times : IF row.partial THEN row.values[k] \in Cell ELSE row.values[k] \in Seq(Int)
  BY <1>1 DEF CallRow
<1>3. DOMAIN row.values = DOMAIN row.times /\ DOMAIN row.times = 1 .. Len(row.times)
      /\ Len(row.times) \in Nat /\ DOMAIN row.values = 1 .. Len(row.values)
  BY <1>2
<1>4. \A e \in Seq(Int) : Add(Fresh, e) \in Cell
  <2> TAKE e \in Seq(Int)
  <2> DEFINE Z == Seq(Int)
             o == Append(<<>>, e)
  <2>1. o \in Seq(Z)
    OBVIOUS
  <2>2. Add(Fresh, e) = [of |-> o, merges |-> 0]
    BY DEF Add, Fresh
  <2> HIDE DEF o
  <2> QED BY <2>1, <2>2 DEF Cell
<1>5. vs \in Seq(Cell) /\ Len(vs) = Len(row.times)
  <2> DEFINE n == Len(row.times)
  <2>1. n \in Nat /\ DOMAIN row.values = 1 .. n /\ DOMAIN row.times = 1 .. n
    BY <1>2, <1>3
  <2>2. CASE row.partial
    <3>1. row.values \in [1 .. n -> Cell]
      BY <1>2, <2>1, <2>2
    <3> HIDE DEF n
    <3>2. row.values \in Seq(Cell)
      BY <2>1, <3>1
    <3> QED BY <1>2, <2>2, <3>2
  <2>3. CASE ~row.partial
    <3>1. vs = [k \in 1 .. n |-> Add(Fresh, row.values[k])]
      BY <2>1, <2>3
    <3>2. \A k \in 1 .. n : Add(Fresh, row.values[k]) \in Cell
      BY <1>2, <1>4, <2>1, <2>3
    <3> HIDE DEF n, vs
    <3>3. vs \in [1 .. n -> Cell]
      BY <3>1, <3>2
    <3>4. vs \in Seq(Cell) /\ Len(vs) = n
      BY <2>1, <3>3
    <3> QED BY <3>4 DEF n
  <2> QED BY <2>2, <2>3
<1> HIDE DEF vs, key
<1>6. srow = [key |-> key, times |-> row.times, values |-> vs]
  BY DEF AsStates, vs, key
<1> QED BY <1>1, <1>2, <1>5, <1>6 DEF StateRow

\* What accumulators hold are rows of states.
LEMMA HeldTyped ==
  ASSUME AllStocked, CallFits, NEW a, a \in Accumulators, NEW c \in Nat, NEW t \in Int
  PROVE  /\ StoredOf(a) \in Seq(StateRow) /\ Pending(a) \in Seq(StateRow)
         /\ Spread(Out(c, t), StoredOf(a)) \in Seq(Seq(Int))
         /\ Spread(Out(c, t), Pending(a)) \in Seq(Seq(Int))
         /\ HeldBy(a, c, t) \in Seq(Seq(Int))
<1>1. StoredOf(a) \in Seq(StateRow)
  <2> DEFINE st == store[a]
             ks == keys[a]
             rows == StoredRows(st, ks)
  <2>1. Stocked(st, ks) /\ rows = StoredRows(st, ks) /\ StoredOf(a) = rows
    BY DEF AllStocked, StoredOf
  <2> HIDE DEF st, ks, rows
  <2>2. Listed(st, ks, rows)
    BY <2>1, StoredTyped
  <2> QED BY <2>1, <2>2 DEF Listed
<1>2. Pending(a) \in Seq(StateRow)
  <2>1. CASE callee = a /\ call # <<>>
    <3> DEFINE n == Len(call)
               ks == keys[a]
    <3>1. n \in Nat /\ DOMAIN call = 1 .. n /\ ks \in Seq(Nat) /\ \A k \in 1 .. n : RowFits(call[k], Len(ks))
      BY <2>1 DEF CallFits, AllStocked, Stocked
    <3>2. \A k \in 1 .. n : AsStates(call[k], ks) \in StateRow
      BY <3>1, AsStatesTyped
    <3>3. Pending(a) = [k \in 1 .. n |-> AsStates(call[k], ks)]
      BY <2>1, <3>1 DEF Pending
    <3> HIDE DEF n, ks
    <3>4. Pending(a) \in [1 .. n -> StateRow]
      BY <3>2, <3>3
    <3> QED BY <3>1, <3>4
  <2>2. CASE ~(callee = a /\ call # <<>>)
    <3>1. Pending(a) = <<>>
      BY <2>2 DEF Pending
    <3> QED BY <3>1
  <2> QED BY <2>1, <2>2
<1> DEFINE F == Out(c, t)
           X == Seq(Int)
<1>3. Spreads(F, StateRow, X)
  BY OutTyped
<1> HIDE DEF F, X
<1>4. Spread(F, StoredOf(a)) \in Seq(X) /\ Spread(F, Pending(a)) \in Seq(X)
  BY <1>1, <1>2, <1>3, SpreadType
<1>5. HeldBy(a, c, t) \in Seq(X)
  BY <1>4, ConcatProperties DEF HeldBy, F
<1> QED BY <1>1, <1>2, <1>4, <1>5 DEF F, X

\* The rows of a call as rows of states.
Asked(feed, ks) == [n \in DOMAIN feed |-> AsStates(feed[n], ks)]

\* A step after which an accumulator has more, behind what it had, and no other has.
HasMore(a, c, t, more) ==
  \A b \in Accumulators :
    HeldBy(b, c, t)' = HeldBy(b, c, t) \o (IF b = a THEN more ELSE <<>>)

\* Opening a call makes room for its groups, and what the call has is behind what the
\* accumulator had.
LEMMA OpenHolds ==
  ASSUME AllStocked, KeysOK, CallFits, call = <<>>, grid' = grid, NEW a, a \in Accumulators,
         NEW R, \A r \in R : r.key \in Nat, NEW rows, rows \in Seq(R),
         NEW ks, ks = Interned(keys[a], rows),
         NEW feed, feed \in Seq(CallRow), \A n \in DOMAIN feed : RowFits(feed[n], Len(ks)),
         Open(a, rows, feed), DOMAIN store = Accumulators,
         NEW c \in Nat, NEW t \in Int
  PROVE  /\ AllStocked' /\ CallFits'
         /\ HasMore(a, c, t, Spread(Out(c, t), Asked(feed, ks)))
<1> DEFINE old == keys[a]
           st == store[a]
           new == Grow(st, Len(ks))
           add == Asked(feed, ks)
           F == Out(c, t)
<1>1. /\ old \in Seq(Nat) /\ Distinct(old) /\ Stocked(st, old)
      /\ keys' = [keys EXCEPT ![a] = ks] /\ store' = [store EXCEPT ![a] = new]
      /\ callee' = a /\ call' = feed /\ DOMAIN keys = Accumulators
      /\ ks = Interned(old, rows)
  BY DEF Open, AllStocked, KeysOK, Stocked
<1>2. /\ store'[a] = new /\ keys'[a] = ks
      /\ \A b \in Accumulators : b # a => store'[b] = store[b] /\ keys'[b] = keys[b]
  BY <1>1
<1> HIDE DEF old, st, new, add, F
<1>3. Follow(old, ks, rows)
  BY <1>1, InternedFollow
<1>4. Continues(old, ks)
  BY <1>3 DEF Follow
<1>5. /\ Stocked(new, ks)
      /\ Spread(Out(c, t), StoredRows(new, ks)) = Spread(Out(c, t), StoredRows(st, old))
  <2>1. new = Grow(st, Len(ks))
    BY DEF new
  <2>2. Stocked(st, old)
    BY <1>1
  <2> QED BY <1>4, <2>1, <2>2, StoredGrows
<1>6. AllStocked'
  <2> SUFFICES ASSUME NEW b \in Accumulators PROVE Stocked(store[b], keys[b])'
    BY DEF AllStocked
  <2>1. CASE b = a
    BY <1>2, <1>5, <2>1, StoredNext
  <2>2. CASE b # a
    <3>1. Stocked(store[b], keys[b])
      BY DEF AllStocked
    <3> QED BY <1>2, <2>2, <3>1, StoredNext
  <2> QED BY <2>1, <2>2
<1>7. CallFits'
  BY <1>1, <1>2 DEF CallFits
<1>8. ASSUME NEW b \in Accumulators
      PROVE  HeldBy(b, c, t)' = HeldBy(b, c, t) \o (IF b = a THEN Spread(F, add) ELSE <<>>)
  <2> DEFINE w == Spread(F, StoredOf(b))
  <2>0. Pending(b) = <<>>
    BY DEF Pending
  <2>1. w \in Seq(Seq(Int)) /\ HeldBy(b, c, t) = w \o Spread(F, <<>>)
    BY <2>0, HeldTyped DEF HeldBy, F
  <2>2. HeldBy(b, c, t) = w
    BY <2>1, SpreadNone, ConcatEmptySeq
  <2>3. Pending(b)' = IF b = a THEN add ELSE <<>>
    BY <1>1, <1>2 DEF Pending, add, Asked
  <2>4. Spread(F, StoredOf(b)') = w
    <3>1. CASE b = a
      BY <1>2, <1>5, <3>1, StoredNext DEF F, StoredOf, st, old
    <3>2. CASE b # a
      <4>1. StoredOf(b)' = StoredRows(store[b], keys[b])
        BY <1>2, <3>2, StoredNext
      <4> QED BY <4>1 DEF StoredOf
    <3> QED BY <3>1, <3>2
  <2>5. HeldBy(b, c, t)' = Spread(F, StoredOf(b)') \o Spread(F, Pending(b)')
    BY DEF HeldBy, F
  <2> HIDE DEF w
  <2>6. CASE b = a
    <3>1. Pending(b)' = add
      BY <2>3, <2>6
    <3>2. HeldBy(b, c, t)' = w \o Spread(F, add)
      BY <2>4, <2>5, <3>1
    <3> QED BY <2>2, <2>6, <3>2
  <2>7. CASE b # a
    <3>1. Pending(b)' = <<>>
      BY <2>3, <2>7
    <3>2. HeldBy(b, c, t)' = w \o Spread(F, <<>>)
      BY <2>4, <2>5, <3>1
    <3>3. HeldBy(b, c, t)' = w \o <<>>
      BY <3>2, SpreadNone
    <3> QED BY <2>2, <2>7, <3>3
  <2> QED BY <2>6, <2>7
<1>9. HasMore(a, c, t, Spread(F, add))
  BY <1>8 DEF HasMore
<1> QED BY <1>6, <1>7, <1>9 DEF F, add

\* A step after which an accumulator has less, what was ahead, and no other has.
HasLess(a, c, t, gone) ==
  /\ HeldBy(a, c, t) = gone \o HeldBy(a, c, t)'
  /\ HeldBy(a, c, t)' \in Seq(Seq(Int))
  /\ \A b \in Accumulators : b # a => HeldBy(b, c, t)' = HeldBy(b, c, t)

\* When the first groups leave, what they had is ahead of what stays.
LEMMA DrainHolds ==
  ASSUME AllStocked, KeysOK, CallFits, call = <<>>, grid' = grid, NEW a, a \in Accumulators,
         NEW n \in 1 .. Len(keys[a]), NEW out, out = Emitted(a, n), Drain(a, n),
         callee' = callee, call' = call, DOMAIN store = Accumulators,
         NEW c \in Nat, NEW t \in Int
  PROVE  /\ AllStocked' /\ out \in Seq(SoundRows)
         /\ HasLess(a, c, t, Spread(Out(c, t), out))
<1> DEFINE ks == keys[a]
           st == store[a]
           rest == SubSeq(ks, n + 1, Len(ks))
           new == Release(st, n)
           F == Out(c, t)
<1>1. /\ Stocked(st, ks) /\ n \in 1 .. Len(ks)
      /\ keys' = [keys EXCEPT ![a] = rest] /\ store' = [store EXCEPT ![a] = new]
      /\ DOMAIN keys = Accumulators
  BY DEF Drain, AllStocked, KeysOK
<1>2. /\ store'[a] = new /\ keys'[a] = rest
      /\ \A b \in Accumulators : b # a => store'[b] = store[b] /\ keys'[b] = keys[b]
  BY <1>1
<1>3. out = FirstRows(st, ks, n)
  BY DEF Emitted, FirstRows
<1>4. new = Release(st, n) /\ rest = After(ks, n)
  BY DEF After
<1> HIDE DEF ks, st, rest, new, F
<1>5. /\ Stocked(new, rest) /\ out \in Seq(SoundRows)
      /\ Joined(Spread(Out(c, t), StoredRows(st, ks)),
                Spread(Out(c, t), out), Spread(Out(c, t), StoredRows(new, rest)))
  <2>1. Stocked(st, ks) /\ n \in 1 .. Len(ks)
    BY <1>1
  <2> QED BY <1>3, <1>4, <2>1, StoredDrains
<1>7. AllStocked'
  <2> SUFFICES ASSUME NEW b \in Accumulators PROVE Stocked(store[b], keys[b])'
    BY DEF AllStocked
  <2>1. CASE b = a
    BY <1>2, <1>5, <2>1, StoredNext
  <2>2. CASE b # a
    <3>1. Stocked(store[b], keys[b])
      BY DEF AllStocked
    <3> QED BY <1>2, <2>2, <3>1, StoredNext
  <2> QED BY <2>1, <2>2
<1>8. ASSUME NEW b \in Accumulators
      PROVE  /\ HeldBy(b, c, t) = Spread(F, StoredOf(b)) /\ HeldBy(b, c, t)' = Spread(F, StoredOf(b)')
             /\ HeldBy(b, c, t)' \in Seq(Seq(Int))
  <2>0. Pending(b) = <<>> /\ Pending(b)' = <<>>
    BY DEF Pending
  <2>a. CallFits'
    BY DEF CallFits
  <2>1. /\ Spread(F, StoredOf(b)) \in Seq(Seq(Int)) /\ HeldBy(b, c, t) = Spread(F, StoredOf(b)) \o Spread(F, <<>>)
    BY <2>0, HeldTyped DEF HeldBy, F
  <2>2. HeldBy(b, c, t)' = Spread(F, StoredOf(b)') \o Spread(F, <<>>)
    BY <2>0 DEF HeldBy, F
  <2>3. Spread(F, StoredOf(b)') \in Seq(Seq(Int))
    <3> DEFINE s1 == store'[b]
               k1 == keys'[b]
               rows == StoredRows(s1, k1)
    <3>1. PICK s2, k2 : s2 = s1 /\ k2 = k1
      OBVIOUS
    <3>2. StoredOf(b)' = StoredRows(s2, k2)
      BY <3>1, StoredNext
    <3>3. Stocked(s2, k2)
      BY <1>1, <1>2, <1>5, <3>1 DEF AllStocked
    <3>4. PICK r2 : r2 = StoredRows(s2, k2)
      OBVIOUS
    <3>5. Listed(s2, k2, r2)
      BY <3>3, <3>4, StoredTyped
    <3>6. r2 \in Seq(StateRow) /\ StoredOf(b)' = r2
      BY <3>2, <3>4, <3>5 DEF Listed
    <3> DEFINE X == Seq(Int)
    <3>7. Spreads(F, StateRow, X)
      BY OutTyped DEF F
    <3> HIDE DEF X
    <3>8. Spread(F, r2) \in Seq(X)
      BY <3>6, <3>7, SpreadType
    <3> QED BY <3>6, <3>8 DEF X
  <2>4. HeldBy(b, c, t) = Spread(F, StoredOf(b)) /\ HeldBy(b, c, t)' = Spread(F, StoredOf(b)')
    BY <2>1, <2>2, <2>3, SpreadNone, ConcatEmptySeq
  <2> QED BY <2>3, <2>4
<1>9. HeldBy(a, c, t) = Spread(F, out) \o HeldBy(a, c, t)'
  <2>1. StoredOf(a) = StoredRows(st, ks) /\ StoredOf(a)' = StoredRows(new, rest)
    <3>1. StoredOf(a)' = StoredRows(new, rest)
      BY <1>2, StoredNext
    <3> QED BY <3>1 DEF StoredOf, st, ks
  <2> QED BY <1>5, <1>8, <2>1 DEF F, Joined
<1>10. ASSUME NEW b \in Accumulators, b # a PROVE HeldBy(b, c, t)' = HeldBy(b, c, t)
  <2>1. StoredOf(b)' = StoredRows(store[b], keys[b])
    BY <1>2, <1>10, StoredNext
  <2> QED BY <1>8, <2>1 DEF StoredOf
<1>11. HasLess(a, c, t, Spread(F, out))
  <2>1. HeldBy(a, c, t)' \in Seq(Seq(Int))
    BY <1>8
  <2> QED BY <1>9, <1>10, <2>1 DEF HasLess
<1> QED BY <1>5, <1>7, <1>11 DEF F

\* A sequence that is not empty is its head and its tail.
LEMMA HeadTail ==
  ASSUME NEW Y, NEW s, s \in Seq(Y), s # <<>>
  PROVE  /\ Head(s) \in Y /\ Tail(s) \in Seq(Y) /\ s = <<Head(s)>> \o Tail(s)
         /\ DOMAIN Tail(s) = 1 .. Len(s) - 1 /\ \A n \in 1 .. Len(s) - 1 : Tail(s)[n] = s[n + 1]
OBVIOUS

\* A folded row goes from the call to the store.
LEMMA FoldRowHolds ==
  ASSUME AllStocked, KeysOK, CallFits, FoldRow, DOMAIN store = Accumulators,
         NEW c \in Nat, NEW t \in Int
  PROVE  /\ AllStocked' /\ CallFits'
         /\ \A b \in Accumulators : HeldBy(b, c, t)' = HeldBy(b, c, t)
<1> DEFINE a == callee
           ks == keys[a]
           st == store[a]
           row == Head(call)
           new == AddSeries(st, row)
           F == Out(c, t)
<1>1. /\ call # <<>> /\ Acceptable(st, row) /\ store' = [store EXCEPT ![a] = new]
      /\ call' = Tail(call) /\ callee' = a /\ keys' = keys /\ grid' = grid
  BY DEF FoldRow
<1>2. /\ a \in Accumulators /\ call \in Seq(CallRow)
      /\ \A n \in DOMAIN call : RowFits(call[n], Len(ks))
  BY <1>1 DEF CallFits
<1>3. /\ Stocked(st, ks) /\ ks \in Seq(Nat) /\ Len(ks) \in Nat /\ grid \in Grids
      /\ StoreOK(st, Len(ks))
  BY <1>2 DEF AllStocked, Stocked
<1>4. /\ row \in CallRow /\ call' \in Seq(CallRow) /\ row = call[1] /\ 1 \in DOMAIN call
      /\ DOMAIN call' = 1 .. Len(call) - 1 /\ \A n \in 1 .. Len(call) - 1 : call'[n] = call[n + 1]
      /\ DOMAIN call = 1 .. Len(call) /\ Len(call) \in Nat
  BY <1>1, <1>2
<1>5. /\ store'[a] = new /\ \A b \in Accumulators : keys'[b] = keys[b] /\ (b # a => store'[b] = store[b])
  BY <1>1, <1>2
<1>6. new = AddSeries(st, row)
  OBVIOUS
<1>7. RowFits(row, Len(ks))
  BY <1>2, <1>4
<1> HIDE DEF ks, st, row, new, F
<1>8. WellFormed(row.times)
  <2>1. row.group \in 1 .. Len(ks)
    BY <1>7 DEF RowFits
  <2> QED BY <1>1, <1>3, <1>4, <2>1, AcceptableExact
<1>9. /\ Stocked(new, ks)
      /\ Joined(Spread(Out(c, t), StoredRows(new, ks)),
                Spread(Out(c, t), StoredRows(st, ks)), OfRow(AsStates(row, ks), c, t))
  BY <1>3, <1>6, <1>7, <1>8, StoredFolds
<1>10. AllStocked'
  <2> SUFFICES ASSUME NEW b \in Accumulators PROVE Stocked(store[b], keys[b])'
    BY DEF AllStocked
  <2>1. CASE b = a
    <3>1. keys'[b] = ks /\ store'[b] = new
      BY <1>5, <2>1 DEF ks
    <3> QED BY <1>1, <1>9, <3>1, StoredNext
  <2>2. CASE b # a
    <3>1. Stocked(store[b], keys[b])
      BY DEF AllStocked
    <3> QED BY <1>1, <1>5, <2>2, <3>1, StoredNext
  <2> QED BY <2>1, <2>2
<1>11. CallFits'
  <2>1. \A n \in DOMAIN call' : RowFits(call'[n], Len(ks))
    <3> TAKE n \in DOMAIN call'
    <3>1. n + 1 \in DOMAIN call /\ call'[n] = call[n + 1]
      BY <1>4
    <3> QED BY <1>2, <3>1 DEF ks
  <2>2. callee' \in Accumulators /\ keys'[callee'] = ks
    BY <1>1, <1>2 DEF ks
  <2> QED BY <1>4, <2>1, <2>2 DEF CallFits
<1>12. ASSUME NEW b \in Accumulators PROVE HeldBy(b, c, t)' = HeldBy(b, c, t)
  <2>1. CASE b # a
    <3>1. Pending(b) = <<>> /\ Pending(b)' = <<>>
      BY <1>1, <2>1 DEF Pending
    <3>2. StoredOf(b)' = StoredRows(store[b], keys[b])
      BY <1>1, <1>5, <2>1, StoredNext
    <3> QED BY <3>1, <3>2 DEF HeldBy, StoredOf
  <2>2. CASE b = a
    <3> DEFINE srow == AsStates(row, ks)
               rest == [n \in DOMAIN Tail(call) |-> AsStates(Tail(call)[n], ks)]
               x == Spread(F, StoredOf(a))
               y == OfRow(srow, c, t)
               z == Spread(F, rest)
    <3>1. Pending(b)' = rest
      BY <1>1, <2>2 DEF Pending, ks
    <3>2. StoredOf(b)' = StoredRows(new, ks)
      <4>1. keys'[b] = ks /\ store'[b] = new
        BY <1>2, <1>5, <2>2 DEF ks
      <4> QED BY <1>1, <4>1, StoredNext
    <3>3. Spread(F, StoredOf(b)') = x \o y
      BY <1>9, <3>2 DEF Joined, F, StoredOf, st, ks
    <3>4. srow \in StateRow
      BY <1>3, <1>7, AsStatesTyped
    <3>5. rest \in Seq(StateRow)
      <4> DEFINE n == Len(call) - 1
      <4>1. n \in Nat /\ DOMAIN Tail(call) = 1 .. n
        BY <1>1, <1>4
      <4>2. \A k \in 1 .. n : RowFits(Tail(call)[k], Len(ks))
        <5> TAKE k \in 1 .. n
        <5>1. k + 1 \in DOMAIN call /\ Tail(call)[k] = call[k + 1]
          BY <1>1, <1>4
        <5> QED BY <1>2, <5>1 DEF ks
      <4>3. \A k \in 1 .. n : AsStates(Tail(call)[k], ks) \in StateRow
        BY <1>3, <4>2, AsStatesTyped
      <4> HIDE DEF n
      <4>4. rest \in [1 .. n -> StateRow]
        BY <4>1, <4>3
      <4> HIDE DEF rest
      <4> QED BY <4>1, <4>4
    <3>6. Pending(a) = <<srow>> \o rest
      <4>1. Pending(a) = [n \in DOMAIN call |-> AsStates(call[n], ks)]
        BY DEF Pending, ks
      <4> DEFINE all == Pending(a)
                 q == <<srow>> \o rest
      <4>2. all \in Seq(StateRow) /\ DOMAIN all = DOMAIN call
        BY <1>2, <4>1, HeldTyped
      <4>3. Len(all) = Len(call)
        BY <1>4, <4>2
      <4>4. all[1] = srow /\ \A n \in 1 .. Len(call) - 1 : all[n + 1] = rest[n]
        <5>1. all[1] = srow
          BY <1>4, <4>1
        <5>2. ASSUME NEW n \in 1 .. Len(call) - 1 PROVE all[n + 1] = rest[n]
          <6>1. n + 1 \in DOMAIN call /\ n \in DOMAIN Tail(call) /\ Tail(call)[n] = call[n + 1]
            BY <1>1, <1>4
          <6> QED BY <4>1, <6>1
        <5> QED BY <5>1, <5>2
      <4>5. DOMAIN rest = 1 .. Len(call) - 1
        BY <1>1, <1>4
      <4> HIDE DEF rest, srow, all
      <4>6. all # <<>>
        BY <1>4, <4>2
      <4>7. /\ Head(all) = all[1] /\ Tail(all) \in Seq(StateRow) /\ all = <<Head(all)>> \o Tail(all)
            /\ DOMAIN Tail(all) = 1 .. Len(all) - 1
            /\ \A n \in 1 .. Len(all) - 1 : Tail(all)[n] = all[n + 1]
        BY <4>2, <4>6, HeadTail
      <4>8. Tail(all) = rest
        <5> DEFINE u == Tail(all)
        <5>1. /\ u \in Seq(StateRow) /\ DOMAIN u = DOMAIN rest /\ \A n \in DOMAIN rest : u[n] = rest[n]
          BY <4>3, <4>4, <4>5, <4>7
        <5> HIDE DEF u
        <5>2. u = rest
          BY <3>5, <5>1
        <5> QED BY <5>2 DEF u
      <4> QED BY <4>4, <4>7, <4>8 DEF all
    <3> DEFINE X == Seq(Int)
    <3>7. Spreads(F, StateRow, X) /\ F[srow] = y /\ y \in Seq(X)
      BY <3>4, OutTyped DEF F
    <3>8. x \in Seq(X)
      BY <1>2, HeldTyped DEF F
    <3> HIDE DEF srow, rest, X, x, y
    <3>9. Spread(F, Pending(a)) = y \o z
      <4>1. <<srow>> \in Seq(StateRow)
        BY <3>4
      <4> DEFINE one == <<srow>>
      <4>2. Spread(F, one) = y
        BY <3>4, <3>7, SpreadOne
      <4>3. one \in Seq(StateRow)
        BY <4>1
      <4> HIDE DEF one
      <4>4. Spread(F, one \o rest) = Spread(F, one) \o Spread(F, rest)
        BY <3>5, <3>7, <4>3, SpreadConcat
      <4> QED BY <3>6, <4>2, <4>4 DEF one
    <3>10. z \in Seq(X)
      BY <3>5, <3>7, SpreadType
    <3> HIDE DEF z
    <3>11. (x \o y) \o z = x \o (y \o z)
      BY <3>7, <3>8, <3>10, Regroups
    <3>12. HeldBy(a, c, t) = x \o (y \o z)
      BY <3>9 DEF HeldBy, F, x
    <3>13. HeldBy(b, c, t)' = (x \o y) \o z
      BY <3>1, <3>3 DEF HeldBy, F, z
    <3> QED BY <2>2, <3>11, <3>12, <3>13
  <2> QED BY <2>1, <2>2
<1> QED BY <1>10, <1>11, <1>12

-----------------------------------------------------------------------------
\* What a row given contributes to a cell is a sequence of contributions.
LEMMA GivenTyped ==
  ASSUME NEW c, NEW t
  PROVE  /\ Spreads(GivenOut(c, t), InputRow, Seq(Int))
         /\ \A r \in InputRow : GivenOut(c, t)[r] = OfRow(Converted(r), c, t)
                                  /\ GivenOut(c, t)[r] = Out(c, t)[Converted(r)]
<1>1. \A r \in InputRow : /\ GivenOut(c, t)[r] = OfRow(Converted(r), c, t)
                          /\ GivenOut(c, t)[r] = Out(c, t)[Converted(r)]
                          /\ OfRow(Converted(r), c, t) \in Seq(Seq(Int))
  <2> TAKE r \in InputRow
  <2>1. GivenOut(c, t)[r] = OfRow(Converted(r), c, t)
    BY DEF GivenOut
  <2>2. Converted(r) \in StateRow
    BY ConvertedTyped
  <2>3. Out(c, t)[Converted(r)] = OfRow(Converted(r), c, t) /\ OfRow(Converted(r), c, t) \in Seq(Seq(Int))
    BY <2>2, OutTyped
  <2> QED BY <2>1, <2>3
<1> DEFINE Z == Seq(Seq(Int))
<1>2. GivenOut(c, t) \in [InputRow -> Z]
  <2>1. \A r \in InputRow : OfRow(Converted(r), c, t) \in Z
    BY <1>1
  <2> HIDE DEF Z
  <2> QED BY <2>1 DEF GivenOut
<1> QED BY <1>1, <1>2 DEF Spreads

\* A skipped row gives nothing.
LEMMA SkippedGives ==
  ASSUME NEW r \in InputRow, r.skipped, NEW c, NEW t
  PROVE  GivenOut(c, t)[r] = <<>>
<1>1. Converted(r).times = <<>>
  BY DEF Converted
<1>2. OfRow(Converted(r), c, t) = <<>>
  BY <1>1 DEF OfRow
<1> QED BY <1>2, GivenTyped

\* The rows a FILTER leaves are not skipped and give what all of them give.
LEMMA UnskippedGiven ==
  ASSUME NEW s \in Seq(InputRow), NEW kept, kept = Unskipped(s), NEW c, NEW t
  PROVE  /\ Spread(GivenOut(c, t), kept) = Spread(GivenOut(c, t), s)
         /\ \A m \in DOMAIN kept : ~kept[m].skipped
<1>1. PICK I \in [0 .. Len(s) -> Seq(InputRow)] : FoldsAlong(Keeping, <<>>, s, I) /\ I[Len(s)] = kept
  BY UnskippedFolds DEF FoldsTo
<1> DEFINE P(k) == SubSeq(s, 1, k)
           F == GivenOut(c, t)
           X == Seq(Int)
<1>2. /\ Len(s) \in Nat /\ P(0) = <<>> /\ P(Len(s)) = s /\ \A k \in 0 .. Len(s) : P(k) \in Seq(InputRow)
      /\ \A k \in 0 .. Len(s) - 1 :
           /\ k \in 0 .. Len(s) /\ k + 1 \in 0 .. Len(s) /\ s[k + 1] \in InputRow
           /\ P(k + 1) = Append(P(k), s[k + 1])
  OBVIOUS
<1>3. I[0] = <<>> /\ \A k \in 0 .. Len(s) - 1 : I[k + 1] = UnskippedWith(I[k], s[k + 1])
  <2>1. I[0] = <<>>
    BY <1>1 DEF FoldsAlong
  <2>2. ASSUME NEW k \in 0 .. Len(s) - 1 PROVE I[k + 1] = UnskippedWith(I[k], s[k + 1])
    <3>1. I[k + 1] = Keeping[<<I[k], s[k + 1]>>]
      BY <1>1 DEF FoldsAlong
    <3>2. I[k] \in Seq(InputRow) /\ s[k + 1] \in InputRow
      BY <1>2
    <3> QED BY <3>1, <3>2 DEF Keeping
  <2> QED BY <2>1, <2>2
<1>4. Spreads(F, InputRow, X)
  BY GivenTyped
<1> DEFINE Alike(k) == Spread(F, I[k]) = Spread(F, P(k)) /\ \A m \in DOMAIN I[k] : ~I[k][m].skipped
           S == {k \in 0 .. Len(s) : Alike(k)}
<1>5. \A k : k \in S <=> k \in 0 .. Len(s) /\ Alike(k)
  OBVIOUS
<1> HIDE DEF S, P, F, X
<1>6. 0 \in S
  <2>1. Alike(0)
    BY <1>2, <1>3
  <2>2. 0 \in 0 .. Len(s)
    BY <1>2
  <2> HIDE DEF Alike
  <2> QED BY <1>5, <2>1, <2>2
<1>7. \A k \in 0 .. Len(s) - 1 : k \in S => k + 1 \in S
  <2> SUFFICES ASSUME NEW k \in 0 .. Len(s) - 1, k \in S PROVE k + 1 \in S
    OBVIOUS
  <2> DEFINE i == I[k]
             p == P(k)
             r == s[k + 1]
             j == I[k + 1]
  <2>1. /\ i \in Seq(InputRow) /\ p \in Seq(InputRow) /\ r \in InputRow
        /\ P(k + 1) = Append(p, r) /\ j = UnskippedWith(i, r)
        /\ Spread(F, i) = Spread(F, p) /\ \A m \in DOMAIN i : ~i[m].skipped
    BY <1>2, <1>3, <1>5
  <2> HIDE DEF i, p, r, j
  <2>2. Spread(F, Append(p, r)) = Spread(F, p) \o F[r]
    <3>1. p \in Seq(InputRow) /\ r \in InputRow
      BY <2>1
    <3> QED BY <1>4, <3>1, SpreadAppend
  <2>3. CASE r.skipped
    <3>1. j = i
      BY <2>1, <2>3 DEF UnskippedWith
    <3>2. F[r] = <<>>
      BY <2>1, <2>3, SkippedGives DEF F
    <3>3. Spread(F, p) \in Seq(X)
      BY <1>4, <2>1, SpreadType
    <3>4. Spread(F, p) \o <<>> = Spread(F, p)
      BY <3>3, ConcatEmptySeq
    <3>5. Spread(F, j) = Spread(F, P(k + 1)) /\ \A m \in DOMAIN j : ~j[m].skipped
      BY <2>1, <2>2, <3>1, <3>2, <3>4
    <3>6. Alike(k + 1)
      BY <3>5 DEF j
    <3> QED BY <1>2, <1>5, <3>6
  <2>4. CASE ~r.skipped
    <3>1. j = Append(i, r)
      BY <2>1, <2>4 DEF UnskippedWith
    <3>2. Spread(F, Append(i, r)) = Spread(F, i) \o F[r]
      BY <1>4, <2>1, SpreadAppend
    <3>3. \A m \in DOMAIN j : ~j[m].skipped
      <4>1. /\ DOMAIN j = 1 .. Len(i) + 1 /\ j[Len(i) + 1] = r /\ \A m \in 1 .. Len(i) : j[m] = i[m]
            /\ DOMAIN i = 1 .. Len(i) /\ Len(i) \in Nat
        BY <2>1, <3>1
      <4> TAKE m \in DOMAIN j
      <4>2. m \in 1 .. Len(i) \/ m = Len(i) + 1
        BY <4>1
      <4> QED BY <2>1, <2>4, <4>1, <4>2
    <3>4. Spread(F, j) = Spread(F, P(k + 1))
      BY <2>1, <2>2, <3>1, <3>2
    <3>5. Alike(k + 1)
      BY <3>3, <3>4 DEF j
    <3> QED BY <1>2, <1>5, <3>5
  <2> QED BY <2>3, <2>4
<1>8. Len(s) \in S
  <2>1. \A k \in 0 .. Len(s) : k \in S
    BY <1>2, <1>6, <1>7, Induct
  <2> QED BY <1>2, <2>1
<1>9. Alike(Len(s)) /\ P(Len(s)) = s /\ I[Len(s)] = kept
  BY <1>1, <1>2, <1>5, <1>8
<1> QED BY <1>9 DEF F

\* A row of a call as a row of states: of an input row, what it would be converted to; of
\* a row of states, that row.
LEMMA AsStatesOf ==
  ASSUME NEW ks, NEW g, NEW key, ks[g] = key
  PROVE  /\ \A r \in InputRow : ~r.skipped /\ r.key = key =>
              AsStates([group |-> g, times |-> r.times, values |-> Contributions(r), partial |-> FALSE], ks)
                = Converted(r)
         /\ \A r \in StateRow : r.key = key =>
              AsStates([group |-> g, times |-> r.times, values |-> r.values, partial |-> TRUE], ks) = r
<1>1. ASSUME NEW r \in InputRow, ~r.skipped, r.key = key
      PROVE  AsStates([group |-> g, times |-> r.times, values |-> Contributions(r), partial |-> FALSE], ks)
                = Converted(r)
  <2> DEFINE v == Contributions(r)
             t == r.times
  <2>1. AsStates([group |-> g, times |-> t, values |-> v, partial |-> FALSE], ks) =
          [key |-> key, times |-> t, values |-> [k \in DOMAIN t |-> Add(Fresh, v[k])]]
    <3> HIDE DEF v, t
    <3> QED BY DEF AsStates
  <2>2. Converted(r) = [key |-> key, times |-> t, values |-> [k \in DOMAIN t |-> Add(Fresh, v[k])]]
    BY <1>1 DEF Converted
  <2> QED BY <2>1, <2>2
<1>2. ASSUME NEW r \in StateRow, r.key = key
      PROVE  AsStates([group |-> g, times |-> r.times, values |-> r.values, partial |-> TRUE], ks) = r
  <2> DEFINE v == r.values
             t == r.times
  <2>1. AsStates([group |-> g, times |-> t, values |-> v, partial |-> TRUE], ks) =
          [key |-> key, times |-> t, values |-> v]
    <3> HIDE DEF v, t
    <3> QED BY DEF AsStates
  <2>2. r = [key |-> r.key, times |-> t, values |-> v]
    BY DEF StateRow
  <2> QED BY <1>2, <2>1, <2>2
<1> QED BY <1>1, <1>2

\* What a batch of a partial gives is what its call has.
LEMMA FeedGives ==
  ASSUME NEW rows \in Seq(InputRow), NEW known \in Seq(Nat), Distinct(known),
         NEW ks, ks = Interned(known, rows), NEW feed, feed = FeedOf(ks, Unskipped(rows)),
         NEW c, NEW t
  PROVE  /\ Spread(Out(c, t), Asked(feed, ks)) = Spread(GivenOut(c, t), rows)
         /\ \A n \in DOMAIN feed : RowFits(feed[n], Len(ks))
<1> DEFINE kept == Unskipped(rows)
           F == Out(c, t)
           G == GivenOut(c, t)
           asked == [n \in DOMAIN feed |-> AsStates(feed[n], ks)]
<1>1. /\ kept \in Seq(InputRow) /\ \A m \in DOMAIN kept : \E n \in DOMAIN rows : kept[m] = rows[n]
  BY UnskippedExact
<1>2. Spread(G, kept) = Spread(G, rows) /\ \A m \in DOMAIN kept : ~kept[m].skipped
  BY UnskippedGiven
<1>3. Follow(known, ks, rows)
  <2>1. \A r \in InputRow : r.key \in Nat
    BY DEF InputRow
  <2> QED BY <2>1, InternedFollow
<1>4. feed \in Seq(CallRow) /\ \A n \in DOMAIN feed : feed[n].group \in DOMAIN ks
  BY FeedTyped
<1>5. feed = [n \in DOMAIN kept |->
                [group |-> GroupOf(ks, kept[n].key), times |-> kept[n].times,
                 values |-> Contributions(kept[n]), partial |-> FALSE]]
  BY DEF FeedOf
<1> HIDE DEF kept, F, G
<1>6. DOMAIN feed = DOMAIN kept /\ DOMAIN asked = DOMAIN kept
  BY <1>5
<1>7. ASSUME NEW n \in DOMAIN kept PROVE F[asked[n]] = G[kept[n]]
  <2> DEFINE r == kept[n]
             g == GroupOf(ks, r.key)
             row == [group |-> g, times |-> r.times, values |-> Contributions(r), partial |-> FALSE]
  <2>1. r \in InputRow /\ ~r.skipped
    BY <1>1, <1>2
  <2>2. ks[g] = r.key
    <3>1. PICK m \in DOMAIN rows : kept[n] = rows[m]
      BY <1>1
    <3> QED BY <1>3, <3>1 DEF Follow
  <2>3. asked[n] = AsStates(row, ks)
    BY <1>5, <1>6
  <2>4. AsStates(row, ks) = Converted(r)
    BY <2>1, <2>2, AsStatesOf
  <2> QED BY <2>1, <2>3, <2>4, GivenTyped DEF F, G
<1>8. Spread(F, asked) = Spread(G, kept)
  <2> HIDE DEF asked
  <2> QED BY <1>6, <1>7, SpreadAlike
<1>9. ASSUME NEW n \in DOMAIN feed PROVE RowFits(feed[n], Len(ks))
  <2>1. feed[n].partial = FALSE
    BY <1>5, <1>6
  <2>2. ks \in Seq(Nat)
    BY <1>3 DEF Follow, Continues
  <2>3. feed[n] \in CallRow /\ feed[n].group \in 1 .. Len(ks)
    BY <1>4, <2>2
  <2> QED BY <2>1, <2>3 DEF RowFits
<1> QED BY <1>2, <1>8, <1>9 DEF F, G, Asked

\* What a batch of states gives is what its call has.
LEMMA MergeFeedGives ==
  ASSUME NEW rows \in Seq(SoundRows), NEW known \in Seq(Nat), Distinct(known),
         NEW ks, ks = Interned(known, rows),
         NEW feed, feed = [n \in DOMAIN rows |->
                             [group |-> GroupOf(ks, rows[n].key), times |-> rows[n].times,
                              values |-> rows[n].values, partial |-> TRUE]]
  PROVE  /\ Asked(feed, ks) = rows
         /\ \A n \in DOMAIN feed : RowFits(feed[n], Len(ks))
<1>1. /\ rows \in Seq(StateRow) /\ \A n \in DOMAIN rows : rows[n] \in StateRow /\ SoundRow(rows[n])
  BY DEF SoundRows
<1>2. Follow(known, ks, rows)
  <2>1. \A r \in StateRow : r.key \in Nat
    BY DEF StateRow
  <2> QED BY <1>1, <2>1, InternedFollow
<1>3. feed \in Seq(CallRow) /\ \A n \in DOMAIN feed : feed[n].group \in DOMAIN ks
  BY <1>1, MergeFeedTyped
<1> DEFINE asked == [n \in DOMAIN feed |-> AsStates(feed[n], ks)]
<1>4. DOMAIN feed = DOMAIN rows /\ DOMAIN asked = DOMAIN rows
  OBVIOUS
<1>5. ASSUME NEW n \in DOMAIN rows PROVE asked[n] = rows[n]
  <2> DEFINE r == rows[n]
             g == GroupOf(ks, r.key)
             row == [group |-> g, times |-> r.times, values |-> r.values, partial |-> TRUE]
  <2>1. r \in StateRow /\ ks[g] = r.key
    BY <1>1, <1>2 DEF Follow
  <2>2. asked[n] = AsStates(row, ks)
    BY <1>4
  <2> QED BY <2>1, <2>2, AsStatesOf
<1>6. asked = rows
  <2> DEFINE D == DOMAIN rows
  <2>1. rows = [n \in D |-> rows[n]] /\ asked = [n \in D |-> asked[n]]
    BY <1>1
  <2> HIDE DEF asked
  <2> QED BY <1>5, <2>1
<1>7. ASSUME NEW n \in DOMAIN feed PROVE RowFits(feed[n], Len(ks))
  <2>1. ks \in Seq(Nat)
    BY <1>2 DEF Follow, Continues
  <2>2. feed[n] \in CallRow /\ feed[n].group \in 1 .. Len(ks)
    <3>1. DOMAIN ks = 1 .. Len(ks)
      BY <2>1
    <3>2. feed \in Seq(CallRow) /\ feed[n].group \in DOMAIN ks
      BY <1>3
    <3>3. \A s \in Seq(CallRow) : \A k \in DOMAIN s : s[k] \in CallRow
      OBVIOUS
    <3> QED BY <3>1, <3>2, <3>3
  <2>3. feed[n].times = rows[n].times /\ feed[n].values = rows[n].values /\ SoundRow(rows[n])
    BY <1>1, <1>4
  <2>4. SoundRow(feed[n])
    BY <2>3 DEF SoundRow
  <2> QED BY <2>2, <2>4 DEF RowFits
<1> QED BY <1>6, <1>7 DEF Asked

\* What rows give that pass through is what is sent on, and each is a sound row.
LEMMA ConvertedGives ==
  ASSUME grid \in Grids, NEW rows \in Seq(InputRow), NEW out, out = [n \in DOMAIN rows |-> Converted(rows[n])],
         \A n \in DOMAIN rows : rows[n].skipped \/ Accepted(rows[n].times),
         NEW c, NEW t
  PROVE  /\ out \in Seq(SoundRows)
         /\ Spread(Out(c, t), out) = Spread(GivenOut(c, t), rows)
<1>1. DOMAIN out = DOMAIN rows /\ DOMAIN rows = 1 .. Len(rows) /\ Len(rows) \in Nat
      /\ \A n \in DOMAIN rows : rows[n] \in InputRow /\ out[n] = Converted(rows[n])
  OBVIOUS
<1>2. Spread(Out(c, t), out) = Spread(GivenOut(c, t), rows)
  <2>1. \A n \in DOMAIN rows : Out(c, t)[out[n]] = GivenOut(c, t)[rows[n]]
    BY <1>1, GivenTyped
  <2> QED BY <1>1, <2>1, SpreadAlike
<1>3. ASSUME NEW n \in DOMAIN rows PROVE out[n] \in SoundRows
  <2> DEFINE r == rows[n]
             v == Contributions(r)
  <2>1. r \in InputRow /\ out[n] = Converted(r) /\ out[n] \in StateRow
    BY <1>1, ConvertedTyped
  <2>2. CASE r.skipped
    <3>1. out[n].times = <<>>
      BY <2>1, <2>2 DEF Converted
    <3> QED BY <2>1, <3>1 DEF SoundRows, SoundRow
  <2>3. CASE ~r.skipped
    <3>1. out[n].times = r.times /\ \A k \in DOMAIN r.times : out[n].values[k] = Add(Fresh, v[k])
      BY <2>1, <2>3 DEF Converted
    <3>2. \A x : Full(Add(Fresh, x))
      <4> TAKE x
      <4>1. Add(Fresh, x) = [of |-> Append(<<>>, x), merges |-> 0]
        BY DEF Add, Fresh
      <4>2. Len(Append(<<>>, x)) = 1
        OBVIOUS
      <4> QED BY <4>1, <4>2 DEF Full
    <3>3. WellFormed(r.times) /\ r.times \in Seq(Int)
      <4>1. r.times \in Seq(Int) /\ Accepted(r.times)
        BY <1>1, <2>3 DEF InputRow
      <4> QED BY <4>1, AcceptedIsWellFormed
    <3>4. \A j, k \in DOMAIN r.times : r.times[j] = r.times[k] => j = k
      <4> TAKE j, k \in DOMAIN r.times
      <4>1. r.times[j] \in Int /\ r.times[k] \in Int /\ j \in Nat /\ k \in Nat
        BY <3>3
      <4>2. (j < k => r.times[j] < r.times[k]) /\ (k < j => r.times[k] < r.times[j])
        BY <3>3 DEF WellFormed
      <4> QED BY <4>1, <4>2
    <3> HIDE DEF v
    <3> QED BY <2>1, <3>1, <3>2, <3>4 DEF SoundRows, SoundRow
  <2> QED BY <2>2, <2>3
<1>4. out \in Seq(SoundRows)
  <2>1. out \in [1 .. Len(rows) -> SoundRows]
    BY <1>1, <1>3
  <2> QED BY <1>1, <2>1
<1> QED BY <1>2, <1>4

-----------------------------------------------------------------------------
\* The ids of rows, none twice.
Rows(W, q) ==
  /\ W \in Seq(InputRow) /\ q = [n \in DOMAIN W |-> W[n].id]
  /\ \A m, n \in DOMAIN W : W[m].id = W[n].id => m = n

\* One's own contributions are contributions.
LEMMA OwnedTyped ==
  ASSUME NEW ids
  PROVE  /\ Spreads(Owned(ids), Seq(Int), Seq(Int))
         /\ \A e \in Seq(Int) : Owned(ids)[e] = IF e[1] \in ids THEN <<e>> ELSE <<>>
<1> DEFINE Z == Seq(Int)
<1>1. \A e \in Z : (IF e[1] \in ids THEN <<e>> ELSE <<>>) \in Seq(Z)
  <2> HIDE DEF Z
  <2> QED OBVIOUS
<1>2. Owned(ids) = [e \in Z |-> IF e[1] \in ids THEN <<e>> ELSE <<>>]
  BY DEF Owned
<1> HIDE DEF Z
<1> DEFINE Y == Seq(Z)
<1>3. Owned(ids) \in [Z -> Y]
  <2>1. \A e \in Z : (IF e[1] \in ids THEN <<e>> ELSE <<>>) \in Y
    BY <1>1
  <2> HIDE DEF Y
  <2> QED BY <1>2, <2>1
<1>4. \A e \in Z : Owned(ids)[e] = IF e[1] \in ids THEN <<e>> ELSE <<>>
  BY <1>2
<1> QED BY <1>3, <1>4 DEF Spreads, Z, Y

\* What is all one's own stays, what is all of others goes.
LEMMA OwnedAll ==
  ASSUME NEW s, s \in Seq(Seq(Int)), NEW ids
  PROVE  /\ OfIds(ids, s) => Spread(Owned(ids), s) = s
         /\ \A others : others \cap ids = {} /\ OfIds(others, s) => Spread(Owned(ids), s) = <<>>
<1> DEFINE X == Seq(Int)
           F == Owned(ids)
<1>1. Spreads(F, X, X) /\ \A e \in X : F[e] = IF e[1] \in ids THEN <<e>> ELSE <<>>
  BY OwnedTyped
<1>2. s \in Seq(X) /\ \A n \in DOMAIN s : s[n] \in X
  OBVIOUS
<1> HIDE DEF X, F
<1>3. ASSUME OfIds(ids, s) PROVE Spread(F, s) = s
  <2>1. \A n \in DOMAIN s : F[s[n]] = <<s[n]>>
    BY <1>1, <1>2, <1>3 DEF OfIds
  <2> QED BY <1>1, <1>2, <2>1, SpreadTrivial
<1>4. ASSUME NEW others, others \cap ids = {}, OfIds(others, s) PROVE Spread(F, s) = <<>>
  <2>1. \A n \in DOMAIN s : F[s[n]] = <<>>
    BY <1>1, <1>2, <1>4 DEF OfIds
  <2> QED BY <1>1, <1>2, <2>1, SpreadTrivial
<1> QED BY <1>3, <1>4 DEF F

\* What a row of input gives is its id and the time, or nothing.
LEMMA GivesOne ==
  ASSUME NEW r \in InputRow, NEW c, NEW t
  PROVE  GivenOut(c, t)[r] = <<>> \/ GivenOut(c, t)[r] = << <<r.id, t>> >>
<1>1. GivenOut(c, t)[r] = OfRow(Converted(r), c, t)
  BY GivenTyped
<1>2. CASE r.skipped
  BY <1>2, SkippedGives
<1>3. CASE ~r.skipped
  <2> DEFINE v == Contributions(r)
             vs == [k \in DOMAIN r.times |-> Add(Fresh, v[k])]
             row == Converted(r)
  <2>1. row = [key |-> r.key, times |-> r.times, values |-> vs]
    BY <1>3 DEF Converted
  <2>2. CASE r.key = c /\ \E k \in DOMAIN r.times : r.times[k] = t
    <3> DEFINE k == CHOOSE k \in DOMAIN r.times : r.times[k] = t
    <3>1. k \in DOMAIN r.times /\ r.times[k] = t
      BY <2>2
    <3>2. OfRow(row, c, t) = vs[k].of
      <4> HIDE DEF vs, row
      <4>1. row.key = r.key /\ row.times = r.times /\ row.values = vs
        BY <2>1
      <4> QED BY <2>2, <4>1 DEF OfRow
    <3> HIDE DEF k
    <3>3. vs[k] = Add(Fresh, <<r.id, t>>)
      BY <3>1 DEF Contributions
    <3>4. Add(Fresh, <<r.id, t>>).of = << <<r.id, t>> >>
      <4>1. Append(<<>>, <<r.id, t>>) = << <<r.id, t>> >>
        OBVIOUS
      <4> QED BY <4>1 DEF Add, Fresh
    <3> QED BY <1>1, <3>2, <3>3, <3>4
  <2>3. CASE ~(r.key = c /\ \E k \in DOMAIN r.times : r.times[k] = t)
    <3>1. row.key = r.key /\ row.times = r.times
      <4> HIDE DEF vs, row
      <4> QED BY <2>1
    <3>2. OfRow(row, c, t) = <<>>
      <4> HIDE DEF row
      <4> QED BY <2>3, <3>1 DEF OfRow
    <3> QED BY <1>1, <3>2
  <2> QED BY <2>2, <2>3
<1> QED BY <1>2, <1>3

\* What rows give is of their ids, in their order.
LEMMA GivenInOrder ==
  ASSUME NEW W, NEW q, Rows(W, q), NEW c \in Nat, NEW t \in Int
  PROVE  /\ OfIds(IdsOf(q), Spread(GivenOut(c, t), W)) /\ InOrder(q, Spread(GivenOut(c, t), W))
         /\ Spread(GivenOut(c, t), W) \in Seq(Seq(Int))
<1> DEFINE P(k) == SubSeq(W, 1, k)
           F == GivenOut(c, t)
           X == Seq(Int)
           G(k) == Spread(F, P(k))
           Within(k) == \A n \in DOMAIN G(k) : \E i \in 1 .. k : G(k)[n][1] = W[i].id
           Ok(k) == Within(k) /\ InOrder(q, G(k))
           S == {k \in 0 .. Len(W) : Ok(k)}
<1>0. /\ W \in Seq(InputRow) /\ q = [n \in DOMAIN W |-> W[n].id]
      /\ \A m, n \in DOMAIN W : W[m].id = W[n].id => m = n
  BY DEF Rows
<1>1. /\ Len(W) \in Nat /\ DOMAIN W = 1 .. Len(W) /\ P(0) = <<>> /\ P(Len(W)) = W
      /\ \A k \in 0 .. Len(W) : P(k) \in Seq(InputRow)
      /\ \A k \in 0 .. Len(W) - 1 :
           /\ k \in 0 .. Len(W) /\ k + 1 \in 0 .. Len(W) /\ k + 1 \in 1 .. Len(W) /\ W[k + 1] \in InputRow
           /\ P(k + 1) = Append(P(k), W[k + 1])
  BY <1>0
<1>2. \A i \in 1 .. Len(W) : W[i].id \in IdsOf(q) /\ Place(q, W[i].id) = i
  <2> TAKE i \in 1 .. Len(W)
  <2>1. DOMAIN q = 1 .. Len(W) /\ \A n \in 1 .. Len(W) : q[n] = W[n].id
    BY <1>0, <1>1
  <2>2. \A n \in DOMAIN q : q[n] = W[i].id => n = i
    BY <1>0, <1>1, <2>1
  <2> QED BY <2>1, <2>2 DEF IdsOf, Place
<1>3. Spreads(F, InputRow, X)
  BY GivenTyped
<1>4. \A k : k \in S <=> k \in 0 .. Len(W) /\ Ok(k)
  OBVIOUS
<1> HIDE DEF S, F, X, P
<1>5. 0 \in S
  <2>1. G(0) = <<>>
    BY <1>1, SpreadNone
  <2>2. 0 \in 0 .. Len(W)
    BY <1>1
  <2> HIDE DEF G
  <2>3. Ok(0)
    BY <2>1 DEF InOrder
  <2> HIDE DEF Ok
  <2> QED BY <1>4, <2>2, <2>3
<1>6. \A k \in 0 .. Len(W) - 1 : k \in S => k + 1 \in S
  <2> SUFFICES ASSUME NEW k \in 0 .. Len(W) - 1, k \in S PROVE k + 1 \in S
    OBVIOUS
  <2> DEFINE p == P(k)
             r == W[k + 1]
             old == G(k)
             new == G(k + 1)
             e == <<r.id, t>>
  <2>1. /\ k \in 0 .. Len(W) /\ k + 1 \in 0 .. Len(W) /\ k + 1 \in 1 .. Len(W)
        /\ p \in Seq(InputRow) /\ r \in InputRow /\ P(k + 1) = Append(p, r)
    BY <1>1
  <2>2. /\ \A n \in DOMAIN old : \E i \in 1 .. k : old[n][1] = W[i].id
        /\ InOrder(q, old)
    BY <1>4
  <2>3. old = Spread(F, p)
    OBVIOUS
  <2> HIDE DEF p, r, G
  <2>4. Spread(F, Append(p, r)) = Spread(F, p) \o F[r]
    <3>1. p \in Seq(InputRow) /\ r \in InputRow
      BY <2>1
    <3> QED BY <1>3, <3>1, SpreadAppend
  <2>5. new = old \o F[r]
    BY <2>1, <2>3, <2>4 DEF G, p
  <2>6. old \in Seq(X)
    BY <1>3, <2>1, <2>3, SpreadType
  <2>7. e \in X /\ e[1] = r.id
    <3>1. r.id \in Int /\ t \in Int
      BY <2>1 DEF InputRow
    <3> QED BY <3>1 DEF X
  <2> HIDE DEF old, new, e
  <2>8. new = old \/ new = Append(old, e)
    <3>1. F[r] = <<>> \/ F[r] = <<e>>
      BY <2>1, GivesOne DEF F, e
    <3>2. old \o <<>> = old
      BY <2>6, ConcatEmptySeq
    <3>3. old \o <<e>> = Append(old, e)
      BY <2>6, <2>7, Ones
    <3> QED BY <2>5, <3>1, <3>2, <3>3
  <2>9. \A i \in 1 .. k : i \in 1 .. k + 1 /\ i \in 1 .. Len(W) /\ i < k + 1
    BY <1>1, <2>1
  <2>10. k + 1 \in 1 .. k + 1
    BY <2>1
  <2>11. CASE new = old
    <3>1. Ok(k + 1)
      <4>1. \A n \in DOMAIN new : \E i \in 1 .. k + 1 : new[n][1] = W[i].id
        BY <2>2, <2>9, <2>11
      <4> QED BY <2>2, <2>11, <4>1 DEF new
    <3> QED BY <1>4, <2>1, <3>1
  <2>12. CASE new = Append(old, e)
    <3> DEFINE l == Len(old)
    <3>1. /\ l \in Nat /\ DOMAIN old = 1 .. l /\ DOMAIN new = 1 .. l + 1 /\ new[l + 1] = e
          /\ \A n \in 1 .. l : new[n] = old[n]
      BY <2>6, <2>7, <2>12
    <3> HIDE DEF l
    <3>2. \A n \in 1 .. l + 1 : n \in 1 .. l \/ n = l + 1
      BY <3>1
    <3>3. \A n \in DOMAIN new : \E i \in 1 .. k + 1 : new[n][1] = W[i].id
      <4> TAKE n \in DOMAIN new
      <4>1. CASE n \in 1 .. l
        BY <2>2, <2>9, <3>1, <4>1
      <4>2. CASE n = l + 1
        BY <2>7, <2>10, <3>1, <4>2 DEF r
      <4> QED BY <3>1, <3>2, <4>1, <4>2
    <3>4. InOrder(q, new)
      <4> SUFFICES ASSUME NEW m \in DOMAIN new, NEW n \in DOMAIN new, m < n,
                          new[m][1] \in IdsOf(q), new[n][1] \in IdsOf(q)
                   PROVE  Place(q, new[m][1]) < Place(q, new[n][1])
        BY DEF InOrder
      <4>1. m \in 1 .. l
        BY <3>1
      <4>2. CASE n \in 1 .. l
        BY <2>2, <3>1, <4>1, <4>2 DEF InOrder
      <4>3. CASE n = l + 1
        <5>1. new[n][1] = W[k + 1].id
          BY <2>7, <3>1, <4>3 DEF r
        <5>2. PICK i \in 1 .. k : new[m][1] = W[i].id
          BY <2>2, <3>1, <4>1
        <5> QED BY <1>2, <2>1, <2>9, <5>1, <5>2
      <4> QED BY <3>1, <3>2, <4>2, <4>3
    <3>5. Ok(k + 1)
      BY <3>3, <3>4 DEF new
    <3> QED BY <1>4, <2>1, <3>5
  <2> QED BY <2>8, <2>11, <2>12
<1>7. Len(W) \in S
  <2>1. \A k \in 0 .. Len(W) : k \in S
    BY <1>1, <1>5, <1>6, Induct
  <2> QED BY <1>1, <2>1
<1>8. Ok(Len(W)) /\ G(Len(W)) = Spread(F, W)
  BY <1>1, <1>4, <1>7
<1>9. OfIds(IdsOf(q), Spread(F, W))
  BY <1>2, <1>8 DEF OfIds
<1>10. Spread(F, W) \in Seq(X)
  BY <1>0, <1>3, SpreadType
<1> QED BY <1>8, <1>9, <1>10 DEF F, X

\* Contributions are in order when one's own of them are.
LEMMA OwnInOrder ==
  ASSUME NEW s, s \in Seq(Seq(Int)), NEW q, InOrder(q, Spread(Owned(IdsOf(q)), s))
  PROVE  InOrder(q, s)
<1> DEFINE P(k) == SubSeq(s, 1, k)
           F == Owned(IdsOf(q))
           X == Seq(Int)
           G(k) == Spread(F, P(k))
           Held(k) == \A n \in 1 .. k : s[n][1] \in IdsOf(q) => \E m \in DOMAIN G(k) : G(k)[m] = s[n]
           Ord(k) == \A m, n \in 1 .. k : m < n /\ s[m][1] \in IdsOf(q) /\ s[n][1] \in IdsOf(q)
                                            => Place(q, s[m][1]) < Place(q, s[n][1])
           Ok(k) == Held(k) /\ Ord(k)
           S == {k \in 0 .. Len(s) : Ok(k)}
<1>1. /\ Len(s) \in Nat /\ DOMAIN s = 1 .. Len(s) /\ P(0) = <<>>
      /\ \A k \in 0 .. Len(s) : P(k) \in Seq(X)
      /\ \A k \in 0 .. Len(s) - 1 :
           /\ k \in 0 .. Len(s) /\ k + 1 \in 0 .. Len(s) /\ k + 1 \in 1 .. Len(s) /\ s[k + 1] \in X
           /\ P(k + 1) = Append(P(k), s[k + 1])
  OBVIOUS
<1>2. Spreads(F, X, X) /\ \A e \in X : F[e] = IF e[1] \in IdsOf(q) THEN <<e>> ELSE <<>>
  BY OwnedTyped
<1>3. \A k : k \in S <=> k \in 0 .. Len(s) /\ Ok(k)
  OBVIOUS
<1>4. \A k \in 0 .. Len(s) : InOrder(q, G(k))
  <2> TAKE k \in 0 .. Len(s)
  <2> DEFINE a == P(k)
             b == SubSeq(s, k + 1, Len(s))
             x == Spread(F, a)
             y == Spread(F, b)
  <2>1. s \in Seq(X)
    OBVIOUS
  <2> HIDE DEF X, F
  <2>2. Parts(X, s, k, a, b)
    BY <2>1, Parted
  <2> HIDE DEF a, b
  <2>3. a \in Seq(X) /\ b \in Seq(X) /\ s = a \o b
    BY <2>2 DEF Parts
  <2>4. Spread(F, s) = x \o y
    BY <1>2, <2>3, SpreadConcat
  <2>5. x \in Seq(X) /\ y \in Seq(X)
    BY <1>2, <2>3, SpreadType
  <2>6. InOrder(q, x \o y)
    BY <2>4 DEF F
  <2> HIDE DEF x, y
  <2> DEFINE z == x \o y
  <2>7. Pieces(z, x, y)
    BY <2>5, JoinedPieces
  <2>8. InOrder(q, z)
    BY <2>6
  <2> HIDE DEF z
  <2>9. InOrder(q, x)
    BY <2>7, <2>8, OfPieces
  <2> QED BY <2>9 DEF x, a
<1> HIDE DEF S, F, X, P
<1>5. 0 \in S
  <2>1. 0 \in 0 .. Len(s)
    BY <1>1
  <2>2. Ok(0)
    OBVIOUS
  <2> HIDE DEF Ok
  <2> QED BY <1>3, <2>1, <2>2
<1>6. \A k \in 0 .. Len(s) - 1 : k \in S => k + 1 \in S
  <2> SUFFICES ASSUME NEW k \in 0 .. Len(s) - 1, k \in S PROVE k + 1 \in S
    OBVIOUS
  <2> DEFINE p == P(k)
             e == s[k + 1]
             old == G(k)
             new == G(k + 1)
  <2>1. /\ k \in 0 .. Len(s) /\ k + 1 \in 0 .. Len(s) /\ k + 1 \in 1 .. Len(s)
        /\ p \in Seq(X) /\ e \in X /\ P(k + 1) = Append(p, e)
    BY <1>1
  <2>2. /\ \A n \in 1 .. k : s[n][1] \in IdsOf(q) => \E m \in DOMAIN old : old[m] = s[n]
        /\ Ord(k)
    BY <1>3
  <2>3. old = Spread(F, p)
    OBVIOUS
  <2>a. InOrder(q, new)
    BY <1>4, <2>1
  <2> HIDE DEF p, e, G
  <2>4. Spread(F, Append(p, e)) = Spread(F, p) \o F[e]
    <3>1. p \in Seq(X) /\ e \in X
      BY <2>1
    <3> QED BY <1>2, <3>1, SpreadAppend
  <2>5. new = old \o F[e]
    BY <2>1, <2>3, <2>4 DEF G, p
  <2>6. old \in Seq(X)
    BY <1>2, <2>1, <2>3, SpreadType
  <2> HIDE DEF old, new
  <2>7. \A n \in 1 .. k + 1 : n \in 1 .. k \/ n = k + 1
    BY <2>1
  <2>8. CASE e[1] \notin IdsOf(q)
    <3>1. new = old
      <4>1. F[e] = <<>>
        BY <1>2, <2>1, <2>8
      <4>2. old \o <<>> = old
        BY <2>6, ConcatEmptySeq
      <4> QED BY <2>5, <4>1, <4>2
    <3>2. Held(k + 1)
      BY <2>2, <2>7, <2>8, <3>1 DEF e, new
    <3>3. Ord(k + 1)
      BY <2>2, <2>7, <2>8 DEF e
    <3> QED BY <1>3, <2>1, <3>2, <3>3
  <2>9. CASE e[1] \in IdsOf(q)
    <3> DEFINE l == Len(old)
    <3>1. new = Append(old, e)
      <4>1. F[e] = <<e>>
        BY <1>2, <2>1, <2>9
      <4>2. old \o <<e>> = Append(old, e)
        BY <2>1, <2>6, Ones
      <4> QED BY <2>5, <4>1, <4>2
    <3>2. /\ l \in Nat /\ DOMAIN old = 1 .. l /\ DOMAIN new = 1 .. l + 1 /\ new[l + 1] = e
          /\ \A n \in 1 .. l : new[n] = old[n]
      BY <2>1, <2>6, <3>1
    <3> HIDE DEF l
    <3>3. \A n \in 1 .. l : n \in 1 .. l + 1 /\ n < l + 1
      BY <3>2
    <3>4. l + 1 \in 1 .. l + 1
      BY <3>2
    <3>5. Held(k + 1)
      <4> SUFFICES ASSUME NEW n \in 1 .. k + 1, s[n][1] \in IdsOf(q)
                   PROVE  \E m \in DOMAIN new : new[m] = s[n]
        BY DEF new
      <4>1. CASE n \in 1 .. k
        <5>1. PICK m \in DOMAIN old : old[m] = s[n]
          BY <2>2, <4>1
        <5> QED BY <3>2, <3>3, <5>1
      <4>2. CASE n = k + 1
        BY <3>2, <3>4, <4>2 DEF e
      <4> QED BY <2>7, <4>1, <4>2
    <3>6. Ord(k + 1)
      <4> SUFFICES ASSUME NEW m \in 1 .. k + 1, NEW n \in 1 .. k + 1, m < n,
                          s[m][1] \in IdsOf(q), s[n][1] \in IdsOf(q)
                   PROVE  Place(q, s[m][1]) < Place(q, s[n][1])
        OBVIOUS
      <4>1. m \in 1 .. k
        BY <2>1
      <4>2. CASE n \in 1 .. k
        BY <2>2, <4>1, <4>2
      <4>3. CASE n = k + 1
        <5>1. PICK i \in DOMAIN old : old[i] = s[m]
          BY <2>2, <4>1
        <5>2. i \in DOMAIN new /\ l + 1 \in DOMAIN new /\ i < l + 1 /\ new[i] = s[m] /\ new[l + 1] = s[n]
          BY <3>2, <3>3, <3>4, <4>3, <5>1 DEF e
        <5> QED BY <2>a, <5>2 DEF InOrder
      <4> QED BY <2>7, <4>2, <4>3
    <3> QED BY <1>3, <2>1, <3>5, <3>6
  <2> QED BY <2>8, <2>9
<1>7. Len(s) \in S
  <2>1. \A k \in 0 .. Len(s) : k \in S
    BY <1>1, <1>5, <1>6, Induct
  <2> QED BY <1>1, <2>1
<1>8. Ord(Len(s))
  BY <1>3, <1>7
<1> QED BY <1>1, <1>8 DEF InOrder

-----------------------------------------------------------------------------
\* A trail of contributions: one's own at the final, then those on their way.
TrailIs(ids, final, part, given) == Spread(Owned(ids), final) \o part = given

\* Contributions.
Told == Seq(Seq(Int))

\* What a partial is given, it has behind what it had.
LEMMA TrailGrows ==
  ASSUME NEW ids, NEW final \in Told, NEW part \in Told, NEW given, NEW more \in Told,
         TrailIs(ids, final, part, given)
  PROVE  TrailIs(ids, final, part \o more, given \o more)
<1> DEFINE X == Seq(Int)
           a == Spread(Owned(ids), final)
<1>1. Spreads(Owned(ids), X, X) /\ final \in Seq(X) /\ part \in Seq(X) /\ more \in Seq(X)
  BY OwnedTyped DEF Told
<1> HIDE DEF X
<1>2. a \in Seq(X)
  BY <1>1, SpreadType
<1>3. a \o part = given
  BY DEF TrailIs
<1> HIDE DEF a
<1>4. (a \o part) \o more = a \o (part \o more)
  BY <1>1, <1>2, Regroups
<1> QED BY <1>3, <1>4 DEF TrailIs, a

\* What the final takes of a partial's, it has behind what it had of it.
LEMMA TrailMoves ==
  ASSUME NEW ids, NEW final \in Told, NEW part \in Told, NEW given \in Told, NEW more \in Told,
         TrailIs(ids, final, more \o part, given), OfIds(ids, given)
  PROVE  TrailIs(ids, final \o more, part, given) /\ OfIds(ids, more)
<1> DEFINE X == Seq(Int)
           F == Owned(ids)
           a == Spread(F, final)
           mp == more \o part
<1>1. Spreads(F, X, X) /\ final \in Seq(X) /\ part \in Seq(X) /\ more \in Seq(X)
  BY OwnedTyped DEF Told
<1> HIDE DEF X
<1>2. a \in Seq(X)
  BY <1>1, SpreadType
<1>3. a \o mp = given
  BY DEF TrailIs
<1>4. mp \in Seq(X) /\ Pieces(mp, more, part)
  BY <1>1, JoinedPieces
<1> HIDE DEF a, mp
<1>5. Pieces(given, a, mp)
  BY <1>2, <1>3, <1>4, JoinedPieces
<1>6. OfIds(ids, more)
  BY <1>4, <1>5, OfPieces
<1>7. Spread(F, more) = more
  BY <1>6, OwnedAll DEF Told
<1> HIDE DEF F
<1>8. Spread(F, final \o more) = a \o more
  <2>1. Spread(F, final \o more) = Spread(F, final) \o Spread(F, more)
    BY <1>1, SpreadConcat
  <2> QED BY <1>7, <2>1 DEF a
<1>9. (a \o more) \o part = a \o mp
  BY <1>1, <1>2, Regroups DEF mp
<1> QED BY <1>3, <1>6, <1>8, <1>9 DEF TrailIs, F

\* What the final takes of another's is not on one's trail.
LEMMA TrailPasses ==
  ASSUME NEW ids, NEW final \in Told, NEW part \in Told, NEW given, NEW more \in Told,
         NEW others, OfIds(others, more), others \cap ids = {}, TrailIs(ids, final, part, given)
  PROVE  TrailIs(ids, final \o more, part, given)
<1> DEFINE X == Seq(Int)
           F == Owned(ids)
           a == Spread(F, final)
<1>1. Spreads(F, X, X) /\ final \in Seq(X) /\ more \in Seq(X)
  BY OwnedTyped DEF Told
<1>2. Spread(F, more) = <<>>
  BY OwnedAll DEF Told
<1> HIDE DEF X, F
<1>3. a \in Seq(X)
  BY <1>1, SpreadType
<1>4. Spread(F, final \o more) = a \o <<>>
  <2>1. Spread(F, final \o more) = Spread(F, final) \o Spread(F, more)
    BY <1>1, SpreadConcat
  <2> QED BY <1>2, <2>1 DEF a
<1>5. a \o <<>> = a
  BY <1>3, ConcatEmptySeq
<1> QED BY <1>4, <1>5 DEF TrailIs, F

-----------------------------------------------------------------------------
\* The rows of the partials are different rows.
Apart ==
  \A p \in Partials :
    /\ Rows(FlattenSeq(input[p]), Sequence(p))
    /\ \A q \in Partials : q # p => Ids(q) \cap Ids(p) = {}

\* Rows of states have contributions.
LEMMA SoundTyped ==
  ASSUME NEW rows, rows \in Seq(SoundRows), NEW c, NEW t
  PROVE  rows \in Seq(StateRow) /\ Spread(Out(c, t), rows) \in Told
<1>1. rows \in Seq(StateRow)
  BY DEF SoundRows
<1> DEFINE X == Seq(Int)
<1>2. Spreads(Out(c, t), StateRow, X)
  BY OutTyped
<1> HIDE DEF X
<1>3. Spread(Out(c, t), rows) \in Seq(X)
  BY <1>1, <1>2, SpreadType
<1> QED BY <1>1, <1>3 DEF Told, X

\* Two sequences of rows, one behind the other.
LEMMA SoundConcat ==
  ASSUME NEW a, a \in Seq(SoundRows), NEW b, b \in Seq(SoundRows), NEW c, NEW t, NEW s, s = a \o b
  PROVE  s \in Seq(SoundRows) /\ Joined(Spread(Out(c, t), s), Spread(Out(c, t), a), Spread(Out(c, t), b))
<1> DEFINE X == Seq(Int)
           Y == SoundRows
<1>1. Spreads(Out(c, t), StateRow, X) /\ a \in Seq(StateRow) /\ b \in Seq(StateRow)
  BY OutTyped, SoundTyped
<1>2. a \in Seq(Y) /\ b \in Seq(Y)
  OBVIOUS
<1> HIDE DEF X, Y
<1>3. s \in Seq(Y)
  BY <1>2, ConcatProperties
<1>4. Spread(Out(c, t), s) = Spread(Out(c, t), a) \o Spread(Out(c, t), b)
  BY <1>1, SpreadConcat
<1> QED BY <1>3, <1>4 DEF Joined, Y

\* The parts of a trail are contributions.
LEMMA TrailTyped ==
  ASSUME AllStocked, CallFits, RowsSound, NEW p, p \in Partials, NEW c \in Nat, NEW t \in Int
  PROVE  /\ Spread(Out(c, t), answers) \in Told /\ HeldBy(Final, c, t) \in Told /\ FinalOf(c, t) \in Told
         /\ FlattenSeq(sent[p]) \in Seq(SoundRows)
         /\ Spread(Out(c, t), FlattenSeq(sent[p])) \in Told /\ HeldBy(p, c, t) \in Told
         /\ PartialOf(p, c, t) \in Told
<1>1. answers \in Seq(SoundRows) /\ sent[p] \in Seq(Seq(SoundRows))
  BY DEF RowsSound
<1> DEFINE rows == FlattenSeq(sent[p])
<1>2. rows \in Seq(SoundRows)
  BY <1>1, FlattenType
<1> HIDE DEF rows
<1>3. Spread(Out(c, t), answers) \in Told /\ Spread(Out(c, t), rows) \in Told
  BY <1>1, <1>2, SoundTyped
<1>4. HeldBy(Final, c, t) \in Told /\ HeldBy(p, c, t) \in Told
  BY HeldTyped DEF Accumulators, Told
<1> DEFINE X == Seq(Int)
<1>5. \A a, b \in Seq(X) : a \o b \in Seq(X)
  <2> HIDE DEF X
  <2> QED BY Associates
<1> QED BY <1>2, <1>3, <1>4, <1>5 DEF FinalOf, PartialOf, Told, rows

\* What a partial was given, it was given of its rows, in their order.
LEMMA GivenApart ==
  ASSUME InputsOK, Apart, NEW p, p \in Partials, NEW c \in Nat, NEW t \in Int
  PROVE  /\ OfIds(Ids(p), GivenOf(p, c, t)) /\ InOrder(Sequence(p), GivenOf(p, c, t))
         /\ GivenOf(p, c, t) \in Told /\ Ids(p) = IdsOf(Sequence(p))
<1> DEFINE in == input[p]
           k == taken[p]
           a == SubSeq(in, 1, k)
           b == SubSeq(in, k + 1, Len(in))
           R == Seq(InputRow)
           W == FlattenSeq(in)
           x == FlattenSeq(a)
           y == FlattenSeq(b)
           G == GivenOut(c, t)
           X == Seq(Int)
<1>0. in \in Seq(R) /\ k \in 0 .. Len(in)
  BY DEF InputsOK
<1>1. Rows(W, Sequence(p)) /\ Ids(p) = IdsOf(Sequence(p))
  BY DEF Apart, Ids, IdsOf
<1> HIDE DEF in, k, R
<1>2. Parts(R, in, k, a, b)
  BY <1>0, Parted
<1> HIDE DEF a, b
<1>3. a \in Seq(R) /\ b \in Seq(R) /\ in = a \o b
  BY <1>2 DEF Parts
<1>4. W = x \o y
  BY <1>3, FlattenConcat DEF R
<1>5. x \in Seq(InputRow) /\ y \in Seq(InputRow)
  BY <1>3, FlattenType DEF R
<1>6. GivenOf(p, c, t) = Spread(G, x)
  BY DEF GivenOf, TakenRows, x, a, in, k
<1>7. Spreads(G, InputRow, X)
  BY GivenTyped
<1>8. /\ OfIds(IdsOf(Sequence(p)), Spread(G, W)) /\ InOrder(Sequence(p), Spread(G, W))
  BY <1>1, GivenInOrder
<1> HIDE DEF x, y, G, X, W
<1>9. Spread(G, W) = Spread(G, x) \o Spread(G, y)
  BY <1>4, <1>5, <1>7, SpreadConcat
<1>10. Spread(G, x) \in Seq(X) /\ Spread(G, y) \in Seq(X)
  BY <1>5, <1>7, SpreadType
<1>11. Pieces(Spread(G, W), Spread(G, x), Spread(G, y))
  BY <1>9, <1>10, JoinedPieces
<1> QED BY <1>1, <1>6, <1>8, <1>10, <1>11, OfPieces DEF Told, X

\* A batch a partial takes gives behind what those before gave.
LEMMA GivenMore ==
  ASSUME InputsOK, input' = input, NEW p, p \in Partials, taken[p] < Len(input[p]),
         taken' = [taken EXCEPT ![p] = @ + 1], NEW rows, rows = input[p][taken[p] + 1],
         NEW c \in Nat, NEW t \in Int
  PROVE  /\ rows \in Seq(InputRow) /\ Spread(GivenOut(c, t), rows) \in Told
         /\ GivenOf(p, c, t)' = GivenOf(p, c, t) \o Spread(GivenOut(c, t), rows)
         /\ \A q \in Partials : q # p => GivenOf(q, c, t)' = GivenOf(q, c, t)
<1> DEFINE in == input[p]
           k == taken[p]
           R == Seq(InputRow)
           a == SubSeq(in, 1, k)
           x == FlattenSeq(a)
           G == GivenOut(c, t)
           X == Seq(Int)
<1>0. /\ in \in Seq(R) /\ k \in Nat /\ k + 1 \in 1 .. Len(in) /\ rows = in[k + 1]
      /\ taken'[p] = k + 1 /\ \A q \in Partials : q # p => taken'[q] = taken[q]
  BY DEF InputsOK
<1>1. /\ rows \in R /\ a \in Seq(R) /\ SubSeq(in, 1, k + 1) = Append(a, rows)
  <2> HIDE DEF in, k, R
  <2> QED BY <1>0
<1>2. GivenOf(p, c, t) = Spread(G, x)
  BY DEF GivenOf, TakenRows
<1>3. GivenOf(p, c, t)' = Spread(G, FlattenSeq(Append(a, rows)))
  <2>1. GivenOf(p, c, t)' = Spread(G, FlattenSeq(SubSeq(in, 1, taken'[p])))
    BY DEF GivenOf, TakenRows, GivenOut, OfRow, Converted, Contributions
  <2>2. taken'[p] = k + 1
    BY <1>0
  <2> QED BY <1>1, <2>1, <2>2
<1>4. Spreads(G, InputRow, X)
  BY GivenTyped
<1> HIDE DEF in, k, a, G, X, R
<1>5. FlattenSeq(Append(a, rows)) = x \o rows /\ x \in R
  BY <1>1, FlattenAppend, FlattenType DEF R
<1> HIDE DEF x
<1>6. Spread(G, x \o rows) = Spread(G, x) \o Spread(G, rows)
  <2>1. x \in Seq(InputRow) /\ rows \in Seq(InputRow)
    BY <1>1, <1>5 DEF R
  <2>2. ASSUME NEW u, NEW v, u \in Seq(InputRow), v \in Seq(InputRow)
        PROVE  Spread(G, u \o v) = Spread(G, u) \o Spread(G, v)
    BY <1>4, <2>2, SpreadConcat
  <2> QED BY <2>1, <2>2
<1>7. Spread(G, rows) \in Seq(X)
  BY <1>1, <1>4, SpreadType DEF R
<1>8. ASSUME NEW q \in Partials, q # p PROVE GivenOf(q, c, t)' = GivenOf(q, c, t)
  <2>1. taken'[q] = taken[q]
    BY <1>0, <1>8
  <2> QED BY <2>1 DEF GivenOf, TakenRows
<1> QED BY <1>1, <1>2, <1>3, <1>5, <1>6, <1>7, <1>8 DEF Told, G, X, R

\* A step that leaves the parts of a trail leaves the trail.
LEMMA TrailKept ==
  ASSUME NEW p, NEW c, NEW t, Trail(p, c, t), Ids(p)' = Ids(p), FinalOf(c, t)' = FinalOf(c, t),
         PartialOf(p, c, t)' = PartialOf(p, c, t), GivenOf(p, c, t)' = GivenOf(p, c, t)
  PROVE  Trail(p, c, t)'
BY DEF Trail

\* The ids are those of the input.
LEMMA IdsKept ==
  ASSUME input' = input
  PROVE  /\ \A p \in Partials : Ids(p)' = Ids(p)
         /\ Apart => Apart'
<1>1. \A p \in Partials : Ids(p)' = Ids(p) /\ Sequence(p)' = Sequence(p)
  BY DEF Ids, Sequence
<1>2. Apart => Apart'
  BY <1>1 DEF Apart
<1> QED BY <1>1, <1>2

-----------------------------------------------------------------------------
\* What accumulators, rows on their way and the call are made of.
AllSound == AllStocked /\ RowsSound /\ CallFits /\ Apart

\* Every partial's trail, of every key and time.
Trails == \A p \in Partials : \A c \in Nat : \A t \in Int : Trail(p, c, t)

\* A partial that is given more and has it behind what it had keeps its trail.
LEMMA TrailAdded ==
  ASSUME AllSound, NEW p \in Partials, NEW c \in Nat, NEW t \in Int, Trail(p, c, t),
         NEW more \in Told, Ids(p)' = Ids(p), FinalOf(c, t)' = FinalOf(c, t),
         PartialOf(p, c, t)' = PartialOf(p, c, t) \o more, GivenOf(p, c, t)' = GivenOf(p, c, t) \o more
  PROVE  Trail(p, c, t)'
<1> DEFINE ids == Ids(p)
           final == FinalOf(c, t)
           part == PartialOf(p, c, t)
           given == GivenOf(p, c, t)
<1>1. final \in Told /\ part \in Told
  BY TrailTyped DEF AllSound
<1>2. TrailIs(ids, final, part, given)
  BY DEF Trail, TrailIs
<1>3. PICK i, f, b, g : i = ids /\ f = final /\ b = part /\ g = given
  OBVIOUS
<1>4. Ids(p)' = i /\ FinalOf(c, t)' = f /\ PartialOf(p, c, t)' = b \o more /\ GivenOf(p, c, t)' = g \o more
  BY <1>3
<1>5. f \in Told /\ b \in Told /\ TrailIs(i, f, b, g)
  BY <1>1, <1>2, <1>3
<1> HIDE DEF ids, final, part, given
<1>6. TrailIs(i, f, b \o more, g \o more)
  BY <1>5, TrailGrows
<1> QED BY <1>4, <1>6 DEF Trail, TrailIs

\* A partial's next batch (update_batch).
LEMMA UpdateTrails ==
  ASSUME IInv, AllSound, Trails, NEW p \in Partials, Update(p)
  PROVE  AllSound' /\ Trails'
<1> DEFINE rows == input[p][taken[p] + 1]
           ks == Interned(keys[p], rows)
           feed == [n \in DOMAIN Unskipped(rows) |->
                      LET r == Unskipped(rows)[n]
                      IN  [group |-> GroupOf(ks, r.key), times |-> r.times,
                           values |-> Contributions(r), partial |-> FALSE]]
           asked == Asked(feed, ks)
<1>0. InputsOK /\ KeysOK /\ DOMAIN store = Accumulators /\ AllStocked /\ RowsSound /\ CallFits /\ Apart
  BY DEF IInv, StoresOK, AllSound
<1>1. /\ call = <<>> /\ p \notin skipping /\ taken[p] < Len(input[p])
      /\ Open(p, rows, feed) /\ taken' = [taken EXCEPT ![p] = @ + 1]
      /\ grid' = grid /\ input' = input /\ skipping' = skipping /\ sent' = sent /\ answers' = answers
  BY Zenon DEF Update, Idle
<1>2. \A c \in Nat : \A t \in Int :
        /\ rows \in Seq(InputRow) /\ Spread(GivenOut(c, t), rows) \in Told
        /\ GivenOf(p, c, t)' = GivenOf(p, c, t) \o Spread(GivenOut(c, t), rows)
        /\ \A q \in Partials : q # p => GivenOf(q, c, t)' = GivenOf(q, c, t)
  <2> TAKE c \in Nat
  <2> TAKE t \in Int
  <2> QED BY <1>0, <1>1, GivenMore
<1>3. rows \in Seq(InputRow)
  <2>1. 0 \in Nat /\ 0 \in Int
    OBVIOUS
  <2> QED BY <1>2, <2>1
<1>4. p \in Accumulators /\ Final \in Accumulators /\ p # Final /\ keys[p] \in Seq(Nat) /\ Distinct(keys[p])
  BY <1>0, AggregateAssumption DEF Accumulators, AllStocked, Stocked
<1>5. ks = Interned(keys[p], rows) /\ feed = FeedOf(ks, Unskipped(rows))
  BY DEF FeedOf
<1>6. keys' = [keys EXCEPT ![p] = ks]
  BY <1>1 DEF Open
<1> HIDE DEF rows, ks, feed
<1>7. feed \in Seq(CallRow)
  BY <1>3, <1>4, <1>5, FeedTyped
<1>8. ASSUME NEW c \in Nat, NEW t \in Int
      PROVE  /\ Spread(Out(c, t), asked) = Spread(GivenOut(c, t), rows)
             /\ \A n \in DOMAIN feed : RowFits(feed[n], Len(ks))
  BY <1>3, <1>4, <1>5, FeedGives
<1>9. ASSUME NEW c \in Nat, NEW t \in Int
      PROVE  /\ AllStocked' /\ CallFits'
             /\ HasMore(p, c, t, Spread(Out(c, t), asked))
  <2>1. \A r \in InputRow : r.key \in Nat
    BY DEF InputRow
  <2>2. \A n \in DOMAIN feed : RowFits(feed[n], Len(ks))
    BY <1>8
  <2>3. AllStocked /\ KeysOK /\ CallFits /\ call = <<>> /\ grid' = grid /\ DOMAIN store = Accumulators
        /\ p \in Accumulators /\ ks = Interned(keys[p], rows) /\ Open(p, rows, feed)
    BY <1>0, <1>1, <1>4, <1>5
  <2> QED BY <1>3, <1>7, <2>1, <2>2, <2>3, OpenHolds
<1>10. AllStocked' /\ CallFits'
  <2>1. 0 \in Nat /\ 0 \in Int
    OBVIOUS
  <2> QED BY <1>9, <2>1
<1>11. RowsSound'
  <2>1. \A q \in skipping : keys'[q] = keys[q]
    <3> TAKE q \in skipping
    <3>1. q # p
      BY <1>1
    <3> QED BY <1>0, <1>6, <3>1 DEF KeysOK, RowsSound, Accumulators
  <2> QED BY <1>0, <1>1, <2>1 DEF RowsSound
<1>12. Apart' /\ \A q \in Partials : Ids(q)' = Ids(q)
  BY <1>0, <1>1, IdsKept
<1>13. ASSUME NEW q \in Partials, NEW c \in Nat, NEW t \in Int PROVE Trail(q, c, t)'
  <2> DEFINE more == Spread(GivenOut(c, t), rows)
  <2>1. Trail(q, c, t) /\ Ids(q)' = Ids(q)
    BY <1>12 DEF Trails
  <2>2. \A b \in Accumulators : b # p => HeldBy(b, c, t)' = HeldBy(b, c, t)
    <3> TAKE b \in Accumulators
    <3>1. HeldBy(b, c, t) \in Seq(Seq(Int))
      BY <1>0, HeldTyped
    <3>2. b # p => HeldBy(b, c, t)' = HeldBy(b, c, t) \o <<>>
      BY <1>9 DEF HasMore
    <3> QED BY <3>1, <3>2, ConcatEmptySeq
  <2>3. FinalOf(c, t)' = FinalOf(c, t)
    <3>1. HeldBy(Final, c, t)' = HeldBy(Final, c, t)
      BY <1>4, <2>2
    <3> QED BY <1>1, <3>1 DEF FinalOf
  <2>4. CASE q # p
    <3>1. HeldBy(q, c, t)' = HeldBy(q, c, t)
      BY <2>2, <2>4 DEF Accumulators
    <3>2. PartialOf(q, c, t)' = PartialOf(q, c, t)
      BY <1>1, <3>1 DEF PartialOf
    <3>3. GivenOf(q, c, t)' = GivenOf(q, c, t)
      BY <1>2, <2>4
    <3> QED BY <2>1, <2>3, <3>2, <3>3, TrailKept
  <2>5. CASE q = p
    <3>1. HeldBy(p, c, t)' = HeldBy(p, c, t) \o more
      BY <1>4, <1>8, <1>9 DEF HasMore
    <3>2. more \in Told /\ GivenOf(p, c, t)' = GivenOf(p, c, t) \o more
      BY <1>2
    <3> HIDE DEF more
    <3>3. PartialOf(p, c, t)' = PartialOf(p, c, t) \o more
      <4> DEFINE s == Spread(Out(c, t), FlattenSeq(sent[p]))
                 h == HeldBy(p, c, t)
                 X == Seq(Int)
      <4>1. s \in Seq(X) /\ h \in Seq(X) /\ more \in Seq(X)
        BY <1>0, <3>2, TrailTyped DEF Told
      <4>2. PartialOf(p, c, t)' = s \o (h \o more) /\ PartialOf(p, c, t) = s \o h
        BY <1>1, <3>1 DEF PartialOf
      <4> HIDE DEF s, h, X
      <4>3. (s \o h) \o more = s \o (h \o more)
        BY <4>1, Regroups
      <4> QED BY <4>2, <4>3
    <3> QED BY <2>1, <2>3, <2>5, <3>2, <3>3, TrailAdded
  <2> QED BY <2>4, <2>5
<1> QED BY <1>10, <1>11, <1>12, <1>13 DEF AllSound, Trails

\* What the final takes of a partial's stays on the partial's trail, and is of its rows.
LEMMA TrailMoved ==
  ASSUME InputsOK, AllSound, NEW p \in Partials, NEW c \in Nat, NEW t \in Int, Trail(p, c, t),
         NEW more \in Told, NEW part \in Told, PartialOf(p, c, t) = more \o part, PartialOf(p, c, t)' = part,
         Ids(p)' = Ids(p), FinalOf(c, t)' = FinalOf(c, t) \o more, GivenOf(p, c, t)' = GivenOf(p, c, t)
  PROVE  Trail(p, c, t)' /\ OfIds(Ids(p), more)
<1> DEFINE ids == Ids(p)
           final == FinalOf(c, t)
           given == GivenOf(p, c, t)
<1>1. final \in Told
  BY TrailTyped DEF AllSound
<1>2. TrailIs(ids, final, more \o part, given)
  BY DEF Trail, TrailIs
<1>3. OfIds(ids, given) /\ given \in Told
  BY GivenApart DEF AllSound
<1>4. PICK i, f, g : i = ids /\ f = final /\ g = given
  OBVIOUS
<1>5. Ids(p)' = i /\ FinalOf(c, t)' = f \o more /\ GivenOf(p, c, t)' = g
  BY <1>4
<1>6. f \in Told /\ g \in Told /\ TrailIs(i, f, more \o part, g) /\ OfIds(i, g) /\ i = Ids(p)
  BY <1>1, <1>2, <1>3, <1>4
<1> HIDE DEF ids, final, given
<1>7. TrailIs(i, f \o more, part, g) /\ OfIds(i, more)
  BY <1>6, TrailMoves
<1> QED BY <1>5, <1>6, <1>7 DEF Trail, TrailIs

\* What the final takes of another's leaves the trail.
LEMMA TrailPassed ==
  ASSUME AllSound, NEW p \in Partials, NEW c \in Nat, NEW t \in Int, Trail(p, c, t),
         NEW q \in Partials, q # p, NEW more \in Told, OfIds(Ids(q), more),
         PartialOf(p, c, t)' = PartialOf(p, c, t), Ids(p)' = Ids(p),
         FinalOf(c, t)' = FinalOf(c, t) \o more, GivenOf(p, c, t)' = GivenOf(p, c, t)
  PROVE  Trail(p, c, t)'
<1> DEFINE ids == Ids(p)
           final == FinalOf(c, t)
           part == PartialOf(p, c, t)
           given == GivenOf(p, c, t)
<1>1. final \in Told /\ part \in Told
  BY TrailTyped DEF AllSound
<1>2. TrailIs(ids, final, part, given)
  BY DEF Trail, TrailIs
<1>3. PICK i, f, b, g, o : i = ids /\ f = final /\ b = part /\ g = given /\ o = Ids(q)
  OBVIOUS
<1>4. Ids(p)' = i /\ FinalOf(c, t)' = f \o more /\ PartialOf(p, c, t)' = b /\ GivenOf(p, c, t)' = g
  BY <1>3
<1>5. f \in Told /\ b \in Told /\ TrailIs(i, f, b, g)
  BY <1>1, <1>2, <1>3
<1>6. OfIds(o, more) /\ o \cap i = {}
  BY <1>3 DEF AllSound, Apart
<1> HIDE DEF ids, final, part, given
<1>7. TrailIs(i, f \o more, b, g)
  BY <1>5, <1>6, TrailPasses
<1> QED BY <1>4, <1>7 DEF Trail, TrailIs

\* The final accumulator takes a batch of states (merge_batch).
LEMMA MergeBatchTrails ==
  ASSUME IInv, AllSound, Trails, NEW p \in Partials, MergeBatch(p)
  PROVE  AllSound' /\ Trails'
<1> DEFINE rows == Head(sent[p])
           tail == Tail(sent[p])
           ks == Interned(keys[Final], rows)
           feed == [n \in DOMAIN rows |->
                      [group |-> GroupOf(ks, rows[n].key), times |-> rows[n].times,
                       values |-> rows[n].values, partial |-> TRUE]]
           S == Seq(SoundRows)
<1>0. InputsOK /\ KeysOK /\ DOMAIN store = Accumulators /\ AllStocked /\ RowsSound /\ CallFits /\ Apart
  BY DEF IInv, StoresOK, AllSound
<1>1. /\ call = <<>> /\ sent[p] # <<>> /\ sent' = [sent EXCEPT ![p] = tail]
      /\ Open(Final, rows, feed)
      /\ grid' = grid /\ input' = input /\ taken' = taken /\ skipping' = skipping /\ answers' = answers
  BY Zenon DEF MergeBatch, Idle
<1>2. sent \in [Partials -> Seq(S)] /\ rows \in S /\ tail \in Seq(S) /\ sent[p] = <<rows>> \o tail
  <2> DEFINE s == sent[p]
  <2>1. sent \in [Partials -> Seq(S)] /\ s \in Seq(S) /\ s # <<>>
    BY <1>0, <1>1 DEF RowsSound
  <2> HIDE DEF S, s
  <2>2. Head(s) \in S /\ Tail(s) \in Seq(S) /\ s = <<Head(s)>> \o Tail(s)
    BY <2>1, HeadTail
  <2> QED BY <2>1, <2>2 DEF s
<1>3. sent'[p] = tail /\ \A q \in Partials : q # p => sent'[q] = sent[q]
  BY <1>1, <1>2
<1>4. Final \in Accumulators /\ p \in Accumulators /\ p # Final /\ keys[Final] \in Seq(Nat) /\ Distinct(keys[Final])
      /\ Final \notin Partials
  BY <1>0, AggregateAssumption DEF Accumulators, AllStocked, Stocked
<1>5. ks = Interned(keys[Final], rows)
  OBVIOUS
<1>6. keys' = [keys EXCEPT ![Final] = ks]
  BY <1>1 DEF Open
<1> HIDE DEF rows, tail, ks, S
<1>7. rows \in Seq(SoundRows) /\ rows \in Seq(StateRow)
  <2>1. rows \in Seq(SoundRows)
    BY <1>2 DEF S
  <2> QED BY <2>1, SoundTyped
<1>8. feed \in Seq(CallRow)
  BY <1>4, <1>5, <1>7, MergeFeedTyped
<1>9. Asked(feed, ks) = rows /\ \A n \in DOMAIN feed : RowFits(feed[n], Len(ks))
  BY <1>4, <1>5, <1>7, MergeFeedGives
<1> HIDE DEF feed
<1>10. ASSUME NEW c \in Nat, NEW t \in Int
       PROVE  AllStocked' /\ CallFits' /\ HasMore(Final, c, t, Spread(Out(c, t), rows))
  <2>1. \A r \in StateRow : r.key \in Nat
    BY DEF StateRow
  <2>2. AllStocked /\ KeysOK /\ CallFits /\ call = <<>> /\ grid' = grid /\ DOMAIN store = Accumulators
        /\ Final \in Accumulators /\ ks = Interned(keys[Final], rows) /\ Open(Final, rows, feed)
    BY <1>0, <1>1, <1>4, <1>5
  <2>3. \A n \in DOMAIN feed : RowFits(feed[n], Len(ks))
    BY <1>9
  <2>4. AllStocked' /\ CallFits' /\ HasMore(Final, c, t, Spread(Out(c, t), Asked(feed, ks)))
    BY <1>7, <1>8, <2>1, <2>2, <2>3, OpenHolds
  <2> QED BY <1>9, <2>4
<1>11. AllStocked' /\ CallFits'
  <2>1. 0 \in Nat /\ 0 \in Int
    OBVIOUS
  <2> QED BY <1>10, <2>1
<1>12. RowsSound'
  <2>1. \A q \in skipping : keys'[q] = keys[q]
    BY <1>0, <1>4, <1>6 DEF KeysOK, RowsSound, Accumulators
  <2>2. sent' \in [Partials -> Seq(S)]
    BY <1>1, <1>2
  <2> QED BY <1>0, <1>1, <2>1, <2>2 DEF RowsSound, S
<1>13. Apart' /\ \A q \in Partials : Ids(q)' = Ids(q)
  BY <1>0, <1>1, IdsKept
<1>14. ASSUME NEW q \in Partials, NEW c \in Nat, NEW t \in Int PROVE Trail(q, c, t)'
  <2> DEFINE F == Out(c, t)
             more == Spread(F, rows)
             left == FlattenSeq(tail)
             rest == Spread(F, left)
             held == HeldBy(p, c, t)
             part == rest \o held
             X == Seq(Int)
  <2>1. Trail(q, c, t) /\ Trail(p, c, t) /\ Ids(q)' = Ids(q) /\ Ids(p)' = Ids(p)
    BY <1>13 DEF Trails
  <2>2. \A b \in Partials : HeldBy(b, c, t)' = HeldBy(b, c, t)
    <3> TAKE b \in Partials
    <3>1. b \in Accumulators /\ b # Final
      BY <1>4 DEF Accumulators
    <3>2. HeldBy(b, c, t) \in Seq(Seq(Int))
      BY <1>0, <3>1, HeldTyped
    <3>3. HeldBy(b, c, t)' = HeldBy(b, c, t) \o <<>>
      BY <1>10, <3>1 DEF HasMore
    <3> QED BY <3>2, <3>3, ConcatEmptySeq
  <2>3. more \in Told
    BY <1>7, SoundTyped
  <2>4. left \in Seq(SoundRows) /\ FlattenSeq(sent[p]) = rows \o left
    BY <1>2, FlattenCons, FlattenType DEF S
  <2>5. rest \in Told
    <3> HIDE DEF left
    <3> QED BY <2>4, SoundTyped
  <2>6. Spread(F, FlattenSeq(sent[p])) = more \o rest
    <3> DEFINE all == FlattenSeq(sent[p])
    <3> HIDE DEF left, all
    <3>1. all = rows \o left
      BY <2>4 DEF all
    <3>2. Joined(Spread(Out(c, t), all), Spread(Out(c, t), rows), Spread(Out(c, t), left))
      BY <1>7, <2>4, <3>1, SoundConcat
    <3> QED BY <3>2 DEF all, Joined
  <2>7. held \in Told
    BY <1>0, <1>4, HeldTyped DEF Told
  <2>8. PartialOf(p, c, t) = (more \o rest) \o held /\ PartialOf(p, c, t)' = part
    BY <1>3, <2>2, <2>6 DEF PartialOf
  <2>9. HeldBy(Final, c, t)' = HeldBy(Final, c, t) \o more
    BY <1>4, <1>10 DEF HasMore
  <2> HIDE DEF more, rest, held, F
  <2>10. more \in Seq(X) /\ rest \in Seq(X) /\ held \in Seq(X)
    BY <2>3, <2>5, <2>7 DEF Told
  <2>11. FinalOf(c, t)' = FinalOf(c, t) \o more
    <3> DEFINE a == Spread(Out(c, t), answers)
               h == HeldBy(Final, c, t)
    <3>1. a \in Seq(X) /\ h \in Seq(X)
      BY <1>0, TrailTyped DEF Told
    <3>2. FinalOf(c, t) = a \o h /\ FinalOf(c, t)' = a \o (h \o more)
      BY <1>1, <2>9 DEF FinalOf
    <3> HIDE DEF a, h, X
    <3>3. (a \o h) \o more = a \o (h \o more)
      <4>1. a \in Seq(X) /\ h \in Seq(X) /\ more \in Seq(X)
        BY <2>10, <3>1
      <4> QED BY <4>1, Regroups
    <3> QED BY <3>2, <3>3
  <2>12. PartialOf(p, c, t) = more \o part /\ part \in Told
    <3> HIDE DEF X
    <3>1. (more \o rest) \o held = more \o (rest \o held) /\ rest \o held \in Seq(X)
      BY <2>10, Regroups, ConcatProperties
    <3> QED BY <2>8, <3>1 DEF Told, X
  <2>13. \A b \in Partials : GivenOf(b, c, t)' = GivenOf(b, c, t)
    BY <1>1 DEF GivenOf, TakenRows
  <2> HIDE DEF part
  <2>14. Trail(p, c, t)' /\ OfIds(Ids(p), more)
    <3>1. PartialOf(p, c, t)' = part
      BY <2>8 DEF part
    <3>2. InputsOK /\ AllSound /\ GivenOf(p, c, t)' = GivenOf(p, c, t)
      BY <1>0, <2>13
    <3> QED BY <2>1, <2>3, <2>11, <2>12, <3>1, <3>2, TrailMoved
  <2>15. CASE q # p
    <3>1. PartialOf(q, c, t)' = PartialOf(q, c, t)
      BY <1>3, <2>2, <2>15 DEF PartialOf
    <3>2. GivenOf(q, c, t)' = GivenOf(q, c, t)
      BY <2>13
    <3> QED BY <2>1, <2>3, <2>11, <2>14, <2>15, <3>1, <3>2, TrailPassed
  <2> QED BY <2>14, <2>15
<1> QED BY <1>11, <1>12, <1>13, <1>14 DEF AllSound, Trails

\* A row of a call is folded (add_series).
LEMMA FoldRowTrails ==
  ASSUME IInv, AllSound, Trails, FoldRow
  PROVE  AllSound' /\ Trails'
<1>0. InputsOK /\ KeysOK /\ DOMAIN store = Accumulators /\ AllStocked /\ RowsSound /\ CallFits /\ Apart
  BY DEF IInv, StoresOK, AllSound
<1>1. /\ grid' = grid /\ input' = input /\ taken' = taken /\ skipping' = skipping
      /\ keys' = keys /\ sent' = sent /\ answers' = answers
  BY DEF FoldRow
<1>2. ASSUME NEW c \in Nat, NEW t \in Int
      PROVE  AllStocked' /\ CallFits' /\ \A b \in Accumulators : HeldBy(b, c, t)' = HeldBy(b, c, t)
  BY <1>0, FoldRowHolds
<1>3. AllStocked' /\ CallFits'
  <2>1. 0 \in Nat /\ 0 \in Int
    OBVIOUS
  <2> QED BY <1>2, <2>1
<1>4. RowsSound'
  BY <1>0, <1>1 DEF RowsSound
<1>5. Apart' /\ \A q \in Partials : Ids(q)' = Ids(q)
  BY <1>0, <1>1, IdsKept
<1>6. ASSUME NEW q \in Partials, NEW c \in Nat, NEW t \in Int PROVE Trail(q, c, t)'
  <2>1. Trail(q, c, t) /\ Ids(q)' = Ids(q)
    BY <1>5 DEF Trails
  <2>2. HeldBy(q, c, t)' = HeldBy(q, c, t) /\ HeldBy(Final, c, t)' = HeldBy(Final, c, t)
    BY <1>2 DEF Accumulators
  <2>3. FinalOf(c, t)' = FinalOf(c, t)
    BY <1>1, <2>2 DEF FinalOf
  <2>4. PartialOf(q, c, t)' = PartialOf(q, c, t)
    BY <1>1, <2>2 DEF PartialOf
  <2>5. GivenOf(q, c, t)' = GivenOf(q, c, t)
    BY <1>1 DEF GivenOf, TakenRows
  <2> QED BY <2>1, <2>3, <2>4, <2>5, TrailKept
<1> QED BY <1>3, <1>4, <1>5, <1>6 DEF AllSound, Trails

\* One more batch on its way is behind the others.
LEMMA SentBehind ==
  ASSUME NEW ss, ss \in Seq(Seq(SoundRows)), NEW out, out \in Seq(SoundRows), NEW c, NEW t
  PROVE  /\ Append(ss, out) \in Seq(Seq(SoundRows))
         /\ Joined(Spread(Out(c, t), FlattenSeq(Append(ss, out))),
                   Spread(Out(c, t), FlattenSeq(ss)), Spread(Out(c, t), out))
<1> DEFINE a == FlattenSeq(ss)
           s == FlattenSeq(Append(ss, out))
<1>1. s = a \o out /\ a \in Seq(SoundRows)
  BY FlattenAppend, FlattenType
<1>2. Append(ss, out) \in Seq(Seq(SoundRows))
  <2> DEFINE Z == Seq(SoundRows)
  <2>1. ss \in Seq(Z) /\ out \in Z
    OBVIOUS
  <2> HIDE DEF Z
  <2>2. Append(ss, out) \in Seq(Z)
    BY <2>1
  <2> QED BY <2>2 DEF Z
<1> HIDE DEF a, s
<1>3. Joined(Spread(Out(c, t), s), Spread(Out(c, t), a), Spread(Out(c, t), out))
  BY <1>1, SoundConcat
<1> QED BY <1>2, <1>3 DEF a, s

\* Some of a partial's groups leave for the final accumulator (state).
LEMMA StateTrails ==
  ASSUME IInv, AllSound, Trails, NEW p \in Partials, NEW n \in 1 .. Len(keys[p]), State(p, n)
  PROVE  AllSound' /\ Trails'
<1> DEFINE out == Emitted(p, n)
<1>0. InputsOK /\ KeysOK /\ DOMAIN store = Accumulators /\ AllStocked /\ RowsSound /\ CallFits /\ Apart
  BY DEF IInv, StoresOK, AllSound
<1>1. /\ call = <<>> /\ sent' = [sent EXCEPT ![p] = Append(sent[p], out)] /\ Drain(p, n)
      /\ grid' = grid /\ input' = input /\ taken' = taken /\ skipping' = skipping
      /\ callee' = callee /\ call' = call /\ answers' = answers
  BY DEF State, Idle
<1>2. p \in Accumulators /\ Final \in Accumulators /\ p # Final
  BY AggregateAssumption DEF Accumulators
<1>3. keys' = [keys EXCEPT ![p] = SubSeq(keys[p], n + 1, Len(keys[p]))] /\ keys[p] # <<>>
  BY <1>1 DEF Drain
<1>4. out = Emitted(p, n)
  OBVIOUS
<1> HIDE DEF out
<1>5. ASSUME NEW c \in Nat, NEW t \in Int
      PROVE  /\ AllStocked' /\ out \in Seq(SoundRows)
             /\ HasLess(p, c, t, Spread(Out(c, t), out))
  BY <1>0, <1>1, <1>2, <1>4, DrainHolds
<1>6. AllStocked' /\ out \in Seq(SoundRows)
  <2>1. 0 \in Nat /\ 0 \in Int
    OBVIOUS
  <2> QED BY <1>5, <2>1
<1>7. CallFits'
  BY <1>0, <1>1 DEF CallFits
<1>8. sent[p] \in Seq(Seq(SoundRows)) /\ sent \in [Partials -> Seq(Seq(SoundRows))]
  BY <1>0 DEF RowsSound
<1>9. RowsSound'
  <2>1. \A q \in skipping : keys'[q] = keys[q]
    <3> TAKE q \in skipping
    <3>1. q # p
      BY <1>0, <1>3 DEF RowsSound
    <3> QED BY <1>0, <1>3, <3>1 DEF KeysOK, RowsSound, Accumulators
  <2>2. Append(sent[p], out) \in Seq(Seq(SoundRows))
    <3>1. 0 \in Nat
      OBVIOUS
    <3> QED BY <1>6, <1>8, SentBehind
  <2>3. sent' \in [Partials -> Seq(Seq(SoundRows))]
    BY <1>1, <1>8, <2>2
  <2> QED BY <1>0, <1>1, <2>1, <2>3 DEF RowsSound
<1>10. sent'[p] = Append(sent[p], out) /\ \A q \in Partials : q # p => sent'[q] = sent[q]
  BY <1>1, <1>8
<1>11. Apart' /\ \A q \in Partials : Ids(q)' = Ids(q)
  BY <1>0, <1>1, IdsKept
<1>12. ASSUME NEW q \in Partials, NEW c \in Nat, NEW t \in Int PROVE Trail(q, c, t)'
  <2>1. Trail(q, c, t) /\ Ids(q)' = Ids(q)
    BY <1>11 DEF Trails
  <2>2. FinalOf(c, t)' = FinalOf(c, t)
    <3>1. HeldBy(Final, c, t)' = HeldBy(Final, c, t)
      BY <1>2, <1>5 DEF HasLess
    <3> QED BY <1>1, <3>1 DEF FinalOf
  <2>3. GivenOf(q, c, t)' = GivenOf(q, c, t)
    BY <1>1 DEF GivenOf, TakenRows
  <2>4. PartialOf(q, c, t)' = PartialOf(q, c, t)
    <3>1. CASE q # p
      <4>1. HeldBy(q, c, t)' = HeldBy(q, c, t)
        BY <1>5, <3>1 DEF Accumulators, HasLess
      <4> QED BY <1>10, <3>1, <4>1 DEF PartialOf
    <3>2. CASE q = p
      <4> DEFINE X == Seq(Int)
                 s == Spread(Out(c, t), FlattenSeq(sent[p]))
                 o == Spread(Out(c, t), out)
      <4>1. Spread(Out(c, t), FlattenSeq(Append(sent[p], out))) = s \o o
        BY <1>6, <1>8, SentBehind DEF Joined
      <4>2. s \in Told /\ o \in Told
        BY <1>0, <1>6, TrailTyped, SoundTyped
      <4>3. PICK h : h = HeldBy(p, c, t)'
        OBVIOUS
      <4>4. s \in Seq(X) /\ o \in Seq(X) /\ h \in Seq(X)
        BY <1>5, <4>2, <4>3 DEF Told, HasLess
      <4>5. PartialOf(p, c, t)' = (s \o o) \o h
        BY <1>10, <4>1, <4>3 DEF PartialOf
      <4>6. PartialOf(p, c, t) = s \o (o \o h)
        BY <1>5, <4>3 DEF PartialOf, HasLess
      <4> HIDE DEF s, o, X
      <4>7. (s \o o) \o h = s \o (o \o h)
        <5>1. s \in Seq(X) /\ o \in Seq(X) /\ h \in Seq(X)
          BY <4>4
        <5> QED BY <5>1, Associates
      <4> QED BY <3>2, <4>5, <4>6, <4>7
    <3> QED BY <3>1, <3>2
  <2> QED BY <2>1, <2>2, <2>3, <2>4, TrailKept
<1> QED BY <1>6, <1>7, <1>9, <1>11, <1>12 DEF AllSound, Trails

\* Some of the final accumulator's groups leave as answers (evaluate).
LEMMA EvaluateTrails ==
  ASSUME IInv, AllSound, Trails, NEW n \in 1 .. Len(keys[Final]), Evaluate(n)
  PROVE  AllSound' /\ Trails'
<1> DEFINE out == Emitted(Final, n)
<1>0. InputsOK /\ KeysOK /\ DOMAIN store = Accumulators /\ AllStocked /\ RowsSound /\ CallFits /\ Apart
  BY DEF IInv, StoresOK, AllSound
<1>1. /\ call = <<>> /\ answers' = answers \o out /\ Drain(Final, n)
      /\ grid' = grid /\ input' = input /\ taken' = taken /\ skipping' = skipping
      /\ callee' = callee /\ call' = call /\ sent' = sent
  BY Zenon DEF Evaluate, Idle
<1>2. Final \in Accumulators /\ \A q \in Partials : q \in Accumulators /\ q # Final
  BY AggregateAssumption DEF Accumulators
<1>3. keys' = [keys EXCEPT ![Final] = SubSeq(keys[Final], n + 1, Len(keys[Final]))]
  BY <1>1 DEF Drain
<1>4. out = Emitted(Final, n)
  OBVIOUS
<1> HIDE DEF out
<1>5. ASSUME NEW c \in Nat, NEW t \in Int
      PROVE  AllStocked' /\ out \in Seq(SoundRows) /\ HasLess(Final, c, t, Spread(Out(c, t), out))
  BY <1>0, <1>1, <1>2, <1>4, DrainHolds
<1>6. AllStocked' /\ out \in Seq(SoundRows)
  <2>1. 0 \in Nat /\ 0 \in Int
    OBVIOUS
  <2> QED BY <1>5, <2>1
<1>7. CallFits'
  BY <1>0, <1>1 DEF CallFits
<1>8. answers \in Seq(SoundRows)
  BY <1>0 DEF RowsSound
<1>9. RowsSound'
  <2>1. \A q \in skipping : keys'[q] = keys[q]
    BY <1>0, <1>2, <1>3 DEF KeysOK, RowsSound, Accumulators
  <2>2. answers' \in Seq(SoundRows)
    BY <1>1, <1>6, <1>8, ConcatProperties
  <2> QED BY <1>0, <1>1, <2>1, <2>2 DEF RowsSound
<1>10. Apart' /\ \A q \in Partials : Ids(q)' = Ids(q)
  BY <1>0, <1>1, IdsKept
<1>11. ASSUME NEW q \in Partials, NEW c \in Nat, NEW t \in Int PROVE Trail(q, c, t)'
  <2>1. Trail(q, c, t) /\ Ids(q)' = Ids(q)
    BY <1>10 DEF Trails
  <2>2. GivenOf(q, c, t)' = GivenOf(q, c, t)
    BY <1>1 DEF GivenOf, TakenRows
  <2>3. PartialOf(q, c, t)' = PartialOf(q, c, t)
    <3>1. HeldBy(q, c, t)' = HeldBy(q, c, t)
      BY <1>2, <1>5 DEF HasLess
    <3> QED BY <1>1, <3>1 DEF PartialOf
  <2>4. FinalOf(c, t)' = FinalOf(c, t)
    <3> DEFINE X == Seq(Int)
               s == Spread(Out(c, t), answers)
               o == Spread(Out(c, t), out)
    <3>1. Spread(Out(c, t), answers') = s \o o
      <4>1. PICK all : all = answers'
        OBVIOUS
      <4>2. all = answers \o out
        BY <1>1, <4>1
      <4>3. Joined(Spread(Out(c, t), all), Spread(Out(c, t), answers), Spread(Out(c, t), out))
        BY <1>6, <1>8, <4>2, SoundConcat
      <4> QED BY <4>1, <4>3 DEF Joined
    <3>2. s \in Told /\ o \in Told
      BY <1>6, <1>8, SoundTyped
    <3>3. PICK h : h = HeldBy(Final, c, t)'
      OBVIOUS
    <3>4. s \in Seq(X) /\ o \in Seq(X) /\ h \in Seq(X)
      BY <1>5, <3>2, <3>3 DEF Told, HasLess
    <3>5. FinalOf(c, t)' = (s \o o) \o h
      BY <3>1, <3>3 DEF FinalOf
    <3>6. FinalOf(c, t) = s \o (o \o h)
      BY <1>5, <3>3 DEF FinalOf, HasLess
    <3> HIDE DEF s, o, X
    <3>7. (s \o o) \o h = s \o (o \o h)
      BY <3>4, Associates
    <3> QED BY <3>5, <3>6, <3>7
  <2> QED BY <2>1, <2>2, <2>3, <2>4, TrailKept
<1> QED BY <1>6, <1>7, <1>9, <1>10, <1>11 DEF AllSound, Trails

\* A step that leaves the stores and the call leaves what accumulators hold.
LEMMA HeldKept ==
  ASSUME grid' = grid, keys' = keys, store' = store, callee' = callee, call' = call
  PROVE  /\ AllStocked => AllStocked'
         /\ CallFits => CallFits'
         /\ \A a, c, t : HeldBy(a, c, t)' = HeldBy(a, c, t)
<1>1. ASSUME NEW a PROVE StoredOf(a)' = StoredOf(a) /\ (Stocked(store[a], keys[a]) => Stocked(store[a], keys[a])')
  <2>1. PICK st, ks : st = store[a] /\ ks = keys[a]
    OBVIOUS
  <2>2. store'[a] = st /\ keys'[a] = ks
    BY <2>1
  <2>3. StoredOf(a)' = StoredRows(st, ks) /\ (Stocked(st, ks) => Stocked(store[a], keys[a])')
    BY <2>2, StoredNext
  <2> QED BY <2>1, <2>3 DEF StoredOf
<1>2. AllStocked => AllStocked'
  BY <1>1 DEF AllStocked
<1>3. CallFits => CallFits'
  BY DEF CallFits
<1>4. ASSUME NEW a, NEW c, NEW t PROVE HeldBy(a, c, t)' = HeldBy(a, c, t)
  <2>1. Pending(a)' = Pending(a)
    BY DEF Pending
  <2> QED BY <1>1, <2>1 DEF HeldBy
<1> QED BY <1>2, <1>3, <1>4

\* A partial's rows pass through from now on.
LEMMA SkipPartialTrails ==
  ASSUME AllSound, Trails, NEW p \in Partials, SkipPartial(p)
  PROVE  AllSound' /\ Trails'
<1>0. AllStocked /\ RowsSound /\ CallFits /\ Apart
  BY DEF AllSound
<1>1. /\ keys[p] = <<>> /\ skipping' = skipping \cup {p}
      /\ grid' = grid /\ input' = input /\ taken' = taken /\ keys' = keys /\ store' = store
      /\ callee' = callee /\ call' = call /\ sent' = sent /\ answers' = answers
  BY DEF SkipPartial
<1>2. AllStocked' /\ CallFits' /\ \A a, c, t : HeldBy(a, c, t)' = HeldBy(a, c, t)
  BY <1>0, <1>1, HeldKept
<1>3. RowsSound'
  BY <1>0, <1>1 DEF RowsSound
<1>4. Apart' /\ \A q \in Partials : Ids(q)' = Ids(q)
  BY <1>0, <1>1, IdsKept
<1>5. ASSUME NEW q \in Partials, NEW c \in Nat, NEW t \in Int PROVE Trail(q, c, t)'
  <2>1. Trail(q, c, t) /\ Ids(q)' = Ids(q)
    BY <1>4 DEF Trails
  <2>2. FinalOf(c, t)' = FinalOf(c, t)
    BY <1>1, <1>2 DEF FinalOf
  <2>3. PartialOf(q, c, t)' = PartialOf(q, c, t)
    BY <1>1, <1>2 DEF PartialOf
  <2>4. GivenOf(q, c, t)' = GivenOf(q, c, t)
    BY <1>1 DEF GivenOf, TakenRows
  <2> QED BY <2>1, <2>2, <2>3, <2>4, TrailKept
<1> QED BY <1>2, <1>3, <1>4, <1>5 DEF AllSound, Trails

\* An accumulator without groups and without a call holds nothing.
LEMMA HeldNone ==
  ASSUME call = <<>>, NEW a, keys[a] = <<>>, NEW c, NEW t
  PROVE  HeldBy(a, c, t) = <<>>
<1>1. Pending(a) = <<>>
  BY DEF Pending
<1>2. StoredOf(a) = <<>>
  <2>1. StoredOf(a) = [g \in 1 .. 0 |-> ListRow(store[a], g, keys[a][g])]
    BY DEF StoredOf, StoredRows
  <2> DEFINE f == [g \in 1 .. 0 |-> ListRow(store[a], g, keys[a][g])]
  <2>2. DOMAIN f = {} /\ f = [g \in DOMAIN f |-> f[g]]
    OBVIOUS
  <2> HIDE DEF f
  <2>3. f = <<>>
    BY <2>2
  <2> QED BY <2>1, <2>3 DEF f
<1>3. <<>> \o <<>> = <<>>
  OBVIOUS
<1> QED BY <1>1, <1>2, <1>3, SpreadNone DEF HeldBy

\* A batch passes through as states (convert_to_state).
LEMMA ConvertTrails ==
  ASSUME IInv, AllSound, Trails, NEW p \in Partials, Convert(p), failed' = None
  PROVE  AllSound' /\ Trails'
<1> DEFINE rows == input[p][taken[p] + 1]
           refused == {n \in DOMAIN rows : ~rows[n].skipped /\ ~Accepted(rows[n].times)}
           out == [n \in DOMAIN rows |-> Converted(rows[n])]
<1>0. InputsOK /\ AllStocked /\ RowsSound /\ CallFits /\ Apart /\ grid \in Grids
  BY DEF IInv, InputsOK, AllSound
<1>1. /\ call = <<>> /\ p \in skipping /\ taken[p] < Len(input[p])
      /\ \/ refused = {} /\ sent' = [sent EXCEPT ![p] = Append(sent[p], out)]
         \/ refused # {} /\ failed' = rows[Min(refused)].times
      /\ taken' = [taken EXCEPT ![p] = @ + 1]
      /\ grid' = grid /\ input' = input /\ skipping' = skipping /\ keys' = keys
      /\ store' = store /\ callee' = callee /\ call' = call /\ answers' = answers
  BY Zenon DEF Convert, Idle
<1>2. ASSUME NEW c \in Nat, NEW t \in Int
      PROVE  /\ rows \in Seq(InputRow) /\ Spread(GivenOut(c, t), rows) \in Told
             /\ GivenOf(p, c, t)' = GivenOf(p, c, t) \o Spread(GivenOut(c, t), rows)
             /\ \A q \in Partials : q # p => GivenOf(q, c, t)' = GivenOf(q, c, t)
  <2>1. InputsOK /\ input' = input /\ taken[p] < Len(input[p]) /\ taken' = [taken EXCEPT ![p] = @ + 1]
    BY <1>0, <1>1
  <2> QED BY <2>1, GivenMore
<1>3. rows \in Seq(InputRow)
  <2>1. 0 \in Nat /\ 0 \in Int
    OBVIOUS
  <2> QED BY <1>2, <2>1
<1>4. \A n : n \in refused <=> n \in DOMAIN rows /\ ~rows[n].skipped /\ ~Accepted(rows[n].times)
  OBVIOUS
<1>5. out = [n \in DOMAIN rows |-> Converted(rows[n])]
  OBVIOUS
<1> HIDE DEF rows, refused, out
<1>6. refused = {}
  <2> SUFFICES ASSUME refused # {} PROVE FALSE
    OBVIOUS
  <2>1. DOMAIN rows = 1 .. Len(rows) /\ Len(rows) \in Nat /\ \A n \in DOMAIN rows : rows[n] \in InputRow
    BY <1>3
  <2>2. Min(refused) \in refused
    <3>1. refused \subseteq Nat
      BY <1>4, <2>1
    <3> QED BY <3>1, MinIsLeast
  <2>3. rows[Min(refused)].times \in Seq(Int)
    BY <1>4, <2>1, <2>2 DEF InputRow
  <2> QED BY <1>1, <2>3, AggregateAssumption
<1>7. /\ sent' = [sent EXCEPT ![p] = Append(sent[p], out)]
      /\ \A n \in DOMAIN rows : rows[n].skipped \/ Accepted(rows[n].times)
  BY <1>1, <1>4, <1>6
<1>8. ASSUME NEW c \in Nat, NEW t \in Int
      PROVE  out \in Seq(SoundRows) /\ Spread(Out(c, t), out) = Spread(GivenOut(c, t), rows)
  <2>1. grid \in Grids /\ \A n \in DOMAIN rows : rows[n].skipped \/ Accepted(rows[n].times)
    BY <1>0, <1>7
  <2> QED BY <1>3, <1>5, <2>1, ConvertedGives
<1>9. out \in Seq(SoundRows)
  <2>1. 0 \in Nat /\ 0 \in Int
    OBVIOUS
  <2> QED BY <1>8, <2>1
<1>10. AllStocked' /\ CallFits' /\ \A a, c, t : HeldBy(a, c, t)' = HeldBy(a, c, t)
  BY <1>0, <1>1, HeldKept
<1>11. /\ sent \in [Partials -> Seq(Seq(SoundRows))] /\ sent[p] \in Seq(Seq(SoundRows))
       /\ sent'[p] = Append(sent[p], out) /\ \A q \in Partials : q # p => sent'[q] = sent[q]
       /\ keys[p] = <<>>
  BY <1>0, <1>1, <1>7 DEF RowsSound
<1>12. RowsSound'
  <2>1. Append(sent[p], out) \in Seq(Seq(SoundRows))
    BY <1>9, <1>11, SentBehind
  <2>2. sent' \in [Partials -> Seq(Seq(SoundRows))]
    BY <1>7, <1>11, <2>1
  <2> QED BY <1>0, <1>1, <2>2 DEF RowsSound
<1>13. Apart' /\ \A q \in Partials : Ids(q)' = Ids(q)
  BY <1>0, <1>1, IdsKept
<1>14. ASSUME NEW q \in Partials, NEW c \in Nat, NEW t \in Int PROVE Trail(q, c, t)'
  <2>1. Trail(q, c, t) /\ Ids(q)' = Ids(q)
    BY <1>13 DEF Trails
  <2>2. FinalOf(c, t)' = FinalOf(c, t)
    BY <1>1, <1>10 DEF FinalOf
  <2>3. CASE q # p
    <3>1. PartialOf(q, c, t)' = PartialOf(q, c, t)
      BY <1>10, <1>11, <2>3 DEF PartialOf
    <3>2. GivenOf(q, c, t)' = GivenOf(q, c, t)
      BY <1>2, <2>3
    <3> QED BY <2>1, <2>2, <3>1, <3>2, TrailKept
  <2>4. CASE q = p
    <3> DEFINE more == Spread(Out(c, t), out)
               s == Spread(Out(c, t), FlattenSeq(sent[p]))
               X == Seq(Int)
    <3>1. more \in Told /\ GivenOf(p, c, t)' = GivenOf(p, c, t) \o more
      BY <1>2, <1>8
    <3>2. HeldBy(p, c, t) = <<>> /\ HeldBy(p, c, t)' = <<>>
      BY <1>1, <1>10, <1>11, HeldNone
    <3>3. Spread(Out(c, t), FlattenSeq(Append(sent[p], out))) = s \o more
      BY <1>9, <1>11, SentBehind DEF Joined
    <3>4. PartialOf(p, c, t) = s \o <<>> /\ PartialOf(p, c, t)' = (s \o more) \o <<>>
      BY <1>11, <3>2, <3>3 DEF PartialOf
    <3>5. s \in Seq(X) /\ more \in Seq(X)
      BY <1>0, <3>1, TrailTyped DEF Told
    <3> HIDE DEF s, more, X
    <3>6. s \o <<>> = s /\ (s \o more) \o <<>> = s \o more
      BY <3>5, ConcatEmptySeq, ConcatProperties
    <3>7. PartialOf(p, c, t)' = PartialOf(p, c, t) \o more
      BY <3>4, <3>6
    <3> QED BY <2>1, <2>2, <2>4, <3>1, <3>7, TrailAdded
  <2> QED BY <2>3, <2>4
<1> QED BY <1>10, <1>12, <1>13, <1>14 DEF AllSound, Trails

-----------------------------------------------------------------------------
\* A cell among rows.
CellAmong(rows, cell) ==
  \E n \in DOMAIN rows : \E k \in DOMAIN rows[n].times : cell = rows[n].values[k]

\* Rows whose contributions are in order hold them in order in every cell.
LEMMA CellInOrder ==
  ASSUME NEW rows, rows \in Seq(StateRow), NEW n, n \in DOMAIN rows, SoundRow(rows[n]),
         NEW k, k \in DOMAIN rows[n].times, NEW q,
         \A c \in Nat : \A t \in Int : InOrder(q, Spread(Out(c, t), rows))
  PROVE  InOrder(q, rows[n].values[k].of)
<1> DEFINE r == rows[n]
           c == r.key
           t == r.times[k]
           F == Out(c, t)
           X == Seq(Int)
           w == Spread(F, rows)
<1>1. /\ r \in StateRow /\ r.times \in Seq(Int) /\ r.key \in Nat
      /\ n \in 1 .. Len(rows)
  BY DEF StateRow
<1>2. c \in Nat /\ t \in Int
  BY <1>1
<1>3. OfRow(r, c, t) = r.values[k].of
  <2>1. \E j \in DOMAIN r.times : r.times[j] = t
    OBVIOUS
  <2>2. (CHOOSE j \in DOMAIN r.times : r.times[j] = t) = k
    <3>1. \A i, j \in DOMAIN r.times : r.times[i] = r.times[j] => i = j
      BY DEF SoundRow
    <3> QED BY <3>1
  <2> QED BY <2>1, <2>2 DEF OfRow
<1>4. F[r] = r.values[k].of
  BY <1>1, <1>3, OutTyped
<1>5. InOrder(q, w)
  BY <1>2
<1>6. Spreads(F, StateRow, X)
  BY OutTyped
<1> HIDE DEF F, X, c, t
<1>7. PICK u, v \in Seq(X) : Joined(Spread(F, rows), u, F[rows[n]] \o v)
  BY <1>1, <1>6, SpreadPiece
<1> DEFINE e == F[r]
           ev == e \o v
<1>8. e \in Seq(X)
  BY <1>1, <1>6 DEF Spreads
<1>9. w = u \o ev
  BY <1>7 DEF Joined
<1> HIDE DEF w, e
<1>10. ev \in Seq(X) /\ Pieces(ev, e, v)
  BY <1>8, JoinedPieces
<1> HIDE DEF ev
<1>11. Pieces(w, u, ev)
  BY <1>9, <1>10, JoinedPieces
<1>12. InOrder(q, ev)
  BY <1>5, <1>11, OfPieces
<1>13. InOrder(q, e)
  BY <1>10, <1>12, OfPieces
<1> QED BY <1>4, <1>13 DEF e

\* Contributions of no own row are in order.
LEMMA OthersInOrder ==
  ASSUME NEW q, NEW ids, ids \cap IdsOf(q) = {}, NEW s, OfIds(ids, s)
  PROVE  InOrder(q, s)
BY DEF OfIds, InOrder

\* Where trails are kept, what the final and the partials have of a partial is in order.
LEMMA TrailsInOrder ==
  ASSUME InputsOK, AllSound, Trails, NEW p \in Partials, NEW c \in Nat, NEW t \in Int
  PROVE  /\ InOrder(Sequence(p), FinalOf(c, t))
         /\ \A q \in Partials : InOrder(Sequence(p), PartialOf(q, c, t))
<1>0. AllStocked /\ RowsSound /\ CallFits /\ Apart
  BY DEF AllSound
<1>1. ASSUME NEW q \in Partials
      PROVE  /\ FinalOf(c, t) \in Told /\ PartialOf(q, c, t) \in Told
             /\ Pieces(GivenOf(q, c, t), Spread(Owned(Ids(q)), FinalOf(c, t)), PartialOf(q, c, t))
  <2> DEFINE X == Seq(Int)
             f == FinalOf(c, t)
             b == PartialOf(q, c, t)
             g == GivenOf(q, c, t)
             F == Owned(Ids(q))
             a == Spread(F, f)
  <2>1. f \in Told /\ b \in Told
    BY <1>0, TrailTyped
  <2>2. g = a \o b
    BY DEF Trails, Trail
  <2>3. Spreads(F, X, X) /\ f \in Seq(X) /\ b \in Seq(X)
    BY <2>1, OwnedTyped DEF Told
  <2> HIDE DEF X, f, b, g, F
  <2>4. a \in Seq(X)
    BY <2>3, SpreadType
  <2> HIDE DEF a
  <2>5. Pieces(g, a, b)
    BY <2>2, <2>3, <2>4, JoinedPieces
  <2> QED BY <2>1, <2>5 DEF f, b, g, F, a
<1>2. ASSUME NEW q \in Partials
      PROVE  /\ OfIds(Ids(q), GivenOf(q, c, t)) /\ InOrder(Sequence(q), GivenOf(q, c, t))
             /\ Ids(q) = IdsOf(Sequence(q))
  BY <1>0, GivenApart
<1>3. InOrder(Sequence(p), FinalOf(c, t))
  <2>1. InOrder(Sequence(p), Spread(Owned(Ids(p)), FinalOf(c, t)))
    BY <1>1, <1>2, OfPieces
  <2>2. InOrder(Sequence(p), Spread(Owned(IdsOf(Sequence(p))), FinalOf(c, t)))
    BY <1>2, <2>1
  <2>3. FinalOf(c, t) \in Seq(Seq(Int))
    BY <1>1 DEF Told
  <2> QED BY <2>2, <2>3, OwnInOrder
<1>4. ASSUME NEW q \in Partials PROVE InOrder(Sequence(p), PartialOf(q, c, t))
  <2>1. CASE q = p
    BY <1>1, <1>2, <2>1, OfPieces
  <2>2. CASE q # p
    <3>1. OfIds(Ids(q), PartialOf(q, c, t))
      BY <1>1, <1>2, OfPieces
    <3>2. Ids(q) \cap IdsOf(Sequence(p)) = {}
      BY <1>0, <1>2, <2>2 DEF Apart
    <3> QED BY <3>1, <3>2, OthersInOrder
  <2> QED BY <2>1, <2>2
<1> QED BY <1>3, <1>4

\* All rows there are, those of a call as rows of states.
AllRows ==
  {StoredOf(a) : a \in Accumulators} \cup {Pending(a) : a \in Accumulators}
    \cup {FlattenSeq(sent[p]) : p \in Partials} \cup {answers}

\* Every cell there is, is among some rows.
LEMMA EverywhereAmong ==
  ASSUME AllSound, NEW x, x \in Everywhere
  PROVE  \E rows \in AllRows : CellAmong(rows, x[2].cell)
<1>0. AllStocked /\ CallFits
  BY DEF AllSound
<1>1. \/ \E a \in Accumulators : \E y \in InStore(a) : x = <<a, y>>
      \/ \E p \in Partials : \E y \in InRows("sent", FlattenSeq(sent[p])) : x = <<p, y>>
      \/ \E y \in InCall : x = <<None, y>>
      \/ \E y \in InRows("answer", answers) : x = <<None, y>>
  <2> DEFINE S == UNION {{<<a, y>> : y \in InStore(a)} : a \in Accumulators}
             B == UNION {{<<p, y>> : y \in InRows("sent", FlattenSeq(sent[p]))} : p \in Partials}
             C == {<<None, y>> : y \in InCall \cup InRows("answer", answers)}
  <2>1. x \in S \/ x \in B \/ x \in C
    <3>1. Everywhere = S \cup B \cup C
      BY Zenon DEF Everywhere
    <3> HIDE DEF S, B, C
    <3> QED BY <3>1
  <2>2. x \in S => \E a \in Accumulators : \E y \in InStore(a) : x = <<a, y>>
    OBVIOUS
  <2>3. x \in B => \E p \in Partials : \E y \in InRows("sent", FlattenSeq(sent[p])) : x = <<p, y>>
    OBVIOUS
  <2>4. x \in C => (\E y \in InCall : x = <<None, y>>) \/ (\E y \in InRows("answer", answers) : x = <<None, y>>)
    OBVIOUS
  <2> HIDE DEF S, B, C
  <2> QED BY <2>1, <2>2, <2>3, <2>4
<1>2. \A tag, rows : \A y \in InRows(tag, rows) : CellAmong(rows, y.cell)
  BY DEF InRows, CellAmong
<1>3. ASSUME NEW a \in Accumulators, NEW y \in InStore(a) PROVE CellAmong(StoredOf(a), y.cell)
  <2> DEFINE ks == keys[a]
             st == store[a]
  <2>1. PICK g \in DOMAIN ks : \E k \in DOMAIN ListRow(st, g, ks[g]).times : y.cell = ListRow(st, g, ks[g]).values[k]
    BY DEF InStore
  <2>2. ks \in Seq(Nat)
    BY <1>0 DEF AllStocked, Stocked
  <2>3. DOMAIN StoredOf(a) = DOMAIN ks /\ StoredOf(a)[g] = ListRow(st, g, ks[g])
    BY <2>2 DEF StoredOf, StoredRows
  <2> HIDE DEF ks, st
  <2> QED BY <2>1, <2>3 DEF CellAmong
<1>4. ASSUME NEW y \in InCall PROVE callee \in Accumulators /\ CellAmong(Pending(callee), y.cell)
  <2> DEFINE ks == keys[callee]
  <2>1. PICK n \in DOMAIN call : \E k \in DOMAIN call[n].times :
          y.cell = IF call[n].partial THEN call[n].values[k] ELSE Add(Fresh, call[n].values[k])
    BY DEF InCall
  <2>2. PICK k \in DOMAIN call[n].times :
          y.cell = IF call[n].partial THEN call[n].values[k] ELSE Add(Fresh, call[n].values[k])
    BY <2>1
  <2>3. DOMAIN Pending(callee) = DOMAIN call /\ Pending(callee)[n] = AsStates(call[n], ks)
    BY DEF Pending
  <2>4. /\ AsStates(call[n], ks).times = call[n].times
        /\ AsStates(call[n], ks).values[k] = y.cell
    BY <2>2 DEF AsStates
  <2>5. callee \in Accumulators
    <3>1. call # <<>>
      OBVIOUS
    <3> QED BY <1>0, <3>1 DEF CallFits
  <2> QED BY <2>2, <2>3, <2>4, <2>5 DEF CellAmong
<1>5. CASE \E a \in Accumulators : \E y \in InStore(a) : x = <<a, y>>
  BY <1>3, <1>5 DEF AllRows
<1>6. CASE \E p \in Partials : \E y \in InRows("sent", FlattenSeq(sent[p])) : x = <<p, y>>
  BY <1>2, <1>6 DEF AllRows
<1>7. CASE \E y \in InCall : x = <<None, y>>
  BY <1>4, <1>7 DEF AllRows
<1>8. CASE \E y \in InRows("answer", answers) : x = <<None, y>>
  BY <1>2, <1>8 DEF AllRows
<1> QED BY <1>1, <1>5, <1>6, <1>7, <1>8

\* Rows, and what is known of them.
GoodRows(rows) ==
  /\ rows \in Seq(StateRow)
  /\ \A n \in DOMAIN rows :
       \/ SoundRow(rows[n])
       \/ \A k \in DOMAIN rows[n].times : Len(rows[n].values[k].of) = 1 /\ rows[n].values[k].merges = 0

\* Sound rows are good.
LEMMA SoundIsGood ==
  ASSUME NEW rows, rows \in Seq(SoundRows)
  PROVE  GoodRows(rows)
<1>1. rows \in Seq(StateRow)
  BY SoundTyped
<1>2. \A n \in DOMAIN rows : SoundRow(rows[n])
  BY DEF SoundRows
<1> QED BY <1>1, <1>2 DEF GoodRows

\* All rows there are, are good.
LEMMA AllRowsGood ==
  ASSUME AllSound, NEW rows, rows \in AllRows
  PROVE  GoodRows(rows)
<1>0. AllStocked /\ RowsSound /\ CallFits
  BY DEF AllSound
<1>1. ASSUME NEW a \in Accumulators PROVE GoodRows(StoredOf(a)) /\ GoodRows(Pending(a))
  <2>1. StoredOf(a) \in Seq(StateRow) /\ Pending(a) \in Seq(StateRow)
    <3>1. 0 \in Nat /\ 0 \in Int
      OBVIOUS
    <3> QED BY <1>0, <3>1, HeldTyped
  <2>2. \A n \in DOMAIN StoredOf(a) : SoundRow(StoredOf(a)[n])
    <3> DEFINE st == store[a]
               ks == keys[a]
               all == StoredRows(st, ks)
    <3>1. Stocked(st, ks) /\ StoredOf(a) = all
      BY <1>0 DEF AllStocked, StoredOf
    <3>2. all = StoredRows(st, ks) /\ 0 \in Nat /\ 0 \in Int
      OBVIOUS
    <3> HIDE DEF st, ks, all
    <3>3. Listed(st, ks, all)
      BY <3>1, <3>2, StoredTyped
    <3> QED BY <3>1, <3>3 DEF Listed
  <2>3. ASSUME NEW n \in DOMAIN Pending(a)
        PROVE  \/ SoundRow(Pending(a)[n])
               \/ \A k \in DOMAIN Pending(a)[n].times :
                    Len(Pending(a)[n].values[k].of) = 1 /\ Pending(a)[n].values[k].merges = 0
    <3> DEFINE row == call[n]
               ks == keys[a]
    <3>1. callee = a /\ n \in DOMAIN call /\ Pending(a)[n] = AsStates(row, ks)
      BY DEF Pending
    <3>2. RowFits(row, Len(ks))
      <4>1. call # <<>>
        BY <3>1
      <4> QED BY <1>0, <3>1, <4>1 DEF CallFits
    <3> HIDE DEF row, ks
    <3>3. CASE row.partial
      <4>1. SoundRow(row)
        BY <3>2, <3>3 DEF RowFits
      <4>2. AsStates(row, ks).times = row.times /\ AsStates(row, ks).values = row.values
        BY <3>3 DEF AsStates
      <4> QED BY <3>1, <4>1, <4>2 DEF SoundRow
    <3>4. CASE ~row.partial
      <4>1. AsStates(row, ks).times = row.times
            /\ \A k \in DOMAIN row.times : AsStates(row, ks).values[k] = Add(Fresh, row.values[k])
        BY <3>4 DEF AsStates
      <4>2. \A e : Len(Add(Fresh, e).of) = 1 /\ Add(Fresh, e).merges = 0
        <5> TAKE e
        <5>1. Add(Fresh, e) = [of |-> Append(<<>>, e), merges |-> 0]
          BY DEF Add, Fresh
        <5>2. Len(Append(<<>>, e)) = 1
          OBVIOUS
        <5> QED BY <5>1, <5>2
      <4> QED BY <3>1, <4>1, <4>2
    <3> QED BY <3>3, <3>4
  <2> QED BY <2>1, <2>2, <2>3 DEF GoodRows
<1>2. ASSUME NEW p \in Partials PROVE GoodRows(FlattenSeq(sent[p]))
  <2>1. sent[p] \in Seq(Seq(SoundRows))
    BY <1>0 DEF RowsSound
  <2>2. FlattenSeq(sent[p]) \in Seq(SoundRows)
    BY <2>1, FlattenType
  <2> QED BY <2>2, SoundIsGood
<1>3. GoodRows(answers)
  BY <1>0, SoundIsGood DEF RowsSound
<1> QED BY <1>1, <1>2, <1>3 DEF AllRows

\* Where trails are kept, all rows there are hold what is of a partial in order.
LEMMA RowsInOrder ==
  ASSUME InputsOK, AllSound, Trails, NEW p \in Partials, NEW c \in Nat, NEW t \in Int,
         NEW rows, rows \in AllRows
  PROVE  InOrder(Sequence(p), Spread(Out(c, t), rows))
<1> DEFINE F == Out(c, t)
           X == Seq(Int)
           q == Sequence(p)
<1>0. AllStocked /\ RowsSound /\ CallFits
  BY DEF AllSound
<1>1. InOrder(q, FinalOf(c, t)) /\ \A b \in Partials : InOrder(q, PartialOf(b, c, t))
  BY TrailsInOrder
<1>2. ASSUME NEW a, NEW b, a \in Seq(X), b \in Seq(X), InOrder(q, a \o b)
      PROVE  InOrder(q, a) /\ InOrder(q, b)
  <2> HIDE DEF X, q
  <2>1. Pieces(a \o b, a, b)
    BY <1>2, JoinedPieces
  <2> QED BY <1>2, <2>1, OfPieces
<1>3. ASSUME NEW a \in Accumulators, InOrder(q, HeldBy(a, c, t))
      PROVE  InOrder(q, Spread(F, StoredOf(a))) /\ InOrder(q, Spread(F, Pending(a)))
  <2> DEFINE u == Spread(F, StoredOf(a))
             v == Spread(F, Pending(a))
  <2>1. u \in Seq(X) /\ v \in Seq(X)
    BY <1>0, HeldTyped
  <2>2. InOrder(q, u \o v)
    BY <1>3 DEF HeldBy
  <2> HIDE DEF u, v, X, q
  <2> QED BY <1>2, <2>1, <2>2 DEF u, v
<1>4. InOrder(q, Spread(F, answers)) /\ InOrder(q, HeldBy(Final, c, t))
  <2> DEFINE u == Spread(F, answers)
             v == HeldBy(Final, c, t)
  <2>1. u \in Seq(X) /\ v \in Seq(X)
    BY <1>0, TrailTyped DEF Told
  <2>2. InOrder(q, u \o v)
    BY <1>1 DEF FinalOf
  <2> HIDE DEF u, v, X, q
  <2> QED BY <1>2, <2>1, <2>2 DEF u, v
<1>5. ASSUME NEW b \in Partials
      PROVE  InOrder(q, Spread(F, FlattenSeq(sent[b]))) /\ InOrder(q, HeldBy(b, c, t))
  <2> DEFINE u == Spread(F, FlattenSeq(sent[b]))
             v == HeldBy(b, c, t)
  <2>1. u \in Seq(X) /\ v \in Seq(X)
    BY <1>0, TrailTyped DEF Told
  <2>2. InOrder(q, u \o v)
    BY <1>1 DEF PartialOf
  <2> HIDE DEF u, v, X, q
  <2> QED BY <1>2, <2>1, <2>2 DEF u, v
<1>6. ASSUME NEW a \in Accumulators
      PROVE  InOrder(q, Spread(F, StoredOf(a))) /\ InOrder(q, Spread(F, Pending(a)))
  <2>1. InOrder(q, HeldBy(a, c, t))
    BY <1>4, <1>5 DEF Accumulators
  <2> QED BY <1>3, <2>1
<1>7. \/ \E a \in Accumulators : rows = StoredOf(a) \/ rows = Pending(a)
      \/ \E b \in Partials : rows = FlattenSeq(sent[b])
      \/ rows = answers
  BY DEF AllRows
<1> HIDE DEF F, q
<1> QED BY <1>4, <1>5, <1>6, <1>7 DEF F, q

\* Where trails are kept, every cell folds the rows of a partial in order, and no merge
\* was into nothing.
LEMMA TrailsKeepOrder ==
  ASSUME InputsOK, AllSound, Trails
  PROVE  ArrivalOrder
<1>1. ASSUME NEW x \in Everywhere
      PROVE  /\ x[2].cell.merges < Len(x[2].cell.of)
             /\ \A p \in Partials : InOrder(Sequence(p), x[2].cell.of)
  <2> DEFINE cell == x[2].cell
  <2>1. PICK rows \in AllRows : CellAmong(rows, cell)
    BY EverywhereAmong
  <2> HIDE DEF cell
  <2>2. GoodRows(rows)
    BY AllRowsGood
  <2>3. PICK n \in DOMAIN rows : \E k \in DOMAIN rows[n].times : cell = rows[n].values[k]
    BY <2>1 DEF CellAmong
  <2>4. PICK k \in DOMAIN rows[n].times : cell = rows[n].values[k]
    BY <2>3
  <2>5. CASE SoundRow(rows[n])
    <3>1. cell.merges < Len(cell.of)
      BY <2>4, <2>5 DEF SoundRow, Full
    <3>2. ASSUME NEW p \in Partials PROVE InOrder(Sequence(p), cell.of)
      <4>1. \A c \in Nat : \A t \in Int : InOrder(Sequence(p), Spread(Out(c, t), rows))
        BY RowsInOrder
      <4>2. rows \in Seq(StateRow)
        BY <2>2 DEF GoodRows
      <4> QED BY <2>4, <2>5, <4>1, <4>2, CellInOrder
    <3> QED BY <3>1, <3>2 DEF cell
  <2>6. CASE Len(cell.of) = 1 /\ cell.merges = 0
    <3>1. cell.of \in Seq(Seq(Int))
      <4>1. rows[n] \in StateRow
        BY <2>2 DEF GoodRows
      <4>2. rows[n].values \in Seq(Cell) /\ Len(rows[n].values) = Len(rows[n].times) /\ rows[n].times \in Seq(Int)
        BY <4>1 DEF StateRow
      <4>3. cell \in Cell
        BY <2>4, <4>2
      <4> QED BY <4>3 DEF Cell
    <3>2. DOMAIN cell.of = 1 .. 1
      <4> DEFINE of == cell.of
      <4>1. Len(of) = 1 /\ of \in Seq(Seq(Int))
        BY <2>6, <3>1
      <4> HIDE DEF of
      <4> QED BY <4>1 DEF of
    <3>3. \A p \in Partials : InOrder(Sequence(p), cell.of)
      BY <3>2 DEF InOrder
    <3> QED BY <2>6, <3>3 DEF cell
  <2> QED BY <2>2, <2>4, <2>5, <2>6 DEF GoodRows
<1>2. MergesJoinTwo
  BY <1>1 DEF MergesJoinTwo
<1>3. ASSUME NEW x \in Everywhere, NEW p \in Partials,
             NEW m \in DOMAIN x[2].cell.of, NEW n \in DOMAIN x[2].cell.of,
             x[2].cell.of[m][1] \in ToSet(Sequence(p)), x[2].cell.of[n][1] \in ToSet(Sequence(p)), m < n
      PROVE  (CHOOSE i \in DOMAIN Sequence(p) : Sequence(p)[i] = x[2].cell.of[m][1])
               < (CHOOSE i \in DOMAIN Sequence(p) : Sequence(p)[i] = x[2].cell.of[n][1])
  <2> DEFINE of == x[2].cell.of
             q == Sequence(p)
  <2>1. InOrder(q, of)
    BY <1>1
  <2>2. of[m][1] \in ToSet(q) /\ of[n][1] \in ToSet(q) /\ m \in DOMAIN of /\ n \in DOMAIN of
    BY <1>3
  <2> HIDE DEF of, q
  <2>3. of[m][1] \in IdsOf(q) /\ of[n][1] \in IdsOf(q)
    BY <2>2 DEF ToSet, IdsOf
  <2>4. Place(q, of[m][1]) < Place(q, of[n][1])
    BY <1>3, <2>1, <2>2, <2>3 DEF InOrder
  <2> QED BY <2>4 DEF Place, of, q
<1> QED BY <1>2, <1>3 DEF ArrivalOrder

-----------------------------------------------------------------------------
\* The rows of a scenario are different rows.
LEMMA InitApart ==
  ASSUME Init
  PROVE  Apart
<1>1. PICK s \in Scenarios : input = s.input
  BY DEF Init
<1>2. input \in [Partials -> Seq(Seq(InputRow))]
  BY <1>1, ScenarioAssumption
<1>3. ASSUME NEW p \in Partials, NEW q \in Partials, NEW m \in DOMAIN FlattenSeq(input[p]),
             NEW n \in DOMAIN FlattenSeq(input[q]), FlattenSeq(input[p])[m].id = FlattenSeq(input[q])[n].id
      PROVE  p = q /\ m = n
  BY <1>1, <1>3, RowsAssumption
<1>4. ASSUME NEW p \in Partials
      PROVE  /\ FlattenSeq(input[p]) \in Seq(InputRow)
             /\ Sequence(p) = [n \in DOMAIN FlattenSeq(input[p]) |-> FlattenSeq(input[p])[n].id]
             /\ Ids(p) = {FlattenSeq(input[p])[n].id : n \in DOMAIN FlattenSeq(input[p])}
  <2>1. input[p] \in Seq(Seq(InputRow))
    BY <1>2
  <2>2. FlattenSeq(input[p]) \in Seq(InputRow)
    BY <2>1, FlattenType
  <2> DEFINE W == FlattenSeq(input[p])
  <2>3. Sequence(p) = [n \in DOMAIN W |-> W[n].id]
    BY DEF Sequence
  <2> HIDE DEF W
  <2>4. Ids(p) = {W[n].id : n \in DOMAIN W}
    BY <2>3 DEF Ids
  <2> QED BY <2>2, <2>3, <2>4 DEF W
<1> SUFFICES ASSUME NEW p \in Partials
             PROVE  /\ Rows(FlattenSeq(input[p]), Sequence(p))
                    /\ \A q \in Partials : q # p => Ids(q) \cap Ids(p) = {}
  BY DEF Apart
<1>5. Rows(FlattenSeq(input[p]), Sequence(p))
  BY <1>3, <1>4 DEF Rows
<1>6. ASSUME NEW q \in Partials, q # p, NEW id \in Ids(q) \cap Ids(p) PROVE FALSE
  <2>1. PICK m \in DOMAIN FlattenSeq(input[q]) : id = FlattenSeq(input[q])[m].id
    BY <1>4, <1>6
  <2>2. PICK n \in DOMAIN FlattenSeq(input[p]) : id = FlattenSeq(input[p])[n].id
    BY <1>4, <1>6
  <2> QED BY <1>3, <1>6, <2>1, <2>2
<1> QED BY <1>5, <1>6

\* At the start there is nothing anywhere.
LEMMA InitTrails ==
  ASSUME Init, InputsOK
  PROVE  AllSound /\ Trails
<1>1. /\ grid \in Grids /\ \A p \in Partials : input[p] \in Seq(Seq(InputRow)) /\ taken[p] = 0 /\ sent[p] = <<>>
      /\ skipping = {} /\ callee = None /\ call = <<>> /\ answers = <<>>
      /\ sent = [p \in Partials |-> <<>>]
      /\ \A a \in Accumulators : keys[a] = <<>> /\ store[a] = NewStore
  BY DEF Init, InputsOK
<1>2. AllStocked
  <2>1. Stocked(NewStore, <<>>)
    <3> DEFINE ks == <<>>
    <3>1. ks \in Seq(Nat) /\ DOMAIN ks = {} /\ Len(ks) = 0
      OBVIOUS
    <3>2. StoreOK(NewStore, 0)
      BY NewStoreOK
    <3>3. Marked(NewStore, 0)
      <4>1. 1 .. 0 = {}
        OBVIOUS
      <4> QED BY <4>1 DEF Marked
    <3>4. Distinct(ks)
      BY <3>1 DEF Distinct
    <3> HIDE DEF ks
    <3>5. Stocked(NewStore, ks)
      BY <1>1, <3>1, <3>2, <3>3, <3>4 DEF Stocked
    <3> QED BY <3>5 DEF ks
  <2> QED BY <1>1, <2>1 DEF AllStocked
<1>3. RowsSound
  <2>1. \A X : <<>> \in Seq(X)
    OBVIOUS
  <2> DEFINE Z == Seq(Seq(SoundRows))
  <2>2. sent \in [Partials -> Z]
    BY <1>1, <2>1
  <2> QED BY <1>1, <2>1, <2>2 DEF RowsSound
<1>4. CallFits
  <2>1. \A X : <<>> \in Seq(X)
    OBVIOUS
  <2> QED BY <1>1, <2>1 DEF CallFits
<1>5. ASSUME NEW p \in Partials, NEW c \in Nat, NEW t \in Int PROVE Trail(p, c, t)
  <2>1. <<>> \o <<>> = <<>>
    OBVIOUS
  <2>2. HeldBy(p, c, t) = <<>> /\ HeldBy(Final, c, t) = <<>>
    BY <1>1, HeldNone DEF Accumulators
  <2>3. FinalOf(c, t) = <<>>
    BY <1>1, <2>1, <2>2, SpreadNone DEF FinalOf
  <2>4. PartialOf(p, c, t) = <<>>
    BY <1>1, <2>1, <2>2, SpreadNone, FlattenNone DEF PartialOf
  <2>5. GivenOf(p, c, t) = <<>>
    <3> DEFINE Z == Seq(InputRow)
    <3>1. input[p] \in Seq(Z) /\ taken[p] = 0
      BY <1>1
    <3> HIDE DEF Z
    <3>2. SubSeq(input[p], 1, taken[p]) = <<>>
      BY <3>1
    <3> QED BY <3>2, SpreadNone, FlattenNone DEF GivenOf, TakenRows
  <2> QED BY <2>1, <2>3, <2>4, <2>5, SpreadNone DEF Trail
<1> QED BY <1>2, <1>3, <1>4, <1>5, InitApart DEF AllSound, Trails

\* Until a row is refused, trails are kept.
Trodden == failed = None => AllSound /\ Trails

\* No step of the fold loses the trail of a partial whose rows it has folded.
LEMMA TroddenAlways == Spec => []Trodden
<1>1. Init => IInv /\ Trodden
  <2> SUFFICES ASSUME Init PROVE IInv /\ Trodden
    OBVIOUS
  <2>1. IInv
    BY InitKeeps
  <2>2. InputsOK
    BY <2>1 DEF IInv
  <2> QED BY <2>1, <2>2, InitTrails DEF Trodden
<1>2. IInv /\ Trodden /\ [Next]_vars => Trodden'
  <2> SUFFICES ASSUME IInv, Trodden, [Next]_vars, failed' = None PROVE AllSound' /\ Trails'
    BY DEF Trodden
  <2>1. ASSUME NEW p \in Partials, Update(p) PROVE AllSound' /\ Trails'
    <3>1. AllSound /\ Trails
      BY <2>1 DEF Trodden, Update, Idle
    <3> QED BY <2>1, <3>1, UpdateTrails
  <2>2. ASSUME NEW p \in Partials, MergeBatch(p) PROVE AllSound' /\ Trails'
    <3>1. AllSound /\ Trails
      BY <2>2 DEF Trodden, MergeBatch, Idle
    <3> QED BY <2>2, <3>1, MergeBatchTrails
  <2>3. ASSUME NEW p \in Partials, SkipPartial(p) PROVE AllSound' /\ Trails'
    <3>1. AllSound /\ Trails
      BY <2>3 DEF Trodden, SkipPartial, Idle
    <3> QED BY <2>3, <3>1, SkipPartialTrails
  <2>4. ASSUME NEW p \in Partials, Convert(p) PROVE AllSound' /\ Trails'
    <3>1. AllSound /\ Trails
      BY <2>4, Zenon DEF Trodden, Convert, Idle
    <3> QED BY <2>4, <3>1, ConvertTrails
  <2>5. ASSUME NEW p \in Partials, NEW n \in 1 .. Len(keys[p]), State(p, n) PROVE AllSound' /\ Trails'
    <3>1. AllSound /\ Trails
      BY <2>5 DEF Trodden, State, Idle
    <3> QED BY <2>5, <3>1, StateTrails
  <2>6. ASSUME NEW n \in 1 .. Len(keys[Final]), Evaluate(n) PROVE AllSound' /\ Trails'
    <3>1. AllSound /\ Trails
      BY <2>6 DEF Trodden, Evaluate, Idle
    <3> QED BY <2>6, <3>1, EvaluateTrails
  <2>7. CASE FoldRow
    <3>1. AllSound /\ Trails
      BY <2>7 DEF Trodden, FoldRow
    <3> QED BY <2>7, <3>1, FoldRowTrails
  <2>8. CASE RejectRow
    <3>1. CallOK /\ KeysOK /\ StoresOK /\ grid \in Grids
      BY DEF IInv, InputsOK
    <3>2. call # <<>> /\ failed' = Head(call).times
      BY <2>8 DEF RejectRow
    <3>3. Head(call) \in CallRow
      BY <3>1, <3>2, HeadRow
    <3>4. failed' # None
      BY <3>2, <3>3, AggregateAssumption DEF CallRow
    <3> QED BY <3>4
  <2>9. CASE UNCHANGED vars
    <3>1. /\ grid' = grid /\ input' = input /\ taken' = taken /\ skipping' = skipping
          /\ keys' = keys /\ store' = store /\ callee' = callee /\ call' = call
          /\ sent' = sent /\ answers' = answers /\ failed' = failed
      BY <2>9 DEF vars
    <3>2. AllStocked /\ RowsSound /\ CallFits /\ Apart /\ Trails
      BY <3>1 DEF Trodden, AllSound
    <3>3. AllStocked' /\ CallFits' /\ \A a, c, t : HeldBy(a, c, t)' = HeldBy(a, c, t)
      BY <3>1, <3>2, HeldKept
    <3>4. RowsSound'
      BY <3>1, <3>2 DEF RowsSound
    <3>5. Apart' /\ \A q \in Partials : Ids(q)' = Ids(q)
      BY <3>1, <3>2, IdsKept
    <3>6. ASSUME NEW q \in Partials, NEW c \in Nat, NEW t \in Int PROVE Trail(q, c, t)'
      <4>1. Trail(q, c, t) /\ Ids(q)' = Ids(q)
        BY <3>2, <3>5 DEF Trails
      <4>2. FinalOf(c, t)' = FinalOf(c, t)
        BY <3>1, <3>3 DEF FinalOf
      <4>3. PartialOf(q, c, t)' = PartialOf(q, c, t)
        BY <3>1, <3>3 DEF PartialOf
      <4>4. GivenOf(q, c, t)' = GivenOf(q, c, t)
        BY <3>1 DEF GivenOf, TakenRows
      <4> QED BY <4>1, <4>2, <4>3, <4>4, TrailKept
    <3> QED BY <3>3, <3>4, <3>5, <3>6 DEF AllSound, Trails
  <2> QED BY <2>1, <2>2, <2>3, <2>4, <2>5, <2>6, <2>7, <2>8, <2>9, Zenon DEF Next
<1> QED BY <1>1, <1>2, AggregateInvariance, PTL DEF Spec

\* A step that only fails leaves the order.
LEMMA FailingKeepsOrder ==
  ASSUME ArrivalOrder, IInv, [Next]_vars, failed' # None
  PROVE  ArrivalOrder'
<1>1. /\ grid' = grid /\ input' = input /\ keys' = keys /\ store' = store
      /\ callee' = callee /\ call' = call /\ sent' = sent /\ answers' = answers
  <2>1. CASE UNCHANGED vars
    BY <2>1 DEF vars
  <2>2. CASE RejectRow
    BY <2>2 DEF RejectRow
  <2>3. ASSUME NEW p \in Partials, Convert(p)
        PROVE  /\ grid' = grid /\ input' = input /\ keys' = keys /\ store' = store
               /\ callee' = callee /\ call' = call /\ sent' = sent /\ answers' = answers
    BY <2>3, Zenon DEF Convert, Idle
  <2>4. ASSUME NEW p \in Partials, Update(p) \/ MergeBatch(p) \/ SkipPartial(p) PROVE FALSE
    BY <2>4, Zenon DEF Update, MergeBatch, SkipPartial, Idle
  <2>5. ASSUME NEW p \in Partials, NEW n \in 1 .. Len(keys[p]), State(p, n) PROVE FALSE
    BY <2>5 DEF State, Idle
  <2>6. ASSUME NEW n \in 1 .. Len(keys[Final]), Evaluate(n) PROVE FALSE
    BY <2>6, Zenon DEF Evaluate, Idle
  <2>7. CASE FoldRow
    BY <2>7 DEF FoldRow
  <2> QED BY <2>1, <2>2, <2>3, <2>4, <2>5, <2>6, <2>7, Zenon DEF Next
<1>2. \A a : InStore(a)' = InStore(a)
  <2>1. \A st, g, key : ListRow(st, g, key)' = ListRow(st, g, key)
    BY <1>1 DEF ListRow, View, Kept, SingleStep, Timestamp
  <2> QED BY <1>1, <2>1 DEF InStore
<1>3. InCall' = InCall
  BY <1>1 DEF InCall
<1>4. Everywhere' = Everywhere
  BY <1>1, <1>2, <1>3 DEF Everywhere
<1>5. \A p : Sequence(p)' = Sequence(p)
  BY <1>1 DEF Sequence
<1>6. MergesJoinTwo' <=> MergesJoinTwo
  BY <1>4 DEF MergesJoinTwo
<1> QED BY <1>4, <1>5, <1>6 DEF ArrivalOrder

\* Rows of one partition are folded in the order they arrived, on every grid, in every
\* batch, through any number of partial states and passed through or not, and no state is
\* ever folded into nothing.
THEOREM FoldsInArrivalOrder == Spec => []ArrivalOrder
<1>1. IInv /\ Trodden => (failed = None => ArrivalOrder)
  BY TrailsKeepOrder DEF IInv, Trodden
<1>2. Init => failed = None
  BY DEF Init
<1>3. ArrivalOrder /\ IInv /\ [Next]_vars /\ (failed = None => ArrivalOrder)' => ArrivalOrder'
  BY FailingKeepsOrder
<1> QED BY <1>1, <1>2, <1>3, AggregateInvariance, TroddenAlways, PTL DEF Spec

-----------------------------------------------------------------------------
(***************************************************************************)
(* Every sample in one cell.                                               *)
(***************************************************************************)
\* The rows given are those taken.
LEMMA GivenTaken ==
  ASSUME InputsOK, NEW r
  PROVE  r \in Given <=> \E p \in Partials : Has(TakenRows(p), r)
<1>1. ASSUME NEW p \in Partials
      PROVE  Has(TakenRows(p), r) <=> \E n \in 1 .. taken[p] : r \in ToSet(input[p][n])
  <2> DEFINE Z == Seq(InputRow)
             F == [s \in Z |-> s]
             in == input[p]
             k == taken[p]
             a == SubSeq(in, 1, k)
  <2>1. in \in Seq(Z) /\ k \in Nat /\ k \in 0 .. Len(in)
    BY DEF InputsOK
  <2>2. Spreads(F, Z, InputRow) /\ \A s \in Z : F[s] = s
    <3>1. F \in [Z -> Z]
      OBVIOUS
    <3> QED BY <3>1 DEF Spreads
  <2>3. \A s : Has(s, r) <=> r \in ToSet(s)
    BY DEF Has, ToSet
  <2> HIDE DEF Z, F, in, k
  <2>4. a \in Seq(Z) /\ DOMAIN a = 1 .. k /\ \A n \in 1 .. k : a[n] = in[n] /\ a[n] \in Z
    BY <2>1
  <2> HIDE DEF a
  <2>5. Mapped(F, a) = a
    BY <2>2, <2>4 DEF Mapped
  <2>6. TakenRows(p) = Spread(F, a)
    BY <2>5 DEF TakenRows, Spread, a, in, k
  <2>7. Has(Spread(F, a), r) <=> \E n \in DOMAIN a : Has(F[a[n]], r)
    BY <2>2, <2>4, SpreadHas
  <2> QED BY <2>2, <2>3, <2>4, <2>6, <2>7 DEF in, k
<1>2. r \in Given <=> \E p \in Partials : \E n \in 1 .. taken[p] : r \in ToSet(input[p][n])
  BY DEF Given
<1> QED BY <1>1, <1>2

\* A row taken is one of the partial's input, and no other row has its id.
LEMMA TakenApart ==
  ASSUME InputsOK, Apart, NEW p \in Partials, NEW r, Has(TakenRows(p), r)
  PROVE  /\ r \in InputRow /\ r.id \in Ids(p) /\ TakenRows(p) \in Seq(InputRow)
         /\ \A q \in Partials : \A w : Has(TakenRows(q), w) /\ w.id = r.id => q = p /\ w = r
<1>1. ASSUME NEW q \in Partials
      PROVE  /\ TakenRows(q) \in Seq(InputRow)
             /\ \A w : Has(TakenRows(q), w) => \E n \in DOMAIN FlattenSeq(input[q]) : FlattenSeq(input[q])[n] = w
             /\ Rows(FlattenSeq(input[q]), Sequence(q)) /\ Ids(q) = IdsOf(Sequence(q))
  <2> DEFINE in == input[q]
             k == taken[q]
             a == SubSeq(in, 1, k)
             b == SubSeq(in, k + 1, Len(in))
             R == Seq(InputRow)
             W == FlattenSeq(in)
             x == FlattenSeq(a)
             y == FlattenSeq(b)
  <2>0. in \in Seq(R) /\ k \in 0 .. Len(in)
    BY DEF InputsOK
  <2>1. Rows(W, Sequence(q)) /\ Ids(q) = IdsOf(Sequence(q))
    BY DEF Apart, Ids, IdsOf
  <2> HIDE DEF in, k, R
  <2>2. Parts(R, in, k, a, b)
    BY <2>0, Parted
  <2> HIDE DEF a, b
  <2>3. a \in Seq(R) /\ b \in Seq(R) /\ in = a \o b
    BY <2>2 DEF Parts
  <2>4. W = x \o y
    BY <2>3, FlattenConcat DEF R
  <2>5. x \in Seq(InputRow) /\ y \in Seq(InputRow)
    BY <2>3, FlattenType DEF R
  <2>6. TakenRows(q) = x
    BY DEF TakenRows, x, a, in, k
  <2> HIDE DEF x, y, W
  <2>7. Pieces(W, x, y)
    BY <2>4, <2>5, JoinedPieces
  <2>8. \A w : Has(x, w) => \E n \in DOMAIN W : W[n] = w
    BY <2>7, HasPieces DEF Has
  <2> QED BY <2>1, <2>5, <2>6, <2>8 DEF W, in
<1>2. PICK m \in DOMAIN FlattenSeq(input[p]) : FlattenSeq(input[p])[m] = r
  BY <1>1
<1>3. r \in InputRow /\ r.id \in Ids(p)
  <2>1. FlattenSeq(input[p])[m] \in InputRow /\ m \in DOMAIN Sequence(p) /\ Sequence(p)[m] = r.id
    <3> DEFINE W == FlattenSeq(input[p])
    <3>1. Rows(W, Sequence(p)) /\ m \in DOMAIN W /\ W[m] = r
      BY <1>1, <1>2
    <3> HIDE DEF W
    <3> QED BY <3>1 DEF Rows, W
  <2> QED BY <1>2, <2>1 DEF Ids
<1>4. ASSUME NEW q \in Partials, NEW w, Has(TakenRows(q), w), w.id = r.id PROVE q = p /\ w = r
  <2>1. PICK n \in DOMAIN FlattenSeq(input[q]) : FlattenSeq(input[q])[n] = w
    BY <1>1, <1>4
  <2>2. w.id \in Ids(q)
    <3> DEFINE W == FlattenSeq(input[q])
    <3>1. Rows(W, Sequence(q)) /\ n \in DOMAIN W /\ W[n] = w
      BY <1>1, <2>1
    <3> HIDE DEF W
    <3>2. n \in DOMAIN Sequence(q) /\ Sequence(q)[n] = w.id
      BY <3>1 DEF Rows
    <3> QED BY <3>2 DEF Ids
  <2>3. q = p
    BY <1>3, <1>4, <2>2 DEF Apart
  <2>4. w = r
    BY <1>1, <1>2, <1>4, <2>1, <2>3 DEF Rows
  <2> QED BY <2>3, <2>4
<1> QED BY <1>1, <1>3, <1>4

\* What a row that is not skipped is converted to.
LEMMA ConvertedCells ==
  ASSUME NEW r \in InputRow, ~r.skipped
  PROVE  /\ Converted(r).key = r.key /\ Converted(r).times = r.times
         /\ \A k \in DOMAIN r.times : Converted(r).values[k].of = << <<r.id, r.times[k]>> >>
<1> DEFINE v == Contributions(r)
           vs == [k \in DOMAIN r.times |-> Add(Fresh, v[k])]
<1>1. Converted(r) = [key |-> r.key, times |-> r.times, values |-> vs]
  BY DEF Converted
<1>2. ASSUME NEW k \in DOMAIN r.times PROVE vs[k].of = << <<r.id, r.times[k]>> >>
  <2>1. vs[k] = Add(Fresh, <<r.id, r.times[k]>>)
    BY DEF Contributions
  <2>2. Append(<<>>, <<r.id, r.times[k]>>) = << <<r.id, r.times[k]>> >>
    OBVIOUS
  <2> HIDE DEF vs
  <2> QED BY <2>1, <2>2 DEF Add, Fresh
<1> HIDE DEF vs
<1> QED BY <1>1, <1>2

\* What a partial was given has of a row it took the row's times, under its key.
LEMMA GivenHas ==
  ASSUME InputsOK, Apart, NEW p \in Partials, NEW r, Has(TakenRows(p), r), NEW c, NEW t
  PROVE  /\ \A u : Has(GivenOf(p, c, t), <<r.id, u>>) => ~r.skipped /\ r.key = c /\ u = t
         /\ ~r.skipped /\ r.key = c /\ (\E k \in DOMAIN r.times : r.times[k] = t)
              => Has(GivenOf(p, c, t), <<r.id, t>>)
<1> DEFINE T == TakenRows(p)
           G == GivenOut(c, t)
           X == Seq(Int)
<1>1. T \in Seq(InputRow) /\ r \in InputRow
  BY TakenApart
<1>2. Spreads(G, InputRow, X) /\ \A w \in InputRow : G[w] = OfRow(Converted(w), c, t)
  BY GivenTyped
<1>3. ASSUME NEW e PROVE Has(GivenOf(p, c, t), e) <=> \E n \in DOMAIN T : Has(G[T[n]], e)
  <2> HIDE DEF T, G, X
  <2>1. Has(Spread(G, T), e) <=> \E n \in DOMAIN T : Has(G[T[n]], e)
    BY <1>1, <1>2, SpreadHas
  <2> QED BY <2>1 DEF GivenOf, T, G
<1>4. ASSUME NEW u, Has(GivenOf(p, c, t), <<r.id, u>>) PROVE ~r.skipped /\ r.key = c /\ u = t
  <2> DEFINE e == <<r.id, u>>
  <2>1. PICK n \in DOMAIN T : Has(G[T[n]], e)
    BY <1>3, <1>4
  <2> DEFINE w == T[n]
  <2>2. w \in InputRow /\ Has(T, w)
    BY <1>1 DEF Has
  <2>3. G[w] = <<>> \/ G[w] = << <<w.id, t>> >>
    BY <2>2, GivesOne
  <2>4. G[w] # <<>> /\ e = <<w.id, t>>
    <3> DEFINE g == G[w]
    <3>1. Has(g, e) /\ (g = <<>> \/ g = << <<w.id, t>> >>)
      BY <2>1, <2>3
    <3> HIDE DEF g, w, e
    <3> QED BY <3>1 DEF Has, g
  <2>5. w = r /\ u = t
    <3>1. w.id = r.id /\ u = t
      BY <2>4
    <3> QED BY <2>2, <3>1, TakenApart
  <2>6. ~r.skipped
    <3>1. r.skipped => G[r] = <<>>
      BY <1>1, SkippedGives
    <3> QED BY <2>4, <2>5, <3>1
  <2>7. r.key = c
    <3>1. OfRow(Converted(r), c, t) # <<>>
      BY <1>1, <1>2, <2>4, <2>5
    <3>2. Converted(r).key = c
      BY <3>1 DEF OfRow
    <3> QED BY <1>1, <2>6, <3>2, ConvertedCells
  <2> QED BY <2>5, <2>6, <2>7
<1>5. ASSUME ~r.skipped, r.key = c, NEW k \in DOMAIN r.times, r.times[k] = t
      PROVE  Has(GivenOf(p, c, t), <<r.id, t>>)
  <2> DEFINE row == Converted(r)
             j == CHOOSE j \in DOMAIN row.times : row.times[j] = t
  <2>1. row.key = c /\ row.times = r.times
        /\ \A i \in DOMAIN r.times : row.values[i].of = << <<r.id, r.times[i]>> >>
    BY <1>1, <1>5, ConvertedCells
  <2> HIDE DEF row
  <2>2. j \in DOMAIN r.times /\ r.times[j] = t /\ OfRow(row, c, t) = row.values[j].of
    BY <1>5, <2>1 DEF OfRow
  <2> HIDE DEF j
  <2>3. G[r] = << <<r.id, t>> >>
    BY <1>1, <1>2, <2>1, <2>2 DEF row
  <2>4. Has(G[r], <<r.id, t>>)
    <3> DEFINE g == G[r]
    <3>1. 1 \in DOMAIN g /\ g[1] = <<r.id, t>>
      BY <2>3
    <3> QED BY <3>1 DEF Has
  <2>5. PICK n \in DOMAIN T : T[n] = r
    BY DEF Has
  <2> QED BY <1>3, <2>4, <2>5
<1> QED BY <1>4, <1>5

-----------------------------------------------------------------------------
\* Where cells are: who has them, as what, and the rows they are in.
Sources ==
  {<<a, "store", StoredOf(a)>> : a \in Accumulators}
    \cup {<<p, "sent", FlattenSeq(sent[p])>> : p \in Partials}
    \cup {<<None, "call", Pending(callee)>>, <<None, "answer", answers>>}

Spot(s, n, k) ==
  <<s[1], [place |-> <<s[2], n, k>>, key |-> s[3][n].key, time |-> s[3][n].times[k],
           cell |-> s[3][n].values[k]]>>

\* A cell that is everywhere is at one of these.
LEMMA EverywhereIs ==
  ASSUME AllStocked, NEW x
  PROVE  x \in Everywhere <=>
           \E s \in Sources : \E n \in DOMAIN s[3] : \E k \in DOMAIN s[3][n].times : x = Spot(s, n, k)
<1>1. ASSUME NEW tag, NEW rows, NEW y
      PROVE  y \in InRows(tag, rows) <=>
               \E n \in DOMAIN rows : \E k \in DOMAIN rows[n].times :
                 y = [place |-> <<tag, n, k>>, key |-> rows[n].key, time |-> rows[n].times[k],
                      cell |-> rows[n].values[k]]
  BY DEF InRows
<1>2. ASSUME NEW a \in Accumulators PROVE InStore(a) = InRows("store", StoredOf(a))
  <2> DEFINE ks == keys[a]
             st == store[a]
  <2>1. ks \in Seq(Nat)
    BY DEF AllStocked, Stocked
  <2>2. DOMAIN StoredOf(a) = DOMAIN ks /\ \A g \in DOMAIN ks : StoredOf(a)[g] = ListRow(st, g, ks[g])
    BY <2>1 DEF StoredOf, StoredRows
  <2> HIDE DEF ks, st
  <2> QED BY <2>2 DEF InStore, InRows, ks, st
<1>3. InCall = InRows("call", Pending(callee))
  <2> DEFINE ks == keys[callee]
             rows == Pending(callee)
  <2>1. DOMAIN rows = DOMAIN call /\ \A n \in DOMAIN call : rows[n] = AsStates(call[n], ks)
    BY DEF Pending
  <2>2. ASSUME NEW n \in DOMAIN call
        PROVE  /\ rows[n].key = ks[call[n].group] /\ rows[n].times = call[n].times
               /\ \A k \in DOMAIN call[n].times :
                    rows[n].values[k] = IF call[n].partial THEN call[n].values[k]
                                        ELSE Add(Fresh, call[n].values[k])
    BY <2>1 DEF AsStates
  <2> HIDE DEF rows
  <2> QED BY <2>1, <2>2 DEF InCall, InRows, rows
<1> DEFINE S == UNION {{<<a, y>> : y \in InStore(a)} : a \in Accumulators}
           B == UNION {{<<p, y>> : y \in InRows("sent", FlattenSeq(sent[p]))} : p \in Partials}
           C == {<<None, y>> : y \in InCall \cup InRows("answer", answers)}
           At3(s) == \E n \in DOMAIN s[3] : \E k \in DOMAIN s[3][n].times : x = Spot(s, n, k)
<1>4. Everywhere = S \cup B \cup C
  BY Zenon DEF Everywhere
<1>5. ASSUME NEW who, NEW tag, NEW rows
      PROVE  At3(<<who, tag, rows>>) <=> \E y \in InRows(tag, rows) : x = <<who, y>>
  BY <1>1 DEF Spot
<1>6. x \in S <=> \E a \in Accumulators : At3(<<a, "store", StoredOf(a)>>)
  <2>1. x \in S <=> \E a \in Accumulators : \E y \in InStore(a) : x = <<a, y>>
    OBVIOUS
  <2>2. ASSUME NEW a \in Accumulators
        PROVE  At3(<<a, "store", StoredOf(a)>>) <=> \E y \in InStore(a) : x = <<a, y>>
    <3> HIDE DEF At3
    <3> QED BY <1>2, <1>5
  <2> HIDE DEF S, At3
  <2> QED BY <2>1, <2>2
<1>7. x \in B <=> \E p \in Partials : At3(<<p, "sent", FlattenSeq(sent[p])>>)
  <2>1. x \in B <=> \E p \in Partials : \E y \in InRows("sent", FlattenSeq(sent[p])) : x = <<p, y>>
    OBVIOUS
  <2> HIDE DEF B, At3
  <2> QED BY <1>5, <2>1
<1>8. x \in C <=> At3(<<None, "call", Pending(callee)>>) \/ At3(<<None, "answer", answers>>)
  <2>1. x \in C <=> (\E y \in InRows("call", Pending(callee)) : x = <<None, y>>)
                      \/ \E y \in InRows("answer", answers) : x = <<None, y>>
    BY <1>3
  <2> HIDE DEF C, At3
  <2> QED BY <1>5, <2>1
<1> HIDE DEF S, B, C
<1>9. (\E s \in Sources : At3(s)) <=>
        \/ \E a \in Accumulators : At3(<<a, "store", StoredOf(a)>>)
        \/ \E p \in Partials : At3(<<p, "sent", FlattenSeq(sent[p])>>)
        \/ At3(<<None, "call", Pending(callee)>>) \/ At3(<<None, "answer", answers>>)
  <2> HIDE DEF At3
  <2> QED BY DEF Sources
<1> QED BY <1>4, <1>6, <1>7, <1>8, <1>9

-----------------------------------------------------------------------------
\* The rows of a call that are not states are rows of input that were taken.
CallIsGiven ==
  \A n \in DOMAIN call : ~call[n].partial =>
    \E w \in Given : ~w.skipped /\ AsStates(call[n], keys[callee]) = Converted(w)

\* What the final has of a partial's rows, then what the partial has, is in order and has
\* what the partial was given.
LEMMA WholeTrail ==
  ASSUME InputsOK, AllSound, Trails, NEW p \in Partials, NEW c \in Nat, NEW t \in Int,
         NEW whole, whole = FinalOf(c, t) \o PartialOf(p, c, t), NEW e \in Seq(Int), e[1] \in Ids(p)
  PROVE  /\ InOrder(Sequence(p), whole)
         /\ Pieces(whole, FinalOf(c, t), PartialOf(p, c, t))
         /\ Has(whole, e) <=> Has(GivenOf(p, c, t), e)
<1> DEFINE X == Seq(Int)
           F == Owned(Ids(p))
           f == FinalOf(c, t)
           b == PartialOf(p, c, t)
           g == GivenOf(p, c, t)
           q == Sequence(p)
           d == Spread(F, f)
<1>0. AllStocked /\ RowsSound /\ CallFits /\ Apart
  BY DEF AllSound
<1>1. f \in Seq(X) /\ b \in Seq(X)
  BY <1>0, TrailTyped DEF Told
<1>2. g = d \o b
  BY DEF Trails, Trail
<1>3. OfIds(Ids(p), g) /\ InOrder(q, g) /\ Ids(p) = IdsOf(q)
  BY <1>0, GivenApart
<1>4. Spreads(F, X, X) /\ \A i \in X : F[i] = IF i[1] \in Ids(p) THEN <<i>> ELSE <<>>
  BY OwnedTyped
<1>5. \A s \in Seq(X) : OfIds(Ids(p), s) => Spread(F, s) = s
  BY OwnedAll
<1>e. e \in X
  OBVIOUS
<1> HIDE DEF X, F, f, b, g, q
<1>6. d \in Seq(X)
  BY <1>1, <1>4, SpreadType
<1> HIDE DEF d
<1>7. Pieces(g, d, b)
  BY <1>1, <1>2, <1>6, JoinedPieces
<1>8. Spread(F, b) = b
  BY <1>1, <1>3, <1>5, <1>7, OfPieces
<1>9. whole = f \o b
  BY DEF f, b
<1>10. Pieces(whole, f, b) /\ whole \in Seq(X)
  BY <1>1, <1>9, JoinedPieces
<1>11. Spread(F, whole) = g
  <2>1. Spread(F, f \o b) = Spread(F, f) \o Spread(F, b)
    BY <1>1, <1>4, SpreadConcat
  <2> QED BY <1>2, <1>8, <1>9, <2>1 DEF d
<1>12. InOrder(q, whole)
  <2>1. InOrder(q, Spread(Owned(IdsOf(q)), whole))
    BY <1>3, <1>11 DEF F
  <2>2. whole \in Seq(Seq(Int))
    BY <1>10 DEF X
  <2> QED BY <2>1, <2>2, OwnInOrder
<1>13. Has(whole, e) <=> Has(g, e)
  <2>1. Has(g, e) <=> \E n \in DOMAIN whole : Has(F[whole[n]], e)
    BY <1>4, <1>10, <1>11, SpreadHas
  <2>2. ASSUME NEW n \in DOMAIN whole PROVE Has(F[whole[n]], e) <=> whole[n] = e
    <3> DEFINE i == whole[n]
    <3>1. i \in X
      BY <1>10
    <3> HIDE DEF i
    <3>2. CASE i[1] \in Ids(p)
      <4>1. F[i] = <<i>>
        BY <1>4, <3>1, <3>2
      <4>2. Has(<<i>>, e) <=> i = e
        BY DEF Has
      <4> QED BY <4>1, <4>2 DEF i
    <3>3. CASE i[1] \notin Ids(p)
      <4>1. F[i] = <<>> /\ i # e
        BY <1>4, <3>1, <3>3
      <4>2. ~Has(<<>>, e)
        BY DEF Has
      <4> QED BY <4>1, <4>2 DEF i
    <3> QED BY <3>2, <3>3
  <2> QED BY <2>1, <2>2 DEF Has
<1> QED BY <1>10, <1>12, <1>13 DEF f, b, g, q

\* What is of a partial's rows is of ids none twice.
LEMMA OwnAlone ==
  ASSUME Apart, NEW p \in Partials, NEW e, e[1] \in Ids(p)
  PROVE  Alone(Sequence(p), e)
<1> DEFINE q == Sequence(p)
           W == FlattenSeq(input[p])
<1>1. Ids(p) = IdsOf(q)
  BY DEF Ids, IdsOf
<1>2. Rows(W, q)
  BY DEF Apart
<1> HIDE DEF W, q
<1>3. W \in Seq(InputRow) /\ q = [n \in DOMAIN W |-> W[n].id]
  BY <1>2 DEF Rows
<1>4. \A w \in InputRow : w.id \in Nat
  BY DEF InputRow
<1>5. q \in Seq(Nat)
  BY <1>3, <1>4
<1> QED BY <1>1, <1>5 DEF Alone, q

\* Who has what of a key and a time.
Tells(s, c, t, e) == Has(Spread(Out(c, t), s[3]), e)

\* No two have it, and one does.
ToldOnce(c, t, e) == \A s, r \in Sources : Tells(s, c, t, e) /\ Tells(r, c, t, e) => s = r

ToldBy(c, t, e) == \E s \in Sources : Tells(s, c, t, e)

\* A pair of pieces of which one has it, where the whole has it.
Splits(s, a, b, e) == (Has(s, e) <=> Has(a, e) \/ Has(b, e)) /\ ~(Has(a, e) /\ Has(b, e))

\* What a partial was given is with one that has cells, and only one.
LEMMA OneSource ==
  ASSUME InputsOK, AllSound, Trails, NEW p \in Partials, NEW c \in Nat, NEW t \in Int,
         NEW e \in Seq(Int), e[1] \in Ids(p)
  PROVE  ToldOnce(c, t, e) /\ (Has(GivenOf(p, c, t), e) <=> ToldBy(c, t, e))
<1> DEFINE X == Seq(Int)
           F == Out(c, t)
           q == Sequence(p)
           ff == FinalOf(c, t)
           pp == PartialOf(p, c, t)
           hf == HeldBy(Final, c, t)
           hp == HeldBy(p, c, t)
           a1 == Spread(F, answers)
           a2 == Spread(F, StoredOf(Final))
           a3 == Spread(F, Pending(Final))
           b1 == Spread(F, FlattenSeq(sent[p]))
           b2 == Spread(F, StoredOf(p))
           b3 == Spread(F, Pending(p))
           whole == ff \o pp
<1>0. AllStocked /\ RowsSound /\ CallFits /\ Apart
  BY DEF AllSound
<1>1. /\ a1 \in Seq(X) /\ hf \in Seq(X) /\ b1 \in Seq(X) /\ hp \in Seq(X)
      /\ a2 \in Seq(X) /\ a3 \in Seq(X) /\ b2 \in Seq(X) /\ b3 \in Seq(X)
  BY <1>0, TrailTyped, HeldTyped DEF Told, Accumulators
<1>2. /\ ff = a1 \o hf /\ hf = a2 \o a3 /\ pp = b1 \o hp /\ hp = b2 \o b3
  BY DEF FinalOf, PartialOf, HeldBy
<1>3. /\ InOrder(q, whole) /\ Pieces(whole, ff, pp)
      /\ Has(whole, e) <=> Has(GivenOf(p, c, t), e)
  BY WholeTrail
<1>4. Alone(q, e)
  BY <1>0, OwnAlone
<1>n. ~Has(<<>>, e)
  BY DEF Has
<1>5. ASSUME NEW a \in Accumulators, Has(Spread(F, Pending(a)), e) PROVE a = callee
  <2>1. a # callee => Pending(a) = <<>>
    BY DEF Pending
  <2>2. a # callee => Spread(F, Pending(a)) = <<>>
    BY <2>1, SpreadNone
  <2> QED BY <1>5, <1>n, <2>2
<1>6. ASSUME Has(Spread(F, Pending(callee)), e) PROVE callee \in Accumulators
  <2>1. CASE call = <<>>
    <3>1. Pending(callee) = <<>>
      BY <2>1 DEF Pending
    <3> QED BY <1>6, <1>n, <3>1, SpreadNone
  <2>2. CASE call # <<>>
    BY <1>0, <2>2 DEF CallFits
  <2> QED BY <2>1, <2>2
<1>7. ASSUME NEW b \in Partials, b # p
      PROVE  /\ ~Has(Spread(F, FlattenSeq(sent[b])), e) /\ ~Has(Spread(F, StoredOf(b)), e)
             /\ ~Has(Spread(F, Pending(b)), e)
  <2> DEFINE ob == PartialOf(b, c, t)
             oh == HeldBy(b, c, t)
             o1 == Spread(F, FlattenSeq(sent[b]))
             o2 == Spread(F, StoredOf(b))
             o3 == Spread(F, Pending(b))
             fb == FinalOf(c, t)
             gb == GivenOf(b, c, t)
             ob2 == Spread(Owned(Ids(b)), fb)
  <2>1. /\ o1 \in Seq(X) /\ oh \in Seq(X) /\ o2 \in Seq(X) /\ o3 \in Seq(X) /\ ob \in Seq(X) /\ fb \in Seq(X)
    BY <1>0, TrailTyped, HeldTyped DEF Told, Accumulators
  <2>2. ob = o1 \o oh /\ oh = o2 \o o3
    BY DEF PartialOf, HeldBy
  <2>3. OfIds(Ids(b), gb) /\ gb = ob2 \o ob
    BY <1>0, GivenApart DEF Trails, Trail
  <2>4. ob2 \in Seq(X)
    BY <2>1, OwnedTyped, SpreadType
  <2> HIDE DEF ob, oh, o1, o2, o3, fb, gb, ob2, X
  <2>5. Pieces(gb, ob2, ob) /\ Pieces(ob, o1, oh) /\ Pieces(oh, o2, o3)
    BY <2>1, <2>2, <2>3, <2>4, JoinedPieces
  <2>6. ~Has(ob, e)
    <3>1. OfIds(Ids(b), ob)
      BY <2>3, <2>5, OfPieces
    <3>2. e[1] \notin Ids(b)
      BY <1>0, <1>7 DEF Apart
    <3> QED BY <3>1, <3>2 DEF OfIds, Has
  <2>7. ~Has(o1, e) /\ ~Has(oh, e)
    BY <2>5, <2>6, HasPieces
  <2>8. ~Has(o2, e) /\ ~Has(o3, e)
    BY <2>5, <2>7, HasPieces
  <2> QED BY <2>7, <2>8 DEF o1, o2, o3
<1> HIDE DEF X, q, ff, pp, hf, hp, a1, a2, a3, b1, b2, b3, whole
<1>8. Pieces(ff, a1, hf) /\ Pieces(hf, a2, a3) /\ Pieces(pp, b1, hp) /\ Pieces(hp, b2, b3)
  BY <1>1, <1>2, JoinedPieces
<1>9. InOrder(q, ff) /\ InOrder(q, pp) /\ InOrder(q, hf) /\ InOrder(q, hp)
  <2>1. InOrder(q, ff) /\ InOrder(q, pp)
    BY <1>3, OfPieces
  <2> QED BY <1>8, <2>1, OfPieces
<1>10. ASSUME NEW s, NEW a, NEW b, Pieces(s, a, b), InOrder(q, s) PROVE Splits(s, a, b, e)
  BY <1>4, <1>10, HasPieces DEF Splits
<1>11. /\ Splits(whole, ff, pp, e) /\ Splits(ff, a1, hf, e) /\ Splits(hf, a2, a3, e)
       /\ Splits(pp, b1, hp, e) /\ Splits(hp, b2, b3, e)
  BY <1>3, <1>8, <1>9, <1>10
<1> DEFINE ans == <<None, "answer", answers>>
           cal == <<None, "call", Pending(callee)>>
           sto(a) == <<a, "store", StoredOf(a)>>
           sen == <<p, "sent", FlattenSeq(sent[p])>>
           One(s) == \/ s = ans /\ Has(a1, e)
                     \/ s = sto(Final) /\ Has(a2, e)
                     \/ s = cal /\ Has(a3, e)
                     \/ s = sen /\ Has(b1, e)
                     \/ s = sto(p) /\ Has(b2, e)
                     \/ s = cal /\ Has(b3, e)
<1>12. ASSUME NEW s \in Sources, Tells(s, c, t, e) PROVE One(s)
  <2>1. CASE s = ans
    BY <1>12, <2>1 DEF Tells, a1
  <2>2. ASSUME s = cal PROVE s = cal /\ (Has(a3, e) \/ Has(b3, e))
    <3>1. Has(Spread(F, Pending(callee)), e)
      BY <1>12, <2>2 DEF Tells
    <3>2. callee \in Accumulators
      BY <1>6, <3>1
    <3>3. CASE callee = Final
      BY <2>2, <3>1, <3>3 DEF a3
    <3>4. CASE callee \in Partials
      <4>1. callee = p
        BY <1>7, <3>1, <3>4
      <4> QED BY <2>2, <3>1, <4>1 DEF b3
    <3> QED BY <3>2, <3>3, <3>4 DEF Accumulators
  <2>3. ASSUME NEW a \in Accumulators, s = sto(a)
        PROVE  (s = sto(Final) /\ Has(a2, e)) \/ (s = sto(p) /\ Has(b2, e))
    <3>1. Has(Spread(F, StoredOf(a)), e)
      BY <1>12, <2>3 DEF Tells
    <3>2. CASE a = Final
      BY <2>3, <3>1, <3>2 DEF a2
    <3>3. CASE a \in Partials
      <4>1. a = p
        BY <1>7, <3>1, <3>3
      <4> QED BY <2>3, <3>1, <4>1 DEF b2
    <3> QED BY <3>2, <3>3 DEF Accumulators
  <2>4. ASSUME NEW b \in Partials, s = <<b, "sent", FlattenSeq(sent[b])>> PROVE s = sen /\ Has(b1, e)
    <3>1. Has(Spread(F, FlattenSeq(sent[b])), e)
      BY <1>12, <2>4 DEF Tells
    <3>2. b = p
      BY <1>7, <3>1
    <3> QED BY <2>4, <3>1, <3>2 DEF b1
  <2>5. \/ s = ans \/ s = cal \/ \E a \in Accumulators : s = sto(a)
        \/ \E b \in Partials : s = <<b, "sent", FlattenSeq(sent[b])>>
    BY DEF Sources
  <2> HIDE DEF ans, cal, sto, sen
  <2> QED BY <1>12, <2>1, <2>2, <2>3, <2>4, <2>5
<1>13. /\ Has(a1, e) => ans \in Sources /\ Tells(ans, c, t, e)
       /\ Has(a2, e) => sto(Final) \in Sources /\ Tells(sto(Final), c, t, e)
       /\ Has(b1, e) => sen \in Sources /\ Tells(sen, c, t, e)
       /\ Has(b2, e) => sto(p) \in Sources /\ Tells(sto(p), c, t, e)
       /\ Has(a3, e) \/ Has(b3, e) => cal \in Sources /\ Tells(cal, c, t, e)
  <2>1. ans \in Sources /\ cal \in Sources /\ sen \in Sources /\ sto(Final) \in Sources /\ sto(p) \in Sources
    BY DEF Sources, Accumulators
  <2>2. /\ Has(a1, e) => Tells(ans, c, t, e)
        /\ Has(a2, e) => Tells(sto(Final), c, t, e)
        /\ Has(b1, e) => Tells(sen, c, t, e)
        /\ Has(b2, e) => Tells(sto(p), c, t, e)
    BY DEF Tells, a1, a2, b1, b2
  <2>3. Has(a3, e) => Final = callee
    BY <1>5 DEF a3, Accumulators
  <2>4. Has(b3, e) => p = callee
    BY <1>5 DEF b3, Accumulators
  <2>5. Has(a3, e) \/ Has(b3, e) => Tells(cal, c, t, e)
    BY <2>3, <2>4 DEF Tells, a3, b3
  <2> HIDE DEF ans, cal, sen, sto
  <2> QED BY <2>1, <2>2, <2>5
<1> HIDE DEF ans, cal, sen, sto
<1>14. ASSUME NEW s \in Sources, NEW r \in Sources, Tells(s, c, t, e), Tells(r, c, t, e) PROVE s = r
  <2>1. One(s) /\ One(r)
    BY <1>12, <1>14
  <2> QED BY <1>11, <2>1 DEF Splits
<1>15. Has(GivenOf(p, c, t), e) <=> \E s \in Sources : Tells(s, c, t, e)
  <2>1. Has(GivenOf(p, c, t), e) <=>
          Has(a1, e) \/ Has(a2, e) \/ Has(a3, e) \/ Has(b1, e) \/ Has(b2, e) \/ Has(b3, e)
    BY <1>3, <1>11 DEF Splits
  <2>2. ASSUME NEW s \in Sources, Tells(s, c, t, e) PROVE Has(GivenOf(p, c, t), e)
    <3>1. One(s)
      BY <1>12, <2>2
    <3> QED BY <2>1, <3>1
  <2>3. ASSUME Has(GivenOf(p, c, t), e) PROVE \E s \in Sources : Tells(s, c, t, e)
    <3> HIDE DEF One
    <3> QED BY <1>13, <2>1, <2>3
  <2> QED BY <2>2, <2>3
<1> QED BY <1>14, <1>15 DEF ToldOnce, ToldBy

-----------------------------------------------------------------------------
\* Rows of states, or what rows taken are converted to.
Sited(rows) ==
  /\ rows \in Seq(StateRow)
  /\ \A n \in DOMAIN rows :
       SoundRow(rows[n]) \/ \E w \in Given : ~w.skipped /\ rows[n] = Converted(w)

\* Wherever there are cells, their rows are such.
LEMMA AllSited ==
  ASSUME AllSound, CallIsGiven, NEW s \in Sources
  PROVE  Sited(s[3]) /\ (s[3] \in AllRows \/ s[3] = <<>>)
<1>0. AllStocked /\ RowsSound /\ CallFits
  BY DEF AllSound
<1>1. ASSUME NEW a \in Accumulators PROVE Sited(StoredOf(a))
  <2> DEFINE st == store[a]
             ks == keys[a]
             all == StoredRows(st, ks)
  <2>1. Stocked(st, ks) /\ StoredOf(a) = all
    BY <1>0 DEF AllStocked, StoredOf
  <2>2. all = StoredRows(st, ks) /\ 0 \in Nat /\ 0 \in Int
    OBVIOUS
  <2> HIDE DEF st, ks, all
  <2>3. Listed(st, ks, all)
    BY <2>1, <2>2, StoredTyped
  <2> QED BY <2>1, <2>3 DEF Listed, Sited
<1>2. ASSUME NEW rows \in Seq(SoundRows) PROVE Sited(rows)
  <2>1. rows \in Seq(StateRow)
    BY SoundTyped
  <2>2. \A n \in DOMAIN rows : SoundRow(rows[n])
    BY DEF SoundRows
  <2> QED BY <2>1, <2>2 DEF Sited
<1>3. ASSUME NEW p \in Partials PROVE Sited(FlattenSeq(sent[p]))
  <2>1. sent[p] \in Seq(Seq(SoundRows))
    BY <1>0 DEF RowsSound
  <2>2. FlattenSeq(sent[p]) \in Seq(SoundRows)
    BY <2>1, FlattenType
  <2> QED BY <1>2, <2>2
<1>4. Sited(answers)
  BY <1>0, <1>2 DEF RowsSound
<1>5. CASE call = <<>>
  <2>1. Pending(callee) = <<>>
    BY <1>5 DEF Pending
  <2>2. Sited(<<>>)
    BY DEF Sited
  <2> QED BY <1>1, <1>3, <1>4, <2>1, <2>2 DEF Sources, AllRows
<1>6. CASE call # <<>>
  <2> DEFINE ks == keys[callee]
             rows == Pending(callee)
  <2>1. callee \in Accumulators
    BY <1>0, <1>6 DEF CallFits
  <2>2. rows \in Seq(StateRow)
    <3>1. 0 \in Nat /\ 0 \in Int
      OBVIOUS
    <3> QED BY <1>0, <2>1, <3>1, HeldTyped
  <2>3. ASSUME NEW n \in DOMAIN rows
        PROVE  SoundRow(rows[n]) \/ \E w \in Given : ~w.skipped /\ rows[n] = Converted(w)
    <3> DEFINE row == call[n]
    <3>1. n \in DOMAIN call /\ rows[n] = AsStates(row, ks)
      BY DEF Pending
    <3>2. RowFits(row, Len(ks))
      BY <1>0, <1>6, <3>1 DEF CallFits
    <3>3. CASE row.partial
      <4>1. AsStates(row, ks).times = row.times /\ AsStates(row, ks).values = row.values
        BY <3>3 DEF AsStates
      <4> QED BY <3>1, <3>2, <3>3, <4>1 DEF SoundRow, RowFits
    <3>4. CASE ~row.partial
      BY <3>1, <3>4 DEF CallIsGiven
    <3> QED BY <3>3, <3>4
  <2>4. Sited(rows)
    BY <2>2, <2>3 DEF Sited
  <2> QED BY <1>1, <1>3, <1>4, <2>1, <2>4 DEF Sources, AllRows
<1> QED BY <1>5, <1>6

\* A cell that holds a sample of a well-formed row that was taken is what its row has of
\* its key and time, and the row has that time once.
LEMMA CellOfRow ==
  ASSUME InputsOK, Apart, NEW rows, Sited(rows), NEW n \in DOMAIN rows, NEW k \in DOMAIN rows[n].times,
         NEW p \in Partials, NEW r, Has(TakenRows(p), r), WellFormed(r.times), NEW u,
         Has(rows[n].values[k].of, <<r.id, u>>)
  PROVE  /\ rows[n] \in StateRow /\ rows[n].key \in Nat /\ rows[n].times[k] \in Int
         /\ \A j \in DOMAIN rows[n].times : rows[n].times[j] = rows[n].times[k] => j = k
         /\ Out(rows[n].key, rows[n].times[k])[rows[n]] = rows[n].values[k].of
<1> DEFINE row == rows[n]
           t == row.times[k]
<1>1. row \in StateRow /\ row.key \in Nat /\ t \in Int
  <2>1. row \in StateRow
    BY DEF Sited
  <2>2. row.key \in Nat /\ row.times \in Seq(Int)
    BY <2>1 DEF StateRow
  <2> QED BY <2>1, <2>2
<1>2. \A j \in DOMAIN row.times : row.times[j] = t => j = k
  <2>1. CASE SoundRow(row)
    BY <2>1 DEF SoundRow
  <2>2. ASSUME NEW w \in Given, ~w.skipped, row = Converted(w)
        PROVE  \A j \in DOMAIN row.times : row.times[j] = t => j = k
    <3>1. PICK q \in Partials : Has(TakenRows(q), w)
      BY GivenTaken
    <3>2. w \in InputRow
      BY <3>1, TakenApart
    <3>3. row.times = w.times /\ row.values[k].of = << <<w.id, w.times[k]>> >>
      <4>1. /\ Converted(w).times = w.times
            /\ \A i \in DOMAIN w.times : Converted(w).values[i].of = << <<w.id, w.times[i]>> >>
        BY <2>2, <3>2, ConvertedCells
      <4> QED BY <2>2, <4>1
    <3>4. w.id = r.id
      <4> DEFINE e == <<w.id, w.times[k]>>
                 d == <<r.id, u>>
      <4>1. Has(<<e>>, d)
        BY <3>3
      <4>2. e = d
        <5> HIDE DEF e, d
        <5> QED BY <4>1 DEF Has
      <4> QED BY <4>2
    <3>5. w = r
      BY <3>1, <3>4, TakenApart
    <3>6. row.times = r.times /\ r.times \in Seq(Int)
      BY <3>2, <3>3, <3>5 DEF InputRow
    <3> DEFINE ts == r.times
    <3>7. /\ ts \in Seq(Int) /\ k \in DOMAIN ts /\ t = ts[k] /\ row.times = ts
          /\ \A i, j \in DOMAIN ts : i < j => ts[i] < ts[j]
      BY <3>6 DEF WellFormed
    <3> HIDE DEF ts, row, t
    <3>8. ASSUME NEW j \in DOMAIN ts, ts[j] = ts[k] PROVE j = k
      <4>1. j \in Int /\ k \in Int /\ ts[j] \in Int
        BY <3>7
      <4>2. ~(j < k) /\ ~(k < j)
        BY <3>7, <3>8, <4>1
      <4> QED BY <4>1, <4>2
    <3> QED BY <3>7, <3>8
  <2> QED BY <2>1, <2>2 DEF Sited
<1>k. k \in DOMAIN row.times /\ t = row.times[k]
  OBVIOUS
<1>3. OfRow(row, row.key, t) = row.values[k].of
  <2> HIDE DEF row
  <2>1. \E j \in DOMAIN row.times : row.times[j] = t
    BY <1>k
  <2>2. (CHOOSE j \in DOMAIN row.times : row.times[j] = t) = k
    BY <1>2, <1>k
  <2> QED BY <2>1, <2>2 DEF OfRow
<1>4. Out(row.key, t)[row] = OfRow(row, row.key, t)
  BY <1>1, OutTyped
<1> QED BY <1>1, <1>2, <1>3, <1>4

-----------------------------------------------------------------------------
\* Where a sample of a row is.
Hits(x, e) == {n \in DOMAIN x[2].cell.of : x[2].cell.of[n] = e}

Found(e) == {x \in Everywhere : Hits(x, e) # {}}

\* The spot of a cell that has a sample of a key and a time, in the row of that time.
Shows(x, s, n, k, c, u, e) ==
  /\ x = Spot(s, n, k) /\ s[3][n].key = c /\ s[3][n].times[k] = u
  /\ Out(c, u)[s[3][n]] = s[3][n].values[k].of
  /\ Has(s[3][n].values[k].of, e) /\ Tells(s, c, u, e)
  /\ \A j \in DOMAIN s[3][n].times : s[3][n].times[j] = u => j = k

Shown(x, c, u, e) ==
  \E s \in Sources : \E n \in DOMAIN s[3] : \E k \in DOMAIN s[3][n].times : Shows(x, s, n, k, c, u, e)

\* A spot where a sample of a row that was taken is, is of the row's key and time, and
\* what has it there tells of it.
LEMMA FoundAt ==
  ASSUME InputsOK, AllSound, Trails, CallIsGiven, NEW p \in Partials, NEW r, Has(TakenRows(p), r),
         WellFormed(r.times), NEW u \in Int, NEW x, x \in Found(<<r.id, u>>)
  PROVE  ~r.skipped /\ Shown(x, r.key, u, <<r.id, u>>)
<1> DEFINE e == <<r.id, u>>
<1>0. Apart /\ AllStocked
  BY DEF AllSound
<1>1. r \in InputRow /\ r.id \in Ids(p) /\ e \in Seq(Int) /\ e[1] \in Ids(p)
  <2>1. r \in InputRow /\ r.id \in Ids(p)
    BY <1>0, TakenApart
  <2>2. r.id \in Int
    BY <2>1 DEF InputRow
  <2> QED BY <2>1, <2>2
<1>2. x \in Everywhere /\ Has(x[2].cell.of, e)
  BY DEF Found, Hits, Has
<1>3. PICK s \in Sources : \E n \in DOMAIN s[3] : \E k \in DOMAIN s[3][n].times : x = Spot(s, n, k)
  BY <1>0, <1>2, EverywhereIs
<1>4. PICK n \in DOMAIN s[3] : \E k \in DOMAIN s[3][n].times : x = Spot(s, n, k)
  BY <1>3
<1>5. PICK k \in DOMAIN s[3][n].times : x = Spot(s, n, k)
  BY <1>4
<1> DEFINE rows == s[3]
           c == rows[n].key
           t == rows[n].times[k]
<1>6. Has(rows[n].values[k].of, e)
  <2>1. x[2].cell = rows[n].values[k]
    BY <1>5 DEF Spot
  <2> QED BY <1>2, <2>1
<1>7. Sited(rows)
  BY AllSited
<1>8. /\ rows[n] \in StateRow /\ c \in Nat /\ t \in Int
      /\ \A j \in DOMAIN rows[n].times : rows[n].times[j] = t => j = k
      /\ Out(c, t)[rows[n]] = rows[n].values[k].of
  <2>1. rows[n] = s[3][n] /\ n \in DOMAIN rows /\ k \in DOMAIN rows[n].times
    OBVIOUS
  <2> HIDE DEF rows
  <2> QED BY <1>0, <1>1, <1>6, <1>7, <2>1, CellOfRow DEF rows
<1>9. Tells(s, c, t, e)
  <2> DEFINE F == Out(c, t)
             X == Seq(Int)
  <2>1. Spreads(F, StateRow, X) /\ rows \in Seq(StateRow)
    BY <1>7, OutTyped DEF Sited
  <2>2. Has(F[rows[n]], e)
    BY <1>6, <1>8
  <2> HIDE DEF F, X, rows, e
  <2>3. Has(Spread(F, rows), e)
    BY <2>1, <2>2, SpreadHas DEF rows
  <2> QED BY <2>3 DEF Tells, F, rows
<1>10. Has(GivenOf(p, c, t), e)
  <2> HIDE DEF c, t, e
  <2> QED BY <1>1, <1>8, <1>9, OneSource DEF ToldBy
<1>11. ~r.skipped /\ r.key = c /\ u = t
  <2>1. \A w : Has(GivenOf(p, c, t), <<r.id, w>>) => ~r.skipped /\ r.key = c /\ w = t
    <3> HIDE DEF c, t
    <3> QED BY <1>0, GivenHas
  <2> HIDE DEF c, t
  <2> QED BY <1>10, <2>1
<1>12. Shows(x, s, n, k, r.key, u, e)
  BY <1>5, <1>6, <1>8, <1>9, <1>11 DEF Shows
<1> QED BY <1>11, <1>12 DEF Shown

\* Where trails are kept, every sample of a well-formed row is in one cell, of its key and
\* time, once, and those of a skipped row are in none.
LEMMA RowOnce ==
  ASSUME InputsOK, AllSound, Trails, CallIsGiven, NEW r \in Given, WellFormed(r.times),
         NEW k \in DOMAIN r.times, NEW e, e = <<r.id, r.times[k]>>
  PROVE  IF r.skipped THEN Found(e) = {}
         ELSE /\ Cardinality(Found(e)) = 1
              /\ \A x \in Found(e) : /\ x[2].key = r.key /\ x[2].time = r.times[k]
                                     /\ Cardinality(Hits(x, e)) = 1
<1> DEFINE u == r.times[k]
           c == r.key
           F == Out(c, u)
           X == Seq(Int)
<1>0. Apart /\ AllStocked
  BY DEF AllSound
<1>1. PICK p \in Partials : Has(TakenRows(p), r)
  BY GivenTaken
<1>2. r \in InputRow /\ r.id \in Ids(p) /\ c \in Nat /\ u \in Int /\ e \in Seq(Int) /\ e[1] \in Ids(p)
  <2>1. r \in InputRow /\ r.id \in Ids(p)
    BY <1>0, <1>1, TakenApart
  <2>2. r.id \in Int /\ c \in Nat /\ u \in Int
    BY <2>1 DEF InputRow
  <2>3. <<r.id, u>> \in Seq(Int)
    BY <2>2
  <2> QED BY <2>1, <2>2, <2>3
<1>3. Spreads(F, StateRow, X)
  BY OutTyped
<1>4. Alone(Sequence(p), e)
  BY <1>0, <1>2, OwnAlone
<1> DEFINE Is(x, s, n, j) == Shows(x, s, n, j, c, u, e)
<1>5. ASSUME NEW x \in Found(e)
      PROVE  /\ ~r.skipped
             /\ \E s \in Sources : \E n \in DOMAIN s[3] : \E j \in DOMAIN s[3][n].times : Is(x, s, n, j)
  <2>1. x \in Found(<<r.id, u>>)
    OBVIOUS
  <2>2. ~r.skipped /\ Shown(x, c, u, <<r.id, u>>)
    <3> HIDE DEF u
    <3> QED BY <1>1, <1>2, <2>1, FoundAt
  <2> QED BY <2>2 DEF Shown
<1>6. ASSUME NEW s \in Sources, s[3] # <<>>
      PROVE  s[3] \in Seq(StateRow) /\ InOrder(Sequence(p), Spread(F, s[3]))
  <2>1. Sited(s[3]) /\ s[3] \in AllRows
    BY <1>6, AllSited
  <2> DEFINE rows == s[3]
  <2>2. rows \in AllRows
    BY <2>1
  <2> HIDE DEF rows, c, u, F
  <2>3. InOrder(Sequence(p), Spread(Out(c, u), rows))
    BY <1>2, <2>2, RowsInOrder
  <2> QED BY <2>1, <2>3 DEF Sited, rows, F
<1> HIDE DEF F, X, u, c
<1>7. ASSUME NEW x \in Found(e), NEW y \in Found(e) PROVE x = y
  <2>1. PICK s \in Sources : \E n \in DOMAIN s[3] : \E j \in DOMAIN s[3][n].times : Is(x, s, n, j)
    BY <1>5
  <2>2. PICK n \in DOMAIN s[3] : \E j \in DOMAIN s[3][n].times : Is(x, s, n, j)
    BY <2>1
  <2>3. PICK j \in DOMAIN s[3][n].times : Is(x, s, n, j)
    BY <2>2
  <2>4. PICK z \in Sources : \E m \in DOMAIN z[3] : \E i \in DOMAIN z[3][m].times : Is(y, z, m, i)
    BY <1>5
  <2>5. PICK m \in DOMAIN z[3] : \E i \in DOMAIN z[3][m].times : Is(y, z, m, i)
    BY <2>4
  <2>6. PICK i \in DOMAIN z[3][m].times : Is(y, z, m, i)
    BY <2>5
  <2>7. s = z
    <3>1. Tells(s, c, u, e) /\ Tells(z, c, u, e)
      BY <2>3, <2>6 DEF Shows
    <3>2. ToldOnce(c, u, e)
      BY <1>2, OneSource
    <3> QED BY <3>1, <3>2 DEF ToldOnce
  <2>8. n = m
    <3> DEFINE rows == s[3]
    <3>1. rows \in Seq(StateRow) /\ InOrder(Sequence(p), Spread(F, rows)) /\ m \in DOMAIN rows /\ n \in DOMAIN rows
      BY <1>6, <2>7
    <3>2. Has(F[rows[m]], e) /\ Has(F[rows[n]], e)
      BY <2>3, <2>6, <2>7 DEF Shows, F
    <3> HIDE DEF rows, Is
    <3> QED BY <1>3, <1>4, <3>1, <3>2, SpreadApart
  <2>9. j = i
    BY <2>3, <2>6, <2>7, <2>8 DEF Shows
  <2> QED BY <2>3, <2>6, <2>7, <2>8, <2>9 DEF Shows
<1>8. ASSUME ~r.skipped PROVE \E x : x \in Found(e)
  <2>1. Has(GivenOf(p, c, u), e)
    <3>1. \E i \in DOMAIN r.times : r.times[i] = u
      BY DEF u
    <3>2. Has(GivenOf(p, c, u), <<r.id, u>>)
      BY <1>0, <1>1, <1>8, <3>1, GivenHas DEF c
    <3> QED BY <3>2 DEF u
  <2>2. PICK s \in Sources : Tells(s, c, u, e)
    <3>1. ToldBy(c, u, e)
      BY <1>2, <2>1, OneSource
    <3> QED BY <3>1 DEF ToldBy
  <2> DEFINE rows == s[3]
  <2>3. rows # <<>>
    <3>1. Spread(F, <<>>) = <<>> /\ ~Has(<<>>, e)
      BY SpreadNone DEF Has
    <3> QED BY <2>2, <3>1 DEF Tells, F
  <2>4. rows \in Seq(StateRow)
    BY <1>6, <2>3
  <2>5. Has(Spread(F, rows), e)
    BY <2>2 DEF Tells, F
  <2>6. PICK n \in DOMAIN rows : Has(F[rows[n]], e)
    <3> HIDE DEF rows
    <3> QED BY <1>3, <2>4, <2>5, SpreadHas
  <2> DEFINE row == rows[n]
             j == CHOOSE j \in DOMAIN row.times : row.times[j] = u
  <2>7. row \in StateRow /\ Has(OfRow(row, c, u), e)
    <3>1. row \in StateRow
      BY <2>4
    <3> HIDE DEF row
    <3>2. F[row] = OfRow(row, c, u)
      BY <3>1, OutTyped DEF F
    <3> QED BY <2>6, <3>1, <3>2 DEF row
  <2>8. j \in DOMAIN row.times /\ Has(row.values[j].of, e)
    <3> HIDE DEF row, rows
    <3>1. OfRow(row, c, u) # <<>>
      BY <2>7 DEF Has
    <3>2. (\E i \in DOMAIN row.times : row.times[i] = u) /\ OfRow(row, c, u) = row.values[j].of
      BY <3>1 DEF OfRow
    <3> QED BY <2>7, <3>2
  <2> HIDE DEF j
  <2> DEFINE x == Spot(s, n, j)
  <2>9. x \in Everywhere
    BY <1>0, <2>8, EverywhereIs
  <2>10. Hits(x, e) # {}
    <3>1. x[2].cell = row.values[j]
      BY DEF Spot
    <3> HIDE DEF x, row
    <3> QED BY <2>8, <3>1 DEF Hits, Has
  <2>11. x \in Found(e)
    <3> HIDE DEF x
    <3> QED BY <2>9, <2>10 DEF Found
  <2> QED BY <2>11
<1>9. ASSUME NEW x \in Found(e)
      PROVE  x[2].key = r.key /\ x[2].time = r.times[k] /\ Cardinality(Hits(x, e)) = 1
  <2>1. PICK s \in Sources : \E n \in DOMAIN s[3] : \E j \in DOMAIN s[3][n].times : Is(x, s, n, j)
    BY <1>5
  <2>2. PICK n \in DOMAIN s[3] : \E j \in DOMAIN s[3][n].times : Is(x, s, n, j)
    BY <2>1
  <2>3. PICK j \in DOMAIN s[3][n].times : Is(x, s, n, j)
    BY <2>2
  <2> DEFINE rows == s[3]
             of == rows[n].values[j].of
  <2>4. x[2].key = c /\ x[2].time = u /\ x[2].cell.of = of
    BY <2>3 DEF Spot, Shows
  <2>5. rows \in Seq(StateRow) /\ InOrder(Sequence(p), Spread(F, rows)) /\ n \in DOMAIN rows
    BY <1>6
  <2>6. F[rows[n]] = of /\ Has(of, e)
    BY <2>3 DEF Shows, F
  <2> HIDE DEF Is, rows, of
  <2>7. InOrder(Sequence(p), of)
    BY <1>3, <2>5, <2>6, SpreadKeepsOrder
  <2>8. of \in Seq(X)
    <3>1. rows[n] \in StateRow
      BY <2>5
    <3> QED BY <1>3, <2>6, <3>1 DEF Spreads
  <2>9. Cardinality({i \in DOMAIN of : of[i] = e}) = 1
    BY <1>4, <2>6, <2>7, <2>8, OnceInOrder
  <2> QED BY <2>4, <2>9 DEF Hits, c, u
<1>10. CASE r.skipped
  <2>1. Found(e) = {}
    BY <1>5, <1>10
  <2> QED BY <1>10, <2>1
<1>11. CASE ~r.skipped
  <2>1. PICK x : x \in Found(e)
    BY <1>8, <1>11
  <2>2. Found(e) = {x}
    BY <1>7, <2>1
  <2>3. Cardinality(Found(e)) = 1
    BY <2>2, FS_Singleton
  <2> QED BY <1>9, <1>11, <2>3
<1> QED BY <1>10, <1>11

\* Where trails are kept every sample is somewhere, once.
LEMMA TrailsAreOnce ==
  ASSUME InputsOK, AllSound, Trails, CallIsGiven
  PROVE  EachSampleOnce
<1>1. \A r \in Given : WellFormed(r.times) => \A k \in DOMAIN r.times :
        IF r.skipped THEN Found(<<r.id, r.times[k]>>) = {}
        ELSE /\ Cardinality(Found(<<r.id, r.times[k]>>)) = 1
             /\ \A x \in Found(<<r.id, r.times[k]>>) :
                  /\ x[2].key = r.key /\ x[2].time = r.times[k]
                  /\ Cardinality(Hits(x, <<r.id, r.times[k]>>)) = 1
  BY RowOnce
<1> QED BY <1>1 DEF EachSampleOnce, Found, Hits

-----------------------------------------------------------------------------
\* A batch's call is of rows of the batch.
LEMMA FeedIsGiven ==
  ASSUME NEW rows \in Seq(InputRow), NEW known \in Seq(Nat), Distinct(known),
         NEW ks, ks = Interned(known, rows), NEW feed, feed = FeedOf(ks, Unskipped(rows))
  PROVE  \A n \in DOMAIN feed : \E m \in DOMAIN rows :
           ~rows[m].skipped /\ AsStates(feed[n], ks) = Converted(rows[m])
<1> DEFINE kept == Unskipped(rows)
<1>1. /\ kept \in Seq(InputRow) /\ \A i \in DOMAIN kept : \E m \in DOMAIN rows : kept[i] = rows[m]
  BY UnskippedExact
<1>2. \A i \in DOMAIN kept : ~kept[i].skipped
  <2>1. ASSUME NEW c, NEW t PROVE \A i \in DOMAIN kept : ~kept[i].skipped
    BY UnskippedGiven
  <2> QED BY <2>1
<1>3. Follow(known, ks, rows)
  <2>1. \A r \in InputRow : r.key \in Nat
    BY DEF InputRow
  <2> QED BY <2>1, InternedFollow
<1>4. feed = [n \in DOMAIN kept |->
                [group |-> GroupOf(ks, kept[n].key), times |-> kept[n].times,
                 values |-> Contributions(kept[n]), partial |-> FALSE]]
  BY DEF FeedOf
<1> HIDE DEF kept
<1> SUFFICES ASSUME NEW n \in DOMAIN feed
             PROVE  \E m \in DOMAIN rows : ~rows[m].skipped /\ AsStates(feed[n], ks) = Converted(rows[m])
  OBVIOUS
<1> DEFINE r == kept[n]
           g == GroupOf(ks, r.key)
           row == [group |-> g, times |-> r.times, values |-> Contributions(r), partial |-> FALSE]
<1>5. n \in DOMAIN kept /\ r \in InputRow /\ ~r.skipped
  BY <1>1, <1>2, <1>4
<1>6. PICK m \in DOMAIN rows : r = rows[m]
  BY <1>1, <1>5
<1>7. ks[g] = r.key
  BY <1>3, <1>6 DEF Follow
<1>8. feed[n] = row
  BY <1>4, <1>5
<1>9. AsStates(row, ks) = Converted(r)
  BY <1>5, <1>7, AsStatesOf
<1> QED BY <1>5, <1>6, <1>8, <1>9

\* The rows of a call are rows taken, whatever is done.
LEMMA CallStaysGiven ==
  ASSUME IInv, Trodden, CallIsGiven, [Next]_vars
  PROVE  CallIsGiven'
<1>1. ASSUME NEW p \in Partials, Update(p) PROVE CallIsGiven'
  <2> DEFINE rows == input[p][taken[p] + 1]
             ks == Interned(keys[p], rows)
             feed == [n \in DOMAIN Unskipped(rows) |->
                        LET r == Unskipped(rows)[n]
                        IN  [group |-> GroupOf(ks, r.key), times |-> r.times,
                             values |-> Contributions(r), partial |-> FALSE]]
  <2>1. /\ failed = None /\ taken[p] < Len(input[p]) /\ Open(p, rows, feed)
        /\ taken' = [taken EXCEPT ![p] = @ + 1] /\ input' = input
    BY <1>1, Zenon DEF Update, Idle
  <2>2. AllStocked /\ KeysOK /\ InputsOK
    BY <2>1 DEF Trodden, AllSound, IInv
  <2>3. p \in Accumulators /\ keys[p] \in Seq(Nat) /\ Distinct(keys[p])
    BY <2>2 DEF Accumulators, AllStocked, Stocked
  <2>4. rows \in Seq(InputRow) /\ \A n \in DOMAIN rows : rows[n] \in Given'
    <3>1. rows \in Seq(InputRow)
      BY <2>1, <2>2, GivenGrows
    <3>2. taken'[p] = taken[p] + 1 /\ taken[p] + 1 \in 1 .. taken'[p]
      BY <2>1, <2>2 DEF InputsOK
    <3>3. \A n \in DOMAIN rows : rows[n] \in ToSet(input[p][taken[p] + 1])
      BY DEF ToSet
    <3> HIDE DEF rows
    <3>4. \A n \in DOMAIN rows : rows[n] \in UNION {ToSet(input[p][m]) : m \in 1 .. taken'[p]}
      BY <3>2, <3>3
    <3> QED BY <2>1, <3>1, <3>4 DEF Given
  <2>5. ks = Interned(keys[p], rows) /\ feed = FeedOf(ks, Unskipped(rows))
    BY DEF FeedOf
  <2>6. call' = feed /\ callee' = p /\ keys'[p] = ks
    BY <2>1, <2>2, <2>3 DEF Open, KeysOK
  <2> HIDE DEF rows, ks, feed
  <2>7. \A n \in DOMAIN feed : \E m \in DOMAIN rows :
          ~rows[m].skipped /\ AsStates(feed[n], ks) = Converted(rows[m])
    BY <2>3, <2>4, <2>5, FeedIsGiven
  <2> QED BY <2>4, <2>6, <2>7 DEF CallIsGiven
<1>2. ASSUME NEW p \in Partials, MergeBatch(p) PROVE CallIsGiven'
  <2>1. \A n \in DOMAIN call' : call'[n].partial = TRUE
    BY <1>2 DEF MergeBatch, Open
  <2> QED BY <2>1 DEF CallIsGiven
<1>3. ASSUME call = <<>>, call' = call PROVE CallIsGiven'
  BY <1>3 DEF CallIsGiven
<1>4. ASSUME NEW p \in Partials, SkipPartial(p) \/ Convert(p) PROVE CallIsGiven'
  <2>1. call = <<>> /\ call' = call
    BY <1>4, Zenon DEF SkipPartial, Convert, Idle
  <2> QED BY <1>3, <2>1
<1>5. ASSUME NEW p \in Partials, NEW n \in 1 .. Len(keys[p]), State(p, n) PROVE CallIsGiven'
  <2>1. call = <<>> /\ call' = call
    BY <1>5, Zenon DEF State, Idle
  <2> QED BY <1>3, <2>1
<1>6. ASSUME NEW n \in 1 .. Len(keys[Final]), Evaluate(n) PROVE CallIsGiven'
  <2>1. call = <<>> /\ call' = call
    BY <1>6, Zenon DEF Evaluate, Idle
  <2> QED BY <1>3, <2>1
<1>7. CASE FoldRow
  <2>1. /\ call # <<>> /\ call' = Tail(call) /\ keys' = keys /\ callee' = callee
        /\ input' = input /\ taken' = taken
    BY <1>7 DEF FoldRow
  <2>2. call \in Seq(CallRow)
    BY DEF IInv, CallOK
  <2>3. \A n \in DOMAIN Tail(call) : n + 1 \in DOMAIN call /\ Tail(call)[n] = call[n + 1]
    BY <2>1, <2>2
  <2>4. Given' = Given
    BY <2>1 DEF Given
  <2> QED BY <2>1, <2>3, <2>4 DEF CallIsGiven
<1>8. ASSUME /\ call' = call /\ keys' = keys /\ callee' = callee /\ input' = input /\ taken' = taken
      PROVE  CallIsGiven'
  <2>1. Given' = Given
    BY <1>8 DEF Given
  <2> QED BY <1>8, <2>1 DEF CallIsGiven
<1>9. CASE RejectRow
  BY <1>8, <1>9 DEF RejectRow
<1>10. CASE UNCHANGED vars
  BY <1>8, <1>10 DEF vars
<1> QED BY <1>1, <1>2, <1>4, <1>5, <1>6, <1>7, <1>9, <1>10, Zenon DEF Next

\* However spans grow, whichever prefixes leave early and whichever states are merged,
\* every sample an accumulator was given is in one cell, of its own group and its own step,
\* once, and a row a FILTER drops is in none.
THEOREM KeepsEachSampleOnce == Spec => []EachSampleOnce
<1>1. Init => CallIsGiven
  BY DEF Init, CallIsGiven
<1>2. IInv /\ Trodden /\ CallIsGiven /\ [Next]_vars => CallIsGiven'
  BY CallStaysGiven
<1>3. IInv /\ Trodden /\ CallIsGiven => EachSampleOnce
  <2>1. failed # None => EachSampleOnce
    BY DEF EachSampleOnce
  <2>2. IInv /\ Trodden /\ CallIsGiven /\ failed = None => EachSampleOnce
    BY TrailsAreOnce DEF IInv, Trodden
  <2> QED BY <2>1, <2>2
<1> QED BY <1>1, <1>2, <1>3, AggregateInvariance, TroddenAlways, PTL DEF Spec
=============================================================================
