----------------------------- MODULE LexerProofs -----------------------------
(***************************************************************************)
(* The tokenizer, for every input and every table of keywords: its tokens  *)
(* tile what it read, what it accepts is balanced, and the arithmetic of   *)
(* its durations never wraps.                                              *)
(***************************************************************************)
EXTENDS Lexer, SequenceFacts, FiniteSetTheorems

-----------------------------------------------------------------------------
(***************************************************************************)
(* The cursor.                                                             *)
(***************************************************************************)
\* What is looked at is a character of the input, or the end.
LEMMA AtIs ==
  ASSUME input \in Seq(Char), NEW p \in Int
  PROVE  /\ At(p) # Eof <=> p \in 1 .. Len(input)
         /\ p \in 1 .. Len(input) => At(p) = input[p] /\ At(p) \in Char
<1>1. DOMAIN input = 1 .. Len(input) /\ \A k \in 1 .. Len(input) : input[k] \in Char
  OBVIOUS
<1>2. CASE p \in 1 .. Len(input)
  <2>1. At(p) = input[p] /\ input[p] \in Char
    BY <1>1, <1>2 DEF At
  <2> QED BY <1>2, <2>1 DEF Char
<1>3. CASE p \notin 1 .. Len(input)
  <2>1. At(p) = Eof
    BY <1>1, <1>3 DEF At
  <2> QED BY <1>3, <2>1
<1> QED BY <1>2, <1>3

\* accept reads one character more at most, and never over the end (Lexer::accept).
LEMMA AcceptIn ==
  ASSUME input \in Seq(Char), NEW p \in 0 .. Len(input), NEW class, Eof \notin class
  PROVE  /\ Accept(p, class) \in p .. Len(input) /\ Accept(p, class) <= p + 1
         /\ Accept(p, class) = p + 1 <=> At(p + 1) \in class
<1>1. At(p + 1) \in class => p + 1 \in 1 .. Len(input)
  BY AtIs
<1> QED BY <1>1 DEF Accept

\* accept_run reads what is of the class, all of it, and never over the end.
LEMMA RunOverIn ==
  ASSUME input \in Seq(Char), NEW p \in 0 .. Len(input), NEW class
  PROVE  /\ RunOver(p, class) \in p .. Len(input)
         /\ \A k \in p + 1 .. RunOver(p, class) : input[k] \in class
         /\ At(p + 1) \in class /\ At(p + 1) # Eof => p < RunOver(p, class)
<1> DEFINE S == {q \in p .. Len(input) : \A k \in p + 1 .. q : input[k] \in class}
           L == Len(input)
           T == {L - q : q \in S}
<1>1. L \in Nat /\ p \in S /\ S \subseteq p .. L
  OBVIOUS
<1>2. T \subseteq Nat /\ T # {}
  BY <1>1
<1>3. PICK m \in T : \A n \in T : m <= n
  BY <1>2, Least
<1>4. PICK q \in S : m = L - q
  OBVIOUS
<1>5. \A r \in S : q >= r
  <2> TAKE r \in S
  <2>1. L - r \in T
    OBVIOUS
  <2> HIDE DEF S, T, L
  <2>2. r \in p .. L /\ q \in p .. L /\ m <= L - r
    BY <1>1, <1>3, <1>4, <2>1
  <2> QED BY <1>1, <1>4, <2>2
<1>6. RunOver(p, class) = CHOOSE x \in S : \A y \in S : x >= y
  BY DEF RunOver, Max
<1> DEFINE r == RunOver(p, class)
<1> HIDE DEF S, T, L
<1>7. r \in S /\ \A y \in S : r >= y
  BY <1>5, <1>6
<1>8. r \in p .. Len(input) /\ \A k \in p + 1 .. r : input[k] \in class
  BY <1>7 DEF S, L
<1>9. ASSUME At(p + 1) \in class, At(p + 1) # Eof PROVE p < r
  <2>1. p + 1 \in 1 .. Len(input) /\ input[p + 1] \in class
    BY <1>9, AtIs
  <2>2. p + 1 \in S
    BY <2>1 DEF S, L
  <2> QED BY <1>7, <1>8, <2>2
<1> QED BY <1>8, <1>9
-----------------------------------------------------------------------------
(***************************************************************************)
(* The inductive invariant: where the cursor stands, by state function.    *)
(***************************************************************************)
TokenTypes ==
  Punctuation \cup {"=", "!", "<", ">", "(", ")", "{", "}", "[", "]", ":", "Compound", "Word",
    "Comment", "Identifier", "MetricIdentifier", "Keyword", "Number", "Duration", "String",
    "Error", Eof}
Item == [typ : TokenTypes, from : Nat, to : Nat]

Opening == [parens : Int, brace : BOOLEAN, bracket : BOOLEAN, colon : BOOLEAN,
            duration : BOOLEAN, quote : Quotes \cup {Eof}]

\* The state functions that begin a token.
Beginning == {"Statements", "InsideBraces", "DurationExpr", "LineComment", "Identifier",
              "KeywordOrIdentifier", "NumberOrDuration"}
Quoted == {"String", "RawString", "Escape"}

CursorOK ==
  /\ input \in Seq(Char) /\ pos \in 0 .. Len(input) /\ start \in 0 .. pos
  /\ items \in Seq(Item)
  /\ open \in Opening
  /\ state \in Beginning \cup Quoted \cup {"Space", "End"}

\* What each state function finds where it begins.
Handed ==
  /\ state \in Beginning => start = pos
  /\ state = "Space" => \A k \in start + 1 .. pos : input[k] \in Spaces
  /\ state = "Identifier" => At(pos + 1) \in Alpha
  /\ state = "KeywordOrIdentifier" => At(pos + 1) \in Alpha \cup {":"}
  /\ state = "LineComment" => At(pos + 1) = "#"
  /\ state \in Quoted => open.quote \in Quotes
  /\ state \in {"InsideBraces", "Identifier"} => open.brace
  /\ state = "DurationExpr" => open.bracket

\* What a token does to what is open, and may be emitted over.
Opens(typ) ==
  /\ open'.parens = IF typ = "(" THEN open.parens + 1
                    ELSE IF typ = ")" THEN open.parens - 1 ELSE open.parens
  /\ open'.brace <=> (typ = "{" \/ (open.brace /\ typ # "}"))
  /\ open'.bracket <=> (typ = "[" \/ (open.bracket /\ typ # "]"))
  /\ typ = ")" => open.parens # 0
  /\ typ = "{" => ~open.brace
  /\ typ = "}" => open.brace
  /\ typ = "[" => ~open.bracket
  /\ typ = "]" => open.bracket
  /\ typ = Eof => open.parens = 0 /\ ~open.brace /\ ~open.bracket

Blank(from, to) == \A k \in from + 1 .. to : input[k] \in Spaces

\* The steps there are: no token, where no more than spaces are passed over; one token,
\* of all that was read; or an error.
Passing ==
  /\ items' = items /\ state' # "End" /\ Opens("Space")
  /\ start' >= start /\ Blank(start, start')

Emitting ==
  \E typ \in TokenTypes, to \in start .. Len(input) :
    /\ items' = Append(items, [typ |-> typ, from |-> start, to |-> to])
    /\ Opens(typ) /\ start' >= to /\ Blank(to, start')
    /\ IF typ = Eof THEN state' = "End" /\ start' = Len(input) ELSE state' # "End" /\ start < to

Failing == \E n \in DOMAIN items' : items'[n].typ = "Error"

Shape ==
  /\ state # "End" /\ input' = input /\ CursorOK' /\ Handed'
  /\ Failing \/ Passing \/ Emitting

-----------------------------------------------------------------------------
(***************************************************************************)
(* What the helpers leave.                                                 *)
(***************************************************************************)
Brackets == {"(", ")", "{", "}", "[", "]"}

\* A token that is no bracket opens and closes nothing.
LEMMA Quiet ==
  ASSUME UNCHANGED open, NEW typ, typ \notin Brackets \cup {Eof}
  PROVE  Opens(typ)
  BY DEF Opens, Brackets

\* The cursor and where the token begins, as numbers.
LEMMA Positions ==
  ASSUME CursorOK
  PROVE  Len(input) \in Nat /\ pos \in Nat /\ start \in Nat /\ start <= pos /\ pos <= Len(input)
<1>1. Len(input) \in Nat
  BY DEF CursorOK
<1> QED BY <1>1 DEF CursorOK

\* One token more (Lexer::emit).
LEMMA EmitAppends ==
  ASSUME CursorOK, NEW typ \in TokenTypes, NEW to \in pos .. Len(input), NEW next,
         Emit(typ, to, next)
  PROVE  /\ items' \in Seq(Item) /\ Len(items') = Len(items) + 1
         /\ \A n \in 1 .. Len(items) : items'[n] = items[n]
         /\ items'[Len(items) + 1] = [typ |-> typ, from |-> start, to |-> to]
<1> DEFINE token == [typ |-> typ, from |-> start, to |-> to]
<1>1. token \in Item /\ items \in Seq(Item) /\ items' = Append(items, token)
  BY DEF CursorOK, Emit, Item
<1> HIDE DEF token
<1>2. items' \in Seq(Item) /\ Len(items') = Len(items) + 1
      /\ (\A n \in 1 .. Len(items) : items'[n] = items[n]) /\ items'[Len(items) + 1] = token
  BY <1>1
<1> QED BY <1>2 DEF token

\* A token after which a state function begins again.
LEMMA Emitted ==
  ASSUME CursorOK, NEW typ \in TokenTypes, NEW to \in pos .. Len(input), start < to,
         NEW next \in {"Statements", "InsideBraces", "DurationExpr"}, Emit(typ, to, next),
         state # "End", typ # Eof, input' = input, Opens(typ),
         open' \in Opening,
         next = "InsideBraces" => open'.brace, next = "DurationExpr" => open'.bracket
  PROVE  Shape
<1>1. items' \in Seq(Item)
  BY EmitAppends
<1>2. pos' = to /\ start' = to /\ state' = next
      /\ items' = Append(items, [typ |-> typ, from |-> start, to |-> to])
  BY DEF Emit
<1>3. CursorOK' /\ Handed'
  BY <1>1, <1>2 DEF CursorOK, Handed, Beginning, Quoted
<1>4. to \in start .. Len(input) /\ start' >= to /\ Blank(to, start') /\ state' # "End"
  BY <1>2 DEF CursorOK, Blank
<1>5. Emitting
  BY <1>2, <1>4 DEF Emitting
<1> QED BY <1>3, <1>5 DEF Shape

\* An error ends the reading, or is in a string (Lexer::errorf).
LEMMA ErrorEmitted ==
  ASSUME CursorOK, NEW to \in pos .. Len(input), NEW next \in {"End", "String"},
         Emit("Error", to, next), state # "End", input' = input,
         open' \in Opening,
         next = "String" => open'.quote \in Quotes
  PROVE  Shape
<1>1. items' \in Seq(Item) /\ Len(items') = Len(items) + 1
      /\ items'[Len(items) + 1] = [typ |-> "Error", from |-> start, to |-> to]
  BY EmitAppends DEF TokenTypes
<1>2. pos' = to /\ start' = to /\ state' = next
  BY DEF Emit
<1>3. CursorOK' /\ Handed'
  BY <1>1, <1>2 DEF CursorOK, Handed, Beginning, Quoted
<1>4. Len(items) + 1 \in DOMAIN items'
  BY <1>1 DEF CursorOK
<1>5. Failing
  BY <1>1, <1>4 DEF Failing
<1>6. QED
  BY <1>3, <1>5 DEF Shape

\* The same, where the token it is about is emitted first.
LEMMA RefusedAfter ==
  ASSUME CursorOK, NEW typ \in TokenTypes, pos + 1 \in 1 .. Len(input), state # "End",
         items' = items \o <<[typ |-> typ, from |-> start, to |-> pos + 1],
                             [typ |-> "Error", from |-> pos + 1, to |-> pos + 1]>>,
         pos' = pos + 1, start' = pos + 1, state' = "End", input' = input,
         open' \in Opening
  PROVE  Shape
<1> DEFINE token == [typ |-> typ, from |-> start, to |-> pos + 1]
           error == [typ |-> "Error", from |-> pos + 1, to |-> pos + 1]
<1>0. start \in Nat /\ pos + 1 \in Nat
  BY Positions
<1>a. "Error" \in TokenTypes
  BY DEF TokenTypes
<1>1. token \in Item /\ error \in Item /\ error.typ = "Error" /\ items \in Seq(Item)
  BY <1>0, <1>a DEF CursorOK, Item
<1>2. items' = items \o <<token, error>>
  OBVIOUS
<1> HIDE DEF token, error
<1>3. items' \in Seq(Item) /\ Len(items') = Len(items) + 2 /\ items'[Len(items) + 2] = error
  BY <1>1, <1>2
<1>4. Failing
  <2>1. Len(items) + 2 \in DOMAIN items'
    BY <1>1, <1>3
  <2> QED BY <1>1, <1>3, <2>1 DEF Failing
<1>5. input' \in Seq(Char) /\ pos' \in 0 .. Len(input') /\ start' \in 0 .. pos'
  BY Positions DEF CursorOK
<1>6. CursorOK'
  BY <1>3, <1>5 DEF CursorOK
<1>7. Handed'
  BY DEF Handed, Beginning, Quoted
<1> QED BY <1>4, <1>6, <1>7 DEF Shape

\* No token, and nothing that is open: neither opens nor closes.
LEMMA QuietMove ==
  ASSUME UNCHANGED open
  PROVE  Opens("Space")
  BY Quiet DEF Brackets, Eof

\* Nothing is passed over, or only spaces are (Lexer::ignore).
LEMMA Passed ==
  ASSUME CursorOK, items' = items, pos' \in pos .. Len(input), start' \in start .. pos',
         Blank(start, start'), state # "End", state' \in Beginning \cup Quoted \cup {"Space"},
         Handed', input' = input, Opens("Space"), open' \in Opening
  PROVE  Shape
<1>1. CursorOK'
  BY DEF CursorOK
<1>2. Passing
  BY DEF Passing, CursorOK, Beginning, Quoted
<1> QED BY <1>1, <1>2 DEF Shape

\* The cursor is moved, and the token goes on.
LEMMA Moved ==
  ASSUME CursorOK, NEW to \in pos .. Len(input),
         NEW next \in Beginning \cup Quoted \cup {"Space"}, Move(to, next), state # "End",
         Handed', input' = input, Opens("Space"), open' \in Opening
  PROVE  Shape
<1>1. items' = items /\ start' = start /\ pos' = to /\ state' = next
  BY DEF Move
<1>2. start' \in start .. pos' /\ Blank(start, start')
  BY <1>1, Positions DEF Blank
<1> QED BY <1>1, <1>2, Passed

-----------------------------------------------------------------------------
(***************************************************************************)
(* One step per state function and what it reads.                          *)
(***************************************************************************)
\* A word of a duration is scanned inside the input (scan_duration_keyword).
LEMMA ScanWordIn ==
  ASSUME CursorOK, NEW p \in 0 .. Len(input)
  PROVE  ScanDurationWord(p).to \in p .. Len(input)
  BY RunOverIn DEF CursorOK, ScanDurationWord, Scanned

\* A number with its unit in front of a duration that stays in the input does, and what it
\* is depends on what is behind it only.
LEMMA DurationRoundIn ==
  ASSUME input \in Seq(Char), NEW rest, NEW q \in 0 .. Len(input),
         \A r \in q + 1 .. Len(input) : rest[r].to \in r .. Len(input)
  PROVE  DurationRound(rest, q).to \in q .. Len(input)
<1> DEFINE d == RunOver(q, Decimal)
<1>1. Len(input) \in Nat /\ d \in q .. Len(input)
  BY RunOverIn
<1>2. At(q + 1) \in Alphanumeric => q + 1 \in q .. Len(input)
  <2>1. Eof \notin Alphanumeric
    BY DEF Eof, Alphanumeric, Alpha, Decimal, HexDigits, ToSet
  <2> QED BY <1>1, <2>1, AtIs
<1>3. ASSUME At(d + 1) \in Units
      PROVE  Accept(d + 1, {"s"}) \in q + 1 .. Len(input)
  <2>1. At(d + 1) # Eof /\ Eof \notin {"s"}
    BY <1>3 DEF Units, Eof
  <2>2. d + 1 \in 0 .. Len(input)
    BY <1>1, <2>1, AtIs
  <2>3. Accept(d + 1, {"s"}) \in d + 1 .. Len(input)
    BY <2>1, <2>2, AcceptIn
  <2> QED BY <1>1, <2>3
<1> HIDE DEF d
<1>4. CASE d # q
  <2>1. CASE At(d + 1) \in Units \ {"y"}
    <3>1. DurationRound(rest, q) = rest[Accept(d + 1, {"s"})]
      BY <1>4, <2>1 DEF DurationRound, d
    <3> QED BY <1>1, <1>3, <2>1, <3>1
  <2>2. CASE At(d + 1) \notin Units \ {"y"}
    <3>1. DurationRound(rest, q).to = d
      BY <1>4, <2>2 DEF DurationRound, d, Scanned
    <3> QED BY <1>1, <3>1
  <2> QED BY <2>1, <2>2
<1>5. CASE d = q
  <2>1. DurationRound(rest, q).to = IF At(q + 1) \in Alphanumeric THEN q + 1 ELSE q
    BY <1>5 DEF DurationRound, d, Scanned
  <2> QED BY <1>1, <1>2, <2>1
<1> QED BY <1>4, <1>5

\* A round depends on what the rounds further on find, and on nothing else.
LEMMA DurationRoundLocal ==
  ASSUME input \in Seq(Char), NEW rest, NEW other, NEW q \in 0 .. Len(input),
         \A r \in q + 1 .. Len(input) : rest[r] = other[r]
  PROVE  DurationRound(rest, q) = DurationRound(other, q)
<1> DEFINE d == RunOver(q, Decimal)
<1>1. Len(input) \in Nat /\ d \in q .. Len(input)
  BY RunOverIn
<1>2. ASSUME At(d + 1) \in Units
      PROVE  rest[Accept(d + 1, {"s"})] = other[Accept(d + 1, {"s"})]
  <2>1. At(d + 1) # Eof /\ Eof \notin {"s"}
    BY <1>2 DEF Units, Eof
  <2>2. d + 1 \in 0 .. Len(input)
    BY <1>1, <2>1, AtIs
  <2>3. Accept(d + 1, {"s"}) \in d + 1 .. Len(input)
    BY <2>1, <2>2, AcceptIn
  <2>4. Accept(d + 1, {"s"}) \in q + 1 .. Len(input)
    BY <1>1, <2>3
  <2> QED BY <2>4
<1> HIDE DEF d
<1> QED BY <1>2 DEF DurationRound, d

\* The loop over a duration is well defined: it reads on.
LEMMA RestOfDurationDef ==
  ASSUME input \in Seq(Char)
  PROVE  \A q \in 0 .. Len(input) : RestOfDuration[q] = DurationRound(RestOfDuration, q)
<1> DEFINE L == Len(input)
           Solves(f, n) == \A q \in L + 1 - n .. L : q >= 0 => f[q] = DurationRound(f, q)
           Bad == {n \in 0 .. L + 1 : \A f : ~Solves(f, n)}
<1>1. L \in Nat
  OBVIOUS
<1>a. \A n \in 0 .. L + 1 : n \in Bad <=> \A f : ~Solves(f, n)
  OBVIOUS
<1>b. \A f : Solves(f, 0)
  BY <1>1
<1>c. Bad \subseteq 0 .. L + 1 /\ Bad \subseteq Nat
  BY <1>1
<1> HIDE DEF Bad, Solves
<1>2. Bad = {}
  <2>1. SUFFICES ASSUME Bad # {} PROVE FALSE
    OBVIOUS
  <2>2. PICK n \in Bad : \A m \in Bad : n <= m
    BY <1>c, <2>1, Least
  <2>3. n \in 1 .. L + 1 /\ n - 1 \in 0 .. L + 1
    BY <1>1, <1>a, <1>b, <1>c, <2>2
  <2>4. PICK f : Solves(f, n - 1)
    <3>1. n - 1 \notin Bad
      BY <1>c, <2>2, <2>3
    <3> QED BY <1>a, <2>3, <3>1
  <2> DEFINE at == L + 1 - n
             g == [q \in 0 .. L |-> IF q = at THEN DurationRound(f, q) ELSE f[q]]
  <2>5. at \in 0 .. L
    BY <1>1, <2>3
  <2>6. \A q \in 0 .. L : q # at => g[q] = f[q]
    OBVIOUS
  <2>7. g[at] = DurationRound(f, at)
    BY <2>5
  <2> HIDE DEF g
  <2>8. ASSUME NEW q \in at .. L PROVE g[q] = DurationRound(g, q)
    <3>1. q \in 0 .. L
      BY <1>1, <2>5
    <3>2. \A r \in q + 1 .. L : f[r] = g[r]
      BY <1>1, <2>5, <2>6, <3>1
    <3>3. DurationRound(f, q) = DurationRound(g, q)
      BY <3>1, <3>2, DurationRoundLocal
    <3>4. g[q] = DurationRound(f, q)
      <4>1. CASE q = at
        BY <2>7, <4>1
      <4>2. CASE q # at
        <5>1. q \in L + 1 - (n - 1) .. L
          BY <1>1, <2>3, <2>8, <4>2
        <5>2. f[q] = DurationRound(f, q)
          BY <2>4, <3>1, <5>1 DEF Solves
        <5> QED BY <2>6, <3>1, <4>2, <5>2
      <4> QED BY <4>1, <4>2
    <3> QED BY <3>3, <3>4
  <2>9. Solves(g, n)
    BY <2>8 DEF Solves
  <2> QED BY <1>a, <1>c, <2>2, <2>9
<1>3. PICK f : Solves(f, L + 1)
  <2>1. L + 1 \in 0 .. L + 1
    BY <1>1
  <2> QED BY <1>2, <1>a, <2>1
<1> DEFINE h == [q \in 0 .. L |-> f[q]]
<1>4. \A q \in 0 .. L : h[q] = DurationRound(h, q)
  <2> TAKE q \in 0 .. L
  <2>1. f[q] = DurationRound(f, q)
    BY <1>1, <1>3 DEF Solves
  <2>2. \A r \in q + 1 .. L : f[r] = h[r]
    BY <1>1
  <2> HIDE DEF h
  <2>3. DurationRound(f, q) = DurationRound(h, q)
    BY <2>2, DurationRoundLocal
  <2> QED BY <2>1, <2>3 DEF h
<1>5. h = [q \in 0 .. L |-> DurationRound(h, q)]
  BY <1>4
<1> HIDE DEF h
<1>6. RestOfDuration = [q \in 0 .. Len(input) |-> DurationRound(RestOfDuration, q)]
  BY <1>5 DEF RestOfDuration
<1> QED BY <1>6

\* Wherever the loop over a duration is entered, it ends inside the input.
LEMMA RestOfDurationIn ==
  ASSUME input \in Seq(Char), NEW q \in 0 .. Len(input)
  PROVE  RestOfDuration[q].to \in q .. Len(input)
<1> DEFINE L == Len(input)
           Bad == {n \in 0 .. L : RestOfDuration[L - n].to \notin L - n .. L}
<1>1. L \in Nat
  OBVIOUS
<1>2. Bad = {}
  <2>1. SUFFICES ASSUME Bad # {} PROVE FALSE
    OBVIOUS
  <2>2. PICK n \in Bad : \A m \in Bad : n <= m
    <3>1. Bad \subseteq Nat
      BY <1>1
    <3> HIDE DEF Bad
    <3> QED BY <2>1, <3>1, Least
  <2>3. L - n \in 0 .. L
    BY <1>1, <2>2
  <2>4. ASSUME NEW r \in L - n + 1 .. L PROVE RestOfDuration[r].to \in r .. L
    <3>1. L - r \in 0 .. L /\ L - r < n /\ L - (L - r) = r
      BY <1>1, <2>2, <2>4
    <3>2. L - r \notin Bad
      BY <1>1, <2>2, <3>1
    <3> QED BY <3>1, <3>2
  <2>5. DurationRound(RestOfDuration, L - n).to \in L - n .. L
    BY <2>3, <2>4, DurationRoundIn
  <2> QED BY <2>2, <2>3, <2>5, RestOfDurationDef
<1>3. L - q \in 0 .. L /\ L - (L - q) = q
  BY <1>1
<1>4. L - q \notin Bad
  BY <1>2
<1> QED BY <1>3, <1>4

\* A duration is scanned inside the input, and one that is accepted is not empty
\* (accept_remaining_duration).
LEMMA ScanDurationIn ==
  ASSUME CursorOK, NEW p \in 0 .. Len(input)
  PROVE  /\ ScanDuration(p).to \in p .. Len(input)
         /\ ScanDuration(p).ok => p < ScanDuration(p).to
<1>1. Len(input) \in Nat /\ input \in Seq(Char)
  BY DEF CursorOK
<1>2. CASE At(p + 1) \in Units
  <2>1. At(p + 1) # Eof /\ Eof \notin {"s"}
    BY <1>2 DEF Units, Eof
  <2>2. p + 1 \in 0 .. Len(input)
    BY <1>1, <2>1, AtIs
  <2> DEFINE q == Accept(p + 1, {"s"})
  <2>3. q \in p + 1 .. Len(input)
    BY <1>1, <2>1, <2>2, AcceptIn
  <2>4. ScanDuration(p) = RestOfDuration[q]
    BY <1>2 DEF ScanDuration
  <2> HIDE DEF q
  <2>5. RestOfDuration[q].to \in q .. Len(input)
    BY <1>1, <2>3, RestOfDurationIn
  <2> QED BY <1>1, <2>3, <2>4, <2>5
<1>3. CASE At(p + 1) \notin Units
  BY <1>1, <1>3 DEF ScanDuration, Scanned
<1> QED BY <1>2, <1>3

\* Once round the loop over a number reads on or ends, and never over the end.
LEMMA NumberRoundCases ==
  ASSUME input \in Seq(Char), NEW hex, NEW s \in NumberState
  PROVE  \/ \E r \in NumberState : r.at > s.at /\ \A rest : NumberRound(rest, hex, s) = rest[r]
         \/ \E to \in s.at .. Len(input), ok \in BOOLEAN :
              \A rest : NumberRound(rest, hex, s) = Scanned(to, ok)
<1> DEFINE c == At(s.at + 1)
           digits == IF hex THEN Hex ELSE Decimal
           after == IF c = "e" THEN Accept(s.at + 1, {"+", "-"}) ELSE s.at + 1
           anti == IF c = "." THEN {"_", "."} ELSE {".", "_", "e"}
<1>1. Len(input) \in Nat /\ s.at \in 0 .. Len(input) /\ s.seen \subseteq {".", "e"}
  BY DEF NumberState
<1>2. Eof \notin digits /\ Eof \notin {".", "_", "e"} /\ Eof \notin {"+", "-"} /\ Eof \notin anti
  BY DEF Eof, Hex, Decimal, HexDigits, ToSet
<1> HIDE DEF digits, anti
<1>3. CASE c \notin digits \cup {".", "_", "e"}
  <2>1. \A rest : NumberRound(rest, hex, s) = Scanned(s.at, TRUE)
    BY <1>3 DEF NumberRound, digits
  <2>2. s.at \in s.at .. Len(input)
    BY <1>1
  <2> QED BY <2>1, <2>2
<1>4. CASE c \in digits \cup {".", "_", "e"}
  <2>1. s.at + 1 \in 1 .. Len(input) /\ s.at + 1 \in s.at .. Len(input)
    <3>1. c # Eof
      BY <1>2, <1>4
    <3>2. s.at + 1 \in 1 .. Len(input)
      BY <1>1, <3>1, AtIs
    <3> QED BY <1>1, <3>2
  <2>2. after \in s.at + 1 .. Len(input)
    <3>1. s.at + 1 \in 0 .. Len(input)
      BY <1>1, <2>1
    <3>2. Accept(s.at + 1, {"+", "-"}) \in s.at + 1 .. Len(input)
      BY <1>2, <3>1, AcceptIn
    <3> QED BY <1>1, <2>1, <3>2
  <2>3. At(after + 1) \in anti => after + 1 \in s.at .. Len(input)
    <3> HIDE DEF after
    <3>1. ASSUME At(after + 1) \in anti PROVE after + 1 \in 1 .. Len(input)
      <4>1. At(after + 1) # Eof
        BY <1>2, <3>1
      <4>2. after + 1 \in Int
        BY <1>1, <2>2
      <4> QED BY <4>1, <4>2, AtIs
    <3> QED BY <1>1, <2>2, <3>1
  <2>4. CASE c \in s.seen
    <3>1. \A rest : NumberRound(rest, hex, s) = Scanned(s.at + 1, FALSE)
      BY <1>4, <2>4 DEF NumberRound, digits
    <3> QED BY <2>1, <3>1
  <2>5. CASE c \notin s.seen /\ c \notin {".", "_", "e"}
    <3> DEFINE r == [s EXCEPT !.at = RunOver(@, digits)]
    <3>1. \A rest : NumberRound(rest, hex, s) = rest[r]
      BY <1>4, <2>5 DEF NumberRound, digits
    <3>2. RunOver(s.at, digits) \in s.at .. Len(input) /\ s.at < RunOver(s.at, digits)
      <4>1. c \in digits /\ c # Eof
        BY <1>2, <1>4, <2>5
      <4> QED BY <1>1, <4>1, RunOverIn
    <3>3. r \in NumberState /\ r.at > s.at
      <4> DEFINE to == RunOver(s.at, digits)
      <4>1. to \in 0 .. Len(input) /\ to > s.at /\ r = [s EXCEPT !.at = to]
        BY <1>1, <3>2
      <4> HIDE DEF to, r
      <4> QED BY <4>1 DEF NumberState
    <3> QED BY <3>1, <3>3
  <2>6. CASE c \notin s.seen /\ c \in {".", "_", "e"} /\ At(after + 1) \in anti
    <3>1. \A rest : NumberRound(rest, hex, s) = Scanned(after + 1, FALSE)
      BY <1>4, <2>6 DEF NumberRound, digits, anti
    <3> QED BY <2>3, <2>6, <3>1
  <2>7. CASE /\ c \notin s.seen /\ c \in {".", "_", "e"} /\ At(after + 1) \notin anti
             /\ IF c = "." THEN hex ELSE At(after + 1) = Eof
    <3>1. \A rest : NumberRound(rest, hex, s) = Scanned(after, FALSE)
      BY <1>4, <2>7 DEF NumberRound, digits, anti
    <3>2. after \in s.at .. Len(input)
      <4> HIDE DEF after
      <4> QED BY <1>1, <2>2
    <3> QED BY <3>1, <3>2
  <2>8. CASE /\ c \notin s.seen /\ c \in {".", "_", "e"} /\ At(after + 1) \notin anti
             /\ ~(IF c = "." THEN hex ELSE At(after + 1) = Eof)
    <3> DEFINE r == [at |-> after, seen |-> s.seen \cup ({c} \ {"_"})]
    <3>1. \A rest : NumberRound(rest, hex, s) = rest[r]
      BY <1>4, <2>8 DEF NumberRound, digits, anti
    <3>2. s.seen \cup ({c} \ {"_"}) \in SUBSET {".", "e"}
      BY <1>1, <2>8
    <3>3. r \in NumberState /\ r.at > s.at
      <4> DEFINE seen == s.seen \cup ({c} \ {"_"})
      <4>1. seen \in SUBSET {".", "e"}
        BY <3>2
      <4> HIDE DEF after, c, seen
      <4>2. after \in 0 .. Len(input) /\ after > s.at
        BY <1>1, <2>2
      <4>3. [at |-> after, seen |-> seen] \in NumberState
        BY <4>1, <4>2 DEF NumberState
      <4> QED BY <4>2, <4>3 DEF seen
    <3> QED BY <3>1, <3>3
  <2> QED BY <2>4, <2>5, <2>6, <2>7, <2>8
<1> QED BY <1>3, <1>4

\* The loop over a number is well defined: it reads on.
LEMMA RestOfNumberDef ==
  ASSUME input \in Seq(Char), NEW hex
  PROVE  \A s \in NumberState : RestOfNumber(hex)[s] = NumberRound(RestOfNumber(hex), hex, s)
<1> DEFINE L == Len(input)
           Solves(f, n) == \A s \in NumberState : s.at >= L + 1 - n => f[s] = NumberRound(f, hex, s)
           Bad == {n \in 0 .. L + 1 : \A f : ~Solves(f, n)}
<1>1. L \in Nat /\ \A s \in NumberState : s.at \in 0 .. L
  BY DEF NumberState
<1>2. \A n \in 0 .. L + 1 : n \in Bad <=> \A f : ~Solves(f, n)
  OBVIOUS
<1>3. \A f : Solves(f, 0)
  BY <1>1
<1>4. Bad \subseteq 0 .. L + 1 /\ Bad \subseteq Nat
  BY <1>1
<1>5. ASSUME NEW f, NEW g, NEW s \in NumberState,
             \A r \in NumberState : r.at > s.at => f[r] = g[r]
      PROVE  NumberRound(f, hex, s) = NumberRound(g, hex, s)
  BY <1>5, NumberRoundCases
<1> HIDE DEF Bad, Solves, L
<1>6. Bad = {}
  <2>1. SUFFICES ASSUME Bad # {} PROVE FALSE
    OBVIOUS
  <2>2. PICK n \in Bad : \A m \in Bad : n <= m
    BY <1>4, <2>1, Least
  <2>3. n \in 1 .. L + 1 /\ n - 1 \in 0 .. L + 1
    BY <1>1, <1>2, <1>3, <1>4, <2>2
  <2>4. PICK f : Solves(f, n - 1)
    <3>1. n - 1 \notin Bad
      BY <1>4, <2>2, <2>3
    <3> QED BY <1>2, <2>3, <3>1
  <2> DEFINE at == L + 1 - n
             g == [s \in NumberState |-> IF s.at = at THEN NumberRound(f, hex, s) ELSE f[s]]
  <2>5. ASSUME NEW s \in NumberState, s.at >= at PROVE g[s] = NumberRound(g, hex, s)
    <3>1. \A r \in NumberState : r.at > s.at => f[r] = g[r]
      BY <1>1, <2>3, <2>5
    <3>2. g[s] = NumberRound(f, hex, s)
      <4>1. CASE s.at = at
        BY <4>1
      <4>2. CASE s.at # at
        <5>1. s.at >= L + 1 - (n - 1)
          BY <1>1, <2>3, <2>5, <4>2
        <5>2. f[s] = NumberRound(f, hex, s)
          BY <2>4, <5>1 DEF Solves
        <5> QED BY <4>2, <5>2
      <4> QED BY <4>1, <4>2
    <3> HIDE DEF g
    <3>3. NumberRound(f, hex, s) = NumberRound(g, hex, s)
      BY <1>5, <3>1
    <3> QED BY <3>2, <3>3
  <2> HIDE DEF g
  <2>6. Solves(g, n)
    BY <2>5 DEF Solves
  <2> QED BY <1>2, <1>4, <2>2, <2>6
<1>7. PICK f : Solves(f, L + 1)
  <2>1. L + 1 \in 0 .. L + 1
    BY <1>1
  <2> QED BY <1>2, <1>6, <2>1
<1> DEFINE h == [s \in NumberState |-> f[s]]
<1>8. \A s \in NumberState : h[s] = NumberRound(h, hex, s)
  <2> TAKE s \in NumberState
  <2>1. f[s] = NumberRound(f, hex, s)
    BY <1>1, <1>7 DEF Solves
  <2>2. \A r \in NumberState : r.at > s.at => f[r] = h[r]
    OBVIOUS
  <2>3. h[s] = f[s]
    OBVIOUS
  <2> HIDE DEF h
  <2>4. NumberRound(f, hex, s) = NumberRound(h, hex, s)
    BY <1>5, <2>2
  <2> QED BY <2>1, <2>3, <2>4
<1>9. h = [s \in NumberState |-> NumberRound(h, hex, s)]
  BY <1>8
<1> HIDE DEF h
<1>10. RestOfNumber(hex) = [s \in NumberState |-> NumberRound(RestOfNumber(hex), hex, s)]
  BY <1>9 DEF RestOfNumber
<1> QED BY <1>10

\* Wherever the loop over a number is entered, it ends inside the input.
LEMMA RestOfNumberIn ==
  ASSUME input \in Seq(Char), NEW hex, NEW s \in NumberState
  PROVE  /\ RestOfNumber(hex)[s].to \in s.at .. Len(input)
         /\ RestOfNumber(hex)[s].ok \in BOOLEAN
<1> DEFINE L == Len(input)
           Fine(r) == RestOfNumber(hex)[r].to \in r.at .. L /\ RestOfNumber(hex)[r].ok \in BOOLEAN
           Bad == {n \in 0 .. L : \E r \in NumberState : r.at = L - n /\ ~Fine(r)}
<1>1. L \in Nat /\ \A r \in NumberState : r.at \in 0 .. L
  BY DEF NumberState
<1>2. Bad \subseteq Nat
  OBVIOUS
<1>3. ASSUME NEW r \in NumberState, L - r.at \notin Bad PROVE Fine(r)
  <2>1. L - r.at \in 0 .. L /\ r.at = L - (L - r.at)
    BY <1>1
  <2> HIDE DEF Fine
  <2> QED BY <1>3, <2>1
<1>4. \A n \in Bad : \E r \in NumberState : r.at = L - n /\ ~Fine(r)
  OBVIOUS
<1>5. Bad = {}
  <2> HIDE DEF Bad, Fine
  <2>1. SUFFICES ASSUME Bad # {} PROVE FALSE
    OBVIOUS
  <2>2. PICK n \in Bad : \A m \in Bad : n <= m
    BY <1>2, <2>1, Least
  <2>3. PICK r \in NumberState : r.at = L - n /\ ~Fine(r)
    BY <1>4
  <2>4. RestOfNumber(hex)[r] = NumberRound(RestOfNumber(hex), hex, r)
    BY RestOfNumberDef
  <2>5. CASE \E q \in NumberState : q.at > r.at /\ NumberRound(RestOfNumber(hex), hex, r)
                                                   = RestOfNumber(hex)[q]
    <3>1. PICK q \in NumberState : q.at > r.at /\ NumberRound(RestOfNumber(hex), hex, r)
                                                   = RestOfNumber(hex)[q]
      BY <2>5
    <3>2. L - q.at \notin Bad
      <4>1. n \in Nat /\ q.at \in 0 .. L /\ r.at \in 0 .. L /\ L - q.at < n /\ L - q.at \in Nat
        BY <1>1, <1>2, <2>3, <3>1
      <4> QED BY <2>2, <4>1
    <3>3. Fine(q)
      BY <1>3, <3>2
    <3>4. q.at \in 0 .. L /\ r.at \in 0 .. L
      BY <1>1
    <3>5. Fine(r)
      BY <1>1, <2>4, <3>1, <3>3, <3>4 DEF Fine
    <3> QED BY <2>3, <3>5
  <2>6. CASE \E to \in r.at .. L, ok \in BOOLEAN :
               NumberRound(RestOfNumber(hex), hex, r) = Scanned(to, ok)
    <3>1. Fine(r)
      BY <2>4, <2>6 DEF Fine, Scanned
    <3> QED BY <2>3, <3>1
  <2> HIDE DEF L
  <2>7. \/ \E q \in NumberState : q.at > r.at /\ NumberRound(RestOfNumber(hex), hex, r)
                                                   = RestOfNumber(hex)[q]
        \/ \E to \in r.at .. L, ok \in BOOLEAN :
               NumberRound(RestOfNumber(hex), hex, r) = Scanned(to, ok)
    BY NumberRoundCases DEF L
  <2> QED BY <2>5, <2>6, <2>7
<1>6. Fine(s)
  BY <1>3, <1>5
<1> QED BY <1>6

\* A number is scanned inside the input, and one that is accepted is not empty (scan_number).
LEMMA ScanNumberIn ==
  ASSUME CursorOK, NEW p \in 0 .. Len(input)
  PROVE  /\ ScanNumber(p).to \in p .. Len(input)
         /\ ScanNumber(p).ok => p < ScanNumber(p).to
<1> DEFINE hex == At(p + 1) = "0" /\ At(p + 2) = "x"
           prefix == IF hex THEN Accept(p + 2, {"_"}) ELSE Accept(p, {"0"})
           dot == Accept(prefix, {"."})
           from == Accept(dot, IF hex THEN Hex ELSE Decimal)
           end == RestOfNumber(hex)[[at |-> from, seen |-> {}]]
<1>1. Len(input) \in Nat /\ input \in Seq(Char)
  BY DEF CursorOK
<1>2. Eof \notin {"_"} /\ Eof \notin {"0"} /\ Eof \notin {"."}
      /\ Eof \notin (IF hex THEN Hex ELSE Decimal)
  <2>1. Eof \notin {"_"} /\ Eof \notin {"0"} /\ Eof \notin {"."}
    BY DEF Eof
  <2>2. Eof \notin Hex /\ Eof \notin Decimal
    BY DEF Eof, Hex, Decimal, HexDigits, ToSet
  <2> HIDE DEF hex
  <2> QED BY <2>1, <2>2
<1>3. prefix \in p .. Len(input)
  <2>1. CASE hex
    <3>1. At(p + 2) # Eof
      BY <2>1 DEF Eof
    <3>2. p + 2 \in 0 .. Len(input)
      BY <1>1, <3>1, AtIs
    <3>3. Accept(p + 2, {"_"}) \in p + 2 .. Len(input) /\ prefix = Accept(p + 2, {"_"})
      BY <1>1, <1>2, <2>1, <3>2, AcceptIn
    <3> HIDE DEF prefix, hex
    <3>4. prefix \in p + 2 .. Len(input)
      BY <3>3
    <3> QED BY <1>1, <3>4
  <2>2. CASE ~hex
    BY <1>1, <1>2, <2>2, AcceptIn
  <2> QED BY <2>1, <2>2
<1> HIDE DEF prefix
<1>4. dot \in p .. Len(input)
  <2>1. prefix \in 0 .. Len(input)
    BY <1>1, <1>3
  <2>2. dot \in prefix .. Len(input)
    BY <1>1, <1>2, <2>1, AcceptIn
  <2> QED BY <1>1, <1>3, <2>2
<1> HIDE DEF dot
<1>5. from \in p .. Len(input)
  <2>1. dot \in 0 .. Len(input)
    BY <1>1, <1>4
  <2>2. from \in dot .. Len(input)
    BY <1>1, <1>2, <2>1, AcceptIn
  <2> QED BY <1>1, <1>4, <2>2
<1>6. ScanNumber(p) = IF end.ok THEN Scanned(end.to, end.to # p /\ At(end.to + 1) \notin Alphanumeric)
                      ELSE end
  BY DEF ScanNumber, prefix, dot
<1> HIDE DEF from, hex
<1>7. [at |-> from, seen |-> {}] \in NumberState
  BY <1>1, <1>5 DEF NumberState
<1>8. end.to \in from .. Len(input) /\ end.ok \in BOOLEAN
  BY <1>1, <1>7, RestOfNumberIn
<1> HIDE DEF end
<1>9. end.to \in p .. Len(input)
  BY <1>1, <1>5, <1>8
<1>10. CASE end.ok
  <2> DEFINE fits == end.to # p /\ At(end.to + 1) \notin Alphanumeric
  <2>1. ScanNumber(p) = [to |-> end.to, ok |-> fits]
    BY <1>6, <1>10 DEF Scanned
  <2>2. fits => end.to # p
    OBVIOUS
  <2> HIDE DEF fits
  <2>3. ScanNumber(p).to = end.to
    BY <2>1
  <2>4. ASSUME ~fits PROVE ~ScanNumber(p).ok
    <3>1. fits = FALSE
      BY <2>4 DEF fits
    <3> QED BY <2>1, <3>1
  <2> QED BY <1>1, <1>9, <2>2, <2>3, <2>4
<1>11. CASE ~end.ok
  <2>1. ScanNumber(p) = end
    BY <1>6, <1>11
  <2> QED BY <1>9, <1>11, <2>1
<1> QED BY <1>10, <1>11

\* What is read is in the input.
LEMMA Reads ==
  ASSUME CursorOK, At(pos + 1) # Eof
  PROVE  pos + 1 \in 1 .. Len(input) /\ pos + 1 \in pos .. Len(input)
<1>1. pos + 1 \in 1 .. Len(input)
  BY Positions, AtIs DEF CursorOK
<1> QED BY <1>1, Positions

\* The step of a token that is no bracket, with nothing opened or closed.
LEMMA Token ==
  ASSUME CursorOK, NEW typ \in TokenTypes \ (Brackets \cup {Eof}),
         NEW to \in pos .. Len(input), start < to,
         NEW next \in {"Statements", "InsideBraces", "DurationExpr"}, Emit(typ, to, next),
         state # "End", input' = input, UNCHANGED open,
         next = "InsideBraces" => open.brace, next = "DurationExpr" => open.bracket
  PROVE  Shape
<1>1. open' \in Opening /\ (next = "InsideBraces" => open'.brace)
      /\ (next = "DurationExpr" => open'.bracket)
  BY DEF CursorOK
<1>2. typ \in TokenTypes /\ typ # Eof /\ Opens(typ)
  BY Quiet
<1> QED BY <1>1, <1>2, Emitted

\* errorf with what is open as it was.
LEMMA FailedHere ==
  ASSUME CursorOK, NEW to \in pos .. Len(input), Fail(to), state # "End", input' = input,
         UNCHANGED open
  PROVE  Shape
<1>1. open' \in Opening
  BY DEF CursorOK
<1> QED BY <1>1, ErrorEmitted DEF Fail

\* The cursor is moved, with what is open as it was.
LEMMA MovedOn ==
  ASSUME CursorOK, NEW to \in pos .. Len(input),
         NEW next \in Beginning \cup Quoted \cup {"Space"}, Move(to, next), state # "End",
         Handed', input' = input, UNCHANGED open
  PROVE  Shape
  BY QuietMove, Moved DEF CursorOK

\* The steps of a parenthesis, in an expression or in brackets.
LEMMA ParenShape ==
  ASSUME CursorOK, Handed, OpenParen \/ CloseParen
  PROVE  Shape
<1> USE Positions
<1>1. PICK c \in {"(", ")"} :
        Statement(c) \/ (state = "DurationExpr" /\ At(pos + 1) = c /\ UNCHANGED input)
  BY DEF OpenParen, CloseParen
<1>2. state \in {"Statements", "DurationExpr"} /\ input' = input /\ start = pos
      /\ pos + 1 \in pos .. Len(input) /\ start < pos + 1 /\ pos + 1 \in 1 .. Len(input)
  <2>1. c # Eof
    BY DEF Eof
  <2> QED BY <1>1, <2>1, Reads DEF Statement, Handed, Beginning
<1>3. {"(", ")"} \subseteq TokenTypes \ {Eof} /\ state # "End"
      /\ (state = "DurationExpr" => open.bracket)
  BY <1>2 DEF TokenTypes, Eof, Handed
<1>4. CASE OpenParen
  <2>1. Emit("(", pos + 1, state) /\ open' = [open EXCEPT !.parens = @ + 1]
    BY <1>4 DEF OpenParen
  <2>a. open \in Opening
    BY DEF CursorOK
  <2>b. open' \in Opening /\ open'.parens = open.parens + 1
        /\ open'.brace = open.brace /\ open'.bracket = open.bracket
    BY <2>1, <2>a DEF Opening
  <2>2. open' \in Opening /\ (state = "DurationExpr" => open'.bracket)
    BY <1>3, <2>b
  <2>3. Opens("(")
    BY <2>b DEF Opens, Eof
  <2> QED BY <1>2, <1>3, <2>1, <2>2, <2>3, Emitted
<1>5. CASE CloseParen
  <2> DEFINE token == [typ |-> ")", from |-> start, to |-> pos + 1]
             error == [typ |-> "Error", from |-> pos + 1, to |-> pos + 1]
  <2>1. open' = [open EXCEPT !.parens = @ - 1] /\ pos' = pos + 1 /\ start' = pos + 1
    BY <1>5 DEF CloseParen
  <2>a. open \in Opening
    BY DEF CursorOK
  <2>b. open' \in Opening /\ open'.parens = open.parens - 1
        /\ open'.brace = open.brace /\ open'.bracket = open.bracket
    BY <2>1, <2>a DEF Opening
  <2>2. open' \in Opening /\ (state = "DurationExpr" => open'.bracket)
    BY <1>3, <2>b
  <2>3. CASE open.parens = 0
    <3>1. items' = items \o <<token, error>> /\ state' = "End"
      BY <1>5, <2>3 DEF CloseParen
    <3> QED BY <1>2, <1>3, <2>1, <2>2, <3>1, RefusedAfter
  <2>4. CASE open.parens # 0
    <3>1. Emit(")", pos + 1, state)
      BY <1>5, <2>1, <2>4 DEF CloseParen, Emit
    <3>2. Opens(")")
      BY <2>4, <2>b DEF Opens, Eof
    <3> QED BY <1>2, <1>3, <2>2, <3>1, <3>2, Emitted
  <2> QED BY <2>3, <2>4
<1> QED BY <1>4, <1>5

\* The step into a string.
LEMMA QuoteShape ==
  ASSUME CursorOK, Handed, QuoteAhead
  PROVE  Shape
<1> USE Positions
<1>1. PICK c \in Quotes :
        /\ Statement(c) \/ (state = "InsideBraces" /\ At(pos + 1) = c /\ UNCHANGED input)
        /\ open' = [open EXCEPT !.quote = c]
        /\ Move(pos + 1, IF c = Backtick THEN "RawString" ELSE "String")
  BY DEF QuoteAhead
<1>2. c # Eof
  BY DEF Quotes, Eof, Backtick
<1>3. state # "End" /\ input' = input /\ pos + 1 \in pos .. Len(input)
  BY <1>1, <1>2, Reads DEF Statement
<1>4. PICK next \in {"RawString", "String"} : Move(pos + 1, next)
  BY <1>1
<1>5. open' \in Opening /\ Opens("Space") /\ open'.quote \in Quotes
  BY <1>1 DEF CursorOK, Opening, Opens, Eof
<1>6. Handed'
  BY <1>4, <1>5 DEF Handed, Beginning, Move
<1> QED BY <1>3, <1>4, <1>5, <1>6, Moved DEF Quoted

\* Every step of lex_statements has one of the shapes.
LEMMA StatementsShape ==
  ASSUME CursorOK, Handed, LexStatements
  PROVE  Shape
<1> USE Positions
<1>1. CASE BackInBraces
  <2>1. Move(pos, "InsideBraces") /\ state = "Statements" /\ open.brace
        /\ input' = input /\ UNCHANGED open
    BY <1>1 DEF BackInBraces
  <2>2. Handed'
    BY <2>1 DEF Handed, Beginning, Quoted, Move
  <2> QED BY <2>1, <2>2, MovedOn DEF Beginning
<1>2. ASSUME NEW c, Statement(c)
      PROVE  /\ state = "Statements" /\ ~open.brace /\ At(pos + 1) = c /\ input' = input
             /\ start = pos
             /\ c # Eof => pos + 1 \in pos .. Len(input) /\ start < pos + 1
  BY <1>2, Reads DEF Statement, Handed, Beginning
<1>3. CASE EndOfInput
  <2>1. pos = Len(input)
    BY <1>2, <1>3, AtIs DEF EndOfInput, CursorOK
  <2>2. CASE open.parens # 0 \/ open.bracket
    BY <1>2, <1>3, <2>1, <2>2, FailedHere DEF EndOfInput
  <2>3. CASE ~(open.parens # 0 \/ open.bracket)
    <3>1. Emit(Eof, pos, "End") /\ UNCHANGED open /\ state = "Statements" /\ ~open.brace
          /\ open.parens = 0 /\ ~open.bracket /\ input' = input /\ start = pos
      BY <1>2, <1>3, <2>3 DEF EndOfInput
    <3>2. items' \in Seq(Item) /\ pos' = pos /\ start' = pos /\ state' = "End"
          /\ items' = Append(items, [typ |-> Eof, from |-> start, to |-> pos])
      <4>1. Eof \in TokenTypes /\ pos \in pos .. Len(input)
        BY DEF TokenTypes
      <4> QED BY <3>1, <4>1, EmitAppends DEF Emit
    <3>3. CursorOK' /\ Handed'
      BY <3>1, <3>2 DEF CursorOK, Handed, Beginning, Quoted
    <3>4. Opens(Eof)
      BY <3>1 DEF Opens, Eof
    <3>5. Emitting
      <4>1. Eof \in TokenTypes /\ pos \in start .. Len(input) /\ start' >= pos
        BY <3>2 DEF TokenTypes
      <4>2. Blank(pos, start')
        BY <3>2 DEF Blank
      <4> QED BY <2>1, <3>2, <3>4, <4>1, <4>2 DEF Emitting
    <3> QED BY <3>1, <3>3, <3>5 DEF Shape
  <2> QED BY <2>2, <2>3
<1>4. CASE SpaceAhead
  <2>1. PICK c \in Spaces : Statement(c)
    BY <1>4 DEF SpaceAhead
  <2>2. Move(pos + 1, "Space") /\ UNCHANGED open /\ c # Eof
    BY <1>4 DEF SpaceAhead, Spaces, Eof
  <2>3. input[pos + 1] \in Spaces
    BY <1>2, <2>1, <2>2, AtIs DEF CursorOK
  <2>4. Handed'
    BY <1>2, <2>1, <2>2, <2>3 DEF Handed, Beginning, Quoted, Move
  <2> QED BY <1>2, <2>1, <2>2, <2>4, MovedOn
<1>5. CASE Punctuated
  <2>1. PICK c \in Punctuation : Statement(c) /\ Emit(c, pos + 1, state) /\ UNCHANGED open
    BY <1>5 DEF Punctuated
  <2>2. c \in TokenTypes \ (Brackets \cup {Eof})
    BY DEF TokenTypes, Punctuation, Brackets, Eof
  <2> QED BY <1>2, <2>1, <2>2, Token
<1>6. CASE Compound
  <2> DEFINE next == At(pos + 2)
  <2>1. PICK c \in {"=", "!", "<", ">"} :
          /\ Statement(c)
          /\ \/ next \in {"=", "/"} /\ Emit("Compound", pos + 2, state)
             \/ Fail(Accept(pos + 1, {next} \ {Eof})) \/ Fail(pos + 1)
             \/ Emit(c, pos + 1, state)
    BY <1>6 DEF Compound
  <2>2. UNCHANGED open /\ c # Eof
    BY <1>6 DEF Compound, Eof
  <2>3. CASE next \in {"=", "/"} /\ Emit("Compound", pos + 2, state)
    <3>1. pos + 2 \in pos .. Len(input)
      <4>1. next # Eof
        BY <2>3 DEF Eof
      <4> QED BY <4>1, AtIs DEF CursorOK
    <3>2. "Compound" \in TokenTypes \ (Brackets \cup {Eof})
      BY DEF TokenTypes, Brackets, Eof
    <3> QED BY <1>2, <2>1, <2>2, <2>3, <3>1, <3>2, Token
  <2>4. CASE Fail(Accept(pos + 1, {next} \ {Eof}))
    <3>1. Accept(pos + 1, {next} \ {Eof}) \in pos .. Len(input)
      BY <1>2, <2>1, <2>2, AcceptIn DEF CursorOK
    <3> QED BY <1>2, <2>1, <2>2, <2>4, <3>1, FailedHere
  <2>5. CASE Fail(pos + 1)
    BY <1>2, <2>1, <2>2, <2>5, FailedHere
  <2>6. CASE Emit(c, pos + 1, state)
    <3>1. c \in TokenTypes \ (Brackets \cup {Eof})
      BY DEF TokenTypes, Brackets, Eof
    <3> QED BY <1>2, <2>1, <2>2, <2>6, <3>1, Token
  <2> QED BY <2>1, <2>3, <2>4, <2>5, <2>6
<1>7. CASE NumberAhead
  <2>1. Statement(At(pos + 1)) /\ Move(pos, "NumberOrDuration") /\ UNCHANGED open
    BY <1>7 DEF NumberAhead
  <2>2. Handed'
    BY <1>2, <2>1 DEF Handed, Beginning, Quoted, Move
  <2> QED BY <1>2, <2>1, <2>2, MovedOn DEF Beginning
<1>8. CASE QuoteAhead
  BY <1>8, QuoteShape DEF Handed
<1>9. CASE WordAhead
  <2>1. PICK c \in Alpha \cup {":"} :
          /\ Statement(c)
          /\ \/ Move(pos, "KeywordOrIdentifier") /\ UNCHANGED open
             \/ /\ Fail(pos + 1) \/ Emit(":", pos + 1, "Statements")
                /\ open' = [open EXCEPT !.colon = TRUE]
             \/ /\ LET word == ScanDurationWord(pos + 1)
                   IN  Emit("Word", word.to, "Statements") \/ Fail(word.to) \/ Fail(pos + 1)
                /\ UNCHANGED open
    BY <1>9 DEF WordAhead
  <2>2. c # Eof /\ state = "Statements" /\ At(pos + 1) = c /\ input' = input /\ start = pos
        /\ pos + 1 \in pos .. Len(input) /\ start < pos + 1 /\ state # "End"
    <3>1. c # Eof
      BY DEF Alpha, Eof
    <3> QED BY <1>2, <2>1, <3>1
  <2>3. CASE Move(pos, "KeywordOrIdentifier") /\ UNCHANGED open
    <3>1. Handed'
      BY <2>2, <2>3 DEF Handed, Beginning, Quoted, Move, At
    <3> QED BY <2>2, <2>3, <3>1, MovedOn DEF Beginning
  <2>4. CASE /\ Fail(pos + 1) \/ Emit(":", pos + 1, "Statements")
             /\ open' = [open EXCEPT !.colon = TRUE]
    <3>1. open' \in Opening /\ Opens(":")
      BY <2>4 DEF CursorOK, Opening, Opens, Eof
    <3>2. ":" \in TokenTypes /\ ":" # Eof
      BY DEF TokenTypes, Eof
    <3>3. CASE Fail(pos + 1)
      BY <2>2, <3>1, <3>3, ErrorEmitted DEF Fail
    <3>4. CASE Emit(":", pos + 1, "Statements")
      BY <2>2, <3>1, <3>2, <3>4, Emitted
    <3> QED BY <2>4, <3>3, <3>4
  <2>5. CASE /\ LET word == ScanDurationWord(pos + 1)
                IN  Emit("Word", word.to, "Statements") \/ Fail(word.to) \/ Fail(pos + 1)
             /\ UNCHANGED open
    <3> DEFINE to == ScanDurationWord(pos + 1).to
    <3>1. to \in pos + 1 .. Len(input)
      BY <2>2, ScanWordIn
    <3>2. to \in pos .. Len(input) /\ start < to
      BY <2>2, <3>1
    <3>3. "Word" \in TokenTypes \ (Brackets \cup {Eof})
      BY DEF TokenTypes, Brackets, Eof
    <3>4. CASE Emit("Word", to, "Statements")
      BY <2>2, <2>5, <3>2, <3>3, <3>4, Token
    <3>5. CASE Fail(to)
      BY <2>2, <2>5, <3>2, <3>5, FailedHere
    <3>6. CASE Fail(pos + 1)
      BY <2>2, <2>5, <3>6, FailedHere
    <3> QED BY <2>5, <3>4, <3>5, <3>6
  <2> QED BY <2>1, <2>3, <2>4, <2>5
<1>10. CASE OpenParen
  BY <1>10, ParenShape
<1>11. CASE CloseParen
  BY <1>11, ParenShape
<1>12. CASE OpenBrace
  <2>1. Statement("{") /\ Emit("{", pos + 1, "InsideBraces")
        /\ open' = [open EXCEPT !.brace = TRUE]
    BY <1>12 DEF OpenBrace
  <2>2. "{" # Eof /\ "{" \in TokenTypes
    BY DEF Eof, TokenTypes
  <2>3. open' \in Opening /\ Opens("{") /\ open'.brace
    BY <1>2, <2>1, <2>2 DEF CursorOK, Opening, Opens
  <2> QED BY <1>2, <2>1, <2>2, <2>3, Emitted
<1>13. CASE OpenBracket
  <2>1. Statement("[") /\ "[" # Eof /\ "[" \in TokenTypes
    BY <1>13 DEF OpenBracket, Eof, TokenTypes
  <2>2. state = "Statements" /\ At(pos + 1) = "[" /\ input' = input /\ start = pos
        /\ pos + 1 \in pos .. Len(input) /\ start < pos + 1 /\ pos + 1 \in 0 .. Len(input)
    BY <1>2, <2>1
  <2>3. CASE open.bracket
    BY <1>13, <2>2, <2>3, FailedHere DEF OpenBracket
  <2>4. CASE ~open.bracket
    <3> DEFINE to == RunOver(pos + 1, Spaces)
               token == [typ |-> "[", from |-> start, to |-> pos + 1]
    <3>1. items' = Append(items, token) /\ pos' = to /\ start' = to /\ state' = "DurationExpr"
          /\ open' = [open EXCEPT !.bracket = TRUE, !.colon = FALSE, !.duration = FALSE]
      BY <1>13, <2>4 DEF OpenBracket
    <3>2. to \in pos + 1 .. Len(input) /\ Blank(pos + 1, to)
      BY <2>2, RunOverIn DEF CursorOK, Blank
    <3>3. token \in Item
      BY <2>1, <2>2 DEF Item
    <3>4. items' \in Seq(Item)
      BY <3>1, <3>3 DEF CursorOK
    <3>5. open' \in Opening /\ Opens("[") /\ open'.bracket
      BY <2>1, <2>4, <3>1 DEF CursorOK, Opening, Opens
    <3>6. to \in 0 .. Len(input)
      BY <3>2
    <3>7. CursorOK'
      BY <2>2, <3>1, <3>4, <3>5, <3>6 DEF CursorOK, Beginning
    <3>8. Handed'
      BY <3>1, <3>5 DEF Handed, Beginning, Quoted
    <3>9. Emitting
      <4>1. "[" \in TokenTypes /\ pos + 1 \in start .. Len(input) /\ start' >= pos + 1
            /\ Blank(pos + 1, start') /\ state' # "End" /\ start < pos + 1
        BY <2>1, <2>2, <3>1, <3>2
      <4> QED BY <2>1, <3>1, <3>5, <4>1 DEF Emitting
    <3> QED BY <2>2, <3>7, <3>8, <3>9 DEF Shape
  <2> QED BY <2>3, <2>4
<1>14. CASE CloseBracket
  <2>1. Statement("]") /\ "]" # Eof /\ "]" \in TokenTypes
    BY <1>14 DEF CloseBracket, Eof, TokenTypes
  <2>2. CASE ~open.bracket
    BY <1>2, <1>14, <2>1, <2>2, FailedHere DEF CloseBracket
  <2>3. CASE open.bracket
    <3>1. Emit("]", pos + 1, "Statements") /\ open' = [open EXCEPT !.bracket = FALSE]
      BY <1>2, <1>14, <2>1, <2>3 DEF CloseBracket
    <3>2. open' \in Opening /\ Opens("]")
      BY <2>1, <2>3, <3>1 DEF CursorOK, Opening, Opens
    <3> QED BY <1>2, <2>1, <3>1, <3>2, Emitted
  <2> QED BY <2>2, <2>3
<1>15. CASE Unexpected
  <2>1. Statement(At(pos + 1)) /\ At(pos + 1) # Eof /\ Fail(pos + 1) /\ UNCHANGED open
    BY <1>15 DEF Unexpected
  <2> QED BY <1>2, <2>1, FailedHere
<1> QED BY <1>1, <1>3, <1>4, <1>5, <1>6, <1>7, <1>8, <1>9, <1>10, <1>11, <1>12, <1>13, <1>14,
           <1>15 DEF LexStatements

\* Every step of lex_inside_braces has one of the shapes.
LEMMA BracesShape ==
  ASSUME CursorOK, Handed, LexInsideBraces
  PROVE  Shape
<1> USE Positions
<1>1. state = "InsideBraces" /\ input' = input /\ open.brace /\ start = pos /\ state # "End"
  BY DEF LexInsideBraces, BraceSpaceAhead, LabelAhead, Matcher, CloseBrace, UnexpectedInBraces,
         Handed, Beginning
<1>2. At(pos + 1) # Eof => pos + 1 \in pos .. Len(input) /\ pos + 1 \in 1 .. Len(input)
  BY Reads
<1>3. CASE BraceSpaceAhead
  <2>1. At(pos + 1) \in Spaces /\ At(pos + 1) # Eof /\ Move(pos + 1, "Space") /\ UNCHANGED open
    BY <1>3 DEF BraceSpaceAhead, Spaces, Eof
  <2>2. input[pos + 1] \in Spaces
    BY <1>2, <2>1, AtIs DEF CursorOK
  <2>3. Handed'
    BY <1>1, <2>1, <2>2 DEF Handed, Beginning, Quoted, Move
  <2> QED BY <1>1, <1>2, <2>1, <2>3, MovedOn
<1>4. CASE LabelAhead
  <2>1. At(pos + 1) \in Alpha /\ Move(pos, "Identifier") /\ UNCHANGED open
    BY <1>4 DEF LabelAhead
  <2>2. Handed'
    BY <1>1, <2>1 DEF Handed, Beginning, Quoted, Move, At
  <2> QED BY <1>1, <2>1, <2>2, MovedOn DEF Beginning
<1>5. CASE Matcher
  <2> DEFINE c == At(pos + 1)
             next == At(pos + 2)
  <2>1. c \in {",", "=", "!"} /\ UNCHANGED open
    BY <1>5 DEF Matcher
  <2>2. c # Eof /\ c \in TokenTypes \ (Brackets \cup {Eof})
    BY <2>1 DEF TokenTypes, Punctuation, Brackets, Eof
  <2>3. \/ Emit(c, pos + 1, "InsideBraces")
        \/ next \in {"~", "="} /\ Emit("Compound", pos + 2, "InsideBraces")
        \/ Fail(Accept(pos + 1, {next} \ {Eof}))
    BY <1>1, <1>5 DEF Matcher
  <2>4. CASE Emit(c, pos + 1, "InsideBraces")
    <3>1. pos + 1 \in pos .. Len(input) /\ start < pos + 1
      BY <1>1, <1>2, <2>2
    <3> HIDE DEF c
    <3> QED BY <1>1, <2>1, <2>2, <2>4, <3>1, Token
  <2>5. CASE next \in {"~", "="} /\ Emit("Compound", pos + 2, "InsideBraces")
    <3>1. pos + 2 \in pos .. Len(input) /\ start < pos + 2
      <4>1. next # Eof
        BY <2>5 DEF Eof
      <4>2. pos + 2 \in 1 .. Len(input)
        BY <4>1, AtIs DEF CursorOK
      <4> QED BY <1>1, <4>2
    <3>2. "Compound" \in TokenTypes \ (Brackets \cup {Eof})
      BY DEF TokenTypes, Brackets, Eof
    <3> QED BY <1>1, <2>1, <2>5, <3>1, <3>2, Token
  <2>6. CASE Fail(Accept(pos + 1, {next} \ {Eof}))
    <3>1. Accept(pos + 1, {next} \ {Eof}) \in pos .. Len(input)
      BY <1>2, <2>2, AcceptIn DEF CursorOK
    <3> QED BY <1>1, <2>1, <2>6, <3>1, FailedHere
  <2> QED BY <2>3, <2>4, <2>5, <2>6
<1>6. CASE CloseBrace
  <2>1. At(pos + 1) = "}" /\ Emit("}", pos + 1, "Statements")
        /\ open' = [open EXCEPT !.brace = FALSE]
    BY <1>6 DEF CloseBrace
  <2>2. "}" # Eof /\ "}" \in TokenTypes
    BY DEF Eof, TokenTypes
  <2>3. open' \in Opening /\ Opens("}")
    BY <1>1, <2>1, <2>2 DEF CursorOK, Opening, Opens
  <2>4. pos + 1 \in pos .. Len(input) /\ start < pos + 1
    <3>1. At(pos + 1) # Eof
      BY <2>1, <2>2
    <3> QED BY <1>1, <1>2, <3>1
  <2> QED BY <1>1, <2>1, <2>2, <2>3, <2>4, Emitted
<1>7. CASE UnexpectedInBraces
  <2> DEFINE to == Accept(pos, {At(pos + 1)} \ {Eof})
  <2>1. Fail(to) /\ UNCHANGED open
    BY <1>7 DEF UnexpectedInBraces
  <2>2. to \in pos .. Len(input)
    BY AcceptIn DEF CursorOK
  <2> QED BY <1>1, <2>1, <2>2, FailedHere
<1> QED BY <1>3, <1>4, <1>5, <1>6, <1>7 DEF LexInsideBraces

\* Every step of lex_duration_expr has one of the shapes.
LEMMA DurationShape ==
  ASSUME CursorOK, Handed, LexDurationExpr
  PROVE  Shape
<1> USE Positions
<1>1. state = "DurationExpr" /\ input' = input /\ open.bracket /\ start = pos /\ state # "End"
  BY DEF LexDurationExpr, DurationOperator, DurationSpace, DurationNumber, DurationWord,
         DurationColon, DurationEnd, UnexpectedInDuration, Handed, Beginning
<1>2. At(pos + 1) # Eof => pos + 1 \in pos .. Len(input) /\ pos + 1 \in 1 .. Len(input)
  BY Reads
<1>3. CASE DurationOperator
  <2> DEFINE c == At(pos + 1)
  <2>1. c \in Punctuation /\ Emit(c, pos + 1, "DurationExpr") /\ UNCHANGED open
    BY <1>1, <1>3 DEF DurationOperator
  <2>2. c \in TokenTypes \ (Brackets \cup {Eof}) /\ c # Eof
    BY <2>1 DEF TokenTypes, Punctuation, Brackets, Eof
  <2>3. pos + 1 \in pos .. Len(input) /\ start < pos + 1
    BY <1>1, <1>2, <2>2
  <2> HIDE DEF c
  <2> QED BY <1>1, <2>1, <2>2, <2>3, Token
<1>4. CASE DurationSpace
  <2> DEFINE to == RunOver(pos, Spaces)
  <2>1. items' = items /\ pos' = to /\ start' = to /\ state' = "DurationExpr" /\ UNCHANGED open
    BY <1>1, <1>4 DEF DurationSpace, Ignore
  <2>2. to \in pos .. Len(input) /\ Blank(pos, to)
    BY RunOverIn DEF CursorOK, Blank
  <2>3. Handed'
    BY <1>1, <2>1 DEF Handed, Beginning, Quoted
  <2>4. pos' \in pos .. Len(input) /\ start' \in start .. pos' /\ Blank(start, start')
    BY <1>1, <2>1, <2>2
  <2> HIDE DEF to
  <2> QED BY <1>1, <2>1, <2>3, <2>4, QuietMove, Passed DEF CursorOK, Beginning
<1>5. CASE DurationNumber
  <2>1. open' = [open EXCEPT !.duration = TRUE] /\ Move(pos, "NumberOrDuration")
    BY <1>5 DEF DurationNumber
  <2>2. open' \in Opening /\ Opens("Space")
    BY <2>1 DEF CursorOK, Opening, Opens, Eof
  <2>3. Handed'
    BY <1>1, <2>1 DEF Handed, Beginning, Quoted, Move
  <2>4. pos \in pos .. Len(input) /\ "NumberOrDuration" \in Beginning
    BY DEF Beginning
  <2> QED BY <1>1, <2>1, <2>2, <2>3, <2>4, Moved
<1>6. CASE DurationWord
  <2> DEFINE to == ScanDurationWord(pos + 1).to
  <2>1. At(pos + 1) \in {"s", "m", "r"} /\ UNCHANGED open
        /\ (Emit("Word", to, "DurationExpr") \/ Fail(to))
    BY <1>1, <1>6 DEF DurationWord
  <2>2. pos + 1 \in 0 .. Len(input)
    BY <1>2, <2>1 DEF Eof
  <2>3. to \in pos + 1 .. Len(input)
    BY <2>2, ScanWordIn
  <2>4. to \in pos .. Len(input) /\ start < to
    BY <1>1, <2>3
  <2>5. "Word" \in TokenTypes \ (Brackets \cup {Eof})
    BY DEF TokenTypes, Brackets, Eof
  <2>6. CASE Emit("Word", to, "DurationExpr")
    BY <1>1, <2>1, <2>4, <2>5, <2>6, Token
  <2>7. CASE Fail(to)
    BY <1>1, <2>1, <2>4, <2>7, FailedHere
  <2> QED BY <2>1, <2>6, <2>7
<1>7. CASE DurationColon
  <2> DEFINE token == [typ |-> ":", from |-> start, to |-> pos + 1]
             error == [typ |-> "Error", from |-> pos + 1, to |-> pos + 1]
  <2>1. At(pos + 1) = ":" /\ open' = [open EXCEPT !.colon = @ \/ open.duration]
        /\ pos' = pos + 1 /\ start' = pos + 1
    BY <1>7 DEF DurationColon
  <2>2. ":" # Eof /\ ":" \in TokenTypes
    BY DEF Eof, TokenTypes
  <2>3. pos + 1 \in pos .. Len(input) /\ pos + 1 \in 1 .. Len(input) /\ start < pos + 1
    BY <1>1, <1>2, <2>1, <2>2
  <2>4. open \in Opening
    BY DEF CursorOK
  <2>5. open' \in Opening /\ Opens(":") /\ open'.bracket
    BY <1>1, <2>1, <2>2, <2>4 DEF Opening, Opens
  <2>6. CASE items' = Append(items, token) /\ state' = state
    <3>1. Emit(":", pos + 1, "DurationExpr")
      BY <1>1, <2>1, <2>6 DEF Emit
    <3> QED BY <1>1, <2>2, <2>3, <2>5, <3>1, Emitted
  <2>7. CASE items' = items \o <<token, error>> /\ state' = "End"
    BY <1>1, <2>1, <2>2, <2>3, <2>5, <2>7, RefusedAfter
  <2> QED BY <1>7, <2>6, <2>7 DEF DurationColon
<1>8. CASE DurationEnd
  <2>1. At(pos + 1) = "]" /\ Emit("]", pos + 1, "Statements")
        /\ open' = [open EXCEPT !.bracket = FALSE, !.colon = FALSE]
    BY <1>8 DEF DurationEnd
  <2>2. "]" # Eof /\ "]" \in TokenTypes
    BY DEF Eof, TokenTypes
  <2>3. open' \in Opening /\ Opens("]")
    BY <1>1, <2>1, <2>2 DEF CursorOK, Opening, Opens
  <2>4. pos + 1 \in pos .. Len(input) /\ start < pos + 1
    <3>1. At(pos + 1) # Eof
      BY <2>1, <2>2
    <3> QED BY <1>1, <1>2, <3>1
  <2> QED BY <1>1, <2>1, <2>2, <2>3, <2>4, Emitted
<1>9. CASE UnexpectedInDuration
  <2> DEFINE to == Accept(pos, {At(pos + 1)} \ {Eof})
  <2>1. Fail(to) /\ UNCHANGED open
    BY <1>9 DEF UnexpectedInDuration
  <2>2. to \in pos .. Len(input)
    BY AcceptIn DEF CursorOK
  <2> QED BY <1>1, <2>1, <2>2, FailedHere
<1> QED BY <1>3, <1>4, <1>5, <1>6, <1>7, <1>8, <1>9 DEF LexDurationExpr

\* Every step inside a string has one of the shapes (lex_string, lex_raw_string, lex_escape).
LEMMA StringsShape ==
  ASSUME CursorOK, Handed, String \/ RawString \/ Escape
  PROVE  Shape
<1> USE Positions
<1>1. state \in Quoted /\ state # "End" /\ UNCHANGED <<input, open>> /\ open.quote \in Quotes
  <2>1. state \in Quoted /\ UNCHANGED <<input, open>>
    BY DEF String, RawString, Escape, Quoted
  <2> QED BY <2>1 DEF Handed, Quoted
<1>2. open.quote # Eof
  BY <1>1 DEF Quotes, Backtick, Eof
<1>3. ASSUME NEW stops
      PROVE  /\ StringTo(stops) \in pos + 1 .. Len(input) + 1
             /\ At(StringTo(stops)) # Eof => StringTo(stops) \in pos .. Len(input)
             /\ Min({StringTo(stops), Len(input)}) \in pos .. Len(input)
  <2> DEFINE to == StringTo(stops)
  <2>1. to \in pos + 1 .. Len(input) + 1
    BY RunOverIn DEF StringTo, CursorOK
  <2>2. At(to) # Eof => to \in pos .. Len(input)
    BY <2>1, AtIs DEF CursorOK
  <2>3. Min({to, Len(input)}) = IF to <= Len(input) THEN to ELSE Len(input)
    BY <2>1 DEF Min
  <2> HIDE DEF to
  <2>4. Min({to, Len(input)}) \in pos .. Len(input)
    BY <2>1, <2>3
  <2> QED BY <2>1, <2>2, <2>4 DEF to
<1>4. ASSUME NEW to \in pos + 1 .. Len(input), Emit("String", to, Inside)
      PROVE  Shape
  <2>1. to \in pos .. Len(input) /\ start < to
    BY <1>4
  <2>2. "String" \in TokenTypes \ (Brackets \cup {Eof})
    BY DEF TokenTypes, Brackets, Eof
  <2>3. PICK next \in {"InsideBraces", "Statements"} :
          Emit("String", to, next) /\ (next = "InsideBraces" => open.brace)
    BY <1>4 DEF Inside
  <2> QED BY <1>1, <2>1, <2>2, <2>3, Token
<1>5. ASSUME NEW to \in pos .. Len(input), NEW next \in {"String", "Escape"}, Move(to, next)
      PROVE  Shape
  <2>1. Handed'
    BY <1>1, <1>5 DEF Handed, Beginning, Move
  <2> QED BY <1>1, <1>5, <2>1, MovedOn DEF Quoted
<1>6. ASSUME NEW to \in pos .. Len(input), Emit("Error", to, "String")
      PROVE  Shape
  BY <1>1, <1>6, ErrorEmitted DEF CursorOK
<1>7. CASE String
  <2> DEFINE stops == {"\\", BadRune, "\n", open.quote}
             to == StringTo(stops)
  <2>1. \/ At(to) = "\\" /\ Move(to, "Escape")
        \/ At(to) = open.quote /\ Emit("String", to, Inside)
        \/ Fail(Min({to, Len(input)}))
    BY <1>7 DEF String
  <2> HIDE DEF stops
  <2>2. CASE At(to) = "\\" /\ Move(to, "Escape")
    <3>1. to \in pos .. Len(input)
      BY <1>3, <2>2 DEF Eof
    <3> QED BY <1>5, <2>2, <3>1
  <2>3. CASE At(to) = open.quote /\ Emit("String", to, Inside)
    <3>1. to \in pos .. Len(input) /\ to \in pos + 1 .. Len(input) + 1
      BY <1>2, <1>3, <2>3
    <3> HIDE DEF to
    <3>2. to \in pos + 1 .. Len(input)
      BY <3>1
    <3> QED BY <1>4, <2>3, <3>2
  <2>4. CASE Fail(Min({to, Len(input)}))
    <3>1. Min({to, Len(input)}) \in pos .. Len(input)
      BY <1>3
    <3> QED BY <1>1, <2>4, <3>1, FailedHere
  <2> QED BY <2>1, <2>2, <2>3, <2>4
<1>8. CASE RawString
  <2> DEFINE stops == {BadRune, open.quote}
             to == StringTo(stops)
  <2>1. \/ At(to) = open.quote /\ Emit("String", to, Inside)
        \/ Fail(Min({to, Len(input)}))
    BY <1>8 DEF RawString
  <2> HIDE DEF stops
  <2>2. CASE At(to) = open.quote /\ Emit("String", to, Inside)
    <3>1. to \in pos .. Len(input) /\ to \in pos + 1 .. Len(input) + 1
      BY <1>2, <1>3, <2>2
    <3> HIDE DEF to
    <3>2. to \in pos + 1 .. Len(input)
      BY <3>1
    <3> QED BY <1>4, <2>2, <3>2
  <2>3. CASE Fail(Min({to, Len(input)}))
    <3>1. Min({to, Len(input)}) \in pos .. Len(input)
      BY <1>3
    <3> QED BY <1>1, <2>3, <3>1, FailedHere
  <2> QED BY <2>1, <2>2, <2>3
<1>9. CASE Escape
  <2> DEFINE c == At(pos + 1)
             code == EscapeOf(c)
             from == DigitsFrom(c)
             to == RunOver(from, code.digits)
  <2>1. CASE c # Eof /\ Move(pos + 1, "String")
    BY <1>5, <2>1, Reads
  <2>2. CASE Emit("Error", Accept(pos, {c} \ {Eof}), "String")
    <3>1. Accept(pos, {c} \ {Eof}) \in pos .. Len(input)
      BY AcceptIn DEF CursorOK
    <3> QED BY <1>6, <2>2, <3>1
  <2>3. CASE c \in Escapes.octal.digits \cup {"x", "u", "U"} /\ ReadCode(code, from)
    <3>1. code.n \in {2, 3, 4, 8}
      BY <2>3 DEF EscapeOf, Escapes
    <3>2. from \in pos .. Len(input)
      <4>1. PICK at \in {pos + 1, pos + 2} : from = Min({at, Len(input)})
        BY DEF DigitsFrom
      <4>2. Min({at, Len(input)}) = IF at <= Len(input) THEN at ELSE Len(input)
        BY <4>1 DEF Min
      <4> HIDE DEF from
      <4> QED BY <4>1, <4>2
    <3> HIDE DEF from, code
    <3>3. from \in 0 .. Len(input)
      BY <3>2
    <3>4. to \in from .. Len(input)
      BY <3>3, RunOverIn DEF CursorOK
    <3>5. \/ Emit("Error", to, "String")
          \/ /\ ~(to < from + code.n)
             /\ Emit("Error", from + code.n, "String") \/ Move(from + code.n, "String")
      BY <2>3 DEF ReadCode
    <3> HIDE DEF to
    <3>6. to \in pos .. Len(input)
      BY <3>2, <3>4
    <3>7. ~(to < from + code.n) => from + code.n \in pos .. Len(input)
      <4>1. code.n \in Nat
        BY <3>1
      <4> HIDE DEF c
      <4> QED BY <3>2, <3>4, <4>1
    <3>8. CASE Emit("Error", to, "String")
      BY <1>6, <3>6, <3>8
    <3>9. CASE ~(to < from + code.n) /\ Emit("Error", from + code.n, "String")
      BY <1>6, <3>7, <3>9
    <3>10. CASE ~(to < from + code.n) /\ Move(from + code.n, "String")
      BY <1>5, <3>7, <3>10
    <3> QED BY <3>5, <3>8, <3>9, <3>10
  <2> QED BY <1>9, <2>1, <2>2, <2>3 DEF Escape
<1> QED BY <1>7, <1>8, <1>9

\* The end of a word that is not empty.
LEMMA WordEnds ==
  ASSUME CursorOK, start = pos, NEW class, At(pos + 1) \in class, At(pos + 1) # Eof
  PROVE  RunOver(pos, class) \in pos .. Len(input) /\ start < RunOver(pos, class)
  BY RunOverIn, Positions DEF CursorOK

\* So has every step of the other state functions.
LEMMA OthersShape ==
  ASSUME CursorOK, Handed,
         Space \/ CommentAhead \/ LineComment \/ Identifier \/ KeywordOrIdentifier \/ NumberOrDuration
  PROVE  Shape
<1> USE Positions
<1>1. CASE Space
  <2> DEFINE to == RunOver(pos, Spaces)
             next == IF open.brace THEN "InsideBraces" ELSE IF open.bracket THEN "DurationExpr"
                     ELSE "Statements"
  <2>1. items' = items /\ pos' = to /\ start' = to /\ state' = next /\ state = "Space"
        /\ UNCHANGED <<input, open>>
    BY <1>1 DEF Space, Ignore
  <2>2. to \in pos .. Len(input) /\ Blank(pos, to)
    BY RunOverIn DEF CursorOK, Blank
  <2>3. Blank(start, pos)
    BY <2>1 DEF Handed, Blank
  <2>4. Blank(start, to)
    <3> HIDE DEF to
    <3> QED BY <2>2, <2>3 DEF Blank
  <2>5. Handed'
    BY <2>1 DEF Handed, Beginning, Quoted
  <2>6. pos' \in pos .. Len(input) /\ start' \in start .. pos' /\ Blank(start, start')
    <3> HIDE DEF to
    <3> QED BY <2>1, <2>2, <2>4
  <2>7. state # "End" /\ state' \in Beginning /\ Opens("Space") /\ open' \in Opening
    BY <2>1, QuietMove DEF CursorOK, Beginning
  <2> QED BY <2>1, <2>5, <2>6, <2>7, Passed
<1>2. CASE CommentAhead
  <2>1. state \in {"Statements", "InsideBraces"} /\ At(pos + 1) = "#" /\ Move(pos, "LineComment")
        /\ input' = input /\ UNCHANGED open
    BY <1>2 DEF CommentAhead
  <2>2. Handed'
    BY <2>1 DEF Handed, Beginning, Quoted, Move, At
  <2> QED BY <2>1, <2>2, MovedOn DEF Beginning
<1>3. CASE LineComment
  <2> DEFINE class == ToSet(input) \ LineEnds
             to == RunOver(pos, class)
  <2>1. state = "LineComment" /\ UNCHANGED <<input, open>> /\ Emit("Comment", to, "Statements")
    BY <1>3 DEF LineComment
  <2>2. start = pos /\ At(pos + 1) = "#" /\ "#" # Eof /\ "#" \notin LineEnds
    BY <2>1 DEF Handed, Beginning, Eof, LineEnds
  <2>3. "#" \in ToSet(input)
    BY <2>2, AtIs DEF CursorOK, ToSet
  <2>4. to \in pos .. Len(input) /\ start < to
    <3>1. At(pos + 1) \in class
      BY <2>2, <2>3
    <3> HIDE DEF class
    <3> QED BY <2>2, <3>1, WordEnds
  <2>5. "Comment" \in TokenTypes \ (Brackets \cup {Eof})
    BY DEF TokenTypes, Brackets, Eof
  <2> HIDE DEF to
  <2> QED BY <2>1, <2>4, <2>5, Token
<1>4. CASE Identifier
  <2> DEFINE to == RunOver(pos, Alphanumeric)
  <2>1. state = "Identifier" /\ UNCHANGED <<input, open>> /\ Emit("Identifier", to, "InsideBraces")
    BY <1>4 DEF Identifier
  <2>2. start = pos /\ At(pos + 1) \in Alphanumeric /\ At(pos + 1) # Eof /\ open.brace
    BY <2>1 DEF Handed, Beginning, Eof, Alphanumeric, Alpha
  <2>3. to \in pos .. Len(input) /\ start < to
    BY <2>2, WordEnds
  <2>4. "Identifier" \in TokenTypes \ (Brackets \cup {Eof})
    BY DEF TokenTypes, Brackets, Eof
  <2> HIDE DEF to
  <2> QED BY <2>1, <2>2, <2>3, <2>4, Token
<1>5. CASE KeywordOrIdentifier
  <2> DEFINE class == Alphanumeric \cup {":"}
             to == RunOver(pos, class)
  <2>1. PICK typ \in {"Identifier", "Keyword", "MetricIdentifier"} : Emit(typ, to, "Statements")
    BY <1>5 DEF KeywordOrIdentifier
  <2>2. state = "KeywordOrIdentifier" /\ UNCHANGED <<input, open>>
    BY <1>5 DEF KeywordOrIdentifier
  <2>3. start = pos /\ At(pos + 1) \in class /\ At(pos + 1) # Eof
    BY <2>2 DEF Handed, Beginning, Eof, Alphanumeric, Alpha
  <2>4. to \in pos .. Len(input) /\ start < to
    <3> HIDE DEF class
    <3> QED BY <2>3, WordEnds
  <2>5. typ \in TokenTypes \ (Brackets \cup {Eof})
    BY DEF TokenTypes, Brackets, Eof
  <2> HIDE DEF to
  <2> QED BY <2>1, <2>2, <2>4, <2>5, Token
<1>6. CASE NumberOrDuration
  <2> DEFINE number == ScanNumber(pos)
             duration == ScanDuration(number.to)
  <2>1. \/ number.ok /\ Emit("Number", number.to, "Statements")
        \/ duration.ok /\ Emit("Duration", duration.to, "Statements")
        \/ Fail(duration.to)
    BY <1>6 DEF NumberOrDuration
  <2>2. state = "NumberOrDuration" /\ UNCHANGED <<input, open>> /\ start = pos
    BY <1>6 DEF NumberOrDuration, Handed, Beginning
  <2>3. pos \in 0 .. Len(input)
    OBVIOUS
  <2>4. number.to \in pos .. Len(input) /\ (number.ok => pos < number.to)
    BY <2>3, ScanNumberIn
  <2> HIDE DEF number
  <2>5. number.to \in 0 .. Len(input)
    BY <2>4
  <2>6. duration.to \in number.to .. Len(input) /\ (duration.ok => number.to < duration.to)
    BY <2>5, ScanDurationIn
  <2> HIDE DEF duration
  <2>7. duration.to \in pos .. Len(input) /\ (duration.ok => pos < duration.to)
    BY <2>4, <2>6
  <2>8. {"Number", "Duration"} \subseteq TokenTypes \ (Brackets \cup {Eof})
    BY DEF TokenTypes, Brackets, Eof
  <2>9. CASE number.ok /\ Emit("Number", number.to, "Statements")
    BY <2>2, <2>4, <2>8, <2>9, Token
  <2>10. CASE duration.ok /\ Emit("Duration", duration.to, "Statements")
    BY <2>2, <2>7, <2>8, <2>10, Token
  <2>11. CASE Fail(duration.to)
    BY <2>2, <2>7, <2>11, FailedHere
  <2> QED BY <2>1, <2>9, <2>10, <2>11
<1> QED BY <1>1, <1>2, <1>3, <1>4, <1>5, <1>6

\* Every step of the tokenizer leaves the cursor in the input, and is one of three.
LEMMA StepShape ==
  ASSUME CursorOK, Handed, Next
  PROVE  Shape
<1>1. CASE LexStatements
  BY <1>1, StatementsShape
<1>2. CASE LexInsideBraces
  BY <1>2, BracesShape
<1>3. CASE LexDurationExpr
  BY <1>3, DurationShape
<1>4. CASE Space \/ CommentAhead \/ LineComment \/ Identifier \/ KeywordOrIdentifier
           \/ NumberOrDuration
  BY <1>4, OthersShape
<1>5. CASE String \/ RawString \/ Escape
  BY <1>5, StringsShape
<1> QED BY <1>1, <1>2, <1>3, <1>4, <1>5 DEF Next

\* The invariant holds at first, and wherever nothing of the tokenizer changes.
LEMMA InitCursor ==
  Init => CursorOK /\ Handed
<1> SUFFICES ASSUME Init PROVE CursorOK /\ Handed
  OBVIOUS
<1>1. input \in Seq(Char) /\ Len(input) \in Nat
  BY InputsAssumption DEF Init
<1>2. open \in Opening /\ items \in Seq(Item)
  BY DEF Init, Opening
<1> QED BY <1>1, <1>2 DEF Init, CursorOK, Handed, Beginning, Quoted

\* Where a step has a shape, the next state function is handed what it needs.
LEMMA CursorStep ==
  CursorOK /\ Handed /\ [Next]_vars => CursorOK' /\ Handed'
<1> SUFFICES ASSUME CursorOK, Handed, [Next]_vars PROVE CursorOK' /\ Handed'
  OBVIOUS
<1>1. CASE Next
  BY <1>1, StepShape DEF Shape
<1>2. CASE UNCHANGED vars
  BY <1>2 DEF vars, CursorOK, Handed, At
<1> QED BY <1>1, <1>2

-----------------------------------------------------------------------------
(***************************************************************************)
(* The tokens tile what was read.                                          *)
(***************************************************************************)
End(n) == IF n = 0 THEN 0 ELSE items[n].to

\* The end of the input is emitted last of all.
EndIsLast == ~Failed /\ state # "End" => \A n \in DOMAIN items : items[n].typ # Eof

\* Spaces after spaces are spaces.
LEMMA BlankJoins ==
  ASSUME NEW a \in Int, NEW b \in Int, NEW c \in Int, Blank(a, b), Blank(b, c)
  PROVE  Blank(a, c)
  BY DEF Blank

\* A step of any shape leaves the tokens tiling what was read: what it emits begins where
\* the last token ended, but for spaces, and an end of the input is nothing's predecessor.
LEMMA TileStep ==
  ASSUME CursorOK, Handed, Shape, EndIsLast, TokensTile
  PROVE  EndIsLast' /\ TokensTile'
<1> USE Positions
<1>1. state # "End" /\ input' = input /\ CursorOK' /\ DOMAIN items = 1 .. Len(items)
      /\ Len(items) \in Nat
  BY DEF Shape, CursorOK
<1>2. CASE Failing
  BY <1>2 DEF Failing, Failed, EndIsLast, TokensTile
<1>3. CASE Passing /\ ~Failed
  <2>1. items' = items /\ start <= start' /\ Blank(start, start') /\ state' # "End"
    BY <1>3 DEF Passing
  <2>2. /\ \A n \in DOMAIN items :
             /\ End(n - 1) <= items[n].from /\ Blank(End(n - 1), items[n].from)
             /\ items[n].from < items[n].to \/ (items[n].typ = Eof /\ n = Len(items))
        /\ End(Len(items)) <= start /\ start <= pos /\ Blank(End(Len(items)), start)
    BY <1>3 DEF TokensTile, End, Blank
  <2>3. End(Len(items)) \in Int /\ start' \in Int /\ start' <= pos'
    <3>1. \A n \in DOMAIN items : items[n].to \in Nat
      <4>1. \A n \in DOMAIN items : items[n] \in Item
        BY <1>1 DEF CursorOK
      <4> QED BY <4>1 DEF Item
    <3>2. start' \in Int /\ start' <= pos'
      BY <1>1 DEF CursorOK
    <3> QED BY <1>1, <3>1, <3>2 DEF End
  <2>4. End(Len(items)) <= start' /\ Blank(End(Len(items)), start')
    BY <2>1, <2>2, <2>3, BlankJoins
  <2>5. EndIsLast'
    BY <1>1, <1>3, <2>1 DEF EndIsLast
  <2>6. TokensTile'
    BY <1>1, <2>1, <2>2, <2>3, <2>4 DEF TokensTile, End, Blank
  <2> QED BY <2>5, <2>6
<1>4. CASE Emitting /\ ~Failed
  <2>1. PICK typ \in TokenTypes, to \in start .. Len(input) :
          /\ items' = Append(items, [typ |-> typ, from |-> start, to |-> to])
          /\ start' >= to /\ Blank(to, start')
          /\ IF typ = Eof THEN state' = "End" /\ start' = Len(input)
             ELSE state' # "End" /\ start < to
    BY <1>4 DEF Emitting
  <2> DEFINE token == [typ |-> typ, from |-> start, to |-> to]
             L == Len(items)
  <2>2. token \in Item /\ to \in Nat
    BY <2>1 DEF Item
  <2>3. /\ Len(items') = L + 1 /\ DOMAIN items' = 1 .. L + 1
        /\ \A n \in 1 .. L : items'[n] = items[n]
        /\ items'[L + 1] = token
    BY <1>1, <2>1, <2>2 DEF CursorOK
  <2>4. token.typ = typ /\ token.from = start /\ token.to = to
    OBVIOUS
  <2> HIDE DEF token
  <2>5. /\ \A n \in 1 .. L :
             /\ End(n - 1) <= items[n].from /\ Blank(End(n - 1), items[n].from)
             /\ items[n].from < items[n].to
        /\ End(L) <= start /\ Blank(End(L), start)
        /\ \A n \in 1 .. L : items[n].typ # Eof
    BY <1>1, <1>4 DEF TokensTile, End, Blank, EndIsLast
  <2>6. \A n \in 0 .. L : End(n)' = End(n)
    BY <1>1, <2>3 DEF End
  <2>7. End(Len(items))' = to
    BY <1>1, <2>3, <2>4 DEF End
  <2>8. EndIsLast'
    BY <1>1, <2>1, <2>3, <2>4, <2>5 DEF EndIsLast
  <2>9. ASSUME NEW n \in 1 .. L + 1
        PROVE  /\ (End(n - 1) <= items[n].from)' /\ Blank(End(n - 1), items[n].from)'
               /\ (items[n].from < items[n].to \/ (items[n].typ = Eof /\ n = Len(items)))'
    <3>1. CASE n \in 1 .. L
      <4>1. n - 1 \in 0 .. L /\ items'[n] = items[n] /\ End(n - 1)' = End(n - 1)
        BY <1>1, <2>3, <2>6, <3>1
      <4> QED BY <1>1, <2>5, <3>1, <4>1 DEF Blank
    <3>2. CASE n = L + 1
      <4>1. End(n - 1)' = End(L) /\ items'[n] = token
        BY <1>1, <2>3, <2>6, <3>2
      <4>2. start < to \/ typ = Eof
        BY <2>1
      <4> QED BY <1>1, <2>3, <2>4, <2>5, <3>2, <4>1, <4>2 DEF Blank
    <3> QED BY <2>9, <3>1, <3>2
  <2>10. /\ (End(Len(items)) <= start)' /\ (start <= pos)' /\ Blank(End(Len(items)), start)'
         /\ state' = "End" => items'[L + 1].typ = Eof /\ start' = Len(input)
    <3>1. start' <= pos'
      BY <1>1 DEF CursorOK
    <3>2. (End(Len(items)) <= start)' /\ Blank(End(Len(items)), start)'
      BY <1>1, <2>1, <2>7 DEF Blank
    <3>3. state' = "End" => items'[L + 1].typ = Eof /\ start' = Len(input)
      BY <2>1, <2>3, <2>4
    <3> QED BY <3>1, <3>2, <3>3
  <2>11. TokensTile'
    BY <1>1, <2>3, <2>9, <2>10 DEF TokensTile, End, Blank, Last
  <2> QED BY <2>8, <2>11
<1>5. CASE (Passing \/ Emitting) /\ Failed
  <2>1. Failed'
    <3>1. PICK n \in DOMAIN items : items[n].typ = "Error"
      BY <1>5 DEF Failed
    <3>2. n \in DOMAIN items' /\ items'[n] = items[n]
      <4>1. CASE Passing
        BY <4>1 DEF Passing
      <4>2. CASE Emitting
        <5>1. PICK typ \in TokenTypes, to \in start .. Len(input) :
                items' = Append(items, [typ |-> typ, from |-> start, to |-> to])
          BY <4>2 DEF Emitting
        <5>2. [typ |-> typ, from |-> start, to |-> to] \in Item
          BY DEF Item
        <5> QED BY <1>1, <5>1, <5>2 DEF CursorOK
      <4> QED BY <1>5, <4>1, <4>2
    <3> QED BY <3>1, <3>2 DEF Failed
  <2> QED BY <2>1 DEF EndIsLast, TokensTile
<1> QED BY <1>2, <1>3, <1>4, <1>5 DEF Shape

-----------------------------------------------------------------------------
(***************************************************************************)
(* What is accepted is balanced.                                           *)
(***************************************************************************)
\* The tokens of a type among the first n.
CountIn(s, typ, n) == Cardinality({m \in 1 .. n : s[m].typ = typ})

\* How a count goes on by one token.
LEMMA CountNext ==
  ASSUME NEW s \in Seq(Item), NEW typ, NEW n \in 0 .. Len(s)
  PROVE  /\ CountIn(s, typ, n) \in Nat /\ CountIn(s, typ, 0) = 0
         /\ n < Len(s) => CountIn(s, typ, n + 1) =
                            IF s[n + 1].typ = typ THEN CountIn(s, typ, n) + 1 ELSE CountIn(s, typ, n)
<1> DEFINE S(k) == {m \in 1 .. k : s[m].typ = typ}
<1>1. \A k \in Nat : IsFiniteSet(S(k)) /\ CountIn(s, typ, k) = Cardinality(S(k))
                     /\ Cardinality(S(k)) \in Nat
  <2> TAKE k \in Nat
  <2>1. IsFiniteSet(1 .. k)
    BY FS_Interval
  <2>2. S(k) \in SUBSET (1 .. k) /\ CountIn(s, typ, k) = Cardinality(S(k))
    BY DEF CountIn
  <2> HIDE DEF S
  <2>3. IsFiniteSet(S(k))
    BY <2>1, <2>2, FS_Subset
  <2> QED BY <2>2, <2>3, FS_CardinalityType
<1>2. n \in Nat /\ n + 1 \in Nat /\ S(0) = {}
  OBVIOUS
<1>3. s[n + 1].typ = typ => S(n + 1) = S(n) \cup {n + 1} /\ n + 1 \notin S(n)
  OBVIOUS
<1>4. s[n + 1].typ # typ => S(n + 1) = S(n)
  OBVIOUS
<1> HIDE DEF S
<1>5. CountIn(s, typ, 0) = 0
  BY <1>1, <1>2, FS_EmptySet
<1>6. s[n + 1].typ = typ => Cardinality(S(n + 1)) = Cardinality(S(n)) + 1
  BY <1>1, <1>2, <1>3, FS_AddElement
<1> QED BY <1>1, <1>2, <1>4, <1>5, <1>6

\* They are the same for a sequence that goes on.
LEMMA CountKept ==
  ASSUME NEW s, NEW t, NEW k \in Nat, \A m \in 1 .. k : s[m] = t[m], NEW typ
  PROVE  \A n \in 0 .. k : CountIn(s, typ, n) = CountIn(t, typ, n)
<1> TAKE n \in 0 .. k
<1>1. {m \in 1 .. n : s[m].typ = typ} = {m \in 1 .. n : t[m].typ = typ}
  OBVIOUS
<1> QED BY <1>1 DEF CountIn

\* What is open at a place, and what the lexer thinks is.
Depth(s, n) ==
  /\ CountIn(s, "(", n) >= CountIn(s, ")", n)
  /\ CountIn(s, "{", n) - CountIn(s, "}", n) \in {0, 1}
  /\ CountIn(s, "[", n) - CountIn(s, "]", n) \in {0, 1}

Tracked(s, n, held) ==
  /\ held.parens = CountIn(s, "(", n) - CountIn(s, ")", n)
  /\ held.brace <=> CountIn(s, "{", n) > CountIn(s, "}", n)
  /\ held.bracket <=> CountIn(s, "[", n) > CountIn(s, "]", n)

\* A step of any shape leaves open what its tokens opened: Opens says of every token what it
\* does to the lexer's own account, CountNext what it does to the count.
LEMMA BalanceStep ==
  ASSUME CursorOK, Shape, AcceptedIsBalanced
  PROVE  AcceptedIsBalanced'
<1>1. /\ state # "End" /\ items \in Seq(Item) /\ Len(items) \in Nat /\ DOMAIN items = 1 .. Len(items)
      /\ items' \in Seq(Item) /\ open \in Opening /\ open' \in Opening
  BY DEF Shape, CursorOK
<1>2. CASE Failing
  BY <1>2 DEF Failing, Failed, AcceptedIsBalanced
<1>3. CASE Passing
  <2>1. items' = items /\ state' # "End" /\ open'.parens = open.parens
        /\ (open'.brace <=> open.brace) /\ (open'.bracket <=> open.bracket)
    BY <1>3 DEF Passing, Opens
  <2>2. \A typ, n : Count(typ, n)' = Count(typ, n)
    BY <2>1 DEF Count
  <2>3. Failed' <=> Failed
    BY <2>1 DEF Failed
  <2> QED BY <2>1, <2>2, <2>3 DEF AcceptedIsBalanced
<1>4. CASE Emitting
  <2>1. PICK typ \in TokenTypes, to \in start .. Len(input) :
          /\ items' = Append(items, [typ |-> typ, from |-> start, to |-> to])
          /\ Opens(typ) /\ (typ # Eof => state' # "End")
    BY <1>4 DEF Emitting
  <2> DEFINE token == [typ |-> typ, from |-> start, to |-> to]
             L == Len(items)
  <2>2. token \in Item /\ token.typ = typ
    BY Positions DEF Item
  <2> HIDE DEF token
  <2>3. /\ Len(items') = L + 1 /\ DOMAIN items' = 1 .. L + 1
        /\ \A n \in 1 .. L : items'[n] = items[n]
        /\ items'[L + 1].typ = typ
    BY <1>1, <2>1, <2>2 DEF token
  <2>4. Failed => Failed'
    BY <1>1, <2>3 DEF Failed
  <2>5. SUFFICES ASSUME ~Failed
        PROVE  /\ \A n \in 0 .. L + 1 : Depth(items', n)
               /\ Tracked(items', L + 1, open')
               /\ state' = "End" => open'.parens = 0 /\ ~open'.brace /\ ~open'.bracket
    BY <2>3, <2>4 DEF AcceptedIsBalanced, Depth, Tracked, Count, CountIn
  <2>6. (\A n \in 0 .. L : Depth(items, n)) /\ Tracked(items, L, open)
    BY <2>5 DEF AcceptedIsBalanced, Depth, Tracked, Count, CountIn
  <2>7. L \in Nat /\ L \in 0 .. L /\ L + 1 \in Nat
        /\ \A t : \A n \in 0 .. L : CountIn(items', t, n) = CountIn(items, t, n)
    <3>1. L \in Nat /\ L \in 0 .. L /\ L + 1 \in Nat
      BY <1>1
    <3>2. \A m \in 1 .. L : items'[m] = items[m]
      BY <2>3
    <3> HIDE DEF L
    <3>3. \A t : \A n \in 0 .. L : CountIn(items', t, n) = CountIn(items, t, n)
      BY <3>1, <3>2, CountKept
    <3> QED BY <3>1, <3>3
  <2>8. \A n \in 0 .. L : Depth(items', n)
    BY <2>6, <2>7 DEF Depth
  <2>9. \A t : /\ CountIn(items, t, L) \in Nat
              /\ CountIn(items', t, L + 1) =
                   IF t = typ THEN CountIn(items, t, L) + 1 ELSE CountIn(items, t, L)
    <3> TAKE t
    <3>1. CountIn(items', t, L) = CountIn(items, t, L)
      BY <2>7
    <3>2. L \in 0 .. Len(items') /\ L < Len(items')
      BY <1>1, <2>3
    <3>3. CountIn(items', t, L) \in Nat
          /\ CountIn(items', t, L + 1) =
               IF items'[L + 1].typ = t THEN CountIn(items', t, L) + 1 ELSE CountIn(items', t, L)
      BY <1>1, <3>2, CountNext
    <3> QED BY <2>3, <3>1, <3>3
  <2> DEFINE Now(t) == CountIn(items, t, L)
             Then(t) == CountIn(items', t, L + 1)
  <2>10. \A t : Now(t) \in Nat /\ Then(t) = IF t = typ THEN Now(t) + 1 ELSE Now(t)
    BY <2>9
  <2>11. Depth(items, L)
    BY <2>6, <2>7
  <2>12. /\ Now("(") >= Now(")") /\ Now("{") - Now("}") \in {0, 1} /\ Now("[") - Now("]") \in {0, 1}
         /\ open.parens = Now("(") - Now(")") /\ (open.brace <=> Now("{") > Now("}"))
         /\ (open.bracket <=> Now("[") > Now("]"))
    BY <2>6, <2>11 DEF Depth, Tracked
  <2>13. \A n \in 0 .. L + 1 : n \in 0 .. L \/ n = L + 1
    BY <2>7
  <2>14. state' = "End" => open'.parens = 0 /\ ~open'.brace /\ ~open'.bracket
    <3>1. state' = "End" => typ = Eof
      BY <2>1
    <3> QED BY <2>1, <3>1 DEF Opens, Eof
  <2> HIDE DEF Now, Then
  <2>15. \A opens, closes : opens # closes =>
           /\ Now(opens) >= Now(closes) /\ (typ = closes => Now(opens) - Now(closes) # 0) =>
                /\ Then(opens) >= Then(closes)
                /\ Then(opens) - Then(closes) =
                     IF typ = opens THEN (Now(opens) - Now(closes)) + 1
                     ELSE IF typ = closes THEN (Now(opens) - Now(closes)) - 1
                     ELSE Now(opens) - Now(closes)
           /\ /\ Now(opens) - Now(closes) \in {0, 1}
              /\ typ = opens => ~(Now(opens) > Now(closes))
              /\ typ = closes => Now(opens) > Now(closes)
              => /\ Then(opens) - Then(closes) \in {0, 1}
                 /\ Then(opens) > Then(closes)
                      <=> (typ = opens \/ (Now(opens) > Now(closes) /\ typ # closes))
    <3> TAKE opens, closes
    <3>1. /\ Now(opens) \in Nat /\ Now(closes) \in Nat
          /\ Then(opens) = IF typ = opens THEN Now(opens) + 1 ELSE Now(opens)
          /\ Then(closes) = IF typ = closes THEN Now(closes) + 1 ELSE Now(closes)
      BY <2>10
    <3> QED BY <3>1
  <2>16. open'.parens = Then("(") - Then(")") /\ Then("(") >= Then(")")
    <3>1. typ = ")" => Now("(") - Now(")") # 0
      BY <2>1, <2>12 DEF Opens
    <3>2. /\ Then("(") >= Then(")")
          /\ Then("(") - Then(")") = IF typ = "(" THEN (Now("(") - Now(")")) + 1
                                     ELSE IF typ = ")" THEN (Now("(") - Now(")")) - 1
                                     ELSE Now("(") - Now(")")
      BY <2>12, <2>15, <3>1
    <3> QED BY <2>1, <2>12, <3>2 DEF Opens
  <2>17. Then("{") - Then("}") \in {0, 1} /\ (open'.brace <=> Then("{") > Then("}"))
    <3>1. (typ = "{" => ~(Now("{") > Now("}"))) /\ (typ = "}" => Now("{") > Now("}"))
      BY <2>1, <2>12 DEF Opens
    <3>2. /\ Then("{") - Then("}") \in {0, 1}
          /\ Then("{") > Then("}") <=> (typ = "{" \/ (Now("{") > Now("}") /\ typ # "}"))
      BY <2>12, <2>15, <3>1
    <3> QED BY <2>1, <2>12, <3>2 DEF Opens
  <2>18. Then("[") - Then("]") \in {0, 1} /\ (open'.bracket <=> Then("[") > Then("]"))
    <3>1. (typ = "[" => ~(Now("[") > Now("]"))) /\ (typ = "]" => Now("[") > Now("]"))
      BY <2>1, <2>12 DEF Opens
    <3>2. /\ Then("[") - Then("]") \in {0, 1}
          /\ Then("[") > Then("]") <=> (typ = "[" \/ (Now("[") > Now("]") /\ typ # "]"))
      BY <2>12, <2>15, <3>1
    <3> QED BY <2>1, <2>12, <3>2 DEF Opens
  <2>19. Depth(items', L + 1) /\ Tracked(items', L + 1, open')
    BY <2>16, <2>17, <2>18 DEF Depth, Tracked, Now, Then
  <2> QED BY <2>8, <2>13, <2>14, <2>19
<1> QED BY <1>2, <1>3, <1>4 DEF Shape
-----------------------------------------------------------------------------
(***************************************************************************)
(* The theorems. Reading the literals leaves the tokenizer's state alone.  *)
(***************************************************************************)
\* The inductive invariant: TokensTile and AcceptedIsBalanced say nothing of where a
\* state function begins, on which what it emits depends.
IInv == CursorOK /\ Handed /\ EndIsLast /\ TokensTile /\ AcceptedIsBalanced

\* Nothing is emitted and nothing open where the tokenizer begins (Lexer::new).
LEMMA InitIInv ==
  ReadInit => IInv
<1> SUFFICES ASSUME ReadInit PROVE IInv
  OBVIOUS
<1>1. CursorOK /\ Handed
  BY InitCursor DEF ReadInit
<1>2. /\ items = <<>> /\ start = 0 /\ pos = 0 /\ state = "Statements"
      /\ open.parens = 0 /\ open.brace = FALSE /\ open.bracket = FALSE
  BY DEF ReadInit, Init
<1>3. Len(items) = 0 /\ DOMAIN items = {}
  BY <1>2
<1>4. EndIsLast /\ TokensTile
  BY <1>2, <1>3 DEF EndIsLast, TokensTile
<1>5. \A typ : Count(typ, 0) = 0
  <2> TAKE typ
  <2>1. {m \in 1 .. 0 : items[m].typ = typ} = {}
    OBVIOUS
  <2> QED BY <2>1, FS_EmptySet DEF Count
<1>6. AcceptedIsBalanced
  <2>1. Count("(", 0) = 0 /\ Count(")", 0) = 0 /\ Count("{", 0) = 0 /\ Count("}", 0) = 0
        /\ Count("[", 0) = 0 /\ Count("]", 0) = 0
    BY <1>5
  <2> DEFINE even(a, b) == a >= b /\ a - b \in {0, 1} /\ a - b = 0 /\ ~(a > b)
  <2>2. even(0, 0)
    OBVIOUS
  <2>3. \A n \in 0 .. Len(items) : n = 0
    BY <1>3
  <2> HIDE DEF even
  <2>4. even(Count("(", 0), Count(")", 0)) /\ even(Count("{", 0), Count("}", 0))
        /\ even(Count("[", 0), Count("]", 0))
    BY <2>1, <2>2
  <2> QED BY <1>2, <1>3, <2>3, <2>4 DEF AcceptedIsBalanced, even
<1> QED BY <1>1, <1>4, <1>6 DEF IInv

\* It is kept by every step (run, and the state functions it runs).
LEMMA StepIInv ==
  IInv /\ [ReadNext]_<<vars, literals>> => IInv'
<1> SUFFICES ASSUME IInv, [ReadNext]_<<vars, literals>> PROVE IInv'
  OBVIOUS
<1>1. CASE Next
  BY <1>1, StepShape, TileStep, BalanceStep DEF IInv, Shape
<1>2. CASE UNCHANGED vars
  <2>1. CursorOK' /\ Handed'
    BY <1>2, CursorStep DEF IInv
  <2>2. items' = items /\ state' = state /\ start' = start /\ pos' = pos /\ input' = input
        /\ open' = open
    BY <1>2 DEF vars
  <2>3. (Failed' <=> Failed) /\ \A typ, n : Count(typ, n)' = Count(typ, n)
    BY <2>2 DEF Failed, Count
  <2>4. EndIsLast' /\ TokensTile'
    BY <2>2, <2>3 DEF IInv, EndIsLast, TokensTile
  <2>5. AcceptedIsBalanced'
    BY <2>2, <2>3 DEF IInv, AcceptedIsBalanced
  <2> QED BY <2>1, <2>4, <2>5 DEF IInv
<1> QED BY <1>1, <1>2 DEF ReadNext, ReadLiteral

\* The inductive invariant holds in every behaviour.
THEOREM LexerInvariance == ReadSpec => []IInv
BY InitIInv, StepIInv, PTL DEF ReadSpec

\* For every input and every table of keywords the cursor stays inside the input, every
\* token is of a known type, and every state function begins where it may: after what was
\* emitted, and before the character it was handed over for (the state functions and the
\* cursor of lexer.rs).
THEOREM CursorStaysInside == ReadSpec => [](CursorOK /\ Handed)
<1>1. IInv => CursorOK /\ Handed
  BY DEF IInv
<1> QED BY <1>1, LexerInvariance, PTL

\* For every input, nothing is lost and nothing read twice: until an error the tokens lie
\* in the input one after another with nothing but spaces between them, and where the
\* tokenizer stops it has read all of it (emit, ignore, accept and accept_run).
THEOREM TokensTileAlways == ReadSpec => []TokensTile
<1>1. IInv => TokensTile
  BY DEF IInv
<1> QED BY <1>1, LexerInvariance, PTL

\* For every input, what the lexer thinks is open is what its tokens opened, and what it
\* accepts closes all of it (paren_depth, brace_open and bracket_open).
THEOREM AcceptedBalances == ReadSpec => []AcceptedIsBalanced
<1>1. IInv => AcceptedIsBalanced
  BY DEF IInv
<1> QED BY <1>1, LexerInvariance, PTL

-----------------------------------------------------------------------------
(***************************************************************************)
(* The arithmetic, for every length of the units and every bound: the two  *)
(* checks of the accumulator keep its word from wrapping, and a duration   *)
(* of whole milliseconds survives its conversions.                         *)
(***************************************************************************)
\* The bound on the factor is the bound on the product: checked before it is taken.
LEMMA ProductIsBounded ==
  ASSUME NEW half \in Nat, NEW size \in Nat \ {0}, NEW number \in Nat
  PROVE  /\ number <= half \div size => number * size <= half
         /\ number > half \div size => number * size > half
  <1> DEFINE q == half \div size
  <1>1. q \in Nat /\ q * size <= half /\ half < (q + 1) * size
    <2>1. q \in Int /\ half = size * q + (half % size) /\ half % size \in 0 .. size - 1
      BY SMT
    <2> QED BY <2>1, SMT
  <1>2. ASSUME number <= q PROVE number * size <= half
    <2>1. PICK d \in Nat : q = number + d
      <3>1. q - number \in Nat /\ q = number + (q - number) BY <1>1, <1>2
      <3> QED BY <3>1
    <2>2. q * size = number * size + d * size BY <2>1, <1>1, SMT
    <2>3. d * size >= 0 /\ number * size \in Nat BY <2>1, SMT
    <2> HIDE DEF q
    <2> QED BY <2>2, <2>3, <1>1, SMT
  <1>3. ASSUME number > q PROVE number * size > half
    <2>1. PICK d \in Nat : number = (q + 1) + d
      <3>1. number - (q + 1) \in Nat /\ number = (q + 1) + (number - (q + 1)) BY <1>1, <1>3
      <3> QED BY <3>1
    <2>2. number * size = (q + 1) * size + d * size BY <2>1, <1>1, SMT
    <2>3. d * size >= 0 /\ (q + 1) * size \in Nat BY <2>1, <1>1, SMT
    <2> HIDE DEF q
    <2> QED BY <2>2, <2>3, <1>1, SMT
  <1> QED BY <1>2, <1>3

LEMMA SmallIsItself ==
  ASSUME NEW n \in Nat, NEW m \in Nat, n < m
  PROVE  n % m = n
  BY SMT

\* Adding a number with its unit to a duration gives their exact sum, or is refused where
\* that is no duration: whatever the number, neither the product nor the sum ever wraps the
\* word they are taken in.
THEOREM AccumulateIsExact ==
  ASSUME NEW total \in 0 .. MaxNanos, NEW number \in Nat, NEW size \in Nat \ {0}
  PROVE  Accumulate(total, number, size) =
           IF total + number * size <= MaxNanos THEN Duration(total + number * size)
           ELSE Refused("out of range")
  <1> DEFINE product == number * size
  <1>1. MaxNanos \in Nat /\ product \in Nat BY SizesAssumption, SMT
  <1>2. CASE number > Half \div size
    <2>1. Half \in Nat BY <1>1 DEF Half
    <2>2. product > Half BY <2>1, <1>2, ProductIsBounded
    <2>3. ~(total + product <= MaxNanos) BY <2>2, <1>1 DEF Half
    <2> QED BY <2>3, <1>2 DEF Accumulate
  <1>3. CASE ~(number > Half \div size)
    <2>1. Half \in Nat /\ Half \div size \in Int BY <1>1, SMT DEF Half
    <2>2. product <= Half BY <1>1, <1>3, <2>1, ProductIsBounded
    <2> HIDE DEF product
    <2>3. product % Word = product BY <2>2, <1>1, SmallIsItself DEF Half, Word
    <2>4. (total + product) % Word = total + product
      <3>1. total + product \in Nat /\ Word \in Nat /\ total + product < Word
        BY <2>2, <1>1 DEF Half, Word
      <3> QED BY <3>1, SmallIsItself
    <2>5. Accumulate(total, number, size) =
            IF total + product > Half - 1 THEN Refused("out of range") ELSE Duration(total + product)
      BY <2>3, <2>4, <1>3 DEF Accumulate, product
    <2>6. (total + product > Half - 1) <=> ~(total + product <= MaxNanos)
      BY <1>1 DEF Half
    <2>7. Accumulate(total, number, size) =
            IF total + product <= MaxNanos THEN Duration(total + product) ELSE Refused("out of range")
      BY <2>5, <2>6, Zenon
    <2> QED BY <2>7, Zenon DEF product
  <1> QED BY <1>2, <1>3

\* A count of milliseconds that is a duration at all comes back from it unchanged, on
\* either side of zero.
THEOREM MillisSurvive ==
  ASSUME NEW ms \in Int, IsDuration(FromMillis(ms))
  PROVE  AsMillis(FromMillis(ms).nanos) = ms
  <1>1. Ms \in Nat \ {0} BY SizesAssumption DEF Ms
  <1>2. FromMillis(ms).nanos = ms * Ms
    BY <1>1 DEF FromMillis, FromNanos, Duration, Refused, IsDuration
  <1> HIDE DEF Ms
  <1>3. \A n \in Nat : (n * Ms) \div Ms = n BY <1>1, SMT
  <1>4. CASE ms >= 0
    <2>1. ~(ms * Ms < 0) BY <1>1, <1>4, SMT
    <2>2. (ms * Ms) \div Ms = ms BY <1>3, <1>4
    <2> QED BY <1>2, <2>1, <2>2 DEF AsMillis, Truncated
  <1>5. CASE ms < 0
    <2>1. ms * Ms < 0 BY <1>1, <1>5, SMT
    <2>2. -(ms * Ms) = (-ms) * Ms BY <1>1, SMT
    <2>3. (-(ms * Ms)) \div Ms = -ms BY <1>3, <1>5, <2>2
    <2>4. -(-ms) = ms OBVIOUS
    <2> QED BY <1>2, <2>1, <2>3, <2>4 DEF AsMillis, Truncated
  <1> QED BY <1>4, <1>5
=============================================================================
