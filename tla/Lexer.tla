------------------------------- MODULE Lexer -------------------------------
(***************************************************************************)
(* The standalone tokenizer (promql-parser/src/lexer.rs): state functions  *)
(* over a cursor, which emit the input between the last token's end and    *)
(* the cursor as the next token.                                           *)
(*                                                                         *)
(* The input is a sequence of characters; a letter stands for its two      *)
(* cases, except in the escapes \u and \U. A token is its type and the     *)
(* places it stretches over: a token of punctuation has its characters for *)
(* a type, and a keyword is a "Keyword".                                   *)
(***************************************************************************)
EXTENDS Integers, Sequences, FiniteSets, SequencesExt, Durations

CONSTANTS
  Inputs,      \* what to tokenize
  Keywords,    \* the words of the keyword table
  FillWords    \* those that are keywords before a parenthesis only

VARIABLES
  input,
  pos,      \* the characters read
  start,    \* the characters of the tokens emitted, and of what is ignored
  state,    \* the state function to run next, "End" for none
  items,    \* the tokens emitted, the errors among them
  open      \* the parenthesis depth, and what is open or was seen in brackets

vars == <<input, pos, start, state, items, open>>

Eof == "Eof"

\* A character, or what stands for one, is not what peek answers at the end.
Char == STRING \ {Eof}
ASSUME InputsAssumption == Inputs \subseteq Seq(Char)

BadRune == "a rune that is not UTF-8"
Backtick == "backtick"
Quotes == {"'", "\"", Backtick}
Spaces == {" ", "\t", "\n", "\r"}
LineEnds == {"\n", "\r"}
HexDigits == <<"0", "1", "2", "3", "4", "5", "6", "7", "8", "9", "a", "b", "c", "d", "e", "f">>
Decimal == ToSet(SubSeq(HexDigits, 1, 10))
Hex == ToSet(HexDigits)
Alpha == {"a", "b", "c", "d", "e", "f", "g", "h", "i", "l", "m", "n", "p", "r", "s", "t", "u", "U",
          "v", "w", "x", "y", "_"}
Alphanumeric == Alpha \cup Decimal
Units == {"s", "m", "h", "d", "w", "y"}
Punctuation == {",", "*", "/", "%", "+", "-", "^", "@"}

-----------------------------------------------------------------------------
(***************************************************************************)
(* The cursor.                                                             *)
(***************************************************************************)
At(p) == IF p \in DOMAIN input THEN input[p] ELSE Eof

\* Where the cursor stops when it runs over characters of a class from p on.
RunOver(p, class) == Max({q \in p .. Len(input) : \A k \in p + 1 .. q : input[k] \in class})

\* One more character if it is of the class.
Accept(p, class) == IF At(p + 1) \in class THEN p + 1 ELSE p

Emit(typ, to, next) ==
  /\ items' = Append(items, [typ |-> typ, from |-> start, to |-> to])
  /\ pos' = to /\ start' = to /\ state' = next

Move(to, next) == pos' = to /\ state' = next /\ UNCHANGED <<start, items>>
Ignore(to, next) == pos' = to /\ start' = to /\ state' = next /\ UNCHANGED items

\* errorf, where it is returned: the rest of the input is not read.
Fail(to) == Emit("Error", to, "End")

Inside == IF open.brace THEN "InsideBraces" ELSE "Statements"

-----------------------------------------------------------------------------
(***************************************************************************)
(* Numbers and durations: how far each scan reads and whether it accepts.  *)
(***************************************************************************)
Scanned(to, ok) == [to |-> to, ok |-> ok]

\* Once round the loop of scan_number, from where it is and after the dots and exponents
\* seen; rest is what it does from each place on. Nothing follows a dot or an exponent
\* that cannot, neither comes twice, and a hexadecimal number has no dots.
NumberState == [at : 0 .. Len(input), seen : SUBSET {".", "e"}]
NumberRound(rest, hex, s) ==
  LET c == At(s.at + 1)
      digits == IF hex THEN Hex ELSE Decimal
      after == IF c = "e" THEN Accept(s.at + 1, {"+", "-"}) ELSE s.at + 1
      anti == IF c = "." THEN {"_", "."} ELSE {".", "_", "e"}
  IN  IF c \notin digits \cup {".", "_", "e"} THEN Scanned(s.at, TRUE)
      ELSE IF c \in s.seen THEN Scanned(s.at + 1, FALSE)
      ELSE IF c \notin {".", "_", "e"} THEN rest[[s EXCEPT !.at = RunOver(@, digits)]]
      ELSE IF At(after + 1) \in anti THEN Scanned(after + 1, FALSE)
      ELSE IF (IF c = "." THEN hex ELSE At(after + 1) = Eof) THEN Scanned(after, FALSE)
      ELSE rest[[at |-> after, seen |-> s.seen \cup ({c} \ {"_"})]]

RestOfNumber(hex) == LET loop[s \in NumberState] == NumberRound(loop, hex, s) IN loop

\* scan_number.
ScanNumber(p) ==
  LET hex == At(p + 1) = "0" /\ At(p + 2) = "x"
      prefix == IF hex THEN Accept(p + 2, {"_"}) ELSE Accept(p, {"0"})
      from == Accept(Accept(prefix, {"."}), IF hex THEN Hex ELSE Decimal)
      end == RestOfNumber(hex)[[at |-> from, seen |-> {}]]
  IN  IF end.ok THEN Scanned(end.to, end.to # p /\ At(end.to + 1) \notin Alphanumeric) ELSE end

\* Once round the loop of accept_remaining_duration: a number with its unit, or the end,
\* where no letter may follow.
DurationRound(rest, q) ==
  LET d == RunOver(q, Decimal)
  IN  IF d # q
      THEN IF At(d + 1) \in Units \ {"y"} THEN rest[Accept(d + 1, {"s"})] ELSE Scanned(d, FALSE)
      ELSE IF At(q + 1) \in Alphanumeric THEN Scanned(q + 1, FALSE)
      ELSE Scanned(q, TRUE)

RestOfDuration == LET loop[q \in 0 .. Len(input)] == DurationRound(loop, q) IN loop

\* accept_remaining_duration: a unit, then more numbers with units.
ScanDuration(p) ==
  IF At(p + 1) \in Units THEN RestOfDuration[Accept(p + 1, {"s"})] ELSE Scanned(p, FALSE)

\* scan_duration_keyword: the words of a duration, unless the input ends in one.
DurationWords == {<<"s", "t", "e", "p">>, <<"r", "a", "n", "g", "e">>, <<"m", "i", "n">>,
                  <<"m", "a", "x">>}
ScanDurationWord(p) ==
  LET q == RunOver(p, Alpha)
  IN  Scanned(q, q < Len(input) /\ SubSeq(input, start + 1, q) \in DurationWords)

StartsNumber(p) == At(p) \in Decimal \/ (At(p) = "." /\ At(p + 1) \in Decimal)

-----------------------------------------------------------------------------
Init ==
  /\ input \in Inputs
  /\ pos = 0 /\ start = 0 /\ state = "Statements" /\ items = <<>>
  /\ open = [parens |-> 0, brace |-> FALSE, bracket |-> FALSE, colon |-> FALSE,
             duration |-> FALSE, quote |-> Eof]

\* lex_statements, reading the character c.
Statement(c) ==
  /\ state = "Statements" /\ ~open.brace /\ At(pos + 1) = c /\ c # "#"
  /\ UNCHANGED input

BackInBraces ==
  /\ state = "Statements" /\ open.brace
  /\ Move(pos, "InsideBraces") /\ UNCHANGED <<input, open>>

EndOfInput ==
  /\ Statement(Eof)
  /\ IF open.parens # 0 \/ open.bracket THEN Fail(pos) ELSE Emit(Eof, pos, "End")
  /\ UNCHANGED open

SpaceAhead ==
  /\ \E c \in Spaces : Statement(c)
  /\ Move(pos + 1, "Space") /\ UNCHANGED open

Punctuated ==
  /\ \E c \in Punctuation : Statement(c) /\ Emit(c, pos + 1, state)
  /\ UNCHANGED open

\* =, !, < and > look one character further.
Compound ==
  /\ \E c \in {"=", "!", "<", ">"} :
       LET next == At(pos + 2)
           joins == IF c \in {"<", ">"} THEN {"=", "/"} ELSE {"="}
       IN  /\ Statement(c)
           /\ IF next \in joins THEN Emit("Compound", pos + 2, state)
              ELSE IF c = "!" THEN Fail(Accept(pos + 1, {next} \ {Eof}))
              ELSE IF c = "=" /\ next = "~" THEN Fail(pos + 1)
              ELSE Emit(c, pos + 1, state)
  /\ UNCHANGED open

NumberAhead ==
  /\ Statement(At(pos + 1)) /\ StartsNumber(pos + 1)
  /\ Move(pos, "NumberOrDuration") /\ UNCHANGED open

QuoteAhead ==
  /\ \E c \in Quotes :
       /\ Statement(c) \/ (state = "InsideBraces" /\ At(pos + 1) = c /\ UNCHANGED input)
       /\ open' = [open EXCEPT !.quote = c]
       /\ Move(pos + 1, IF c = Backtick THEN "RawString" ELSE "String")

\* A word; in brackets, a colon or one of the durations' words.
WordAhead ==
  /\ \E c \in Alpha \cup {":"} :
       /\ Statement(c)
       /\ IF ~open.bracket THEN Move(pos, "KeywordOrIdentifier") /\ UNCHANGED open
          ELSE IF c = ":"
          THEN /\ IF open.colon THEN Fail(pos + 1) ELSE Emit(":", pos + 1, "Statements")
               /\ open' = [open EXCEPT !.colon = TRUE]
          ELSE /\ LET word == ScanDurationWord(pos + 1)
                  IN  IF c \in {"s", "m"} /\ word.ok THEN Emit("Word", word.to, "Statements")
                      ELSE Fail(IF c \in {"s", "m"} THEN word.to ELSE pos + 1)
               /\ UNCHANGED open

\* A parenthesis, in an expression or in the brackets of one.
OpenParen ==
  /\ Statement("(") \/ (state = "DurationExpr" /\ At(pos + 1) = "(" /\ UNCHANGED input)
  /\ Emit("(", pos + 1, state)
  /\ open' = [open EXCEPT !.parens = @ + 1]

\* The token is emitted, and then refused where nothing was open.
CloseParen ==
  /\ Statement(")") \/ (state = "DurationExpr" /\ At(pos + 1) = ")" /\ UNCHANGED input)
  /\ open' = [open EXCEPT !.parens = @ - 1]
  /\ LET token == [typ |-> ")", from |-> start, to |-> pos + 1]
         error == [typ |-> "Error", from |-> pos + 1, to |-> pos + 1]
     IN  IF open.parens = 0
         THEN items' = items \o <<token, error>> /\ state' = "End"
         ELSE items' = Append(items, token) /\ UNCHANGED state
  /\ pos' = pos + 1 /\ start' = pos + 1

OpenBrace ==
  /\ Statement("{")
  /\ Emit("{", pos + 1, "InsideBraces")
  /\ open' = [open EXCEPT !.brace = TRUE]

\* The spaces behind the bracket are skipped with it.
OpenBracket ==
  /\ Statement("[")
  /\ IF open.bracket THEN Fail(pos + 1) /\ UNCHANGED open
     ELSE /\ items' = Append(items, [typ |-> "[", from |-> start, to |-> pos + 1])
          /\ pos' = RunOver(pos + 1, Spaces) /\ start' = pos' /\ state' = "DurationExpr"
          /\ open' = [open EXCEPT !.bracket = TRUE, !.colon = FALSE, !.duration = FALSE]

CloseBracket ==
  /\ Statement("]")
  /\ IF open.bracket THEN Emit("]", pos + 1, state) /\ open' = [open EXCEPT !.bracket = FALSE]
     ELSE Fail(pos + 1) /\ UNCHANGED open

Unexpected ==
  /\ Statement(At(pos + 1)) /\ ~StartsNumber(pos + 1)
  /\ At(pos + 1) \notin Spaces \cup Punctuation \cup Alpha \cup Quotes \cup
       {Eof, "=", "!", "<", ">", ":", "(", ")", "{", "[", "]"}
  /\ Fail(pos + 1) /\ UNCHANGED open

-----------------------------------------------------------------------------
Space ==
  /\ state = "Space"
  /\ Ignore(RunOver(pos, Spaces),
            IF open.brace THEN "InsideBraces" ELSE IF open.bracket THEN "DurationExpr"
            ELSE "Statements")
  /\ UNCHANGED <<input, open>>

CommentAhead ==
  /\ state \in {"Statements", "InsideBraces"} /\ At(pos + 1) = "#"
  /\ state = "Statements" => ~open.brace
  /\ Move(pos, "LineComment") /\ UNCHANGED <<input, open>>

\* Variant: a comment is passed over like a space.
LineCommentIgnored ==
  /\ state = "LineComment"
  /\ Ignore(RunOver(pos, ToSet(input) \ LineEnds), "Statements")
  /\ UNCHANGED <<input, open>>

LineComment ==
  /\ state = "LineComment"
  /\ Emit("Comment", RunOver(pos, ToSet(input) \ LineEnds), "Statements")
  /\ UNCHANGED <<input, open>>

-----------------------------------------------------------------------------
\* lex_inside_braces.
BraceSpaceAhead ==
  /\ state = "InsideBraces" /\ At(pos + 1) \in Spaces
  /\ Move(pos + 1, "Space") /\ UNCHANGED <<input, open>>

LabelAhead ==
  /\ state = "InsideBraces" /\ At(pos + 1) \in Alpha
  /\ Move(pos, "Identifier") /\ UNCHANGED <<input, open>>

Matcher ==
  /\ state = "InsideBraces" /\ At(pos + 1) \in {",", "=", "!"}
  /\ LET c == At(pos + 1)
         next == At(pos + 2)
     IN  IF c = "," \/ (c = "=" /\ next # "~") THEN Emit(c, pos + 1, state)
         ELSE IF next = "~" \/ (c = "!" /\ next = "=") THEN Emit("Compound", pos + 2, state)
         ELSE Fail(Accept(pos + 1, {next} \ {Eof}))
  /\ UNCHANGED <<input, open>>

CloseBrace ==
  /\ state = "InsideBraces" /\ At(pos + 1) = "}"
  /\ Emit("}", pos + 1, "Statements")
  /\ open' = [open EXCEPT !.brace = FALSE]
  /\ UNCHANGED input

UnexpectedInBraces ==
  /\ state = "InsideBraces"
  /\ At(pos + 1) \notin Spaces \cup Alpha \cup Quotes \cup {"#", ",", "=", "!", "}"}
  /\ Fail(Accept(pos, {At(pos + 1)} \ {Eof}))
  /\ UNCHANGED <<input, open>>

Identifier ==
  /\ state = "Identifier"
  /\ Emit("Identifier", RunOver(pos, Alphanumeric), "InsideBraces")
  /\ UNCHANGED <<input, open>>

\* peek_followed_by_left_paren.
FollowedByParen(p) == At(RunOver(p, Spaces) + 1) = "("

\* keyword: what the table has.
Keyword(word) == word \in Keywords \cup FillWords

KeywordOrIdentifier ==
  /\ state = "KeywordOrIdentifier"
  /\ LET to == RunOver(pos, Alphanumeric \cup {":"})
         word == SubSeq(input, start + 1, to)
         typ == IF word \in FillWords /\ ~FollowedByParen(to) THEN "Identifier"
                ELSE IF Keyword(word) THEN "Keyword"
                ELSE IF ":" \in ToSet(word) THEN "MetricIdentifier" ELSE "Identifier"
     IN  Emit(typ, to, "Statements")
  /\ UNCHANGED <<input, open>>

\* Variant: what scans as neither is left to the statements again.
NumberOrDurationRetried ==
  /\ state = "NumberOrDuration"
  /\ LET number == ScanNumber(pos)
         duration == ScanDuration(number.to)
     IN  IF number.ok THEN Emit("Number", number.to, "Statements")
         ELSE IF duration.ok THEN Emit("Duration", duration.to, "Statements")
         ELSE Move(pos, "Statements")
  /\ UNCHANGED <<input, open>>

\* A number that does not scan may still be the beginning of a duration.
NumberOrDuration ==
  /\ state = "NumberOrDuration"
  /\ LET number == ScanNumber(pos)
         duration == ScanDuration(number.to)
     IN  IF number.ok THEN Emit("Number", number.to, "Statements")
         ELSE IF duration.ok THEN Emit("Duration", duration.to, "Statements")
         ELSE Fail(duration.to)
  /\ UNCHANGED <<input, open>>

-----------------------------------------------------------------------------
(***************************************************************************)
(* Strings.                                                                *)
(***************************************************************************)
\* Where a string is left: at its quote, or at what it may not contain.
StringTo(stops) == RunOver(pos, ToSet(input) \ stops) + 1

String ==
  /\ state = "String"
  /\ LET to == StringTo({"\\", BadRune, "\n", open.quote})
     IN  IF At(to) = "\\" THEN Move(to, "Escape")
         ELSE IF At(to) = open.quote /\ to <= Len(input) THEN Emit("String", to, Inside)
         ELSE Fail(Min({to, Len(input)}))
  /\ UNCHANGED <<input, open>>

RawString ==
  /\ state = "RawString"
  /\ LET to == StringTo({BadRune, open.quote})
     IN  IF At(to) = open.quote THEN Emit("String", to, Inside) ELSE Fail(Min({to, Len(input)}))
  /\ UNCHANGED <<input, open>>

\* The escapes of a code: how many digits are read, of which, up to what.
Escapes == [x |-> [n |-> 2, digits |-> Hex, max |-> 255],
            u |-> [n |-> 4, digits |-> Hex, max |-> 1114111],
            U |-> [n |-> 8, digits |-> Hex, max |-> 1114111],
            octal |-> [n |-> 3, digits |-> Decimal \ {"8", "9"}, max |-> 255]]

CodeValue(digits, from, n) ==
  LET val(c) == (CHOOSE d \in DOMAIN HexDigits : HexDigits[d] = c) - 1
      base == Cardinality(digits)
      value[k \in 0 .. n] == IF k = 0 THEN 0 ELSE value[k - 1] * base + val(At(from + k))
  IN  value[n]

\* A code and the place before its digits, which are read behind a first one that is
\* passed over: the octal digit that was matched, or whatever follows the letter.
EscapeOf(c) == IF c \in Escapes.octal.digits THEN Escapes.octal ELSE Escapes[c]
DigitsFrom(c) == Min({IF c \in Escapes.octal.digits THEN pos + 1 ELSE pos + 2, Len(input)})

ReadCode(code, from) ==
  LET value == CodeValue(code.digits, from, code.n)
  IN  IF RunOver(from, code.digits) < from + code.n
      THEN Emit("Error", RunOver(from, code.digits), "String")
      ELSE IF value > code.max \/ value \in 55296 .. 57343
      THEN Emit("Error", from + code.n, "String")
      ELSE Move(from + code.n, "String")

\* lex_escape. An error does not end the string.
Escape ==
  /\ state = "Escape"
  /\ LET c == At(pos + 1)
     IN  IF c \in {"a", "b", "f", "n", "r", "t", "v", "\\", open.quote} \ {Eof}
         THEN Move(pos + 1, "String")
         ELSE IF c \in Escapes.octal.digits \cup {"x", "u", "U"}
         THEN ReadCode(EscapeOf(c), DigitsFrom(c))
         ELSE Emit("Error", Accept(pos, {c} \ {Eof}), "String")
  /\ UNCHANGED <<input, open>>

-----------------------------------------------------------------------------
(***************************************************************************)
(* lex_duration_expr: what stands in brackets, until a number is met; the  *)
(* statements go on from there.                                            *)
(***************************************************************************)
DurationOperator ==
  /\ state = "DurationExpr" /\ At(pos + 1) \in Punctuation \ {"@"}
  /\ Emit(At(pos + 1), pos + 1, state) /\ UNCHANGED <<input, open>>

DurationSpace ==
  /\ state = "DurationExpr" /\ At(pos + 1) \in Spaces
  /\ Ignore(RunOver(pos, Spaces), state) /\ UNCHANGED <<input, open>>

DurationNumber ==
  /\ state = "DurationExpr" /\ StartsNumber(pos + 1)
  /\ open' = [open EXCEPT !.duration = TRUE]
  /\ Move(pos, "NumberOrDuration") /\ UNCHANGED input

DurationWord ==
  /\ state = "DurationExpr" /\ At(pos + 1) \in {"s", "m", "r"}
  /\ LET word == ScanDurationWord(pos + 1)
     IN  IF word.ok THEN Emit("Word", word.to, state) ELSE Fail(word.to)
  /\ UNCHANGED <<input, open>>

\* The colon of a subquery, emitted and then refused before a duration or again.
DurationColon ==
  /\ state = "DurationExpr" /\ At(pos + 1) = ":"
  /\ LET token == [typ |-> ":", from |-> start, to |-> pos + 1]
         error == [typ |-> "Error", from |-> pos + 1, to |-> pos + 1]
     IN  IF open.duration /\ ~open.colon
         THEN items' = Append(items, token) /\ UNCHANGED state
         ELSE items' = items \o <<token, error>> /\ state' = "End"
  /\ open' = [open EXCEPT !.colon = @ \/ open.duration]
  /\ pos' = pos + 1 /\ start' = pos + 1 /\ UNCHANGED input

\* Variant: the bracket is not known to be closed.
DurationEndOpen ==
  /\ state = "DurationExpr" /\ At(pos + 1) = "]"
  /\ Emit("]", pos + 1, "Statements")
  /\ open' = [open EXCEPT !.colon = FALSE]
  /\ UNCHANGED input

DurationEnd ==
  /\ state = "DurationExpr" /\ At(pos + 1) = "]"
  /\ Emit("]", pos + 1, "Statements")
  /\ open' = [open EXCEPT !.bracket = FALSE, !.colon = FALSE]
  /\ UNCHANGED input

UnexpectedInDuration ==
  /\ state = "DurationExpr" /\ ~StartsNumber(pos + 1)
  /\ At(pos + 1) \notin (Punctuation \ {"@"}) \cup Spaces \cup {"s", "m", "r", ":", "(", ")", "]"}
  /\ Fail(Accept(pos, {At(pos + 1)} \ {Eof}))
  /\ UNCHANGED <<input, open>>

-----------------------------------------------------------------------------
LexStatements ==
  \/ BackInBraces \/ EndOfInput \/ SpaceAhead \/ Punctuated \/ Compound \/ NumberAhead
  \/ QuoteAhead \/ WordAhead \/ OpenParen \/ CloseParen \/ OpenBrace \/ OpenBracket
  \/ CloseBracket \/ Unexpected

LexInsideBraces ==
  BraceSpaceAhead \/ LabelAhead \/ Matcher \/ CloseBrace \/ UnexpectedInBraces

LexDurationExpr ==
  \/ DurationOperator \/ DurationSpace \/ DurationNumber \/ DurationWord \/ DurationColon
  \/ DurationEnd \/ UnexpectedInDuration

Next ==
  \/ LexStatements \/ LexInsideBraces \/ LexDurationExpr \/ Space \/ CommentAhead \/ LineComment
  \/ Identifier \/ KeywordOrIdentifier \/ NumberOrDuration \/ String \/ RawString \/ Escape

\* run is a loop over the state functions: it takes its next step.
Spec == Init /\ [][Next]_vars /\ WF_vars(Next)

-----------------------------------------------------------------------------
Failed == \E n \in DOMAIN items : items[n].typ = "Error"
Count(typ, n) == Cardinality({m \in 1 .. n : items[m].typ = typ})

\* Nothing is lost and nothing read twice: until an error, the tokens lie in the
\* input one after another, none empty but the last, and between them and after
\* them, up to the next one's start, there are only spaces. At the end all is read.
TokensTile ==
  ~Failed =>
    LET end(n) == IF n = 0 THEN 0 ELSE items[n].to
        spaces(from, to) == \A k \in from + 1 .. to : input[k] \in Spaces
    IN  /\ \A n \in DOMAIN items :
             /\ end(n - 1) <= items[n].from /\ spaces(end(n - 1), items[n].from)
             /\ items[n].from < items[n].to \/ (items[n].typ = Eof /\ n = Len(items))
        /\ end(Len(items)) <= start /\ start <= pos /\ spaces(end(Len(items)), start)
        /\ state = "End" => Last(items).typ = Eof /\ start = Len(input)

\* What the lexer thinks is open is what its tokens opened, and an input it accepts
\* closes it all: parentheses never below their depth, braces and brackets in turn,
\* though parentheses and brackets are free to overlap.
AcceptedIsBalanced ==
  ~Failed =>
    /\ \A n \in 0 .. Len(items) :
         /\ Count("(", n) >= Count(")", n)
         /\ Count("{", n) - Count("}", n) \in {0, 1} /\ Count("[", n) - Count("]", n) \in {0, 1}
    /\ open.parens = Count("(", Len(items)) - Count(")", Len(items))
    /\ open.brace <=> Count("{", Len(items)) > Count("}", Len(items))
    /\ open.bracket <=> Count("[", Len(items)) > Count("]", Len(items))
    /\ state = "End" => open.parens = 0 /\ ~open.brace /\ ~open.bracket

\* No state function hands over to another for ever without reading on.
Terminates == <>(state = "End")

-----------------------------------------------------------------------------
(***************************************************************************)
(* The durations of what is accepted (actions.rs): where the lexer reads a *)
(* token the action that makes a literal of it parses its text again, the  *)
(* planner takes its seconds for milliseconds, and EXPLAIN prints them.    *)
(***************************************************************************)
VARIABLE literals    \* what the duration tokens read so far stand for

Durable == SelectSeq(items, LAMBDA item : item.typ = "Duration")

\* duration_literal: an error is an error of the parse, never a duration of none.
DurationLiteral(text, d) ==
  [text |-> text, read |-> d, ms |-> SecsToMillis(AsSeconds(d.nanos)).nanos]

ReadLiteral ==
  /\ state = "End" /\ ~Failed /\ Len(literals) < Len(Durable)
  /\ LET token == Durable[Len(literals) + 1]
     IN  \E text \in {SubSeq(input, token.from + 1, token.to)} : \E d \in {Parse(text)} :
           literals' = Append(literals, DurationLiteral(text, d))
  /\ UNCHANGED vars

ReadInit == Init /\ literals = <<>>
ReadNext == (Next /\ UNCHANGED literals) \/ ReadLiteral
ReadSpec == ReadInit /\ [][ReadNext]_<<vars, literals>> /\ WF_<<vars, literals>>(ReadNext)

-----------------------------------------------------------------------------
(***************************************************************************)
(* What a text means, without reading it: the parts it falls into where a  *)
(* digit follows what is none, each a number and a unit.                   *)
(***************************************************************************)
Starts(text) == {k \in DOMAIN text : IsDigit(text[k]) /\ (k > 1 => ~IsDigit(text[k - 1]))}
PartEnd(text, k) == Min({n \in Starts(text) : n > k} \cup {Len(text) + 1}) - 1
UnitFrom(text, k) == Min({n \in k .. Len(text) : ~IsDigit(text[n])})
Unit(text, k) == SubSeq(text, UnitFrom(text, k), PartEnd(text, k))
Ranked(text, k) == {r \in Basic : UnitNames[r] = Unit(text, k)}
Rank(text, k) == CHOOSE r \in Ranked(text, k) : TRUE
Means(text) ==
  MapThenSumSet(LAMBDA k : Value(text, k - 1, UnitFrom(text, k) - 1) * Sizes[Rank(text, k)],
                Starts(text))

\* A duration the lexer accepts is its numbers times their units, if the numbers are whole,
\* each unit is smaller than the one before and all of it fits; otherwise it is refused, and
\* never wraps or is cut: the lexer lets 1.5m and 1m1h through, and knows no bound.
LiteralMeans ==
  \A n \in DOMAIN literals :
    LET text == literals[n].text
        whole == 1 \in Starts(text) /\ \A k \in Starts(text) : Ranked(text, k) # {}
        ordered == \A j, k \in Starts(text) : j < k => Rank(text, j) < Rank(text, k)
    IN  IF whole /\ ordered /\ Means(text) <= MaxNanos
        THEN literals[n].read = Duration(Means(text))
        ELSE ~IsDuration(literals[n].read)

\* What the planner computes with is the duration to the millisecond, and what is printed
\* for it, or for a duration near it on either side of zero, reads back as the same. What
\* is under a millisecond is printed after it and changes nothing of how the rest is: a
\* week and a nanosecond is still a week.
PrintsBack ==
  \A n \in DOMAIN literals :
    LET l == literals[n]
        nearby == {l.read.nanos + sub : sub \in 0 .. Ms} \cap 0 .. MaxNanos
    IN  IsDuration(l.read) =>
          /\ l.ms * Ms = l.read.nanos /\ Parse(Display(FromMillis(l.ms).nanos)) = l.read
          /\ \A nanos \in nearby :
               /\ ParseNanos(Display(nanos)) = Duration(nanos)
               /\ LET whole == AsMillis(nanos) * Ms
                  IN  0 < whole /\ whole < nanos =>
                        Display(nanos) = Display(whole) \o Display(nanos - whole)
               /\ AsMillis(-nanos) = -AsMillis(nanos)
               /\ ParseAllowNegative(Display(-AsMillis(nanos) * Ms)) = FromMillis(-AsMillis(nanos))
=============================================================================
