------------------------------ MODULE MCLexer ------------------------------
(***************************************************************************)
(* Every input of up to three to five characters of each of some           *)
(* alphabets: what opens and closes, what numbers and durations are made   *)
(* of, strings with their escapes, and matchers in braces; and some longer *)
(* inputs.                                                                 *)
(***************************************************************************)
EXTENDS Lexer

UpTo(n, alphabet) == UNION {[1 .. k -> alphabet] : k \in 0 .. n}

MCKeywords == {<<"m", "a", "x">>, <<"b", "y">>}
MCFillWords == {<<"f", "i", "l", "l">>}

Longer == {
  <<"f", "i", "l", "l", " ", "(", "f", "i", "l", "l", ")">>,
  <<"a", "[", "s", "t", "e", "p", "5", "]">>,
  <<"[", "5", "m", ":", "m", "i", "n", "]">>,
  <<"[", "5", "m", " ", ":", ":", "]">>,
  <<"[", "5", "m", "*", "2", "+", "s", "t", "e", "p", "(", ")", ":", "]">>,
  <<"[", "5", " ", "r", "a", "n", "g", "e", "]">>,
  <<"[", "-", "s", "t", "e", "p", "(", ")", "*", "2", ":", "5", "m", "]">>,
  <<"\"", "\\", "u", "0", "0", "4", "1", "\"">>,
  <<"\"", "\\", "U", "0", "0", "1", "1", "0", "0", "0", "0", "\"">>,
  <<"\"", "\\", "u", "0", "d", "8", "0", "0", "\"", "a">>,
  <<"m", "a", "x", "(", "b", "y", ")">>,
  <<"1", "y", "1", "w", "1", "d", "1", "h", "1", "m">>,
  <<"1", "w", "7", "d", "5", "h", "5", "m", "4", "s", "7", "m", "s">>,
  <<"5", "d", "1", "0", "m", " ", "8", "3", "s", "4", "m", "s">>,
  <<"3", "1", "h", "1", "w">>,
  <<"a", "[", "9", "9", "9", "9", "9", "9", "m", "]">>,
  <<"a", "[", "2", "0", "0", "0", "s", ":", "1", "d", "1", "m", "s", "]">> }

\* As many nanoseconds as keep the units apart: a year is not so many weeks.
MCSizes == <<288, 192, 96, 48, 24, 12, 6, 3, 1>>

MCInputs ==
  UpTo(5, {"(", ")", "{", "}", "[", "]", "5"})
  \cup UpTo(5, {"0", "x", "e", ".", "_", "m", "s"})
  \cup UpTo(4, {"5", "e", "+", ".", "m", "y", "a", ":"})
  \cup UpTo(4, {"[", "]", "5", ":", "m", " ", "(", "@", "#", "\n"})
  \cup UpTo(5, {"\"", "\\", "x", "1", "7", "n"})
  \cup UpTo(4, {"{", "a", "=", "~", "!", Backtick, ",", " ", "#"})
  \cup UpTo(3, {"<", ">", "=", "/", "!", "~", "'", "\n", BadRune, Backtick})
  \cup UpTo(5, {"1", "9", "m", "s", "w", "d"})
  \cup Longer
=============================================================================
