----------------------------- MODULE Durations -----------------------------
(***************************************************************************)
(* Durations (promql-common/src/model/time.rs): a whole number of          *)
(* nanoseconds of at most MaxNanos either way, how one is read, converted  *)
(* and printed. A text is a sequence of characters. The accumulator of the *)
(* scanner is an unsigned word that holds twice what a duration does.      *)
(***************************************************************************)
EXTENDS Integers, Sequences, FiniteSetsExt

CONSTANTS
  Sizes,      \* how many nanoseconds each unit lasts, from the year to the nanosecond
  MaxNanos    \* the largest duration, 2^63 - 1

Digits == <<"0", "1", "2", "3", "4", "5", "6", "7", "8", "9">>

ASSUME SizesAssumption ==
  /\ Sizes \in [1 .. 9 -> Nat \ {0}] /\ MaxNanos \in Nat
  /\ Sizes[9] = 1 /\ \A k \in 1 .. 6 : Sizes[k] % Sizes[7] = 0

IsDigit(c) == \E n \in DOMAIN Digits : Digits[n] = c

\* The units from biggest to smallest, the place of a unit being its rank.
UnitNames == <<<<"y">>, <<"w">>, <<"d">>, <<"h">>, <<"m">>, <<"s">>, <<"m", "s">>, <<"u", "s">>,
            <<"n", "s">>>>
Basic == 1 .. 7
Nanos == 1 .. 9

Half == MaxNanos + 1
Word == 2 * Half

Duration(nanos) == [error |-> "none", nanos |-> nanos]
Refused(error) == [error |-> error, nanos |-> 0]
IsDuration(d) == d.error = "none"

-----------------------------------------------------------------------------
\* Where a run of characters ends that are all digits, or that all are not.
RunEnd(text, from, digits) ==
  Max({from} \cup {k \in from + 1 .. Len(text) : \A n \in from + 1 .. k : IsDigit(text[n]) <=> digits})

Value(text, from, to) ==
  LET value[k \in from .. to] ==
        IF k = from THEN 0
        ELSE value[k - 1] * 10 + (CHOOSE n \in DOMAIN Digits : Digits[n] = text[k]) - 1
  IN  value[to]

\* Variant: only the running total is bounded.
AccumulateTotal(total, number, size) ==
  LET sum == (total + (number * size)) % Word
  IN  IF sum > Half - 1 THEN Refused("out of range") ELSE Duration(sum)

\* One number with its unit, added to what was read before it. The product is bounded
\* before it is taken and the sum afterwards, so that neither wraps.
Accumulate(total, number, size) ==
  IF number > Half \div size THEN Refused("out of range")
  ELSE LET sum == (total + ((number * size) % Word)) % Word
       IN  IF sum > Half - 1 THEN Refused("out of range") ELSE Duration(sum)

\* parse_with: a number, and a unit up to the next digit, over and over; units go in
\* order from biggest to smallest, each at most once.
ParseWith(text, units) ==
  LET step[at \in 0 .. Len(text), total \in 0 .. MaxNanos, last \in 0 .. 9] ==
        LET digits == RunEnd(text, at, TRUE)
            end == RunEnd(text, digits, FALSE)
            unit == SubSeq(text, digits + 1, end)
            number == Value(text, at, digits)
            rank == CHOOSE k \in units : UnitNames[k] = unit
            sum == Accumulate(total, number, Sizes[rank])
        IN  CASE at = Len(text) -> Duration(total)
              [] at < Len(text) /\ (digits = at \/ number >= Word \/ end = digits) ->
                   Refused("not a duration")
              [] OTHER ->
                   IF ~\E k \in units : UnitNames[k] = unit THEN Refused("unknown unit")
                   ELSE IF rank <= last THEN Refused("not a duration")
                   ELSE IF ~IsDuration(sum) THEN sum
                   ELSE step[end, sum.nanos, rank]
  IN  IF text = <<"0">> THEN Duration(0)
      ELSE IF text = <<>> THEN Refused("empty")
      ELSE step[0, 0, 0]

Parse(text) == ParseWith(text, Basic)
ParseNanos(text) == ParseWith(text, Nanos)

ParseAllowNegative(text) ==
  IF text # <<>> /\ Head(text) = "-"
  THEN LET d == Parse(Tail(text)) IN [d EXCEPT !.nanos = -@]
  ELSE Parse(text)

-----------------------------------------------------------------------------
(***************************************************************************)
(* Conversions. A duration has no least value: the one a word could hold   *)
(* beyond -MaxNanos is refused.                                            *)
(***************************************************************************)
Ms == Sizes[7]
FromNanos(nanos) == IF nanos \in -MaxNanos .. MaxNanos THEN Duration(nanos) ELSE Refused("out of range")
FromMillis(ms) == FromNanos(ms * Ms)

\* Rust divides towards zero.
Truncated(n, by) == IF n < 0 THEN -((-n) \div by) ELSE n \div by
AsMillis(nanos) == Truncated(nanos, Ms)

\* Seconds as a float are a whole number of them and the nanoseconds over, which is how
\* they are computed.
AsSeconds(nanos) ==
  LET whole == Truncated(nanos, Sizes[6]) IN [secs |-> whole, nanos |-> nanos - whole * Sizes[6]]

\* Half a millisecond is rounded away from zero; what does not fit is none.
SecsToMillis(seconds) ==
  LET nanos == seconds.secs * Sizes[6] + seconds.nanos
      ms == Truncated(2 * nanos + (IF nanos < 0 THEN -Ms ELSE Ms), 2 * Ms)
  IN  IF ms >= -Half /\ ms < Half THEN Duration(ms) ELSE Refused("out of range")

-----------------------------------------------------------------------------
(***************************************************************************)
(* Display. What is left is printed in each unit in turn; years and weeks  *)
(* only if no millisecond remains of it after them. What is under a        *)
(* millisecond does not count: a week and a nanosecond is 1w1ns.           *)
(***************************************************************************)
Printed(n) ==
  LET text[k \in 0 .. n] ==
        (IF k < 10 THEN <<>> ELSE text[k \div 10]) \o <<Digits[(k % 10) + 1]>>
  IN  text[n]

\* Variant: nor may anything under a millisecond remain.
IsExactToTheNano(left, rank) == left % Sizes[rank] = 0

IsExact(left, rank) == (left \div Ms) % (Sizes[rank] \div Ms) = 0

Remainder(left, rank) ==
  IF rank \in {1, 2} /\ ~IsExact(left, rank) THEN [count |-> 0, left |-> left]
  ELSE [count |-> left \div Sizes[rank], left |-> left % Sizes[rank]]

Display(nanos) ==
  LET emit[left \in 0 .. MaxNanos, rank \in 1 .. 10] ==
        IF rank = 10 THEN <<>>
        ELSE LET unit == Remainder(left, rank)
             IN  (IF unit.count > 0 THEN Printed(unit.count) \o UnitNames[rank] ELSE <<>>)
                   \o emit[unit.left, rank + 1]
  IN  IF nanos = 0 THEN <<"0", "s">>
      ELSE IF nanos < 0 THEN <<"-">> \o emit[-nanos, 1] ELSE emit[nanos, 1]
=============================================================================
