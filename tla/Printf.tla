--------------------------------- MODULE Printf ---------------------------------
(***************************************************************************)
(* Formatted output, src/src/common/san_printf.c: what one directive of a  *)
(* format makes drt_vprintf print, as a sequence of texts that are printed *)
(* one by one, and what C's printf prints for it.                          *)
(*                                                                         *)
(* A literal part of a format is one text.  The widths of integers are     *)
(* parameters, so that their ends are within reach.  Formats agree with    *)
(* their arguments in number, and none ends inside a directive.            *)
(***************************************************************************)
EXTENDS Integers, Sequences, SequencesExt

CONSTANTS
  IntBits,    \* of int
  LongBits,   \* of long, long long, size_t and pointers
  Null        \* the string that is a null pointer

ASSUME PrintfConstants ==
  /\ IntBits \in Nat \ {0} /\ LongBits \in Nat \ {0} /\ IntBits <= LongBits
  /\ Null \in STRING

\* What is still to be printed: a text, a directive with its argument (a number
\* n or a string text), or a pad that is printed for ever.
Item == [conv |-> "text", pad |-> " ", width |-> 0, long |-> 0, n |-> 0, text |-> ""]
Text(s) == [Item EXCEPT !.text = s]
Forever(pad) == [Item EXCEPT !.conv = "forever", !.pad = pad]
Directive(conv, n) == [Item EXCEPT !.conv = conv, !.n = n]
String(s) == [Item EXCEPT !.conv = "s", !.text = s]

LowerDigits == <<"0", "1", "2", "3", "4", "5", "6", "7", "8", "9", "a", "b", "c", "d", "e", "f">>
UpperDigits == <<"0", "1", "2", "3", "4", "5", "6", "7", "8", "9", "A", "B", "C", "D", "E", "F">>
DigitTexts(upper) == IF upper THEN UpperDigits ELSE LowerDigits

\* b to the power of k; a function, for proofs know nothing of ^.
Power(b) ==
  LET power[k \in Nat] == IF k = 0 THEN 1 ELSE b * power[k - 1]
  IN  power

Unsigned(n, bits) == n % Power(2)[bits]
Signed(n, bits) == ((n + Power(2)[bits - 1]) % Power(2)[bits]) - Power(2)[bits - 1]

\* An argument is read in the width the directive says.
Bits(d) == IF d.long = 0 THEN IntBits ELSE LongBits

---------------------------------------------------------------------------------
(* The code. *)

\* Slip: the loop tests before it stores a digit.
BufTestFirst(base, upper) ==
  LET buf[n \in Nat] == IF n = 0 THEN <<>> ELSE <<DigitTexts(upper)[(n % base) + 1]>> \o buf[n \div base]
  IN  buf

\* The digits of n, the last one first: at least one.
Buf(base, upper) ==
  LET buf[n \in Nat] == <<DigitTexts(upper)[(n % base) + 1]>> \o IF n \div base = 0 THEN <<>> ELSE buf[n \div base]
  IN  buf

\* Slip: a number that just fills its field waits for a pad too.
PutnAtWidth(n, base, width, pad, upper) ==
  LET buf == Buf(base, upper)[n] IN
  IF Len(buf) <= width THEN <<Forever(pad)>> ELSE [i \in 1 .. Len(buf) |-> Text(buf[Len(buf) - i + 1])]

\* The loop over the pads does not count them: it ends at once or never.
drt_putn(n, base, width, pad, upper) ==
  LET buf == Buf(base, upper)[n] IN
  IF Len(buf) < width THEN <<Forever(pad)>> ELSE [i \in 1 .. Len(buf) |-> Text(buf[Len(buf) - i + 1])]

drt_putsn(n, base, width, pad) ==
  IF n < 0
    THEN <<Text("-")>> \o drt_putn(Unsigned(-n, LongBits), base, IF width > 0 THEN width - 1 ELSE 0, pad, FALSE)
    ELSE drt_putn(n, base, width, pad, FALSE)

PointerDigits == LongBits \div 4

\* drt_vprintf for a directive.
Expand(d) ==
  CASE d.conv = "d" -> drt_putsn(Signed(d.n, Bits(d)), 10, d.width, d.pad)
    [] d.conv = "u" -> drt_putn(Unsigned(d.n, Bits(d)), 10, d.width, d.pad, FALSE)
    [] d.conv = "x" -> drt_putn(Unsigned(d.n, Bits(d)), 16, d.width, d.pad, FALSE)
    [] d.conv = "X" -> drt_putn(Unsigned(d.n, Bits(d)), 16, d.width, d.pad, TRUE)
    [] d.conv = "p" -> <<Text("0x")>> \o drt_putn(Unsigned(d.n, LongBits), 16, PointerDigits, "0", FALSE)
    [] d.conv = "s" -> <<Text(IF d.text = Null THEN "(null)" ELSE d.text)>>
    [] d.conv = "c" -> <<Text(d.text)>>
    [] d.conv = "%" -> <<Text("%")>>
    [] OTHER -> <<Text("%"), Text(d.conv)>>

\* drt_print_stack_trace: the 0x is doubled, for %p prints one.
StackTrace(pcs) ==
  <<Text("Stack trace:\n")>> \o
  FlattenSeq([i \in 1 .. Len(pcs) |->
    <<Text("  #"), [Directive("u", i - 1) EXCEPT !.long = 3], Text("  0x"), Directive("p", pcs[i]), Text("\n")>>])

---------------------------------------------------------------------------------
(* C's printf, by position instead of by loop. *)

Places(n, base) == CHOOSE k \in 1 .. LongBits : n < Power(base)[k] /\ (k = 1 \/ n >= Power(base)[k - 1])

Numeral(n, base, upper) ==
  LET k == Places(n, base) IN [i \in 1 .. k |-> DigitTexts(upper)[((n \div Power(base)[k - i]) % base) + 1]]

\* The parts of a number in its field: sign and digits, and the field.
CNumber(d) ==
  CASE d.conv = "d" ->
         LET v == Signed(d.n, Bits(d)) IN
         [sign |-> IF v < 0 THEN <<"-">> ELSE <<>>, digits |-> Numeral(IF v < 0 THEN -v ELSE v, 10, FALSE), width |-> d.width]
    [] d.conv = "u" -> [sign |-> <<>>, digits |-> Numeral(Unsigned(d.n, Bits(d)), 10, FALSE), width |-> d.width]
    [] d.conv = "p" -> [sign |-> <<>>, digits |-> Numeral(Unsigned(d.n, LongBits), 16, FALSE), width |-> PointerDigits]
    [] OTHER        -> [sign |-> <<>>, digits |-> Numeral(Unsigned(d.n, Bits(d)), 16, d.conv = "X"), width |-> d.width]

Numeric(d) == d.conv \in {"d", "u", "x", "X", "p"}

\* The number does not fill its field.
Short(d) == Numeric(d) /\ LET c == CNumber(d) IN Len(c.sign \o c.digits) < c.width

\* What C prints for a directive that is not short.  C does not say what a null
\* string prints, and the code leaves some of C's conversions out (%i, %o and %f
\* among them) and prints them as they stand: for these CText is the code's text.
CText(d) ==
  CASE Numeric(d) -> (IF d.conv = "p" THEN <<"0x">> ELSE <<>>) \o CNumber(d).sign \o CNumber(d).digits
    [] d.conv = "s" -> <<IF d.text = Null THEN "(null)" ELSE d.text>>
    [] d.conv \in {"c", "text"} -> <<d.text>>
    [] d.conv = "%" -> <<"%">>
    [] OTHER -> <<"%", d.conv>>

=================================================================================
