------------------------------ MODULE NumberText ------------------------------
(***************************************************************************)
(* Numbers as text: what Print (Print.cpp) writes and what String          *)
(* (WString.cpp) holds, and the number a reader takes the text for.  A     *)
(* double is an exact multiple of 1/Scale; rounding errors of the          *)
(* arithmetic are left out.                                                *)
(***************************************************************************)
EXTENDS Integers, Sequences, SequencesExt, TLC

CONSTANTS
  IntMod,        \* values of an unsigned int, 2^32
  LongLongMod,   \* values of an unsigned long long, 2^64
  ByteMod,       \* values of a uint8_t, 256
  SmallBuffer,   \* char text[34] of String(int) and String(long)
  LargeBuffer,   \* char text[65], of the others
  MaxPlaces,     \* decimal places that are kept, 10
  StackBuffer    \* char stack_buffer[128] of printf

\* b * ... * b, n times.
Power(b, n) == LET p[k \in Nat] == IF k = 0 THEN 1 ELSE b * p[k - 1] IN p[n]

\* The buffers hold the bits of a number, one character each, and its end, except
\* that the small one is for the digits of an int only.
NumberAssumption ==
  /\ {IntMod, LongLongMod, ByteMod, SmallBuffer, LargeBuffer, MaxPlaces, StackBuffer} \subseteq Nat
  /\ ByteMod > 16 /\ 0 < IntMod /\ IntMod <= LongLongMod
  /\ IntMod % ByteMod = 0 /\ LongLongMod % ByteMod = 0
  /\ SmallBuffer > 2 /\ IntMod <= Power(2, SmallBuffer)
  /\ LargeBuffer > 1 /\ LongLongMod <= Power(2, LargeBuffer - 1)

kDigits == <<"0", "1", "2", "3", "4", "5", "6", "7", "8", "9", "A", "B", "C", "D", "E", "F">>

Scale == 2 * Power(10, MaxPlaces)

-----------------------------------------------------------------------------
(* Writing *)

\* Mutant of SignedMagnitude: -value in the width of an int.
NarrowMagnitude(value) ==
  IF value = -(IntMod \div 2) THEN LongLongMod - IntMod \div 2 ELSE IF value < 0 THEN -value ELSE value

\* -(value + 1) + 1 as unsigned: right for the least value, too.
SignedMagnitude(value) == IF value < 0 THEN -(value + 1) + 1 ELSE value

Digits(value, base) ==
  LET f[v \in Nat] ==
        IF v < base THEN <<kDigits[v + 1]>>
        ELSE Append(f[v \div base], kDigits[(v % base) + 1])
  IN  f[value]

UsedBase(base) == IF base < 2 \/ base > 16 THEN 10 ELSE base

RawByte(value) == <<"byte " \o ToString(value % ByteMod)>>

\* Print::printNumber: base 0 writes the number itself, as a byte.
PrintNumber(value, base) == IF base = 0 THEN RawByte(value) ELSE Digits(value, UsedBase(base))

\* Print::print(int, base), or of a long long: the pieces that are written one
\* after the other.  The base is narrowed to a byte only after it is compared.
PrintPieces(value, base, mod) ==
  IF base = 10 /\ value < 0
  THEN <<<<"-">>, PrintNumber(SignedMagnitude(value), 10)>>
  ELSE <<PrintNumber(value % mod, base % ByteMod)>>

PrintInt(value, base, mod) == FlattenSeq(PrintPieces(value, base, mod))

LastOf(seq, n) == IF Len(seq) <= n THEN seq ELSE SubSeq(seq, Len(seq) - n + 1, Len(seq))

\* formatUnsignedNumber: the digits that fit, the low ones.
FormatUnsigned(value, base, size) == LastOf(Digits(value, UsedBase(base)), size - 1)

\* formatSignedNumber over a long long.
FormatSigned(value, base, size) ==
  IF base = 10 /\ value < 0
  THEN <<"-">> \o FormatUnsigned(SignedMagnitude(value), 10, size - 1)
  ELSE FormatUnsigned(value % LongLongMod, base, size)

\* Half a unit of the last place, added to the magnitude.
Rounded(ticks, places) == ticks + Scale \div (2 * Power(10, places))

Decimals(ticks, places) ==
  LET f[n \in Nat] ==   \* the digits after n of them, and the remainder
        IF n = 0 THEN [text |-> <<>>, rest |-> ticks % Scale]
        ELSE [text |-> Append(f[n - 1].text, kDigits[((f[n - 1].rest * 10) \div Scale) + 1]),
              rest |-> (f[n - 1].rest * 10) % Scale]
  IN  f[places].text

\* The digits of printFloat and of formatFloatNumber; up to MaxPlaces decimals.
FloatDigits(ticks, places) ==
  LET p == IF places > MaxPlaces THEN MaxPlaces ELSE places
      v == Rounded(IF ticks < 0 THEN -ticks ELSE ticks, p)
  IN  Digits(v \div Scale, 10) \o (IF p = 0 THEN <<>> ELSE <<".">> \o Decimals(v, p))

\* Print::printFloat.  digits is narrowed to a byte before it is bounded.
PrintFloat(ticks, digits) ==
  (IF ticks < 0 THEN <<"-">> ELSE <<>>) \o FloatDigits(ticks, digits % ByteMod)

\* formatFloatNumber: the same digits into a buffer, which they always fit.
FormatFloat(ticks, decimalPlaces) ==
  (IF ticks < 0 THEN <<"-">> ELSE <<>>) \o FloatDigits(ticks, decimalPlaces)

\* The text of String(value, base), by the type of the value.  The base is a
\* byte from the start.
StringOfInt(value, base)      == FormatSigned(value, base % ByteMod, SmallBuffer)
StringOfUnsigned(value, base) == FormatUnsigned(value, base % ByteMod, LargeBuffer)
StringOfLongLong(value, base) == FormatSigned(value, base % ByteMod, LargeBuffer + 1)

-----------------------------------------------------------------------------
(* Sending the text *)

\* println: the text, and the line end with a write of its own.
LinePieces(pieces) == Append(pieces, <<"\r", "\n">>)

\* vprintf: a text that the stack buffer cannot hold needs memory, without which
\* nothing is written and the write error is set.
FormattedPieces(text, memory) == IF Len(text) < StackBuffer \/ memory THEN <<text>> ELSE <<>>

\* Mutant of Written: only the last write is counted.
WrittenLast(pieces, takes) ==
  [count |-> IF takes = <<>> THEN 0 ELSE takes[Len(takes)],
   wire  |-> FlattenSeq([i \in DOMAIN pieces |-> SubSeq(pieces[i], 1, takes[i])])]

\* Each piece is a call of write(), of which the device takes a beginning: byte by
\* byte up to the first it refuses, or what its driver has room for.  A piece that
\* is cut short does not keep the next one back.
Written(pieces, takes) ==
  [count |-> FoldLeft(+, 0, takes),
   wire  |-> FlattenSeq([i \in DOMAIN pieces |-> SubSeq(pieces[i], 1, takes[i])])]

-----------------------------------------------------------------------------
(* Reading the text back *)

DigitValue(c) == (CHOOSE i \in 1 .. 16 : kDigits[i] = c) - 1

IsDigit(c) == \E i \in 1 .. 10 : kDigits[i] = c

Reads(text, base) == FoldLeft(LAMBDA value, c : value * base + DigitValue(c), 0, text)

IsNumber(text, base) ==
  /\ text # <<>> /\ \A i \in DOMAIN text : \E d \in 1 .. base : kDigits[d] = text[i]
  /\ Len(text) > 1 => text[1] # "0"

\* The text of a non-negative number, without leading zeros.
ReadsAs(text, base, value) == IsNumber(text, base) /\ Reads(text, base) = value

SignedReadsAs(text, value) ==
  IF value < 0 THEN text # <<>> /\ text[1] = "-" /\ ReadsAs(Tail(text), 10, -value)
  ELSE ReadsAs(text, 10, value)

\* A negative number that is not written with a sign is read as its complement.
IntegerReadsAs(text, base, signed, value, complement) ==
  IF value < 0 /\ ~signed THEN Reads(text, base) = complement
  ELSE IF value < 0 THEN SignedReadsAs(text, value)
  ELSE ReadsAs(text, base, value)

\* A number with a point is read within half a unit of its last place.
FloatReadsAs(text, places, ticks) ==
  LET p      == IF places > MaxPlaces THEN MaxPlaces ELSE places
      body   == IF ticks < 0 THEN Tail(text) ELSE text
      point  == Len(body) - p
      whole  == IF p = 0 THEN body ELSE SubSeq(body, 1, point - 1)
      unit   == Scale \div Power(10, p)
      actual == Reads(IF p = 0 THEN body ELSE whole \o SubSeq(body, point + 1, Len(body)), 10) * unit
      wanted == IF ticks < 0 THEN -ticks ELSE ticks
  IN  /\ ticks < 0 => text[1] = "-"
      /\ p > 0 => point > 1 /\ body[point] = "."
      /\ IsNumber(whole, 10)
      /\ actual - wanted <= unit \div 2 /\ wanted - actual <= unit \div 2

=============================================================================
