--------------------------- MODULE NumberRequests ---------------------------
(***************************************************************************)
(* The requests of a sketch one after the other, every number of a small   *)
(* width in every base, and the text each one gives.                       *)
(***************************************************************************)
EXTENDS NumberText

CONSTANTS
  Bases,   \* what a sketch passes as the base
  Ticks,   \* doubles, in units of NumberText!Scale
  Places   \* decimal places it asks for

RequestAssumption == Bases \cup Ticks \subseteq Int /\ Places \subseteq Nat

VARIABLES request, text, out
vars == <<request, text, out>>

NotSent == [count |-> 0, wire |-> <<>>]

Signed(mod) == -(mod \div 2) .. mod \div 2 - 1

Asked(kind, value, base) == request' = [kind |-> kind, value |-> value, base |-> base]

\* print(int) and String(int).
PrintsInt   == \E v \in Signed(IntMod), b \in Bases : Asked("print", v, b) /\ text' = PrintInt(v, b, IntMod)
MakesInt    == \E v \in Signed(IntMod), b \in Bases : Asked("String", v, b) /\ text' = StringOfInt(v, b)
MakesUnsigned == \E v \in 0 .. IntMod - 1, b \in Bases : Asked("String", v, b) /\ text' = StringOfUnsigned(v, b)
\* The same of a long long.
PrintsLong  == \E v \in Signed(LongLongMod), b \in Bases :
                 Asked("print long long", v, b) /\ text' = PrintInt(v, b, LongLongMod)
MakesLong   == \E v \in Signed(LongLongMod), b \in Bases :
                 Asked("String long long", v, b) /\ text' = StringOfLongLong(v, b)
\* And of a double.
PrintsFloat == \E v \in Ticks, p \in Places : Asked("print double", v, p) /\ text' = PrintFloat(v, p)
MakesFloat  == \E v \in Ticks, p \in Places : Asked("String double", v, p) /\ text' = FormatFloat(v, p)

\* println(int) and printf over a device that takes what it likes.
Sends(pieces) ==
  \E takes \in [DOMAIN pieces -> 0 .. Len(text')] :
    /\ \A i \in DOMAIN pieces : takes[i] <= Len(pieces[i])
    /\ out' = Written(pieces, takes)

PrintsLine == \E v \in Signed(IntMod) :
  LET pieces == LinePieces(PrintPieces(v, 10, IntMod))
  IN  Asked("println", v, 10) /\ text' = FlattenSeq(pieces) /\ Sends(pieces)

Formats == \E v \in Signed(IntMod), memory \in BOOLEAN :
  /\ Asked("printf", v, 10) /\ text' = PrintInt(v, 10, IntMod)
  /\ Sends(FormattedPieces(text', memory))

NoRequest == [kind |-> "none", value |-> 0, base |-> 10]

Init == request = NoRequest /\ text = <<>> /\ out = NotSent

\* The sketch is done with what it asked for.
Forget == request.kind # "none" /\ request' = NoRequest /\ text' = <<>> /\ out' = NotSent

Next ==
  \/ /\ request.kind = "none"
     /\ PrintsInt \/ MakesInt \/ MakesUnsigned \/ PrintsLong \/ MakesLong \/ PrintsFloat \/ MakesFloat
     /\ UNCHANGED out
  \/ request.kind = "none" /\ (PrintsLine \/ Formats)
  \/ Forget

Spec == Init /\ [][Next]_vars

\* The text of a number, read in the base that was asked for (10 for one there are
\* no digits for), is that number, the least one of its type included; of base 0 it
\* is a byte.  A negative number in another base than 10 is written as its two's
\* complement, in the width of its type when it is printed and in that of a long
\* long when a String is made of it, as far as the digits fit.  A double is at most
\* half a unit of its last place off.
TextIsValue ==
  LET kind   == request.kind
      v      == request.value
      narrow == request.base % ByteMod
      base   == UsedBase(narrow)
      end    == Len(text) - 2
      printed(complement) == IF narrow = 0 THEN text = RawByte(v)
                             ELSE IntegerReadsAs(text, base, request.base = 10, v, complement)
      made(complement)    == IntegerReadsAs(text, base, narrow = 10, v, complement)
  IN  /\ kind = "none"             => text = <<>>
      /\ kind = "print"            => printed(v % IntMod)
      /\ kind = "print long long"  => printed(v % LongLongMod)
      /\ kind = "String"           => made((v % LongLongMod) % Power(base, SmallBuffer - 1))
      /\ kind = "String long long" => made(v % LongLongMod)
      /\ kind = "print double"     => FloatReadsAs(text, narrow, v)
      /\ kind = "String double"    => FloatReadsAs(text, request.base, v)
      /\ kind = "printf"           => SignedReadsAs(text, v)
      /\ kind = "println"          => /\ SubSeq(text, end + 1, end + 2) = <<"\r", "\n">>
                                      /\ SignedReadsAs(SubSeq(text, 1, end), v)

\* println() and printf() return the length of the text exactly when all of it was
\* taken: a sketch that compares the two notices every byte that was not, be it
\* the sign in front of the digits.
CountTellsLoss ==
  request.kind \in {"println", "printf"} => (out.count = Len(text) <=> out.wire = text)

\* What is printed is the number, and what is counted is what was sent.
PrintsTruly == TextIsValue /\ CountTellsLoss

=============================================================================
