------------------------------- MODULE MCText -------------------------------
(***************************************************************************)
(* The text classes: one String, the numbers that are printed and made     *)
(* Strings of, and a serial port that Stream reads and parses.  A          *)
(* behaviour is about one of them.                                         *)
(***************************************************************************)
EXTENDS StringBuffer

CONSTANTS
  IntMod, LongLongMod, ByteMod, SmallBuffer, LargeBuffer, MaxPlaces, StackBuffer,  \* of NumberText
  Bases, Ticks, Places,                                                            \* of NumberRequests
  Scripts, Targets, Terminators, Ignores, Limit                                    \* of SerialStream

VARIABLES
  part,                                                             \* "string", "numbers" or "stream"
  request, text, out,                                               \* of NumberRequests
  isLogPort, begun, peeked, fifo, script, sent, taken, call, numbers  \* of SerialStream

numbersVars == <<request, text, out>>
streamVars  == <<isLogPort, begun, peeked, fifo, script, sent, taken, call, numbers>>
allVars     == <<part, vars, numbersVars, streamVars>>

-----------------------------------------------------------------------------
(* The instances *)

\* Texts that overlap themselves, differ in case or begin with a space.
SomeTexts == {<<>>, <<"a">>, <<"A">>, <<"a", "a">>, <<" ", "a">>}

\* Doubles on either side of every rounding border.
SomeTicks == {-2001, -1999, -201, -101, -100, -99, -1, 0, 1, 99, 100, 101, 199, 200, 299, 1899, 1999, 2000, 3999}

Numbers == INSTANCE NumberRequests

\* Texts that repeat the beginning of a target, and printed numbers, the least one
\* of a long among them.
Script(chars, parsed, float, ignore) == [text |-> chars, numbers |-> parsed, float |-> float, ignore |-> ignore]
Printed(n) == Numbers!PrintInt(n, 10, IntMod)
Whole(n) == <<n, 0>>

SomeScripts ==
  {Script(<<"a", "a", "a", "b", "a", "b">>, <<>>, FALSE, "none"),
   Script(Printed(-12) \o <<"\r", "\n">> \o Printed(3) \o <<"\r", "\n">>, <<Whole(-12), Whole(3)>>, FALSE, "none"),
   Script(<<"x">> \o Printed(-32) \o <<"\r", "\n">>, <<Whole(-32)>>, FALSE, "none"),
   Script(<<"1", ",", "2", " ", "-", "3", " ">>, <<Whole(12), Whole(-3)>>, FALSE, ","),
   Script(Printed(-1) \o Printed(-2) \o <<" ">>, <<Whole(-1), Whole(-2)>>, FALSE, "none"),
   Script(Numbers!PrintFloat(-250, 1) \o <<" ">> \o Numbers!PrintFloat(50, 1) \o <<"\n">>,
          <<<<-13, 1>>, <<3, 1>>>>, TRUE, "none")}

SomeTargets ==
  {<<<<"a", "b">>>>, <<<<"a", "a", "b">>>>, <<<<"a", "b", "a", "b">>>>, <<<<"b">>, <<"a", "a">>>>,
   <<<<"a", "b">>, <<>>>>, <<<<>>>>}

Port == INSTANCE SerialStream

ASSUME TextAssumption ==
  StringAssumption /\ Numbers!NumberAssumption /\ Numbers!RequestAssumption /\ Port!StreamAssumption

-----------------------------------------------------------------------------
\* A part that does not move starts in one of its initial states only.
TextInit ==
  /\ part \in {"string", "numbers", "stream"}
  /\ Init /\ Numbers!Init /\ Port!Init
  /\ part # "stream" => isLogPort = FALSE /\ script = CHOOSE sc \in Scripts : TRUE

StringNext  == part = "string" /\ Next /\ UNCHANGED <<part, numbersVars, streamVars>>
NumbersNext == part = "numbers" /\ Numbers!Next /\ UNCHANGED <<part, vars, streamVars>>
StreamNext  == part = "stream" /\ Port!Next /\ UNCHANGED <<part, vars, numbersVars>>

TextSpec == TextInit /\ [][StringNext \/ NumbersNext \/ StreamNext]_allVars

-----------------------------------------------------------------------------
\* What is printed is the number, and what is counted is what was sent: see
\* NumberRequests.
PrintsTruly == Numbers!PrintsTruly

\* No byte of a port is lost, returned twice or out of order: see SerialStream.
BytesInOrder == Port!BytesInOrder

\* A target that is found is what was read last: see SerialStream.
FindsWhatIsThere == Port!FindsWhatIsThere

\* The numbers that are parsed are those that were printed: see SerialStream.
ParsesWhatWasPrinted == Port!ParsesWhatWasPrinted

=============================================================================
