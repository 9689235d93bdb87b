----------------------------- MODULE SerialStream -----------------------------
(***************************************************************************)
(* A HardwareSerial (HardwareSerial.cpp) with the calls of Stream          *)
(* (Stream.cpp) that wait for characters and those of Print (Print.cpp)    *)
(* that write them.  The other end sends a text, some of it printed        *)
(* numbers, at its own pace; a call that waits may time out whenever there *)
(* is nothing to read.                                                     *)
(***************************************************************************)
EXTENDS NumberText

CONSTANTS
  Scripts,      \* what the other end may send: [text, numbers, float, ignore]
  Targets,      \* sequences of one target, or of a target and a terminator
  Terminators,  \* characters readBytesUntil stops at; "none" for the other calls
  Ignores,      \* characters parseInt skips inside a number
  Limit         \* size of the buffers of readBytes and read(buffer)

StreamAssumption ==
  /\ Limit \in Nat \ {0}
  /\ \A s \in Scripts : s.text \in Seq(STRING) /\ s.float \in BOOLEAN
  /\ \A ts \in Targets : ts \in Seq(Seq(STRING)) /\ Len(ts) \in {1, 2}

VARIABLES
  isLogPort, begun,
  peeked,   \* the byte that peek() has put aside, or none
  fifo,     \* bytes the driver has received
  script,   \* what the other end sends
  sent,     \* how much of it has been sent
  taken,    \* how much of it has been read, or dropped with peeked_
  call,     \* the call of Stream in progress, or the last one
  numbers   \* history: the numbers that were parsed, while nothing else was read

port == <<isLogPort, begun, script>>
vars == <<port, peeked, fifo, sent, taken, call, numbers>>

NoCall == [op |-> "none", from |-> 0]

Fresh   == [clean |-> TRUE, parsed |-> <<>>]
Spoiled == [clean |-> FALSE, parsed |-> <<>>]

Busy == call.op \notin {"none", "done"}

Init ==
  /\ isLogPort \in BOOLEAN /\ begun = FALSE /\ script \in Scripts
  /\ peeked = <<>> /\ fifo = <<>> /\ sent = 0 /\ taken = 0
  /\ call = NoCall /\ numbers = Fresh

-----------------------------------------------------------------------------
(* The port *)

Readable == begun /\ ~isLogPort

\* begin() and end() forget the byte that was put aside.  The driver keeps what it
\* has received when it is set up again, or empties its buffer.
Forget ==
  /\ peeked' = <<>>
  /\ \/ fifo' = fifo /\ taken' = taken + Len(peeked)
     \/ fifo' = <<>> /\ taken' = sent
  /\ numbers' = IF taken' = taken THEN numbers ELSE Spoiled

\* The log port has no driver.
Begin ==
  /\ ~Busy
  /\ IF isLogPort THEN begun' = TRUE /\ UNCHANGED <<peeked, fifo, taken, numbers>>
     ELSE begun' \in BOOLEAN /\ Forget
  /\ UNCHANGED <<isLogPort, script, sent, call>>

End ==
  /\ ~Busy
  /\ begun' = FALSE
  /\ IF Readable THEN Forget ELSE UNCHANGED <<peeked, fifo, taken, numbers>>
  /\ UNCHANGED <<isLogPort, script, sent, call>>

\* What read() and peek() would return.
Waiting == peeked \o fifo

\* Mutant of Take: the byte that was put aside is not returned first.
TakeFromDriver(n) ==
  /\ Readable /\ n <= Len(Waiting)
  /\ peeked' = IF fifo = <<>> THEN <<>> ELSE peeked
  /\ fifo' = IF fifo = <<>> THEN fifo ELSE SubSeq(fifo, n + 1, Len(fifo))
  /\ taken' = taken + n

\* read() returns the byte put aside, or the driver's next; read(buffer, n) the
\* one and then the others.
Take(n) ==
  /\ Readable /\ n <= Len(Waiting)
  /\ peeked' = SubSeq(peeked, n + 1, Len(peeked))
  /\ fifo' = IF n > Len(peeked) THEN SubSeq(fifo, n - Len(peeked) + 1, Len(fifo)) ELSE fifo
  /\ taken' = taken + n

\* peek() moves one byte from the driver.
PutAside ==
  /\ peeked' = SubSeq(Waiting, 1, 1)
  /\ fifo' = IF peeked = <<>> THEN Tail(fifo) ELSE fifo
  /\ UNCHANGED taken

KeepBytes == UNCHANGED <<peeked, fifo, taken>>

Available == IF Readable THEN Len(Waiting) ELSE 0

Read(n) ==
  /\ ~Busy /\ Take(n) /\ n > 0
  /\ n = Limit \/ n = 1 \/ n = Len(Waiting)
  /\ numbers' = Spoiled
  /\ UNCHANGED <<port, sent, call>>

Peek ==
  /\ ~Busy /\ Readable /\ Waiting # <<>>
  /\ PutAside
  /\ UNCHANGED <<port, sent, call, numbers>>

-----------------------------------------------------------------------------
(* Waiting *)

\* timedRead() and timedPeek() ask again until there is a byte; here they wait.
\* They give up after a timeout in which there was none.
Gives == Readable /\ Waiting # <<>>

\* The call returns with result; it leaves its part of the text to be looked at.
Return(result) == call' = [op |-> "done", from |-> call.from, to |-> taken', was |-> call, result |-> result]

\* Mutant of NextIndex: a mismatch always starts again before the first character.
NextIndexRestarts(target, index, c) == IF c = target[index + 1] THEN index + 1 ELSE 0

\* The loop of findMulti over one character.  After a mismatch the match starts
\* with this character or not at all: a longer part of what was matched is not
\* tried again.
NextIndex(target, index, c) ==
  IF c = target[index + 1] THEN index + 1
  ELSE IF c = target[1] THEN 1 ELSE 0

\* An empty target is found at once, and an empty terminator is none.
StartFind(targets) ==
  LET used == IF Len(targets) = 2 /\ targets[2] = <<>> THEN <<targets[1]>> ELSE targets
      next == [op |-> "find", from |-> taken, targets |-> used, index |-> [i \in DOMAIN used |-> 0]]
  IN  /\ ~Busy
      /\ IF \E i \in DOMAIN used : used[i] = <<>>
         THEN call' = [op |-> "done", from |-> taken, to |-> taken, was |-> next,
                       result |-> CHOOSE i \in DOMAIN used : used[i] = <<>>]
         ELSE call' = next
      /\ UNCHANGED <<port, peeked, fifo, sent, taken, numbers>>

\* findMulti returns the first target that is complete: 1 the target, 2 the
\* terminator.
Find ==
  LET c     == Head(Waiting)
      index == [i \in DOMAIN call.targets |-> NextIndex(call.targets[i], call.index[i], c)]
      found == {i \in DOMAIN index : index[i] = Len(call.targets[i])}
  IN  /\ call.op = "find" /\ Gives
      /\ Take(1)
      /\ IF found = {} THEN call' = [call EXCEPT !.index = index]
         ELSE Return(CHOOSE i \in found : \A j \in found : i <= j)
      /\ numbers' = Spoiled
      /\ UNCHANGED <<port, sent>>

\* readBytes and readBytesUntil, with a limit, and readString and
\* readStringUntil, without.
StartCollect(terminator, limited) ==
  /\ ~Busy
  /\ call' = [op |-> "collect", from |-> taken, terminator |-> terminator, limited |-> limited, kept |-> <<>>]
  /\ UNCHANGED <<port, peeked, fifo, sent, taken, numbers>>

\* A String drops a character it has no memory for.
Collect ==
  LET c == Head(Waiting)
      more == Append(call.kept, c)
  IN  /\ call.op = "collect" /\ Gives
      /\ Take(1)
      /\ \/ c = call.terminator /\ Return(call.kept)
         \/ /\ c # call.terminator
            /\ IF call.limited /\ Len(more) = Limit THEN Return(more)
               ELSE call' \in {[call EXCEPT !.kept = k] : k \in IF call.limited THEN {more} ELSE {more, call.kept}}
      /\ numbers' = Spoiled
      /\ UNCHANGED <<port, sent>>

IsSpace(c) == c \in {" ", "\t", "\r", "\n"}

StartParse(mode, ignore, float) ==
  /\ ~Busy
  /\ call' = [op |-> "seek", from |-> taken, mode |-> mode, ignore |-> ignore, float |-> float,
              value |-> 0, places |-> 0, negative |-> FALSE, point |-> FALSE]
  /\ UNCHANGED <<port, peeked, fifo, sent, taken, numbers>>

\* The call reads numbers as the script writes them.
Suits == (script.float => call.float) /\ (script.ignore = "none" \/ script.ignore = call.ignore)

StartsNumber(c) == c = "-" \/ IsDigit(c) \/ (call.float /\ c = ".")

\* peekNextDigit: the next character that starts a number, or the end of the call
\* at one the mode does not skip, which stays to be read.
Skip ==
  LET c == Head(Waiting)
  IN  /\ call.op = "seek" /\ Gives /\ ~StartsNumber(c)
      /\ IF call.mode = "SKIP_ALL" \/ (call.mode = "SKIP_WHITESPACE" /\ IsSpace(c))
         THEN Take(1) /\ UNCHANGED call
         ELSE PutAside /\ Return(<<0, 0>>)
      /\ numbers' = IF Suits THEN numbers ELSE Spoiled
      /\ UNCHANGED <<port, sent>>

Wrapped(value) == ((value + IntMod \div 2) % IntMod) - IntMod \div 2

\* A character of the number: a long keeps IntMod values, of a float the value and
\* the decimal places are kept.  A sign counts wherever it is met.
Digested(c) ==
  IF c = "-" THEN [call EXCEPT !.op = "parse", !.negative = TRUE]
  ELSE IF call.float /\ c = "." THEN [call EXCEPT !.op = "parse", !.point = TRUE]
  ELSE IF IsDigit(c)
  THEN [call EXCEPT !.op = "parse",
          !.value = IF call.float THEN @ * 10 + DigitValue(c) ELSE Wrapped(@ * 10 + DigitValue(c)),
          !.places = IF call.point THEN @ + 1 ELSE @]
  ELSE [call EXCEPT !.op = "parse"]

GoesOn(c) == c = call.ignore \/ IsDigit(c) \/ (call.float /\ c = ".")

Result ==
  LET v == IF call.negative THEN -call.value ELSE call.value
  IN  <<IF call.float THEN v ELSE Wrapped(v), call.places>>

Parsed == numbers' = IF numbers.clean THEN [numbers EXCEPT !.parsed = Append(@, Result)] ELSE Spoiled

\* Mutant of Parse: the character behind the number is read with it.
ParseSwallows ==
  LET c == Head(Waiting)
  IN  /\ \/ call.op = "seek" /\ Gives /\ StartsNumber(c)
         \/ call.op = "parse" /\ Gives
      /\ Take(1)
      /\ IF call.op = "seek" \/ GoesOn(c)
         THEN call' = Digested(c) /\ numbers' = IF Suits THEN numbers ELSE Spoiled
         ELSE Return(Result) /\ Parsed
      /\ UNCHANGED <<port, sent>>

\* The loop of parseInt and parseFloat: the character behind the number stays to
\* be read.
Parse ==
  LET c == Head(Waiting)
  IN  /\ \/ call.op = "seek" /\ Gives /\ StartsNumber(c)
         \/ call.op = "parse" /\ Gives
      /\ IF call.op = "seek" \/ GoesOn(c)
         THEN Take(1) /\ call' = Digested(c) /\ numbers' = IF Suits THEN numbers ELSE Spoiled
         ELSE PutAside /\ Return(Result) /\ Parsed
      /\ UNCHANGED <<port, sent>>

\* No byte came in time: find fails, the others return what they have, and a
\* number may end in the middle.
TimeOut ==
  /\ Busy /\ ~Gives
  /\ KeepBytes
  /\ CASE call.op = "find"    -> Return(0)
       [] call.op = "collect" -> Return(call.kept)
       [] call.op = "seek"    -> Return(<<0, 0>>)
       [] call.op = "parse"   -> Return(Result)
  /\ numbers' = IF call.op = "parse" THEN Spoiled ELSE numbers
  /\ UNCHANGED <<port, sent>>

-----------------------------------------------------------------------------

\* A byte arrives; the other end sends only while the port is open.
Arrive ==
  /\ Readable /\ sent < Len(script.text)
  /\ sent' = sent + 1
  /\ fifo' = Append(fifo, script.text[sent + 1])
  /\ UNCHANGED <<port, peeked, taken, call, numbers>>

Modes == {"SKIP_ALL", "SKIP_NONE", "SKIP_WHITESPACE"}

Next ==
  \/ Begin \/ End \/ Peek \/ Arrive
  \/ \E n \in 1 .. Limit + 1 : Read(n)
  \/ \E ts \in Targets : StartFind(ts)
  \/ \E t \in Terminators, limited \in BOOLEAN : StartCollect(t, limited)
  \/ \E mode \in Modes, ignore \in Ignores, float \in BOOLEAN : StartParse(mode, ignore, float)
  \/ Find \/ Collect \/ Skip \/ Parse \/ TimeOut

Spec == Init /\ [][Next]_vars

-----------------------------------------------------------------------------
(* Properties *)

\* Every variable has the values its declaration promises.
TypeOK ==
  /\ {isLogPort, begun} \subseteq BOOLEAN /\ script \in Scripts
  /\ Len(peeked) <= 1 /\ sent \in 0 .. Len(script.text) /\ taken \in 0 .. sent

\* The text of a call: what it has read, from the first byte to the last.
CallText == SubSeq(script.text, call.from + 1, taken)

\* The longest beginning of target, shorter than it, that text ends in.
Progress(target, text) ==
  CHOOSE k \in 0 .. Len(target) - 1 :
    /\ IsSuffix(SubSeq(target, 1, k), text)
    /\ \A n \in k + 1 .. Len(target) - 1 : ~IsSuffix(SubSeq(target, 1, n), text)

\* A target in which no beginning repeats before the mismatch that ends it: the
\* others, like aab in aaab, findMulti may read past.
Restartable(target) ==
  \A k \in 1 .. Len(target) - 1 : \A b \in 1 .. k - 1 :
    IsSuffix(SubSeq(target, 1, b), SubSeq(target, 1, k)) => target[b + 1] = target[k + 1]

\* The bytes that wait, the one put aside first, are those the other end has sent
\* and that were not read: none is lost, returned twice or out of order,
\* whatever calls are mixed, save for the one begin() and end() drop.  What a
\* call that collects has kept is what it has read.
BytesInOrder ==
  /\ TypeOK
  /\ Waiting = SubSeq(script.text, taken + 1, sent)
  /\ Readable => Available = sent - taken
  /\ call.op = "collect" /\ call.limited => call.kept = CallText

\* A target that is reported found is what was read last; and one that can be
\* restarted is never read past: the search is as far as the text is.
FindsWhatIsThere ==
  /\ call.op = "find" =>
       \A i \in DOMAIN call.targets :
         /\ IsSuffix(SubSeq(call.targets[i], 1, call.index[i]), CallText)
         /\ Restartable(call.targets[i]) => call.index[i] = Progress(call.targets[i], CallText)
  /\ call.op = "done" /\ call.was.op = "find" /\ call.result # 0 =>
       IsSuffix(call.was.targets[call.result], SubSeq(script.text, call.from + 1, call.to))

\* A sketch that only parses reads the numbers that were printed, in order, each
\* once and whole, in every mode of skipping, with what it peeks at and however
\* the bytes arrive, as long as no parse ends for want of a byte.
ParsesWhatWasPrinted == numbers.clean => IsPrefix(numbers.parsed, script.numbers)

=============================================================================
