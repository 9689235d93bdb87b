------------------------------ MODULE BusesProofs ------------------------------
(***************************************************************************)
(* Wire sends what was written and reads back what was answered, and SPI   *)
(* clocks what was asked for as it was asked for, for every buffer, word,  *)
(* clock rate and order of calls, one by one and side by side.             *)
(***************************************************************************)
EXTENDS MCBuses, SequenceTheorems, TLAPS

-----------------------------------------------------------------------------
(* Wire: the inductive invariant *)

\* The last members of t are those of s.
Ends(s, t) ==
  /\ Len(s) <= Len(t)
  /\ \A i \in 0 .. Len(s) - 1 : s[Len(s) - i] = t[Len(t) - i]

Typed ==
  /\ clock \in Clocks \ {0} /\ driver \in 0 .. 3 /\ address \in 0 .. AddressMod - 1
  /\ tx \in Seq(Nat) /\ Len(tx) <= BufferLength /\ rx \in Seq(Nat) /\ Len(rx) <= BufferLength
  /\ written \in Seq(Nat) /\ answer \in Seq(Nat)

Flags ==
  /\ initialized \in BOOLEAN /\ transmitting \in BOOLEAN
  /\ disturbed \in BOOLEAN /\ refused \in BOOLEAN

\* The buffer of a transmission holds the end of what was written, all of it
\* unless the bus was set up or closed meanwhile.
Collected ==
  transmitting => Ends(tx, written) /\ (disturbed \/ tx = written)

\* So does what was sent with success.
Sent ==
  result.code = 0 => /\ result.sent = result.taken \/ result.disturbed
                     /\ IsSuffix(result.sent, result.taken)

\* The object knows whether the bus is open, and for which rate.
Known ==
  ~refused => /\ initialized => driver = SpeedCode(clock)
              /\ ~initialized => driver = 0

IInv == Typed /\ Flags /\ Collected /\ Sent /\ Ends(rx, answer) /\ Known

-----------------------------------------------------------------------------
(* The ends of sequences *)

\* Sequences with the same members are the same.
LEMMA SameMembers ==
  ASSUME NEW s \in Seq(Nat), NEW t \in Seq(Nat), Len(s) = Len(t), \A i \in 1 .. Len(s) : s[i] = t[i]
  PROVE  s = t
<1>1. s \in [1 .. Len(s) -> Nat] /\ t \in [1 .. Len(t) -> Nat]
  BY LenProperties
<1>2. QED
  BY <1>1

\* A sequence ends with itself and with nothing.
LEMMA EndsTrivially ==
  ASSUME NEW s \in Seq(Nat)
  PROVE  Ends(s, s) /\ Ends(<<>>, s)
  BY DEF Ends

\* The rest of an end is an end.
LEMMA EndsTail ==
  ASSUME NEW s \in Seq(Nat), NEW t \in Seq(Nat), s # <<>>, Ends(s, t)
  PROVE  Tail(s) \in Seq(Nat) /\ Len(Tail(s)) <= Len(s) /\ Ends(Tail(s), t)
<1>1. Tail(s) \in Seq(Nat) /\ Len(Tail(s)) = Len(s) - 1 /\ Len(s) \in Nat \ {0} /\ Len(t) \in Nat
  BY EmptySeq
<1>2. \A k \in 1 .. Len(s) - 1 : Tail(s)[k] = s[k + 1]
  OBVIOUS
<1>3. ASSUME NEW i \in 0 .. Len(s) - 2 PROVE Tail(s)[(Len(s) - 1) - i] = t[Len(t) - i]
  <2>1. (Len(s) - 1) - i \in 1 .. Len(s) - 1 /\ i \in 0 .. Len(s) - 1 /\ (Len(s) - 1) - i + 1 = Len(s) - i
    BY <1>1
  <2>2. QED
    BY <1>2, <2>1 DEF Ends
<1>4. QED
  BY <1>1, <1>3 DEF Ends

\* A sequence put behind another.
LEMMA JoinedIs ==
  ASSUME NEW s \in Seq(Nat), NEW t \in Seq(Nat)
  PROVE  /\ s \o t \in Seq(Nat) /\ Len(s \o t) = Len(s) + Len(t)
         /\ \A k \in 1 .. Len(s) + Len(t) : (s \o t)[k] = IF k <= Len(s) THEN s[k] ELSE t[k - Len(s)]
  OBVIOUS

\* What is put behind a sequence and its end keeps it one.
LEMMA EndsJoined ==
  ASSUME NEW s \in Seq(Nat), NEW t \in Seq(Nat), NEW c \in Seq(Nat), Ends(s, t)
  PROVE  Ends(s \o c, t \o c)
<1>1. Len(s) \in Nat /\ Len(t) \in Nat /\ Len(c) \in Nat /\ Len(s) <= Len(t)
  BY DEF Ends
<1>2. /\ Len(s \o c) = Len(s) + Len(c)
      /\ \A k \in 1 .. Len(s) + Len(c) : (s \o c)[k] = IF k <= Len(s) THEN s[k] ELSE c[k - Len(s)]
  BY JoinedIs, Zenon
<1>3. /\ Len(t \o c) = Len(t) + Len(c)
      /\ \A k \in 1 .. Len(t) + Len(c) : (t \o c)[k] = IF k <= Len(t) THEN t[k] ELSE c[k - Len(t)]
  BY JoinedIs, Zenon
<1>4. ASSUME NEW i \in 0 .. Len(s) + Len(c) - 1
      PROVE  (s \o c)[Len(s) + Len(c) - i] = (t \o c)[Len(t) + Len(c) - i]
  <2>1. Len(s) + Len(c) - i \in 1 .. Len(s) + Len(c) /\ Len(t) + Len(c) - i \in 1 .. Len(t) + Len(c)
    BY <1>1
  <2>2. CASE i < Len(c)
    <3>1. ~(Len(s) + Len(c) - i <= Len(s)) /\ ~(Len(t) + Len(c) - i <= Len(t))
          /\ Len(s) + Len(c) - i - Len(s) = Len(c) - i /\ Len(t) + Len(c) - i - Len(t) = Len(c) - i
      BY <1>1, <2>2
    <3>2. (s \o c)[Len(s) + Len(c) - i] = c[Len(c) - i] /\ (t \o c)[Len(t) + Len(c) - i] = c[Len(c) - i]
      BY <1>2, <1>3, <2>1, <3>1
    <3>3. QED
      BY <3>2
  <2>3. CASE ~(i < Len(c))
    <3>1. Len(s) + Len(c) - i <= Len(s) /\ Len(t) + Len(c) - i <= Len(t) /\ i - Len(c) \in 0 .. Len(s) - 1
          /\ Len(s) - (i - Len(c)) = Len(s) + Len(c) - i /\ Len(t) - (i - Len(c)) = Len(t) + Len(c) - i
      BY <1>1, <2>3
    <3>2. s[Len(s) + Len(c) - i] = t[Len(t) + Len(c) - i]
      BY <3>1 DEF Ends
    <3>3. (s \o c)[Len(s) + Len(c) - i] = s[Len(s) + Len(c) - i] /\ (t \o c)[Len(t) + Len(c) - i] = t[Len(t) + Len(c) - i]
      BY <1>2, <1>3, <2>1, <3>1
    <3>4. QED
      BY <3>2, <3>3
  <2>4. QED
    BY <2>2, <2>3
<1>5. Len(s) + Len(c) <= Len(t) + Len(c)
  BY <1>1
<1>6. QED
  BY <1>2, <1>3, <1>4, <1>5 DEF Ends

\* An end is a suffix in the sense of the library.
LEMMA EndsIsSuffix ==
  ASSUME NEW s \in Seq(Nat), NEW t \in Seq(Nat), Ends(s, t)
  PROVE  IsSuffix(s, t)
<1> DEFINE a == Reverse(s)
           b == Reverse(t)
<1>1. Len(s) \in Nat /\ Len(t) \in Nat /\ Len(s) <= Len(t)
  BY DEF Ends
<1>2. a \in Seq(Nat) /\ Len(a) = Len(s) /\ \A k \in 1 .. Len(s) : a[k] = s[Len(s) - k + 1]
  BY <1>1 DEF Reverse
<1>3. b \in Seq(Nat) /\ Len(b) = Len(t) /\ \A k \in 1 .. Len(t) : b[k] = t[Len(t) - k + 1]
  BY <1>1 DEF Reverse
<1> HIDE DEF a, b
<1>4. \A k \in 1 .. Len(s) : a[k] = b[k]
  <2> SUFFICES ASSUME NEW k \in 1 .. Len(s) PROVE a[k] = b[k]
    OBVIOUS
  <2>1. k - 1 \in 0 .. Len(s) - 1 /\ Len(s) - (k - 1) = Len(s) - k + 1 /\ Len(t) - (k - 1) = Len(t) - k + 1
        /\ k \in 1 .. Len(t)
    BY <1>1
  <2>2. s[Len(s) - (k - 1)] = t[Len(t) - (k - 1)]
    BY <2>1 DEF Ends
  <2>3. QED
    BY <1>2, <1>3, <2>1, <2>2
<1>5. SubSeq(a, 1, Len(a)) = SubSeq(b, 1, Len(a))
  <2>1. PICK n \in Nat : n = Len(s) /\ n = Len(a) /\ n <= Len(b)
    BY <1>1, <1>2, <1>3
  <2>2. SubSeq(a, 1, n) = [k \in 1 .. n |-> a[k]] /\ SubSeq(b, 1, n) = [k \in 1 .. n |-> b[k]]
    BY <2>1
  <2>3. QED
    BY <1>4, <2>1, <2>2
<1>6. IsPrefix(a, b)
  BY <1>1, <1>2, <1>3, <1>5 DEF IsPrefix
<1>7. QED
  BY <1>6 DEF IsSuffix, a, b

-----------------------------------------------------------------------------
(* Every action preserves it *)

\* The assumptions on the constants, and the speeds that clock rates give.
LEMMA Constants ==
  WireAssumption => /\ BufferLength \in Nat \ {0} /\ AddressMod \in Nat \ {0}
                    /\ Addresses \subseteq Nat /\ Clocks \subseteq Nat /\ Quantities \subseteq Int
                    /\ \A bytes \in Chunks : bytes \in Seq(Nat)
                    /\ \A c : SpeedCode(c) \in 1 .. 3
  BY DEF WireAssumption, SpeedCode

\* Calls other than endTransmission report nothing.
LEMMA NothingSent == result' = NoResult => Sent'
  BY DEF NoResult, Sent

\* An empty buffer.
LEMMA EmptyIs == WireAssumption => <<>> \in Seq(Nat) /\ Len(<<>>) = 0 /\ Len(<<>>) <= BufferLength
  BY Constants

\* A set-up empties both buffers; one that fails leaves them, and the bus as it was
\* or closed.
LEMMA InvSetUp ==
  ASSUME WireAssumption, IInv, NEW c, SetUp(c), c = clock'
  PROVE  /\ driver' \in 0 .. 3 /\ tx' \in Seq(Nat) /\ Len(tx') <= BufferLength
         /\ rx' \in Seq(Nat) /\ Len(rx') <= BufferLength
         /\ initialized' \in BOOLEAN /\ disturbed' \in BOOLEAN /\ refused' \in BOOLEAN
         /\ UNCHANGED <<tx, rx, disturbed>> \/ (tx' = <<>> /\ rx' = <<>> /\ disturbed' = TRUE)
         /\ Known'
<1>1. CASE /\ driver' = SpeedCode(c) /\ initialized' = TRUE /\ refused' = FALSE
           /\ tx' = <<>> /\ rx' = <<>> /\ disturbed' = TRUE
  <2>1. driver' \in 0 .. 3
    BY <1>1, Constants
  <2>2. Known'
    BY <1>1 DEF Known
  <2>3. QED
    BY <1>1, <2>1, <2>2, EmptyIs, Zenon
<1>2. CASE /\ driver' \in {driver, 0} /\ initialized' = FALSE /\ refused' = TRUE
           /\ UNCHANGED <<tx, rx, disturbed>>
  <2>1. driver' \in 0 .. 3
    BY <1>2 DEF IInv, Typed
  <2>2. Known'
    BY <1>2 DEF Known
  <2>3. disturbed' \in BOOLEAN
    BY <1>2 DEF IInv, Flags
  <2>4. tx' \in Seq(Nat) /\ Len(tx') <= BufferLength /\ rx' \in Seq(Nat) /\ Len(rx') <= BufferLength
    BY <1>2 DEF IInv, Typed
  <2>5. QED
    BY <1>2, <2>1, <2>2, <2>3, <2>4, Zenon
<1>3. QED
  BY <1>1, <1>2 DEF SetUp

\* An end that stays, or that nothing is left of.
LEMMA BuffersKept ==
  ASSUME IInv, UNCHANGED <<written, answer>>, transmitting' => transmitting,
         UNCHANGED <<tx, rx, disturbed>> \/ (tx' = <<>> /\ rx' = <<>> /\ disturbed' = TRUE)
  PROVE  Collected' /\ Ends(rx, answer)'
<1>1. written \in Seq(Nat) /\ answer \in Seq(Nat)
  BY DEF IInv, Typed
<1>2. CASE UNCHANGED <<tx, rx, disturbed>>
  BY <1>2 DEF IInv, Collected, Ends
<1>3. CASE tx' = <<>> /\ rx' = <<>> /\ disturbed' = TRUE
  <2>1. Ends(<<>>, written) /\ Ends(<<>>, answer)
    BY <1>1, EndsTrivially
  <2>2. Ends(tx, written)' /\ Ends(rx, answer)'
    BY <1>3, <2>1
  <2>3. QED
    BY <1>3, <2>2 DEF Collected
<1>4. QED
  BY <1>2, <1>3

\* begin() sets the bus up for the rate it was given or had.
LEMMA InvBegin ==
  ASSUME WireAssumption, IInv, NEW f \in Clocks \cup {0}, Begin(f)
  PROVE  IInv'
<1>1. /\ clock' = (IF f # 0 THEN f ELSE clock) /\ SetUp(clock')
      /\ UNCHANGED <<transmitting, address, written, answer>> /\ result' = NoResult
  BY DEF Begin
<1>2. clock' \in Clocks \ {0}
  BY <1>1 DEF IInv, Typed
<1>3. /\ driver' \in 0 .. 3 /\ tx' \in Seq(Nat) /\ Len(tx') <= BufferLength
      /\ rx' \in Seq(Nat) /\ Len(rx') <= BufferLength
      /\ initialized' \in BOOLEAN /\ disturbed' \in BOOLEAN /\ refused' \in BOOLEAN
      /\ UNCHANGED <<tx, rx, disturbed>> \/ (tx' = <<>> /\ rx' = <<>> /\ disturbed' = TRUE)
      /\ Known'
  BY <1>1, InvSetUp
<1>4. Typed'
  BY <1>1, <1>2, <1>3 DEF IInv, Typed
<1>5. Flags'
  BY <1>1, <1>3, Zenon DEF IInv, Flags
<1>6. Collected' /\ Ends(rx, answer)'
  BY <1>1, <1>3, BuffersKept
<1>7. QED
  BY <1>1, <1>3, <1>4, <1>5, <1>6, NothingSent DEF IInv

\* end() closes a bus that is known to be open, and one that is not stays closed
\* unless a set-up has failed.
LEMMA InvEnd ==
  ASSUME WireAssumption, IInv, End
  PROVE  IInv'
<1>1. /\ driver' = (IF initialized THEN 0 ELSE driver) /\ initialized' = FALSE
      /\ tx' = <<>> /\ rx' = <<>> /\ disturbed' = TRUE
      /\ UNCHANGED <<clock, transmitting, address, written, refused, answer>> /\ result' = NoResult
  BY DEF End
<1>2. Typed'
  BY <1>1, EmptyIs DEF IInv, Typed
<1>3. Flags'
  BY <1>1, Zenon DEF IInv, Flags
<1>4. Known'
  BY <1>1 DEF IInv, Known
<1>5. Collected' /\ Ends(rx, answer)'
  BY <1>1, BuffersKept
<1>6. QED
  BY <1>1, <1>2, <1>3, <1>4, <1>5, NothingSent DEF IInv

\* setClock() moves the rate of an open bus, and leaves the buffers.
LEMMA InvSetClock ==
  ASSUME WireAssumption, IInv, NEW f \in Clocks, SetClock(f)
  PROVE  IInv'
<1>1. /\ f > 0 /\ clock' = f
      /\ UNCHANGED <<initialized, transmitting, address, tx, rx, written, disturbed, answer>> /\ result' = NoResult
  BY DEF SetClock
<1>2. clock' \in Clocks \ {0}
  BY <1>1, Constants
<1>3. driver' \in 0 .. 3 /\ refused' \in BOOLEAN /\ Known'
  <2>1. CASE initialized /\ driver' = SpeedCode(f) /\ refused' = FALSE
    <3>1. driver' \in 0 .. 3
      BY <2>1, Constants
    <3>2. Known'
      BY <1>1, <2>1 DEF Known
    <3>3. QED
      BY <2>1, <3>1, <3>2
  <2>2. CASE initialized /\ driver' \in {driver, 0} /\ refused' = TRUE
    BY <2>2 DEF Known, IInv, Typed
  <2>3. CASE ~initialized /\ UNCHANGED <<driver, refused>>
    <3>1. driver' \in 0 .. 3
      BY <2>3 DEF IInv, Typed
    <3>2. refused' \in BOOLEAN
      BY <2>3 DEF IInv, Flags
    <3>3. Known'
      BY <1>1, <2>3 DEF IInv, Known
    <3>4. QED
      BY <3>1, <3>2, <3>3
  <2>4. QED
    BY <2>1, <2>2, <2>3 DEF SetClock
<1>4. Typed'
  BY <1>1, <1>2, <1>3 DEF IInv, Typed
<1>5. Flags'
  BY <1>1, <1>3, Zenon DEF IInv, Flags
<1>6. Collected' /\ Ends(rx, answer)'
  BY <1>1, BuffersKept
<1>7. QED
  BY <1>1, <1>3, <1>4, <1>5, <1>6, NothingSent DEF IInv

\* beginTransmission() starts with nothing written.
LEMMA InvBeginTransmission ==
  ASSUME WireAssumption, IInv, NEW a \in Addresses, BeginTransmission(a)
  PROVE  IInv'
<1>1. /\ address' = a % AddressMod /\ transmitting' = TRUE
      /\ tx' = <<>> /\ written' = <<>> /\ disturbed' = FALSE
      /\ UNCHANGED <<clock, bus, rx, answer>> /\ result' = NoResult
  BY DEF BeginTransmission
<1>2. address' \in 0 .. AddressMod - 1
  BY <1>1, Constants
<1>3. Typed'
  BY <1>1, <1>2, EmptyIs DEF IInv, Typed, bus
<1>4. Flags'
  BY <1>1, Zenon DEF IInv, Flags, bus
<1>5. Known' /\ Ends(rx, answer)'
  BY <1>1 DEF IInv, Known, Ends, bus
<1>6. Collected'
  <2>1. Ends(<<>>, <<>>)
    BY EmptyIs, EndsTrivially
  <2>2. Ends(tx, written)'
    BY <1>1, <2>1
  <2>3. QED
    BY <1>1, <2>2 DEF Collected
<1>7. QED
  BY <1>1, <1>3, <1>4, <1>5, <1>6, NothingSent DEF IInv

\* The front of a sequence.
LEMMA FrontIs ==
  ASSUME NEW s \in Seq(Nat), NEW n \in 0 .. Len(s)
  PROVE  SubSeq(s, 1, n) \in Seq(Nat) /\ Len(SubSeq(s, 1, n)) = n
  OBVIOUS

\* write() puts what it takes behind both.
LEMMA InvWrite ==
  ASSUME WireAssumption, IInv, NEW bytes \in Chunks, Write(bytes)
  PROVE  IInv'
<1> DEFINE room  == BufferLength - Len(tx)
           n     == IF Len(bytes) < room THEN Len(bytes) ELSE room
           taken == SubSeq(bytes, 1, n)
<1>1. /\ transmitting /\ tx' = tx \o taken /\ written' = written \o taken
      /\ UNCHANGED <<clock, bus, transmitting, address, rx, disturbed, answer>> /\ result' = NoResult
  BY DEF Write
<1>2. /\ bytes \in Seq(Nat) /\ tx \in Seq(Nat) /\ written \in Seq(Nat) /\ Len(tx) <= BufferLength
      /\ BufferLength \in Nat
  BY Constants DEF IInv, Typed
<1>3. Len(bytes) \in Nat /\ Len(tx) \in Nat
  BY <1>2
<1>4. n \in 0 .. Len(bytes) /\ n <= room
  BY <1>2, <1>3
<1> HIDE DEF n
<1>5. taken \in Seq(Nat) /\ Len(taken) = n
  BY <1>2, <1>4, FrontIs
<1> HIDE DEF taken
<1>6. /\ tx \o taken \in Seq(Nat) /\ Len(tx \o taken) = Len(tx) + Len(taken)
      /\ written \o taken \in Seq(Nat)
  BY <1>2, <1>5, JoinedIs, Zenon
<1>7. tx' \in Seq(Nat) /\ written' \in Seq(Nat) /\ Len(tx') <= BufferLength
  BY <1>1, <1>2, <1>3, <1>4, <1>5, <1>6
<1>8. Typed'
  BY <1>1, <1>7 DEF IInv, Typed, bus
<1>9. Flags'
  BY <1>1, Zenon DEF IInv, Flags, bus
<1>10. Known' /\ Ends(rx, answer)'
  BY <1>1 DEF IInv, Known, Ends, bus
<1>11. Collected'
  <2>1. Ends(tx, written) /\ (disturbed \/ tx = written)
    BY <1>1 DEF IInv, Collected
  <2>2. Ends(tx \o taken, written \o taken)
    BY <1>2, <1>5, <2>1, EndsJoined
  <2>3. Ends(tx, written)'
    BY <1>1, <2>2
  <2>4. disturbed' \/ tx' = written'
    BY <1>1, <2>1
  <2>5. QED
    BY <2>3, <2>4 DEF Collected
<1>12. QED
  BY <1>1, <1>8, <1>9, <1>10, <1>11, NothingSent DEF IInv

\* endTransmission() reports success only for what the buffer held.
LEMMA InvEndTransmission ==
  ASSUME WireAssumption, IInv, EndTransmission
  PROVE  IInv'
<1>1. UNCHANGED <<clock, address, written, answer>>
  BY DEF EndTransmission
<1>2. ASSUME Finish(4, <<>>) PROVE Sent'
  BY <1>2 DEF Finish, Sent
<1>3. CASE ~transmitting /\ Finish(4, <<>>) /\ UNCHANGED <<bus, tx, rx, transmitting, disturbed>>
  <2>1. Typed'
    BY <1>1, <1>3 DEF IInv, Typed, bus
  <2>2. Flags'
    BY <1>3, Zenon DEF IInv, Flags, bus
  <2>3. Known'
    BY <1>1, <1>3 DEF IInv, Known, bus
  <2>4. Collected' /\ Ends(rx, answer)'
    BY <1>1, <1>3, BuffersKept
  <2>5. QED
    BY <1>2, <1>3, <2>1, <2>2, <2>3, <2>4 DEF IInv
<1>4. CASE transmitting /\ ~initialized /\ SetUp(clock) /\ Finish(4, <<>>) /\ transmitting' = FALSE
  <2>1. /\ driver' \in 0 .. 3 /\ tx' \in Seq(Nat) /\ Len(tx') <= BufferLength
        /\ rx' \in Seq(Nat) /\ Len(rx') <= BufferLength
        /\ initialized' \in BOOLEAN /\ disturbed' \in BOOLEAN /\ refused' \in BOOLEAN
        /\ UNCHANGED <<tx, rx, disturbed>> \/ (tx' = <<>> /\ rx' = <<>> /\ disturbed' = TRUE)
        /\ Known'
    BY <1>1, <1>4, InvSetUp
  <2>2. Typed'
    BY <1>1, <2>1 DEF IInv, Typed
  <2>3. Flags'
    BY <1>4, <2>1, Zenon DEF Flags
  <2>4. Collected' /\ Ends(rx, answer)'
    BY <1>1, <1>4, <2>1, BuffersKept
  <2>5. QED
    BY <1>2, <1>4, <2>1, <2>2, <2>3, <2>4 DEF IInv
<1>5. CASE /\ transmitting /\ initialized
           /\ IF tx = <<>> THEN Finish(4, <<>>) ELSE Finish(0, tx) \/ Finish(4, <<>>)
           /\ tx' = <<>> /\ transmitting' = FALSE
           /\ UNCHANGED <<bus, rx, disturbed>>
  <2>1. Typed'
    BY <1>1, <1>5, EmptyIs DEF IInv, Typed, bus
  <2>2. Flags'
    BY <1>5, Zenon DEF IInv, Flags, bus
  <2>3. Known' /\ Collected' /\ Ends(rx, answer)'
    BY <1>1, <1>5 DEF IInv, Known, Collected, Ends, bus
  <2>4. CASE Finish(0, tx)
    <3>1. result' = [code |-> 0, to |-> address, sent |-> tx, taken |-> written, disturbed |-> disturbed]
      BY <2>4 DEF Finish
    <3>2. tx \in Seq(Nat) /\ written \in Seq(Nat) /\ Ends(tx, written) /\ (disturbed \/ tx = written)
      BY <1>5 DEF IInv, Typed, Collected
    <3>3. IsSuffix(tx, written)
      BY <3>2, EndsIsSuffix
    <3>4. Sent'
      BY <3>1, <3>2, <3>3 DEF Sent
    <3>5. QED
      BY <2>1, <2>2, <2>3, <3>4 DEF IInv
  <2>5. CASE Finish(4, <<>>)
    BY <1>2, <2>1, <2>2, <2>3, <2>5 DEF IInv
  <2>6. QED
    BY <1>5, <2>4, <2>5
<1>6. QED
  BY <1>3, <1>4, <1>5 DEF EndTransmission

\* What is answered fits the buffer.
LEMMA AnswerIs ==
  ASSUME WireAssumption, NEW q \in Quantities, NEW more \in BOOLEAN,
         NEW bytes \in {<<>>} \cup (IF more THEN Answers(Capped(q)) ELSE {})
  PROVE  bytes \in Seq(Nat) /\ Len(bytes) <= BufferLength
<1>1. Capped(q) \in 0 .. BufferLength
  BY Constants DEF Capped
<1>2. CASE bytes = <<>>
  BY <1>2, EmptyIs
<1>3. CASE bytes \in [1 .. Capped(q) -> {1, 2}]
  <2>1. bytes \in Seq(Nat) /\ Len(bytes) = Capped(q)
    BY <1>1, <1>3
  <2>2. QED
    BY <1>1, <2>1, Constants
<1>4. QED
  BY <1>2, <1>3 DEF Answers

\* requestFrom() drops the old answer, and with a set-up the transmission.
LEMMA InvRequestFrom ==
  ASSUME WireAssumption, IInv, NEW a \in Addresses, NEW q \in Quantities, RequestFrom(a, q)
  PROVE  IInv'
<1>1. UNCHANGED <<clock, transmitting, address, written>> /\ result' = NoResult
  BY DEF RequestFrom
<1>2. /\ driver' \in 0 .. 3 /\ Known'
      /\ initialized' \in BOOLEAN /\ disturbed' \in BOOLEAN /\ refused' \in BOOLEAN
      /\ UNCHANGED <<tx, disturbed>> \/ (tx' = <<>> /\ disturbed' = TRUE)
  <2>1. CASE UNCHANGED <<bus, tx, disturbed>>
    <3>1. driver' \in 0 .. 3 /\ Known'
      BY <1>1, <2>1 DEF IInv, Typed, Known, bus
    <3>2. initialized' \in BOOLEAN /\ disturbed' \in BOOLEAN /\ refused' \in BOOLEAN
      BY <2>1, Zenon DEF IInv, Flags, bus
    <3>3. QED
      BY <2>1, <3>1, <3>2, Zenon
  <2>2. CASE /\ driver' = SpeedCode(clock) /\ initialized' = TRUE /\ refused' = FALSE
             /\ tx' = <<>> /\ disturbed' = TRUE
    <3>1. driver' \in 0 .. 3
      BY <2>2, Constants
    <3>2. Known'
      BY <1>1, <2>2 DEF Known
    <3>3. QED
      BY <2>2, <3>1, <3>2, Zenon
  <2>3. CASE /\ driver' \in {driver, 0} /\ initialized' = FALSE /\ refused' = TRUE
             /\ UNCHANGED <<tx, disturbed>>
    <3>1. driver' \in 0 .. 3 /\ Known'
      BY <2>3 DEF IInv, Typed, Known
    <3>2. disturbed' \in BOOLEAN
      BY <2>3 DEF IInv, Flags
    <3>3. QED
      BY <2>3, <3>1, <3>2, Zenon
  <2>4. QED
    BY <2>1, <2>2, <2>3 DEF RequestFrom
<1>3. rx' = answer' /\ rx' \in Seq(Nat) /\ Len(rx') <= BufferLength
  <2>1. CASE rx' = <<>> /\ answer' = <<>>
    BY <2>1, EmptyIs
  <2>2. CASE \E bytes \in {<<>>} \cup (IF initialized' THEN Answers(Capped(q)) ELSE {}) :
               rx' = bytes /\ answer' = bytes
    BY <1>2, <2>2, AnswerIs
  <2>3. QED
    BY <2>1, <2>2 DEF RequestFrom
<1>4. tx' \in Seq(Nat) /\ Len(tx') <= BufferLength
  BY <1>2, EmptyIs DEF IInv, Typed
<1>5. Typed'
  BY <1>1, <1>2, <1>3, <1>4 DEF IInv, Typed
<1>6. Flags'
  BY <1>1, <1>2, Zenon DEF IInv, Flags
<1>7. Collected'
  <2>1. CASE UNCHANGED <<tx, disturbed>>
    BY <1>1, <2>1 DEF IInv, Collected, Ends
  <2>2. CASE tx' = <<>> /\ disturbed' = TRUE
    <3>1. Ends(<<>>, written)
      BY EndsTrivially DEF IInv, Typed
    <3>2. Ends(tx, written)'
      BY <1>1, <2>2, <3>1
    <3>3. QED
      BY <2>2, <3>2 DEF Collected
  <2>3. QED
    BY <1>2, <2>1, <2>2
<1>8. Ends(rx, answer)'
  <2>1. Ends(rx', rx')
    BY <1>3, EndsTrivially
  <2>2. QED
    BY <1>3, <2>1
<1>9. QED
  BY <1>1, <1>2, <1>5, <1>6, <1>7, <1>8, NothingSent DEF IInv

\* read() takes the first byte that is left.
LEMMA InvRead ==
  ASSUME WireAssumption, IInv, Read
  PROVE  IInv'
<1>1. /\ rx # <<>> /\ rx' = Tail(rx)
      /\ UNCHANGED <<clock, bus, transmitting, address, tx, written, disturbed, answer>> /\ result' = NoResult
  BY DEF Read
<1>2. rx \in Seq(Nat) /\ answer \in Seq(Nat) /\ Ends(rx, answer) /\ Len(rx) <= BufferLength
  BY DEF IInv, Typed
<1>3. Tail(rx) \in Seq(Nat) /\ Len(Tail(rx)) <= Len(rx) /\ Ends(Tail(rx), answer)
  BY <1>1, <1>2, EndsTail
<1>4. rx' \in Seq(Nat) /\ Len(rx') <= BufferLength
  <2>1. Len(rx) \in Nat /\ Len(Tail(rx)) \in Nat
    BY <1>2, <1>3
  <2>2. QED
    BY <1>1, <1>2, <1>3, <2>1, Constants
<1>5. Typed'
  BY <1>1, <1>4 DEF IInv, Typed, bus
<1>6. Flags'
  BY <1>1, Zenon DEF IInv, Flags, bus
<1>7. Known' /\ Collected'
  BY <1>1 DEF IInv, Known, Collected, Ends, bus
<1>8. Ends(rx, answer)'
  BY <1>1, <1>3
<1>9. QED
  BY <1>1, <1>5, <1>6, <1>7, <1>8, NothingSent DEF IInv

\* A bus that nobody has opened.
LEMMA InvInit == WireAssumption /\ Init => IInv
<1> SUFFICES ASSUME WireAssumption, Init PROVE IInv
  OBVIOUS
<1>1. /\ clock \in Clocks /\ clock > 0 /\ address = 0 /\ tx = <<>> /\ rx = <<>> /\ driver = 0
      /\ written = <<>> /\ answer = <<>> /\ result = NoResult
  BY DEF Init
<1>2. initialized = FALSE /\ transmitting = FALSE /\ disturbed = FALSE /\ refused = FALSE
  BY DEF Init
<1>3. 0 \in 0 .. AddressMod - 1 /\ clock # 0
  BY <1>1, Constants
<1>4. Typed
  BY <1>1, <1>3, EmptyIs DEF Typed
<1>5. Flags /\ Collected /\ Known
  BY <1>1, <1>2 DEF Flags, Collected, Known
<1>6. Sent
  BY <1>1 DEF Sent, NoResult
<1>7. Ends(rx, answer)
  BY <1>1, EmptyIs, EndsTrivially
<1>8. QED
  BY <1>4, <1>5, <1>6, <1>7 DEF IInv

\* Every step preserves the invariant.
LEMMA InvNext == WireAssumption /\ IInv /\ [Next]_vars => IInv'
<1> SUFFICES ASSUME WireAssumption, IInv, [Next]_vars PROVE IInv'
  OBVIOUS
<1>1. CASE \E f \in Clocks \cup {0} : Begin(f)
  BY <1>1, InvBegin
<1>2. CASE End \/ EndTransmission \/ Read
  BY <1>2, InvEnd, InvEndTransmission, InvRead
<1>3. CASE \E f \in Clocks : SetClock(f)
  BY <1>3, InvSetClock
<1>4. CASE \E a \in Addresses : BeginTransmission(a) \/ \E q \in Quantities : RequestFrom(a, q)
  BY <1>4, InvBeginTransmission, InvRequestFrom
<1>5. CASE \E bytes \in Chunks : Write(bytes)
  BY <1>5, InvWrite
<1>6. CASE UNCHANGED vars
  BY <1>6 DEF vars, bus, IInv, Typed, Flags, Collected, Sent, Ends, Known
<1>7. QED
  BY <1>1, <1>2, <1>3, <1>4, <1>5, <1>6 DEF Next

\* A transmission that reports success has sent the end of what write() took, all
\* of it unless the bus was set up or closed in between; reads return the answer to
\* the last request; the object knows the bus it has opened (Wire.cpp).
THEOREM WireSound == WireAssumption => (Spec => []WireInv)
<1> SUFFICES ASSUME WireAssumption PROVE Spec => []WireInv
  OBVIOUS
<1>1. Init => IInv
  BY InvInit
<1>2. IInv /\ [Next]_vars => IInv'
  BY InvNext
<1>3. IInv => WireInv
  <2> SUFFICES ASSUME IInv PROVE WireInv
    OBVIOUS
  <2>1. TypeOK
    BY DEF IInv, Typed, Flags, TypeOK
  <2>2. transmitting /\ ~disturbed => tx = written
    BY DEF IInv, Collected
  <2>3. IsSuffix(rx, answer)
    BY EndsIsSuffix DEF IInv, Typed
  <2>4. QED
    BY <2>1, <2>2, <2>3 DEF IInv, Sent, Known, WireInv
<1>4. QED
  BY <1>1, <1>2, <1>3, PTL DEF Spec

-----------------------------------------------------------------------------
(* SPI: the inductive invariant *)

SpiSettings == [clock : MinClock .. MaxClock, order : Spi!Orders, mode : Modes \cup {0}]

SpiTyped ==
  /\ settings \in SpiSettings /\ wanted \in SpiSettings /\ ss \in Pins
  /\ hwCs \in BOOLEAN /\ ready \in BOOLEAN /\ missed \in BOOLEAN /\ moved \in BOOLEAN /\ orphan \in BOOLEAN
  /\ spi.open \in BOOLEAN

\* The bus is set up as the object has recorded, the record is what was asked for,
\* and a bus that is open is known to be.
SetUpAsAsked ==
  /\ ready => spi = Spi!Config(settings, hwCs, ss) \/ moved
  /\ ~missed => settings = wanted
  /\ spi.open => ready \/ orphan

\* The last transfer was clocked as asked, and whole unless a byte failed.
ClockedAsAsked(l) ==
  l.clocked # <<>> =>
    /\ l.excused \/ (l.with.clock = l.wanted.clock /\ l.with.lsb = (l.wanted.order = "LSB")
                     /\ l.with.cpha = l.wanted.mode % 2 /\ l.with.cpol = l.wanted.mode \div 2)
    /\ l.whole => l.received = l.word
    /\ \A i \in DOMAIN l.word : l.received[i] \in {0, l.word[i]}

SpiIInv == SpiTyped /\ SetUpAsAsked /\ ClockedAsAsked(last)

-----------------------------------------------------------------------------
(* SPI: settings and words *)

\* The constants of the composition satisfy what SpiBus assumes of its own.
LEMMA SpiConstants ==
  /\ MinClock \in Nat \ {0} /\ MaxClock \in Nat /\ MinClock <= MaxClock
  /\ SpiClocks \subseteq Nat /\ Dividers \subseteq Nat /\ Modes \subseteq 0 .. 3
  /\ Pins # {} /\ \A word \in Words : word \in Seq(Nat)
BY BusesAssumption DEF Spi!SpiAssumption

\* A clock rate is brought into its range, and left alone within it.
LEMMA ClockInRange ==
  /\ \A c \in Nat : Spi!NormalizedClock(c) \in MinClock .. MaxClock
  /\ \A c \in MinClock .. MaxClock : Spi!NormalizedClock(c) = c
BY SpiConstants DEF Spi!NormalizedClock

\* So are the settings a sketch asks for.
LEMMA SettingsInRange ==
  ASSUME NEW s \in [clock : Nat, order : Spi!Orders, mode : Modes \cup {0}]
  PROVE  /\ Spi!Normalized(s) = [clock |-> Spi!NormalizedClock(s.clock), order |-> s.order, mode |-> s.mode]
         /\ Spi!Normalized(s) \in SpiSettings
<1>1. Spi!Normalized(s) = [clock |-> Spi!NormalizedClock(s.clock), order |-> s.order, mode |-> s.mode]
  BY DEF Spi!Normalized
<1>2. Spi!NormalizedClock(s.clock) \in MinClock .. MaxClock
  BY ClockInRange
<1>3. QED
  BY <1>1, <1>2 DEF SpiSettings

\* Settings in range can be asked for, and stay what they are.
LEMMA SettingsStay ==
  ASSUME NEW s \in SpiSettings
  PROVE  /\ s \in [clock : Nat, order : Spi!Orders, mode : Modes \cup {0}]
         /\ Spi!Normalized(s) = s
<1>1. s \in [clock : Nat, order : Spi!Orders, mode : Modes \cup {0}]
  BY SpiConstants DEF SpiSettings
<1>2. Spi!NormalizedClock(s.clock) = s.clock
  BY ClockInRange DEF SpiSettings
<1>3. Spi!Normalized(s) = [clock |-> s.clock, order |-> s.order, mode |-> s.mode]
  BY <1>1, <1>2, SettingsInRange
<1>4. QED
  BY <1>1, <1>3 DEF SpiSettings

\* The two bits of a mode are its phase and its polarity.
LEMMA BitsOfMode ==
  ASSUME NEW mode \in Modes \cup {0}
  PROVE  Spi!Bit(mode, 0) = mode % 2 /\ Spi!Bit(mode, 1) = mode \div 2
<1>1. mode = 0 \/ mode = 1 \/ mode = 2 \/ mode = 3
  BY SpiConstants
<1>2. 2 ^ 0 = 1 /\ 2 ^ 1 = 2
  BY SMT
<1>3. Spi!Bit(mode, 0) = (mode \div 1) % 2 /\ Spi!Bit(mode, 1) = (mode \div 2) % 2
  BY <1>2 DEF Spi!Bit
<1>4. QED
  BY <1>1, <1>3

\* What a driver that is set up for some settings clocks with.
LEMMA ConfigIs ==
  ASSUME NEW s \in SpiSettings, NEW cs, NEW pin
  PROVE  LET c == Spi!Config(s, cs, pin)
         IN  /\ c.open = TRUE /\ c.clock = s.clock /\ c.lsb = (s.order = "LSB")
             /\ c.cpha = s.mode % 2 /\ c.cpol = s.mode \div 2
<1>1. Spi!Bit(s.mode, 0) = s.mode % 2 /\ Spi!Bit(s.mode, 1) = s.mode \div 2
  BY BitsOfMode DEF SpiSettings
<1>2. QED
  BY <1>1 DEF Spi!Config

\* Reversing a word twice gives the word.
LEMMA ReverseIs ==
  ASSUME NEW word \in Seq(Nat)
  PROVE  /\ Spi!Reverse(word) \in Seq(Nat) /\ Len(Spi!Reverse(word)) = Len(word)
         /\ \A i \in 1 .. Len(word) : /\ Spi!Reverse(word)[i] = word[Len(word) - i + 1]
                                      /\ Len(word) - i + 1 \in 1 .. Len(word)
BY DEF Spi!Reverse

\* A word is ordered, and ordered back, by moving its bytes; a byte that is lost in
\* between is lost in its own place.
LEMMA OrderedTwice ==
  ASSUME NEW word \in Seq(Nat), NEW in, in = [i \in 1 .. Len(word) |-> in[i]],
         \A i \in 1 .. Len(word) : in[i] \in {0, Spi!Ordered(word)[i]}
  PROVE  /\ \A i \in DOMAIN word : Spi!Ordered(in)[i] \in {0, word[i]}
         /\ (\A i \in 1 .. Len(word) : in[i] = Spi!Ordered(word)[i]) => Spi!Ordered(in) = word
<1>1. CASE settings.order = "LSB"
  <2>1. Spi!Ordered(word) = word /\ Spi!Ordered(in) = in
    BY <1>1 DEF Spi!Ordered
  <2>2. DOMAIN word = 1 .. Len(word)
    OBVIOUS
  <2>3. (\A i \in 1 .. Len(word) : in[i] = word[i]) => in = word
    BY <2>2
  <2>4. QED
    BY <2>1, <2>2, <2>3
<1>2. CASE settings.order # "LSB"
  <2>1. Spi!Ordered(word) = Spi!Reverse(word) /\ Spi!Ordered(in) = Spi!Reverse(in)
    BY <1>2 DEF Spi!Ordered
  <2>2. DOMAIN word = 1 .. Len(word) /\ Len(word) \in Nat
    OBVIOUS
  <2>3. \A i \in 1 .. Len(word) : in[i] \in Nat
    <3>1. PICK r \in Seq(Nat) : r = Spi!Reverse(word) /\ Len(r) = Len(word)
      BY ReverseIs
    <3>2. \A i \in 1 .. Len(word) : r[i] \in Nat
      BY <3>1
    <3>3. QED
      BY <2>1, <3>1, <3>2, SMTT(30)
  <2>4. in \in Seq(Nat) /\ Len(in) = Len(word)
    BY <2>2, <2>3
  <2>5. ASSUME NEW i \in 1 .. Len(word)
        PROVE  /\ Len(word) - i + 1 \in 1 .. Len(word)
               /\ Spi!Reverse(in)[i] = in[Len(word) - i + 1]
               /\ Spi!Reverse(word)[Len(word) - i + 1] = word[i]
    <3>1. PICK k \in 1 .. Len(word) : k = Len(word) - i + 1 /\ Len(word) - k + 1 = i
      BY <2>2
    <3>2. Spi!Reverse(word)[k] = word[i]
      BY <3>1, ReverseIs, SMTT(30)
    <3>3. Spi!Reverse(in)[i] = in[Len(in) - i + 1]
      BY <2>4, ReverseIs
    <3>4. QED
      BY <2>4, <3>1, <3>2, <3>3
  <2>6. \A i \in DOMAIN word : Spi!Ordered(in)[i] \in {0, word[i]}
    BY <2>1, <2>2, <2>5
  <2>7. ASSUME \A i \in 1 .. Len(word) : in[i] = Spi!Ordered(word)[i]
        PROVE  Spi!Ordered(in) = word
    <3>1. \A i \in 1 .. Len(word) : Spi!Reverse(in)[i] = word[i]
      BY <2>1, <2>5, <2>7
    <3>2. Spi!Reverse(in) \in Seq(Nat) /\ Len(Spi!Reverse(in)) = Len(word)
      BY <2>4, ReverseIs
    <3>3. PICK r \in Seq(Nat) : r = Spi!Reverse(in)
      BY <3>2
    <3>4. r = word
      <4>1. Len(r) = Len(word) /\ \A i \in 1 .. Len(r) : r[i] = word[i]
        BY <3>1, <3>2, <3>3
      <4>2. QED
        BY <4>1, SameMembers
    <3>5. QED
      BY <2>1, <3>3, <3>4
  <2>8. QED
    BY <2>6, <2>7
<1>3. QED
  BY <1>1, <1>2

-----------------------------------------------------------------------------
(* SPI: every step keeps the invariant *)

\* It holds of a bus nobody has begun.
LEMMA SpiInit == Spi!Init => SpiIInv
<1> SUFFICES ASSUME Spi!Init PROVE SpiIInv
  OBVIOUS
<1>1. 4 \in Nat /\ 0 \in Modes \cup {0} /\ "MSB" \in Spi!Orders
  BY DEF Spi!Orders
<1>2. Spi!NormalizedClock(4) \in MinClock .. MaxClock
  BY ClockInRange
<1>3. settings \in SpiSettings /\ wanted = settings
  BY <1>1, <1>2 DEF Spi!Init, SpiSettings
<1>4. ss \in Pins
  BY SpiConstants DEF Spi!Init
<1>5. /\ hwCs = FALSE /\ ready = FALSE /\ missed = FALSE /\ moved = FALSE /\ orphan = FALSE
      /\ spi.open = FALSE /\ last.clocked = <<>>
  BY DEF Spi!Init, Spi!Closed
<1>6. SpiTyped
  BY <1>3, <1>4, <1>5 DEF SpiTyped
<1>7. SetUpAsAsked
  BY <1>3, <1>5 DEF SetUpAsAsked
<1>8. ClockedAsAsked(last)
  BY <1>5 DEF ClockedAsAsked
<1>9. QED
  BY <1>6, <1>7, <1>8 DEF SpiIInv

\* A set-up that may fail: the settings are kept in any case.
LEMMA ApplyIs ==
  ASSUME SpiIInv, NEW s \in [clock : Nat, order : Spi!Orders, mode : Modes \cup {0}],
         NEW cs, NEW pin, NEW before, before.open \in BOOLEAN, Spi!Apply(s, cs, pin, before)
  PROVE  /\ settings' = Spi!Normalized(s) /\ settings' \in SpiSettings
         /\ ready' \in BOOLEAN /\ moved' \in BOOLEAN /\ orphan' \in BOOLEAN /\ spi'.open \in BOOLEAN
         /\ ready' => spi' = Spi!Config(settings', cs, pin)
         /\ spi'.open => ready' \/ orphan'
<1>1. settings' = Spi!Normalized(s) /\ settings' \in SpiSettings
  BY SettingsInRange DEF Spi!Apply
<1>2. moved \in BOOLEAN /\ orphan \in BOOLEAN
  BY DEF SpiIInv, SpiTyped
<1>3. CASE spi' = Spi!Config(settings', cs, pin) /\ ready' = TRUE /\ moved' = FALSE /\ UNCHANGED orphan
  <2>1. spi'.open = TRUE
    BY <1>3 DEF Spi!Config
  <2>2. QED
    BY <1>1, <1>2, <1>3, <2>1
<1>4. CASE Spi!SetUpFails(before)
  <2>1. spi' = before \/ spi' = Spi!Closed
    BY <1>4 DEF Spi!SetUpFails
  <2>2. ready' = FALSE /\ moved' = moved /\ orphan' = (orphan \/ before.open)
    BY <1>4 DEF Spi!SetUpFails
  <2>3. Spi!Closed.open = FALSE
    BY DEF Spi!Closed
  <2>4. spi'.open = before.open \/ spi'.open = FALSE
    BY <2>1, <2>3
  <2>5. QED
    BY <1>1, <1>2, <2>2, <2>4
<1>5. QED
  BY <1>3, <1>4 DEF Spi!Apply

\* Calls that are no transfer: what they leave is sound if the bus and its record are.
LEMMA NoTransfer == last' = Spi!Nothing => ClockedAsAsked(last)'
BY DEF Spi!Nothing, ClockedAsAsked

\* begin(), which keeps a bus that is set up.
LEMMA EnsureIs ==
  ASSUME SpiIInv, NEW pin \in Pins, Spi!Ensure(pin)
  PROVE  /\ settings' = settings
         /\ ready' \in BOOLEAN /\ moved' \in BOOLEAN /\ orphan' \in BOOLEAN /\ spi'.open \in BOOLEAN
         /\ ready' => spi' = Spi!Config(settings, hwCs, pin) \/ moved'
         /\ spi'.open => ready' \/ orphan'
         /\ ready => UNCHANGED <<ready, spi, orphan>> /\ (pin = ss => moved' = moved)
         /\ ~ready => (ready' => spi' = Spi!Config(settings, hwCs, pin))
<1>0. settings \in SpiSettings /\ ready \in BOOLEAN /\ moved \in BOOLEAN /\ orphan \in BOOLEAN /\ spi.open \in BOOLEAN
  BY DEF SpiIInv, SpiTyped
<1>1. CASE ready
  <2>1. UNCHANGED <<settings, ready, spi, orphan>> /\ moved' = (moved \/ pin # ss)
    BY <1>1 DEF Spi!Ensure
  <2>2. (spi = Spi!Config(settings, hwCs, ss) \/ moved) /\ (spi.open => ready \/ orphan)
    BY <1>1 DEF SpiIInv, SetUpAsAsked
  <2>3. moved' \in BOOLEAN /\ (pin = ss => moved' = moved) /\ (pin # ss => moved')
    BY <1>0, <2>1
  <2>4. ready' => spi' = Spi!Config(settings, hwCs, pin) \/ moved'
    BY <2>1, <2>2, <2>3
  <2>5. QED
    BY <1>0, <1>1, <2>1, <2>2, <2>3, <2>4
<1>2. CASE ~ready
  <2>1. Spi!Apply(settings, hwCs, pin, spi)
    BY <1>2 DEF Spi!Ensure
  <2>2. settings \in [clock : Nat, order : Spi!Orders, mode : Modes \cup {0}] /\ Spi!Normalized(settings) = settings
    BY <1>0, SettingsStay
  <2>3. QED
    BY <1>0, <1>2, <2>1, <2>2, ApplyIs
<1>3. QED
  BY <1>0, <1>1, <1>2

\* begin() leaves a driver that is set up as the object believes.
LEMMA SpiBegin ==
  ASSUME SpiIInv, NEW pin \in Pins, Spi!Begin(pin)
  PROVE  SpiIInv'
<1>1. Spi!Ensure(pin) /\ ss' = pin /\ UNCHANGED <<hwCs, wanted, missed>> /\ last' = Spi!Nothing
  BY DEF Spi!Begin
<1>2. /\ settings' = settings
      /\ ready' \in BOOLEAN /\ moved' \in BOOLEAN /\ orphan' \in BOOLEAN /\ spi'.open \in BOOLEAN
      /\ ready' => spi' = Spi!Config(settings, hwCs, pin) \/ moved'
      /\ spi'.open => ready' \/ orphan'
  BY <1>1, EnsureIs
<1>3. SpiTyped'
  BY <1>1, <1>2 DEF SpiIInv, SpiTyped
<1>4. SetUpAsAsked'
  BY <1>1, <1>2 DEF SpiIInv, SetUpAsAsked
<1>5. QED
  BY <1>1, <1>3, <1>4, NoTransfer DEF SpiIInv

\* end() closes the bus only if the object believes it is open.
LEMMA SpiEnd ==
  ASSUME SpiIInv, Spi!End
  PROVE  SpiIInv'
<1>1. /\ spi' = IF ready THEN Spi!Closed ELSE spi
      /\ ready' = FALSE /\ last' = Spi!Nothing /\ UNCHANGED <<settings, hwCs, ss, wanted, missed, moved, orphan>>
  BY DEF Spi!End
<1>2. Spi!Closed.open = FALSE
  BY DEF Spi!Closed
<1>3. SpiTyped'
  BY <1>1, <1>2 DEF SpiIInv, SpiTyped
<1>4. SetUpAsAsked'
  BY <1>1, <1>2 DEF SpiIInv, SpiTyped, SetUpAsAsked
<1>5. QED
  BY <1>1, <1>3, <1>4, NoTransfer DEF SpiIInv

\* A setter of one of the settings, s being the settings with the new value: what
\* was asked for follows in the same place.
LEMMA SpiSet ==
  ASSUME SpiIInv, NEW s \in [clock : Nat, order : Spi!Orders, mode : Modes \cup {0}], NEW cs \in BOOLEAN,
         Spi!Set(s, cs)
  PROVE  SpiIInv'
<1> DEFINE asked == [wanted EXCEPT !.clock = IF s.clock = settings.clock THEN @ ELSE s.clock,
                                   !.order = IF s.order = settings.order THEN @ ELSE s.order,
                                   !.mode  = IF s.mode = settings.mode THEN @ ELSE s.mode]
<1>1. /\ wanted' = Spi!Normalized(asked) /\ hwCs' = cs /\ UNCHANGED <<ss, missed>> /\ last' = Spi!Nothing
      /\ IF ready THEN Spi!Apply(s, cs, ss, spi)
         ELSE settings' = Spi!Normalized(s) /\ UNCHANGED <<ready, spi, moved, orphan>>
  BY DEF Spi!Set
<1>2. /\ settings \in SpiSettings /\ wanted \in SpiSettings /\ ss \in Pins
      /\ ready \in BOOLEAN /\ moved \in BOOLEAN /\ orphan \in BOOLEAN /\ spi.open \in BOOLEAN /\ missed \in BOOLEAN
  BY DEF SpiIInv, SpiTyped
<1>3. asked \in [clock : Nat, order : Spi!Orders, mode : Modes \cup {0}]
  <2>1. wanted \in [clock : Nat, order : Spi!Orders, mode : Modes \cup {0}]
    BY <1>2, SettingsStay
  <2>2. QED
    BY <2>1
<1>4. wanted = settings => asked = s
  <2>1. settings \in [clock : Nat, order : Spi!Orders, mode : Modes \cup {0}]
    BY <1>2, SettingsStay
  <2>2. QED
    BY <2>1
<1> HIDE DEF asked
<1>5. wanted' \in SpiSettings
  BY <1>1, <1>3, SettingsInRange
<1>6. /\ settings' = Spi!Normalized(s) /\ settings' \in SpiSettings
      /\ ready' \in BOOLEAN /\ moved' \in BOOLEAN /\ orphan' \in BOOLEAN /\ spi'.open \in BOOLEAN
      /\ ready' => spi' = Spi!Config(settings', cs, ss)
      /\ spi'.open => ready' \/ orphan'
  <2>1. CASE ready
    BY <1>1, <1>2, <2>1, ApplyIs
  <2>2. CASE ~ready
    <3>1. settings' = Spi!Normalized(s) /\ UNCHANGED <<ready, spi, moved, orphan>>
      BY <1>1, <2>2
    <3>2. spi.open => orphan
      BY <2>2 DEF SpiIInv, SetUpAsAsked
    <3>3. QED
      BY <1>2, <2>2, <3>1, <3>2, SettingsInRange
  <2>3. QED
    BY <1>2, <2>1, <2>2
<1>7. ~missed' => settings' = wanted'
  BY <1>1, <1>4, <1>6 DEF SpiIInv, SetUpAsAsked
<1>8. SpiTyped'
  BY <1>1, <1>2, <1>5, <1>6 DEF SpiTyped
<1>9. SetUpAsAsked'
  BY <1>1, <1>6, <1>7 DEF SetUpAsAsked
<1>10. QED
  BY <1>1, <1>8, <1>9, NoTransfer DEF SpiIInv

\* The setters change one setting of those in force.
LEMMA SpiSetters ==
  ASSUME SpiIInv,
         \/ \E use \in BOOLEAN : Spi!SetHwCs(use)
         \/ \E o \in Spi!Orders : Spi!SetBitOrder(o)
         \/ \E mode \in Modes : Spi!SetDataMode(mode)
         \/ \E c \in SpiClocks : Spi!SetFrequency(c)
         \/ \E d \in Dividers : Spi!SetClockDivider(d)
  PROVE  SpiIInv'
<1>1. settings \in [clock : Nat, order : Spi!Orders, mode : Modes \cup {0}] /\ hwCs \in BOOLEAN
  BY SettingsStay DEF SpiIInv, SpiTyped
<1>2. ASSUME NEW use \in BOOLEAN, Spi!SetHwCs(use) PROVE SpiIInv'
  BY <1>1, <1>2, SpiSet DEF Spi!SetHwCs
<1>3. ASSUME NEW o \in Spi!Orders, Spi!SetBitOrder(o) PROVE SpiIInv'
  <2>1. PICK s : s = [settings EXCEPT !.order = o]
    OBVIOUS
  <2>2. s \in [clock : Nat, order : Spi!Orders, mode : Modes \cup {0}]
    BY <1>1, <2>1
  <2>3. QED
    BY <1>1, <1>3, <2>1, <2>2, SpiSet DEF Spi!SetBitOrder
<1>4. ASSUME NEW mode \in Modes, Spi!SetDataMode(mode) PROVE SpiIInv'
  <2>1. PICK s : s = [settings EXCEPT !.mode = mode]
    OBVIOUS
  <2>2. s \in [clock : Nat, order : Spi!Orders, mode : Modes \cup {0}]
    BY <1>1, <2>1
  <2>3. QED
    BY <1>1, <1>4, <2>1, <2>2, SpiSet DEF Spi!SetDataMode
<1>5. ASSUME NEW c \in Nat, Spi!SetFrequency(c) PROVE SpiIInv'
  <2>1. PICK s : s = [settings EXCEPT !.clock = c]
    OBVIOUS
  <2>2. s \in [clock : Nat, order : Spi!Orders, mode : Modes \cup {0}]
    BY <1>1, <2>1
  <2>3. QED
    BY <1>1, <1>5, <2>1, <2>2, SpiSet DEF Spi!SetFrequency
<1>6. ASSUME NEW d \in Dividers, Spi!SetClockDivider(d) PROVE SpiIInv'
  <2>1. d \in Nat /\ d # 0 /\ MaxClock \in Nat
    BY <1>6, SpiConstants DEF Spi!SetClockDivider
  <2>2. MaxClock \div d \in Nat
    BY <2>1
  <2>3. QED
    BY <1>5, <1>6, <2>2 DEF Spi!SetClockDivider
<1>7. SpiClocks \subseteq Nat
  BY SpiConstants
<1>8. QED
  BY <1>2, <1>3, <1>4, <1>5, <1>6, <1>7

\* beginTransaction() applies its settings to a bus that is set up.
LEMMA SpiBeginTransaction ==
  ASSUME SpiIInv, NEW s \in [clock : Nat, order : Spi!Orders, mode : Modes \cup {0}], Spi!BeginTransaction(s)
  PROVE  SpiIInv'
<1>1. /\ wanted' = Spi!Normalized(s) /\ last' = Spi!Nothing /\ UNCHANGED <<hwCs, ss>>
      /\ \/ /\ Spi!Apply(s, hwCs, ss, IF ready THEN spi ELSE Spi!Config(settings, hwCs, ss))
            /\ missed' = FALSE
         \/ ~ready /\ Spi!SetUpFails(spi) /\ missed' = TRUE /\ UNCHANGED settings
  BY DEF Spi!BeginTransaction
<1>2. /\ settings \in SpiSettings /\ wanted' \in SpiSettings /\ ss \in Pins /\ hwCs \in BOOLEAN
      /\ ready \in BOOLEAN /\ moved \in BOOLEAN /\ orphan \in BOOLEAN /\ spi.open \in BOOLEAN
  BY <1>1, SettingsInRange DEF SpiIInv, SpiTyped
<1>3. CASE /\ Spi!Apply(s, hwCs, ss, IF ready THEN spi ELSE Spi!Config(settings, hwCs, ss))
           /\ missed' = FALSE
  <2>1. PICK before : before = IF ready THEN spi ELSE Spi!Config(settings, hwCs, ss)
    OBVIOUS
  <2>2. before.open \in BOOLEAN
    BY <1>2, <2>1, ConfigIs
  <2>3. /\ settings' = Spi!Normalized(s) /\ settings' \in SpiSettings
        /\ ready' \in BOOLEAN /\ moved' \in BOOLEAN /\ orphan' \in BOOLEAN /\ spi'.open \in BOOLEAN
        /\ ready' => spi' = Spi!Config(settings', hwCs, ss)
        /\ spi'.open => ready' \/ orphan'
    BY <1>3, <2>1, <2>2, ApplyIs
  <2>4. SpiTyped'
    BY <1>1, <1>2, <1>3, <2>3 DEF SpiTyped
  <2>5. SetUpAsAsked'
    BY <1>1, <1>3, <2>3 DEF SetUpAsAsked
  <2>6. QED
    BY <1>1, <2>4, <2>5, NoTransfer DEF SpiIInv
<1>4. CASE ~ready /\ Spi!SetUpFails(spi) /\ missed' = TRUE /\ UNCHANGED settings
  <2>1. /\ spi' = spi \/ spi' = Spi!Closed
        /\ ready' = FALSE /\ moved' = moved /\ orphan' = (orphan \/ spi.open)
    BY <1>4 DEF Spi!SetUpFails
  <2>2. spi'.open = spi.open \/ spi'.open = FALSE
    <3>1. Spi!Closed.open = FALSE
      BY DEF Spi!Closed
    <3>2. QED
      BY <2>1, <3>1
  <2>3. SpiTyped'
    BY <1>1, <1>2, <1>4, <2>1, <2>2 DEF SpiTyped
  <2>4. SetUpAsAsked'
    BY <1>2, <1>4, <2>1, <2>2 DEF SetUpAsAsked
  <2>5. QED
    BY <1>1, <2>3, <2>4, NoTransfer DEF SpiIInv
<1>5. QED
  BY <1>1, <1>3, <1>4

\* What a transfer on a bus that is set up is clocked with.
LEMMA ClockedWith ==
  ASSUME SpiIInv, Spi!Ensure(ss), ready'
  PROVE  missed \/ moved \/ (/\ spi'.clock = wanted.clock /\ spi'.lsb = (wanted.order = "LSB")
                             /\ spi'.cpha = wanted.mode % 2 /\ spi'.cpol = wanted.mode \div 2)
<1>1. ss \in Pins /\ wanted \in SpiSettings
  BY DEF SpiIInv, SpiTyped
<1>2. /\ ready => UNCHANGED <<ready, spi, orphan>>
      /\ ~ready => spi' = Spi!Config(settings, hwCs, ss)
  BY <1>1, EnsureIs
<1>3. (ready => spi = Spi!Config(settings, hwCs, ss) \/ moved) /\ (~missed => settings = wanted)
  BY DEF SpiIInv, SetUpAsAsked
<1>4. missed \/ moved \/ spi' = Spi!Config(wanted, hwCs, ss)
  BY <1>2, <1>3
<1>5. PICK c : c = Spi!Config(wanted, hwCs, ss)
  OBVIOUS
<1>6. c.clock = wanted.clock /\ c.lsb = (wanted.order = "LSB") /\ c.cpha = wanted.mode % 2 /\ c.cpol = wanted.mode \div 2
  BY <1>1, <1>5, ConfigIs, Zenon
<1>7. QED
  BY <1>4, <1>5, <1>6

\* A transfer leaves the bus as begin() would.
LEMMA TransferLeaves ==
  ASSUME SpiIInv, Spi!Ensure(ss), UNCHANGED <<hwCs, ss, wanted, missed>>
  PROVE  SpiTyped' /\ SetUpAsAsked'
<1>1. ss \in Pins
  BY DEF SpiIInv, SpiTyped
<1>2. /\ settings' = settings
      /\ ready' \in BOOLEAN /\ moved' \in BOOLEAN /\ orphan' \in BOOLEAN /\ spi'.open \in BOOLEAN
      /\ ready' => spi' = Spi!Config(settings, hwCs, ss) \/ moved'
      /\ spi'.open => ready' \/ orphan'
  BY <1>1, EnsureIs
<1>3. QED
  BY <1>2 DEF SpiIInv, SpiTyped, SetUpAsAsked

\* Each byte of a word sets the bus up if it has to, and is counted once.
LEMMA SpiTransferWord ==
  ASSUME SpiIInv, NEW word \in Words, Spi!TransferWord(word)
  PROVE  SpiIInv'
<1> DEFINE out == Spi!Ordered(word)
           n   == Len(word)
           set(k) == [i \in 1 .. n |-> i > k]
           in(k, failed) == [i \in 1 .. n |-> IF set(k)[i] /\ i \notin failed THEN out[i] ELSE 0]
<1>1. word \in Seq(Nat) /\ n \in Nat
  BY SpiConstants
<1>2. PICK k \in 0 .. n, failed \in SUBSET (1 .. n) :
        /\ IF ready THEN UNCHANGED <<settings, ready, spi, moved, orphan>>
           ELSE Spi!Ensure(ss) /\ ready' = (k < n)
        /\ last' = [clocked |-> SubSeq(out, k + 1, n), word |-> word, received |-> Spi!Ordered(in(k, failed)),
                    whole |-> k = 0 /\ failed = {}, with |-> spi', wanted |-> wanted,
                    excused |-> missed \/ moved]
        /\ UNCHANGED <<hwCs, ss, wanted, missed>>
  <2>1. PICK k \in IF ready THEN {0} ELSE 0 .. n :
          /\ IF ready THEN UNCHANGED <<settings, ready, spi, moved, orphan>>
             ELSE Spi!Ensure(ss) /\ ready' = (k < n)
          /\ \E failed \in SUBSET {i \in 1 .. n : set(k)[i]} :
               last' = [clocked |-> SubSeq(out, k + 1, n), word |-> word, received |-> Spi!Ordered(in(k, failed)),
                        whole |-> k = 0 /\ failed = {}, with |-> spi', wanted |-> wanted,
                        excused |-> missed \/ moved]
          /\ UNCHANGED <<hwCs, ss, wanted, missed>>
    BY Zenon DEF Spi!TransferWord
  <2>2. k \in 0 .. n
    BY <1>1, <2>1
  <2>3. \A failed : failed \in SUBSET {i \in 1 .. n : set(k)[i]} => failed \in SUBSET (1 .. n)
    OBVIOUS
  <2>4. QED
    BY <2>1, <2>2, <2>3, Zenon
<1>3. ready \in BOOLEAN /\ moved \in BOOLEAN /\ missed \in BOOLEAN
  BY DEF SpiIInv, SpiTyped
<1>4. Spi!Ensure(ss)
  BY <1>2, <1>3 DEF Spi!Ensure
<1>5. SpiTyped' /\ SetUpAsAsked'
  BY <1>2, <1>4, TransferLeaves
<1>6. out \in Seq(Nat) /\ Len(out) = n
  BY <1>1, ReverseIs DEF Spi!Ordered
<1> HIDE DEF out
<1>7. ASSUME SubSeq(out, k + 1, n) # <<>> PROVE ready'
  <2>1. k < n
    <3>1. CASE k = n
      BY <1>1, <1>6, <1>7, <3>1
    <3>2. QED
      BY <1>1, <3>1
  <2>2. QED
    BY <1>2, <2>1
<1>8. /\ in(k, failed) = [i \in 1 .. n |-> in(k, failed)[i]]
      /\ \A i \in 1 .. n : in(k, failed)[i] \in {0, out[i]}
      /\ k = 0 /\ failed = {} => \A i \in 1 .. n : in(k, failed)[i] = out[i]
  <2>1. k = 0 => \A i \in 1 .. n : set(k)[i]
    <3>1. \A i \in 1 .. n : i > 0
      BY <1>1
    <3>2. \A i \in 1 .. n : set(0)[i] <=> i > 0
      BY Zenon
    <3> HIDE DEF set
    <3>3. QED
      BY <3>1, <3>2
  <2> HIDE DEF set
  <2>2. \A i \in 1 .. n : in(k, failed)[i] = IF set(k)[i] /\ i \notin failed THEN out[i] ELSE 0
    OBVIOUS
  <2>3. in(k, failed) = [i \in 1 .. n |-> in(k, failed)[i]]
    BY Zenon
  <2>4. QED
    BY <2>1, <2>2, <2>3
<1> HIDE DEF in
<1>9. PICK got : got = Spi!Ordered(in(k, failed))
  OBVIOUS
<1>10. /\ \A i \in DOMAIN word : got[i] \in {0, word[i]}
       /\ k = 0 /\ failed = {} => got = word
  BY <1>1, <1>8, <1>9, OrderedTwice DEF out
<1>11. SubSeq(out, k + 1, n) # <<>> =>
         missed \/ moved \/ (/\ spi'.clock = wanted.clock /\ spi'.lsb = (wanted.order = "LSB")
                             /\ spi'.cpha = wanted.mode % 2 /\ spi'.cpol = wanted.mode \div 2)
  BY <1>4, <1>7, ClockedWith
<1>12. ClockedAsAsked(last)'
  BY <1>2, <1>9, <1>10, <1>11 DEF ClockedAsAsked
<1>13. QED
  BY <1>5, <1>12 DEF SpiIInv

\* So does a buffer, as a whole.
LEMMA SpiTransferBuffer ==
  ASSUME SpiIInv, NEW bytes \in Words, Spi!TransferBuffer(bytes)
  PROVE  SpiIInv'
<1>1. /\ Spi!Ensure(ss) /\ UNCHANGED <<hwCs, ss, wanted, missed>>
      /\ last' = IF ready'
                 THEN [clocked |-> bytes, word |-> bytes, received |-> bytes, whole |-> TRUE,
                       with |-> spi', wanted |-> wanted, excused |-> missed \/ moved]
                 ELSE Spi!Nothing
  BY DEF Spi!TransferBuffer
<1>2. SpiTyped' /\ SetUpAsAsked'
  BY <1>1, TransferLeaves
<1>3. CASE ready'
  <2>1. missed \/ moved \/ (/\ spi'.clock = wanted.clock /\ spi'.lsb = (wanted.order = "LSB")
                            /\ spi'.cpha = wanted.mode % 2 /\ spi'.cpol = wanted.mode \div 2)
    BY <1>1, <1>3, ClockedWith
  <2>2. ClockedAsAsked(last)'
    BY <1>1, <1>3, <2>1 DEF ClockedAsAsked
  <2>3. QED
    BY <1>2, <2>2 DEF SpiIInv
<1>4. CASE ~ready'
  BY <1>1, <1>2, <1>4, NoTransfer DEF SpiIInv
<1>5. QED
  BY <1>3, <1>4

\* Every step of SPI.
LEMMA SpiStep == SpiIInv /\ [Spi!Next]_spiVars => SpiIInv'
<1> SUFFICES ASSUME SpiIInv, [Spi!Next]_spiVars PROVE SpiIInv'
  OBVIOUS
<1>1. CASE Spi!End
  BY <1>1, SpiEnd
<1>2. CASE \E p \in Pins : Spi!Begin(p)
  BY <1>2, SpiBegin
<1>3. CASE \/ \E use \in BOOLEAN : Spi!SetHwCs(use)
           \/ \E o \in Spi!Orders : Spi!SetBitOrder(o)
           \/ \E mode \in Modes : Spi!SetDataMode(mode)
           \/ \E c \in SpiClocks : Spi!SetFrequency(c)
           \/ \E d \in Dividers : Spi!SetClockDivider(d)
  BY <1>3, SpiSetters
<1>4. ASSUME NEW c \in SpiClocks, NEW o \in Spi!Orders, NEW mode \in Modes,
             Spi!BeginTransaction([clock |-> c, order |-> o, mode |-> mode])
      PROVE  SpiIInv'
  <2>1. PICK s : s = [clock |-> c, order |-> o, mode |-> mode]
    OBVIOUS
  <2>2. s \in [clock : Nat, order : Spi!Orders, mode : Modes \cup {0}]
    BY <2>1, SpiConstants
  <2>3. QED
    BY <1>4, <2>1, <2>2, SpiBeginTransaction
<1>5. CASE \E w \in Words : Spi!TransferWord(w) \/ Spi!TransferBuffer(w)
  BY <1>5, SpiTransferWord, SpiTransferBuffer
<1>6. CASE UNCHANGED spiVars
  BY <1>6 DEF spiVars, SpiIInv, SpiTyped, SetUpAsAsked, ClockedAsAsked
<1>7. QED
  BY <1>1, <1>2, <1>3, <1>4, <1>5, <1>6 DEF Spi!Next

-----------------------------------------------------------------------------
(* The properties of the run *)

\* The buses side by side: a transmission of Wire that reports success has sent the
\* end of what write() took, all of it unless the bus was set up or closed in
\* between, and reads return the answer to the last request (Wire.cpp).
THEOREM BusesWire == BusesSpec => []WireInv
<1>1. Spec => []WireInv
  BY WireSound, BusesAssumption
<1>2. BusesInit => Init
  BY DEF BusesInit
<1>3. [SpiNext \/ WireNext]_allVars => [Next]_vars
  BY DEF SpiNext, WireNext, allVars
<1>4. QED
  BY <1>1, <1>2, <1>3, PTL DEF BusesSpec, Spec

\* SPI clocks every word with the settings the sketch asked for last, unless a
\* beginTransaction was lost or begin() moved the pin, and whole unless a set-up or
\* a byte fails; a bus is open without being known to be so only after a set-up
\* that failed (SPI.cpp).
THEOREM BusesSpi == BusesSpec => []SpiInv
<1>1. BusesInit => SpiIInv
  BY SpiInit DEF BusesInit
<1>2. SpiIInv /\ [SpiNext \/ WireNext]_allVars => SpiIInv'
  <2>1. [SpiNext \/ WireNext]_allVars => [Spi!Next]_spiVars
    BY DEF SpiNext, WireNext, allVars
  <2>2. QED
    BY <2>1, SpiStep
<1>3. SpiIInv => SpiInv
  <2> SUFFICES ASSUME SpiIInv PROVE SpiInv
    OBVIOUS
  <2>1. Spi!TypeOK
    BY DEF SpiIInv, SpiTyped, SpiSettings, Spi!TypeOK
  <2>2. QED
    BY <2>1 DEF SpiIInv, SpiTyped, SetUpAsAsked, ClockedAsAsked, SpiInv, Spi!SpiInv
<1>4. QED
  BY <1>1, <1>2, <1>3, PTL DEF BusesSpec

=============================================================================
