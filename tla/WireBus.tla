-------------------------------- MODULE WireBus --------------------------------
(***************************************************************************)
(* TwoWire (Wire.cpp): a transmission is collected in a buffer and sent by *)
(* endTransmission, a request fills another buffer that read() empties.    *)
(***************************************************************************)
EXTENDS Integers, Sequences, SequencesExt

CONSTANTS
  BufferLength,  \* kBufferLength, 32
  AddressMod,    \* addresses are narrowed to a byte: modulo 256, here AddressMod
  Addresses,     \* addresses a sketch passes
  Quantities,    \* and numbers of bytes, of type int
  Chunks,        \* byte sequences it writes
  Fast, Plus,    \* clock rates above which the speed code changes
  Clocks,        \* clock rates it asks for
  MaxWritten     \* bound on the bytes written in a transmission

WireAssumption ==
  /\ BufferLength \in Nat \ {0} /\ AddressMod \in Nat \ {0}
  /\ Addresses \subseteq Nat /\ Quantities \subseteq Int
  /\ \A bytes \in Chunks : bytes \in Seq(Nat)
  /\ MaxWritten \in Nat /\ Clocks \subseteq Nat /\ Fast \in Nat /\ Plus \in Nat /\ Fast < Plus

VARIABLES
  clock,         \* clock_hz_
  initialized, transmitting,
  address, tx,   \* tx_address_ and the bytes of tx_buffer_
  rx,            \* the bytes of rx_buffer_ that are not read yet
  driver,        \* the speed luat_i2c_setup has set the bus up for, 0 if closed
  written,       \* history: the bytes write() has taken since beginTransmission
  disturbed,     \* history: the bus was set up or closed since then
  refused,       \* history: a set-up of an open bus has failed
  answer,        \* history: what the last requestFrom was answered
  result         \* history: what endTransmission has just sent and returned

bus  == <<initialized, driver, refused>>
vars == <<clock, bus, transmitting, address, tx, rx, written, disturbed, answer, result>>

SpeedCode(c) == IF c <= Fast THEN 1 ELSE IF c <= Plus THEN 2 ELSE 3

NoResult == [code |-> 4, to |-> 0, sent |-> <<>>, taken |-> <<>>, disturbed |-> FALSE]

Init ==
  /\ clock \in Clocks /\ clock > 0
  /\ initialized = FALSE /\ transmitting = FALSE
  /\ address = 0 /\ tx = <<>> /\ rx = <<>> /\ driver = 0
  /\ written = <<>> /\ disturbed = FALSE /\ refused = FALSE
  /\ answer = <<>> /\ result = NoResult

\* begin() with clock rate c: both buffers are emptied, also those of a
\* transmission in progress.  A bus that refuses is not set up, though it may
\* still be open.
SetUp(c) ==
  \/ /\ driver' = SpeedCode(c) /\ initialized' = TRUE /\ refused' = FALSE
     /\ tx' = <<>> /\ rx' = <<>> /\ disturbed' = TRUE
  \/ /\ driver' \in {driver, 0} /\ initialized' = FALSE /\ refused' = TRUE
     /\ UNCHANGED <<tx, rx, disturbed>>

\* begin(sda, scl, frequency): the pins are kept for getters only; no frequency
\* leaves the clock.
Begin(frequency) ==
  /\ clock' = IF frequency # 0 THEN frequency ELSE clock
  /\ SetUp(clock')
  /\ UNCHANGED <<transmitting, address, written, answer>> /\ result' = NoResult

End ==
  /\ driver' = IF initialized THEN 0 ELSE driver
  /\ initialized' = FALSE
  /\ tx' = <<>> /\ rx' = <<>> /\ disturbed' = TRUE
  /\ UNCHANGED <<clock, transmitting, address, written, refused, answer>> /\ result' = NoResult

\* setClock on an open bus sets it up again, without begin(): the buffers stay,
\* and so does initialized_ when the bus refuses.
SetClock(frequency) ==
  /\ frequency > 0
  /\ clock' = frequency
  /\ IF initialized
     THEN \/ driver' = SpeedCode(frequency) /\ refused' = FALSE
          \/ driver' \in {driver, 0} /\ refused' = TRUE
     ELSE UNCHANGED <<driver, refused>>
  /\ UNCHANGED <<initialized, transmitting, address, tx, rx, written, disturbed, answer>> /\ result' = NoResult

\* Mutant of BeginTransmission: what an abandoned transmission wrote stays.
BeginTransmissionKeeps(addr) ==
  /\ address' = addr % AddressMod /\ transmitting' = TRUE
  /\ written' = <<>> /\ disturbed' = FALSE
  /\ UNCHANGED <<clock, bus, tx, rx, answer>> /\ result' = NoResult

BeginTransmission(addr) ==
  /\ address' = addr % AddressMod /\ transmitting' = TRUE
  /\ tx' = <<>> /\ written' = <<>> /\ disturbed' = FALSE
  /\ UNCHANGED <<clock, bus, rx, answer>> /\ result' = NoResult

\* write() takes what fits.
Write(bytes) ==
  /\ transmitting /\ Len(written) + Len(bytes) <= MaxWritten
  /\ LET room  == BufferLength - Len(tx)
         taken == SubSeq(bytes, 1, IF Len(bytes) < room THEN Len(bytes) ELSE room)
     IN  tx' = tx \o taken /\ written' = written \o taken
  /\ UNCHANGED <<clock, bus, transmitting, address, rx, disturbed, answer>> /\ result' = NoResult

Finish(code, sent) ==
  result' = [code |-> code, to |-> address, sent |-> sent, taken |-> written, disturbed |-> disturbed]

\* endTransmission without beginTransmission, or on a bus that has to be set up
\* first, or with nothing to send, fails; a bus may fail to send.  Nothing is
\* kept for another try.
EndTransmission ==
  /\ \/ /\ ~transmitting
        /\ Finish(4, <<>>)
        /\ UNCHANGED <<bus, tx, rx, transmitting, disturbed>>
     \/ /\ transmitting /\ ~initialized
        /\ SetUp(clock)
        /\ Finish(4, <<>>) /\ transmitting' = FALSE
     \/ /\ transmitting /\ initialized
        /\ IF tx = <<>> THEN Finish(4, <<>>) ELSE Finish(0, tx) \/ Finish(4, <<>>)
        /\ tx' = <<>> /\ transmitting' = FALSE
        /\ UNCHANGED <<bus, rx, disturbed>>
  /\ UNCHANGED <<clock, address, written, answer>>

\* The quantity becomes a size_t: a negative one asks for the whole buffer.
Capped(quantity) ==
  IF quantity < 0 \/ quantity > BufferLength THEN BufferLength ELSE quantity

Answers(n) == [1 .. n -> {1, 2}]

\* requestFrom: an old answer is dropped; a bus that has to be set up first loses
\* the transmission in progress.
RequestFrom(addr, quantity) ==
  /\ IF Capped(quantity) = 0
     THEN rx' = <<>> /\ answer' = <<>> /\ UNCHANGED <<bus, tx, disturbed>>
     ELSE /\ IF initialized THEN UNCHANGED <<bus, tx, disturbed>>
             ELSE \/ /\ driver' = SpeedCode(clock) /\ initialized' = TRUE /\ refused' = FALSE
                     /\ tx' = <<>> /\ disturbed' = TRUE
                  \/ /\ driver' \in {driver, 0} /\ initialized' = FALSE /\ refused' = TRUE
                     /\ UNCHANGED <<tx, disturbed>>
          /\ \E bytes \in {<<>>} \cup (IF initialized' THEN Answers(Capped(quantity)) ELSE {}) :
               rx' = bytes /\ answer' = bytes
  /\ UNCHANGED <<clock, transmitting, address, written>> /\ result' = NoResult

Read ==
  /\ rx # <<>> /\ rx' = Tail(rx)
  /\ UNCHANGED <<clock, bus, transmitting, address, tx, written, disturbed, answer>> /\ result' = NoResult

Next ==
  \/ \E f \in Clocks \cup {0} : Begin(f)
  \/ End \/ EndTransmission \/ Read
  \/ \E f \in Clocks : SetClock(f)
  \/ \E a \in Addresses : BeginTransmission(a) \/ \E q \in Quantities : RequestFrom(a, q)
  \/ \E bytes \in Chunks : Write(bytes)

Spec == Init /\ [][Next]_vars
-----------------------------------------------------------------------------
(* Properties *)

\* Every variable has the values its declaration promises.
TypeOK ==
  /\ clock \in Clocks \ {0} /\ {initialized, transmitting, disturbed, refused} \subseteq BOOLEAN
  /\ address \in 0 .. AddressMod - 1 /\ Len(tx) <= BufferLength /\ Len(rx) <= BufferLength
  /\ driver \in 0 .. 3

\* A transmission that reports success has sent every byte that write() took,
\* unless the bus was set up or closed in the middle of it; the bytes to read are
\* the rest of the last answer; and the bus is open at the rate that was asked
\* for, and known to be, unless a set-up of it has failed.
WireInv ==
  /\ TypeOK
  /\ transmitting /\ ~disturbed => tx = written
  /\ result.code = 0 => /\ result.sent = result.taken \/ result.disturbed
                        /\ IsSuffix(result.sent, result.taken)
  /\ IsSuffix(rx, answer)
  /\ ~refused => /\ initialized => driver = SpeedCode(clock)
                 /\ ~initialized => driver = 0

=============================================================================
