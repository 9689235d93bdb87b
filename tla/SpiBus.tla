--------------------------------- MODULE SpiBus ---------------------------------
(***************************************************************************)
(* SPIClass (SPI.cpp): settings that are applied when the bus is set up,   *)
(* set-ups that fail, and words that are clocked byte by byte.             *)
(***************************************************************************)
EXTENDS Integers, Sequences, SequencesExt

CONSTANTS
  MinClock, MaxClock,  \* 100 kHz and 26 MHz
  Clocks,    \* clock rates a sketch asks for
  Dividers,  \* and clock dividers
  Modes,     \* SPI_MODE0 .. SPI_MODE3
  Pins,      \* chip select pins
  NoPin,     \* -1
  Words      \* words of one, two or four bytes, the least significant first

SpiAssumption ==
  /\ MinClock \in Nat \ {0} /\ MaxClock \in Nat /\ MinClock <= MaxClock
  /\ Clocks \subseteq Nat /\ Dividers \subseteq Nat /\ Modes \subseteq 0 .. 3
  /\ NoPin \notin Pins /\ Pins # {} /\ \A word \in Words : word \in Seq(Nat)

VARIABLES
  settings,     \* active_settings_
  hwCs, ss,     \* hardware_cs_ and ss_pin_
  initialized,
  driver,       \* what luat_spi_setup has set the bus up for, or Closed
  wanted,       \* history: the settings the sketch last asked for
  missed,       \* history: a beginTransaction has dropped its settings
  moved,        \* history: begin() has moved the pin of a bus that was set up
  orphan,       \* history: a set-up has failed on a bus that was set up
  last          \* history: the last transfer: what was clocked and how

vars == <<settings, hwCs, ss, initialized, driver, wanted, missed, moved, orphan, last>>

Orders == {"LSB", "MSB"}
Closed == [open |-> FALSE]
NormalizedClock(c) == IF c < MinClock THEN MinClock ELSE IF c > MaxClock THEN MaxClock ELSE c

Bit(n, k) == (n \div 2^k) % 2

\* The configuration applySettings passes to the driver.
Config(s, cs, pin) ==
  [open |-> TRUE, clock |-> s.clock, lsb |-> s.order = "LSB", cpha |-> Bit(s.mode, 0),
   cpol |-> Bit(s.mode, 1), cs |-> IF cs THEN pin ELSE NoPin]

Normalized(s) == [s EXCEPT !.clock = NormalizedClock(@)]

Init ==
  /\ settings = [clock |-> NormalizedClock(4), order |-> "MSB", mode |-> 0]
  /\ hwCs = FALSE /\ ss = (CHOOSE p \in Pins : TRUE)
  /\ initialized = FALSE /\ driver = Closed
  /\ wanted = settings /\ missed = FALSE /\ moved = FALSE /\ orphan = FALSE
  /\ last = [clocked |-> <<>>]

Nothing == [clocked |-> <<>>]

\* What a set-up that fails leaves of the one before is up to the driver.
SetUpFails(before) ==
  /\ driver' \in {before, Closed} /\ initialized' = FALSE
  /\ orphan' = (orphan \/ before.open) /\ UNCHANGED moved

\* applySettings: the settings are kept whether or not the driver takes them.
Apply(s, cs, pin, before) ==
  /\ settings' = Normalized(s)
  /\ \/ /\ driver' = Config(settings', cs, pin) /\ initialized' = TRUE
        /\ moved' = FALSE /\ UNCHANGED orphan
     \/ SetUpFails(before)

\* begin() does not set a bus up again.
Ensure(pin) ==
  IF initialized THEN UNCHANGED <<settings, initialized, driver, orphan>> /\ moved' = (moved \/ pin # ss)
  ELSE Apply(settings, hwCs, pin, driver)

\* begin(), and begin(sck, miso, mosi, ss): the pin counts from the next set-up on.
Begin(pin) ==
  /\ ss' = pin /\ Ensure(pin)
  /\ last' = Nothing /\ UNCHANGED <<hwCs, wanted, missed>>

\* end() closes the bus only if it believes it is set up.
End ==
  /\ driver' = IF initialized THEN Closed ELSE driver
  /\ initialized' = FALSE
  /\ last' = Nothing /\ UNCHANGED <<settings, hwCs, ss, wanted, missed, moved, orphan>>

\* setHwCs, setBitOrder, setDataMode, setFrequency: applied at once if the bus is
\* set up.
Set(s, cs) ==
  /\ wanted' = Normalized([wanted EXCEPT !.clock = IF s.clock = settings.clock THEN @ ELSE s.clock,
                                         !.order = IF s.order = settings.order THEN @ ELSE s.order,
                                         !.mode  = IF s.mode = settings.mode THEN @ ELSE s.mode])
  /\ hwCs' = cs
  /\ IF initialized THEN Apply(s, cs, ss, driver)
     ELSE settings' = Normalized(s) /\ UNCHANGED <<initialized, driver, moved, orphan>>
  /\ last' = Nothing /\ UNCHANGED <<ss, missed>>

SetHwCs(use)      == Set(settings, use)
SetBitOrder(o)    == Set([settings EXCEPT !.order = o], hwCs)
SetDataMode(m)    == Set([settings EXCEPT !.mode = m], hwCs)
SetFrequency(c)   == Set([settings EXCEPT !.clock = c], hwCs)
SetClockDivider(d) == d # 0 /\ SetFrequency(MaxClock \div d)

\* Mutant of BeginTransaction: a bus that is set up keeps its settings.
BeginTransactionOnce(s) ==
  /\ wanted' = Normalized(s)
  /\ IF initialized THEN UNCHANGED <<settings, driver, initialized, moved, orphan>>
     ELSE Apply(s, hwCs, ss, driver)
  /\ missed' = FALSE
  /\ last' = Nothing /\ UNCHANGED <<hwCs, ss>>

\* beginTransaction first sets the bus up with the settings of before; if that
\* fails, its own are lost.
BeginTransaction(s) ==
  /\ wanted' = Normalized(s)
  /\ \/ /\ Apply(s, hwCs, ss, IF initialized THEN driver ELSE Config(settings, hwCs, ss))
        /\ missed' = FALSE
     \/ /\ ~initialized /\ SetUpFails(driver)
        /\ missed' = TRUE /\ UNCHANGED settings
  /\ last' = Nothing /\ UNCHANGED <<hwCs, ss>>

-----------------------------------------------------------------------------
(* Transfers *)

\* The order in which the bytes of a word are clocked, and its inverse.
Ordered(word) == IF settings.order = "LSB" THEN word ELSE Reverse(word)

\* transfer, transfer16, transfer32 and their write forms: each byte tries to set
\* the bus up; the first k fail, so that the word starts late or not at all.
\* A byte whose transfer fails reads as zero.
TransferWord(word) ==
  \E k \in IF initialized THEN {0} ELSE 0 .. Len(word) :
    LET out == Ordered(word)
        n   == Len(word)
        set == [i \in 1 .. n |-> i > k]
    IN  /\ IF initialized THEN UNCHANGED <<settings, initialized, driver, moved, orphan>>
           ELSE Ensure(ss) /\ initialized' = (k < n)
        /\ \E failed \in SUBSET {i \in 1 .. n : set[i]} :
             LET in == [i \in 1 .. n |-> IF set[i] /\ i \notin failed THEN out[i] ELSE 0]
             IN  last' = [clocked |-> SubSeq(out, k + 1, n), word |-> word, received |-> Ordered(in),
                          whole |-> k = 0 /\ failed = {}, with |-> driver', wanted |-> wanted,
                          excused |-> missed \/ moved]
        /\ UNCHANGED <<hwCs, ss, wanted, missed>>

\* The transfers of buffers go out as they are, or not at all.
TransferBuffer(bytes) ==
  /\ Ensure(ss)
  /\ last' = IF initialized'
             THEN [clocked |-> bytes, word |-> bytes, received |-> bytes, whole |-> TRUE,
                   with |-> driver', wanted |-> wanted, excused |-> missed \/ moved]
             ELSE Nothing
  /\ UNCHANGED <<hwCs, ss, wanted, missed>>

Next ==
  \/ End \/ \E p \in Pins : Begin(p)
  \/ \E use \in BOOLEAN : SetHwCs(use)
  \/ \E o \in Orders : SetBitOrder(o)
  \/ \E m \in Modes : SetDataMode(m)
  \/ \E c \in Clocks : SetFrequency(c)
  \/ \E d \in Dividers : SetClockDivider(d)
  \/ \E c \in Clocks, o \in Orders, m \in Modes :
       BeginTransaction([clock |-> c, order |-> o, mode |-> m])
  \/ \E w \in Words : TransferWord(w) \/ TransferBuffer(w)

Spec == Init /\ [][Next]_vars
-----------------------------------------------------------------------------
(* Properties *)

\* Every variable has the values its declaration promises.
TypeOK ==
  /\ settings \in [clock : MinClock .. MaxClock, order : Orders, mode : Modes \cup {0}]
  /\ wanted \in [clock : MinClock .. MaxClock, order : Orders, mode : Modes \cup {0}]
  /\ {hwCs, initialized, missed, moved, orphan} \subseteq BOOLEAN /\ ss \in Pins

\* A bus that is set up has the settings and the chip select that hold now, and
\* what is clocked has those the sketch asked for, in their byte order, whole
\* unless a set-up or a byte fails; only a lost beginTransaction, or a pin moved
\* by begin(), makes a difference.  A bus is open and not known to be so only
\* after a set-up that failed.
SpiInv ==
  /\ TypeOK
  /\ initialized => driver = Config(settings, hwCs, ss) \/ moved
  /\ ~missed => settings = wanted
  /\ driver.open => initialized \/ orphan
  /\ last.clocked # <<>> =>
       /\ last.excused \/ (last.with.clock = last.wanted.clock /\ last.with.lsb = (last.wanted.order = "LSB")
                           /\ last.with.cpha = last.wanted.mode % 2 /\ last.with.cpol = last.wanted.mode \div 2)
       /\ last.whole => last.received = last.word
       /\ \A i \in DOMAIN last.word : last.received[i] \in {0, last.word[i]}

=============================================================================
