------------------------------- MODULE MCBuses -------------------------------
(***************************************************************************)
(* SPIClass and TwoWire, the two buses of a board.  They share nothing, so *)
(* that a behaviour drives one of them and leaves the other as it was.     *)
(***************************************************************************)
EXTENDS WireBus

CONSTANTS
  MinClock, MaxClock, SpiClocks, Dividers, Modes, Pins, NoPin, Words  \* of SpiBus

VARIABLES
  driven,  \* the bus that is driven, "spi" or "wire"
  settings, hwCs, ss, ready, spi, wanted, missed, moved, orphan, last  \* of SpiBus

spiVars == <<settings, hwCs, ss, ready, spi, wanted, missed, moved, orphan, last>>
allVars == <<driven, vars, spiVars>>

\* A byte, and a word whose bytes differ.
SomeWords == {<<1>>, <<1, 2>>}
\* Two chunks that fit a buffer of two only in part.
SomeChunks == {<<1>>, <<2, 3>>}
SomeQuantities == {-1, 0, 1}

Spi == INSTANCE SpiBus WITH Clocks <- SpiClocks, initialized <- ready, driver <- spi

ASSUME BusesAssumption == WireAssumption /\ Spi!SpiAssumption

BusesInit == driven \in {"spi", "wire"} /\ Init /\ Spi!Init

SpiNext  == driven = "spi" /\ Spi!Next /\ UNCHANGED <<driven, vars>>
WireNext == driven = "wire" /\ Next /\ UNCHANGED <<driven, spiVars>>

BusesSpec == BusesInit /\ [][SpiNext \/ WireNext]_allVars

-----------------------------------------------------------------------------
\* SPI clocks what the sketch asked for, as it asked for it: see SpiBus.
SpiInv == Spi!SpiInv

=============================================================================
