CONSTANTS
  MinClock = 2
  MaxClock = 6
  SpiClocks = {1, 7}
  Dividers = {0, 1, 9}
  Modes = {0, 2}
  Pins = {8, 9}
  NoPin = NoPin
  Words <- SomeWords
  BufferLength = 2
  MaxWritten = 4
  AddressMod = 2
  Addresses = {1, 2}
  Quantities <- SomeQuantities
  Chunks <- SomeChunks
  Fast = 1
  Plus = 4
  Clocks = {1, 4}
SPECIFICATION BusesSpec
INVARIANTS
  
  WireInv
