\* Two objects on the default file; sizes up to and beyond the maximum.
CONSTANTS
  long = long
  o1 = o1
  o2 = o2
  Stores = {o1, o2}
  Names = {long}
  NameOf <- MCNameOf
  TooLong = {long}
  DefaultFile = arduino_eeprom
  Sizes = {1, 2, 3}
  MaxSize = 2
  StoredBytes = {1}
  Erased = 255
  Addresses <- MCAddresses
SYMMETRY Interchangeable
SPECIFICATION EepromSpec
INVARIANTS
  EepromInv
PROPERTIES
  UntouchedBytesKept
  EndStoresEdits
