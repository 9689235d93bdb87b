\* Two objects on one namespace.  Two small entries fill it exactly; a large one
\* fits alone, beside no other.
CONSTANTS
  h1 = h1
  h2 = h2
  k1 = k1
  k2 = k2
  kLong = kLong
  small = small
  large = large
  NoName = NoName
  Handles = {h1, h2}
  Namespaces = {n1}
  Keys = {k1, k2, kLong}
  Values = {small, large}
  KeyLength <- MCKeyLength
  Length <- MCLength
  MaxKeyLength = 2
  Capacity = 21
SYMMETRY Interchangeable
SPECIFICATION Spec
INVARIANTS
  StoreInv
PROPERTIES
  ImplementsMap
  KeysLostKnowingly
