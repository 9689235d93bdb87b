------------------------------ MODULE MCEeprom ------------------------------
(***************************************************************************)
(* EepromStore beside PreferencesStore, which lives in the same NVM bridge *)
(* but shares no file with it: what both call by one name is renamed.  In  *)
(* the instance checked, two objects share the default file, because their *)
(* names are too long for files of their own.                              *)
(***************************************************************************)
EXTENDS Integers, TLC

CONSTANTS
  Stores, Names, NameOf, TooLong, DefaultFile, Sizes, MaxSize, Erased, Addresses,   \* of EepromStore
  StoredBytes,                                                                      \* its Values
  o1, o2, long                                                                      \* of the instance checked

VARIABLES
  data, dirty, refs, silent, behind, edited, write,   \* of EepromStore
  images                                              \* its nvm

Eeprom == INSTANCE EepromStore WITH Values <- StoredBytes, nvm <- images

ASSUME EepromAssumption == Eeprom!EepromAssumption

EepromSpec == Eeprom!Spec

MCNameOf    == (o1 :> long) @@ (o2 :> long)
Interchangeable == Permutations({o1, o2})
MCAddresses == {-1, 0, 1, 2}

-----------------------------------------------------------------------------
\* A copy that is not dirty is the file's, and every reference into it is inside of
\* it: see EepromStore.
EepromInv == Eeprom!StoreInv

\* A byte of a file that no edit touched keeps its value: see EepromStore.
UntouchedBytesKept == Eeprom!UntouchedBytesKept

\* end() and a second begin() store every edit first: see EepromStore.
EndStoresEdits == Eeprom!EndStoresEdits

=============================================================================
