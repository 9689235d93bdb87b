----------------------------- MODULE EepromStore -----------------------------
(***************************************************************************)
(* EEPROM.cpp over the NVM bridge of arduino_nvm_io.c.  An object copies a *)
(* file into RAM at begin(), edits the copy, and stores all of it again at *)
(* commit(), or at end() and the next begin() when it is dirty.  A sketch  *)
(* may also keep references into the copy.  Reads and writes of the file   *)
(* may fail, memory may run out, and the board may restart at any call.    *)
(***************************************************************************)
EXTENDS Integers, Sequences

CONSTANTS
  Stores,       \* EEPROMClass objects
  Names,        \* names given to constructors
  NameOf,       \* the name of each object
  TooLong,      \* names that do not fit file_name_ with their prefix
  DefaultFile,  \* kEepromFileName
  Sizes,        \* arguments of begin
  MaxSize,      \* kEepromMaxSize
  Values,       \* byte values a sketch stores
  Erased,       \* the byte 0xFF
  Addresses     \* addresses a sketch passes

EepromAssumption ==
  /\ Sizes \subseteq Nat /\ MaxSize \in Nat \ {0}
  /\ Addresses \subseteq Int
  /\ NameOf \in [Stores -> Names] /\ TooLong \subseteq Names

\* setFileName: a name that is too long falls back to the file of the default
\* object, which carries no prefix.
FileOf(o) == IF NameOf[o] \in TooLong THEN DefaultFile ELSE NameOf[o]
Files     == {FileOf(o) : o \in Stores}

Bytes == Values \cup {Erased}

VARIABLES
  data,      \* data_ and size_ of each object; no bytes when data_ is NULL
  dirty,     \* dirty_
  refs,      \* addresses the sketch holds a reference to (operator[], getDataPtr)
  nvm,       \* the NVM files; no bytes when missing or not an EEPROM image
  silent,    \* history: objects changed through a reference while not dirty
  behind,    \* history: objects whose copy misses what the file holds
  edited,    \* history: addresses an object stored to since its last commit
  write      \* history: "ok" or "failed" when this step wrote a file

vars == <<data, dirty, refs, nvm, silent, behind, edited, write>>

Open(o)        == data[o] # <<>>
AddressesOf(o) == 0 .. Len(data[o]) - 1
At(o, a)       == data[o][a + 1]

Init ==
  /\ data = [o \in Stores |-> <<>>]
  /\ dirty = [o \in Stores |-> FALSE]
  /\ refs = [o \in Stores |-> {}]
  /\ nvm = [f \in Files |-> <<>>]
  /\ silent = {} /\ behind = {}
  /\ edited = [o \in Stores |-> {}]
  /\ write = "none"

-----------------------------------------------------------------------------
(* The file *)

\* What a copy of the given size holds after the image was read into it.
View(image, size) ==
  [i \in 1 .. size |-> IF i <= Len(image) THEN image[i] ELSE Erased]

\* The objects that lose track of the file when o changes it.
Missed(o) ==
  {p \in Stores \ {o} : Open(p) /\ FileOf(p) = FileOf(o) /\ nvm'[FileOf(p)] # nvm[FileOf(p)]}

\* commit() writes the whole copy.  A failing write, or one without memory for
\* the body, leaves the file as it was or unreadable.
Stored(o) ==
  /\ nvm' = [nvm EXCEPT ![FileOf(o)] = data[o]]
  /\ write' = "ok"
NotStored(o) ==
  /\ nvm' = nvm \/ nvm' = [nvm EXCEPT ![FileOf(o)] = <<>>]
  /\ write' = "failed"
NoWrite == UNCHANGED nvm /\ write' = "none"

Commit(o) ==
  /\ Open(o)
  /\ \/ /\ Stored(o)
        /\ dirty' = [dirty EXCEPT ![o] = FALSE]
        /\ edited' = [edited EXCEPT ![o] = {}]
        /\ silent' = silent \ {o}
        /\ behind' = (behind \ {o}) \cup Missed(o)
     \/ /\ NotStored(o)
        /\ behind' = behind \cup Missed(o) \cup (IF nvm' # nvm THEN {o} ELSE {})
        /\ UNCHANGED <<dirty, silent, edited>>
  /\ UNCHANGED <<data, refs>>

\* Mutant of CommitIfDirty: the dirty copy is dropped.
CommitNever(o) == NoWrite

\* end() and begin() commit a dirty copy, and go on when that fails.
CommitIfDirty(o) ==
  IF Open(o) /\ dirty[o] THEN Stored(o) \/ NotStored(o) ELSE NoWrite

\* The copy is replaced by d; references into the old one are dead.
Replaced(o, d) ==
  /\ data' = [data EXCEPT ![o] = d]
  /\ dirty' = [dirty EXCEPT ![o] = FALSE]
  /\ refs' = [refs EXCEPT ![o] = {}]
  /\ silent' = silent \ {o}
  /\ edited' = [edited EXCEPT ![o] = {}]

\* end(), and the destructor.
End(o) ==
  /\ CommitIfDirty(o)
  /\ Replaced(o, <<>>)
  /\ behind' = (behind \ {o}) \cup Missed(o)

\* Mutant of Begin: the last byte of the file is not read.
BeginShort(o, size) ==
  LET image == nvm'[FileOf(o)]
  IN  /\ size \in 1 .. MaxSize
      /\ CommitIfDirty(o)
      /\ Replaced(o, View(SubSeq(image, 1, Len(image) - 1), size))
      /\ behind' = (behind \ {o}) \cup Missed(o)

\* begin(size) ends the open copy, and then finds no memory, reads the file, or
\* fails to read it and takes it for erased.
Begin(o, size) ==
  LET f == FileOf(o)
  IN  /\ size \in 1 .. MaxSize
      /\ CommitIfDirty(o)
      /\ \/ Replaced(o, <<>>) /\ behind' = (behind \ {o}) \cup Missed(o)
         \/ Replaced(o, View(nvm'[f], size)) /\ behind' = (behind \ {o}) \cup Missed(o)
         \/ /\ nvm'[f] # <<>>
            /\ Replaced(o, View(<<>>, size))
            /\ behind' = behind \cup {o} \cup Missed(o)

-----------------------------------------------------------------------------
(* Edits *)

validAddress(o, a) == a >= 0 /\ a < Len(data[o])
validRange(o, a, len) == Open(o) /\ a >= 0 /\ a <= Len(data[o]) /\ len <= Len(data[o]) - a

\* The bytes from address a on become those of vs.
Overlay(o, a, vs) ==
  [i \in 1 .. Len(data[o]) |->
     IF i \in a + 1 .. a + Len(vs) THEN vs[i - a] ELSE data[o][i]]

\* Mutant of WriteByte: the store is not recorded.
WriteByteClean(o, a, v) ==
  /\ validAddress(o, a) /\ At(o, a) # v
  /\ data' = [data EXCEPT ![o] = Overlay(o, a, <<v>>)]
  /\ edited' = [edited EXCEPT ![o] = @ \cup {a}]
  /\ NoWrite /\ UNCHANGED <<dirty, refs, silent, behind>>

\* write and update.
WriteByte(o, a, v) ==
  /\ validAddress(o, a) /\ At(o, a) # v
  /\ data' = [data EXCEPT ![o] = Overlay(o, a, <<v>>)]
  /\ dirty' = [dirty EXCEPT ![o] = TRUE]
  /\ edited' = [edited EXCEPT ![o] = @ \cup {a}]
  /\ NoWrite /\ UNCHANGED <<refs, silent, behind>>

\* put, writeBytes, writeString and the typed writes: all bytes or none.
WriteRange(o, a, vs) ==
  /\ validRange(o, a, Len(vs))
  /\ data' = [data EXCEPT ![o] = Overlay(o, a, vs)]
  /\ dirty' = [dirty EXCEPT ![o] = TRUE]
  /\ edited' = [edited EXCEPT ![o] = @ \cup (a .. a + Len(vs) - 1)]
  /\ NoWrite /\ UNCHANGED <<refs, silent, behind>>

\* operator[] of one address, and getDataPtr for all of them, set dirty_ when
\* the reference is taken.
TakeReference(o, as) ==
  /\ Open(o)
  /\ as = AddressesOf(o) \/ \E a \in AddressesOf(o) : as = {a}
  /\ refs' = [refs EXCEPT ![o] = @ \cup as]
  /\ dirty' = [dirty EXCEPT ![o] = TRUE]
  /\ NoWrite /\ UNCHANGED <<data, silent, behind, edited>>

\* The sketch stores through a reference; no code of EEPROM.cpp runs.
Assign(o, a, v) ==
  /\ a \in refs[o] /\ At(o, a) # v
  /\ data' = [data EXCEPT ![o] = Overlay(o, a, <<v>>)]
  /\ silent' = IF dirty[o] THEN silent ELSE silent \cup {o}
  /\ edited' = [edited EXCEPT ![o] = @ \cup {a}]
  /\ NoWrite /\ UNCHANGED <<dirty, refs, behind>>

Restart ==
  /\ data' = [o \in Stores |-> <<>>]
  /\ dirty' = [o \in Stores |-> FALSE]
  /\ refs' = [o \in Stores |-> {}]
  /\ silent' = {} /\ behind' = {}
  /\ edited' = [o \in Stores |-> {}]
  /\ NoWrite

Edit(o) == \E a \in Addresses :
  \/ \E v \in Bytes : WriteByte(o, a, v) \/ Assign(o, a, v)
  \/ \E v, w \in Bytes : WriteRange(o, a, <<v, w>>)

Next ==
  \/ \E o \in Stores :
       \/ Commit(o) \/ End(o) \/ Edit(o)
       \/ \E size \in Sizes : Begin(o, size)
       \/ \E as \in SUBSET AddressesOf(o) : TakeReference(o, as)
  \/ Restart

Spec == Init /\ [][Next]_vars

-----------------------------------------------------------------------------
(* Properties *)

\* Every variable has the values its declaration promises.
TypeOK ==
  /\ \A o \in Stores : /\ Len(data[o]) <= MaxSize
                       /\ \A i \in 1 .. Len(data[o]) : data[o][i] \in Bytes
                       /\ refs[o] \subseteq AddressesOf(o) /\ edited[o] \subseteq AddressesOf(o)
  /\ dirty \in [Stores -> BOOLEAN]
  /\ \A f \in Files : \A i \in 1 .. Len(nvm[f]) : nvm[f][i] \in Bytes
  /\ write \in {"none", "ok", "failed"}
  /\ silent \subseteq Stores /\ behind \subseteq Stores

\* isDirty() false means that opening the file again would give the same bytes,
\* unless the sketch stored through a reference it took before the last commit,
\* or the file changed or could not be read behind the object's back.
CleanMeansStored ==
  \A o \in Stores \ (silent \cup behind) :
    Open(o) /\ ~dirty[o] => \A a \in AddressesOf(o) :
      At(o, a) = IF a < Len(nvm[FileOf(o)]) THEN nvm[FileOf(o)][a + 1] ELSE Erased

\* A clean copy is the stored one, and every variable has the values
\* its declaration promises: what the other properties take for granted.
StoreInv == TypeOK /\ CleanMeansStored

\* A byte of a file that no edit touched keeps its value, across sessions of
\* different sizes, failing commits and restarts, unless a write failed, the
\* object that commits is smaller than the file, or it had lost track of it.
UntouchedBytesKept ==
  [][\A f \in Files : \A i \in 1 .. Len(nvm[f]) :
       nvm'[f] # <<>> /\ (i <= Len(nvm'[f]) => nvm'[f][i] # nvm[f][i]) =>
         \E o \in Stores : /\ FileOf(o) = f /\ Open(o) /\ nvm'[f] = data[o]
                           /\ \/ i - 1 \in edited[o] \/ o \in behind
                              \/ i > Len(data[o])]_vars

\* end() and a second begin() store every edit first; only a failing commit or
\* a store through an old reference is lost with the copy.
Ending(o) == End(o) \/ \E size \in Sizes : Begin(o, size)
EndStoresEdits ==
  [][\A o \in Stores : edited[o] # {} /\ edited'[o] = {} /\ Ending(o) =>
       nvm'[FileOf(o)] = data[o] \/ write' = "failed" \/ o \in silent]_vars

=============================================================================
