-------------------------- MODULE PreferencesStore --------------------------
(***************************************************************************)
(* Preferences.cpp over the NVM bridge of arduino_nvm_io.c.  An object     *)
(* reads a namespace into a RAM buffer of entries at begin(), edits the    *)
(* buffer in place and writes all of it back after every edit.  Several    *)
(* objects may be open on one namespace; a read, a write or an allocation  *)
(* may fail; the board may restart between any two calls.                  *)
(***************************************************************************)
EXTENDS Naturals, Sequences, SequencesExt

CONSTANTS
  Handles,       \* Preferences objects
  Namespaces,    \* names begin() is called with that fit file_name_
  NoName,        \* the empty file_name_
  Keys,          \* keys a sketch passes, valid or not
  Values,        \* values a sketch passes
  KeyLength,     \* strlen of a key
  Length,        \* bytes of a value
  MaxKeyLength,  \* kPrefsMaxKeyLength (31)
  Capacity       \* kPrefsCapacity (4096)

HeaderSize      == 8   \* sizeof(PreferencesHeader)
EntryHeaderSize == 4   \* sizeof(PreferencesEntryHeader)

ASSUME PreferencesAssumption ==
  /\ NoName \notin Namespaces
  /\ KeyLength \in [Keys -> Nat] /\ Length \in [Values -> Nat]
  /\ MaxKeyLength \in Nat
  /\ Capacity \in Nat /\ HeaderSize <= Capacity

VARIABLES
  handle,        \* the members of each Preferences object
  nvm            \* the NVM files

vars == <<handle, nvm>>

Files   == Namespaces \cup {NoName}
Entries == [key : Keys, value : Values]

\* buffer_ without its header: the entries in the order they lie there.
\* allocated is buffer_ # NULL; header->used always equals used_.
HandleStates == [opened : BOOLEAN, readOnly : BOOLEAN, name : Files,
                 allocated : BOOLEAN, buffer : Seq(Entries), used : Nat]
ClosedHandle == [opened |-> FALSE, readOnly |-> FALSE, name |-> NoName,
                 allocated |-> FALSE, buffer |-> <<>>, used |-> 0]

\* A file is missing, holds something else (another magic or version), or the
\* image writeBack stored: a header and used bytes of entries.
Images  == [kind : {"absent", "foreign", "preferences"}, buffer : Seq(Entries), used : Nat]
Absent  == [kind |-> "absent", buffer |-> <<>>, used |-> 0]
Foreign == [kind |-> "foreign", buffer |-> <<>>, used |-> 0]

validKey(k)  == KeyLength[k] \in 1 .. MaxKeyLength
EntrySize(e) == EntryHeaderSize + KeyLength[e.key] + Length[e.value]

\* The offsets findEntry finds the entries of a buffer at, one behind the other
\* from the header on; the last one is where the next entry is appended.
Offsets(buffer) ==
  LET offset[i \in 0 .. Len(buffer)] ==
        IF i = 0 THEN HeaderSize ELSE offset[i - 1] + EntrySize(buffer[i])
  IN  offset

\* The first entry of a buffer with that key, 0 when there is none.
EntryOf(buffer, k) == SelectInSeq(buffer, LAMBDA e : e.key = k)

\* findEntry looks for no entry in a closed object, nor for an invalid key.
FindEntry(h, k) ==
  IF handle[h].opened /\ validKey(k) /\ handle[h].allocated /\ handle[h].used >= HeaderSize
  THEN EntryOf(handle[h].buffer, k)
  ELSE 0

Init ==
  /\ handle = [h \in Handles |-> ClosedHandle]
  /\ nvm \in [Files -> {Absent, Foreign}]

-----------------------------------------------------------------------------
(* begin and end *)

Reset(m) == [m EXCEPT !.buffer = <<>>, !.used = HeaderSize]

\* The name does not fit file_name_: begin() clears it and returns false, but
\* an object that was open stays open.
BeginNameTooLong(h) ==
  /\ handle' = [handle EXCEPT ![h].name = NoName]
  /\ UNCHANGED nvm

\* load finds no memory for the buffer; used_ keeps its value.
BeginOutOfMemory(h, n, readOnly) ==
  /\ handle' = [handle EXCEPT ![h] =
       [@ EXCEPT !.name = n, !.readOnly = readOnly, !.opened = FALSE,
                 !.allocated = FALSE, !.buffer = <<>>]]
  /\ UNCHANGED nvm

\* Mutant of Begin: a file that is missing leaves the buffer of the last one.
BeginKeepsBuffer(h, n, readOnly) ==
  LET fresh == [handle[h] EXCEPT !.name = n, !.readOnly = readOnly,
                                 !.opened = TRUE, !.allocated = TRUE]
      found == nvm[n].kind = "preferences"
  IN  /\ handle' = [handle EXCEPT ![h] =
           IF found THEN [fresh EXCEPT !.buffer = nvm[n].buffer, !.used = nvm[n].used]
           ELSE [fresh EXCEPT !.used = IF @ = 0 THEN HeaderSize ELSE @]]
      /\ UNCHANGED nvm

\* load: the stored entries, or none when the file is missing or foreign, or
\* when reading it fails (arduinoCoreNvmRead also fails without memory).
Begin(h, n, readOnly) ==
  LET fresh == [handle[h] EXCEPT !.name = n, !.readOnly = readOnly,
                                 !.opened = TRUE, !.allocated = TRUE]
  IN  /\ \/ /\ nvm[n].kind = "preferences"
            /\ handle' = [handle EXCEPT ![h] =
                 [fresh EXCEPT !.buffer = nvm[n].buffer, !.used = nvm[n].used]]
         \/ handle' = [handle EXCEPT ![h] = Reset(fresh)]
      /\ UNCHANGED nvm

End(h) ==
  /\ handle' = [handle EXCEPT ![h] = ClosedHandle]
  /\ UNCHANGED nvm

-----------------------------------------------------------------------------
(* Edits: change the buffer, then writeBack *)

MayWrite(h) == handle[h].opened /\ ~handle[h].readOnly

\* writeBack stores header and entries of the edited object m.  A failed write
\* leaves the file as it was or unreadable, and the buffer edited.
WriteBack(h, m) ==
  LET image == [kind |-> "preferences", buffer |-> m.buffer, used |-> m.used]
  IN  /\ handle' = [handle EXCEPT ![h] = m]
      /\ \E left \in {image, nvm[m.name], Absent} : nvm' = [nvm EXCEPT ![m.name] = left]

\* Mutant of EraseEntry: the entries behind the erased one are lost.
EraseEntryDropsTail(m, i) ==
  [m EXCEPT !.buffer = SubSeq(m.buffer, 1, i - 1), !.used = m.used - EntrySize(m.buffer[i])]

\* eraseEntry closes the gap of entry i.
EraseEntry(m, i) ==
  [m EXCEPT !.buffer = RemoveAt(m.buffer, i), !.used = m.used - EntrySize(m.buffer[i])]

AppendEntry(m, e) ==
  [m EXCEPT !.buffer = Append(m.buffer, e), !.used = m.used + EntrySize(e)]

\* clear() frees the whole buffer.
Clear(h) ==
  /\ MayWrite(h)
  /\ WriteBack(h, Reset(handle[h]))

RemoveKey(h, k) ==
  /\ MayWrite(h)
  /\ FindEntry(h, k) # 0
  /\ WriteBack(h, EraseEntry(handle[h], FindEntry(h, k)))

\* Mutant of Put: the old entry is not erased.
PutKeepsOld(h, k, v) ==
  LET e == [key |-> k, value |-> v]
  IN  /\ MayWrite(h) /\ validKey(k)
      /\ handle[h].used + EntrySize(e) <= Capacity
      /\ WriteBack(h, AppendEntry(handle[h], e))

\* putTypedBytes: an entry that does not fit is refused and changes nothing.
\* The limit of 65535 bytes is above any capacity of kPrefsCapacity.
Put(h, k, v) ==
  LET m == handle[h]
      i == FindEntry(h, k)
      e == [key |-> k, value |-> v]
      erased == IF i = 0 THEN m ELSE EraseEntry(m, i)
  IN  /\ MayWrite(h) /\ validKey(k)
      /\ erased.used + EntrySize(e) <= Capacity
      /\ WriteBack(h, AppendEntry(erased, e))

\* Power loss or a reset: the objects are gone, the files stay.
Restart ==
  /\ handle' = [h \in Handles |-> ClosedHandle]
  /\ UNCHANGED nvm

Edit(h) == \/ Clear(h)
           \/ \E k \in Keys : RemoveKey(h, k) \/ \E v \in Values : Put(h, k, v)

Next ==
  \/ \E h \in Handles :
       \/ BeginNameTooLong(h)
       \/ \E n \in Namespaces, readOnly \in BOOLEAN :
            BeginOutOfMemory(h, n, readOnly) \/ Begin(h, n, readOnly)
       \/ End(h)
       \/ Edit(h)
  \/ Restart

Spec == Init /\ [][Next]_vars

-----------------------------------------------------------------------------
(* Properties *)

KeysOf(buffer)    == {buffer[i].key : i \in 1 .. Len(buffer)}
AsMap(buffer)     == [k \in KeysOf(buffer) |->
                        buffer[EntryOf(buffer, k)].value]

\* What a Preferences object is in PreferencesMap.
ViewOf(m) == IF m.opened
             THEN [open |-> TRUE, file |-> m.name, writable |-> ~m.readOnly, map |-> AsMap(m.buffer)]
             ELSE [open |-> FALSE, file |-> NoName, writable |-> FALSE, map |-> AsMap(<<>>)]

Map == INSTANCE PreferencesMap WITH
  NoFile <- NoName,
  view   <- [h \in Handles |-> ViewOf(handle[h])],
  stored <- [f \in Files |-> AsMap(nvm[f].buffer)]

\* The buffers behave as the maps of PreferencesMap: erasing and appending
\* entries changes the binding of the key that was put or removed and of no
\* other, a refused put changes none, and what is stored is that map.  That a put
\* does not also remove a key is KeysLostKnowingly's.
ImplementsMap == Map!Spec

\* Every variable has the values its declaration promises.
TypeOK ==
  /\ handle \in [Handles -> HandleStates]
  /\ nvm \in [Files -> Images]

\* A buffer holds a key at most once, and used_ is the header plus the entries
\* and never beyond the allocation: a second entry of a key would come back to
\* life when the first is removed, and a used_ that drifts would let findEntry
\* run into garbage or putTypedBytes write behind the buffer.
WellFormed(buffer, used) ==
  /\ \A i, j \in 1 .. Len(buffer) : buffer[i].key = buffer[j].key => i = j
  /\ used = Offsets(buffer)[Len(buffer)]
  /\ used <= Capacity
BuffersWellFormed ==
  /\ \A h \in Handles : handle[h].opened =>
       handle[h].allocated /\ WellFormed(handle[h].buffer, handle[h].used)
  /\ \A f \in Files : nvm[f].kind = "preferences" => WellFormed(nvm[f].buffer, nvm[f].used)

\* Every buffer and image is well formed, and every variable has the values
\* its declaration promises: what the other properties take for granted.
StoreInv == TypeOK /\ BuffersWellFormed

\* A key disappears from a file only when it is removed or cleared, when the
\* write fails, or when the object that writes never had it in its copy: it
\* could not read the file at begin(), or another object stored the key since.
KeysLostKnowingly ==
  [][\A f \in Files : \A k \in KeysOf(nvm[f].buffer) \ KeysOf(nvm[f].buffer)' :
       \/ nvm'[f] = Absent
       \/ \E h \in Handles : /\ handle[h].name = f /\ MayWrite(h)
                             /\ \/ k \notin KeysOf(handle[h].buffer)
                                \/ k \notin KeysOf(handle'[h].buffer) /\ (RemoveKey(h, k) \/ Clear(h))]_vars

=============================================================================
