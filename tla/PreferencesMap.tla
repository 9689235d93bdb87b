--------------------------- MODULE PreferencesMap ---------------------------
(***************************************************************************)
(* What Preferences promises: every open object holds its own copy of a    *)
(* namespace as a map from keys to values; an accepted update changes one  *)
(* binding (or clears all) of that copy and stores the whole copy.  There  *)
(* is no buffer, no offset, no entry order and no capacity.                *)
(***************************************************************************)
EXTENDS Functions

CONSTANTS
  Handles,      \* Preferences objects
  Files,        \* NVM files a namespace can name
  NoFile,       \* the file of an empty file name
  Keys, Values

VARIABLES
  view,         \* the copy each object holds
  stored        \* the map each NVM file holds; a missing file holds none

mapVars == <<view, stored>>

EmptyMap == [k \in {} |-> k]
Maps     == UNION {[S -> Values] : S \in SUBSET Keys}
Closed   == [open |-> FALSE, file |-> NoFile, writable |-> FALSE, map |-> EmptyMap]

Without(m, k)  == Restrict(m, DOMAIN m \ {k})
With(m, k, v)  == [j \in DOMAIN m \cup {k} |-> IF j = k THEN v ELSE m[j]]

Init ==
  /\ view = [h \in Handles |-> Closed]
  /\ stored \in [Files -> {EmptyMap}]

\* A copy of the namespace, or an empty one when the file cannot be read.
Open(h, f, writable) ==
  /\ \E m \in {stored[f], EmptyMap} :
       view' = [view EXCEPT ![h] = [open |-> TRUE, file |-> f, writable |-> writable, map |-> m]]
  /\ UNCHANGED stored

Close(h) == view' = [view EXCEPT ![h] = Closed] /\ UNCHANGED stored

\* An open object whose begin() is given an unusable name keeps its copy but
\* no longer knows where it came from.
Unname(h) ==
  /\ view[h].open
  /\ view' = [view EXCEPT ![h].file = NoFile]
  /\ UNCHANGED stored

\* The copy changes whether or not it can be stored; a failed write leaves the
\* file as it was or destroys it.
Update(h, m) ==
  /\ view[h].open /\ view[h].writable
  /\ view' = [view EXCEPT ![h].map = m]
  /\ \E left \in {m, stored[view[h].file], EmptyMap} :
       stored' = [stored EXCEPT ![view[h].file] = left]

Store(h, k, v) == Update(h, With(view[h].map, k, v))
Remove(h, k)   == k \in DOMAIN view[h].map /\ Update(h, Without(view[h].map, k))
Clear(h)       == Update(h, EmptyMap)

Restart == view' = [h \in Handles |-> Closed] /\ UNCHANGED stored

Next ==
  \/ \E h \in Handles :
       \/ \E f \in Files, w \in BOOLEAN : Open(h, f, w)
       \/ Close(h) \/ Unname(h) \/ Clear(h)
       \/ \E k \in Keys : Remove(h, k) \/ \E v \in Values : Store(h, k, v)
  \/ Restart

Spec == Init /\ [][Next]_mapVars

=============================================================================
