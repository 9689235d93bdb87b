--------------------------- MODULE FsHandlesProofs ---------------------------
(***************************************************************************)
(* File objects, their handles and the littlefs objects, for any number of *)
(* each: handles are counted, owned and freed as they should be, directory *)
(* positions follow their cursors, and what only reads changes no file.    *)
(***************************************************************************)
EXTENDS FsHandles, FiniteSetTheorems, WellFoundedInduction, TLAPS

-----------------------------------------------------------------------------
(* Numbers and sets *)

LEMMA MaxOfTwo == \A a, b \in Int : Max({a, b}) = IF a >= b THEN a ELSE b
<1> SUFFICES ASSUME NEW a \in Int, NEW b \in Int PROVE Max({a, b}) = IF a >= b THEN a ELSE b
  OBVIOUS
<1>1. PICK S : S = {a, b}
  OBVIOUS
<1>2. \E x \in S : \A y \in S : x >= y
  BY <1>1
<1>3. Max(S) \in S /\ \A y \in S : Max(S) >= y
  BY <1>2 DEF Max
<1>4. QED
  BY <1>1, <1>3

LEMMA MinOfTwo == \A a, b \in Int : Min({a, b}) = IF a <= b THEN a ELSE b
<1> SUFFICES ASSUME NEW a \in Int, NEW b \in Int PROVE Min({a, b}) = IF a <= b THEN a ELSE b
  OBVIOUS
<1>1. PICK S : S = {a, b}
  OBVIOUS
<1>2. \E x \in S : \A y \in S : x <= y
  BY <1>1
<1>3. Min(S) \in S /\ \A y \in S : Min(S) <= y
  BY <1>2 DEF Min
<1>4. QED
  BY <1>1, <1>3

\* A non-empty set of numbers has a least one.
LEMMA LeastNumber ==
  ASSUME NEW T, T \subseteq Nat, T # {}
  PROVE  \E x \in T : \A y \in T : x <= y
<1>1. IsWellFoundedOn({p \in Nat \X Nat : p[1] < p[2]}, Nat)
  BY NatLessThanWellFounded DEF OpToRel
<1>2. PICK x \in T : \A y \in T : <<y, x>> \notin {p \in Nat \X Nat : p[1] < p[2]}
  BY <1>1, WFMin
<1>3. ASSUME NEW y \in T PROVE x <= y
  <2>1. <<y, x>> \in Nat \X Nat /\ <<y, x>>[1] = y /\ <<y, x>>[2] = x
    OBVIOUS
  <2>2. ~(y < x)
    BY <1>2, <2>1
  <2>3. QED
    BY <2>2
<1>4. QED
  BY <1>3

\* A set of numbers of 0 .. n that is not empty has a largest one, and no more
\* elements above 0 than that.
LEMMA LargestOf ==
  ASSUME NEW n \in Nat, NEW S, S \subseteq 0 .. n, S # {}
  PROVE  Max(S) \in S /\ (\A x \in S : x <= Max(S)) /\ Cardinality(S \ {0}) \in 0 .. Max(S)
<1> DEFINE T == {m \in 0 .. n : n - m \in S}
<1>1. PICK x \in T : \A y \in T : x <= y
  <2>1. T \subseteq Nat
    OBVIOUS
  <2>2. T # {}
    <3>1. PICK m \in S : TRUE
      OBVIOUS
    <3>2. n - m \in 0 .. n /\ n - (n - m) = m
      OBVIOUS
    <3>3. QED
      BY <3>1, <3>2
  <2> HIDE DEF T
  <2>3. QED
    BY <2>1, <2>2, LeastNumber
<1>2. n - x \in S /\ \A y \in S : y <= n - x
  <2>1. n - x \in S /\ x \in 0 .. n
    OBVIOUS
  <2>2. ASSUME NEW y \in S PROVE y <= n - x
    <3>1. n - y \in 0 .. n /\ n - (n - y) = y
      OBVIOUS
    <3>2. n - y \in T
      BY <3>1
    <3> HIDE DEF T
    <3>3. x <= n - y
      BY <1>1, <3>2
    <3>4. QED
      BY <2>1, <3>3
  <2>3. QED
    BY <2>1, <2>2
<1>3. Max(S) \in S /\ \A y \in S : Max(S) >= y
  <2>1. \E z \in S : \A y \in S : z >= y
    BY <1>2
  <2>2. QED
    BY <2>1 DEF Max
<1>4. PICK m : m = Max(S) /\ m \in 0 .. n
  BY <1>3
<1>5. S \ {0} \in SUBSET (1 .. m)
  BY <1>3, <1>4
<1>6. IsFiniteSet(1 .. m) /\ Cardinality(1 .. m) = m
  BY <1>4, FS_Interval
<1>7. Cardinality(S \ {0}) \in Nat /\ Cardinality(S \ {0}) <= m
  BY <1>5, <1>6, FS_Subset, FS_CardinalityType
<1>8. QED
  BY <1>3, <1>4, <1>7

-----------------------------------------------------------------------------
(* References.  refs[h] counts what refers to handle h: File objects, and  *)
(* a temporary while it is assigned.                                       *)

Places == Handles \cup {Null}

Refs(f) == [h \in Handles |-> Cardinality({s \in Slots : f[s] = h})]
Plus(refs, h)  == IF h = Null THEN refs ELSE [refs EXCEPT ![h] = @ + 1]
Minus(refs, h) == IF h = Null THEN refs ELSE [refs EXCEPT ![h] = @ - 1]

LEMMA RefsCount ==
  ASSUME NEW f \in [Slots -> Places]
  PROVE  Refs(f) \in [Handles -> Nat] /\ \A s \in Slots : f[s] # Null => Refs(f)[f[s]] > 0
<1>1. ASSUME NEW h \in Handles
      PROVE  IsFiniteSet({s \in Slots : f[s] = h}) /\ Refs(f)[h] \in Nat /\ Refs(f)[h] = Cardinality({s \in Slots : f[s] = h})
  BY FsAssumption, FS_Subset, FS_CardinalityType DEF Refs
<1>2. ASSUME NEW s \in Slots, f[s] # Null PROVE Refs(f)[f[s]] > 0
  <2>1. PICK h \in Handles : f[s] = h
    BY <1>2 DEF Places
  <2>2. {t \in Slots : f[t] = h} # {}
    BY <2>1
  <2>3. Refs(f)[h] # 0
    BY <1>1, <2>2, FS_EmptySet
  <2>4. PICK n \in Nat : n = Refs(f)[h]
    BY <1>1
  <2>5. QED
    BY <2>1, <2>3, <2>4
<1>3. QED
  BY <1>1, <1>2 DEF Refs

\* A File object that is assigned refers to its new handle instead of its old one.
LEMMA RefsAssigned ==
  ASSUME NEW f \in [Slots -> Places], NEW s \in Slots, NEW h \in Places
  PROVE  Refs([f EXCEPT ![s] = h]) = Plus(Minus(Refs(f), f[s]), h)
<1> DEFINE g == [f EXCEPT ![s] = h]
           Of(x, j) == {t \in Slots : x[t] = j}
<1>1. g \in [Slots -> Places] /\ Null \notin Handles
  BY FsAssumption
<1>2. Refs(f) \in [Handles -> Nat] /\ Refs(g) \in [Handles -> Nat]
  BY <1>1, RefsCount
<1>3. ASSUME NEW j \in Handles PROVE Refs(g)[j] = Plus(Minus(Refs(f), f[s]), h)[j]
  <2>1. IsFiniteSet(Of(f, j)) /\ Cardinality(Of(f, j)) \in Nat
    BY FsAssumption, FS_Subset, FS_CardinalityType
  <2>2. Refs(f)[j] = Cardinality(Of(f, j)) /\ Refs(g)[j] = Cardinality(Of(g, j))
    BY DEF Refs
  <2>3. CASE f[s] = j /\ h = j
    <3>1. Of(g, j) = Of(f, j)
      BY <2>3
    <3>2. QED
      BY <1>1, <1>2, <2>2, <2>3, <3>1 DEF Plus, Minus
  <2>4. CASE f[s] = j /\ h # j
    <3>1. Of(g, j) = Of(f, j) \ {s} /\ s \in Of(f, j)
      BY <2>4
    <3>2. Cardinality(Of(g, j)) = Cardinality(Of(f, j)) - 1
      <4> HIDE DEF Of, g
      <4>1. QED
        BY ONLY <2>1, <3>1, FS_RemoveElement, SMTT(30)
    <3>3. QED
      BY <1>1, <1>2, <2>2, <2>4, <3>2 DEF Plus, Minus
  <2>5. CASE f[s] # j /\ h = j
    <3>1. Of(g, j) = Of(f, j) \cup {s} /\ s \notin Of(f, j)
      BY <2>5
    <3>2. Cardinality(Of(g, j)) = Cardinality(Of(f, j)) + 1
      <4> HIDE DEF Of, g
      <4>1. QED
        BY <2>1, <3>1, FS_AddElement
    <3>3. QED
      BY <1>1, <1>2, <2>2, <2>5, <3>2 DEF Plus, Minus, Places
  <2>6. CASE f[s] # j /\ h # j
    <3>1. Of(g, j) = Of(f, j)
      BY <2>6
    <3>2. QED
      BY <1>1, <1>2, <2>2, <2>6, <3>1 DEF Plus, Minus, Places
  <2>7. QED
    BY <2>3, <2>4, <2>5, <2>6
<1>4. Plus(Minus(Refs(f), f[s]), h) = [j \in Handles |-> Plus(Minus(Refs(f), f[s]), h)[j]]
  BY <1>2 DEF Plus, Minus
<1>5. QED
  BY <1>2, <1>3, <1>4

-----------------------------------------------------------------------------
(* The inductive invariant, of the state helpers pass on *)

Heaps  == [Handles -> Handle \cup {Null}]
Tables == [Objects -> Object \cup {Null}]
Disks  == [Names -> Absent .. MaxSize]
States == [heap : Heaps, lfs : Tables, disk : Disks]

\* No other handle has the object of h.
Alone(st, h) == \A j \in Handles : st.heap[j] # Null /\ st.heap[j].object = st.heap[h].object => j = h

\* A handle is there while something refers to it, and has its object for its own.
HandleSound(st, refs, h) ==
  IF st.heap[h] = Null THEN refs[h] = 0
  ELSE /\ refs[h] > 0 /\ st.heap[h].refCount = refs[h]
       /\ IF st.heap[h].object = Null THEN st.heap[h].type = "none"
          ELSE /\ st.lfs[st.heap[h].object] # Null
               /\ st.heap[h].type = st.lfs[st.heap[h].object].kind
               /\ st.heap[h].type = "dir" => st.heap[h].dirPosition <= st.lfs[st.heap[h].object].pos
               /\ Alone(st, h)

\* An open object is some handle's; a file has a name, and a length within bounds.
ObjectSound(st, o) ==
  st.lfs[o] # Null =>
    /\ \E h \in Handles : st.heap[h] # Null /\ st.heap[h].object = o
    /\ st.lfs[o].kind = "file" => st.lfs[o].name \in Names /\ st.lfs[o].size <= MaxSize

Sound(st, refs) ==
  /\ st \in States /\ refs \in [Handles -> Nat]
  /\ \A h \in Handles : HandleSound(st, refs, h)
  /\ \A o \in Objects : ObjectSound(st, o)

FsInv ==
  /\ ready \in BOOLEAN /\ initialized \in BOOLEAN
  /\ files \in [Slots -> Places]
  /\ Sound(Now, Refs(files))

LEMMA FieldsOf ==
  ASSUME NEW st \in States
  PROVE  /\ st.heap \in Heaps /\ st.lfs \in Tables /\ st.disk \in Disks
         /\ st = [heap |-> st.heap, lfs |-> st.lfs, disk |-> st.disk]
  BY DEF States

LEMMA FsInvImpliesHandleInv == FsInv => HandleInv
<1> SUFFICES ASSUME FsInv PROVE HandleInv
  OBVIOUS
<1>1. Sound(Now, Refs(files)) /\ Now \in States /\ Now.heap = heap /\ Now.lfs = lfs /\ Now.disk = disk
  BY DEF FsInv, Sound, Now
<1>2. TypeOK
  BY <1>1, FieldsOf DEF TypeOK, FsInv, Places, Heaps, Tables, Disks
<1>3. \A h \in Handles : HandleSound(Now, Refs(files), h)
  BY <1>1 DEF Sound
<1>4. \A s \in Slots : files[s] # Null => heap[files[s]] # Null
  <2> SUFFICES ASSUME NEW s \in Slots, files[s] # Null PROVE heap[files[s]] # Null
    OBVIOUS
  <2>1. files[s] \in Handles /\ Refs(files)[files[s]] > 0 /\ Refs(files)[files[s]] \in Nat
    BY RefsCount DEF FsInv, Places
  <2>2. QED
    BY <1>1, <1>3, <2>1 DEF HandleSound
<1>5. ASSUME NEW h \in Handles, heap[h] # Null
      PROVE  /\ heap[h].refCount = Cardinality({s \in Slots : files[s] = h})
             /\ heap[h].refCount > 0
             /\ IF heap[h].object = Null THEN heap[h].type = "none"
                ELSE /\ lfs[heap[h].object] # Null
                     /\ heap[h].type = lfs[heap[h].object].kind
             /\ heap[h].type = "dir" => heap[h].dirPosition <= lfs[heap[h].object].pos
  <2>1. Refs(files)[h] = Cardinality({s \in Slots : files[s] = h})
    BY DEF Refs
  <2>2. HandleSound(Now, Refs(files), h)
    BY <1>3
  <2>3. QED
    BY <1>1, <1>5, <2>1, <2>2 DEF HandleSound
<1>6. ASSUME NEW o \in Objects, lfs[o] # Null
      PROVE  Cardinality({h \in Handles : heap[h] # Null /\ heap[h].object = o}) = 1
  <2>1. PICK h \in Handles : heap[h] # Null /\ heap[h].object = o
    BY <1>1, <1>6 DEF Sound, ObjectSound
  <2>2. o # Null
    BY FsAssumption
  <2>3. Alone(Now, h)
    BY <1>1, <1>3, <2>1, <2>2 DEF HandleSound
  <2>4. {j \in Handles : heap[j] # Null /\ heap[j].object = o} = {h}
    BY <1>1, <2>1, <2>3 DEF Alone
  <2>5. QED
    BY <2>4, FS_Singleton
<1>7. HandlesCounted
  BY <1>4, <1>5, <1>6 DEF HandlesCounted
<1>8. DirPositionFollowsCursor
  BY <1>5 DEF DirPositionFollowsCursor
<1>9. QED
  BY <1>2, <1>7, <1>8 DEF HandleInv

-----------------------------------------------------------------------------
(* Handles that come and go *)

LEMMA RetainSound ==
  ASSUME NEW st, NEW refs, Sound(st, refs), NEW h \in Places, h # Null => refs[h] > 0
  PROVE  /\ Sound(retain(st, h), Plus(refs, h))
         /\ retain(st, h).lfs = st.lfs /\ retain(st, h).disk = st.disk
<1>1. st \in States /\ st.heap \in Heaps /\ refs \in [Handles -> Nat]
  BY FieldsOf DEF Sound
<1>2. CASE h = Null
  BY <1>2 DEF retain, Plus
<1>3. CASE h # Null
  <2>1. h \in Handles /\ st.heap[h] # Null /\ st.heap[h] \in Handle /\ st.heap[h].refCount = refs[h]
    <3>1. h \in Handles /\ HandleSound(st, refs, h) /\ refs[h] # 0
      BY <1>1, <1>3 DEF Sound, Places
    <3>2. QED
      BY <1>1, <3>1 DEF HandleSound, Heaps
  <2>2. PICK x : x = [st.heap[h] EXCEPT !.refCount = @ + 1]
    OBVIOUS
  <2>3. /\ x \in Handle /\ x # Null /\ x.refCount = refs[h] + 1 /\ x.object = st.heap[h].object
        /\ x.type = st.heap[h].type /\ x.dirPosition = st.heap[h].dirPosition
    BY <1>1, <2>1, <2>2, FsAssumption DEF Handle
  <2>4. PICK new : new = [heap |-> [st.heap EXCEPT ![h] = x], lfs |-> st.lfs, disk |-> st.disk]
    OBVIOUS
  <2>5. new = retain(st, h)
    BY <1>1, <1>3, <2>2, <2>4, FieldsOf DEF retain, States
  <2>6. /\ new \in States /\ new.lfs = st.lfs /\ new.disk = st.disk
        /\ \A j \in Handles : new.heap[j] = IF j = h THEN x ELSE st.heap[j]
    BY <1>1, <2>1, <2>3, <2>4, FieldsOf DEF States, Heaps
  <2>7. Plus(refs, h) \in [Handles -> Nat] /\ \A j \in Handles : Plus(refs, h)[j] = IF j = h THEN refs[h] + 1 ELSE refs[j]
    BY <1>1, <1>3, <2>1 DEF Plus
  <2>8. ASSUME NEW j \in Handles PROVE HandleSound(new, Plus(refs, h), j)
    <3>1. HandleSound(st, refs, j)
      BY DEF Sound
    <3>2. Alone(st, j) => Alone(new, j)
      BY <2>1, <2>3, <2>6 DEF Alone
    <3>3. QED
      BY <1>1, <2>1, <2>3, <2>6, <2>7, <3>1, <3>2 DEF HandleSound
  <2>9. ASSUME NEW o \in Objects PROVE ObjectSound(new, o)
    <3>1. ObjectSound(st, o)
      BY DEF Sound
    <3>2. QED
      BY <2>1, <2>3, <2>6, <3>1 DEF ObjectSound
  <2>10. QED
    BY <2>5, <2>6, <2>7, <2>8, <2>9 DEF Sound
<1>4. QED
  BY <1>2, <1>3

\* Closing what handle h owns leaves it without an object, and no other handle changed.
ClosesOf(st, h, new) ==
  /\ \A j \in Handles : j # h => new.heap[j] = st.heap[j]
  /\ \/ st.heap[h].object = Null /\ new.lfs = st.lfs /\ new.disk = st.disk
     \/ /\ st.heap[h].object # Null /\ st.lfs[st.heap[h].object] # Null
        /\ new.lfs = [st.lfs EXCEPT ![st.heap[h].object] = Null]
        /\ new.disk = Stored(st.disk, st.lfs[st.heap[h].object])

LEMMA StoredOnDisk ==
  ASSUME NEW d \in Disks, NEW object \in Object, object.kind = "file" => object.name \in Names /\ object.size <= MaxSize
  PROVE  Stored(d, object) \in Disks
<1>1. object.size \in Nat /\ Absent \in Int /\ Absent <= object.size
  BY DEF Object, Absent
<1>2. CASE object.linked /\ object.dirty /\ object.kind = "file"
  <2>1. object.size \in Absent .. MaxSize
    BY <1>1, <1>2, FsAssumption
  <2>2. QED
    BY <1>2, <2>1 DEF Stored, Disks
<1>3. QED
  BY <1>2 DEF Stored

LEMMA CloseSound ==
  ASSUME NEW st, NEW refs, Sound(st, refs), NEW h \in Handles, st.heap[h] # Null,
         NEW new, new = closeHandleResources(st, h)
  PROVE  /\ Sound(new, refs) /\ ClosesOf(st, h, new)
         /\ new.heap[h] # Null /\ new.heap[h].object = Null
<1>1. st \in States /\ st.heap \in Heaps /\ st.lfs \in Tables /\ st.disk \in Disks /\ refs \in [Handles -> Nat]
  BY FieldsOf DEF Sound
<1>2. HandleSound(st, refs, h) /\ st.heap[h] \in Handle
  BY <1>1 DEF Sound, Heaps
<1>3. PICK o \in Objects \cup {Null} : o = st.heap[h].object
  BY <1>2 DEF Handle
<1>4. PICK x : x = [st.heap[h] EXCEPT !.object = Null, !.type = "none"]
  OBVIOUS
<1>5. x \in Handle /\ x # Null /\ x.refCount = st.heap[h].refCount /\ x.object = Null /\ x.type = "none"
  BY <1>2, <1>4, FsAssumption DEF Handle
<1>6. PICK table, d : /\ table = IF o = Null THEN st.lfs ELSE [st.lfs EXCEPT ![o] = Null]
                      /\ d = IF o = Null THEN st.disk ELSE Stored(st.disk, st.lfs[o])
  OBVIOUS
<1>7. table \in Tables /\ d \in Disks /\ (o # Null => st.lfs[o] # Null)
  <2>1. CASE o = Null
    BY <1>1, <1>6, <2>1
  <2>2. CASE o # Null
    <3>1. o \in Objects /\ st.lfs[o] # Null /\ st.lfs[o] \in Object /\ ObjectSound(st, o)
      BY <1>1, <1>2, <1>3, <2>2 DEF HandleSound, Sound, Tables
    <3>2. Stored(st.disk, st.lfs[o]) \in Disks
      BY <1>1, <3>1, StoredOnDisk DEF ObjectSound
    <3>3. QED
      BY <1>1, <1>6, <2>2, <3>1, <3>2 DEF Tables
  <2>3. QED
    BY <2>1, <2>2
<1>8. new = [heap |-> [st.heap EXCEPT ![h] = x], lfs |-> table, disk |-> d]
  <2>1. PICK closed \in States : closed = [heap |-> st.heap, lfs |-> table, disk |-> d]
    BY <1>1, <1>7 DEF States
  <2>2. closed = IF o = Null THEN st ELSE CloseObject(st, o)
    <3>1. CASE o = Null
      BY <1>1, <1>6, <2>1, <3>1, FieldsOf
    <3>2. CASE o # Null
      BY <1>1, <1>6, <2>1, <3>2, FieldsOf DEF CloseObject, States
    <3>3. QED
      BY <3>1, <3>2
  <2>3. new = [closed EXCEPT !.heap[h].object = Null, !.heap[h].type = "none"]
    BY <1>3, <2>2 DEF closeHandleResources
  <2>4. closed.heap = st.heap /\ [closed.heap[h] EXCEPT !.object = Null, !.type = "none"] = x
    BY <1>4, <2>1
  <2>5. PICK y \in Handle : y = [st.heap[h] EXCEPT !.object = Null] /\ x = [y EXCEPT !.type = "none"]
    <3>1. PICK y : y = [st.heap[h] EXCEPT !.object = Null]
      OBVIOUS
    <3>2. y \in Handle /\ x = [y EXCEPT !.type = "none"]
      BY <1>2, <1>4, <3>1 DEF Handle
    <3>3. QED
      BY <3>1, <3>2
  <2>6. PICK mid \in States : /\ mid = [closed EXCEPT !.heap[h].object = Null]
                              /\ mid = [heap |-> [st.heap EXCEPT ![h] = y], lfs |-> table, disk |-> d]
    <3>1. PICK mid : mid = [heap |-> [st.heap EXCEPT ![h] = y], lfs |-> table, disk |-> d]
      OBVIOUS
    <3>2. mid \in States
      BY <1>1, <1>7, <2>5, <3>1 DEF States, Heaps
    <3>3. mid = [closed EXCEPT !.heap[h].object = Null]
      BY <2>1, <2>5, <3>1 DEF States
    <3>4. QED
      BY <3>1, <3>2, <3>3
  <2>7. mid.heap[h] = y /\ mid.heap \in Heaps
    <3>1. mid.heap = [st.heap EXCEPT ![h] = y]
      BY <2>6
    <3>2. QED
      BY <1>1, <2>5, <3>1 DEF Heaps
  <2>8. new = [mid EXCEPT !.heap[h].type = "none"]
    BY <2>3, <2>6
  <2>9. new = [heap |-> [mid.heap EXCEPT ![h] = x], lfs |-> table, disk |-> d]
    BY <2>5, <2>6, <2>7, <2>8 DEF States
  <2>10. [mid.heap EXCEPT ![h] = x] = [st.heap EXCEPT ![h] = x]
    BY <1>1, <2>6 DEF Heaps
  <2>11. QED
    BY <2>9, <2>10
<1>9. /\ new \in States /\ new.lfs = table /\ new.disk = d
      /\ \A j \in Handles : new.heap[j] = IF j = h THEN x ELSE st.heap[j]
  BY <1>1, <1>5, <1>7, <1>8 DEF States, Heaps
<1>10. \A p \in Objects : table[p] = IF p = o THEN Null ELSE st.lfs[p]
  BY <1>1, <1>6, FsAssumption DEF Tables
<1>11. ASSUME NEW j \in Handles PROVE HandleSound(new, refs, j)
  <2>1. CASE j = h
    BY <1>2, <1>5, <1>9, <2>1 DEF HandleSound
  <2>2. CASE j # h
    <3>1. HandleSound(st, refs, j) /\ new.heap[j] = st.heap[j]
      BY <1>9, <2>2 DEF Sound
    <3>2. CASE st.heap[j] # Null /\ st.heap[j].object # Null
      <4>1. Alone(st, j) /\ st.heap[j].object # o
        BY <1>3, <2>2, <3>1, <3>2 DEF HandleSound, Alone
      <4>2. Alone(new, j)
        BY <1>5, <1>9, <2>2, <3>2, <4>1 DEF Alone
      <4>3. st.heap[j].object \in Objects
        BY <1>1, <3>2 DEF Heaps, Handle
      <4>4. new.lfs[st.heap[j].object] = st.lfs[st.heap[j].object]
        BY <1>9, <1>10, <4>1, <4>3
      <4>5. QED
        BY <3>1, <3>2, <4>2, <4>4 DEF HandleSound
    <3>3. QED
      BY <3>1, <3>2 DEF HandleSound
  <2>3. QED
    BY <2>1, <2>2
<1>12. ASSUME NEW p \in Objects PROVE ObjectSound(new, p)
  <2>1. SUFFICES ASSUME new.lfs[p] # Null PROVE ObjectSound(new, p)
    BY DEF ObjectSound
  <2>2. p # o /\ new.lfs[p] = st.lfs[p] /\ ObjectSound(st, p)
    BY <1>9, <1>10, <2>1 DEF Sound
  <2>3. PICK j \in Handles : st.heap[j] # Null /\ st.heap[j].object = p
    BY <2>1, <2>2 DEF ObjectSound
  <2>4. new.heap[j] = st.heap[j]
    BY <1>3, <1>9, <2>2, <2>3
  <2>5. QED
    BY <2>1, <2>2, <2>3, <2>4 DEF ObjectSound
<1>13. Sound(new, refs)
  BY <1>1, <1>9, <1>11, <1>12 DEF Sound
<1>14. ClosesOf(st, h, new)
  BY <1>3, <1>6, <1>7, <1>9 DEF ClosesOf
<1>15. QED
  BY <1>5, <1>9, <1>13, <1>14

\* What a release closes, if anything.
Closes(st, new) ==
  \/ new.lfs = st.lfs /\ new.disk = st.disk
  \/ \E o \in Objects : /\ st.lfs[o] # Null /\ new.lfs = [st.lfs EXCEPT ![o] = Null]
                        /\ new.disk = Stored(st.disk, st.lfs[o])

LEMMA ReleaseSound ==
  ASSUME NEW st, NEW refs, Sound(st, refs), NEW h \in Places, h # Null => refs[h] > 0,
         NEW new, new = release(st, h)
  PROVE  /\ Sound(new, Minus(refs, h)) /\ Closes(st, new)
         /\ (h = Null \/ refs[h] > 1) => new.lfs = st.lfs /\ new.disk = st.disk
<1>1. st \in States /\ st.heap \in Heaps /\ refs \in [Handles -> Nat]
  BY FieldsOf DEF Sound
<1>2. CASE h = Null
  BY <1>2 DEF release, Minus, Closes
<1>3. CASE h # Null
  <2>1. h \in Handles /\ st.heap[h] # Null /\ st.heap[h] \in Handle /\ st.heap[h].refCount = refs[h] /\ refs[h] > 0
    <3>1. h \in Handles /\ HandleSound(st, refs, h) /\ refs[h] # 0 /\ refs[h] > 0
      BY <1>1, <1>3 DEF Sound, Places
    <3>2. QED
      BY <1>1, <3>1 DEF HandleSound, Heaps
  <2>2. Minus(refs, h) \in [Handles -> Nat] /\ \A j \in Handles : Minus(refs, h)[j] = IF j = h THEN refs[h] - 1 ELSE refs[j]
    BY <1>1, <1>3, <2>1 DEF Minus
  <2>3. CASE refs[h] > 1
    <3>1. PICK x : x = [st.heap[h] EXCEPT !.refCount = @ - 1]
      OBVIOUS
    <3>2. /\ x \in Handle /\ x # Null /\ x.refCount = refs[h] - 1 /\ x.object = st.heap[h].object
          /\ x.type = st.heap[h].type /\ x.dirPosition = st.heap[h].dirPosition
      BY <1>1, <2>1, <2>3, <3>1, FsAssumption DEF Handle
    <3>3. new = [heap |-> [st.heap EXCEPT ![h] = x], lfs |-> st.lfs, disk |-> st.disk]
      <4>1. new = [st EXCEPT !.heap[h].refCount = @ - 1]
        BY <1>3, <2>1, <2>3 DEF release
      <4>2. QED
        BY <1>1, <3>1, <4>1, FieldsOf DEF States
    <3>4. /\ new \in States /\ new.lfs = st.lfs /\ new.disk = st.disk
          /\ \A j \in Handles : new.heap[j] = IF j = h THEN x ELSE st.heap[j]
      BY <1>1, <2>1, <3>2, <3>3, FieldsOf DEF States, Heaps
    <3>5. ASSUME NEW j \in Handles PROVE HandleSound(new, Minus(refs, h), j)
      <4>1. HandleSound(st, refs, j)
        BY DEF Sound
      <4>2. Alone(st, j) => Alone(new, j)
        BY <2>1, <3>2, <3>4 DEF Alone
      <4>3. CASE j = h
        <5>1. refs[h] - 1 > 0
          BY <1>1, <2>1, <2>3
        <5>2. QED
          BY <2>1, <2>2, <3>2, <3>4, <4>1, <4>2, <4>3, <5>1 DEF HandleSound
      <4>4. CASE j # h
        BY <2>2, <3>4, <4>1, <4>2, <4>4 DEF HandleSound
      <4>5. QED
        BY <4>3, <4>4
    <3>6. ASSUME NEW o \in Objects PROVE ObjectSound(new, o)
      <4>1. ObjectSound(st, o)
        BY DEF Sound
      <4>2. QED
        BY <2>1, <3>2, <3>4, <4>1 DEF ObjectSound
    <3>7. QED
      BY <2>2, <3>4, <3>5, <3>6 DEF Sound, Closes
  <2>4. CASE ~(refs[h] > 1)
    <3>1. PICK closed : /\ closed = closeHandleResources(st, h) /\ Sound(closed, refs) /\ ClosesOf(st, h, closed)
                        /\ closed.heap[h] # Null /\ closed.heap[h].object = Null
      BY <2>1, CloseSound
    <3>2. closed \in States /\ closed.heap \in Heaps
      BY <3>1, FieldsOf DEF Sound
    <3>3. new = [closed EXCEPT !.heap[h] = Null]
      BY <1>3, <2>1, <2>4, <3>1 DEF release
    <3>4. /\ new \in States /\ new.lfs = closed.lfs /\ new.disk = closed.disk
          /\ \A j \in Handles : new.heap[j] = IF j = h THEN Null ELSE closed.heap[j]
      BY <3>2, <3>3, FieldsOf DEF States, Heaps
    <3>5. Minus(refs, h)[h] = 0
      BY <1>1, <2>1, <2>2, <2>4
    <3>6. ASSUME NEW j \in Handles PROVE HandleSound(new, Minus(refs, h), j)
      <4>1. HandleSound(closed, refs, j)
        BY <3>1 DEF Sound
      <4>2. Alone(closed, j) => (j # h => Alone(new, j))
        BY <3>4 DEF Alone
      <4>3. QED
        BY <2>2, <3>4, <3>5, <4>1, <4>2 DEF HandleSound
    <3>7. ASSUME NEW o \in Objects PROVE ObjectSound(new, o)
      <4>1. ObjectSound(closed, o)
        BY <3>1 DEF Sound
      <4>2. o # Null
        BY FsAssumption
      <4>3. QED
        BY <3>1, <3>4, <4>1, <4>2 DEF ObjectSound
    <3>8. Sound(new, Minus(refs, h))
      BY <2>2, <3>4, <3>6, <3>7 DEF Sound
    <3>9. Closes(st, new)
      <4>1. st.heap[h].object = Null \/ st.heap[h].object \in Objects
        BY <2>1 DEF Handle
      <4>2. QED
        BY <3>1, <3>4, <4>1 DEF ClosesOf, Closes
    <3>10. QED
      BY <1>3, <2>4, <3>8, <3>9
  <2>5. QED
    BY <2>3, <2>4
<1>4. QED
  BY <1>2, <1>3

\* s = <temporary>, from a state in which the temporary refers to h.
LEMMA AssignSound ==
  ASSUME files \in [Slots -> Places], NEW s \in Slots, NEW h \in Places,
         NEW st, Sound(st, Plus(Refs(files), h)), NEW new, new = AssignTemporary(st, s, h)
  PROVE  Sound(new, Refs([files EXCEPT ![s] = h])) /\ Closes(st, new)
<1>1. PICK r, old : r = Refs(files) /\ old = files[s]
  OBVIOUS
<1>2. r \in [Handles -> Nat] /\ (old # Null => r[old] > 0) /\ old \in Places /\ Null \notin Handles
  BY <1>1, RefsCount, FsAssumption
<1>3. Plus(r, h) \in [Handles -> Nat] /\ (old # Null => Plus(r, h)[old] > 0) /\ (h # Null => Plus(r, h)[h] > 0)
  BY <1>2 DEF Plus, Places
<1>4. PICK st1 : st1 = release(st, old) /\ Sound(st1, Minus(Plus(r, h), old)) /\ Closes(st, st1)
  BY <1>1, <1>2, <1>3, ReleaseSound
<1>5. PICK r1 : r1 = Minus(Plus(r, h), old) /\ r1 \in [Handles -> Nat] /\ (h # Null => r1[h] > 0)
                /\ r1 = Plus(Minus(r, old), h)
  <2>1. Minus(Plus(r, h), old) \in [Handles -> Nat]
    BY <1>4 DEF Sound
  <2>2. h # Null => Minus(Plus(r, h), old)[h] > 0
    BY <1>2, <1>3 DEF Plus, Minus, Places
  <2>3. \A j \in Handles : Minus(Plus(r, h), old)[j] = Plus(Minus(r, old), h)[j]
    BY <1>2 DEF Plus, Minus, Places
  <2>4. Plus(Minus(r, old), h) = [j \in Handles |-> Plus(Minus(r, old), h)[j]]
    BY <1>2 DEF Plus, Minus
  <2>5. QED
    BY <2>1, <2>2, <2>3, <2>4
<1>6. PICK st2 : st2 = retain(st1, h) /\ Sound(st2, Plus(r1, h)) /\ st2.lfs = st1.lfs /\ st2.disk = st1.disk
  BY <1>4, <1>5, RetainSound
<1>7. h # Null => Plus(r1, h)[h] > 1 /\ Plus(r1, h)[h] > 0
  <2>1. SUFFICES ASSUME h # Null PROVE Plus(r1, h)[h] > 1 /\ Plus(r1, h)[h] > 0
    OBVIOUS
  <2>2. h \in Handles /\ r1[h] \in Nat /\ r1[h] > 0
    BY <1>5, <2>1 DEF Places
  <2>3. Plus(r1, h)[h] = r1[h] + 1
    BY <1>5, <2>1, <2>2 DEF Plus
  <2>4. QED
    BY <2>2, <2>3
<1>8. new = release(st2, h)
  BY <1>1, <1>4, <1>6 DEF AssignTemporary
<1>9. Sound(new, Minus(Plus(r1, h), h)) /\ new.lfs = st2.lfs /\ new.disk = st2.disk
  BY <1>6, <1>7, <1>8, ReleaseSound
<1>10. Minus(Plus(r1, h), h) = r1
  <2>1. CASE h = Null
    BY <2>1 DEF Plus, Minus
  <2>2. CASE h # Null
    BY <1>5, <2>2 DEF Plus, Minus, Places
  <2>3. QED
    BY <2>1, <2>2
<1>11. Refs([files EXCEPT ![s] = h]) = r1
  BY <1>1, <1>5, RefsAssigned
<1>12. Closes(st, new)
  BY <1>4, <1>6, <1>9 DEF Closes
<1>13. QED
  BY <1>9, <1>10, <1>11, <1>12

-----------------------------------------------------------------------------
(* Opening *)

\* A handle and an object that were free belong to each other; what was on the disk
\* is there still, but for a length.
LEMMA PlacedSound ==
  ASSUME NEW st, NEW refs, Sound(st, refs), NEW h \in Handles, NEW o \in Objects,
         st.heap[h] = Null, st.lfs[o] = Null, NEW d \in Disks,
         NEW x \in Handle, x.refCount = 1, x.object = o, x.dirPosition = 0,
         NEW y \in Object, y.kind = x.type, y.pos = 0, y.kind = "file" => y.name \in Names /\ y.size <= MaxSize,
         NEW new, new = [heap |-> [st.heap EXCEPT ![h] = x], lfs |-> [st.lfs EXCEPT ![o] = y], disk |-> d]
  PROVE  Sound(new, Plus(refs, h))
<1>1. st.heap \in Heaps /\ st.lfs \in Tables /\ refs \in [Handles -> Nat]
  BY FieldsOf DEF Sound
<1>2. x # Null /\ y # Null /\ h # Null /\ o # Null
  BY FsAssumption
<1>3. /\ new \in States
      /\ \A j \in Handles : new.heap[j] = IF j = h THEN x ELSE st.heap[j]
      /\ \A p \in Objects : new.lfs[p] = IF p = o THEN y ELSE st.lfs[p]
  BY <1>1 DEF States, Heaps, Tables
<1>4. refs[h] = 0
  BY DEF Sound, HandleSound
<1>5. Plus(refs, h) \in [Handles -> Nat] /\ \A j \in Handles : Plus(refs, h)[j] = IF j = h THEN 1 ELSE refs[j]
  BY <1>1, <1>2, <1>4 DEF Plus
<1>6. \A j \in Handles : st.heap[j] # Null => st.heap[j].object # o /\ (st.heap[j].object = Null \/ st.heap[j].object \in Objects)
  <2> SUFFICES ASSUME NEW j \in Handles, st.heap[j] # Null
               PROVE  st.heap[j].object # o /\ (st.heap[j].object = Null \/ st.heap[j].object \in Objects)
    OBVIOUS
  <2>1. HandleSound(st, refs, j) /\ st.heap[j] \in Handle
    BY <1>1 DEF Sound, Heaps
  <2>2. QED
    BY <1>2, <2>1 DEF HandleSound, Handle
<1>7. ASSUME NEW j \in Handles PROVE HandleSound(new, Plus(refs, h), j)
  <2>1. CASE j = h
    <3>1. Alone(new, h)
      BY <1>3, <1>6 DEF Alone
    <3>2. QED
      BY <1>2, <1>3, <1>5, <2>1, <3>1 DEF HandleSound
  <2>2. CASE j # h
    <3>1. HandleSound(st, refs, j) /\ new.heap[j] = st.heap[j] /\ Plus(refs, h)[j] = refs[j]
      BY <1>3, <1>5, <2>2 DEF Sound
    <3>2. CASE st.heap[j] # Null /\ st.heap[j].object # Null
      <4>1. Alone(new, j)
        BY <1>3, <1>6, <3>1, <3>2 DEF HandleSound, Alone
      <4>2. new.lfs[st.heap[j].object] = st.lfs[st.heap[j].object]
        BY <1>3, <1>6, <3>2
      <4>3. QED
        BY <3>1, <3>2, <4>1, <4>2 DEF HandleSound
    <3>3. QED
      BY <3>1, <3>2 DEF HandleSound
  <2>3. QED
    BY <2>1, <2>2
<1>8. ASSUME NEW p \in Objects PROVE ObjectSound(new, p)
  <2>1. CASE p = o
    BY <1>2, <1>3, <2>1 DEF ObjectSound
  <2>2. CASE p # o
    <3>1. ObjectSound(st, p) /\ new.lfs[p] = st.lfs[p]
      BY <1>3, <2>2 DEF Sound
    <3>2. ASSUME NEW j \in Handles, st.heap[j] # Null PROVE new.heap[j] = st.heap[j]
      BY <1>3, <3>2
    <3>3. QED
      BY <3>1, <3>2 DEF ObjectSound
  <2>3. QED
    BY <2>1, <2>2
<1>9. QED
  BY <1>3, <1>5, <1>7, <1>8 DEF Sound

\* What an open changes but for the handle and the object it takes.
OpensAs(st, new, mode, o, y) ==
  /\ st.lfs[o] = Null /\ new.lfs = [st.lfs EXCEPT ![o] = y]
  /\ mode = "r" => ~y.dirty /\ new.disk = st.disk
OpensOf(st, new, mode) == \E o \in Objects, y \in Object : OpensAs(st, new, mode, o, y)

LEMMA OpenSound ==
  ASSUME NEW st, NEW refs, Sound(st, refs), NEW n \in Names \cup {Root}, NEW mode \in Modes \cup {"r"},
         NEW r \in openHandleFromUserPath(st, n, mode)
  PROVE  /\ r.handle \in Places /\ Sound(r.st, Plus(refs, r.handle))
         /\ r.handle = Null => r.st = st
         /\ r.handle # Null => OpensOf(st, r.st, mode)
<1>1. st \in States /\ st.heap \in Heaps /\ st.lfs \in Tables /\ st.disk \in Disks
  BY FieldsOf DEF Sound
<1>2. CASE r = [handle |-> Null, st |-> st]
  BY <1>2 DEF Places, Plus
<1>3. CASE r # [handle |-> Null, st |-> st]
  <2> DEFINE isDir == n = Root \/ (n # Root /\ st.disk[n] = Directory)
             old == IF st.disk[n] = Absent THEN 0 ELSE st.disk[n]
             size == IF "trunc" \in Flags(mode) THEN 0 ELSE old
  <2>1. PICK h \in FreeIn(st.heap), o \in FreeIn(st.lfs) :
          /\ r.handle = h
          /\ r.st = IF isDir THEN openDirectoryHandle(st, n, h, o) ELSE openFileHandle(st, n, mode, h, o)
          /\ isDir \/ st.disk[n] # Absent \/ "create" \in Flags(mode)
    <3> DEFINE h == CHOOSE x \in FreeIn(st.heap) : TRUE
               o == CHOOSE x \in FreeIn(st.lfs) : TRUE
               places == {<<h, o>> : x \in IF FreeIn(st.heap) = {} \/ FreeIn(st.lfs) = {} THEN {} ELSE {1}}
               canOpen == isDir \/ st.disk[n] # Absent \/ "create" \in Flags(mode)
               To(p) == IF isDir THEN openDirectoryHandle(st, n, p[1], p[2]) ELSE openFileHandle(st, n, mode, p[1], p[2])
    <3>1. PICK p \in places : canOpen /\ r = [handle |-> p[1], st |-> To(p)]
      <4>1. openHandleFromUserPath(st, n, mode) =
              {[handle |-> Null, st |-> st]} \cup {[handle |-> p[1], st |-> To(p)] : p \in IF canOpen THEN places ELSE {}}
        BY DEF openHandleFromUserPath
      <4> HIDE DEF places, canOpen, To
      <4>2. r \in {[handle |-> p[1], st |-> To(p)] : p \in IF canOpen THEN places ELSE {}}
        BY <1>3, <4>1
      <4>3. QED
        BY <4>2
    <3>2. FreeIn(st.heap) # {} /\ FreeIn(st.lfs) # {} /\ p[1] = h /\ p[2] = o
      OBVIOUS
    <3>3. h \in FreeIn(st.heap) /\ o \in FreeIn(st.lfs)
      BY <3>2
    <3> HIDE DEF h, o, isDir
    <3>4. r.handle = h /\ r.st = IF isDir THEN openDirectoryHandle(st, n, h, o) ELSE openFileHandle(st, n, mode, h, o)
      BY <3>1, <3>2
    <3>5. QED
      BY <3>1, <3>3, <3>4
  <2>2. h \in Handles /\ st.heap[h] = Null /\ o \in Objects /\ st.lfs[o] = Null /\ h # Null
    BY <1>1, FsAssumption DEF FreeIn, Heaps, Tables
  <2>3. CASE isDir
    <3>1. PICK x, y :
            /\ x = [refCount |-> 1, type |-> "dir", writable |-> FALSE, object |-> o, dirPosition |-> 0]
            /\ y = [kind |-> "dir", name |-> n, mode |-> "r", pos |-> 0, size |-> 0, linked |-> TRUE, dirty |-> FALSE]
      OBVIOUS
    <3>2. x \in Handle /\ y \in Object
      BY <2>2, <3>1 DEF Handle, Object
    <3>3. r.st = [heap |-> [st.heap EXCEPT ![h] = x], lfs |-> [st.lfs EXCEPT ![o] = y], disk |-> st.disk]
      <4>1. r.st = [st EXCEPT !.heap[h] = x, !.lfs[o] = y]
        BY <2>1, <2>3, <3>1 DEF openDirectoryHandle, Placed
      <4>2. QED
        BY <1>1, <4>1, FieldsOf DEF States
    <3>4. Sound(r.st, Plus(refs, h))
      BY <1>1, <2>2, <3>1, <3>2, <3>3, PlacedSound
    <3>5. r.st.lfs = [st.lfs EXCEPT ![o] = y] /\ r.st.disk = st.disk
      BY <3>3
    <3>6. QED
      <4>1. OpensAs(st, r.st, mode, o, y)
        BY <2>2, <3>1, <3>5 DEF OpensAs
      <4>2. QED
        BY <2>1, <2>2, <3>2, <3>4, <4>1 DEF OpensOf, Places
  <2>4. CASE ~isDir
    <3>1. n \in Names /\ st.disk[n] \in Absent .. MaxSize /\ st.disk[n] # Directory
      BY <1>1, <2>4 DEF Disks
    <3>2. old \in 0 .. MaxSize /\ size \in 0 .. MaxSize
      BY <3>1, FsAssumption DEF Absent, Directory
    <3>3. PICK p, q : p = old /\ q = size
      OBVIOUS
    <3>4. PICK x, y :
            /\ x = [refCount |-> 1, type |-> "file", writable |-> IsWritable(mode), object |-> o, dirPosition |-> 0]
            /\ y = [kind |-> "file", name |-> n, mode |-> mode, pos |-> 0, size |-> q, linked |-> TRUE, dirty |-> q # p]
      OBVIOUS
    <3>5. IsWritable(mode) \in BOOLEAN /\ (q # p) \in BOOLEAN
      BY DEF IsWritable
    <3>6. x \in Handle /\ y \in Object /\ q <= MaxSize
      BY <2>2, <3>1, <3>2, <3>3, <3>4, <3>5 DEF Handle, Object
    <3>7. [st.disk EXCEPT ![n] = p] \in Disks
      BY <1>1, <3>1, <3>2, <3>3, FsAssumption DEF Disks, Absent
    <3>8. r.st = [heap |-> [st.heap EXCEPT ![h] = x], lfs |-> [st.lfs EXCEPT ![o] = y], disk |-> [st.disk EXCEPT ![n] = p]]
      <4>1. r.st = [[st EXCEPT !.heap[h] = x, !.lfs[o] = y] EXCEPT !.disk[n] = p]
        BY <2>1, <2>4, <3>3, <3>4 DEF openFileHandle, Placed
      <4>2. QED
        BY <1>1, <4>1, FieldsOf DEF States
    <3>9. Sound(r.st, Plus(refs, h))
      <4>1. /\ x.refCount = 1 /\ x.object = o /\ x.dirPosition = 0 /\ y.kind = x.type /\ y.pos = 0
            /\ y.name \in Names /\ y.size <= MaxSize
        BY <3>1, <3>4, <3>6
      <4>2. QED
        BY <1>1, <2>2, <3>6, <3>7, <3>8, <4>1, PlacedSound
    <3>10. r.st.lfs = [st.lfs EXCEPT ![o] = y] /\ r.st.disk = [st.disk EXCEPT ![n] = p]
      BY <3>8
    <3>11. mode = "r" => p = st.disk[n] /\ ~y.dirty
      BY <2>1, <2>4, <3>3, <3>4 DEF Flags
    <3>12. mode = "r" => r.st.disk = st.disk
      BY <1>1, <3>1, <3>10, <3>11 DEF Disks
    <3>13. QED
      <4>1. OpensAs(st, r.st, mode, o, y)
        BY <2>2, <3>10, <3>11, <3>12 DEF OpensAs
      <4>2. QED
        BY <2>1, <2>2, <3>6, <3>9, <4>1 DEF OpensOf, Places
  <2>5. QED
    BY <2>3, <2>4
<1>4. QED
  BY <1>2, <1>3

-----------------------------------------------------------------------------
(* Objects that change in place *)

\* The same handles are there, for the same objects.
SameHandles(st, new) ==
  \A j \in Handles :
    /\ new.heap[j] = Null <=> st.heap[j] = Null
    /\ st.heap[j] # Null =>
         /\ new.heap[j].refCount = st.heap[j].refCount /\ new.heap[j].object = st.heap[j].object
         /\ new.heap[j].type = st.heap[j].type
         /\ (st.heap[j].type = "dir" /\ st.heap[j].object # Null
               /\ st.heap[j].dirPosition <= st.lfs[st.heap[j].object].pos)
              => new.heap[j].dirPosition <= new.lfs[st.heap[j].object].pos

\* The same objects are open, of the same names.
SameObjects(st, new) ==
  \A o \in Objects :
    /\ new.lfs[o] = Null <=> st.lfs[o] = Null
    /\ st.lfs[o] # Null =>
         /\ new.lfs[o].kind = st.lfs[o].kind /\ new.lfs[o].name = st.lfs[o].name
         /\ st.lfs[o].kind = "file" /\ st.lfs[o].size <= MaxSize => new.lfs[o].size <= MaxSize

\* Positions, lengths and the disk change; what belongs to what does not.
LEMMA ChangedSound ==
  ASSUME NEW st, NEW refs, Sound(st, refs),
         NEW new \in States, SameHandles(st, new), SameObjects(st, new)
  PROVE  Sound(new, refs)
<1>1. st.heap \in Heaps /\ refs \in [Handles -> Nat]
  BY FieldsOf DEF Sound
<1>2. ASSUME NEW j \in Handles PROVE HandleSound(new, refs, j)
  <2>1. HandleSound(st, refs, j)
    BY DEF Sound
  <2>2. Alone(st, j) /\ st.heap[j] # Null => Alone(new, j)
    BY DEF Alone, SameHandles
  <2>3. st.heap[j] # Null => st.heap[j].object = Null \/ st.heap[j].object \in Objects
    BY <1>1 DEF Heaps, Handle
  <2>4. st.heap[j] # Null /\ st.heap[j].object # Null =>
          /\ new.lfs[st.heap[j].object] = Null <=> st.lfs[st.heap[j].object] = Null
          /\ st.lfs[st.heap[j].object] # Null => new.lfs[st.heap[j].object].kind = st.lfs[st.heap[j].object].kind
    BY <2>3 DEF SameObjects
  <2>5. QED
    BY <2>1, <2>2, <2>4 DEF HandleSound, SameHandles
<1>3. ASSUME NEW o \in Objects PROVE ObjectSound(new, o)
  <2>1. ObjectSound(st, o)
    BY DEF Sound
  <2>2. QED
    BY <2>1 DEF ObjectSound, SameHandles, SameObjects
<1>4. QED
  BY <1>1, <1>2, <1>3 DEF Sound

\* One object changes: what a read, a write or a seek of a file does.
LEMMA ObjectChanged ==
  ASSUME NEW st, NEW refs, Sound(st, refs), NEW o \in Objects, st.lfs[o] # Null, st.lfs[o].kind = "file",
         NEW y \in Object, y.kind = "file", y.name = st.lfs[o].name, y.size <= MaxSize, NEW d \in Disks,
         NEW new, new = [heap |-> st.heap, lfs |-> [st.lfs EXCEPT ![o] = y], disk |-> d]
  PROVE  Sound(new, refs)
<1>1. st.heap \in Heaps /\ st.lfs \in Tables /\ y # Null
  BY FieldsOf, FsAssumption DEF Sound
<1>2. new \in States /\ new.heap = st.heap /\ \A p \in Objects : new.lfs[p] = IF p = o THEN y ELSE st.lfs[p]
  BY <1>1 DEF States, Tables
<1>3. \A j \in Handles : st.heap[j] # Null /\ st.heap[j].type = "dir" /\ st.heap[j].object # Null => st.heap[j].object # o
  BY DEF Sound, HandleSound
<1>4. \A j \in Handles : st.heap[j] # Null /\ st.heap[j].object # Null => st.heap[j].object \in Objects
  BY <1>1 DEF Heaps, Handle
<1>5. SameHandles(st, new)
  BY <1>2, <1>3, <1>4 DEF SameHandles
<1>6. SameObjects(st, new)
  BY <1>1, <1>2 DEF SameObjects
<1>7. QED
  BY <1>2, <1>5, <1>6, ChangedSound

\* A directory moves: its cursor to n, and its position to c.
Moved(st, h, o, n, c) ==
  [heap |-> [st.heap EXCEPT ![h] = [@ EXCEPT !.dirPosition = c]], lfs |-> [st.lfs EXCEPT ![o] = [@ EXCEPT !.pos = n]],
   disk |-> st.disk]

LEMMA MovedSound ==
  ASSUME NEW st, NEW refs, Sound(st, refs), NEW h \in Handles, st.heap[h] # Null, st.heap[h].type = "dir",
         NEW o \in Objects, st.heap[h].object = o, NEW n \in Nat, NEW c \in Nat, c <= n,
         NEW new, new = Moved(st, h, o, n, c)
  PROVE  Sound(new, refs)
<1>1. st.heap \in Heaps /\ st.lfs \in Tables /\ st.disk \in Disks
  BY FieldsOf DEF Sound
<1>2. HandleSound(st, refs, h) /\ o # Null
  BY FsAssumption DEF Sound
<1>3. st.lfs[o] # Null /\ Alone(st, h) /\ st.heap[h] \in Handle /\ st.lfs[o] \in Object /\ st.lfs[o].kind = "dir"
  BY <1>1, <1>2 DEF HandleSound, Heaps, Tables
<1>4. PICK x, y : x = [st.heap[h] EXCEPT !.dirPosition = c] /\ y = [st.lfs[o] EXCEPT !.pos = n]
  OBVIOUS
<1>5. /\ x \in Handle /\ x # Null /\ x.refCount = st.heap[h].refCount /\ x.object = o /\ x.type = "dir" /\ x.dirPosition = c
      /\ y \in Object /\ y # Null /\ y.kind = "dir" /\ y.name = st.lfs[o].name /\ y.pos = n
  BY <1>3, <1>4, FsAssumption DEF Handle, Object
<1>6. new = [heap |-> [st.heap EXCEPT ![h] = x], lfs |-> [st.lfs EXCEPT ![o] = y], disk |-> st.disk]
  BY <1>4 DEF Moved
<1>7. /\ new \in States
      /\ \A j \in Handles : new.heap[j] = IF j = h THEN x ELSE st.heap[j]
      /\ \A p \in Objects : new.lfs[p] = IF p = o THEN y ELSE st.lfs[p]
  BY <1>1, <1>5, <1>6 DEF States, Heaps, Tables
<1>8. \A j \in Handles : j # h /\ st.heap[j] # Null => st.heap[j].object # o
  BY <1>3 DEF Alone
<1>9. \A j \in Handles : st.heap[j] # Null /\ st.heap[j].object # Null => st.heap[j].object \in Objects
  BY <1>1 DEF Heaps, Handle
<1>10. \A j \in Handles :
         /\ new.heap[j] = Null <=> st.heap[j] = Null
         /\ st.heap[j] # Null =>
              /\ new.heap[j].refCount = st.heap[j].refCount /\ new.heap[j].object = st.heap[j].object
              /\ new.heap[j].type = st.heap[j].type
  BY <1>5, <1>7
<1>11. ASSUME NEW j \in Handles, st.heap[j] # Null, st.heap[j].type = "dir", st.heap[j].object # Null,
              st.heap[j].dirPosition <= st.lfs[st.heap[j].object].pos
       PROVE  new.heap[j].dirPosition <= new.lfs[st.heap[j].object].pos
  <2>1. CASE j = h
    BY <1>5, <1>7, <2>1
  <2>2. CASE j # h
    BY <1>7, <1>8, <1>9, <1>11, <2>2
  <2>3. QED
    BY <2>1, <2>2
<1>12. SameHandles(st, new) /\ SameObjects(st, new)
  BY <1>3, <1>5, <1>7, <1>10, <1>11 DEF SameHandles, SameObjects
<1>13. QED
  BY <1>7, <1>12, ChangedSound

\* A directory is opened again, in another object.
LEMMA ReopenSound ==
  ASSUME NEW st, NEW refs, Sound(st, refs), NEW h \in Handles, st.heap[h] # Null, st.heap[h].type = "dir",
         st.heap[h].object # Null, NEW o \in Objects, st.lfs[o] = Null,
         NEW new, new = reopenDirectory(st, h, o)
  PROVE  /\ Sound(new, refs) /\ new.disk = st.disk
         /\ new.heap[h] # Null /\ new.heap[h].type = "dir" /\ new.heap[h].object = o /\ new.lfs[o] # Null
<1>1. st \in States /\ st.heap \in Heaps /\ st.lfs \in Tables /\ st.disk \in Disks /\ refs \in [Handles -> Nat]
  BY FieldsOf DEF Sound
<1>2. PICK a \in Objects : a = st.heap[h].object
  BY <1>1 DEF Heaps, Handle
<1>3. HandleSound(st, refs, h)
  BY DEF Sound
<1>4. /\ st.lfs[a] # Null /\ Alone(st, h) /\ st.heap[h] \in Handle /\ st.lfs[a] \in Object /\ st.lfs[a].kind = "dir"
      /\ a # o /\ o # Null
  BY <1>1, <1>2, <1>3, FsAssumption DEF HandleSound, Heaps, Tables
<1>5. PICK x, y : x = [[st.heap[h] EXCEPT !.object = o] EXCEPT !.dirPosition = 0] /\ y = [st.lfs[a] EXCEPT !.pos = 0]
  OBVIOUS
<1>6. /\ x \in Handle /\ x # Null /\ x.refCount = st.heap[h].refCount /\ x.object = o /\ x.type = "dir" /\ x.dirPosition = 0
      /\ y \in Object /\ y # Null /\ y.kind = "dir" /\ y.pos = 0
  <2>1. PICK z : z = [st.heap[h] EXCEPT !.object = o] /\ x = [z EXCEPT !.dirPosition = 0]
    BY <1>5
  <2>2. z \in Handle /\ z.refCount = st.heap[h].refCount /\ z.object = o /\ z.type = "dir"
    BY <1>4, <2>1 DEF Handle
  <2>3. x \in Handle /\ x.refCount = st.heap[h].refCount /\ x.object = o /\ x.type = "dir" /\ x.dirPosition = 0
    BY <2>1, <2>2 DEF Handle
  <2>4. y \in Object /\ y.kind = "dir" /\ y.pos = 0
    BY <1>4, <1>5 DEF Object
  <2>5. QED
    BY <2>3, <2>4, FsAssumption
<1>7. PICK table : table = [[st.lfs EXCEPT ![o] = y] EXCEPT ![a] = Null]
  OBVIOUS
<1>8. table \in Tables /\ \A p \in Objects : table[p] = IF p = a THEN Null ELSE IF p = o THEN y ELSE st.lfs[p]
  BY <1>1, <1>4, <1>6, <1>7 DEF Tables
<1>9. new = [heap |-> [st.heap EXCEPT ![h] = x], lfs |-> table, disk |-> st.disk]
  <2>1. PICK twice \in States : /\ twice = [st EXCEPT !.lfs[o] = [st.lfs[st.heap[h].object] EXCEPT !.pos = 0]]
                                /\ twice = [heap |-> st.heap, lfs |-> [st.lfs EXCEPT ![o] = y], disk |-> st.disk]
    <3>1. PICK twice : twice = [heap |-> st.heap, lfs |-> [st.lfs EXCEPT ![o] = y], disk |-> st.disk]
      OBVIOUS
    <3>2. twice \in States
      BY <1>1, <1>6, <3>1 DEF States, Tables
    <3>3. twice = [st EXCEPT !.lfs[o] = y]
      BY <1>1, <3>1, FieldsOf DEF States
    <3>4. QED
      BY <1>2, <1>5, <3>1, <3>2, <3>3
  <2>2. twice.lfs[a] = st.lfs[a] /\ twice.lfs = [st.lfs EXCEPT ![o] = y] /\ twice.disk = st.disk /\ twice.heap = st.heap
    BY <1>1, <1>4, <2>1 DEF Tables
  <2>3. Stored(twice.disk, twice.lfs[a]) = st.disk
    BY <1>4, <2>2 DEF Stored
  <2>4. PICK once \in States : once = CloseObject(twice, a) /\ once = [heap |-> st.heap, lfs |-> table, disk |-> st.disk]
    <3>1. PICK once : once = [heap |-> st.heap, lfs |-> table, disk |-> st.disk]
      OBVIOUS
    <3>2. once \in States
      BY <1>1, <1>8, <3>1 DEF States
    <3>3. once = CloseObject(twice, a)
      <4>1. CloseObject(twice, a) = [twice EXCEPT !.lfs[a] = Null, !.disk = st.disk]
        BY <2>1, <2>2, <2>3 DEF CloseObject, States
      <4>2. [twice EXCEPT !.lfs[a] = Null, !.disk = st.disk]
              = [heap |-> twice.heap, lfs |-> [twice.lfs EXCEPT ![a] = Null], disk |-> st.disk]
        <5>1. twice = [heap |-> twice.heap, lfs |-> twice.lfs, disk |-> twice.disk]
          BY <2>1, FieldsOf
        <5>2. PICK f, g, d : f = twice.heap /\ g = twice.lfs /\ d = twice.disk
          OBVIOUS
        <5>3. PICK e, n : e = st.disk /\ n = Null
          OBVIOUS
        <5>4. twice = [heap |-> f, lfs |-> g, disk |-> d]
          BY ONLY <5>1, <5>2, Zenon
        <5>5. PICK mid : mid = [heap |-> f, lfs |-> [g EXCEPT ![a] = n], disk |-> d]
          OBVIOUS
        <5>6. [twice EXCEPT !.lfs[a] = n] = mid
          BY ONLY <5>4, <5>5
        <5>7. [mid EXCEPT !.disk = e] = [heap |-> f, lfs |-> [g EXCEPT ![a] = n], disk |-> e]
          BY ONLY <5>5
        <5>8. [twice EXCEPT !.lfs[a] = n, !.disk = e] = [heap |-> f, lfs |-> [g EXCEPT ![a] = n], disk |-> e]
          BY ONLY <5>6, <5>7, Zenon
        <5>9. QED
          BY ONLY <5>2, <5>3, <5>8, Zenon
      <4>3. QED
        BY <1>7, <2>2, <3>1, <4>1, <4>2
    <3>4. QED
      BY <3>1, <3>2, <3>3
  <2>5. new = [once EXCEPT !.heap[h].object = o, !.heap[h].dirPosition = 0]
    BY <1>2, <2>1, <2>4 DEF reopenDirectory
  <2>6. PICK z \in Handle : z = [st.heap[h] EXCEPT !.object = o] /\ x = [z EXCEPT !.dirPosition = 0]
    <3>1. PICK z : z = [st.heap[h] EXCEPT !.object = o]
      OBVIOUS
    <3>2. z \in Handle
      BY <1>4, <3>1 DEF Handle
    <3>3. QED
      BY <1>5, <3>1, <3>2
  <2>7. PICK mid \in States : /\ mid = [once EXCEPT !.heap[h].object = o]
                              /\ mid = [heap |-> [st.heap EXCEPT ![h] = z], lfs |-> table, disk |-> st.disk]
    <3>1. PICK mid : mid = [heap |-> [st.heap EXCEPT ![h] = z], lfs |-> table, disk |-> st.disk]
      OBVIOUS
    <3>2. mid \in States
      BY <1>1, <1>8, <2>6, <3>1 DEF States, Heaps
    <3>3. mid = [once EXCEPT !.heap[h].object = o]
      BY <2>4, <2>6, <3>1 DEF States
    <3>4. QED
      BY <3>1, <3>2, <3>3
  <2>8. mid.heap = [st.heap EXCEPT ![h] = z]
    BY <2>7
  <2>9. mid.heap[h] = z /\ mid.heap \in Heaps
    BY <1>1, <2>6, <2>8 DEF Heaps
  <2>10. new = [mid EXCEPT !.heap[h].dirPosition = 0]
    BY <2>5, <2>7
  <2>11. new = [heap |-> [mid.heap EXCEPT ![h] = x], lfs |-> table, disk |-> st.disk]
    BY <2>6, <2>7, <2>9, <2>10 DEF States
  <2>12. [mid.heap EXCEPT ![h] = x] = [st.heap EXCEPT ![h] = x]
    BY <1>1, <2>8 DEF Heaps
  <2>13. QED
    BY <2>11, <2>12
<1>10. /\ new \in States /\ new.lfs = table /\ new.disk = st.disk
       /\ \A j \in Handles : new.heap[j] = IF j = h THEN x ELSE st.heap[j]
  BY <1>1, <1>6, <1>8, <1>9 DEF States, Heaps
<1>11. \A j \in Handles : st.heap[j] # Null => st.heap[j].object # o /\ (st.heap[j].object = Null \/ st.heap[j].object \in Objects)
  <2> SUFFICES ASSUME NEW j \in Handles, st.heap[j] # Null
               PROVE  st.heap[j].object # o /\ (st.heap[j].object = Null \/ st.heap[j].object \in Objects)
    OBVIOUS
  <2>1. HandleSound(st, refs, j) /\ st.heap[j] \in Handle
    BY <1>1 DEF Sound, Heaps
  <2>2. QED
    BY <1>4, <2>1 DEF HandleSound, Handle
<1>12. \A j \in Handles : j # h /\ st.heap[j] # Null => st.heap[j].object # a
  BY <1>2, <1>4 DEF Alone
<1>13. ASSUME NEW j \in Handles PROVE HandleSound(new, refs, j)
  <2>1. CASE j = h
    <3>1. Alone(new, h)
      BY <1>6, <1>10, <1>11 DEF Alone
    <3>2. QED
      BY <1>3, <1>4, <1>6, <1>8, <1>10, <2>1, <3>1 DEF HandleSound
  <2>2. CASE j # h
    <3>1. HandleSound(st, refs, j) /\ new.heap[j] = st.heap[j]
      BY <1>10, <2>2 DEF Sound
    <3>2. CASE st.heap[j] # Null /\ st.heap[j].object # Null
      <4>1. Alone(new, j)
        BY <1>6, <1>10, <1>11, <2>2, <3>1, <3>2 DEF HandleSound, Alone
      <4>2. new.lfs[st.heap[j].object] = st.lfs[st.heap[j].object]
        BY <1>8, <1>10, <1>11, <1>12, <2>2, <3>2
      <4>3. QED
        BY <3>1, <3>2, <4>1, <4>2 DEF HandleSound
    <3>3. QED
      BY <3>1, <3>2 DEF HandleSound
  <2>3. QED
    BY <2>1, <2>2
<1>14. ASSUME NEW p \in Objects PROVE ObjectSound(new, p)
  <2>1. CASE p = a
    BY <1>8, <1>10, <2>1 DEF ObjectSound
  <2>2. CASE p = o
    BY <1>4, <1>6, <1>8, <1>10, <2>2 DEF ObjectSound
  <2>3. CASE p # a /\ p # o
    <3>1. ObjectSound(st, p) /\ new.lfs[p] = st.lfs[p]
      BY <1>8, <1>10, <2>3 DEF Sound
    <3>2. \A j \in Handles : st.heap[j].object = p => j # h
      BY <1>2, <2>3
    <3>3. QED
      BY <1>10, <3>1, <3>2 DEF ObjectSound
  <2>4. QED
    BY <2>1, <2>2, <2>3
<1>15. Sound(new, refs)
  BY <1>1, <1>10, <1>13, <1>14 DEF Sound
<1>16. QED
  BY <1>4, <1>6, <1>8, <1>10, <1>15

-----------------------------------------------------------------------------
(* The calls *)

\* The state before a call, field by field, and what its handles and objects are.
LEMMA NowIs ==
  ASSUME FsInv
  PROVE  /\ Sound(Now, Refs(files)) /\ Now \in States /\ Now.heap = heap /\ Now.lfs = lfs /\ Now.disk = disk
         /\ heap \in Heaps /\ lfs \in Tables /\ disk \in Disks
         /\ files \in [Slots -> Places] /\ Refs(files) \in [Handles -> Nat]
<1>1. Now.heap = heap /\ Now.lfs = lfs /\ Now.disk = disk
  BY DEF Now
<1>2. QED
  BY <1>1, FieldsOf DEF FsInv, Sound

\* A call that leads to a sound state.
LEMMA BecomesSound ==
  ASSUME NEW new, Becomes(new), files' \in [Slots -> Places], Sound(new, Refs(files')), ready' \in BOOLEAN, initialized' \in BOOLEAN
  PROVE  FsInv'
<1>1. Now' = new
  BY FieldsOf DEF Becomes, Now, Sound
<1>2. Sound(Now', Refs(files'))
  BY <1>1
<1>3. QED
  BY <1>2 DEF FsInv, Now, Refs, Sound, HandleSound, ObjectSound, Alone

\* No file has changed, except one that was closed and had a truncation to store.
Kept ==
  \A n \in Names : disk'[n] # disk[n] =>
     \E o \in Objects : lfs[o] # Null /\ lfs'[o] = Null /\ lfs[o].name = n /\ lfs[o].dirty /\ lfs[o].linked

\* On the way through a call the disk is as it was, and an object that is open and was
\* not when the call began has nothing to store.
Untouched(st) ==
  /\ st.disk = disk
  /\ \A o \in Objects : st.lfs[o] # Null /\ st.lfs[o].dirty =>
       /\ lfs[o] # Null /\ lfs[o].name = st.lfs[o].name /\ lfs[o].dirty
       /\ lfs[o].linked = st.lfs[o].linked

LEMMA ClosingKeeps ==
  ASSUME NEW st, Untouched(st), st.lfs \in Tables, disk \in Disks, NEW new, Closes(st, new), Becomes(new)
  PROVE  Kept
<1>1. SUFFICES ASSUME NEW n \in Names, disk'[n] # disk[n]
               PROVE  \E o \in Objects : lfs[o] # Null /\ lfs'[o] = Null /\ lfs[o].name = n /\ lfs[o].dirty /\ lfs[o].linked
  BY DEF Kept
<1>2. st.disk = disk /\ disk' = new.disk /\ lfs' = new.lfs
  BY DEF Untouched, Becomes
<1>3. PICK o \in Objects : /\ st.lfs[o] # Null /\ new.lfs = [st.lfs EXCEPT ![o] = Null]
                           /\ new.disk = Stored(st.disk, st.lfs[o])
  BY <1>1, <1>2 DEF Closes
<1>4. st.lfs[o].linked /\ st.lfs[o].dirty /\ st.lfs[o].name = n
  BY <1>1, <1>2, <1>3 DEF Stored, Disks
<1>5. lfs'[o] = Null
  BY <1>2, <1>3 DEF Tables
<1>6. QED
  BY <1>3, <1>4, <1>5 DEF Untouched

LEMMA OpeningUntouched ==
  ASSUME NEW st, Untouched(st), st.lfs \in Tables, NEW new, NEW mode, mode = "r", OpensOf(st, new, mode)
  PROVE  Untouched(new)
<1>1. PICK o \in Objects, y \in Object : OpensAs(st, new, mode, o, y)
  BY DEF OpensOf
<1>2. st.lfs[o] = Null /\ new.lfs = [st.lfs EXCEPT ![o] = y] /\ ~y.dirty /\ new.disk = st.disk
  BY <1>1 DEF OpensAs
<1>3. \A p \in Objects : new.lfs[p] = IF p = o THEN y ELSE st.lfs[p]
  BY <1>2 DEF Tables
<1>4. QED
  BY <1>2, <1>3 DEF Untouched

\* An open file or directory, and its handle.
LEMMA OpenObject ==
  ASSUME FsInv, NEW s \in Slots, NEW type \in {"file", "dir"}, HasType(s, type)
  PROVE  /\ files[s] \in Handles /\ files[s] # Null /\ heap[files[s]] # Null /\ heap[files[s]] \in Handle
         /\ heap[files[s]].type = type
         /\ ObjectOf(s) # Null =>
              /\ ObjectOf(s) \in Objects /\ lfs[ObjectOf(s)] # Null /\ lfs[ObjectOf(s)] \in Object
              /\ lfs[ObjectOf(s)].kind = type
              /\ type = "file" => lfs[ObjectOf(s)].name \in Names /\ lfs[ObjectOf(s)].size <= MaxSize
              /\ type = "dir" => heap[files[s]].dirPosition <= lfs[ObjectOf(s)].pos
<1>1. PICK h : h = files[s] /\ h # Null /\ h \in Handles /\ heap[h].type = type
  BY DEF HasType, FsInv, Places
<1>2. Refs(files)[h] > 0 /\ Refs(files)[h] \in Nat
  BY <1>1, NowIs, RefsCount
<1>3. HandleSound(Now, Refs(files), h)
  BY <1>1, NowIs DEF Sound
<1>4. heap[h] # Null /\ heap[h] \in Handle
  BY <1>1, <1>2, <1>3, NowIs DEF HandleSound, Heaps
<1>5. ASSUME ObjectOf(s) # Null
      PROVE  /\ ObjectOf(s) \in Objects /\ lfs[ObjectOf(s)] # Null /\ lfs[ObjectOf(s)] \in Object
             /\ lfs[ObjectOf(s)].kind = type
             /\ type = "file" => lfs[ObjectOf(s)].name \in Names /\ lfs[ObjectOf(s)].size <= MaxSize
             /\ type = "dir" => heap[files[s]].dirPosition <= lfs[ObjectOf(s)].pos
  <2>1. PICK o : o = ObjectOf(s) /\ o = heap[h].object /\ o \in Objects
    BY <1>1, <1>4, <1>5 DEF ObjectOf, Handle
  <2>2. lfs[o] # Null /\ lfs[o] \in Object /\ lfs[o].kind = type /\ (type = "dir" => heap[h].dirPosition <= lfs[o].pos)
    BY <1>1, <1>3, <1>4, <1>5, <2>1, NowIs DEF HandleSound, Tables
  <2>3. ObjectSound(Now, o)
    BY <2>1, NowIs DEF Sound
  <2>4. QED
    BY <1>1, <2>1, <2>2, <2>3, NowIs DEF ObjectSound
<1>6. QED
  BY <1>1, <1>4, <1>5

LEMMA StepOpen ==
  ASSUME FsInv, NEW s \in Slots, NEW n \in Names \cup {Root}, NEW mode \in Modes \cup {"r"}, open(s, n, mode)
  PROVE  FsInv' /\ (mode = "r" => Kept)
<1>1. PICK r \in IF ready THEN openHandleFromUserPath(Now, n, mode) ELSE {[handle |-> Null, st |-> Now]} :
        Becomes(AssignTemporary(r.st, s, r.handle)) /\ files' = [files EXCEPT ![s] = r.handle]
  BY DEF open
<1>2. /\ r.handle \in Places /\ Sound(r.st, Plus(Refs(files), r.handle))
      /\ r.handle = Null => r.st = Now
      /\ r.handle # Null => OpensOf(Now, r.st, mode)
  <2>1. CASE r \in openHandleFromUserPath(Now, n, mode)
    BY <2>1, NowIs, OpenSound
  <2>2. CASE r = [handle |-> Null, st |-> Now]
    BY <2>2, NowIs DEF Plus, Places
  <2>3. QED
    BY <1>1, <2>1, <2>2
<1>3. PICK new : new = AssignTemporary(r.st, s, r.handle) /\ Becomes(new)
  BY <1>1
<1>4. Sound(new, Refs(files')) /\ Closes(r.st, new)
  BY <1>1, <1>2, <1>3, NowIs, AssignSound
<1>5. files' \in [Slots -> Places] /\ ready' \in BOOLEAN /\ initialized' \in BOOLEAN
  BY <1>1, <1>2 DEF open, FsInv
<1>6. FsInv'
  BY <1>3, <1>4, <1>5, BecomesSound
<1>7. ASSUME mode = "r" PROVE Kept
  <2>1. Untouched(Now)
    BY NowIs DEF Untouched
  <2>2. Untouched(r.st)
    BY <1>2, <1>7, <2>1, NowIs, OpeningUntouched
  <2>3. r.st.lfs \in Tables
    BY <1>2, FieldsOf DEF Sound
  <2>4. QED
    BY <1>3, <1>4, <2>2, <2>3, NowIs, ClosingKeeps
<1>8. QED
  BY <1>6, <1>7

LEMMA StepCopy ==
  ASSUME FsInv, NEW s \in Slots, NEW t \in Slots, copy(s, t)
  PROVE  FsInv'
<1> DEFINE empty == [files EXCEPT ![s] = Null]
<1>1. empty \in [Slots -> Places] /\ empty[t] = files[t] /\ empty[s] = Null /\ files[s] \in Places /\ files[t] \in Places
  BY NowIs DEF copy, Places
<1>2. PICK st : st = release(Now, files[s]) /\ Sound(st, Minus(Refs(files), files[s]))
  BY <1>1, NowIs, RefsCount, ReleaseSound
<1>3. Refs(empty) = Minus(Refs(files), files[s])
  <2>1. Refs(empty) = Plus(Minus(Refs(files), files[s]), Null)
    BY NowIs, RefsAssigned DEF Places
  <2>2. QED
    BY <2>1 DEF Plus
<1>4. files[t] # Null => Refs(empty)[files[t]] > 0
  BY <1>1, RefsCount
<1>5. PICK new : new = retain(st, files[t]) /\ Sound(new, Plus(Refs(empty), files[t]))
  BY <1>1, <1>2, <1>3, <1>4, RetainSound
<1>6. files' = [files EXCEPT ![s] = files[t]] /\ Becomes(new)
  BY <1>2, <1>5 DEF copy
<1>7. Refs(files') = Plus(Refs(empty), files[t])
  <2>1. files' = [empty EXCEPT ![s] = files[t]]
    BY <1>6, NowIs
  <2> HIDE DEF empty
  <2>2. Refs(files') = Plus(Minus(Refs(empty), Null), files[t])
    BY <1>1, <2>1, RefsAssigned
  <2>3. QED
    BY <2>2 DEF Minus
<1>8. files' \in [Slots -> Places] /\ ready' \in BOOLEAN /\ initialized' \in BOOLEAN
  BY <1>1, <1>6, NowIs DEF copy, FsInv
<1>9. QED
  BY <1>5, <1>6, <1>7, <1>8, BecomesSound

LEMMA StepDestroy ==
  ASSUME FsInv, NEW s \in Slots, destroy(s)
  PROVE  FsInv'
<1>1. files[s] \in Places /\ files' = [files EXCEPT ![s] = Null] /\ files' \in [Slots -> Places]
  BY NowIs DEF destroy, Places
<1>2. PICK new : new = release(Now, files[s]) /\ Sound(new, Minus(Refs(files), files[s])) /\ Becomes(new)
  BY <1>1, NowIs, RefsCount, ReleaseSound DEF destroy
<1>3. Refs(files') = Minus(Refs(files), files[s])
  <2>1. Refs([files EXCEPT ![s] = Null]) = Plus(Minus(Refs(files), files[s]), Null)
    BY NowIs, RefsAssigned DEF Places
  <2>2. QED
    BY <1>1, <2>1 DEF Plus
<1>4. QED
  BY <1>1, <1>2, <1>3, BecomesSound DEF destroy, FsInv

LEMMA StepClose ==
  ASSUME FsInv, NEW s \in Slots, close(s)
  PROVE  FsInv'
<1>1. files[s] \in Handles /\ files' = files
  BY NowIs DEF close, Places
<1>2. heap[files[s]] # Null
  <2>1. PICK h \in Handles : h = files[s] /\ Refs(files)[h] > 0 /\ Refs(files)[h] \in Nat
    BY <1>1, NowIs, RefsCount, FsAssumption
  <2>2. HandleSound(Now, Refs(files), h)
    BY NowIs DEF Sound
  <2>3. QED
    BY <2>1, <2>2, NowIs DEF HandleSound
<1>3. PICK new : new = closeHandleResources(Now, files[s]) /\ Sound(new, Refs(files)) /\ Becomes(new)
  BY <1>1, <1>2, NowIs, CloseSound DEF close
<1>4. QED
  BY <1>1, <1>3, BecomesSound DEF close, FsInv

\* A read, a write or a seek: the object of the file becomes y, and the disk d.
LEMMA OnObjectSound ==
  ASSUME FsInv, NEW s \in Slots, IsFile(s), NEW y \in Object, y.kind = "file", y.name = lfs[ObjectOf(s)].name,
         y.size <= MaxSize, NEW d \in Disks, OnObject(s, y, d)
  PROVE  FsInv'
<1>1. PICK o \in Objects : o = ObjectOf(s) /\ lfs[o] # Null /\ lfs[o].kind = "file"
  BY OpenObject DEF IsFile
<1>2. PICK new : new = [heap |-> heap, lfs |-> [lfs EXCEPT ![o] = y], disk |-> d]
  OBVIOUS
<1>3. Sound(new, Refs(files))
  BY <1>1, <1>2, NowIs, ObjectChanged
<1>4. Becomes(new)
  BY <1>1, <1>2 DEF OnObject, Becomes
<1>5. QED
  BY <1>3, <1>4, BecomesSound DEF OnObject, FsInv

LEMMA StepWrite ==
  ASSUME FsInv, NEW s \in Slots, NEW count \in 1 .. MaxSize, write(s, count)
  PROVE  FsInv'
<1>1. IsFile(s)
  BY DEF write
<1>2. PICK f : f = lfs[ObjectOf(s)] /\ f \in Object /\ f.kind = "file" /\ f.name \in Names /\ f.size <= MaxSize
  BY <1>1, OpenObject DEF IsFile
<1>3. PICK start : start = IF "append" \in Flags(f.mode) THEN f.size ELSE f.pos
  OBVIOUS
<1>4. start \in Nat /\ f.size \in Nat /\ count \in Nat /\ MaxSize \in Nat
  BY <1>2, <1>3, FsAssumption DEF Object
<1>5. PICK top : top = Max({f.size, start + count})
  OBVIOUS
<1>6. start + count <= MaxSize
  BY <1>2, <1>3 DEF write
<1>7. top \in Nat /\ top <= MaxSize
  BY <1>2, <1>4, <1>5, <1>6, MaxOfTwo
<1>8. PICK y : y = [f EXCEPT !.pos = start + count, !.dirty = FALSE, !.size = top]
  OBVIOUS
<1>9. y \in Object /\ y.kind = "file" /\ y.name = f.name /\ y.size = top
  <2>0. PICK p : p = start + count /\ p \in Nat
    BY <1>4
  <2>1. PICK no : no = FALSE /\ no \in BOOLEAN
    OBVIOUS
  <2>2. PICK a : a = [f EXCEPT !.pos = p]
    OBVIOUS
  <2>3. a \in Object /\ a.kind = "file" /\ a.name = f.name
    BY <1>2, <2>0, <2>2 DEF Object
  <2>4. PICK b : b = [a EXCEPT !.dirty = no]
    OBVIOUS
  <2>5. b \in Object /\ b.kind = "file" /\ b.name = f.name
    BY <2>1, <2>3, <2>4 DEF Object
  <2>6. y = [b EXCEPT !.size = top]
    BY <1>2, <1>8, <2>0, <2>1, <2>2, <2>4 DEF Object
  <2>7. QED
    BY <1>7, <2>5, <2>6 DEF Object
<1>10. PICK d : d = IF f.linked THEN [disk EXCEPT ![f.name] = y.size] ELSE disk
  OBVIOUS
<1>11. d \in Disks
  <2>1. top \in Absent .. MaxSize
    BY <1>4, <1>7 DEF Absent
  <2>2. QED
    BY <1>2, <1>9, <1>10, <2>1, NowIs DEF Disks
<1>12. OnObject(s, y, d)
  BY <1>2, <1>3, <1>5, <1>8, <1>10 DEF write
<1>13. QED
  BY <1>1, <1>2, <1>7, <1>9, <1>11, <1>12, OnObjectSound

\* A read moves the position of a file, and nothing else of it.
LEMMA AdvancedIs ==
  ASSUME NEW f \in Object, NEW count \in Nat
  PROVE  /\ Advanced(f, count) \in Object
         /\ Advanced(f, count).kind = f.kind /\ Advanced(f, count).name = f.name /\ Advanced(f, count).size = f.size
<1>1. f.pos \in Nat /\ f.size \in Nat
  BY DEF Object
<1>2. PICK low : low = Min({f.size, f.pos + count}) /\ low \in Nat
  BY <1>1, MinOfTwo
<1>3. PICK p : p = Max({f.pos, low}) /\ p \in Nat
  <2>1. f.pos \in Int /\ low \in Int
    BY <1>1, <1>2
  <2>2. Max({f.pos, low}) \in Nat
    BY <1>1, <1>2, <2>1, MaxOfTwo
  <2>3. QED
    BY <2>2
<1>4. Advanced(f, count) = IF "read" \in Flags(f.mode) THEN [f EXCEPT !.pos = p] ELSE f
  BY <1>2, <1>3 DEF Advanced
<1>5. QED
  BY <1>3, <1>4 DEF Object

LEMMA StepRead ==
  ASSUME FsInv, NEW s \in Slots, NEW count \in 1 .. MaxSize, read(s, count)
  PROVE  FsInv' /\ Kept
<1>1. IsFile(s) /\ OnObject(s, Advanced(lfs[ObjectOf(s)], count), disk) /\ count \in Nat
  BY FsAssumption DEF read
<1>2. PICK f : f = lfs[ObjectOf(s)] /\ f \in Object /\ f.kind = "file" /\ f.size <= MaxSize
  BY <1>1, OpenObject DEF IsFile
<1>3. PICK y \in Object : y = Advanced(f, count) /\ y.kind = "file" /\ y.name = f.name /\ y.size = f.size
  BY <1>1, <1>2, AdvancedIs
<1>4. FsInv'
  BY <1>1, <1>2, <1>3, NowIs, OnObjectSound
<1>5. QED
  BY <1>1, <1>4 DEF OnObject, Kept

LEMMA StepPeek ==
  ASSUME FsInv, NEW s \in Slots, peek(s)
  PROVE  FsInv' /\ Kept
<1>1. IsFile(s)
  BY DEF peek
<1>2. PICK f : f = lfs[ObjectOf(s)] /\ f \in Object /\ f.kind = "file" /\ f.size <= MaxSize
  BY <1>1, OpenObject DEF IsFile
<1>3. PICK x \in Object : x = Advanced(f, 1) /\ x.kind = "file" /\ x.name = f.name /\ x.size = f.size
  BY <1>2, AdvancedIs
<1>4. PICK y : y = [x EXCEPT !.pos = f.pos]
  OBVIOUS
<1>5. y \in Object /\ y.kind = "file" /\ y.name = f.name /\ y.size = f.size
  BY <1>2, <1>3, <1>4 DEF Object
<1>6. OnObject(s, y, disk)
  BY <1>2, <1>3, <1>4 DEF peek
<1>7. FsInv'
  BY <1>1, <1>2, <1>5, <1>6, NowIs, OnObjectSound
<1>8. QED
  BY <1>6, <1>7 DEF OnObject, Kept

LEMMA StepSeek ==
  ASSUME FsInv, NEW s \in Slots, NEW offset \in -1 .. MaxSize, NEW from \in {"set", "cur", "end"}, seek(s, offset, from)
  PROVE  FsInv'
<1>1. IsFile(s)
  BY DEF seek
<1>2. PICK f : f = lfs[ObjectOf(s)] /\ f \in Object /\ f.kind = "file" /\ f.size <= MaxSize
  BY <1>1, OpenObject DEF IsFile
<1>3. PICK base : base = CASE from = "set" -> 0 [] from = "cur" -> f.pos [] from = "end" -> f.size
  OBVIOUS
<1>4. base + offset \in Nat /\ OnObject(s, [f EXCEPT !.pos = base + offset], disk)
  BY <1>2, <1>3, FsAssumption DEF seek
<1>5. PICK y : y = [f EXCEPT !.pos = base + offset]
  OBVIOUS
<1>6. y \in Object /\ y.kind = "file" /\ y.name = f.name /\ y.size = f.size
  BY <1>2, <1>4, <1>5 DEF Object
<1>7. QED
  BY <1>1, <1>2, <1>4, <1>5, <1>6, NowIs, OnObjectSound

-----------------------------------------------------------------------------
(* Listing a directory *)

\* What a directory that is listed by s has: its handle, its object and the two positions.
IsListed(s, h, o) ==
  /\ h = files[s] /\ o = ObjectOf(s) /\ h \in Handles /\ o \in Objects /\ o # Null
  /\ heap[h] # Null /\ heap[h] \in Handle /\ heap[h].type = "dir" /\ heap[h].object = o
  /\ lfs[o] # Null /\ lfs[o] \in Object /\ lfs[o].kind = "dir"
  /\ heap[h].dirPosition \in Nat /\ lfs[o].pos \in Nat /\ heap[h].dirPosition <= lfs[o].pos

LEMMA Listed ==
  ASSUME FsInv, NEW s \in Slots, IsOpenDir(s)
  PROVE  \E h, o : IsListed(s, h, o)
<1>1. PICK h, o : h = files[s] /\ o = ObjectOf(s)
  OBVIOUS
<1>2. IsListed(s, h, o)
  BY <1>1, OpenObject DEF IsOpenDir, IsListed, ObjectOf, Object, Handle
<1>3. QED
  BY <1>2

\* A directory that has moved on to n, and counts c entries.
LEMMA MovedNow ==
  ASSUME FsInv, NEW s \in Slots, NEW h, NEW o, IsListed(s, h, o), NEW n \in Nat, NEW c \in Nat, c <= n,
         NEW st, st = Moved(Now, h, o, n, c)
  PROVE  Sound(st, Refs(files)) /\ Untouched(st) /\ st.disk = disk /\ st.lfs \in Tables
<1>1. Sound(st, Refs(files))
  BY NowIs, MovedSound DEF IsListed
<1>2. st.lfs = [lfs EXCEPT ![o] = [@ EXCEPT !.pos = n]] /\ st.disk = disk
  BY NowIs DEF Moved
<1>3. PICK y : y = [lfs[o] EXCEPT !.pos = n] /\ y.name = lfs[o].name /\ y.dirty = lfs[o].dirty /\ y.linked = lfs[o].linked
  <2>1. PICK y : y = [lfs[o] EXCEPT !.pos = n]
    OBVIOUS
  <2>2. y.name = lfs[o].name /\ y.dirty = lfs[o].dirty /\ y.linked = lfs[o].linked
    BY <2>1 DEF IsListed, Object
  <2>3. QED
    BY <2>1, <2>2
<1>4. \A p \in Objects : st.lfs[p] = IF p = o THEN y ELSE lfs[p]
  BY <1>2, <1>3, NowIs DEF Tables
<1>5. Untouched(st)
  BY <1>2, <1>3, <1>4 DEF Untouched, IsListed
<1>6. QED
  BY <1>1, <1>2, <1>5, FieldsOf DEF Sound

\* The two ways a call moves a directory, as Moved.
LEMMA MovesAre ==
  ASSUME FsInv, NEW s \in Slots, NEW h, NEW o, IsListed(s, h, o), NEW n
  PROVE  /\ [Now EXCEPT !.lfs[o].pos = n] = Moved(Now, h, o, n, heap[h].dirPosition)
         /\ [Now EXCEPT !.lfs[o].pos = n, !.heap[h].dirPosition = @ + 1] = Moved(Now, h, o, n, heap[h].dirPosition + 1)
         /\ [[Now EXCEPT !.lfs[o].pos = n] EXCEPT !.heap[h].dirPosition = @ + 1] = Moved(Now, h, o, n, heap[h].dirPosition + 1)
<1>1. PICK y : y = [lfs[o] EXCEPT !.pos = n]
  OBVIOUS
<1>2. [Now EXCEPT !.lfs[o].pos = n] = [heap |-> heap, lfs |-> [lfs EXCEPT ![o] = y], disk |-> disk]
  BY <1>1 DEF Now, IsListed
<1>3. [heap EXCEPT ![h] = [@ EXCEPT !.dirPosition = heap[h].dirPosition]] = heap
  <2>1. [heap[h] EXCEPT !.dirPosition = heap[h].dirPosition] = heap[h]
    BY DEF IsListed, Handle
  <2>2. QED
    BY <2>1, NowIs DEF Heaps
<1>4. Moved(Now, h, o, n, heap[h].dirPosition) = [heap |-> heap, lfs |-> [lfs EXCEPT ![o] = y], disk |-> disk]
  BY <1>1, <1>3, NowIs DEF Moved
<1>5. PICK x : x = [heap[h] EXCEPT !.dirPosition = @ + 1] /\ x = [heap[h] EXCEPT !.dirPosition = heap[h].dirPosition + 1]
  BY DEF IsListed, Handle
<1>6. Moved(Now, h, o, n, heap[h].dirPosition + 1)
        = [heap |-> [heap EXCEPT ![h] = x], lfs |-> [lfs EXCEPT ![o] = y], disk |-> disk]
  BY <1>1, <1>5, NowIs DEF Moved
<1>7. [[Now EXCEPT !.lfs[o].pos = n] EXCEPT !.heap[h].dirPosition = @ + 1]
        = [heap |-> [heap EXCEPT ![h] = x], lfs |-> [lfs EXCEPT ![o] = y], disk |-> disk]
  <2>1. PICK at : at = [heap |-> heap, lfs |-> [lfs EXCEPT ![o] = y], disk |-> disk]
    OBVIOUS
  <2>2. [at EXCEPT !.heap[h].dirPosition = @ + 1] = [heap |-> [heap EXCEPT ![h] = x], lfs |-> [lfs EXCEPT ![o] = y], disk |-> disk]
    BY <1>5, <2>1
  <2>3. QED
    BY <1>2, <2>1, <2>2
<1>8. [Now EXCEPT !.lfs[o].pos = n, !.heap[h].dirPosition = @ + 1]
        = [[Now EXCEPT !.lfs[o].pos = n] EXCEPT !.heap[h].dirPosition = @ + 1]
  OBVIOUS
<1>9. QED
  BY <1>2, <1>4, <1>6, <1>7, <1>8

\* The end of a listing is not before its cursor.
LEMMA EndOfListing ==
  ASSUME NEW dir, NEW d, NEW p \in Nat
  PROVE  Max({p} \cup ListedBy(dir, d)) \in Nat /\ p <= Max({p} \cup ListedBy(dir, d))
<1>1. PICK top \in Nat : top = IF p >= NameCount THEN p ELSE NameCount
  BY FsAssumption
<1>2. PICK S : S = {p} \cup ListedBy(dir, d) /\ p \in S /\ S \subseteq 0 .. top
  <2>1. ListedBy(dir, d) \subseteq 1 .. NameCount
    BY DEF ListedBy, Names
  <2>2. NameCount \in Nat /\ top >= p /\ top >= NameCount
    BY <1>1, FsAssumption
  <2>3. p \in 0 .. top /\ 1 .. NameCount \subseteq 0 .. top
    BY <1>1, <2>2
  <2>4. QED
    BY <2>1, <2>3
<1>3. Max(S) \in S /\ \A x \in S : x <= Max(S)
  BY <1>2, LargestOf
<1>4. QED
  BY <1>1, <1>2, <1>3

LEMMA StepOpenNextFile ==
  ASSUME FsInv, NEW s \in Slots, NEW t \in Slots, NEW mode \in Modes \cup {"r"}, openNextFile(s, t, mode)
  PROVE  FsInv' /\ (mode = "r" => Kept)
<1>1. PICK h, o : IsListed(s, h, o)
  BY Listed DEF openNextFile
<1>2. h = files[s] /\ o = ObjectOf(s) /\ heap[h].dirPosition \in Nat /\ lfs[o].pos \in Nat /\ heap[h].dirPosition <= lfs[o].pos
  BY <1>1 DEF IsListed
<1>3. ready' = ready /\ initialized' = initialized
  BY DEF openNextFile
<1> DEFINE at(n) == [Now EXCEPT !.lfs[o].pos = n]
           counted(n) == [at(n) EXCEPT !.heap[h].dirPosition = @ + 1]
<1>4. ASSUME NEW n \in ListedBy(lfs[o], disk), NEW r \in openHandleFromUserPath(counted(n), n, mode),
             r.handle # Null, Becomes(AssignTemporary(r.st, t, r.handle)), files' = [files EXCEPT ![t] = r.handle]
      PROVE  FsInv' /\ (mode = "r" => Kept)
  <2>1. n \in Names /\ n \in Nat /\ n > lfs[o].pos
    BY <1>2 DEF ListedBy, Names
  <2>2. heap[h].dirPosition + 1 \in Nat /\ heap[h].dirPosition + 1 <= n
    BY <1>2, <2>1
  <2>3. PICK st : st = counted(n) /\ st = Moved(Now, h, o, n, heap[h].dirPosition + 1)
    BY <1>1, MovesAre
  <2>4. Sound(st, Refs(files)) /\ Untouched(st) /\ st.lfs \in Tables
    BY <1>1, <2>1, <2>2, <2>3, MovedNow
  <2>5. r.handle \in Places /\ Sound(r.st, Plus(Refs(files), r.handle)) /\ OpensOf(st, r.st, mode)
    BY <1>4, <2>1, <2>3, <2>4, OpenSound
  <2>6. PICK new : new = AssignTemporary(r.st, t, r.handle) /\ Becomes(new)
    BY <1>4
  <2>7. Sound(new, Refs(files')) /\ Closes(r.st, new)
    BY <1>4, <2>5, <2>6, NowIs, AssignSound
  <2>8. files' \in [Slots -> Places]
    BY <1>4, <2>5, NowIs
  <2>9. FsInv'
    BY <1>3, <2>6, <2>7, <2>8, BecomesSound DEF FsInv
  <2>10. ASSUME mode = "r" PROVE Kept
    <3>1. Untouched(r.st)
      BY <2>4, <2>5, <2>10, OpeningUntouched
    <3>2. r.st.lfs \in Tables
      BY <2>5, FieldsOf DEF Sound
    <3>3. QED
      BY <2>6, <2>7, <3>1, <3>2, NowIs, ClosingKeeps
  <2>11. QED
    BY <2>9, <2>10
<1>5. ASSUME Becomes(AssignTemporary(at(Max({lfs[o].pos} \cup ListedBy(lfs[o], disk))), t, Null)), files' = [files EXCEPT ![t] = Null]
      PROVE  FsInv' /\ Kept
  <2>1. PICK n : n = Max({lfs[o].pos} \cup ListedBy(lfs[o], disk)) /\ n \in Nat /\ lfs[o].pos <= n
    BY <1>2, EndOfListing
  <2>2. heap[h].dirPosition <= n
    BY <1>2, <2>1
  <2>3. PICK st : st = at(n) /\ st = Moved(Now, h, o, n, heap[h].dirPosition)
    BY <1>1, MovesAre
  <2>4. Sound(st, Refs(files)) /\ Untouched(st) /\ st.lfs \in Tables
    <3>1. PICK c \in Nat : c = heap[h].dirPosition /\ c <= n
      BY <1>2, <2>2
    <3>2. st = Moved(Now, h, o, n, c) /\ n \in Nat
      BY <2>1, <2>3, <3>1
    <3> HIDE DEF at, counted
    <3>3. QED
      BY <1>1, <3>1, <3>2, MovedNow
  <2>5. PICK new : new = AssignTemporary(st, t, Null) /\ Becomes(new)
    BY <1>5, <2>1, <2>3
  <2>6. Null \in Places /\ Sound(st, Plus(Refs(files), Null))
    BY <2>4 DEF Plus, Places
  <2>7. Sound(new, Refs(files')) /\ Closes(st, new)
    BY <1>5, <2>5, <2>6, NowIs, AssignSound
  <2>8. files' \in [Slots -> Places]
    BY <1>5, <2>6, NowIs
  <2>9. QED
    BY <1>3, <2>4, <2>5, <2>7, <2>8, NowIs, BecomesSound, ClosingKeeps DEF FsInv
<1>6. QED
  BY <1>2, <1>4, <1>5 DEF openNextFile

LEMMA StepGetNextFileName ==
  ASSUME FsInv, NEW s \in Slots, getNextFileName(s)
  PROVE  FsInv' /\ Kept
<1>1. PICK h, o : IsListed(s, h, o)
  BY Listed DEF getNextFileName
<1>2. h = files[s] /\ o = ObjectOf(s) /\ heap[h].dirPosition \in Nat /\ lfs[o].pos \in Nat /\ heap[h].dirPosition <= lfs[o].pos
  BY <1>1 DEF IsListed
<1>3. files' = files /\ files' \in [Slots -> Places] /\ ready' \in BOOLEAN /\ initialized' \in BOOLEAN
  BY NowIs DEF getNextFileName, FsInv
<1>4. ASSUME NEW n \in ListedBy(lfs[o], disk),
             NEW r \in openHandleFromUserPath([Now EXCEPT !.lfs[o].pos = n, !.heap[h].dirPosition = @ + 1], n, "r"),
             r.handle # Null, Becomes(release(r.st, r.handle))
      PROVE  FsInv' /\ Kept
  <2>1. n \in Names /\ n \in Nat /\ n > lfs[o].pos
    BY <1>2 DEF ListedBy, Names
  <2>2. heap[h].dirPosition + 1 \in Nat /\ heap[h].dirPosition + 1 <= n
    BY <1>2, <2>1
  <2>3. PICK st : /\ st = [Now EXCEPT !.lfs[o].pos = n, !.heap[h].dirPosition = @ + 1]
                  /\ st = Moved(Now, h, o, n, heap[h].dirPosition + 1)
    BY <1>1, MovesAre
  <2>4. Sound(st, Refs(files)) /\ Untouched(st) /\ st.lfs \in Tables
    BY <1>1, <2>1, <2>2, <2>3, MovedNow
  <2>5. PICK mode : mode = "r" /\ mode \in Modes \cup {"r"} /\ r \in openHandleFromUserPath(st, n, mode)
    BY <1>4, <2>3
  <2>6. r.handle \in Places /\ Sound(r.st, Plus(Refs(files), r.handle)) /\ OpensOf(st, r.st, mode)
    BY <1>4, <2>1, <2>4, <2>5, OpenSound
  <2>7. PICK refs : refs = Refs(files) /\ refs \in [Handles -> Nat] /\ r.handle \in Handles
    BY <1>4, <2>6, NowIs DEF Places
  <2>8. Plus(refs, r.handle)[r.handle] > 0 /\ Minus(Plus(refs, r.handle), r.handle) = refs
    <3>1. PICK k \in Handles : k = r.handle /\ k # Null
      BY <1>4, <2>7
    <3>2. PICK more : more = Plus(refs, k) /\ more = [refs EXCEPT ![k] = @ + 1]
      BY <3>1 DEF Plus
    <3>3. refs[k] \in Nat /\ more[k] = refs[k] + 1 /\ more[k] - 1 = refs[k]
      BY <2>7, <3>2
    <3>4. Minus(more, k) = [more EXCEPT ![k] = refs[k]]
      <4>1. Minus(more, k) = [more EXCEPT ![k] = more[k] - 1]
        BY <3>1 DEF Minus
      <4>2. QED
        BY <3>3, <4>1
    <3>5. [more EXCEPT ![k] = refs[k]] = refs
      BY <2>7, <3>2
    <3>6. QED
      BY <3>1, <3>2, <3>3, <3>4, <3>5
  <2>9. PICK new : new = release(r.st, r.handle) /\ Becomes(new) /\ Sound(new, refs) /\ Closes(r.st, new)
    BY <1>4, <2>6, <2>7, <2>8, ReleaseSound
  <2>10. Untouched(r.st) /\ r.st.lfs \in Tables
    BY <2>4, <2>5, <2>6, OpeningUntouched, FieldsOf DEF Sound
  <2>11. QED
    BY <1>3, <2>7, <2>9, <2>10, NowIs, BecomesSound, ClosingKeeps
<1>5. ASSUME Becomes([Now EXCEPT !.lfs[o].pos = Max({@} \cup ListedBy(lfs[o], disk))])
      PROVE  FsInv' /\ Kept
  <2>1. PICK n : n = Max({lfs[o].pos} \cup ListedBy(lfs[o], disk)) /\ n \in Nat /\ lfs[o].pos <= n
    BY <1>2, EndOfListing
  <2>2. heap[h].dirPosition <= n
    BY <1>2, <2>1
  <2>3. PICK st : st = [Now EXCEPT !.lfs[o].pos = n] /\ st = Moved(Now, h, o, n, heap[h].dirPosition)
    BY <1>1, MovesAre
  <2>4. Sound(st, Refs(files)) /\ st.disk = disk
    <3>1. PICK c \in Nat : c = heap[h].dirPosition /\ c <= n
      BY <1>2, <2>2
    <3>2. st = Moved(Now, h, o, n, c) /\ n \in Nat
      BY <2>1, <2>3, <3>1
    <3>3. QED
      BY <1>1, <3>1, <3>2, MovedNow
  <2>5. Becomes(st)
    BY <1>5, <2>1, <2>3 DEF Now
  <2>6. QED
    BY <1>3, <2>4, <2>5, BecomesSound DEF Becomes, Kept
<1>6. QED
  BY <1>2, <1>4, <1>5 DEF getNextFileName

\* A directory that is opened again.
LEMMA Reopened ==
  ASSUME FsInv, NEW s \in Slots, CanReopen(s), NEW h, h = files[s], NEW o, o = CHOOSE x \in FreeIn(lfs) : TRUE,
         NEW st, st = reopenDirectory(Now, h, o)
  PROVE  /\ Sound(st, Refs(files)) /\ st.disk = disk /\ h \in Handles /\ o \in Objects
         /\ st.heap[h] # Null /\ st.heap[h].type = "dir" /\ st.heap[h].object = o /\ st.lfs[o] # Null
<1>1. o \in FreeIn(lfs)
  BY DEF CanReopen
<1>2. o \in Objects /\ lfs[o] = Null
  BY <1>1, NowIs DEF FreeIn, Tables
<1>3. PICK a : IsListed(s, h, a)
  BY Listed DEF CanReopen, IsListed
<1>4. QED
  BY <1>2, <1>3, NowIs, ReopenSound DEF IsListed

LEMMA StepRewindDirectory ==
  ASSUME FsInv, NEW s \in Slots, rewindDirectory(s)
  PROVE  FsInv' /\ Kept
<1>1. PICK h, o : h = files[s] /\ o = CHOOSE x \in FreeIn(lfs) : TRUE
  OBVIOUS
<1>2. PICK st : st = reopenDirectory(Now, h, o)
  OBVIOUS
<1>3. CanReopen(s) /\ Becomes(st)
  BY <1>1, <1>2 DEF rewindDirectory
<1>4. Sound(st, Refs(files)) /\ st.disk = disk
  BY ONLY FsInv, s \in Slots, <1>1, <1>2, <1>3, Reopened
<1>5. QED
  BY <1>3, <1>4, NowIs, BecomesSound DEF rewindDirectory, FsInv, Becomes, Kept

LEMMA StepSeekDir ==
  ASSUME FsInv, NEW s \in Slots, NEW position \in 0 .. NameCount, seekDir(s, position)
  PROVE  FsInv' /\ Kept
<1>0. PICK h, o : h = files[s] /\ o = CHOOSE x \in FreeIn(lfs) : TRUE
  OBVIOUS
<1>01. PICK first : first = reopenDirectory(Now, h, o)
  OBVIOUS
<1>02. CanReopen(s)
  BY DEF seekDir
<1>1. /\ Sound(first, Refs(files)) /\ first.disk = disk /\ h \in Handles /\ o \in Objects
      /\ first.heap[h] # Null /\ first.heap[h].type = "dir" /\ first.heap[h].object = o /\ first.lfs[o] # Null
  BY ONLY FsInv, s \in Slots, <1>0, <1>01, <1>02, Reopened
<1> DEFINE landed(n, p) == [first EXCEPT !.lfs[o].pos = n, !.heap[h].dirPosition = p]
           listed == ListedBy(first.lfs[o], disk)
<1>2. PICK opened \in SUBSET listed :
        \/ Cardinality(opened) = position /\ Becomes(landed(Max(opened \cup {0}), position))
        \/ Cardinality(opened) < position /\ Becomes(landed(Max(listed \cup {0}), Cardinality(opened)))
  BY <1>0, <1>01, <1>1 DEF seekDir
<1>3. listed \subseteq 1 .. NameCount /\ NameCount \in Nat
  BY FsAssumption DEF ListedBy, Names
<1>4. PICK n, c : n \in Nat /\ c \in Nat /\ c <= n /\ Becomes(landed(n, c))
  <2> HIDE DEF listed, landed
  <2>1. (opened \cup {0}) \ {0} = opened /\ opened \cup {0} \subseteq 0 .. NameCount /\ listed \cup {0} \subseteq 0 .. NameCount
    BY <1>2, <1>3
  <2>2. PICK most : most = Max(opened \cup {0}) /\ most \in 0 .. NameCount /\ Cardinality(opened) \in 0 .. most
    BY <1>3, <2>1, LargestOf
  <2>3. PICK end1 : end1 = Max(listed \cup {0}) /\ end1 \in 0 .. NameCount /\ \A x \in listed \cup {0} : x <= end1
    <3>1. PICK S : S = listed \cup {0} /\ S \subseteq 0 .. NameCount /\ S # {}
      BY <2>1
    <3>2. Max(S) \in S /\ \A x \in S : x <= Max(S)
      BY ONLY <1>3, <3>1, LargestOf
    <3>3. QED
      BY <3>1, <3>2
  <2>4. most \in listed \cup {0}
    BY <1>2, <1>3, <2>1, <2>2, LargestOf
  <2>5. most <= end1
    BY <2>3, <2>4
  <2>6. QED
    BY <1>2, <2>2, <2>3, <2>5
<1>5. PICK st : st = landed(n, c)
  OBVIOUS
<1>6. st = Moved(first, h, o, n, c)
  <2>1. first \in States /\ first.heap[h] \in Handle /\ first.lfs[o] \in Object
    BY <1>1, FieldsOf DEF Sound, Heaps, Tables
  <2>2. QED
    BY <1>1, <1>5, <2>1, FieldsOf DEF Moved, States
<1>7. Sound(st, Refs(files)) /\ st.disk = disk
  BY <1>1, <1>4, <1>6, MovedSound DEF Moved
<1>8. QED
  BY <1>4, <1>5, <1>7, NowIs, BecomesSound DEF seekDir, FsInv, Becomes, Kept

-----------------------------------------------------------------------------
(* Paths, the format and the mount *)

\* What only unlinks objects, whatever the disk becomes.
LEMMA OrphanSound ==
  ASSUME FsInv, NEW names, lfs' = Orphan(names), disk' \in Disks, heap' = heap, files' = files,
         ready' \in BOOLEAN, initialized' \in BOOLEAN
  PROVE  FsInv'
<1>1. PICK table : table = Orphan(names)
  OBVIOUS
<1>2. ASSUME NEW o \in Objects
      PROVE  /\ table[o] \in Object \cup {Null} /\ (table[o] = Null <=> lfs[o] = Null)
             /\ lfs[o] # Null => /\ table[o].kind = lfs[o].kind /\ table[o].name = lfs[o].name
                                /\ table[o].size = lfs[o].size /\ table[o].pos = lfs[o].pos
  <2>1. lfs[o] # Null => lfs[o] \in Object
    BY NowIs DEF Tables
  <2>2. PICK y : y = [lfs[o] EXCEPT !.linked = FALSE]
    OBVIOUS
  <2>3. lfs[o] # Null => /\ y \in Object /\ y # Null /\ y.kind = lfs[o].kind /\ y.name = lfs[o].name
                        /\ y.size = lfs[o].size /\ y.pos = lfs[o].pos
    <3>1. SUFFICES ASSUME lfs[o] # Null
                   PROVE  /\ y \in Object /\ y # Null /\ y.kind = lfs[o].kind /\ y.name = lfs[o].name
                          /\ y.size = lfs[o].size /\ y.pos = lfs[o].pos
      OBVIOUS
    <3>2. PICK f \in Object : f = lfs[o]
      BY <2>1, <3>1
    <3>3. PICK no : no = FALSE /\ no \in BOOLEAN
      OBVIOUS
    <3>4. y = [f EXCEPT !.linked = no]
      BY <2>2, <3>2, <3>3
    <3>5. y \in Object /\ y.kind = f.kind /\ y.name = f.name /\ y.size = f.size /\ y.pos = f.pos
      BY <3>3, <3>4 DEF Object
    <3>6. QED
      BY <3>2, <3>5, FsAssumption
  <2>4. table[o] = IF lfs[o] # Null /\ lfs[o].name \in names THEN y ELSE lfs[o]
    BY <1>1, <2>2 DEF Orphan
  <2>5. QED
    BY <2>1, <2>3, <2>4
<1>3. PICK new : new = [heap |-> heap, lfs |-> table, disk |-> disk']
  OBVIOUS
<1>4. new \in States /\ new.heap = heap /\ new.lfs = table
  <2>1. table = [o \in Objects |-> table[o]]
    BY <1>1 DEF Orphan
  <2>2. table \in Tables
    BY <1>2, <2>1 DEF Tables
  <2>3. QED
    BY <1>3, <2>2, NowIs DEF States
<1>5. SameHandles(Now, new)
  <2>1. \A j \in Handles : heap[j] # Null /\ heap[j].type = "dir" /\ heap[j].object # Null =>
          heap[j].object \in Objects /\ lfs[heap[j].object] # Null
    BY NowIs DEF Sound, HandleSound, Heaps, Handle
  <2>2. QED
    BY <1>2, <1>4, <2>1, NowIs DEF SameHandles
<1>6. SameObjects(Now, new)
  BY <1>2, <1>4, NowIs DEF SameObjects
<1>7. Sound(new, Refs(files))
  BY <1>4, <1>5, <1>6, NowIs, ChangedSound
<1>8. Becomes(new)
  BY <1>1, <1>3 DEF Becomes
<1>9. QED
  BY <1>7, <1>8, NowIs, BecomesSound

\* What leaves handles, objects and the disk alone.
LEMMA NothingMoves ==
  ASSUME FsInv, UNCHANGED <<files, heap, lfs, disk>>, ready' \in BOOLEAN, initialized' \in BOOLEAN
  PROVE  FsInv' /\ Kept
<1>1. Becomes(Now) /\ files' = files
  BY DEF Becomes, Now
<1>2. FsInv'
  BY <1>1, NowIs, BecomesSound
<1>3. QED
  BY <1>2 DEF Kept

LEMMA StepPathOp ==
  ASSUME FsInv, NEW d \in Disks, NEW names, PathOp(d, names)
  PROVE  FsInv'
  BY OrphanSound DEF PathOp, FsInv

LEMMA StepRemove ==
  ASSUME FsInv, NEW n \in Names, remove(n)
  PROVE  FsInv'
<1>1. PICK d : d = [disk EXCEPT ![n] = Absent] /\ PathOp(d, {n})
  BY DEF remove
<1>2. d \in Disks
  BY <1>1, NowIs, FsAssumption DEF Disks, Absent
<1>3. QED
  BY <1>1, <1>2, StepPathOp

LEMMA StepRename ==
  ASSUME FsInv, NEW n \in Names, NEW to \in Names, rename(n, to)
  PROVE  FsInv'
<1>1. PICK d : d = [disk EXCEPT ![n] = Absent, ![to] = disk[n]] /\ PathOp(d, {n, to})
  BY DEF rename
<1>2. d \in Disks
  BY <1>1, NowIs, FsAssumption DEF Disks, Absent
<1>3. QED
  BY <1>1, <1>2, StepPathOp

LEMMA StepMkdir ==
  ASSUME FsInv, NEW n \in Names, mkdir(n)
  PROVE  FsInv'
<1>1. PICK d : d = [disk EXCEPT ![n] = Directory] /\ PathOp(d, {})
  BY DEF mkdir
<1>2. d \in Disks
  BY <1>1, NowIs, FsAssumption DEF Disks, Absent, Directory
<1>3. QED
  BY <1>1, <1>2, StepPathOp

LEMMA StepErased ==
  ASSUME FsInv, Erased, UNCHANGED <<files, heap>>, ready' \in BOOLEAN
  PROVE  FsInv'
<1>1. lfs' = Orphan(Names) /\ disk' = [n \in Names |-> Absent] /\ initialized' = TRUE
  BY DEF Erased
<1>2. disk' \in Disks
  BY <1>1, FsAssumption DEF Disks, Absent
<1>3. QED
  BY <1>1, <1>2, OrphanSound

LEMMA StepBegin ==
  ASSUME FsInv, NEW formatOnFail \in BOOLEAN, begin(formatOnFail)
  PROVE  FsInv' /\ (~formatOnFail => Kept)
<1>1. UNCHANGED <<files, heap>> /\ ready' \in BOOLEAN
  BY DEF begin
<1>2. CASE formatOnFail /\ Erased
  BY <1>1, <1>2, StepErased
<1>3. CASE UNCHANGED <<lfs, disk>> /\ initialized' \in BOOLEAN
  BY <1>1, <1>3, NothingMoves
<1>4. QED
  BY <1>2, <1>3 DEF begin, FsInv

LEMMA InitEstablishes == Init => FsInv
<1> SUFFICES ASSUME Init PROVE FsInv
  OBVIOUS
<1>1. files \in [Slots -> Places] /\ Refs(files) \in [Handles -> Nat]
  <2>1. files \in [Slots -> Places]
    BY DEF Init, Places
  <2>2. QED
    BY <2>1, RefsCount
<1>2. ASSUME NEW h \in Handles PROVE Refs(files)[h] = 0
  <2>1. {s \in Slots : files[s] = h} = {}
    BY FsAssumption DEF Init
  <2>2. QED
    BY <2>1, FS_EmptySet DEF Refs
<1>3. /\ Now.heap = [h \in Handles |-> Null] /\ Now.lfs = [o \in Objects |-> Null]
      /\ Now = [heap |-> heap, lfs |-> lfs, disk |-> disk]
  BY DEF Init, Now
<1>4. heap \in Heaps /\ lfs \in Tables
  BY DEF Init, Heaps, Tables
<1>5. disk \in Disks
  BY FsAssumption DEF Init, Disks, Absent, Directory
<1>6. Now \in States
  BY <1>3, <1>4, <1>5 DEF States
<1>7. \A h \in Handles : HandleSound(Now, Refs(files), h)
  BY <1>2, <1>3 DEF HandleSound
<1>8. \A o \in Objects : ObjectSound(Now, o)
  BY <1>3 DEF ObjectSound
<1>9. QED
  BY <1>1, <1>6, <1>7, <1>8 DEF FsInv, Sound, Init

LEMMA NextPreserves == FsInv /\ [Next]_vars => FsInv'
<1> SUFFICES ASSUME FsInv, [Next]_vars PROVE FsInv'
  OBVIOUS
<1>1. CASE UNCHANGED vars
  BY <1>1, NothingMoves DEF vars, FsInv
<1>2. CASE \E s \in Slots, n \in Names \cup {Root}, mode \in Modes : open(s, n, mode)
  BY <1>2, StepOpen
<1>3. CASE \E s \in Slots, t \in Slots : copy(s, t)
  BY <1>3, StepCopy
<1>4. CASE \E s \in Slots : destroy(s)
  BY <1>4, StepDestroy
<1>5. CASE \E s \in Slots : close(s)
  BY <1>5, StepClose
<1>6. CASE \E s \in Slots, count \in 1 .. MaxSize : write(s, count)
  BY <1>6, StepWrite
<1>7. CASE \E s \in Slots, count \in 1 .. MaxSize : read(s, count)
  BY <1>7, StepRead
<1>8. CASE \E s \in Slots : peek(s)
  BY <1>8, StepPeek
<1>9. CASE \E s \in Slots, offset \in -1 .. MaxSize, from \in {"set", "cur", "end"} : seek(s, offset, from)
  BY <1>9, StepSeek
<1>10. CASE \E s \in Slots, t \in Slots, mode \in Modes : openNextFile(s, t, mode)
  BY <1>10, StepOpenNextFile
<1>11. CASE \E s \in Slots : getNextFileName(s)
  BY <1>11, StepGetNextFileName
<1>12. CASE \E s \in Slots : rewindDirectory(s)
  BY <1>12, StepRewindDirectory
<1>13. CASE \E s \in Slots, position \in 0 .. NameCount : seekDir(s, position)
  BY <1>13, StepSeekDir
<1>14. CASE \E n \in Names : remove(n)
  BY <1>14, StepRemove
<1>15. CASE \E n \in Names, to \in Names : rename(n, to)
  BY <1>15, StepRename
<1>16. CASE \E n \in Names : mkdir(n)
  BY <1>16, StepMkdir
<1>17. CASE format
  <2>1. CASE Erased
    BY <1>17, <2>1, StepErased DEF format, FsInv
  <2>2. CASE ~Erased
    BY <1>17, <2>2, NothingMoves DEF format, FsInv
  <2>3. QED
    BY <2>1, <2>2
<1>18. CASE \E formatOnFail \in BOOLEAN : begin(formatOnFail)
  BY <1>18, StepBegin
<1>19. CASE end
  BY <1>19, NothingMoves DEF end, FsInv
<1>20. QED
  BY <1>1, <1>2, <1>3, <1>4, <1>5, <1>6, <1>7, <1>8, <1>9, <1>10, <1>11, <1>12, <1>13, <1>14,
     <1>15, <1>16, <1>17, <1>18, <1>19 DEF Next

LEMMA FsInvHolds == Spec => []FsInv
  BY InitEstablishes, NextPreserves, PTL DEF Spec

(* Copies, assignments, temporaries and closes keep every handle with the   *)
(* count of the File objects that name it, no File names a freed handle,    *)
(* every open littlefs object is held by exactly one handle, and directory  *)
(* positions follow their cursors, for any number of them and of names.     *)
THEOREM HandlesAreCounted == Spec => []HandleInv
  BY FsInvHolds, FsInvImpliesHandleInv, PTL

(* Opening for reading, listing, seeking, peeking and mounting change no    *)
(* file, except that the File assigned to may have been the last one of a   *)
(* file that was truncated and not stored yet.                              *)
THEOREM ReadingOnlyReads == Spec => ReadingKeepsStorage
<1>1. ASSUME FsInv, [Next]_vars
      PROVE  [Reading => \A n \in Names : disk'[n] # disk[n] =>
                \E o \in Objects : /\ lfs[o] # Null /\ lfs'[o] = Null
                                   /\ lfs[o].name = n /\ lfs[o].dirty /\ lfs[o].linked]_vars
  <2>1. Reading => Kept
    <3>1. SUFFICES ASSUME Reading PROVE Kept
      OBVIOUS
    <3>2. CASE \E s \in Slots, n \in Names \cup {Root} : open(s, n, "r")
      <4>1. PICK mode : mode = "r" /\ mode \in Modes \cup {"r"} /\ \E s \in Slots, n \in Names \cup {Root} : open(s, n, mode)
        BY <3>2
      <4>2. QED
        BY <1>1, <4>1, StepOpen
    <3>3. CASE \E s \in Slots, t \in Slots : openNextFile(s, t, "r")
      <4>1. PICK mode : mode = "r" /\ mode \in Modes \cup {"r"} /\ \E s \in Slots, t \in Slots : openNextFile(s, t, mode)
        BY <3>3
      <4>2. QED
        BY <1>1, <4>1, StepOpenNextFile
    <3>4. CASE \E s \in Slots : getNextFileName(s) \/ rewindDirectory(s) \/ peek(s)
      BY <1>1, <3>4, StepGetNextFileName, StepRewindDirectory, StepPeek
    <3>5. CASE \E s \in Slots, p \in 0 .. NameCount : seekDir(s, p)
      BY <1>1, <3>5, StepSeekDir
    <3>6. CASE \E s \in Slots, count \in 1 .. MaxSize : read(s, count)
      BY <1>1, <3>6, StepRead
    <3>7. CASE begin(FALSE)
      BY <1>1, <3>7, StepBegin
    <3>8. QED
      BY <3>1, <3>2, <3>3, <3>4, <3>5, <3>6, <3>7 DEF Reading
  <2>2. QED
    BY <2>1 DEF Kept
<1>2. QED
  BY <1>1, FsInvHolds, PTL DEF Spec, ReadingKeepsStorage
=============================================================================
