------------------------------ MODULE NvmProofs ------------------------------
(***************************************************************************)
(* The stores over the NVM bridge, for every value of their constants.     *)
(* Preferences: every buffer is a map, stored as a header and its entries  *)
(* one behind the other, and what the calls make of it is what they make   *)
(* of the maps of PreferencesMap.  EEPROM, at the end: a copy that has not *)
(* lost track of its file differs from it in edited bytes only, and an     *)
(* edited copy is dirty or was changed through an old reference.           *)
(***************************************************************************)
EXTENDS PreferencesStore, MCEeprom, SequenceTheorems, WellFoundedInduction, TLAPS

-----------------------------------------------------------------------------
(* Offsets of a buffer.  Offsets is recursive: that there is a function    *)
(* with its equation is shown by induction, in the form of the least       *)
(* number that would contradict it.                                        *)

\* A non-empty set of numbers has a least one.
LEMMA LeastNumber ==
  ASSUME NEW T, T \subseteq Nat, T # {}
  PROVE  \E x \in T : \A y \in T : x <= y
<1>1. IsWellFoundedOn({p \in Nat \X Nat : p[1] < p[2]}, Nat)
  BY NatLessThanWellFounded DEF OpToRel
<1>2. PICK x \in T : \A y \in T : <<y, x>> \notin {p \in Nat \X Nat : p[1] < p[2]}
  BY <1>1, WFMin
<1>3. ASSUME NEW y \in T PROVE x <= y
  <2>1. <<y, x>> \in Nat \X Nat /\ <<y, x>>[1] = y /\ <<y, x>>[2] = x
    OBVIOUS
  <2>2. ~(y < x)
    BY <1>2, <2>1
  <2>3. QED
    BY <2>2
<1>4. QED
  BY <1>3

\* g gives the offsets of the first n entries of a buffer.
StepsByEntry(g, buffer, n) ==
  /\ g[0] = HeaderSize
  /\ \A i \in 1 .. n : g[i] = g[i - 1] + EntrySize(buffer[i])
GivesOffsets(g, buffer, n) == g \in [0 .. n -> Int] /\ StepsByEntry(g, buffer, n)

LEMMA EntrySizes == \A e \in Entries : EntrySize(e) \in Nat
  BY PreferencesAssumption DEF Entries, EntrySize, EntryHeaderSize

\* Two functions that give the offsets of a buffer give the same.
LEMMA SameOffsets ==
  ASSUME NEW buffer, NEW n \in Nat, NEW g, NEW h, StepsByEntry(g, buffer, n), StepsByEntry(h, buffer, n)
  PROVE  \A i \in 0 .. n : g[i] = h[i]
<1> DEFINE Differ == {i \in 0 .. n : g[i] # h[i]}
<1> SUFFICES ASSUME Differ # {} PROVE FALSE
  OBVIOUS
<1> USE DEF StepsByEntry
<1>1. PICK k \in Differ : \A j \in Differ : k <= j
  <2>1. Differ \subseteq Nat
    OBVIOUS
  <2> HIDE DEF Differ
  <2>2. QED
    BY <2>1, LeastNumber
<1>2. k \in 1 .. n /\ k - 1 \in 0 .. n /\ k - 1 \notin Differ
  <2>1. k \in 0 .. n /\ k # 0
    OBVIOUS
  <2> HIDE DEF Differ
  <2>2. QED
    BY <1>1, <2>1
<1>3. QED
  BY <1>2

\* Offsets(buffer) gives the offsets of a buffer, none of which is in the header.
LEMMA OffsetsDefined ==
  ASSUME NEW buffer \in Seq(Entries)
  PROVE  /\ GivesOffsets(Offsets(buffer), buffer, Len(buffer))
         /\ \A i \in 0 .. Len(buffer) : Offsets(buffer)[i] \in Nat /\ Offsets(buffer)[i] >= HeaderSize
<1> DEFINE n == Len(buffer)
           Up(g, k) == GivesOffsets(g, buffer, k) /\ \A i \in 0 .. k : g[i] \in Nat /\ g[i] >= HeaderSize
           Missing == {k \in 0 .. n : \A g : ~Up(g, k)}
<1>1. n \in Nat /\ \A i \in 1 .. n : buffer[i] \in Entries /\ EntrySize(buffer[i]) \in Nat
  BY EntrySizes, ElementOfSeq
<1>2. Up([i \in 0 .. 0 |-> HeaderSize], 0)
  BY DEF GivesOffsets, StepsByEntry, HeaderSize
<1>3. ASSUME NEW k \in 1 .. n, NEW g, Up(g, k - 1)
      PROVE  \E h : Up(h, k)
  <2> DEFINE h == [i \in 0 .. k |-> IF i = k THEN g[k - 1] + EntrySize(buffer[k]) ELSE g[i]]
  <2>1. g[k - 1] \in Nat /\ EntrySize(buffer[k]) \in Nat /\ g[k - 1] >= HeaderSize
    BY <1>1, <1>3
  <2>2. \A i \in 0 .. k : h[i] \in Nat /\ h[i] >= HeaderSize
    BY <1>3, <2>1 DEF HeaderSize
  <2>3. h \in [0 .. k -> Int]
    BY <2>2
  <2>4. h[0] = HeaderSize /\ \A i \in 1 .. k : h[i] = h[i - 1] + EntrySize(buffer[i])
    BY <1>3, <2>1 DEF GivesOffsets, StepsByEntry
  <2>5. QED
    BY <2>2, <2>3, <2>4 DEF GivesOffsets, StepsByEntry
<1>4. Missing = {}
  <2> SUFFICES ASSUME Missing # {} PROVE FALSE
    OBVIOUS
  <2>1. PICK k \in Missing : \A j \in Missing : k <= j
    <3>1. Missing \subseteq Nat
      BY <1>1
    <3> HIDE DEF Missing
    <3>2. QED
      BY <3>1, LeastNumber
  <2>2. k # 0
    BY <1>2, <2>1
  <2>3. k - 1 \notin Missing /\ k - 1 \in 0 .. n /\ k \in 1 .. n
    <3>1. k \in 0 .. n
      OBVIOUS
    <3> HIDE DEF Missing
    <3>2. QED
      BY <1>1, <2>1, <2>2, <3>1
  <2>4. PICK g : Up(g, k - 1)
    BY <2>3
  <2>5. QED
    BY <1>3, <2>1, <2>3, <2>4
<1>5. PICK g : Up(g, n)
  BY <1>1, <1>4
<1>6. g = [i \in 0 .. n |-> IF i = 0 THEN HeaderSize ELSE g[i - 1] + EntrySize(buffer[i])]
  BY <1>1, <1>5 DEF GivesOffsets, StepsByEntry
<1> DEFINE Equation(f) == f = [i \in 0 .. n |-> IF i = 0 THEN HeaderSize ELSE f[i - 1] + EntrySize(buffer[i])]
<1>7. Equation(Offsets(buffer))
  <2>1. Offsets(buffer) = CHOOSE f : Equation(f)
    BY DEF Offsets
  <2>2. Equation(g)
    BY <1>6
  <2> HIDE DEF Equation
  <2>3. QED
    BY <2>1, <2>2, Zenon
<1>8. \A i \in 0 .. n : Offsets(buffer)[i] = g[i]
  <2> DEFINE o == Offsets(buffer)
  <2>1. o = [i \in 0 .. n |-> IF i = 0 THEN HeaderSize ELSE o[i - 1] + EntrySize(buffer[i])]
    BY <1>7
  <2> HIDE DEF o
  <2>2. \A i \in 0 .. n : o[i] = IF i = 0 THEN HeaderSize ELSE o[i - 1] + EntrySize(buffer[i])
    BY ONLY <2>1, Zenon
  <2>3. 0 \in 0 .. n /\ \A i \in 1 .. n : i \in 0 .. n /\ i # 0
    BY <1>1
  <2>4. StepsByEntry(o, buffer, n)
    BY <2>2, <2>3, Zenon DEF StepsByEntry
  <2>5. StepsByEntry(g, buffer, n)
    BY <1>5 DEF GivesOffsets
  <2>6. n \in Nat
    BY <1>1
  <2>7. \A i \in 0 .. n : o[i] = g[i]
    BY <2>4, <2>5, <2>6, SameOffsets
  <2>8. QED
    BY <2>7 DEF o
<1>9. Offsets(buffer) = g
  BY <1>5, <1>7, <1>8 DEF GivesOffsets, StepsByEntry
<1>10. QED
  BY <1>5, <1>9

\* Where the next entry is appended to a buffer: what used_ should be.
Size(buffer) == Offsets(buffer)[Len(buffer)]

LEMMA SizeIs ==
  ASSUME NEW buffer \in Seq(Entries), NEW n, n = Len(buffer), NEW g, GivesOffsets(g, buffer, n)
  PROVE  Size(buffer) = g[n]
<1>1. n \in Nat
  OBVIOUS
<1>2. PICK o : o = Offsets(buffer) /\ GivesOffsets(o, buffer, n)
  BY OffsetsDefined
<1>3. StepsByEntry(o, buffer, n) /\ StepsByEntry(g, buffer, n)
  BY <1>2 DEF GivesOffsets
<1>4. \A i \in 0 .. n : o[i] = g[i]
  BY <1>1, <1>3, SameOffsets
<1>5. QED
  BY <1>1, <1>2, <1>4 DEF Size

LEMMA SizeOfNone == Size(<<>>) = HeaderSize
<1>1. <<>> \in Seq(Entries) /\ Len(<<>>) = 0
  BY EmptySeq
<1>2. QED
  BY <1>1, OffsetsDefined DEF GivesOffsets, StepsByEntry, Size

\* An entry that is appended begins where the buffer ended.
LEMMA SizeOfAppend ==
  ASSUME NEW buffer \in Seq(Entries), NEW e \in Entries
  PROVE  Size(Append(buffer, e)) = Size(buffer) + EntrySize(e)
<1> DEFINE n == Len(buffer)
           o == Offsets(buffer)
           g == [i \in 0 .. n + 1 |-> IF i <= n THEN o[i] ELSE o[n] + EntrySize(e)]
<1>1. PICK longer \in Seq(Entries) : longer = Append(buffer, e)
  BY AppendProperties
<1>2. /\ n \in Nat /\ Len(longer) = n + 1 /\ longer[n + 1] = e
      /\ \A i \in 1 .. n : longer[i] = buffer[i]
  BY <1>1, AppendProperties
<1>3. GivesOffsets(o, buffer, n) /\ EntrySize(e) \in Nat
  BY OffsetsDefined, EntrySizes
<1> HIDE DEF n, o
<1>4. g \in [0 .. n + 1 -> Int] /\ g[0] = HeaderSize
  BY <1>2, <1>3 DEF GivesOffsets, StepsByEntry
<1>5. ASSUME NEW i \in 1 .. n + 1 PROVE g[i] = g[i - 1] + EntrySize(longer[i])
  <2>1. CASE i <= n
    BY <1>2, <1>3, <2>1 DEF GivesOffsets, StepsByEntry
  <2>2. CASE i = n + 1
    BY <1>2, <2>2
  <2>3. QED
    BY <1>2, <2>1, <2>2
<1>6. GivesOffsets(g, longer, n + 1) /\ g[n + 1] = o[n] + EntrySize(e)
  <2>1. g[n + 1] = o[n] + EntrySize(e)
    BY <1>2
  <2> HIDE DEF g
  <2>2. QED
    BY <1>4, <1>5, <2>1 DEF GivesOffsets, StepsByEntry
<1>7. Size(longer) = o[n] + EntrySize(e)
  <2> HIDE DEF g
  <2>1. QED
    BY <1>2, <1>6, SizeIs
<1>8. QED
  BY <1>1, <1>7 DEF Size, n, o

\* What RemoveAt leaves of a sequence.
LEMMA RemoveAtIs ==
  ASSUME NEW S, NEW seq \in Seq(S), NEW i \in 1 .. Len(seq)
  PROVE  /\ RemoveAt(seq, i) \in Seq(S) /\ Len(RemoveAt(seq, i)) = Len(seq) - 1
         /\ \A j \in 1 .. Len(seq) - 1 : RemoveAt(seq, i)[j] = seq[IF j < i THEN j ELSE j + 1]
<1> DEFINE n == Len(seq)
<1>1. n \in Nat /\ \A j \in 1 .. n : seq[j] \in S
  BY ElementOfSeq
<1>2. PICK left \in Seq(S) : left = SubSeq(seq, 1, i - 1) /\ Len(left) = i - 1 /\ \A j \in 1 .. i - 1 : left[j] = seq[j]
  <2>1. \A j \in 1 .. i - 1 : seq[j] \in S
    BY <1>1
  <2>2. /\ SubSeq(seq, 1, i - 1) \in Seq(S) /\ Len(SubSeq(seq, 1, i - 1)) = i - 1
        /\ \A j \in 1 .. i - 1 : SubSeq(seq, 1, i - 1)[j] = seq[j]
    BY <1>1, <2>1, SubSeqProperties
  <2>3. QED
    BY <2>2
<1>3. PICK right \in Seq(S) : /\ right = SubSeq(seq, i + 1, n) /\ Len(right) = n - i
                              /\ \A j \in 1 .. n - i : right[j] = seq[j + i]
  <2>1. \A j \in i + 1 .. n : seq[j] \in S
    BY <1>1
  <2>2. /\ SubSeq(seq, i + 1, n) \in Seq(S) /\ Len(SubSeq(seq, i + 1, n)) = n - i
        /\ \A j \in 1 .. n - i : SubSeq(seq, i + 1, n)[j] = seq[j + i]
    BY <1>1, <2>1, SubSeqProperties
  <2>3. QED
    BY <2>2
<1>4. PICK both : both = left \o right
  OBVIOUS
<1>5. /\ both \in Seq(S) /\ Len(both) = n - 1
      /\ \A j \in 1 .. n - 1 : both[j] = IF j <= i - 1 THEN left[j] ELSE right[j - (i - 1)]
  <2>1. Len(left) + Len(right) = n - 1
    <3>1. PICK a, b : a = Len(left) /\ b = Len(right)
      OBVIOUS
    <3>2. a = i - 1 /\ b = n - i /\ i \in Int
      BY <1>2, <1>3, <3>1
    <3>3. QED
      BY <1>1, <3>1, <3>2
  <2>2. /\ both \in Seq(S) /\ Len(both) = Len(left) + Len(right)
        /\ \A j \in 1 .. Len(left) + Len(right) : both[j] = IF j <= Len(left) THEN left[j] ELSE right[j - Len(left)]
    BY ONLY left \in Seq(S), right \in Seq(S), <1>4, ConcatProperties
  <2>3. QED
    BY <1>2, <2>1, <2>2
<1>6. ASSUME NEW j \in 1 .. n - 1 PROVE both[j] = seq[IF j < i THEN j ELSE j + 1]
  <2>1. CASE j < i
    <3>1. j \in 1 .. i - 1 /\ j <= i - 1
      BY <1>1, <2>1
    <3>2. both[j] = left[j] /\ left[j] = seq[j]
      BY <1>2, <1>5, <3>1
    <3>3. QED
      BY ONLY <2>1, <3>2, Zenon
  <2>2. CASE ~(j < i)
    <3>1. j - (i - 1) \in 1 .. n - i /\ ~(j <= i - 1) /\ j - (i - 1) + i = j + 1
      BY <1>1, <2>2
    <3>2. both[j] = right[j - (i - 1)] /\ right[j - (i - 1)] = seq[j - (i - 1) + i]
      BY <1>3, <1>5, <3>1
    <3>3. QED
      BY ONLY <2>2, <3>1, <3>2, Zenon
  <2>3. QED
    BY <2>1, <2>2
<1>7. RemoveAt(seq, i) = both
  BY <1>2, <1>3, <1>4 DEF RemoveAt
<1>8. QED
  BY <1>5, <1>6, <1>7

\* The entries behind one that is erased move down by its size.
LEMMA SizeOfRemoveAt ==
  ASSUME NEW buffer \in Seq(Entries), NEW k \in 1 .. Len(buffer)
  PROVE  Size(RemoveAt(buffer, k)) = Size(buffer) - EntrySize(buffer[k])
<1> DEFINE n == Len(buffer)
           o == Offsets(buffer)
           gap == EntrySize(buffer[k])
           g == [i \in 0 .. n - 1 |-> IF i < k THEN o[i] ELSE o[i + 1] - gap]
<1>1. PICK shorter \in Seq(Entries) : /\ shorter = RemoveAt(buffer, k) /\ Len(shorter) = n - 1
                                      /\ \A i \in 1 .. n - 1 : shorter[i] = buffer[IF i < k THEN i ELSE i + 1]
  BY RemoveAtIs
<1>2. n \in Nat /\ gap \in Nat /\ \A i \in 1 .. n : EntrySize(buffer[i]) \in Nat
  BY EntrySizes, ElementOfSeq
<1>3. GivesOffsets(o, buffer, n)
  BY OffsetsDefined
<1>4. o[k] = o[k - 1] + gap /\ k \in 1 .. n
  BY <1>2, <1>3 DEF GivesOffsets, StepsByEntry
<1> HIDE DEF n, o, gap
<1>5. g \in [0 .. n - 1 -> Int] /\ g[0] = HeaderSize
  <2>1. \A i \in 0 .. n : o[i] \in Int
    BY <1>3 DEF GivesOffsets, StepsByEntry
  <2>2. o[0] = HeaderSize
    BY <1>3 DEF GivesOffsets, StepsByEntry
  <2>3. \A i \in 0 .. n - 1 : i \in 0 .. n /\ i + 1 \in 0 .. n
    BY <1>2
  <2>4. \A i \in 0 .. n - 1 : g[i] \in Int
    BY <1>2, <2>1, <2>3
  <2>5. 0 \in 0 .. n - 1 /\ 0 < k
    BY <1>2, <1>4
  <2>6. QED
    BY <2>2, <2>4, <2>5
<1>6. ASSUME NEW i \in 1 .. n - 1 PROVE g[i] = g[i - 1] + EntrySize(shorter[i])
  <2>0. i \in 1 .. n /\ i + 1 \in 1 .. n /\ (i + 1) - 1 = i
    BY <1>2
  <2>1. CASE i < k
    <3>1. o[i] = o[i - 1] + EntrySize(buffer[i]) /\ shorter[i] = buffer[i]
      BY <1>1, <1>3, <2>0, <2>1 DEF GivesOffsets, StepsByEntry
    <3>2. QED
      BY <1>2, <1>4, <2>1, <3>1
  <2>2. CASE i >= k
    <3>1. o[i + 1] = o[i] + EntrySize(buffer[i + 1]) /\ shorter[i] = buffer[i + 1]
      <4>1. o[i + 1] = o[(i + 1) - 1] + EntrySize(buffer[i + 1])
        BY <1>3, <2>0 DEF GivesOffsets, StepsByEntry
      <4>2. shorter[i] = buffer[i + 1]
        BY <1>1, <1>4, <2>2
      <4>3. QED
        BY <2>0, <4>1, <4>2
    <3>2. /\ o[i] \in Int /\ o[i + 1] \in Int /\ o[i - 1] \in Int /\ g[i] = o[i + 1] - gap
          /\ EntrySize(buffer[i + 1]) \in Nat
      BY <1>2, <1>3, <1>4, <2>2 DEF GivesOffsets, StepsByEntry
    <3>3. g[i - 1] = o[i] - gap
      <4>1. CASE i = k
        <5>1. i - 1 < k /\ i - 1 \in 0 .. n - 1
          BY <1>2, <1>4, <4>1
        <5>2. g[i - 1] = o[i - 1]
          BY <5>1
        <5> HIDE DEF g
        <5>3. o[i] = o[i - 1] + gap
          BY <1>4, <4>1
        <5>4. QED
          BY <1>2, <3>2, <5>2, <5>3
      <4>2. CASE i > k
        BY <1>2, <1>4, <4>2
      <4>3. QED
        BY <1>4, <2>2, <4>1, <4>2
    <3>4. g[i] = g[i - 1] + EntrySize(buffer[i + 1])
      <4> HIDE DEF g
      <4>1. QED
        BY <1>2, <3>1, <3>2, <3>3
    <3>5. QED
      BY <3>1, <3>4
  <2>3. QED
    BY <1>4, <2>1, <2>2
<1>7. GivesOffsets(g, shorter, n - 1)
  BY <1>2, <1>5, <1>6 DEF GivesOffsets, StepsByEntry
<1>8. g[n - 1] = o[n] - gap
  BY <1>2, <1>3, <1>4 DEF GivesOffsets, StepsByEntry
<1>9. Size(shorter) = o[n] - gap
  <2> HIDE DEF g
  <2>1. QED
    BY <1>1, <1>7, <1>8, SizeIs DEF n
<1>10. QED
  BY <1>1, <1>9 DEF Size, n, o, gap

-----------------------------------------------------------------------------
(* Buffers as maps *)

Unique(buffer) == \A i, j \in 1 .. Len(buffer) : buffer[i].key = buffer[j].key => i = j

\* findEntry finds the first entry of a key, if there is one.
LEMMA FirstEntry ==
  ASSUME NEW buffer \in Seq(Entries), NEW k, NEW x, x = EntryOf(buffer, k)
  PROVE  /\ x \in 0 .. Len(buffer) /\ (x # 0 => x \in 1 .. Len(buffer) /\ buffer[x].key = k)
         /\ x = 0 <=> k \notin KeysOf(buffer)
<1> DEFINE I == {i \in 1 .. Len(buffer) : buffer[i].key = k}
<1>1. x = IF I # {} THEN Min(I) ELSE 0
  BY DEF EntryOf, SelectInSeq
<1>2. ASSUME I # {} PROVE Min(I) \in I
  <2>1. I \subseteq Nat
    OBVIOUS
  <2> HIDE DEF I
  <2>2. \E n \in I : \A m \in I : n <= m
    BY <1>2, <2>1, LeastNumber
  <2>3. QED
    BY <2>2 DEF Min
<1>3. I = {} <=> k \notin KeysOf(buffer)
  BY DEF KeysOf
<1>4. \A i \in I : i \in 1 .. Len(buffer) /\ buffer[i].key = k
  OBVIOUS
<1> HIDE DEF I
<1>5. QED
  BY <1>1, <1>2, <1>3, <1>4

\* The map of a buffer binds every key to the value of its entry.
LEMMA AsMapIs ==
  ASSUME NEW buffer \in Seq(Entries), Unique(buffer)
  PROVE  /\ DOMAIN AsMap(buffer) = KeysOf(buffer)
         /\ AsMap(buffer) = [k \in KeysOf(buffer) |-> AsMap(buffer)[k]]
         /\ \A i \in 1 .. Len(buffer) : AsMap(buffer)[buffer[i].key] = buffer[i].value
<1>1. ASSUME NEW i \in 1 .. Len(buffer)
      PROVE  AsMap(buffer)[buffer[i].key] = buffer[i].value
  <2>1. PICK k : k = buffer[i].key
    OBVIOUS
  <2>2. k \in KeysOf(buffer)
    BY <2>1 DEF KeysOf
  <2>3. PICK j : j = EntryOf(buffer, k)
    OBVIOUS
  <2>4. j \in 1 .. Len(buffer) /\ buffer[j].key = k
    <3>1. (j # 0 => j \in 1 .. Len(buffer) /\ buffer[j].key = k) /\ (j = 0 <=> k \notin KeysOf(buffer))
      BY ONLY buffer \in Seq(Entries), <2>3, FirstEntry
    <3>2. QED
      BY <2>2, <3>1
  <2>5. j = i
    BY <2>1, <2>4 DEF Unique
  <2>6. AsMap(buffer)[k] = buffer[EntryOf(buffer, k)].value
    BY <2>2 DEF AsMap
  <2>7. QED
    BY <2>1, <2>3, <2>5, <2>6
<1>2. QED
  BY <1>1 DEF AsMap

Binds(f, buffer) == \A i \in 1 .. Len(buffer) : f[buffer[i].key] = buffer[i].value

\* Two functions on the keys of a buffer that bind each to the value of its entry.
LEMMA SameMap ==
  ASSUME NEW buffer \in Seq(Entries), Unique(buffer), NEW f, f = [k \in KeysOf(buffer) |-> f[k]], Binds(f, buffer)
  PROVE  AsMap(buffer) = f
<1>1. PICK g : g = AsMap(buffer)
  OBVIOUS
<1>2. g = [k \in KeysOf(buffer) |-> g[k]] /\ \A i \in 1 .. Len(buffer) : g[buffer[i].key] = buffer[i].value
  BY <1>1, AsMapIs
<1>3. ASSUME NEW k \in KeysOf(buffer) PROVE g[k] = f[k]
  <2>1. PICK i \in 1 .. Len(buffer) : k = buffer[i].key
    BY DEF KeysOf
  <2>2. f[buffer[i].key] = buffer[i].value
    BY DEF Binds
  <2>3. QED
    BY <1>2, <2>1, <2>2
<1>4. QED
  BY <1>1, <1>2, <1>3, Zenon

LEMMA MapOfNone == Unique(<<>>) /\ KeysOf(<<>>) = {} /\ AsMap(<<>>) = Map!EmptyMap
<1>1. Unique(<<>>) /\ KeysOf(<<>>) = {}
  BY EmptySeq DEF Unique, KeysOf
<1>2. QED
  BY <1>1 DEF AsMap, Map!EmptyMap

\* An entry that is appended binds its key, if the buffer had none of it.
LEMMA MapOfAppend ==
  ASSUME NEW buffer \in Seq(Entries), Unique(buffer), NEW e \in Entries, e.key \notin KeysOf(buffer)
  PROVE  /\ Unique(Append(buffer, e)) /\ KeysOf(Append(buffer, e)) = KeysOf(buffer) \cup {e.key}
         /\ AsMap(Append(buffer, e)) = Map!With(AsMap(buffer), e.key, e.value)
<1>1. PICK n \in Nat : n = Len(buffer)
  OBVIOUS
<1>2. PICK longer \in Seq(Entries) : longer = Append(buffer, e) /\ Len(longer) = n + 1 /\ longer[n + 1] = e
                                     /\ \A i \in 1 .. n : longer[i] = buffer[i]
  <2>1. /\ Append(buffer, e) \in Seq(Entries) /\ Len(Append(buffer, e)) = n + 1 /\ Append(buffer, e)[n + 1] = e
        /\ \A i \in 1 .. n : Append(buffer, e)[i] = buffer[i]
    BY <1>1, AppendProperties
  <2>2. QED
    BY <2>1
<1>3. \A i \in 1 .. n : buffer[i].key # e.key
  BY <1>1 DEF KeysOf
<1>4. \A i \in 1 .. n + 1 : i \in 1 .. n \/ i = n + 1
  BY <1>1
<1>5. Unique(longer)
  <2> SUFFICES ASSUME NEW i \in 1 .. n + 1, NEW j \in 1 .. n + 1, longer[i].key = longer[j].key PROVE i = j
    BY <1>2 DEF Unique
  <2>1. QED
    BY <1>1, <1>2, <1>3, <1>4 DEF Unique
<1>6. KeysOf(longer) = KeysOf(buffer) \cup {e.key}
  <2>1. ASSUME NEW k \in KeysOf(longer) PROVE k \in KeysOf(buffer) \cup {e.key}
    BY <1>1, <1>2, <1>4, <2>1 DEF KeysOf
  <2>2. ASSUME NEW k \in KeysOf(buffer) PROVE k \in KeysOf(longer)
    <3>1. PICK i \in 1 .. n : k = buffer[i].key
      BY <1>1, <2>2 DEF KeysOf
    <3>2. i \in 1 .. n + 1 /\ longer[i].key = k
      BY <1>1, <1>2, <3>1
    <3>3. QED
      BY <1>2, <3>2 DEF KeysOf
  <2>3. e.key \in KeysOf(longer)
    <3>1. n + 1 \in 1 .. n + 1
      BY <1>1
    <3>2. QED
      BY <1>2, <3>1 DEF KeysOf
  <2>4. QED
    BY <2>1, <2>2, <2>3
<1>7. PICK f : f = Map!With(AsMap(buffer), e.key, e.value)
  OBVIOUS
<1>8. /\ f = [k \in KeysOf(longer) |-> f[k]] /\ f[e.key] = e.value
      /\ \A k \in KeysOf(buffer) : f[k] = AsMap(buffer)[k]
  <2>1. DOMAIN AsMap(buffer) = KeysOf(buffer)
    BY AsMapIs
  <2>2. f = [k \in KeysOf(longer) |-> IF k = e.key THEN e.value ELSE AsMap(buffer)[k]]
    BY <1>6, <1>7, <2>1 DEF Map!With
  <2>3. QED
    BY <1>6, <2>2
<1>9. ASSUME NEW i \in 1 .. n + 1 PROVE f[longer[i].key] = longer[i].value
  <2>1. CASE i \in 1 .. n
    <3>1. longer[i] = buffer[i] /\ buffer[i].key \in KeysOf(buffer)
      BY <1>1, <1>2, <2>1 DEF KeysOf
    <3>2. AsMap(buffer)[buffer[i].key] = buffer[i].value
      BY <1>1, <2>1, AsMapIs
    <3>3. QED
      BY <1>8, <3>1, <3>2
  <2>2. CASE i = n + 1
    BY <1>2, <1>8, <2>2
  <2>3. QED
    BY <1>4, <2>1, <2>2
<1>10. AsMap(longer) = f
  <2>1. Binds(f, longer)
    BY <1>2, <1>9 DEF Binds
  <2>2. QED
    BY <1>5, <1>8, <2>1, SameMap
<1>11. QED
  BY <1>2, <1>5, <1>6, <1>7, <1>10

\* An entry that is erased takes its key along, and no other.
LEMMA MapOfRemoveAt ==
  ASSUME NEW buffer \in Seq(Entries), Unique(buffer), NEW x \in 1 .. Len(buffer)
  PROVE  /\ Unique(RemoveAt(buffer, x)) /\ KeysOf(RemoveAt(buffer, x)) = KeysOf(buffer) \ {buffer[x].key}
         /\ AsMap(RemoveAt(buffer, x)) = Map!Without(AsMap(buffer), buffer[x].key)
<1>1. PICK n \in Nat : n = Len(buffer) /\ x \in 1 .. n
  OBVIOUS
<1> DEFINE from(i) == IF i < x THEN i ELSE i + 1
           to(i) == IF i < x THEN i ELSE i - 1
<1>2. PICK left \in Seq(Entries) : left = RemoveAt(buffer, x) /\ Len(left) = n - 1
                                   /\ \A i \in 1 .. n - 1 : left[i] = buffer[from(i)]
  BY <1>1, RemoveAtIs
<1>3. /\ \A i \in 1 .. n - 1 : from(i) \in 1 .. n /\ from(i) # x
      /\ \A i, j \in 1 .. n - 1 : from(i) = from(j) => i = j
      /\ \A i \in (1 .. n) \ {x} : to(i) \in 1 .. n - 1 /\ from(to(i)) = i
  BY <1>1
<1> HIDE DEF from, to
<1>4. Unique(left)
  <2>1. SUFFICES ASSUME NEW i \in 1 .. n - 1, NEW j \in 1 .. n - 1, left[i].key = left[j].key PROVE i = j
    BY <1>2 DEF Unique
  <2>2. from(i) \in 1 .. n /\ from(j) \in 1 .. n /\ left[i] = buffer[from(i)] /\ left[j] = buffer[from(j)]
    BY <1>2, <1>3
  <2>3. from(i) = from(j)
    BY <1>1, <2>1, <2>2 DEF Unique
  <2>4. QED
    BY <1>3, <2>3
<1>5. \A i \in 1 .. n : buffer[i].key = buffer[x].key <=> i = x
  BY <1>1 DEF Unique
<1>6. KeysOf(left) = KeysOf(buffer) \ {buffer[x].key}
  <2>1. ASSUME NEW k \in KeysOf(left) PROVE k \in KeysOf(buffer) /\ k # buffer[x].key
    <3>1. PICK i \in 1 .. n - 1 : k = buffer[from(i)].key
      BY <1>2, <2>1 DEF KeysOf
    <3>2. QED
      BY <1>1, <1>3, <1>5, <3>1 DEF KeysOf
  <2>2. ASSUME NEW k \in KeysOf(buffer), k # buffer[x].key PROVE k \in KeysOf(left)
    <3>1. PICK i \in (1 .. n) \ {x} : k = buffer[i].key
      BY <1>1, <2>2 DEF KeysOf
    <3>2. to(i) \in 1 .. n - 1 /\ left[to(i)].key = k
      BY <1>2, <1>3, <3>1
    <3>3. QED
      BY <1>2, <3>2 DEF KeysOf
  <2>3. QED
    BY <2>1, <2>2
<1>7. PICK f : f = Map!Without(AsMap(buffer), buffer[x].key)
  OBVIOUS
<1>8. f = [k \in KeysOf(left) |-> f[k]] /\ \A k \in KeysOf(left) : f[k] = AsMap(buffer)[k]
  <2>1. DOMAIN AsMap(buffer) = KeysOf(buffer)
    BY AsMapIs
  <2>2. f = [k \in KeysOf(left) |-> AsMap(buffer)[k]]
    BY <1>6, <1>7, <2>1 DEF Map!Without, Map!Restrict
  <2>3. QED
    BY <2>2
<1>9. ASSUME NEW i \in 1 .. n - 1 PROVE f[left[i].key] = left[i].value
  <2>1. left[i] = buffer[from(i)] /\ from(i) \in 1 .. n
    BY <1>2, <1>3
  <2>2. AsMap(buffer)[buffer[from(i)].key] = buffer[from(i)].value
    BY <1>1, <2>1, AsMapIs
  <2>3. left[i].key \in KeysOf(left)
    BY <1>2 DEF KeysOf
  <2>4. QED
    BY <1>8, <2>1, <2>2, <2>3
<1>10. AsMap(left) = f
  <2>1. Binds(f, left)
    BY <1>2, <1>9 DEF Binds
  <2>2. QED
    BY <1>4, <1>8, <2>1, SameMap
<1>11. QED
  BY <1>2, <1>4, <1>6, <1>7, <1>10

-----------------------------------------------------------------------------
(* Every buffer is well formed *)

GoodHandle(m) == m \in HandleStates /\ (m.opened => m.allocated /\ WellFormed(m.buffer, m.used))
GoodImage(x)  == x \in Images /\ (x.kind = "preferences" => WellFormed(x.buffer, x.used))

LEMMA InvIs ==
  StoreInv <=> /\ handle = [h \in Handles |-> handle[h]] /\ \A h \in Handles : GoodHandle(handle[h])
               /\ nvm = [f \in Files |-> nvm[f]] /\ \A f \in Files : GoodImage(nvm[f])
  BY DEF StoreInv, TypeOK, BuffersWellFormed, GoodHandle, GoodImage

LEMMA WellFormedIs ==
  \A buffer, used : WellFormed(buffer, used) <=> Unique(buffer) /\ used = Size(buffer) /\ used <= Capacity
  BY DEF WellFormed, Unique, Size

LEMMA NoneGood == GoodHandle(ClosedHandle) /\ GoodImage(Absent) /\ GoodImage(Foreign)
  BY EmptySeq DEF GoodHandle, GoodImage, ClosedHandle, HandleStates, Files, Absent, Foreign, Images

LEMMA ResetGood ==
  ASSUME NEW m \in HandleStates, m.opened => m.allocated
  PROVE  GoodHandle(Reset(m)) /\ Reset(m) = [m EXCEPT !.buffer = <<>>, !.used = HeaderSize]
<1>1. WellFormed(<<>>, HeaderSize)
  BY WellFormedIs, MapOfNone, SizeOfNone, PreferencesAssumption
<1>2. QED
  BY <1>1, EmptySeq DEF GoodHandle, Reset, HandleStates, HeaderSize

\* The fields of an edited object that an edit leaves alone.
SameObject(m, x) == x.opened = m.opened /\ x.readOnly = m.readOnly /\ x.name = m.name

LEMMA ErasedGood ==
  ASSUME NEW m, GoodHandle(m), m.opened, NEW i \in 1 .. Len(m.buffer), NEW x, x = EraseEntry(m, i)
  PROVE  GoodHandle(x) /\ SameObject(m, x) /\ x.buffer = RemoveAt(m.buffer, i)
<1>1. m \in HandleStates /\ m.buffer \in Seq(Entries) /\ m.used \in Nat /\ m.buffer[i] \in Entries
  BY ElementOfSeq DEF GoodHandle, HandleStates
<1>2. Unique(m.buffer) /\ m.used = Size(m.buffer) /\ m.used <= Capacity
  BY WellFormedIs DEF GoodHandle
<1>3. EntrySize(m.buffer[i]) \in Nat
  BY <1>1, EntrySizes
<1>4. PICK left \in Seq(Entries) : left = RemoveAt(m.buffer, i) /\ Unique(left)
                                   /\ Size(left) = m.used - EntrySize(m.buffer[i])
  BY <1>1, <1>2, RemoveAtIs, MapOfRemoveAt, SizeOfRemoveAt
<1>5. Size(left) \in Nat
  BY <1>4, OffsetsDefined DEF Size
<1>6. Size(left) <= Capacity
  BY <1>1, <1>2, <1>3, <1>4, <1>5, PreferencesAssumption
<1>7. WellFormed(left, Size(left))
  BY <1>4, <1>6, WellFormedIs
<1>8. x = [m EXCEPT !.buffer = left, !.used = Size(left)]
  BY <1>4 DEF EraseEntry
<1>9. QED
  BY <1>1, <1>4, <1>5, <1>7, <1>8 DEF GoodHandle, HandleStates, SameObject

LEMMA AppendedGood ==
  ASSUME NEW m, GoodHandle(m), m.opened, NEW e \in Entries, e.key \notin KeysOf(m.buffer),
         m.used + EntrySize(e) <= Capacity, NEW x, x = AppendEntry(m, e)
  PROVE  GoodHandle(x) /\ SameObject(m, x) /\ x.buffer = Append(m.buffer, e)
<1>1. m \in HandleStates /\ m.buffer \in Seq(Entries) /\ m.used \in Nat
  BY DEF GoodHandle, HandleStates
<1>2. Unique(m.buffer) /\ m.used = Size(m.buffer)
  BY WellFormedIs DEF GoodHandle
<1>3. EntrySize(e) \in Nat
  BY EntrySizes
<1>4. PICK longer \in Seq(Entries) : longer = Append(m.buffer, e) /\ Unique(longer)
                                     /\ Size(longer) = m.used + EntrySize(e)
  <2>1. PICK b : b = m.buffer
    OBVIOUS
  <2>2. Append(b, e) \in Seq(Entries) /\ Unique(Append(b, e)) /\ Size(Append(b, e)) = Size(b) + EntrySize(e)
    BY <1>1, <1>2, <2>1, AppendProperties, MapOfAppend, SizeOfAppend
  <2>3. QED
    BY <1>2, <2>1, <2>2
<1>5. WellFormed(longer, Size(longer))
  BY <1>4, WellFormedIs
<1>6. x = [m EXCEPT !.buffer = longer, !.used = Size(longer)] /\ Size(longer) \in Nat
  BY <1>1, <1>3, <1>4 DEF AppendEntry
<1>7. QED
  BY <1>1, <1>4, <1>5, <1>6 DEF GoodHandle, HandleStates, SameObject

\* findEntry in an open object.
LEMMA FindEntryIs ==
  ASSUME StoreInv, NEW h \in Handles, NEW k, NEW i, i = FindEntry(h, k), handle[h].opened, validKey(k)
  PROVE  /\ i # 0 => i \in 1 .. Len(handle[h].buffer) /\ handle[h].buffer[i].key = k
         /\ i = 0 <=> k \notin KeysOf(handle[h].buffer)
<1>1. PICK m : m = handle[h] /\ GoodHandle(m) /\ m.opened
  BY InvIs
<1>2. m.allocated /\ m.buffer \in Seq(Entries) /\ m.used = Size(m.buffer)
  BY <1>1, WellFormedIs DEF GoodHandle, HandleStates
<1>3. m.used >= HeaderSize
  <2>1. Len(m.buffer) \in 0 .. Len(m.buffer)
    BY <1>2
  <2>2. QED
    BY <1>2, <2>1, OffsetsDefined DEF Size
<1>4. i = EntryOf(m.buffer, k)
  BY <1>1, <1>2, <1>3 DEF FindEntry
<1>5. QED
  BY <1>1, <1>2, <1>4, FirstEntry

\* What an edit leaves in the buffer of its object.
Edited(h, m) == GoodHandle(m) /\ SameObject(handle[h], m)

LEMMA ClearIs ==
  ASSUME StoreInv, NEW h \in Handles, Clear(h)
  PROVE  \E m : /\ Edited(h, m) /\ WriteBack(h, m) /\ m.buffer = <<>>
<1>1. GoodHandle(handle[h]) /\ handle[h].opened
  BY InvIs DEF Clear, MayWrite
<1>2. GoodHandle(Reset(handle[h])) /\ SameObject(handle[h], Reset(handle[h])) /\ Reset(handle[h]).buffer = <<>>
  BY <1>1, ResetGood DEF GoodHandle, HandleStates, SameObject, Reset
<1>3. QED
  BY <1>2 DEF Clear, Edited

LEMMA RemoveKeyIs ==
  ASSUME StoreInv, NEW h \in Handles, NEW k, RemoveKey(h, k)
  PROVE  \E m : /\ Edited(h, m) /\ WriteBack(h, m)
                /\ k \in KeysOf(handle[h].buffer) /\ AsMap(m.buffer) = Map!Without(AsMap(handle[h].buffer), k)
<1>1. PICK o : o = handle[h] /\ GoodHandle(o) /\ o.opened
  BY InvIs DEF RemoveKey, MayWrite
<1>2. PICK i : i = FindEntry(h, k) /\ i # 0 /\ validKey(k) /\ WriteBack(h, EraseEntry(o, i))
  BY <1>1 DEF RemoveKey, FindEntry
<1>3. i \in 1 .. Len(o.buffer) /\ o.buffer[i].key = k /\ k \in KeysOf(o.buffer)
  BY <1>1, <1>2, FindEntryIs
<1>4. PICK m : m = EraseEntry(o, i) /\ GoodHandle(m) /\ SameObject(o, m) /\ m.buffer = RemoveAt(o.buffer, i)
  BY <1>1, <1>3, ErasedGood
<1>5. o.buffer \in Seq(Entries) /\ Unique(o.buffer)
  BY <1>1, WellFormedIs DEF GoodHandle, HandleStates
<1>6. AsMap(m.buffer) = Map!Without(AsMap(o.buffer), k)
  BY <1>3, <1>4, <1>5, MapOfRemoveAt
<1>7. QED
  BY <1>1, <1>2, <1>3, <1>4, <1>6 DEF Edited

\* A key that is put is bound to its new value, whether it was there or not.
LEMMA PutIs ==
  ASSUME StoreInv, NEW h \in Handles, NEW k \in Keys, NEW v \in Values, Put(h, k, v)
  PROVE  \E m : /\ Edited(h, m) /\ WriteBack(h, m)
                /\ KeysOf(handle[h].buffer) \subseteq KeysOf(m.buffer)
                /\ AsMap(m.buffer) = Map!With(AsMap(handle[h].buffer), k, v)
<1>1. PICK o : o = handle[h] /\ GoodHandle(o) /\ o.opened
  BY InvIs DEF Put, MayWrite
<1>2. PICK i, e, erased : /\ i = FindEntry(h, k) /\ e = [key |-> k, value |-> v]
                          /\ erased = IF i = 0 THEN o ELSE EraseEntry(o, i)
                          /\ validKey(k) /\ erased.used + EntrySize(e) <= Capacity
                          /\ WriteBack(h, AppendEntry(erased, e))
  BY <1>1 DEF Put
<1>3. o.buffer \in Seq(Entries) /\ Unique(o.buffer) /\ e \in Entries /\ e.key = k /\ e.value = v
  BY <1>1, <1>2, WellFormedIs DEF GoodHandle, HandleStates, Entries
<1>4. /\ GoodHandle(erased) /\ SameObject(o, erased) /\ k \notin KeysOf(erased.buffer)
      /\ KeysOf(o.buffer) \ {k} \subseteq KeysOf(erased.buffer)
      /\ Map!With(AsMap(erased.buffer), k, v) = Map!With(AsMap(o.buffer), k, v)
  <2>1. CASE i = 0
    <3>1. erased = o /\ k \notin KeysOf(o.buffer)
      BY <1>1, <1>2, <2>1, FindEntryIs
    <3>2. QED
      BY <1>1, <3>1 DEF SameObject
  <2>2. CASE i # 0
    <3>1. i \in 1 .. Len(o.buffer) /\ o.buffer[i].key = k
      BY <1>1, <1>2, <2>2, FindEntryIs
    <3>2. erased = EraseEntry(o, i) /\ GoodHandle(erased) /\ SameObject(o, erased) /\ erased.buffer = RemoveAt(o.buffer, i)
      BY <1>1, <1>2, <2>2, <3>1, ErasedGood
    <3>3. /\ KeysOf(erased.buffer) = KeysOf(o.buffer) \ {k}
          /\ AsMap(erased.buffer) = Map!Without(AsMap(o.buffer), k)
      BY <1>3, <3>1, <3>2, MapOfRemoveAt
    <3>4. Map!With(AsMap(erased.buffer), k, v) = Map!With(AsMap(o.buffer), k, v)
      <4>1. PICK f : f = AsMap(o.buffer)
        OBVIOUS
      <4>2. Map!With(Map!Without(f, k), k, v) = Map!With(f, k, v)
        BY DEF Map!With, Map!Without, Map!Restrict
      <4>3. QED
        BY <3>3, <4>1, <4>2
    <3>5. QED
      BY <3>2, <3>3, <3>4
  <2>3. QED
    BY <2>1, <2>2
<1>5. PICK b : b = erased.buffer /\ b \in Seq(Entries) /\ Unique(b) /\ erased.opened
  BY <1>1, <1>4, WellFormedIs DEF GoodHandle, HandleStates, SameObject
<1>6. PICK m : m = AppendEntry(erased, e) /\ GoodHandle(m) /\ SameObject(erased, m) /\ m.buffer = Append(b, e)
  BY <1>2, <1>3, <1>4, <1>5, AppendedGood
<1>7. KeysOf(m.buffer) = KeysOf(b) \cup {k} /\ AsMap(m.buffer) = Map!With(AsMap(b), k, v)
  BY <1>3, <1>4, <1>5, <1>6, MapOfAppend
<1>8. SameObject(o, m)
  BY <1>4, <1>6 DEF SameObject
<1>9. KeysOf(o.buffer) \subseteq KeysOf(m.buffer)
  BY <1>4, <1>5, <1>7
<1>10. QED
  BY <1>1, <1>2, <1>4, <1>5, <1>6, <1>7, <1>8, <1>9 DEF Edited

\* An object that is good is written back as an image that is.
LEMMA WriteBackGood ==
  ASSUME StoreInv, NEW h \in Handles, MayWrite(h), NEW m, Edited(h, m), WriteBack(h, m)
  PROVE  StoreInv'
<1>1. GoodHandle(m) /\ m.opened /\ m.name \in Files
  BY DEF Edited, GoodHandle, HandleStates, MayWrite, SameObject
<1>2. PICK x : x = [kind |-> "preferences", buffer |-> m.buffer, used |-> m.used] /\ GoodImage(x)
  <2>1. PICK x : x = [kind |-> "preferences", buffer |-> m.buffer, used |-> m.used]
    OBVIOUS
  <2>2. x.buffer = m.buffer /\ x.used = m.used /\ m.buffer \in Seq(Entries) /\ m.used \in Nat
    BY <1>1, <2>1 DEF GoodHandle, HandleStates
  <2>3. WellFormed(x.buffer, x.used)
    BY <1>1, <2>2 DEF GoodHandle
  <2>4. QED
    BY <2>1, <2>2, <2>3 DEF GoodImage, Images
<1>3. GoodImage(nvm[m.name]) /\ GoodImage(Absent)
  BY <1>1, InvIs, NoneGood
<1>4. handle' = [handle EXCEPT ![h] = m] /\ \E y : GoodImage(y) /\ nvm' = [nvm EXCEPT ![m.name] = y]
  BY <1>2, <1>3 DEF WriteBack
<1>5. handle' = [j \in Handles |-> handle'[j]] /\ \A j \in Handles : GoodHandle(handle'[j])
  BY <1>1, <1>4, InvIs
<1>6. nvm' = [f \in Files |-> nvm'[f]] /\ \A f \in Files : GoodImage(nvm'[f])
  BY <1>4, InvIs
<1>7. QED
  BY <1>5, <1>6 DEF StoreInv, TypeOK, BuffersWellFormed, GoodHandle, GoodImage

\* An object that becomes good leaves the files alone.
LEMMA ObjectGood ==
  ASSUME StoreInv, NEW h \in Handles, NEW m, GoodHandle(m), handle' = [handle EXCEPT ![h] = m], UNCHANGED nvm
  PROVE  StoreInv'
<1>1. handle' = [j \in Handles |-> handle'[j]] /\ \A j \in Handles : GoodHandle(handle'[j])
  BY InvIs
<1>2. nvm' = [f \in Files |-> nvm'[f]] /\ \A f \in Files : GoodImage(nvm'[f])
  BY InvIs
<1>3. QED
  BY <1>1, <1>2 DEF StoreInv, TypeOK, BuffersWellFormed, GoodHandle, GoodImage

\* begin() with a name: what it reads, or nothing.
LEMMA BeginIs ==
  ASSUME StoreInv, NEW h \in Handles, NEW n \in Namespaces, NEW readOnly \in BOOLEAN, Begin(h, n, readOnly)
  PROVE  \E m : /\ GoodHandle(m) /\ handle' = [handle EXCEPT ![h] = m] /\ UNCHANGED nvm
                /\ m.opened /\ m.name = n /\ m.readOnly = readOnly /\ m.buffer \in {nvm[n].buffer, <<>>}
<1>1. handle[h] \in HandleStates /\ n \in Files /\ GoodImage(nvm[n])
  BY InvIs DEF GoodHandle, Files
<1>2. PICK fresh \in HandleStates :
        /\ fresh = [handle[h] EXCEPT !.name = n, !.readOnly = readOnly, !.opened = TRUE, !.allocated = TRUE]
        /\ fresh.name = n /\ fresh.readOnly = readOnly /\ fresh.opened /\ fresh.allocated
  <2>1. PICK x : x = [handle[h] EXCEPT !.name = n, !.readOnly = readOnly, !.opened = TRUE, !.allocated = TRUE]
    OBVIOUS
  <2>2. x \in HandleStates /\ x.name = n /\ x.readOnly = readOnly /\ x.opened /\ x.allocated
    BY <1>1, <2>1 DEF HandleStates
  <2>3. QED
    BY <2>1, <2>2
<1>3. CASE nvm[n].kind = "preferences" /\ handle' = [handle EXCEPT ![h] = [fresh EXCEPT !.buffer = nvm[n].buffer, !.used = nvm[n].used]]
  <2>1. PICK m : m = [fresh EXCEPT !.buffer = nvm[n].buffer, !.used = nvm[n].used]
    OBVIOUS
  <2>2. GoodHandle(m) /\ m.opened /\ m.name = n /\ m.readOnly = readOnly /\ m.buffer = nvm[n].buffer
    BY <1>1, <1>2, <1>3, <2>1 DEF GoodImage, GoodHandle, Images, HandleStates
  <2>3. QED
    BY <1>3, <2>1, <2>2 DEF Begin
<1>4. CASE handle' = [handle EXCEPT ![h] = Reset(fresh)]
  <2>1. PICK m : m = Reset(fresh) /\ GoodHandle(m) /\ m = [fresh EXCEPT !.buffer = <<>>, !.used = HeaderSize]
    BY <1>2, ResetGood
  <2>2. m.opened /\ m.name = n /\ m.readOnly = readOnly /\ m.buffer = <<>>
    BY <1>2, <2>1 DEF HandleStates
  <2>3. QED
    BY <1>4, <2>1, <2>2 DEF Begin
<1>5. QED
  BY <1>2, <1>3, <1>4 DEF Begin

THEOREM StoreInvIsInvariant == Spec => []StoreInv
<1>1. Init => StoreInv
  <2> SUFFICES ASSUME Init PROVE StoreInv
    OBVIOUS
  <2>1. handle = [h \in Handles |-> handle[h]] /\ \A h \in Handles : GoodHandle(handle[h])
    BY NoneGood DEF Init
  <2>2. nvm = [f \in Files |-> nvm[f]] /\ \A f \in Files : GoodImage(nvm[f])
    BY NoneGood DEF Init
  <2>3. QED
    BY <2>1, <2>2, InvIs
<1>2. StoreInv /\ [Next]_vars => StoreInv'
  <2> SUFFICES ASSUME StoreInv, [Next]_vars PROVE StoreInv'
    OBVIOUS
  <2>1. ASSUME NEW h \in Handles, BeginNameTooLong(h) PROVE StoreInv'
    <3>1. PICK m : m = [handle[h] EXCEPT !.name = NoName] /\ GoodHandle(m)
      <4>1. PICK o, m : o = handle[h] /\ GoodHandle(o) /\ m = [o EXCEPT !.name = NoName]
        BY InvIs
      <4>2. GoodHandle(m)
        BY <4>1 DEF GoodHandle, HandleStates, Files
      <4>3. QED
        BY <4>1, <4>2
    <3>2. handle' = [handle EXCEPT ![h] = m] /\ UNCHANGED nvm
      BY <2>1, <3>1, InvIs DEF BeginNameTooLong
    <3>3. QED
      BY <3>1, <3>2, ObjectGood
  <2>2. ASSUME NEW h \in Handles, NEW n \in Namespaces, NEW readOnly \in BOOLEAN, BeginOutOfMemory(h, n, readOnly)
        PROVE  StoreInv'
    <3>1. PICK m : m = [handle[h] EXCEPT !.name = n, !.readOnly = readOnly, !.opened = FALSE, !.allocated = FALSE, !.buffer = <<>>]
                   /\ GoodHandle(m)
      <4>1. PICK o, m : /\ o = handle[h] /\ GoodHandle(o)
                        /\ m = [o EXCEPT !.name = n, !.readOnly = readOnly, !.opened = FALSE, !.allocated = FALSE, !.buffer = <<>>]
        BY InvIs
      <4>2. GoodHandle(m)
        BY <4>1, EmptySeq DEF GoodHandle, HandleStates, Files
      <4>3. QED
        BY <4>1, <4>2
    <3>2. handle' = [handle EXCEPT ![h] = m] /\ UNCHANGED nvm
      BY <2>2, <3>1, InvIs DEF BeginOutOfMemory
    <3>3. QED
      BY <3>1, <3>2, ObjectGood
  <2>3. ASSUME NEW h \in Handles, NEW n \in Namespaces, NEW readOnly \in BOOLEAN, Begin(h, n, readOnly)
        PROVE  StoreInv'
    BY <2>3, BeginIs, ObjectGood
  <2>4. ASSUME NEW h \in Handles, End(h) PROVE StoreInv'
    BY <2>4, NoneGood, ObjectGood DEF End
  <2>5. ASSUME NEW h \in Handles, Clear(h) PROVE StoreInv'
    <3>1. MayWrite(h)
      BY <2>5 DEF Clear
    <3>2. QED
      BY <2>5, <3>1, ClearIs, WriteBackGood
  <2>6. ASSUME NEW h \in Handles, NEW k \in Keys, RemoveKey(h, k) PROVE StoreInv'
    <3>1. MayWrite(h)
      BY <2>6 DEF RemoveKey
    <3>2. QED
      BY <2>6, <3>1, RemoveKeyIs, WriteBackGood
  <2>7. ASSUME NEW h \in Handles, NEW k \in Keys, NEW v \in Values, Put(h, k, v) PROVE StoreInv'
    <3>1. MayWrite(h)
      BY <2>7 DEF Put
    <3>2. QED
      BY <2>7, <3>1, PutIs, WriteBackGood
  <2>8. CASE Restart
    <3>1. handle' = [j \in Handles |-> handle'[j]] /\ \A j \in Handles : GoodHandle(handle'[j])
      BY <2>8, NoneGood DEF Restart
    <3>2. nvm' = [f \in Files |-> nvm'[f]] /\ \A f \in Files : GoodImage(nvm'[f])
      BY <2>8, InvIs DEF Restart
    <3>3. QED
      BY <3>1, <3>2 DEF StoreInv, TypeOK, BuffersWellFormed, GoodHandle, GoodImage
  <2>9. CASE UNCHANGED vars
    BY <2>9 DEF vars, StoreInv, TypeOK, BuffersWellFormed
  <2>10. QED
    BY <2>1, <2>2, <2>3, <2>4, <2>5, <2>6, <2>7, <2>8, <2>9 DEF Next, Edit
<1>3. QED
  BY <1>1, <1>2, PTL DEF Spec

-----------------------------------------------------------------------------
(* The buffers behave as maps *)

\* What the store is in PreferencesMap.
View   == [h \in Handles |-> ViewOf(handle[h])]
Stored == [f \in Files |-> AsMap(nvm[f].buffer)]

\* The copy of an object changes when the object does, and no other.
LEMMA ViewOfOne ==
  ASSUME NEW h \in Handles, NEW m, handle' = [handle EXCEPT ![h] = m],
         handle = [j \in Handles |-> handle[j]]
  PROVE  View' = [View EXCEPT ![h] = ViewOf(m)]
<1>1. \A j \in Handles : handle'[j] = IF j = h THEN m ELSE handle[j]
  OBVIOUS
<1>2. \A j \in Handles : ViewOf(handle'[j]) = IF j = h THEN ViewOf(m) ELSE ViewOf(handle[j])
  BY <1>1
<1>3. View' = [j \in Handles |-> ViewOf(handle'[j])]
  BY DEF View, ViewOf
<1>4. QED
  BY <1>2, <1>3 DEF View

\* One field of a view changes.
LEMMA FieldChanged ==
  \A a, b, c, d, x :
    /\ [open |-> a, file |-> b, writable |-> c, map |-> x] = [[open |-> a, file |-> b, writable |-> c, map |-> d] EXCEPT !.map = x]
    /\ [open |-> a, file |-> x, writable |-> c, map |-> d] = [[open |-> a, file |-> b, writable |-> c, map |-> d] EXCEPT !.file = x]
  OBVIOUS

\* An edit, as an update of the map.
LEMMA UpdateIs ==
  ASSUME StoreInv, NEW h \in Handles, MayWrite(h), NEW m, Edited(h, m), WriteBack(h, m)
  PROVE  Map!Update(h, AsMap(m.buffer))
<1>1. PICK o : /\ o = handle[h] /\ o.opened /\ ~o.readOnly /\ o.name \in Files
               /\ m.opened /\ ~m.readOnly /\ m.name = o.name
  BY InvIs DEF Edited, GoodHandle, HandleStates, MayWrite, SameObject
<1>2. handle' = [handle EXCEPT ![h] = m]
  BY DEF WriteBack
<1>3. View' = [View EXCEPT ![h] = ViewOf(m)]
  BY <1>2, InvIs, ViewOfOne
<1>4. View[h] = [open |-> TRUE, file |-> o.name, writable |-> TRUE, map |-> AsMap(o.buffer)]
  BY <1>1 DEF View, ViewOf
<1>5. ViewOf(m) = [View[h] EXCEPT !.map = AsMap(m.buffer)]
  <2>1. ViewOf(m) = [open |-> TRUE, file |-> o.name, writable |-> TRUE, map |-> AsMap(m.buffer)]
    BY <1>1 DEF ViewOf
  <2>2. PICK t, n, p, q : t = TRUE /\ n = o.name /\ p = AsMap(o.buffer) /\ q = AsMap(m.buffer)
    OBVIOUS
  <2>3. [open |-> t, file |-> n, writable |-> t, map |-> q] = [[open |-> t, file |-> n, writable |-> t, map |-> p] EXCEPT !.map = q]
    BY ONLY FieldChanged
  <2>4. QED
    BY ONLY <1>4, <2>1, <2>2, <2>3, Zenon
<1>6. View' = [View EXCEPT ![h].map = AsMap(m.buffer)]
  BY <1>3, <1>5
<1>7. \E left \in {AsMap(m.buffer), Stored[View[h].file], Map!EmptyMap} : Stored' = [Stored EXCEPT ![View[h].file] = left]
  <2>1. PICK y : /\ y.buffer \in {m.buffer, nvm[o.name].buffer, <<>>}
                 /\ nvm' = [nvm EXCEPT ![o.name] = y]
    <3>1. PICK y \in {[kind |-> "preferences", buffer |-> m.buffer, used |-> m.used], nvm[m.name], Absent} :
            nvm' = [nvm EXCEPT ![m.name] = y]
      BY DEF WriteBack
    <3>2. y.buffer \in {m.buffer, nvm[m.name].buffer, <<>>}
      BY <3>1 DEF Absent
    <3> DEFINE Left(x) == x.buffer \in {m.buffer, nvm[o.name].buffer, <<>>} /\ nvm' = [nvm EXCEPT ![o.name] = x]
    <3>3. Left(y)
      BY <1>1, <3>1, <3>2, Zenon
    <3> HIDE DEF Left
    <3>4. \E x : Left(x)
      BY <3>3
    <3>5. QED
      BY <3>4 DEF Left
  <2>2. nvm = [f \in Files |-> nvm[f]]
    BY InvIs
  <2>3. \A f \in Files : nvm'[f] = IF f = o.name THEN y ELSE nvm[f]
    BY <2>1, <2>2
  <2>4. \A f \in Files : AsMap(nvm'[f].buffer) = IF f = o.name THEN AsMap(y.buffer) ELSE AsMap(nvm[f].buffer)
    BY <2>3
  <2>5. Stored' = [f \in Files |-> AsMap(nvm'[f].buffer)]
    BY DEF Stored
  <2>6. Stored' = [Stored EXCEPT ![o.name] = AsMap(y.buffer)]
    BY <2>4, <2>5 DEF Stored
  <2>7. AsMap(y.buffer) \in {AsMap(m.buffer), Stored[o.name], Map!EmptyMap}
    BY <1>1, <2>1, MapOfNone DEF Stored
  <2>8. View[h].file = o.name
    BY <1>4
  <2>9. QED
    BY ONLY <2>6, <2>7, <2>8, Zenon
<1>8. View[h].open /\ View[h].writable
  BY <1>4
<1>9. QED
  BY <1>6, <1>7, <1>8 DEF Map!Update, View, Stored

\* A call that leaves the files alone.
LEMMA StoredSame == UNCHANGED nvm => UNCHANGED Stored
  BY DEF Stored

\* The map an object that is not open counts as.
LEMMA ViewOfClosed == \A m : ~m.opened => ViewOf(m) = Map!Closed
  BY MapOfNone DEF ViewOf, Map!Closed

THEOREM StoreImplementsMap == Spec => ImplementsMap
<1>1. ASSUME Init PROVE Map!Init
  <2>1. \A h \in Handles : handle[h] = ClosedHandle
    BY <1>1 DEF Init
  <2>2. View = [h \in Handles |-> Map!Closed]
    BY <2>1, ViewOfClosed DEF View, ClosedHandle
  <2>3. \A f \in Files : nvm[f].buffer = <<>>
    BY <1>1 DEF Init, Absent, Foreign
  <2>4. Stored \in [Files -> {Map!EmptyMap}]
    BY <2>3, MapOfNone DEF Stored
  <2>5. QED
    BY <2>2, <2>4 DEF Map!Init, View, Stored
<1>2. ASSUME StoreInv, [Next]_vars PROVE [Map!Next]_(Map!mapVars)
  <2>1. handle = [h \in Handles |-> handle[h]]
    BY <1>2, InvIs
  <2>2. ASSUME NEW h \in Handles, BeginNameTooLong(h) PROVE [Map!Next]_(Map!mapVars)
    <3>1. PICK o, m : o = handle[h] /\ o \in HandleStates /\ m = [o EXCEPT !.name = NoName]
      BY <1>2, InvIs DEF GoodHandle
    <3>2. View' = [View EXCEPT ![h] = ViewOf(m)] /\ UNCHANGED Stored
      BY <2>1, <2>2, <3>1, ViewOfOne, StoredSame DEF BeginNameTooLong
    <3>3. CASE o.opened
      <4>1. /\ View[h] = [open |-> TRUE, file |-> o.name, writable |-> ~o.readOnly, map |-> AsMap(o.buffer)]
            /\ ViewOf(m) = [open |-> TRUE, file |-> NoName, writable |-> ~o.readOnly, map |-> AsMap(o.buffer)]
        BY <3>1, <3>3 DEF View, ViewOf, HandleStates
      <4>2. View[h].open /\ ViewOf(m) = [View[h] EXCEPT !.file = NoName]
        <5>1. PICK t, n, p, w : t = TRUE /\ n = o.name /\ p = AsMap(o.buffer) /\ w = ~o.readOnly
          OBVIOUS
        <5>2. [open |-> t, file |-> NoName, writable |-> w, map |-> p] = [[open |-> t, file |-> n, writable |-> w, map |-> p] EXCEPT !.file = NoName]
          BY ONLY FieldChanged
        <5>3. View[h].open
          BY <4>1
        <5>4. QED
          BY ONLY <4>1, <5>1, <5>2, <5>3, Zenon
      <4>3. View[h].open /\ View' = [View EXCEPT ![h].file = NoName]
        BY <3>2, <4>2
      <4>4. Map!Unname(h)
        BY <3>2, <4>3 DEF Map!Unname, View, Stored
      <4>5. QED
        BY <4>4 DEF Map!Next
    <3>4. CASE ~o.opened
      <4>1. View[h] = Map!Closed /\ ViewOf(m) = Map!Closed
        BY <3>1, <3>4, ViewOfClosed DEF View, HandleStates
      <4>2. View' = View
        BY <3>2, <4>1 DEF View
      <4>3. QED
        BY <3>2, <4>2 DEF Map!mapVars, View, Stored
    <3>5. QED
      BY <3>1, <3>3, <3>4 DEF HandleStates
  <2>3. ASSUME NEW h \in Handles, NEW n \in Namespaces, NEW readOnly \in BOOLEAN, BeginOutOfMemory(h, n, readOnly)
        PROVE  Map!Next
    <3>1. PICK o, m : /\ o = handle[h] /\ o \in HandleStates
                      /\ m = [o EXCEPT !.name = n, !.readOnly = readOnly, !.opened = FALSE, !.allocated = FALSE, !.buffer = <<>>]
      BY <1>2, InvIs DEF GoodHandle
    <3>2. View' = [View EXCEPT ![h] = ViewOf(m)] /\ UNCHANGED Stored
      BY <2>1, <2>3, <3>1, ViewOfOne, StoredSame DEF BeginOutOfMemory
    <3>3. ViewOf(m) = Map!Closed
      BY <3>1, ViewOfClosed DEF HandleStates
    <3>4. Map!Close(h)
      BY <3>2, <3>3 DEF Map!Close, View, Stored
    <3>5. QED
      BY <3>4 DEF Map!Next
  <2>4. ASSUME NEW h \in Handles, NEW n \in Namespaces, NEW readOnly \in BOOLEAN, Begin(h, n, readOnly)
        PROVE  Map!Next
    <3>1. PICK m : /\ handle' = [handle EXCEPT ![h] = m] /\ UNCHANGED nvm
                   /\ m.opened /\ m.name = n /\ m.readOnly = readOnly /\ m.buffer \in {nvm[n].buffer, <<>>}
      BY <1>2, <2>4, BeginIs
    <3>2. View' = [View EXCEPT ![h] = ViewOf(m)] /\ UNCHANGED Stored
      BY <2>1, <3>1, ViewOfOne, StoredSame
    <3>3. ViewOf(m) = [open |-> TRUE, file |-> n, writable |-> ~readOnly, map |-> AsMap(m.buffer)]
      BY <3>1 DEF ViewOf
    <3>4. AsMap(m.buffer) \in {Stored[n], Map!EmptyMap} /\ n \in Files /\ (~readOnly) \in BOOLEAN
      BY <3>1, MapOfNone DEF Stored, Files
    <3>5. Map!Open(h, n, ~readOnly)
      BY <3>2, <3>3, <3>4 DEF Map!Open, View, Stored
    <3>6. QED
      BY <3>4, <3>5 DEF Map!Next
  <2>5. ASSUME NEW h \in Handles, End(h) PROVE Map!Next
    <3>1. View' = [View EXCEPT ![h] = ViewOf(ClosedHandle)] /\ UNCHANGED Stored
      BY <2>1, <2>5, ViewOfOne, StoredSame DEF End
    <3>2. ViewOf(ClosedHandle) = Map!Closed
      BY ViewOfClosed DEF ClosedHandle
    <3>3. Map!Close(h)
      BY <3>1, <3>2 DEF Map!Close, View, Stored
    <3>4. QED
      BY <3>3 DEF Map!Next
  <2>6. ASSUME NEW h \in Handles, Clear(h) PROVE Map!Next
    <3>1. PICK m : Map!Update(h, AsMap(m.buffer)) /\ m.buffer = <<>>
      BY <1>2, <2>6, ClearIs, UpdateIs DEF Clear
    <3>2. Map!Clear(h)
      BY <3>1, MapOfNone DEF Map!Clear
    <3>3. QED
      BY <3>2 DEF Map!Next
  <2>7. ASSUME NEW h \in Handles, NEW k \in Keys, RemoveKey(h, k) PROVE Map!Next
    <3>1. PICK m : /\ Map!Update(h, AsMap(m.buffer)) /\ k \in KeysOf(handle[h].buffer)
                   /\ AsMap(m.buffer) = Map!Without(AsMap(handle[h].buffer), k)
      BY <1>2, <2>7, RemoveKeyIs, UpdateIs DEF RemoveKey
    <3>2. View[h].map = AsMap(handle[h].buffer) /\ DOMAIN View[h].map = KeysOf(handle[h].buffer)
      BY <2>7 DEF View, ViewOf, RemoveKey, MayWrite, AsMap
    <3>3. k \in DOMAIN View[h].map /\ Map!Update(h, Map!Without(View[h].map, k))
      BY <3>1, <3>2
    <3>4. Map!Remove(h, k)
      BY <3>3 DEF Map!Remove, View
    <3>5. QED
      BY <3>4 DEF Map!Next
  <2>8. ASSUME NEW h \in Handles, NEW k \in Keys, NEW v \in Values, Put(h, k, v) PROVE Map!Next
    <3>1. PICK m : /\ Map!Update(h, AsMap(m.buffer))
                   /\ AsMap(m.buffer) = Map!With(AsMap(handle[h].buffer), k, v)
      BY <1>2, <2>8, PutIs, UpdateIs DEF Put
    <3>2. View[h].map = AsMap(handle[h].buffer)
      BY <2>8 DEF View, ViewOf, Put, MayWrite
    <3>3. Map!Update(h, Map!With(View[h].map, k, v))
      BY <3>1, <3>2
    <3>4. Map!Store(h, k, v)
      BY <3>3 DEF Map!Store, View
    <3>5. QED
      BY <3>4 DEF Map!Next
  <2>9. CASE Restart
    <3>1. \A h \in Handles : handle'[h] = ClosedHandle
      BY <2>9 DEF Restart
    <3>2. \A h \in Handles : ViewOf(handle'[h]) = Map!Closed
      BY <3>1, ViewOfClosed DEF ClosedHandle
    <3>3. View' = [h \in Handles |-> ViewOf(handle'[h])]
      BY DEF View, ViewOf
    <3>4. View' = [h \in Handles |-> Map!Closed] /\ UNCHANGED Stored
      BY <2>9, <3>2, <3>3, StoredSame DEF Restart
    <3>5. Map!Restart
      BY <3>4 DEF Map!Restart, View, Stored
    <3>6. QED
      BY <3>5 DEF Map!Next
  <2>10. CASE UNCHANGED vars
    <3>1. View' = View
      BY <2>10 DEF View, ViewOf, vars
    <3>2. QED
      BY <2>10, <3>1, StoredSame DEF vars, Map!mapVars, View, Stored
  <2>11. QED
    BY <1>2, <2>2, <2>3, <2>4, <2>5, <2>6, <2>7, <2>8, <2>9, <2>10 DEF Next, Edit
<1>3. QED
  BY <1>1, <1>2, StoreInvIsInvariant, PTL DEF Spec, ImplementsMap, Map!Spec

-----------------------------------------------------------------------------
(* Keys that disappear *)

\* An edit by h, with m what it leaves in the buffer, loses from a file no key but one
\* that m has not, unless the file is lost as a whole.
LEMMA KeysWrittenBack ==
  ASSUME StoreInv, NEW h \in Handles, MayWrite(h), NEW m, Edited(h, m), WriteBack(h, m),
         NEW f \in Files, NEW k \in KeysOf(nvm[f].buffer), k \notin KeysOf(nvm'[f].buffer), nvm'[f] # Absent
  PROVE  handle[h].name = f /\ k \notin KeysOf(m.buffer) /\ handle'[h] = m
<1>1. m.name = handle[h].name /\ handle'[h] = m
  BY InvIs DEF Edited, SameObject, WriteBack
<1>2. PICK left \in {[kind |-> "preferences", buffer |-> m.buffer, used |-> m.used], nvm[m.name], Absent} :
        nvm' = [nvm EXCEPT ![m.name] = left]
  BY DEF WriteBack
<1>3. nvm'[f] # nvm[f]
  OBVIOUS
<1>4. f = m.name /\ nvm'[f] = left
  BY <1>2, <1>3, InvIs
<1>5. left.buffer = m.buffer
  BY <1>2, <1>3, <1>4
<1>6. QED
  BY <1>1, <1>4, <1>5

THEOREM StoreLosesKeysKnowingly == Spec => KeysLostKnowingly
<1> DEFINE Lost(f, k) == k \in KeysOf(nvm[f].buffer) /\ k \notin KeysOf(nvm'[f].buffer)
           Knowingly(f, k) == \/ nvm'[f] = Absent
                              \/ \E h \in Handles : /\ handle[h].name = f /\ MayWrite(h)
                                                    /\ \/ k \notin KeysOf(handle[h].buffer)
                                                       \/ k \notin KeysOf(handle'[h].buffer) /\ (RemoveKey(h, k) \/ Clear(h))
<1>1. ASSUME StoreInv, [Next]_vars, NEW f \in Files, NEW k, Lost(f, k) PROVE Knowingly(f, k)
  <2>1. nvm' # nvm
    BY <1>1
  <2>2. ASSUME NEW h \in Handles, Clear(h) PROVE Knowingly(f, k)
    <3>1. MayWrite(h) /\ \E m : Edited(h, m) /\ WriteBack(h, m)
      BY <1>1, <2>2, ClearIs DEF Clear
    <3>2. QED
      BY <1>1, <2>2, <3>1, KeysWrittenBack
  <2>3. ASSUME NEW h \in Handles, NEW j \in Keys, RemoveKey(h, j) PROVE Knowingly(f, k)
    <3>1. MayWrite(h)
      BY <2>3 DEF RemoveKey
    <3>2. PICK m : /\ Edited(h, m) /\ WriteBack(h, m)
                   /\ AsMap(m.buffer) = Map!Without(AsMap(handle[h].buffer), j)
      BY <1>1, <2>3, RemoveKeyIs
    <3>3. KeysOf(m.buffer) = KeysOf(handle[h].buffer) \ {j}
      <4>1. PICK p, q : p = AsMap(m.buffer) /\ q = AsMap(handle[h].buffer)
        OBVIOUS
      <4>2. DOMAIN p = KeysOf(m.buffer) /\ DOMAIN q = KeysOf(handle[h].buffer)
        BY <4>1 DEF AsMap
      <4>3. p = Map!Without(q, j)
        BY <3>2, <4>1
      <4>4. DOMAIN p = DOMAIN q \ {j}
        BY <4>3 DEF Map!Without, Map!Restrict
      <4>5. QED
        BY <4>2, <4>4
    <3>4. CASE nvm'[f] = Absent
      BY <3>4
    <3>5. CASE nvm'[f] # Absent
      <4>1. handle[h].name = f /\ k \notin KeysOf(m.buffer) /\ handle'[h] = m
        BY <1>1, <3>1, <3>2, <3>5, KeysWrittenBack
      <4>2. k \notin KeysOf(handle[h].buffer) \/ k = j
        BY <3>3, <4>1
      <4>3. QED
        BY <2>3, <3>1, <4>1, <4>2
    <3>6. QED
      BY <3>4, <3>5
  <2>4. ASSUME NEW h \in Handles, NEW j \in Keys, NEW v \in Values, Put(h, j, v) PROVE Knowingly(f, k)
    <3>1. PICK m : /\ MayWrite(h) /\ Edited(h, m) /\ WriteBack(h, m)
                   /\ KeysOf(handle[h].buffer) \subseteq KeysOf(m.buffer)
      BY <1>1, <2>4, PutIs DEF Put
    <3>2. QED
      BY <1>1, <3>1, KeysWrittenBack
  <2>5. QED
    BY <1>1, <2>1, <2>2, <2>3, <2>4 DEF Next, Edit, vars, BeginNameTooLong, BeginOutOfMemory, Begin, End, Restart
<1>2. ASSUME StoreInv, [Next]_vars
      PROVE  [\A f \in Files : \A k \in KeysOf(nvm[f].buffer) \ KeysOf(nvm[f].buffer)' :
                \/ nvm'[f] = Absent
                \/ \E h \in Handles : /\ handle[h].name = f /\ MayWrite(h)
                                      /\ \/ k \notin KeysOf(handle[h].buffer)
                                         \/ k \notin KeysOf(handle'[h].buffer) /\ (RemoveKey(h, k) \/ Clear(h))]_vars
  BY <1>1, <1>2 DEF KeysOf
<1>3. QED
  BY <1>2, StoreInvIsInvariant, PTL DEF Spec, KeysLostKnowingly

-----------------------------------------------------------------------------
(* EEPROM *)

CopiesTyped ==
  /\ data \in [Stores -> Seq(Eeprom!Bytes)] /\ dirty \in [Stores -> BOOLEAN]
  /\ refs \in [Stores -> SUBSET Int] /\ edited \in [Stores -> SUBSET Int]
  /\ images \in [Eeprom!Files -> Seq(Eeprom!Bytes)] /\ write \in {"none", "ok", "failed"}
  /\ silent \subseteq Stores /\ behind \subseteq Stores

\* The byte a begin() would read at address a of an image.
ImageByte(image, a) == IF a < Len(image) THEN image[a + 1] ELSE Erased

\* References and edits are inside of the copy.
Fits(d, r, e) == Len(d) <= MaxSize /\ r \subseteq 0 .. Len(d) - 1 /\ e \subseteq 0 .. Len(d) - 1

\* A copy d with the edits e differs from the image in edited bytes only.
DiffersInEdits(d, e, image) ==
  \A a \in 0 .. Len(d) - 1 : a \in e \/ d[a + 1] = ImageByte(image, a)

CopiesInv ==
  /\ CopiesTyped
  /\ \A o \in Stores : Fits(data[o], refs[o], edited[o])
  /\ \A o \in Stores : o \in behind \/ DiffersInEdits(data[o], edited[o], images[Eeprom!FileOf(o)])
  /\ \A o \in Stores : edited[o] = {} \/ dirty[o] \/ o \in silent

LEMMA FileIsFile == \A o \in Stores : Eeprom!FileOf(o) \in Eeprom!Files
  BY DEF Eeprom!Files

\* What CopiesInv says of one object.
LEMMA OfObject ==
  ASSUME CopiesInv, NEW o \in Stores
  PROVE  /\ data[o] \in Seq(Eeprom!Bytes) /\ dirty[o] \in BOOLEAN /\ refs[o] \in SUBSET Int /\ edited[o] \in SUBSET Int
         /\ Fits(data[o], refs[o], edited[o]) /\ images[Eeprom!FileOf(o)] \in Seq(Eeprom!Bytes)
         /\ o \in behind \/ DiffersInEdits(data[o], edited[o], images[Eeprom!FileOf(o)])
         /\ edited[o] = {} \/ dirty[o] \/ o \in silent
  BY FileIsFile, Zenon DEF CopiesInv, CopiesTyped

\* A call that changes one object, and says which others have lost track, keeps CopiesInv.
LEMMA OneObject ==
  ASSUME CopiesInv, NEW o \in Stores,
         CopiesTyped',
         \A p \in Stores \ {o} : /\ data'[p] = data[p] /\ refs'[p] = refs[p] /\ edited'[p] = edited[p]
                                 /\ dirty'[p] = dirty[p] /\ (p \in silent => p \in silent')
                                 /\ (p \in behind => p \in behind') /\ (p \in Eeprom!Missed(o) => p \in behind'),
         \A f \in Eeprom!Files \ {Eeprom!FileOf(o)} : images'[f] = images[f],
         Fits(data'[o], refs'[o], edited'[o]),
         o \in behind' \/ DiffersInEdits(data'[o], edited'[o], images'[Eeprom!FileOf(o)]),
         edited'[o] = {} \/ dirty'[o] \/ o \in silent'
  PROVE  CopiesInv'
<1>1. ASSUME NEW p \in Stores \ {o}
      PROVE  /\ Fits(data'[p], refs'[p], edited'[p])
             /\ p \in behind' \/ DiffersInEdits(data'[p], edited'[p], images'[Eeprom!FileOf(p)])
             /\ edited'[p] = {} \/ dirty'[p] \/ p \in silent'
  <2>1. /\ Fits(data[p], refs[p], edited[p])
        /\ p \in behind \/ DiffersInEdits(data[p], edited[p], images[Eeprom!FileOf(p)])
        /\ edited[p] = {} \/ dirty[p] \/ p \in silent
    BY OfObject
  <2>2. Fits(data'[p], refs'[p], edited'[p]) /\ (edited'[p] = {} \/ dirty'[p] \/ p \in silent')
    BY <2>1, Zenon
  <2>3. CASE p \in behind \/ p \in Eeprom!Missed(o)
    BY <2>2, <2>3
  <2>4. CASE p \notin behind /\ p \notin Eeprom!Missed(o)
    <3>1. ~Eeprom!Open(p) \/ images'[Eeprom!FileOf(p)] = images[Eeprom!FileOf(p)] \/ Eeprom!FileOf(p) # Eeprom!FileOf(o)
      BY <2>4, Zenon DEF Eeprom!Missed
    <3>2. CASE ~Eeprom!Open(p)
      <4>1. data'[p] = <<>> /\ 0 .. Len(<<>>) - 1 = {}
        BY <3>2 DEF Eeprom!Open
      <4>2. QED
        BY <2>2, <4>1, Zenon DEF DiffersInEdits
    <3>3. CASE images'[Eeprom!FileOf(p)] = images[Eeprom!FileOf(p)]
      BY <2>1, <2>2, <2>4, <3>3, Zenon
    <3>4. CASE Eeprom!FileOf(p) # Eeprom!FileOf(o)
      <4>1. images'[Eeprom!FileOf(p)] = images[Eeprom!FileOf(p)]
        BY <3>4, FileIsFile
      <4>2. QED
        BY <2>1, <2>2, <2>4, <4>1, Zenon
    <3>5. QED
      BY <3>1, <3>2, <3>3, <3>4
  <2>5. QED
    BY <2>3, <2>4
<1>2. \A p \in Stores : /\ Fits(data'[p], refs'[p], edited'[p])
                        /\ p \in behind' \/ DiffersInEdits(data'[p], edited'[p], images'[Eeprom!FileOf(p)])
                        /\ edited'[p] = {} \/ dirty'[p] \/ p \in silent'
  BY <1>1, Zenon
<1>3. QED
  BY <1>2, Zenon DEF CopiesInv, Fits, DiffersInEdits, ImageByte

-----------------------------------------------------------------------------
(* The operators *)

\* A copy that was just read differs from the image in nothing.
LEMMA ViewIs ==
  ASSUME NEW image \in Seq(Eeprom!Bytes), NEW size \in Nat
  PROVE  /\ Eeprom!View(image, size) \in Seq(Eeprom!Bytes) /\ Len(Eeprom!View(image, size)) = size
         /\ DiffersInEdits(Eeprom!View(image, size), {}, image)
<1>1. PICK n \in Nat : n = Len(image)
  OBVIOUS
<1>2. PICK v : v = Eeprom!View(image, size)
  OBVIOUS
<1>3. v = [i \in 1 .. size |-> IF i <= n THEN image[i] ELSE Erased]
  BY <1>1, <1>2 DEF Eeprom!View
<1>4. \A i \in 1 .. n : image[i] \in Eeprom!Bytes
  BY <1>1, ElementOfSeq
<1>5. v \in [1 .. size -> Eeprom!Bytes]
  <2>1. Erased \in Eeprom!Bytes
    BY DEF Eeprom!Bytes
  <2>2. \A i \in 1 .. size : i <= n => i \in 1 .. n
    OBVIOUS
  <2>3. QED
    BY <1>3, <1>4, <2>1, <2>2
<1>6. v \in Seq(Eeprom!Bytes) /\ Len(v) = size
  BY <1>5
<1>7. \A a \in 0 .. size - 1 : v[a + 1] = IF a < n THEN image[a + 1] ELSE Erased
  <2>1. SUFFICES ASSUME NEW a \in 0 .. size - 1 PROVE v[a + 1] = IF a < n THEN image[a + 1] ELSE Erased
    OBVIOUS
  <2>2. a + 1 \in 1 .. size /\ (a < n <=> a + 1 <= n)
    BY <1>1
  <2>3. QED
    BY <1>3, <2>2
<1>8. DiffersInEdits(v, {}, image)
  BY <1>1, <1>6, <1>7, Zenon DEF DiffersInEdits, ImageByte
<1>9. QED
  BY <1>2, <1>6, <1>8

\* A copy into which bytes were written differs from before in those only.
LEMMA OverlayIs ==
  ASSUME NEW o \in Stores, data[o] \in Seq(Eeprom!Bytes), NEW a \in Nat, NEW vs \in Seq(Eeprom!Bytes),
         a + Len(vs) <= Len(data[o])
  PROVE  /\ Eeprom!Overlay(o, a, vs) \in Seq(Eeprom!Bytes) /\ Len(Eeprom!Overlay(o, a, vs)) = Len(data[o])
         /\ \A b \in 0 .. Len(data[o]) - 1 :
              b \in a .. a + Len(vs) - 1 \/ Eeprom!Overlay(o, a, vs)[b + 1] = data[o][b + 1]
<1>1. PICK d \in Seq(Eeprom!Bytes) : d = data[o]
  OBVIOUS
<1>2. PICK n \in Nat : n = Len(d)
  OBVIOUS
<1>3. PICK k \in Nat : k = Len(vs) /\ a + k <= n
  BY <1>1, <1>2
<1>4. PICK v : v = Eeprom!Overlay(o, a, vs)
  OBVIOUS
<1>5. v = [i \in 1 .. n |-> IF i \in a + 1 .. a + k THEN vs[i - a] ELSE d[i]]
  BY <1>1, <1>2, <1>3, <1>4, Zenon DEF Eeprom!Overlay
<1>6. (\A i \in 1 .. n : d[i] \in Eeprom!Bytes) /\ (\A i \in 1 .. k : vs[i] \in Eeprom!Bytes)
  BY <1>2, <1>3, ElementOfSeq
<1>7. v \in [1 .. n -> Eeprom!Bytes]
  <2>1. \A i \in a + 1 .. a + k : i - a \in 1 .. k
    OBVIOUS
  <2>2. QED
    BY <1>5, <1>6, <2>1
<1>8. v \in Seq(Eeprom!Bytes) /\ Len(v) = n
  BY <1>7
<1>9. \A b \in 0 .. n - 1 : b \in a .. a + k - 1 \/ v[b + 1] = d[b + 1]
  <2>1. \A b \in 0 .. n - 1 : b + 1 \in 1 .. n /\ (b + 1 \in a + 1 .. a + k <=> b \in a .. a + k - 1)
    OBVIOUS
  <2>2. QED
    BY <1>5, <2>1
<1>10. QED
  BY <1>1, <1>2, <1>3, <1>4, <1>8, <1>9

\* What commit() does to the files.
LEMMA CommitWrites ==
  ASSUME CopiesInv, NEW o \in Stores, Eeprom!Stored(o) \/ Eeprom!NotStored(o) \/ Eeprom!NoWrite
  PROVE  /\ images' \in [Eeprom!Files -> Seq(Eeprom!Bytes)] /\ write' \in {"none", "ok", "failed"}
         /\ \A f \in Eeprom!Files \ {Eeprom!FileOf(o)} : images'[f] = images[f]
         /\ Eeprom!Stored(o) => images'[Eeprom!FileOf(o)] = data[o]
<1>1. images \in [Eeprom!Files -> Seq(Eeprom!Bytes)] /\ Eeprom!FileOf(o) \in Eeprom!Files /\ data[o] \in Seq(Eeprom!Bytes) /\ <<>> \in Seq(Eeprom!Bytes)
  BY FileIsFile, OfObject, EmptySeq DEF CopiesInv, CopiesTyped
<1>2. QED
  BY <1>1 DEF Eeprom!Stored, Eeprom!NotStored, Eeprom!NoWrite

\* A copy differs from itself in nothing.
LEMMA Itself == \A d \in Seq(Eeprom!Bytes) : \A e : DiffersInEdits(d, e, d)
<1> SUFFICES ASSUME NEW d \in Seq(Eeprom!Bytes), NEW e, NEW a \in 0 .. Len(d) - 1 PROVE d[a + 1] = ImageByte(d, a)
  BY DEF DiffersInEdits
<1>1. PICK n \in Nat : n = Len(d)
  OBVIOUS
<1>2. a < n
  BY <1>1
<1>3. QED
  BY <1>1, <1>2 DEF ImageByte

-----------------------------------------------------------------------------
(* The steps *)

LEMMA CopiesInit == Eeprom!Init => CopiesInv
<1> SUFFICES ASSUME Eeprom!Init PROVE CopiesInv
  OBVIOUS
<1>1. <<>> \in Seq(Eeprom!Bytes) /\ Len(<<>>) = 0 /\ 0 .. 0 - 1 = {} /\ MaxSize \in Nat
  BY EmptySeq, EepromAssumption DEF Eeprom!EepromAssumption
<1>2. CopiesTyped
  BY <1>1 DEF Eeprom!Init, CopiesTyped
<1>3. \A o \in Stores : data[o] = <<>> /\ refs[o] = {} /\ edited[o] = {}
  BY DEF Eeprom!Init
<1>4. Fits(<<>>, {}, {}) /\ \A image : DiffersInEdits(<<>>, {}, image)
  BY <1>1 DEF Fits, DiffersInEdits
<1>5. QED
  BY <1>2, <1>3, <1>4, Zenon DEF CopiesInv

LEMMA InvRestart == CopiesInv /\ Eeprom!Restart => CopiesInv'
<1> SUFFICES ASSUME CopiesInv, Eeprom!Restart PROVE CopiesInv'
  OBVIOUS
<1>1. <<>> \in Seq(Eeprom!Bytes) /\ Len(<<>>) = 0 /\ 0 .. 0 - 1 = {} /\ MaxSize \in Nat
  BY EmptySeq, EepromAssumption DEF Eeprom!EepromAssumption
<1>2. CopiesTyped'
  BY <1>1 DEF Eeprom!Restart, Eeprom!NoWrite, CopiesInv, CopiesTyped
<1>3. \A o \in Stores : data'[o] = <<>> /\ refs'[o] = {} /\ edited'[o] = {}
  BY DEF Eeprom!Restart
<1>4. Fits(<<>>, {}, {}) /\ \A image : DiffersInEdits(<<>>, {}, image)
  BY <1>1 DEF Fits, DiffersInEdits
<1>5. \A o \in Stores : /\ Fits(data'[o], refs'[o], edited'[o]) /\ edited'[o] = {}
                        /\ DiffersInEdits(data'[o], edited'[o], images'[Eeprom!FileOf(o)])
  BY <1>3, <1>4, Zenon
<1>6. QED
  BY <1>2, <1>5, Zenon DEF CopiesInv, Fits, DiffersInEdits, ImageByte

LEMMA InvCommit == \A o \in Stores : CopiesInv /\ Eeprom!Commit(o) => CopiesInv'
<1> SUFFICES ASSUME NEW o \in Stores, CopiesInv, Eeprom!Commit(o) PROVE CopiesInv'
  OBVIOUS
<1>1. data' = data /\ refs' = refs
  BY DEF Eeprom!Commit
<1>2. Eeprom!Missed(o) \subseteq Stores
  BY DEF Eeprom!Missed
<1>3. CASE /\ Eeprom!Stored(o)
           /\ dirty' = [dirty EXCEPT ![o] = FALSE]
           /\ edited' = [edited EXCEPT ![o] = {}]
           /\ silent' = silent \ {o}
           /\ behind' = (behind \ {o}) \cup Eeprom!Missed(o)
  <2>1. CopiesTyped'
    BY <1>1, <1>2, <1>3, CommitWrites DEF CopiesInv, CopiesTyped
  <2>2. /\ data'[o] = data[o] /\ refs'[o] = refs[o] /\ edited'[o] = {}
        /\ images'[Eeprom!FileOf(o)] = data[o]
    BY <1>1, <1>3, CommitWrites DEF CopiesInv, CopiesTyped
  <2>3. Fits(data'[o], refs'[o], edited'[o])
    BY <2>2, OfObject, Zenon DEF Fits
  <2>4. DiffersInEdits(data'[o], edited'[o], images'[Eeprom!FileOf(o)])
    BY <2>2, OfObject, Itself, Zenon
  <2>5. \A p \in Stores \ {o} : dirty'[p] = dirty[p] /\ edited'[p] = edited[p]
    BY <1>3 DEF CopiesInv, CopiesTyped
  <2>6. QED
    BY <1>1, <1>3, <2>1, <2>2, <2>3, <2>4, <2>5, OneObject, CommitWrites
<1>4. CASE /\ Eeprom!NotStored(o)
           /\ behind' = behind \cup Eeprom!Missed(o) \cup (IF images' # images THEN {o} ELSE {})
           /\ UNCHANGED <<dirty, silent, edited>>
  <2>1. CopiesTyped'
    BY <1>1, <1>2, <1>4, CommitWrites DEF CopiesInv, CopiesTyped
  <2>2. o \in behind' \/ images' = images
    BY <1>4
  <2>3. QED
    BY <1>1, <1>4, <2>1, <2>2, OfObject, OneObject, CommitWrites
<1>5. QED
  BY <1>3, <1>4, Zenon DEF Eeprom!Commit

\* end() and begin() replace the copy by one that is as the file then is, unless
\* the object is among those that have lost track.
LEMMA InvReplaced ==
  ASSUME CopiesInv, NEW o \in Stores, Eeprom!CommitIfDirty(o), NEW d \in Seq(Eeprom!Bytes), Len(d) <= MaxSize, Eeprom!Replaced(o, d),
         behind' \subseteq Stores, behind \ {o} \subseteq behind', Eeprom!Missed(o) \subseteq behind',
         o \in behind' \/ DiffersInEdits(d, {}, images'[Eeprom!FileOf(o)])
  PROVE  CopiesInv'
<1>1. Eeprom!Stored(o) \/ Eeprom!NotStored(o) \/ Eeprom!NoWrite
  BY DEF Eeprom!CommitIfDirty
<1>2. /\ data' = [data EXCEPT ![o] = d] /\ dirty' = [dirty EXCEPT ![o] = FALSE]
      /\ refs' = [refs EXCEPT ![o] = {}] /\ silent' = silent \ {o} /\ edited' = [edited EXCEPT ![o] = {}]
  BY DEF Eeprom!Replaced
<1>3. CopiesTyped'
  BY <1>1, <1>2, CommitWrites DEF CopiesInv, CopiesTyped
<1>4. data'[o] = d /\ refs'[o] = {} /\ edited'[o] = {}
  BY <1>2 DEF CopiesInv, CopiesTyped
<1>5. Fits(data'[o], refs'[o], edited'[o])
  BY <1>4 DEF Fits
<1>6. \A p \in Stores \ {o} : /\ data'[p] = data[p] /\ refs'[p] = refs[p] /\ edited'[p] = edited[p]
                              /\ dirty'[p] = dirty[p] /\ (p \in silent => p \in silent')
                              /\ (p \in behind => p \in behind') /\ (p \in Eeprom!Missed(o) => p \in behind')
  BY <1>2 DEF CopiesInv, CopiesTyped
<1>7. o \in behind' \/ DiffersInEdits(data'[o], edited'[o], images'[Eeprom!FileOf(o)])
  BY <1>4, Zenon
<1>8. QED
  BY <1>1, <1>3, <1>4, <1>5, <1>6, <1>7, OneObject, CommitWrites, Zenon

LEMMA InvEnd == \A o \in Stores : CopiesInv /\ Eeprom!End(o) => CopiesInv'
<1> SUFFICES ASSUME NEW o \in Stores, CopiesInv, Eeprom!End(o) PROVE CopiesInv'
  OBVIOUS
<1>1. Eeprom!CommitIfDirty(o) /\ Eeprom!Replaced(o, <<>>) /\ behind' = (behind \ {o}) \cup Eeprom!Missed(o)
  BY DEF Eeprom!End
<1>2. <<>> \in Seq(Eeprom!Bytes) /\ Len(<<>>) = 0 /\ 0 .. 0 - 1 = {} /\ 0 <= MaxSize
  BY EmptySeq, EepromAssumption DEF Eeprom!EepromAssumption
<1>3. DiffersInEdits(<<>>, {}, images'[Eeprom!FileOf(o)])
  BY <1>2 DEF DiffersInEdits
<1>4. behind' \subseteq Stores
  BY <1>1 DEF Eeprom!Missed, CopiesInv, CopiesTyped
<1>5. QED
  BY <1>1, <1>2, <1>3, <1>4, InvReplaced

LEMMA InvBegin == \A o \in Stores : \A size \in Sizes : CopiesInv /\ Eeprom!Begin(o, size) => CopiesInv'
<1> SUFFICES ASSUME NEW o \in Stores, NEW size \in Sizes, CopiesInv, Eeprom!Begin(o, size) PROVE CopiesInv'
  OBVIOUS
<1>1. Eeprom!CommitIfDirty(o) /\ size \in Nat /\ size <= MaxSize
  BY EepromAssumption DEF Eeprom!EepromAssumption, Eeprom!Begin
<1>2. Eeprom!Missed(o) \subseteq Stores /\ behind \subseteq Stores
  BY DEF Eeprom!Missed, CopiesInv, CopiesTyped
<1>3. <<>> \in Seq(Eeprom!Bytes) /\ Len(<<>>) = 0 /\ 0 .. 0 - 1 = {} /\ 0 <= MaxSize
  BY EmptySeq, EepromAssumption DEF Eeprom!EepromAssumption
<1>4. CASE Eeprom!Replaced(o, <<>>) /\ behind' = (behind \ {o}) \cup Eeprom!Missed(o)
  <2>1. DiffersInEdits(<<>>, {}, images'[Eeprom!FileOf(o)])
    BY <1>3 DEF DiffersInEdits
  <2>2. QED
    BY <1>1, <1>2, <1>3, <1>4, <2>1, InvReplaced
<1>5. CASE Eeprom!Replaced(o, Eeprom!View(images'[Eeprom!FileOf(o)], size)) /\ behind' = (behind \ {o}) \cup Eeprom!Missed(o)
  <2>1. images'[Eeprom!FileOf(o)] \in Seq(Eeprom!Bytes)
    BY <1>1, CommitWrites, FileIsFile DEF Eeprom!CommitIfDirty
  <2>2. PICK d : d = Eeprom!View(images'[Eeprom!FileOf(o)], size)
    OBVIOUS
  <2>3. d \in Seq(Eeprom!Bytes) /\ Len(d) = size /\ DiffersInEdits(d, {}, images'[Eeprom!FileOf(o)])
    BY <1>1, <2>1, <2>2, ViewIs
  <2>4. Len(d) <= MaxSize
    BY <1>1, <2>3, Zenon
  <2>5. Eeprom!Replaced(o, d)
    BY <1>5, <2>2
  <2>6. QED
    BY <1>1, <1>2, <1>5, <2>3, <2>4, <2>5, InvReplaced
<1>6. CASE Eeprom!Replaced(o, Eeprom!View(<<>>, size)) /\ behind' = behind \cup {o} \cup Eeprom!Missed(o)
  <2>1. PICK d : d = Eeprom!View(<<>>, size)
    OBVIOUS
  <2>2. d \in Seq(Eeprom!Bytes) /\ Len(d) = size
    BY <1>1, <1>3, <2>1, ViewIs
  <2>3. Len(d) <= MaxSize
    BY <1>1, <2>2, Zenon
  <2>4. Eeprom!Replaced(o, d)
    BY <1>6, <2>1
  <2>5. QED
    BY <1>1, <1>2, <1>6, <2>2, <2>3, <2>4, InvReplaced
<1>7. QED
  BY <1>4, <1>5, <1>6, Zenon DEF Eeprom!Begin

\* A store of bytes into an open copy that records them, or that its copy was
\* changed through an old reference.
LEMMA InvStored ==
  ASSUME CopiesInv, NEW o \in Stores, NEW a \in Nat, NEW vs \in Seq(Eeprom!Bytes), a + Len(vs) <= Len(data[o]),
         data' = [data EXCEPT ![o] = Eeprom!Overlay(o, a, vs)],
         edited' = [edited EXCEPT ![o] = @ \cup (a .. a + Len(vs) - 1)],
         dirty' \in [Stores -> BOOLEAN], \A p \in Stores \ {o} : dirty'[p] = dirty[p],
         silent \subseteq silent', silent' \subseteq Stores, dirty'[o] \/ o \in silent',
         refs' = refs, behind' = behind, Eeprom!NoWrite
  PROVE  CopiesInv'
<1>1. PICK d \in Seq(Eeprom!Bytes) : d = data[o]
  BY OfObject
<1>2. PICK v : v = Eeprom!Overlay(o, a, vs)
  OBVIOUS
<1>3. PICK n \in Nat : n = Len(d)
  OBVIOUS
<1>4. PICK k \in Nat : k = Len(vs) /\ a + k <= n
  BY <1>1, <1>3
<1>5. /\ v \in Seq(Eeprom!Bytes) /\ Len(v) = n
      /\ \A b \in 0 .. n - 1 : b \in a .. a + k - 1 \/ v[b + 1] = d[b + 1]
  BY <1>1, <1>2, <1>3, <1>4, OverlayIs
<1>6. PICK e : e = edited[o] \cup (a .. a + k - 1)
  OBVIOUS
<1>7. data' = [data EXCEPT ![o] = v] /\ edited' = [edited EXCEPT ![o] = e]
  BY <1>2, <1>4, <1>6
<1>8. e \in SUBSET Int /\ Fits(v, refs[o], e)
  <2>1. Fits(d, refs[o], edited[o]) /\ edited[o] \in SUBSET Int
    BY <1>1, OfObject
  <2>2. n <= MaxSize /\ refs[o] \subseteq 0 .. n - 1 /\ edited[o] \subseteq 0 .. n - 1
    BY <1>3, <2>1, Zenon DEF Fits
  <2>3. a .. a + k - 1 \subseteq 0 .. n - 1
    BY <1>4
  <2>4. n <= MaxSize /\ refs[o] \subseteq 0 .. n - 1 /\ e \subseteq 0 .. n - 1
    BY <1>6, <2>2, <2>3
  <2>5. Fits(v, refs[o], e)
    BY <1>5, <2>4, Zenon DEF Fits
  <2>6. QED
    BY <2>4, <2>5
<1>9. CopiesTyped'
  BY <1>5, <1>7, <1>8, ZenonT(30) DEF CopiesInv, CopiesTyped, Eeprom!NoWrite
<1>10. /\ data'[o] = v /\ edited'[o] = e
       /\ \A p \in Stores \ {o} : data'[p] = data[p] /\ edited'[p] = edited[p]
  BY <1>7 DEF CopiesInv, CopiesTyped
<1>11. o \in behind \/ DiffersInEdits(v, e, images[Eeprom!FileOf(o)])
  <2>1. CASE DiffersInEdits(d, edited[o], images[Eeprom!FileOf(o)])
    <3>1. SUFFICES ASSUME NEW b \in 0 .. n - 1 PROVE b \in e \/ v[b + 1] = ImageByte(images[Eeprom!FileOf(o)], b)
      BY <1>5, Zenon DEF DiffersInEdits
    <3>2. b \in edited[o] \/ d[b + 1] = ImageByte(images[Eeprom!FileOf(o)], b)
      BY <1>3, <2>1, Zenon DEF DiffersInEdits
    <3>3. b \in a .. a + k - 1 \/ v[b + 1] = d[b + 1]
      BY <1>5
    <3>4. QED
      BY <1>6, <3>2, <3>3, Zenon
  <2>2. QED
    BY <1>1, <2>1, OfObject
<1>12. images' = images
  BY DEF Eeprom!NoWrite
<1>13. Fits(data'[o], refs'[o], edited'[o]) /\ (o \in behind' \/ DiffersInEdits(data'[o], edited'[o], images'[Eeprom!FileOf(o)]))
  BY <1>8, <1>10, <1>11, <1>12, Zenon
<1>14. Eeprom!Missed(o) = {}
  BY <1>12, FileIsFile DEF Eeprom!Missed
<1>15. QED
  BY <1>9, <1>10, <1>12, <1>13, <1>14, OneObject, Zenon

LEMMA InvWriteByte == \A o \in Stores : \A a \in Addresses : \A v \in Eeprom!Bytes : CopiesInv /\ Eeprom!WriteByte(o, a, v) => CopiesInv'
<1> SUFFICES ASSUME NEW o \in Stores, NEW a \in Addresses, NEW v \in Eeprom!Bytes, CopiesInv, Eeprom!WriteByte(o, a, v) PROVE CopiesInv'
  OBVIOUS
<1>1. PICK n \in Nat : n = Len(data[o])
  BY OfObject
<1>2. a \in Nat /\ a < n
  BY <1>1, EepromAssumption DEF Eeprom!EepromAssumption, Eeprom!WriteByte, Eeprom!validAddress
<1>3. <<v>> \in Seq(Eeprom!Bytes) /\ Len(<<v>>) = 1 /\ a + 1 <= n /\ a .. a + 1 - 1 = {a}
  BY <1>2
<1>4. /\ data' = [data EXCEPT ![o] = Eeprom!Overlay(o, a, <<v>>)] /\ dirty' = [dirty EXCEPT ![o] = TRUE]
      /\ edited' = [edited EXCEPT ![o] = @ \cup {a}] /\ Eeprom!NoWrite
      /\ refs' = refs /\ silent' = silent /\ behind' = behind
  BY DEF Eeprom!WriteByte
<1>5. dirty' \in [Stores -> BOOLEAN] /\ dirty'[o] = TRUE /\ \A p \in Stores \ {o} : dirty'[p] = dirty[p]
  BY <1>4 DEF CopiesInv, CopiesTyped
<1>6. silent \subseteq Stores
  BY DEF CopiesInv, CopiesTyped
<1>7. PICK vs : vs = <<v>>
  OBVIOUS
<1>8. vs \in Seq(Eeprom!Bytes) /\ a + Len(vs) <= Len(data[o]) /\ a .. a + Len(vs) - 1 = {a}
  BY <1>1, <1>2, <1>3, <1>7
<1>9. QED
  BY <1>2, <1>4, <1>5, <1>6, <1>7, <1>8, InvStored

LEMMA InvAssign == \A o \in Stores : \A a \in Addresses : \A v \in Eeprom!Bytes : CopiesInv /\ Eeprom!Assign(o, a, v) => CopiesInv'
<1> SUFFICES ASSUME NEW o \in Stores, NEW a \in Addresses, NEW v \in Eeprom!Bytes, CopiesInv, Eeprom!Assign(o, a, v) PROVE CopiesInv'
  OBVIOUS
<1>1. PICK n \in Nat : n = Len(data[o])
  BY OfObject
<1>2. a \in Nat /\ a < n
  <2>1. a \in 0 .. n - 1
    BY <1>1, OfObject DEF Eeprom!Assign, Fits
  <2>2. QED
    BY <2>1
<1>3. <<v>> \in Seq(Eeprom!Bytes) /\ Len(<<v>>) = 1 /\ a + 1 <= n /\ a .. a + 1 - 1 = {a}
  BY <1>2
<1>4. /\ data' = [data EXCEPT ![o] = Eeprom!Overlay(o, a, <<v>>)] /\ dirty' = dirty
      /\ edited' = [edited EXCEPT ![o] = @ \cup {a}] /\ Eeprom!NoWrite
      /\ refs' = refs /\ silent' = (IF dirty[o] THEN silent ELSE silent \cup {o}) /\ behind' = behind
  BY DEF Eeprom!Assign
<1>5. dirty' \in [Stores -> BOOLEAN] /\ \A p \in Stores \ {o} : dirty'[p] = dirty[p]
  BY <1>4 DEF CopiesInv, CopiesTyped
<1>6. silent \subseteq silent' /\ silent' \subseteq Stores /\ (dirty'[o] \/ o \in silent')
  <2>1. silent \subseteq Stores
    BY DEF CopiesInv, CopiesTyped
  <2>2. CASE dirty[o]
    BY <1>4, <2>1, <2>2
  <2>3. CASE ~dirty[o]
    BY <1>4, <2>1, <2>3
  <2>4. QED
    BY <2>2, <2>3
<1>7. PICK vs : vs = <<v>>
  OBVIOUS
<1>8. vs \in Seq(Eeprom!Bytes) /\ a + Len(vs) <= Len(data[o]) /\ a .. a + Len(vs) - 1 = {a}
  BY <1>1, <1>2, <1>3, <1>7
<1>9. QED
  BY <1>2, <1>4, <1>5, <1>6, <1>7, <1>8, InvStored

LEMMA InvWriteRange ==
  \A o \in Stores : \A a \in Addresses : \A v, w \in Eeprom!Bytes : CopiesInv /\ Eeprom!WriteRange(o, a, <<v, w>>) => CopiesInv'
<1> SUFFICES ASSUME NEW o \in Stores, NEW a \in Addresses, NEW v \in Eeprom!Bytes, NEW w \in Eeprom!Bytes,
                    CopiesInv, Eeprom!WriteRange(o, a, <<v, w>>)
             PROVE  CopiesInv'
  OBVIOUS
<1>1. PICK n \in Nat : n = Len(data[o])
  BY OfObject
<1>2. PICK vs : vs = <<v, w>>
  OBVIOUS
<1>3. vs \in Seq(Eeprom!Bytes) /\ Len(vs) = 2
  BY <1>2
<1>4. a \in Nat /\ 2 <= n - a
  BY <1>1, <1>2, <1>3, EepromAssumption DEF Eeprom!EepromAssumption, Eeprom!WriteRange, Eeprom!validRange
<1>5. a + Len(vs) <= Len(data[o])
  BY <1>1, <1>3, <1>4
<1>6. /\ data' = [data EXCEPT ![o] = Eeprom!Overlay(o, a, vs)] /\ dirty' = [dirty EXCEPT ![o] = TRUE]
      /\ edited' = [edited EXCEPT ![o] = @ \cup (a .. a + Len(vs) - 1)] /\ Eeprom!NoWrite
      /\ refs' = refs /\ silent' = silent /\ behind' = behind
  BY <1>2 DEF Eeprom!WriteRange
<1>7. dirty' \in [Stores -> BOOLEAN] /\ dirty'[o] = TRUE /\ \A p \in Stores \ {o} : dirty'[p] = dirty[p]
  BY <1>6 DEF CopiesInv, CopiesTyped
<1>8. silent \subseteq Stores
  BY DEF CopiesInv, CopiesTyped
<1>9. QED
  BY <1>3, <1>4, <1>5, <1>6, <1>7, <1>8, InvStored

LEMMA InvTakeReference ==
  \A o \in Stores : \A as \in SUBSET Eeprom!AddressesOf(o) : CopiesInv /\ Eeprom!TakeReference(o, as) => CopiesInv'
<1> SUFFICES ASSUME NEW o \in Stores, NEW as \in SUBSET Eeprom!AddressesOf(o), CopiesInv, Eeprom!TakeReference(o, as) PROVE CopiesInv'
  OBVIOUS
<1>1. /\ refs' = [refs EXCEPT ![o] = @ \cup as] /\ dirty' = [dirty EXCEPT ![o] = TRUE]
      /\ images' = images /\ write' = "none" /\ data' = data /\ silent' = silent /\ behind' = behind /\ edited' = edited
  BY DEF Eeprom!TakeReference, Eeprom!NoWrite
<1>2. as \subseteq 0 .. Len(data[o]) - 1 /\ as \in SUBSET Int
  <2>1. as \subseteq 0 .. Len(data[o]) - 1
    BY DEF Eeprom!AddressesOf
  <2>2. PICK n \in Nat : n = Len(data[o])
    BY OfObject
  <2>3. as \subseteq 0 .. n - 1
    BY <2>1, <2>2, Zenon
  <2>4. as \in SUBSET Int
    BY <2>3
  <2>5. QED
    BY <2>1, <2>4
<1>3. CopiesTyped'
  BY <1>1, <1>2 DEF CopiesInv, CopiesTyped
<1>4. refs'[o] = refs[o] \cup as /\ dirty'[o] = TRUE /\ \A p \in Stores \ {o} : refs'[p] = refs[p] /\ dirty'[p] = dirty[p]
  BY <1>1 DEF CopiesInv, CopiesTyped
<1>5. Fits(data'[o], refs'[o], edited'[o])
  BY <1>1, <1>2, <1>4, OfObject, Zenon DEF Fits
<1>6. Eeprom!Missed(o) = {}
  BY <1>1, FileIsFile DEF Eeprom!Missed
<1>7. QED
  BY <1>1, <1>3, <1>4, <1>5, <1>6, OfObject, OneObject

LEMMA CopiesNext == CopiesInv /\ [Eeprom!Next]_(Eeprom!vars) => CopiesInv'
<1> SUFFICES ASSUME CopiesInv, [Eeprom!Next]_(Eeprom!vars) PROVE CopiesInv'
  OBVIOUS
<1>1. CASE UNCHANGED Eeprom!vars
  BY <1>1, Zenon DEF Eeprom!vars, CopiesInv, CopiesTyped, Fits, DiffersInEdits, ImageByte
<1>2. CASE \E o \in Stores : Eeprom!Commit(o) \/ Eeprom!End(o)
  BY <1>2, InvCommit, InvEnd
<1>3. CASE \E o \in Stores : Eeprom!Edit(o)
  BY <1>3, InvWriteByte, InvAssign, InvWriteRange DEF Eeprom!Edit
<1>4. CASE \E o \in Stores : \E size \in Sizes : Eeprom!Begin(o, size)
  BY <1>4, InvBegin
<1>5. CASE \E o \in Stores : \E as \in SUBSET Eeprom!AddressesOf(o) : Eeprom!TakeReference(o, as)
  BY <1>5, InvTakeReference
<1>6. CASE Eeprom!Restart
  BY <1>6, InvRestart
<1>7. QED
  BY <1>1, <1>2, <1>3, <1>4, <1>5, <1>6 DEF Eeprom!Next

LEMMA CopiesInvariant == EepromSpec => []CopiesInv
  BY CopiesInit, CopiesNext, PTL DEF EepromSpec, Eeprom!Spec

-----------------------------------------------------------------------------
(* The properties *)

\* Whatever the sketch calls, however often writes fail, memory runs out or the
\* board restarts: a copy that is not dirty is the file's, for every number of
\* objects that share one, and every address the sketch holds is inside of it
\* (EEPROMClass over arduino_nvm_io.c).
THEOREM CleanIsStored == EepromSpec => []EepromInv
<1>1. CopiesInv => EepromInv
  <2> SUFFICES ASSUME CopiesInv PROVE EepromInv
    OBVIOUS
  <2>1. Eeprom!TypeOK
    <3>1. \A o \in Stores : /\ Len(data[o]) <= MaxSize
                            /\ refs[o] \subseteq Eeprom!AddressesOf(o) /\ edited[o] \subseteq Eeprom!AddressesOf(o)
      BY OfObject, Zenon DEF Fits, Eeprom!AddressesOf
    <3>2. \A o \in Stores : \A i \in 1 .. Len(data[o]) : data[o][i] \in Eeprom!Bytes
      BY OfObject, ElementOfSeq, Zenon
    <3>3. \A f \in Eeprom!Files : \A i \in 1 .. Len(images[f]) : images[f][i] \in Eeprom!Bytes
      <4>1. \A f \in Eeprom!Files : images[f] \in Seq(Eeprom!Bytes)
        BY DEF CopiesInv, CopiesTyped
      <4>2. QED
        BY <4>1, ElementOfSeq, Zenon
    <3>4. QED
      BY <3>1, <3>2, <3>3, Zenon DEF Eeprom!TypeOK, CopiesInv, CopiesTyped
  <2>2. Eeprom!CleanMeansStored
    <3>1. SUFFICES ASSUME NEW o \in Stores \ (silent \cup behind), ~dirty[o], NEW a \in Eeprom!AddressesOf(o)
                   PROVE  Eeprom!At(o, a) = IF a < Len(images[Eeprom!FileOf(o)]) THEN images[Eeprom!FileOf(o)][a + 1] ELSE Erased
      BY Zenon DEF Eeprom!CleanMeansStored
    <3>2. DiffersInEdits(data[o], edited[o], images[Eeprom!FileOf(o)]) /\ edited[o] = {}
      BY <3>1, OfObject
    <3>3. a \in 0 .. Len(data[o]) - 1
      BY Zenon DEF Eeprom!AddressesOf
    <3>4. data[o][a + 1] = ImageByte(images[Eeprom!FileOf(o)], a)
      BY <3>2, <3>3, Zenon DEF DiffersInEdits
    <3>5. QED
      BY <3>4, Zenon DEF Eeprom!At, ImageByte
  <2>3. QED
    BY <2>1, <2>2 DEF EepromInv, Eeprom!StoreInv
<1>2. QED
  BY <1>1, CopiesInvariant, PTL

\* Only a commit that stores the copy leaves a file another image than none.
LEMMA WhoWrites ==
  ASSUME CopiesInv, Eeprom!Next, NEW f \in Eeprom!Files, images'[f] # images[f], images'[f] # <<>>
  PROVE  \E o \in Stores : f = Eeprom!FileOf(o) /\ Eeprom!Open(o) /\ images'[f] = data[o]
<1>1. ASSUME NEW o \in Stores, Eeprom!Stored(o) \/ Eeprom!NotStored(o) \/ Eeprom!NoWrite
      PROVE  f = Eeprom!FileOf(o) /\ images'[f] = data[o]
  <2>1. images \in [Eeprom!Files -> Seq(Eeprom!Bytes)] /\ Eeprom!FileOf(o) \in Eeprom!Files
    BY FileIsFile DEF CopiesInv, CopiesTyped
  <2>2. QED
    BY <1>1, <2>1 DEF Eeprom!Stored, Eeprom!NotStored, Eeprom!NoWrite
<1>2. \A o \in Stores : data[o] # <<>> => Eeprom!Open(o)
  BY DEF Eeprom!Open
<1>3. ASSUME NEW o \in Stores, Eeprom!Commit(o) PROVE \E p \in Stores : f = Eeprom!FileOf(p) /\ Eeprom!Open(p) /\ images'[f] = data[p]
  BY <1>1, <1>2, <1>3 DEF Eeprom!Commit
<1>4. ASSUME NEW o \in Stores, Eeprom!CommitIfDirty(o) PROVE \E p \in Stores : f = Eeprom!FileOf(p) /\ Eeprom!Open(p) /\ images'[f] = data[p]
  BY <1>1, <1>2, <1>4 DEF Eeprom!CommitIfDirty
<1>5. Eeprom!NoWrite => FALSE
  BY DEF Eeprom!NoWrite
<1>6. CASE \E o \in Stores : Eeprom!Commit(o) \/ Eeprom!End(o)
  BY <1>3, <1>4, <1>6 DEF Eeprom!End
<1>7. CASE \E o \in Stores : Eeprom!Edit(o)
  BY <1>5, <1>7 DEF Eeprom!Edit, Eeprom!WriteByte, Eeprom!Assign, Eeprom!WriteRange
<1>8. CASE \E o \in Stores : \E size \in Sizes : Eeprom!Begin(o, size)
  BY <1>4, <1>8 DEF Eeprom!Begin
<1>9. CASE \E o \in Stores : \E as \in SUBSET Eeprom!AddressesOf(o) : Eeprom!TakeReference(o, as)
  BY <1>5, <1>9 DEF Eeprom!TakeReference
<1>10. CASE Eeprom!Restart
  BY <1>5, <1>10 DEF Eeprom!Restart
<1>11. QED
  BY <1>6, <1>7, <1>8, <1>9, <1>10 DEF Eeprom!Next

\* A byte of a file changes only when it was edited, or the object that commits is
\* smaller than the file or had lost track of it, across sessions of different
\* sizes, commits that fail and restarts (EEPROMClass::commit).
THEOREM OnlyEditsChange == EepromSpec => UntouchedBytesKept
<1>1. CopiesInv /\ Eeprom!Next =>
        \A f \in Eeprom!Files : \A i \in 1 .. Len(images[f]) :
          images'[f] # <<>> /\ (i <= Len(images'[f]) => images'[f][i] # images[f][i]) =>
            \E o \in Stores : /\ Eeprom!FileOf(o) = f /\ Eeprom!Open(o) /\ images'[f] = data[o]
                              /\ \/ i - 1 \in edited[o] \/ o \in behind
                                 \/ i > Len(data[o])
  <2> SUFFICES ASSUME CopiesInv, Eeprom!Next, NEW f \in Eeprom!Files, NEW i \in 1 .. Len(images[f]),
                      images'[f] # <<>>, i <= Len(images'[f]) => images'[f][i] # images[f][i]
               PROVE  \E o \in Stores : /\ Eeprom!FileOf(o) = f /\ Eeprom!Open(o) /\ images'[f] = data[o]
                                        /\ \/ i - 1 \in edited[o] \/ o \in behind
                                           \/ i > Len(data[o])
    OBVIOUS
  <2>1. PICK image \in Seq(Eeprom!Bytes) : image = images[f]
    BY DEF CopiesInv, CopiesTyped
  <2>2. PICK n \in Nat : n = Len(image)
    OBVIOUS
  <2>3. i \in 1 .. n
    BY <2>1, <2>2
  <2>4. images'[f] # images[f]
    <3>1. SUFFICES ASSUME images'[f] = images[f] PROVE FALSE
      OBVIOUS
    <3>2. i <= Len(images[f])
      BY <2>1, <2>2, <2>3
    <3>3. QED
      BY <3>1, <3>2, Zenon
  <2>5. PICK o \in Stores : f = Eeprom!FileOf(o) /\ Eeprom!Open(o) /\ images'[f] = data[o]
    BY <2>4, WhoWrites
  <2>6. PICK d \in Seq(Eeprom!Bytes) : d = data[o]
    BY OfObject
  <2>7. PICK k \in Nat : k = Len(d)
    OBVIOUS
  <2>8. ASSUME ~(i > k), o \notin behind PROVE i - 1 \in edited[o]
    <3>1. i - 1 \in 0 .. k - 1 /\ i - 1 < n /\ (i - 1) + 1 = i /\ i <= k
      BY <2>3, <2>8
    <3>2. d[i] # image[i]
      BY <2>1, <2>5, <2>6, <2>7, <3>1, Zenon
    <3>3. i - 1 \in edited[o] \/ d[(i - 1) + 1] = ImageByte(image, i - 1)
      BY <2>1, <2>5, <2>6, <2>7, <2>8, <3>1, OfObject, Zenon DEF DiffersInEdits
    <3>4. ImageByte(image, i - 1) = image[i]
      BY <2>2, <3>1 DEF ImageByte
    <3>5. QED
      BY <3>1, <3>2, <3>3, <3>4
  <2>9. k = Len(data[o])
    BY <2>6, <2>7
  <2>10. QED
    BY <2>5, <2>8, <2>9
<1>2. QED
  BY <1>1, CopiesInvariant, PTL DEF EepromSpec, Eeprom!Spec, UntouchedBytesKept, Eeprom!UntouchedBytesKept

\* end() and a second begin() store every edit of the copy they drop; only a commit
\* that fails, or a store through a reference from before the last commit, is lost
\* (EEPROMClass::end, EEPROMClass::begin).
THEOREM EndStores == EepromSpec => EndStoresEdits
<1>1. CopiesInv /\ Eeprom!Next =>
        \A o \in Stores : edited[o] # {} /\ edited'[o] = {} /\ Eeprom!Ending(o) =>
          images'[Eeprom!FileOf(o)] = data[o] \/ write' = "failed" \/ o \in silent
  <2> SUFFICES ASSUME CopiesInv, NEW o \in Stores, edited[o] # {}, Eeprom!Ending(o), o \notin silent
               PROVE  images'[Eeprom!FileOf(o)] = data[o] \/ write' = "failed"
    OBVIOUS
  <2>1. Eeprom!CommitIfDirty(o)
    BY DEF Eeprom!Ending, Eeprom!End, Eeprom!Begin
  <2>2. dirty[o]
    BY OfObject
  <2>3. Eeprom!Open(o)
    <3>1. SUFFICES ASSUME data[o] = <<>> PROVE FALSE
      BY DEF Eeprom!Open
    <3>2. edited[o] \subseteq 0 .. Len(data[o]) - 1
      BY OfObject DEF Fits
    <3>3. Len(<<>>) = 0 /\ 0 .. 0 - 1 = {}
      OBVIOUS
    <3>4. edited[o] \subseteq {}
      BY <3>1, <3>2, <3>3, Zenon
    <3>5. QED
      BY <3>4
  <2>4. Eeprom!Stored(o) \/ Eeprom!NotStored(o)
    BY <2>1, <2>2, <2>3 DEF Eeprom!CommitIfDirty
  <2>5. QED
    BY <2>4, CommitWrites DEF Eeprom!NotStored
<1>2. QED
  BY <1>1, CopiesInvariant, PTL DEF EepromSpec, Eeprom!Spec, EndStoresEdits, Eeprom!EndStoresEdits
=============================================================================
