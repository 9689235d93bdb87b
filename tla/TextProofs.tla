----------------------------- MODULE TextProofs -----------------------------
(***************************************************************************)
(* The text classes, for every value of their constants.  The serial port: *)
(* no byte is lost, returned twice or out of order, and a search is as far *)
(* as the text is.  A String: it is sound after every call, however much   *)
(* memory there is, and what it answers fits together.  A number: its text *)
(* is read as the number, and what is counted of it is what was sent.      *)
(* Induction is that a non-empty set of numbers has a least one.           *)
(***************************************************************************)
EXTENDS MCText, SequenceTheorems, WellFoundedInduction, TLAPS

-----------------------------------------------------------------------------
(* Pieces of sequences *)

\* A piece of a sequence holds the members behind m, up to n.
LEMMA PieceIs ==
  ASSUME NEW S, NEW x \in Seq(S), NEW m \in Nat, NEW n \in Nat, m <= n, n <= Len(x)
  PROVE  /\ SubSeq(x, m + 1, n) \in Seq(S) /\ Len(SubSeq(x, m + 1, n)) = n - m
         /\ \A i \in 1 .. n - m : SubSeq(x, m + 1, n)[i] = x[m + i]
  OBVIOUS

LEMMA JoinedIs ==
  ASSUME NEW S, NEW x \in Seq(S), NEW y \in Seq(S)
  PROVE  /\ x \o y \in Seq(S) /\ Len(x \o y) = Len(x) + Len(y)
         /\ \A i \in 1 .. Len(x) : (x \o y)[i] = x[i]
         /\ \A i \in 1 .. Len(y) : (x \o y)[Len(x) + i] = y[i]
  OBVIOUS

\* The longest beginning of t that counts, of length k, is how the text of a call
\* ends that has read x from a on, up to n.
Ends(t, k, x, a, n) == k <= n - a /\ \A i \in 1 .. k : t[i] = x[n - k + i]

Same(t, k, x, n) == t[k] = x[n]

Longest(t, k, x, a, n) ==
  /\ k \in 0 .. Len(t) - 1 /\ Ends(t, k, x, a, n)
  /\ \A m \in k + 1 .. Len(t) - 1 : ~Ends(t, m, x, a, n)

\* IsSuffix, place by place.
LEMMA SuffixIs ==
  ASSUME NEW S, NEW u \in Seq(S), NEW v \in Seq(S)
  PROVE  Port!IsSuffix(u, v) <=>
           Len(u) <= Len(v) /\ \A i \in 1 .. Len(u) : u[i] = v[Len(v) - Len(u) + i]
<1>1. PICK p \in Nat, q \in Nat : p = Len(u) /\ q = Len(v)
  OBVIOUS
<1>2. PICK ru : ru = Port!Reverse(u)
  OBVIOUS
<1>3. PICK rv : rv = Port!Reverse(v)
  OBVIOUS
<1>4. ru \in Seq(S) /\ Len(ru) = p /\ \A i \in 1 .. p : ru[i] = u[p - i + 1]
  BY <1>1, <1>2 DEF Port!Reverse
<1>5. rv \in Seq(S) /\ Len(rv) = q /\ \A i \in 1 .. q : rv[i] = v[q - i + 1]
  BY <1>1, <1>3 DEF Port!Reverse
<1>6. Port!IsSuffix(u, v) <=> p <= q /\ SubSeq(ru, 1, p) = SubSeq(rv, 1, p)
  BY <1>2, <1>3, <1>4, <1>5 DEF Port!IsSuffix, Port!IsPrefix
<1>7. CASE p <= q
  <2>1. PICK su : su = SubSeq(ru, 1, p)
    OBVIOUS
  <2>2. PICK sv : sv = SubSeq(rv, 1, p)
    OBVIOUS
  <2>3. /\ su \in Seq(S) /\ Len(su) = p /\ \A i \in 1 .. p : su[i] = ru[i]
        /\ sv \in Seq(S) /\ Len(sv) = p /\ \A i \in 1 .. p : sv[i] = rv[i]
    BY <1>4, <1>5, <1>7, <2>1, <2>2
  <2>4. su = sv <=> \A i \in 1 .. p : u[p - i + 1] = v[q - i + 1]
    <3>1. su = sv <=> \A i \in 1 .. p : su[i] = sv[i]
      BY <2>3, SeqEqual
    <3>2. \A i \in 1 .. p : su[i] = u[p - i + 1] /\ sv[i] = v[q - i + 1]
      BY <1>4, <1>5, <1>7, <2>3
    <3>3. QED
      BY <3>1, <3>2
  <2>5. (\A i \in 1 .. p : u[p - i + 1] = v[q - i + 1]) <=> (\A i \in 1 .. p : u[i] = v[q - p + i])
    <3>1. ASSUME \A i \in 1 .. p : u[p - i + 1] = v[q - i + 1], NEW i \in 1 .. p PROVE u[i] = v[q - p + i]
      <4>1. p - i + 1 \in 1 .. p /\ p - (p - i + 1) + 1 = i /\ q - (p - i + 1) + 1 = q - p + i
        OBVIOUS
      <4>2. QED
        BY <3>1, <4>1
    <3>2. ASSUME \A i \in 1 .. p : u[i] = v[q - p + i], NEW i \in 1 .. p PROVE u[p - i + 1] = v[q - i + 1]
      <4>1. p - i + 1 \in 1 .. p /\ q - p + (p - i + 1) = q - i + 1
        OBVIOUS
      <4>2. QED
        BY <3>2, <4>1
    <3>3. QED
      BY <3>1, <3>2
  <2>6. QED
    BY <1>1, <1>6, <1>7, <2>1, <2>2, <2>4, <2>5
<1>8. CASE ~(p <= q)
  BY <1>1, <1>6, <1>8
<1>9. QED
  BY <1>7, <1>8

LEMMA EndsIsSuffix ==
  ASSUME NEW S, NEW t \in Seq(S), NEW x \in Seq(S), NEW k \in 0 .. Len(t),
         NEW a \in Nat, NEW n \in Nat, a <= n, n <= Len(x)
  PROVE  Port!IsSuffix(SubSeq(t, 1, k), SubSeq(x, a + 1, n)) <=> Ends(t, k, x, a, n)
<1>1. PICK u : u = SubSeq(t, 1, k)
  OBVIOUS
<1>2. PICK v : v = SubSeq(x, a + 1, n)
  OBVIOUS
<1>3. k \in Nat /\ u \in Seq(S) /\ Len(u) = k /\ \A i \in 1 .. k : u[i] = t[i]
  BY <1>1
<1>4. v \in Seq(S) /\ Len(v) = n - a /\ \A i \in 1 .. n - a : v[i] = x[a + i]
  BY <1>2, PieceIs
<1>5. Port!IsSuffix(u, v) <=> k <= n - a /\ \A i \in 1 .. k : u[i] = v[(n - a) - k + i]
  <2>1. Port!IsSuffix(u, v) <=> Len(u) <= Len(v) /\ \A i \in 1 .. Len(u) : u[i] = v[Len(v) - Len(u) + i]
    BY <1>3, <1>4, SuffixIs
  <2>2. Len(u) = k /\ Len(v) = n - a
    BY <1>3, <1>4
  <2>3. QED
    BY ONLY <2>1, <2>2, Zenon
<1>6. ASSUME k <= n - a, NEW i \in 1 .. k PROVE u[i] = t[i] /\ v[(n - a) - k + i] = x[n - k + i]
  <2>1. (n - a) - k + i \in 1 .. n - a /\ a + ((n - a) - k + i) = n - k + i
    BY <1>3, <1>6
  <2>2. QED
    BY <1>3, <1>4, <1>6, <2>1
<1>7. QED
  BY <1>1, <1>2, <1>5, <1>6 DEF Ends

\* What a text ends in when a character is added to it.
LEMMA EndsStep ==
  ASSUME NEW S, NEW t \in Seq(S), NEW x \in Seq(S), NEW k \in Nat \ {0},
         NEW a \in Nat, NEW n \in Nat, a <= n
  PROVE  Ends(t, k, x, a, n + 1) <=> Ends(t, k - 1, x, a, n) /\ Same(t, k, x, n + 1)
<1>1. \A i \in 1 .. k - 1 : n - (k - 1) + i = (n + 1) - k + i
  OBVIOUS
<1>2. (n + 1) - k + k = n + 1 /\ k \in 1 .. k /\ (k <= (n + 1) - a <=> k - 1 <= n - a)
  OBVIOUS
<1>3. 1 .. k = (1 .. k - 1) \cup {k}
  OBVIOUS
<1>4. (\A i \in 1 .. k : t[i] = x[(n + 1) - k + i]) <=>
        (\A i \in 1 .. k - 1 : t[i] = x[n - (k - 1) + i]) /\ t[k] = x[n + 1]
  BY <1>1, <1>2, <1>3
<1>5. QED
  BY <1>2, <1>4 DEF Ends, Same

\* Two beginnings that the text ends in: the shorter ends the longer.
LEMMA EndsNested ==
  ASSUME NEW S, NEW t \in Seq(S), NEW x, NEW a \in Nat, NEW n \in Nat, NEW k \in 0 .. Len(t), NEW b \in 0 .. k,
         Ends(t, k, x, a, n), Ends(t, b, x, a, n)
  PROVE  Port!IsSuffix(SubSeq(t, 1, b), SubSeq(t, 1, k))
<1>1. b \in 0 .. Len(t) /\ k \in Nat /\ k <= Len(t) /\ b \in Nat
  OBVIOUS
<1>2. Ends(t, b, t, 0, k)
  <2>1. SUFFICES ASSUME NEW i \in 1 .. b PROVE t[i] = t[k - b + i]
    BY <1>1 DEF Ends
  <2>2. k - b + i \in 1 .. k /\ n - k + (k - b + i) = n - b + i
    BY <1>1
  <2>3. QED
    BY <2>2 DEF Ends
<1>3. QED
  BY <1>1, <1>2, EndsIsSuffix

\* What findMulti counts after a character is again how the text ends.
LEMMA NextEnds ==
  ASSUME NEW S, NEW t \in Seq(S), NEW x \in Seq(S), NEW a \in Nat, NEW n \in Nat, a <= n, n < Len(x),
         NEW k \in 0 .. Len(t) - 1, Ends(t, k, x, a, n), NEW m, m = Port!NextIndex(t, k, x[n + 1])
  PROVE  m \in 0 .. Len(t) /\ Ends(t, m, x, a, n + 1)
<1>0. a \in Nat /\ n \in Nat /\ a <= n
  OBVIOUS
<1>1. PICK l \in Nat : l = Len(t) /\ k \in Nat /\ k < l
  OBVIOUS
<1>2. CASE x[n + 1] = t[k + 1]
  <2>1. m = k + 1 /\ k + 1 \in Nat \ {0} /\ (k + 1) - 1 = k
    BY <1>1, <1>2 DEF Port!NextIndex
  <2>2. PICK j \in Nat \ {0} : j = k + 1 /\ j - 1 = k
    BY <2>1
  <2>3. Ends(t, j, x, a, n + 1) <=> Ends(t, j - 1, x, a, n) /\ Same(t, j, x, n + 1)
    BY <1>0, <2>2, EndsStep
  <2>4. QED
    BY <1>1, <1>2, <2>1, <2>2, <2>3 DEF Same
<1>3. CASE x[n + 1] # t[k + 1] /\ x[n + 1] = t[1]
  <2>1. m = 1 /\ 1 \in Nat \ {0} /\ 1 - 1 = 0
    BY <1>3 DEF Port!NextIndex
  <2>2. Ends(t, 0, x, a, n)
    BY DEF Ends
  <2>3. Ends(t, 1, x, a, n + 1)
    <3>1. Ends(t, 1, x, a, n + 1) <=> Ends(t, 1 - 1, x, a, n) /\ Same(t, 1, x, n + 1)
      BY <1>0, <2>1, EndsStep
    <3>2. QED
      BY <1>3, <2>1, <2>2, <3>1 DEF Same
  <2>4. QED
    BY <1>1, <2>1, <2>3
<1>4. CASE x[n + 1] # t[k + 1] /\ x[n + 1] # t[1]
  <2>1. m = 0
    BY <1>4 DEF Port!NextIndex
  <2>2. Ends(t, 0, x, a, n + 1)
    BY DEF Ends
  <2>3. QED
    BY <1>1, <2>1, <2>2
<1>5. QED
  BY <1>2, <1>3, <1>4

\* And the longest one, for a target that can be restarted.
LEMMA LongestStep ==
  ASSUME NEW S, NEW t \in Seq(S), NEW x \in Seq(S), NEW a \in Nat, NEW n \in Nat, a <= n, n < Len(x),
         NEW k, Longest(t, k, x, a, n), Port!Restartable(t),
         NEW m, m = Port!NextIndex(t, k, x[n + 1]), m # Len(t)
  PROVE  Longest(t, m, x, a, n + 1)
<1>0. a \in Nat /\ n \in Nat /\ a <= n
  OBVIOUS
<1>1. PICK l \in Nat : l = Len(t)
  OBVIOUS
<1>2. k \in Nat /\ k < l /\ Ends(t, k, x, a, n) /\ \A j \in k + 1 .. l - 1 : ~Ends(t, j, x, a, n)
  BY <1>1 DEF Longest
<1>3. m \in 0 .. l - 1 /\ Ends(t, m, x, a, n + 1)
  <2>1. k \in 0 .. Len(t) - 1
    BY <1>1, <1>2
  <2>2. m \in 0 .. Len(t) /\ Ends(t, m, x, a, n + 1)
    BY <1>2, <2>1, NextEnds
  <2>3. QED
    BY <1>1, <2>2
<1>4. ASSUME NEW j \in m + 1 .. l - 1, Ends(t, j, x, a, n + 1) PROVE FALSE
  <2>1. j \in Nat \ {0} /\ m < j /\ j < l
    BY <1>3
  <2>2. Ends(t, j - 1, x, a, n) /\ t[j] = x[n + 1]
    <3>1. Ends(t, j, x, a, n + 1) <=> Ends(t, j - 1, x, a, n) /\ Same(t, j, x, n + 1)
      BY <1>0, <2>1, EndsStep
    <3>2. QED
      BY <1>4, <3>1 DEF Same
  <2>3. j - 1 <= k
    <3>1. SUFFICES ASSUME j - 1 > k PROVE FALSE
      BY <1>2, <2>1
    <3>2. j - 1 \in k + 1 .. l - 1
      BY <1>2, <2>1, <3>1
    <3>3. QED
      BY <1>2, <2>2, <3>2
  <2>4. x[n + 1] # t[k + 1]
    <3>1. SUFFICES ASSUME x[n + 1] = t[k + 1] PROVE FALSE
      OBVIOUS
    <3>2. m = k + 1
      BY <3>1 DEF Port!NextIndex
    <3>3. QED
      BY <1>2, <2>1, <2>3, <3>2
  <2>5. j - 1 # k
    <3>1. SUFFICES ASSUME j - 1 = k PROVE FALSE
      OBVIOUS
    <3>2. j = k + 1
      BY <2>1, <3>1
    <3>3. QED
      BY <2>2, <2>4, <3>2
  <2>6. j # 1
    <3>1. SUFFICES ASSUME j = 1 PROVE FALSE
      OBVIOUS
    <3>2. m = 1
      BY <2>2, <2>4, <3>1 DEF Port!NextIndex
    <3>3. QED
      BY <2>1, <3>1, <3>2
  <2>7. k \in 1 .. l - 1 /\ j - 1 \in 1 .. k - 1 /\ (j - 1) + 1 = j
    BY <1>2, <2>1, <2>3, <2>5, <2>6
  <2>8. Port!IsSuffix(SubSeq(t, 1, j - 1), SubSeq(t, 1, k))
    <3>1. k \in 0 .. Len(t) /\ j - 1 \in 0 .. k
      BY <1>1, <1>2, <2>7
    <3>2. QED
      BY <1>2, <2>2, <3>1, EndsNested
  <2>9. t[(j - 1) + 1] = t[k + 1]
    BY <1>1, <2>7, <2>8, Zenon DEF Port!Restartable
  <2>10. QED
    BY <2>2, <2>4, <2>7, <2>9
<1>5. QED
  BY <1>1, <1>3, <1>4 DEF Longest

\* Progress is that length.
LEMMA ProgressIs ==
  ASSUME NEW S, NEW t \in Seq(S), NEW x \in Seq(S), NEW a \in Nat, NEW n \in Nat, a <= n, n <= Len(x),
         NEW k, Longest(t, k, x, a, n)
  PROVE  Port!Progress(t, SubSeq(x, a + 1, n)) = k
<1>1. PICK l \in Nat : l = Len(t)
  OBVIOUS
<1>2. PICK tail : tail = SubSeq(x, a + 1, n)
  OBVIOUS
<1>3. \A j \in 0 .. l - 1 : Port!IsSuffix(SubSeq(t, 1, j), tail) <=> Ends(t, j, x, a, n)
  <2>1. \A j \in 0 .. l - 1 : j \in 0 .. Len(t)
    BY <1>1
  <2>2. QED
    BY <1>2, <2>1, EndsIsSuffix
<1>4. k \in 0 .. l - 1 /\ k \in Nat /\ Ends(t, k, x, a, n) /\ \A j \in k + 1 .. l - 1 : ~Ends(t, j, x, a, n)
  BY <1>1 DEF Longest
<1>5. /\ Port!IsSuffix(SubSeq(t, 1, k), tail)
      /\ \A j \in k + 1 .. l - 1 : ~Port!IsSuffix(SubSeq(t, 1, j), tail)
  <2>1. \A j \in k + 1 .. l - 1 : j \in 0 .. l - 1
    BY <1>4
  <2>2. QED
    BY <1>3, <1>4, <2>1
<1>6. ASSUME NEW b \in 0 .. l - 1, Port!IsSuffix(SubSeq(t, 1, b), tail),
             \A j \in b + 1 .. l - 1 : ~Port!IsSuffix(SubSeq(t, 1, j), tail)
      PROVE  b = k
  <2>1. ~(b < k) /\ ~(k < b)
    <3>1. b < k => k \in b + 1 .. l - 1
      BY <1>4
    <3>2. k < b => b \in k + 1 .. l - 1
      BY <1>4
    <3>3. QED
      BY <1>5, <1>6, <3>1, <3>2
  <2>2. QED
    BY <1>4, <2>1
<1>7. \A b \in 0 .. l - 1 :
        b = k <=> /\ Port!IsSuffix(SubSeq(t, 1, b), tail)
                  /\ \A j \in b + 1 .. l - 1 : ~Port!IsSuffix(SubSeq(t, 1, j), tail)
  BY <1>5, <1>6
<1>8. Port!Progress(t, tail) = CHOOSE b \in 0 .. l - 1 :
        /\ Port!IsSuffix(SubSeq(t, 1, b), tail)
        /\ \A j \in b + 1 .. l - 1 : ~Port!IsSuffix(SubSeq(t, 1, j), tail)
  BY <1>1 DEF Port!Progress
<1>9. QED
  BY <1>2, <1>4, <1>7, <1>8

-----------------------------------------------------------------------------
(* The bytes that wait *)

\* Two pieces put together are the piece that goes from one to the other.
LEMMA PieceOfPiece ==
  ASSUME NEW S, NEW x \in Seq(S), NEW k \in Nat, NEW n \in Nat, NEW m \in Nat, k + n <= m, m <= Len(x)
  PROVE  SubSeq(SubSeq(x, k + 1, m), n + 1, Len(SubSeq(x, k + 1, m))) = SubSeq(x, (k + n) + 1, m)
<1>1. PICK w : w = SubSeq(x, k + 1, m)
  OBVIOUS
<1>2. w \in Seq(S) /\ Len(w) = m - k /\ \A i \in 1 .. m - k : w[i] = x[k + i]
  BY <1>1, PieceIs
<1>3. PICK u : u = SubSeq(w, n + 1, m - k)
  OBVIOUS
<1>4. u \in Seq(S) /\ Len(u) = (m - k) - n /\ \A i \in 1 .. (m - k) - n : u[i] = w[n + i]
  BY <1>2, <1>3, PieceIs
<1>5. PICK v : v = SubSeq(x, (k + n) + 1, m)
  OBVIOUS
<1>6. v \in Seq(S) /\ Len(v) = m - (k + n) /\ \A i \in 1 .. m - (k + n) : v[i] = x[(k + n) + i]
  BY <1>5, PieceIs
<1>7. ASSUME NEW i \in 1 .. Len(u) PROVE u[i] = v[i]
  BY <1>2, <1>4, <1>6
<1>8. u = v
  BY <1>4, <1>6, <1>7, SeqEqual
<1>9. QED
  BY <1>1, <1>2, <1>3, <1>5, <1>8

\* Put(x, k, m, p, f): what p and f hold is the piece of x behind k, up to m.
Put(x, k, m, p, f) ==
  /\ Len(p) + Len(f) = m - k
  /\ \A i \in 1 .. Len(p) : p[i] = x[k + i]
  /\ \A i \in 1 .. Len(f) : f[i] = x[k + Len(p) + i]

LEMMA PutIs ==
  ASSUME NEW S, NEW x \in Seq(S), NEW k \in Nat, NEW m \in Nat, k <= m, m <= Len(x), NEW p \in Seq(S), NEW f \in Seq(S)
  PROVE  p \o f = SubSeq(x, k + 1, m) <=> Put(x, k, m, p, f)
<1>1. PICK w : w = SubSeq(x, k + 1, m)
  OBVIOUS
<1>2. w \in Seq(S) /\ Len(w) = m - k /\ \A i \in 1 .. m - k : w[i] = x[k + i]
  BY <1>1, PieceIs
<1>3. PICK v : v = p \o f
  OBVIOUS
<1>4. /\ v \in Seq(S) /\ Len(v) = Len(p) + Len(f)
      /\ \A i \in 1 .. Len(p) : v[i] = p[i]
      /\ \A i \in 1 .. Len(f) : v[Len(p) + i] = f[i]
  BY <1>3, JoinedIs
<1>5. PICK a \in Nat, b \in Nat : a = Len(p) /\ b = Len(f)
  OBVIOUS
<1>6. ASSUME v = w PROVE Put(x, k, m, p, f)
  <2>1. a + b = m - k
    BY <1>2, <1>4, <1>5, <1>6
  <2>2. ASSUME NEW i \in 1 .. a PROVE p[i] = x[k + i]
    <3>1. i \in 1 .. m - k
      BY <2>1
    <3>2. QED
      BY <1>2, <1>4, <1>5, <1>6, <3>1
  <2>3. ASSUME NEW i \in 1 .. b PROVE f[i] = x[k + a + i]
    <3>1. a + i \in 1 .. m - k /\ k + (a + i) = k + a + i
      BY <2>1
    <3>2. QED
      BY <1>2, <1>4, <1>5, <1>6, <3>1
  <2>4. QED
    BY <1>5, <2>1, <2>2, <2>3 DEF Put
<1>7. ASSUME Put(x, k, m, p, f) PROVE v = w
  <2>1. a + b = m - k
    BY <1>5, <1>7 DEF Put
  <2>2. ASSUME NEW i \in 1 .. m - k PROVE v[i] = w[i]
    <3>1. CASE i \in 1 .. a
      BY <1>2, <1>4, <1>5, <1>7, <3>1 DEF Put
    <3>2. CASE i \notin 1 .. a
      <4>1. PICK j \in 1 .. b : i = a + j
        <5>1. i - a \in 1 .. b /\ i = a + (i - a)
          BY <2>1, <3>2
        <5>2. QED
          BY <5>1
      <4>2. v[i] = f[j] /\ w[i] = x[k + a + j]
        BY <1>2, <1>4, <1>5, <4>1
      <4>3. QED
        BY <1>5, <1>7, <4>2 DEF Put
    <3>3. QED
      BY <3>1, <3>2
  <2>3. QED
    BY <1>2, <1>4, <1>5, <2>1, <2>2, SeqEqual
<1>8. QED
  BY <1>1, <1>3, <1>6, <1>7

\* What Take(n) and PutAside make of the byte put aside and of the others.
AsideAfter(p, n)     == SubSeq(p, n + 1, Len(p))
OthersAfter(p, f, n) == IF n > Len(p) THEN SubSeq(f, n - Len(p) + 1, Len(f)) ELSE f
AsidePeeked(p, f)    == SubSeq(p \o f, 1, 1)
OthersPeeked(p, f)   == IF p = << >> THEN Tail(f) ELSE f

\* read(): the byte put aside and then the others are taken away in front.
LEMMA PutTaken ==
  ASSUME NEW S, NEW x \in Seq(S), NEW k \in Nat, NEW m \in Nat, NEW p \in Seq(S), NEW f \in Seq(S), Put(x, k, m, p, f),
         NEW n \in Nat, n <= m - k
  PROVE  /\ AsideAfter(p, n) \in Seq(S) /\ OthersAfter(p, f, n) \in Seq(S) /\ Len(AsideAfter(p, n)) <= Len(p)
         /\ Put(x, k + n, m, AsideAfter(p, n), OthersAfter(p, f, n))
<1>q. PICK q : q = AsideAfter(p, n) /\ q = SubSeq(p, n + 1, Len(p))
  BY DEF AsideAfter
<1>g. PICK g : /\ g = OthersAfter(p, f, n)
               /\ g = IF n > Len(p) THEN SubSeq(f, n - Len(p) + 1, Len(f)) ELSE f
  BY DEF OthersAfter
<1>0. SUFFICES q \in Seq(S) /\ g \in Seq(S) /\ Len(q) <= Len(p) /\ Put(x, k + n, m, q, g)
  BY <1>q, <1>g, Zenon
<1>1. PICK a \in Nat, b \in Nat : a = Len(p) /\ b = Len(f)
  OBVIOUS
<1>2. /\ a + b = m - k
      /\ \A i \in 1 .. a : p[i] = x[k + i]
      /\ \A i \in 1 .. b : f[i] = x[k + a + i]
  BY <1>1 DEF Put
<1>3. CASE n <= a
  <2>1. q \in Seq(S) /\ Len(q) = a - n /\ \A i \in 1 .. a - n : q[i] = p[n + i]
    BY <1>1, <1>3, <1>q, PieceIs
  <2>2. g = f
    BY <1>1, <1>3, <1>g
  <2>3. ASSUME NEW i \in 1 .. a - n PROVE q[i] = x[(k + n) + i]
    <3>1. n + i \in 1 .. a /\ k + (n + i) = (k + n) + i
      BY <1>3
    <3>2. QED
      BY <1>2, <2>1, <3>1
  <2>4. ASSUME NEW i \in 1 .. b PROVE g[i] = x[(k + n) + (a - n) + i]
    <3>1. (k + n) + (a - n) + i = k + a + i
      BY <1>3
    <3>2. QED
      BY <1>2, <2>2, <3>1
  <2>5. (a - n) + b = m - (k + n)
    BY <1>2
  <2>6. Len(q) = a - n /\ Len(g) = b
    BY <1>1, <2>1, <2>2
  <2>7. Put(x, k + n, m, q, g)
    BY ONLY <2>3, <2>4, <2>5, <2>6 DEF Put
  <2>8. QED
    BY <1>1, <1>3, <2>1, <2>2, <2>7
<1>4. CASE n > a
  <2>1. q = << >>
    BY <1>1, <1>4, <1>q
  <2>2. PICK d \in Nat : n = a + d
    <3>1. n - a \in Nat /\ n = a + (n - a)
      BY <1>4
    <3>2. QED
      BY <3>1
  <2>3. d <= b
    BY <1>2, <2>2
  <2>4. g = SubSeq(f, d + 1, b)
    <3>1. n - Len(p) + 1 = d + 1 /\ n > Len(p)
      BY <1>1, <1>4, <2>2
    <3>2. QED
      BY <1>1, <1>g, <3>1
  <2>5. g \in Seq(S) /\ Len(g) = b - d /\ \A i \in 1 .. b - d : g[i] = f[d + i]
    <3>1. d <= b /\ b <= Len(f)
      BY <1>1, <2>3
    <3>2. QED
      BY ONLY f \in Seq(S), d \in Nat, b \in Nat, <2>4, <3>1
  <2>6. ASSUME NEW i \in 1 .. b - d PROVE g[i] = x[(k + n) + 0 + i]
    <3>1. d + i \in 1 .. b /\ k + a + (d + i) = (k + n) + 0 + i
      BY <2>2, <2>3
    <3>2. QED
      BY <1>2, <2>5, <3>1
  <2>7. q \in Seq(S) /\ Len(q) = 0
    BY <2>1, EmptySeq
  <2>8. 0 + (b - d) = m - (k + n)
    BY <1>2, <2>2
  <2>9. Len(q) = 0 /\ Len(g) = b - d /\ \A i \in 1 .. 0 : q[i] = x[(k + n) + i]
    BY <2>5, <2>7
  <2>10. Put(x, k + n, m, q, g)
    BY ONLY <2>6, <2>8, <2>9 DEF Put
  <2>11. QED
    BY <1>1, <2>5, <2>7, <2>10
<1>5. QED
  BY <1>1, <1>3, <1>4

\* peek(): the first of them is put aside.
LEMMA PutPeeked ==
  ASSUME NEW S, NEW x \in Seq(S), NEW k \in Nat, NEW m \in Nat, NEW p \in Seq(S), NEW f \in Seq(S), Put(x, k, m, p, f),
         k < m, Len(p) <= 1
  PROVE  /\ AsidePeeked(p, f) \in Seq(S) /\ OthersPeeked(p, f) \in Seq(S) /\ Len(AsidePeeked(p, f)) <= 1
         /\ Put(x, k, m, AsidePeeked(p, f), OthersPeeked(p, f))
<1>q. PICK q : q = AsidePeeked(p, f) /\ q = SubSeq(p \o f, 1, 1)
  BY DEF AsidePeeked
<1>g. PICK g : g = OthersPeeked(p, f) /\ g = IF p = << >> THEN Tail(f) ELSE f
  BY DEF OthersPeeked
<1>0. SUFFICES q \in Seq(S) /\ g \in Seq(S) /\ Len(q) <= 1 /\ Put(x, k, m, q, g)
  BY <1>q, <1>g, Zenon
<1>1. CASE p = << >>
  <2>1. p \o f = f /\ Len(f) = m - k
    BY <1>1 DEF Put
  <2>2. q \in Seq(S) /\ Len(q) = 1 /\ q[1] = f[1]
    BY <1>q, <2>1
  <2>3. g \in Seq(S) /\ Len(g) = Len(f) - 1 /\ \A i \in 1 .. Len(f) - 1 : g[i] = f[i + 1]
    <3>1. g = Tail(f) /\ Len(f) > 0
      BY <1>1, <1>g, <2>1
    <3>2. QED
      BY <3>1
  <2>4. \A i \in 1 .. Len(f) : f[i] = x[k + i]
    BY <1>1 DEF Put
  <2>5. \A i \in 1 .. Len(g) : g[i] = x[k + 1 + i]
    <3>1. SUFFICES ASSUME NEW i \in 1 .. Len(g) PROVE g[i] = x[k + 1 + i]
      OBVIOUS
    <3>2. i + 1 \in 1 .. Len(f) /\ k + (i + 1) = k + 1 + i
      BY <2>3
    <3>3. QED
      BY <2>3, <2>4, <3>2
  <2>6. q[1] = x[k + 1]
    BY <2>1, <2>2, <2>4
  <2>7. Len(q) + Len(g) = m - k
    <3>1. Len(q) = 1 /\ Len(g) = (m - k) - 1
      BY <2>1, <2>2, <2>3
    <3>2. QED
      BY <3>1
  <2>8. \A i \in 1 .. 1 : q[i] = x[k + i]
    <3>1. \A i \in 1 .. 1 : i = 1
      OBVIOUS
    <3>2. QED
      BY <2>6, <3>1
  <2>9. Put(x, k, m, q, g)
    <3>1. Len(q) = 1
      BY <2>2
    <3>2. QED
      BY ONLY <2>5, <2>7, <2>8, <3>1 DEF Put
  <2>10. Len(q) <= 1
    BY <2>2
  <2>11. QED
    BY ONLY <2>2, <2>3, <2>9, <2>10
<1>2. CASE p # << >>
  <2>1. Len(p) = 1
    <3>1. PICK a : a = Len(p)
      OBVIOUS
    <3>2. a \in Nat \ {0}
      BY <1>2, <3>1, EmptySeq
    <3>3. a <= 1
      BY <3>1
    <3>4. a = 1
      BY ONLY <3>2, <3>3
    <3>5. QED
      BY <3>1, <3>4, Zenon
  <2>2. q = p
    <3>1. PICK w : w = p \o f
      OBVIOUS
    <3>2. w \in Seq(S) /\ Len(w) = Len(p) + Len(f) /\ \A i \in 1 .. Len(p) : w[i] = p[i]
      BY <3>1, JoinedIs
    <3>3. Len(w) >= 1 /\ w[1] = p[1]
      BY <2>1, <3>2
    <3>4. q \in Seq(S) /\ Len(q) = 1 /\ q[1] = w[1]
      BY <1>q, <3>1, <3>2, <3>3
    <3>5. \A i \in 1 .. Len(p) : q[i] = p[i]
      <4>1. \A i \in 1 .. Len(p) : i = 1
        BY <2>1
      <4>2. QED
        BY <3>3, <3>4, <4>1
    <3>6. QED
      BY <2>1, <3>4, <3>5, SeqEqual
  <2>3. g = f
    BY <1>2, <1>g
  <2>4. QED
    BY <2>1, <2>2, <2>3
<1>3. QED
  BY <1>1, <1>2

\* A byte arrives.
LEMMA PutMore ==
  ASSUME NEW S, NEW x \in Seq(S), NEW k \in Nat, NEW m \in Nat, NEW p \in Seq(S), NEW f \in Seq(S), Put(x, k, m, p, f),
         m < Len(x), NEW g, g = Append(f, x[m + 1])
  PROVE  g \in Seq(S) /\ Put(x, k, m + 1, p, g)
<1>1. PICK a \in Nat, b \in Nat : a = Len(p) /\ b = Len(f)
  OBVIOUS
<1>2. a + b = m - k
  BY <1>1 DEF Put
<1>3. x[m + 1] \in S
  OBVIOUS
<1>4. g \in Seq(S) /\ Len(g) = b + 1 /\ g[b + 1] = x[m + 1] /\ \A i \in 1 .. b : g[i] = f[i]
  BY <1>1, <1>3
<1>5. k + a + (b + 1) = m + 1
  BY <1>2
<1>6. ASSUME NEW i \in 1 .. b + 1 PROVE g[i] = x[k + a + i]
  <2>1. CASE i \in 1 .. b
    BY <1>1, <1>4, <2>1 DEF Put
  <2>2. CASE i = b + 1
    BY <1>4, <1>5, <2>2
  <2>3. i \in 1 .. b \/ i = b + 1
    OBVIOUS
  <2>4. QED
    BY <2>1, <2>2, <2>3
<1>7. a + (b + 1) = (m + 1) - k
  BY <1>2
<1>8. QED
  BY <1>1, <1>4, <1>6, <1>7 DEF Put

\* The byte that was put aside is forgotten.
LEMMA PutForgotten ==
  ASSUME NEW S, NEW x \in Seq(S), NEW k \in Nat, NEW m \in Nat, NEW p \in Seq(S), NEW f \in Seq(S), Put(x, k, m, p, f)
  PROVE  Put(x, k + Len(p), m, << >>, f)
<1>1. PICK a \in Nat, b \in Nat : a = Len(p) /\ b = Len(f)
  OBVIOUS
<1>2. b = m - (k + a) /\ Len(<< >>) = 0 /\ 1 .. 0 = {}
  BY <1>1 DEF Put
<1>3. \A i \in 1 .. b : f[i] = x[(k + a) + 0 + i]
  BY <1>1 DEF Put
<1>4. QED
  BY <1>1, <1>2, <1>3 DEF Put

-----------------------------------------------------------------------------
(* The port and the call in progress *)

\* What is known of the port: the bytes that wait are a piece of the script.
PortSound ==
  /\ script \in Scripts /\ isLogPort \in BOOLEAN /\ begun \in BOOLEAN
  /\ peeked \in Seq(STRING) /\ fifo \in Seq(STRING) /\ Len(peeked) <= 1
  /\ sent \in Nat /\ taken \in Nat /\ taken <= sent /\ sent <= Len(script.text)
  /\ Put(script.text, taken, sent, peeked, fifo)

\* How far the search for target t is that has read x from a on, up to n.
Progressed(t, k, x, a, n) ==
  /\ k \in 0 .. Len(t) - 1 /\ Ends(t, k, x, a, n)
  /\ Port!Restartable(t) => Longest(t, k, x, a, n)

Searching(c, x, n) ==
  /\ {"targets", "index"} \subseteq DOMAIN c
  /\ c.targets \in Seq(Seq(STRING)) /\ Len(c.targets) \in {1, 2}
  /\ DOMAIN c.index = DOMAIN c.targets
  /\ \A i \in DOMAIN c.targets : Progressed(c.targets[i], c.index[i], x, c.from, n)

Collecting(c, x, n) ==
  /\ {"limited", "kept"} \subseteq DOMAIN c
  /\ c.limited => c.kept = SubSeq(x, c.from + 1, n)

Found(c, x) ==
  c.was.op = "find" /\ c.result # 0 => Port!IsSuffix(c.was.targets[c.result], SubSeq(x, c.from + 1, c.to))

\* A call c, when the text x was read up to n.
CallSound(c, x, n) ==
  /\ c = [f \in DOMAIN c |-> c[f]] /\ {"op", "from"} \subseteq DOMAIN c
  /\ c.op \in {"none", "find", "collect", "seek", "parse", "done"} /\ c.from \in Nat
  /\ c.op \notin {"none", "done"} => c.from <= n
  /\ c.op = "find" => Searching(c, x, n)
  /\ c.op = "collect" => Collecting(c, x, n)
  /\ c.op = "done" => Found(c, x)

PortInv == PortSound /\ CallSound(call, script.text, taken)

\* Every text that is sent is one.
LEMMA ScriptIsText ==
  ASSUME script \in Scripts
  PROVE  script.text \in Seq(STRING) /\ Len(script.text) \in Nat
BY TextAssumption DEF Port!StreamAssumption

-----------------------------------------------------------------------------
(* What the calls do to the bytes that wait *)

LEMMA FirstWaits ==
  ASSUME PortSound, Port!Gives
  PROVE  /\ taken < sent /\ taken + 1 \in 1 .. Len(script.text)
         /\ Head(Port!Waiting) = script.text[taken + 1]
<1>1. script.text \in Seq(STRING) /\ Len(script.text) \in Nat
  BY ScriptIsText DEF PortSound
<1>2. PICK w : w = Port!Waiting
  OBVIOUS
<1>3. w = SubSeq(script.text, taken + 1, sent) /\ w # << >>
  <2>1. Put(script.text, taken, sent, peeked, fifo)
    BY DEF PortSound
  <2>2. peeked \in Seq(STRING) /\ fifo \in Seq(STRING) /\ taken \in Nat /\ sent \in Nat
    BY DEF PortSound
  <2>3. taken <= sent /\ sent <= Len(script.text)
    BY DEF PortSound
  <2>4. peeked \o fifo = SubSeq(script.text, taken + 1, sent)
    BY <1>1, <2>1, <2>2, <2>3, PutIs
  <2>5. QED
    BY <1>2, <2>4 DEF Port!Waiting, Port!Gives
<1>4. w \in Seq(STRING) /\ Len(w) = sent - taken /\ \A i \in 1 .. sent - taken : w[i] = script.text[taken + i]
  BY <1>1, <1>3, PieceIs DEF PortSound
<1>5. Len(w) # 0
  BY <1>3, <1>4, EmptySeq
<1>6. taken < sent
  BY <1>4, <1>5 DEF PortSound
<1>7. 1 \in 1 .. sent - taken
  BY <1>6 DEF PortSound
<1>8. Head(w) = w[1] /\ w[1] = script.text[taken + 1]
  BY <1>3, <1>4, <1>7
<1>9. QED
  BY <1>1, <1>2, <1>6, <1>8 DEF PortSound

LEMMA WaitingLength ==
  ASSUME PortSound
  PROVE  Len(Port!Waiting) = sent - taken /\ Port!Waiting = SubSeq(script.text, taken + 1, sent)
<1>1. script.text \in Seq(STRING) /\ Len(script.text) \in Nat
  BY ScriptIsText DEF PortSound
<1>2. peeked \o fifo = SubSeq(script.text, taken + 1, sent)
  BY <1>1, PutIs DEF PortSound
<1>3. Len(SubSeq(script.text, taken + 1, sent)) = sent - taken
  BY <1>1, PieceIs DEF PortSound
<1>4. QED
  BY <1>2, <1>3 DEF Port!Waiting

LEMMA TakeSound ==
  ASSUME PortSound, NEW n \in Nat, Port!Take(n), UNCHANGED <<Port!port, sent>>
  PROVE  PortSound' /\ script' = script /\ taken' = taken + n
<1>1. script.text \in Seq(STRING) /\ Len(script.text) \in Nat
  BY ScriptIsText DEF PortSound
<1>2. n <= sent - taken
  BY WaitingLength DEF Port!Take
<1>3. /\ peeked' \in Seq(STRING) /\ fifo' \in Seq(STRING) /\ Len(peeked') <= Len(peeked)
      /\ Put(script.text, taken + n, sent, peeked', fifo')
  <2>1. PICK x : x = script.text
    OBVIOUS
  <2>2. /\ x \in Seq(STRING) /\ taken \in Nat /\ sent \in Nat /\ peeked \in Seq(STRING) /\ fifo \in Seq(STRING)
        /\ Put(x, taken, sent, peeked, fifo) /\ n \in Nat /\ n <= sent - taken
    BY <1>1, <1>2, <2>1 DEF PortSound
  <2>3. PICK q : q = peeked'
    OBVIOUS
  <2>4. PICK g : g = fifo'
    OBVIOUS
  <2>5. q = AsideAfter(peeked, n) /\ g = OthersAfter(peeked, fifo, n)
    BY <2>3, <2>4 DEF Port!Take, AsideAfter, OthersAfter
  <2>8. /\ AsideAfter(peeked, n) \in Seq(STRING) /\ OthersAfter(peeked, fifo, n) \in Seq(STRING)
        /\ Len(AsideAfter(peeked, n)) <= Len(peeked)
        /\ Put(x, taken + n, sent, AsideAfter(peeked, n), OthersAfter(peeked, fifo, n))
    BY ONLY <2>2, PutTaken
  <2>6. q \in Seq(STRING) /\ g \in Seq(STRING) /\ Len(q) <= Len(peeked) /\ Put(x, taken + n, sent, q, g)
    BY ONLY <2>5, <2>8, Zenon
  <2>7. QED
    BY ONLY <2>1, <2>3, <2>4, <2>6, Zenon
<1>4. script' = script /\ taken' = taken + n /\ sent' = sent /\ isLogPort' = isLogPort /\ begun' = begun
  BY DEF Port!port, Port!Take
<1>5. Len(peeked) \in Nat /\ Len(peeked') \in Nat
  BY <1>3 DEF PortSound
<1>6. Put(script'.text, taken', sent', peeked', fifo')
  BY <1>3, <1>4
<1>7. taken' \in Nat /\ taken' <= sent' /\ Len(peeked') <= 1
  BY <1>2, <1>3, <1>4, <1>5 DEF PortSound
<1>8. PortSound'
  BY <1>3, <1>4, <1>6, <1>7 DEF PortSound
<1>9. QED
  BY <1>4, <1>8

LEMMA PutAsideSound ==
  ASSUME PortSound, taken < sent, Port!PutAside, UNCHANGED <<Port!port, sent>>
  PROVE  PortSound' /\ script' = script /\ taken' = taken
<1>1. script.text \in Seq(STRING) /\ Len(script.text) \in Nat
  BY ScriptIsText DEF PortSound
<1>2. /\ peeked' \in Seq(STRING) /\ fifo' \in Seq(STRING) /\ Len(peeked') <= 1
      /\ Put(script.text, taken, sent, peeked', fifo')
  <2>1. PICK x : x = script.text
    OBVIOUS
  <2>2. /\ x \in Seq(STRING) /\ taken \in Nat /\ sent \in Nat /\ peeked \in Seq(STRING) /\ fifo \in Seq(STRING)
        /\ Put(x, taken, sent, peeked, fifo) /\ taken < sent /\ Len(peeked) <= 1
    BY <1>1, <2>1 DEF PortSound
  <2>3. PICK q : q = peeked'
    OBVIOUS
  <2>4. PICK g : g = fifo'
    OBVIOUS
  <2>5. q = AsidePeeked(peeked, fifo) /\ g = OthersPeeked(peeked, fifo)
    BY <2>3, <2>4 DEF Port!PutAside, Port!Waiting, AsidePeeked, OthersPeeked
  <2>8. /\ AsidePeeked(peeked, fifo) \in Seq(STRING) /\ OthersPeeked(peeked, fifo) \in Seq(STRING)
        /\ Len(AsidePeeked(peeked, fifo)) <= 1
        /\ Put(x, taken, sent, AsidePeeked(peeked, fifo), OthersPeeked(peeked, fifo))
    BY ONLY <2>2, PutPeeked
  <2>6. q \in Seq(STRING) /\ g \in Seq(STRING) /\ Len(q) <= 1 /\ Put(x, taken, sent, q, g)
    BY ONLY <2>5, <2>8, Zenon
  <2>7. QED
    BY ONLY <2>1, <2>3, <2>4, <2>6, Zenon
<1>3. script' = script /\ taken' = taken /\ sent' = sent /\ isLogPort' = isLogPort /\ begun' = begun
  BY DEF Port!port, Port!PutAside
<1>4. Put(script'.text, taken', sent', peeked', fifo')
  BY <1>2, <1>3
<1>5. PortSound'
  BY <1>2, <1>3, <1>4 DEF PortSound
<1>6. QED
  BY <1>3, <1>5

LEMMA ForgetSound ==
  ASSUME PortSound, Port!Forget, UNCHANGED <<isLogPort, script, sent>>, begun' \in BOOLEAN
  PROVE  PortSound'
<1>1. script.text \in Seq(STRING) /\ Len(script.text) \in Nat
  BY ScriptIsText DEF PortSound
<1>2. peeked' = << >> /\ peeked' \in Seq(STRING) /\ Len(peeked') <= 1
  BY EmptySeq DEF Port!Forget
<1>3. PICK a \in Nat : a = Len(peeked)
  BY DEF PortSound
<1>4. CASE fifo' = fifo /\ taken' = taken + Len(peeked)
  <2>1. Put(script.text, taken + Len(peeked), sent, << >>, fifo)
    BY <1>1, PutForgotten DEF PortSound
  <2>2. Put(script'.text, taken', sent', peeked', fifo')
    BY <1>2, <1>4, <2>1
  <2>3. taken' \in Nat /\ taken' <= sent
    <3>1. a + Len(fifo) = sent - taken /\ Len(fifo) \in Nat
      BY <1>3 DEF PortSound, Put
    <3>2. QED
      BY <1>3, <1>4, <3>1 DEF PortSound
  <2>4. QED
    BY <1>2, <1>4, <2>2, <2>3 DEF PortSound
<1>5. CASE fifo' = << >> /\ taken' = sent
  <2>1. fifo' \in Seq(STRING) /\ Len(fifo') = 0 /\ Len(peeked') = 0
    BY <1>2, <1>5, EmptySeq
  <2>2. taken' \in Nat /\ taken' <= sent' /\ 0 + 0 = sent' - taken' /\ 1 .. 0 = {}
    BY <1>5 DEF PortSound
  <2>3. Put(script'.text, taken', sent', peeked', fifo')
    BY ONLY <2>1, <2>2 DEF Put
  <2>4. QED
    BY <1>2, <1>5, <2>1, <2>2, <2>3 DEF PortSound
<1>6. QED
  BY <1>4, <1>5 DEF Port!Forget

LEMMA ArriveSound ==
  ASSUME PortSound, Port!Arrive
  PROVE  PortSound'
<1>1. script.text \in Seq(STRING) /\ Len(script.text) \in Nat
  BY ScriptIsText DEF PortSound
<1>2. fifo' \in Seq(STRING) /\ Put(script.text, taken, sent + 1, peeked, fifo')
  BY <1>1, PutMore DEF PortSound, Port!Arrive
<1>3. /\ script' = script /\ taken' = taken /\ sent' = sent + 1 /\ isLogPort' = isLogPort /\ begun' = begun
      /\ peeked' = peeked /\ sent < Len(script.text)
  BY DEF Port!port, Port!Arrive
<1>4. Put(script'.text, taken', sent', peeked', fifo')
  BY <1>2, <1>3
<1>5. sent' \in Nat /\ taken' <= sent' /\ sent' <= Len(script'.text)
  BY <1>1, <1>3 DEF PortSound
<1>6. QED
  BY <1>2, <1>3, <1>4, <1>5 DEF PortSound

-----------------------------------------------------------------------------
(* What the calls do to the call in progress *)

\* A call that has read the byte behind n, and how far each search then is.
LEMMA ProgressedStep ==
  ASSUME NEW S, NEW t \in Seq(S), NEW x \in Seq(S), NEW a \in Nat, NEW n \in Nat, a <= n, n < Len(x),
         NEW k, Progressed(t, k, x, a, n)
  PROVE  /\ Port!NextIndex(t, k, x[n + 1]) \in 0 .. Len(t)
         /\ Ends(t, Port!NextIndex(t, k, x[n + 1]), x, a, n + 1)
         /\ Port!NextIndex(t, k, x[n + 1]) # Len(t) => Progressed(t, Port!NextIndex(t, k, x[n + 1]), x, a, n + 1)
<1>1. PICK m : m = Port!NextIndex(t, k, x[n + 1])
  OBVIOUS
<1>2. k \in 0 .. Len(t) - 1 /\ Ends(t, k, x, a, n)
  BY DEF Progressed
<1>3. m \in 0 .. Len(t) /\ Ends(t, m, x, a, n + 1)
  BY <1>1, <1>2, NextEnds
<1>4. ASSUME m # Len(t) PROVE Progressed(t, m, x, a, n + 1)
  <2>1. m \in 0 .. Len(t) - 1
    BY <1>3, <1>4
  <2>2. ASSUME Port!Restartable(t) PROVE Longest(t, m, x, a, n + 1)
    <3>1. Longest(t, k, x, a, n)
      BY <2>2 DEF Progressed
    <3>2. QED
      BY <1>1, <1>4, <2>2, <3>1, LongestStep
  <2>3. QED
    BY <1>3, <2>1, <2>2 DEF Progressed
<1>5. QED
  BY <1>1, <1>3, <1>4

\* Before anything is read, every search is at its start.
LEMMA ProgressedFirst ==
  ASSUME NEW S, NEW t \in Seq(S), t # << >>, NEW x, NEW a \in Nat
  PROVE  Progressed(t, 0, x, a, a)
<1>1. Len(t) \in Nat \ {0}
  BY EmptySeq
<1>2. Ends(t, 0, x, a, a)
  BY DEF Ends
<1>3. ASSUME NEW m \in 1 .. Len(t) - 1 PROVE ~Ends(t, m, x, a, a)
  BY DEF Ends
<1>4. QED
  BY <1>1, <1>2, <1>3 DEF Progressed, Longest

\* What a call has read, and a byte more.
LEMMA ReadMore ==
  ASSUME NEW S, NEW x \in Seq(S), NEW a \in Nat, NEW n \in Nat, a <= n, n < Len(x)
  PROVE  Append(SubSeq(x, a + 1, n), x[n + 1]) = SubSeq(x, a + 1, n + 1)
<1>1. PICK u : u = SubSeq(x, a + 1, n)
  OBVIOUS
<1>2. u \in Seq(S) /\ Len(u) = n - a /\ \A i \in 1 .. n - a : u[i] = x[a + i]
  BY <1>1, PieceIs
<1>3. PICK v : v = SubSeq(x, a + 1, n + 1)
  OBVIOUS
<1>4. v \in Seq(S) /\ Len(v) = (n + 1) - a /\ \A i \in 1 .. (n + 1) - a : v[i] = x[a + i]
  BY <1>3, PieceIs
<1>5. PICK w : w = Append(u, x[n + 1])
  OBVIOUS
<1>6. x[n + 1] \in S
  OBVIOUS
<1>7. /\ w \in Seq(S) /\ Len(w) = (n - a) + 1 /\ w[(n - a) + 1] = x[n + 1]
      /\ \A i \in 1 .. n - a : w[i] = u[i]
  <2>1. PICK b \in Nat : b = n - a /\ b = Len(u)
    BY <1>2
  <2>2. w \in Seq(S) /\ Len(w) = b + 1 /\ w[b + 1] = x[n + 1] /\ \A i \in 1 .. b : w[i] = u[i]
    <3>1. PICK e \in S : e = x[n + 1]
      BY <1>6
    <3>2. w = Append(u, e) /\ u \in Seq(S) /\ Len(u) = b
      BY <1>2, <1>5, <2>1, <3>1
    <3>3. w \in Seq(S) /\ Len(w) = b + 1 /\ w[b + 1] = e /\ \A i \in 1 .. b : w[i] = u[i]
      BY ONLY <3>2
    <3>4. QED
      BY ONLY <3>1, <3>3, Zenon
  <2>3. QED
    BY ONLY <2>1, <2>2
<1>8. ASSUME NEW i \in 1 .. Len(v) PROVE w[i] = v[i]
  <2>1. CASE i \in 1 .. n - a
    BY <1>2, <1>4, <1>7, <2>1
  <2>2. CASE i = (n - a) + 1
    <3>1. a + i = n + 1
      BY <2>2
    <3>2. QED
      BY <1>4, <1>7, <2>2, <3>1
  <2>3. i \in 1 .. n - a \/ i = (n - a) + 1
    BY <1>4
  <2>4. QED
    BY <2>1, <2>2, <2>3
<1>9. w = v
  BY <1>4, <1>7, <1>8, SeqEqual
<1>10. QED
  BY <1>1, <1>3, <1>5, <1>9

\* The call returns: only a search that has found something is looked at again.
LEMMA ReturnSound ==
  ASSUME NEW result, Port!Return(result), CallSound(call, script.text, taken),
         call.op = "find" /\ result # 0 =>
           Port!IsSuffix(call.targets[result], SubSeq(script.text, call.from + 1, taken'))
  PROVE  CallSound(call', script.text, taken')
<1>1. call' = [op |-> "done", from |-> call.from, to |-> taken', was |-> call, result |-> result]
  BY DEF Port!Return
<1>2. /\ call' = [f \in DOMAIN call' |-> call'[f]] /\ {"op", "from"} \subseteq DOMAIN call'
      /\ call'.op = "done" /\ call'.from = call.from /\ call'.to = taken' /\ call'.was = call /\ call'.result = result
  BY <1>1
<1>3. call.from \in Nat
  BY DEF CallSound
<1>4. Found(call', script.text)
  BY <1>2 DEF Found
<1>5. QED
  BY <1>2, <1>3, <1>4 DEF CallSound

LEMMA StartFindSound ==
  ASSUME PortSound, CallSound(call, script.text, taken), NEW ts \in Targets, Port!StartFind(ts)
  PROVE  CallSound(call', script.text, taken)
<1>1. script.text \in Seq(STRING) /\ Len(script.text) \in Nat
  BY ScriptIsText DEF PortSound
<1>2. PICK used : used = IF Len(ts) = 2 /\ ts[2] = << >> THEN <<ts[1]>> ELSE ts
  OBVIOUS
<1>3. ts \in Seq(Seq(STRING)) /\ Len(ts) \in {1, 2}
  BY TextAssumption DEF Port!StreamAssumption
<1>4. used \in Seq(Seq(STRING)) /\ Len(used) \in {1, 2}
  <2>1. ts[1] \in Seq(STRING)
    BY <1>3
  <2>2. <<ts[1]>> \in Seq(Seq(STRING)) /\ Len(<<ts[1]>>) = 1
    BY <2>1
  <2>3. used = <<ts[1]>> \/ used = ts
    BY <1>2
  <2>4. QED
    BY <1>3, <2>2, <2>3
<1>5. PICK next : next = [op |-> "find", from |-> taken, targets |-> used, index |-> [i \in DOMAIN used |-> 0]]
  OBVIOUS
<1>6. CASE \E i \in DOMAIN used : used[i] = << >>
  <2>1. PICK r : r = CHOOSE i \in DOMAIN used : used[i] = << >>
    OBVIOUS
  <2>2. r \in DOMAIN used /\ used[r] = << >>
    BY <1>6, <2>1
  <2>3. call' = [op |-> "done", from |-> taken, to |-> taken, was |-> next, result |-> r]
    BY <1>2, <1>5, <1>6, <2>1 DEF Port!StartFind
  <2>4. /\ call' = [f \in DOMAIN call' |-> call'[f]] /\ {"op", "from"} \subseteq DOMAIN call'
        /\ call'.op = "done" /\ call'.from = taken /\ call'.to = taken /\ call'.was = next /\ call'.result = r
    BY <2>3
  <2>5. next.targets = used
    BY <1>5
  <2>6. Port!IsSuffix(<< >>, SubSeq(script.text, taken + 1, taken))
    <3>1. << >> \in Seq(STRING) /\ Len(<< >>) = 0
      BY EmptySeq
    <3>2. SubSeq(script.text, taken + 1, taken) \in Seq(STRING) /\ Len(SubSeq(script.text, taken + 1, taken)) = 0
      BY <1>1, PieceIs DEF PortSound
    <3>3. PICK u : u = << >>
      OBVIOUS
    <3>4. PICK v : v = SubSeq(script.text, taken + 1, taken)
      OBVIOUS
    <3>5. u \in Seq(STRING) /\ Len(u) = 0 /\ v \in Seq(STRING) /\ Len(v) = 0
      BY <3>1, <3>2, <3>3, <3>4
    <3>6. Port!IsSuffix(u, v) <=> Len(u) <= Len(v) /\ \A i \in 1 .. Len(u) : u[i] = v[Len(v) - Len(u) + i]
      BY <3>5, SuffixIs
    <3>7. Port!IsSuffix(u, v)
      BY <3>5, <3>6
    <3>8. QED
      BY ONLY <3>3, <3>4, <3>7, Zenon
  <2>7. Found(call', script.text)
    BY <2>2, <2>4, <2>5, <2>6 DEF Found
  <2>8. QED
    BY <2>4, <2>7 DEF CallSound, PortSound
<1>7. CASE \A i \in DOMAIN used : used[i] # << >>
  <2>1. call' = next
    BY <1>2, <1>5, <1>7 DEF Port!StartFind
  <2>2. /\ next = [f \in DOMAIN next |-> next[f]] /\ {"op", "from", "targets", "index"} \subseteq DOMAIN next
        /\ next.op = "find" /\ next.from = taken /\ next.targets = used /\ next.index = [i \in DOMAIN used |-> 0]
    BY <1>5
  <2>3. ASSUME NEW i \in DOMAIN used PROVE Progressed(used[i], next.index[i], script.text, taken, taken)
    <3>1. used[i] \in Seq(STRING) /\ used[i] # << >> /\ next.index[i] = 0
      BY <1>4, <1>7, <2>2
    <3>2. taken \in Nat
      BY DEF PortSound
    <3>3. QED
      BY <3>1, <3>2, ProgressedFirst
  <2>4. Searching(next, script.text, taken)
    BY <1>4, <2>2, <2>3 DEF Searching
  <2>5. taken \in Nat
    BY DEF PortSound
  <2>6. QED
    BY <2>1, <2>2, <2>4, <2>5 DEF CallSound
<1>8. QED
  BY <1>6, <1>7

LEMMA FindSound ==
  ASSUME PortSound, CallSound(call, script.text, taken), Port!Find
  PROVE  PortSound' /\ CallSound(call', script'.text, taken')
<1>1. script.text \in Seq(STRING) /\ Len(script.text) \in Nat
  BY ScriptIsText DEF PortSound
<1>2. /\ call.op = "find" /\ Port!Gives /\ Port!Take(1) /\ UNCHANGED <<Port!port, sent>>
  BY DEF Port!Find
<1>3. PortSound' /\ script' = script /\ taken' = taken + 1
  BY <1>2, TakeSound
<1>4. taken \in Nat /\ taken < Len(script.text) /\ Head(Port!Waiting) = script.text[taken + 1]
  BY <1>1, <1>2, FirstWaits DEF PortSound
<1>5. PICK x : x = script.text
  OBVIOUS
<1>6. PICK ch : ch = x[taken + 1]
  OBVIOUS
<1>7. PICK ts : ts = call.targets
  OBVIOUS
<1>8. PICK ix : ix = [i \in DOMAIN ts |-> Port!NextIndex(ts[i], call.index[i], ch)]
  OBVIOUS
<1>9. PICK fs : fs = {i \in DOMAIN ix : ix[i] = Len(ts[i])}
  OBVIOUS
<1>10. IF fs = {} THEN call' = [call EXCEPT !.index = ix] ELSE Port!Return(CHOOSE i \in fs : \A j \in fs : i <= j)
  <2>1. PICK iy : iy = [i \in DOMAIN call.targets |-> Port!NextIndex(call.targets[i], call.index[i], Head(Port!Waiting))]
    OBVIOUS
  <2>2. PICK gs : gs = {i \in DOMAIN iy : iy[i] = Len(call.targets[i])}
    OBVIOUS
  <2>3. IF gs = {} THEN call' = [call EXCEPT !.index = iy] ELSE Port!Return(CHOOSE i \in gs : \A j \in gs : i <= j)
    BY <2>1, <2>2, Zenon DEF Port!Find
  <2>4. ix = iy
    BY <1>4, <1>5, <1>6, <1>7, <1>8, <2>1, Zenon
  <2>5. fs = gs
    BY <1>7, <1>9, <2>2, <2>4, Zenon
  <2>6. QED
    BY ONLY <2>3, <2>4, <2>5, Zenon
<1>11. Searching(call, x, taken) /\ call.from \in Nat /\ call.from <= taken
  BY <1>2, <1>5 DEF CallSound
<1>12. ts \in Seq(Seq(STRING)) /\ Len(ts) \in {1, 2} /\ DOMAIN ix = DOMAIN ts
  BY <1>7, <1>8, <1>11 DEF Searching
<1>13. ASSUME NEW i \in DOMAIN ts
       PROVE  /\ ts[i] \in Seq(STRING) /\ ix[i] \in 0 .. Len(ts[i]) /\ Ends(ts[i], ix[i], x, call.from, taken + 1)
              /\ ix[i] # Len(ts[i]) => Progressed(ts[i], ix[i], x, call.from, taken + 1)
  <2>1. PICK t : t = ts[i]
    OBVIOUS
  <2>2. PICK k : k = call.index[i]
    OBVIOUS
  <2>3. t \in Seq(STRING) /\ Progressed(t, k, x, call.from, taken)
    BY <1>7, <1>11, <1>12, <2>1, <2>2 DEF Searching
  <2>4. ix[i] = Port!NextIndex(t, k, x[taken + 1])
    BY <1>6, <1>8, <2>1, <2>2
  <2>5. x \in Seq(STRING) /\ taken < Len(x)
    BY <1>1, <1>4, <1>5
  <2>6. /\ Port!NextIndex(t, k, x[taken + 1]) \in 0 .. Len(t)
        /\ Ends(t, Port!NextIndex(t, k, x[taken + 1]), x, call.from, taken + 1)
        /\ Port!NextIndex(t, k, x[taken + 1]) # Len(t)
             => Progressed(t, Port!NextIndex(t, k, x[taken + 1]), x, call.from, taken + 1)
    BY <1>4, <1>11, <2>3, <2>5, ProgressedStep
  <2>7. QED
    BY ONLY <2>1, <2>3, <2>4, <2>6, Zenon
<1>14. CASE fs = {}
  <2>1. call' = [call EXCEPT !.index = ix]
    BY <1>10, <1>14
  <2>2. /\ call' = [f \in DOMAIN call' |-> call'[f]] /\ {"op", "from", "targets", "index"} \subseteq DOMAIN call'
        /\ call'.op = "find" /\ call'.from = call.from /\ call'.targets = ts /\ call'.index = ix
    BY <1>2, <1>7, <1>11, <2>1 DEF CallSound, Searching
  <2>3. \A i \in DOMAIN ts : ix[i] # Len(ts[i])
    BY <1>9, <1>12, <1>14
  <2>4. \A i \in DOMAIN ts : Progressed(ts[i], ix[i], x, call.from, taken + 1)
    BY <1>13, <2>3
  <2>5. Searching(call', x, taken + 1)
    BY <1>12, <2>2, <2>4 DEF Searching
  <2>6. call.from <= taken + 1
    BY <1>4, <1>11
  <2>7. CallSound(call', x, taken + 1)
    BY <1>11, <2>2, <2>5, <2>6 DEF CallSound
  <2>8. QED
    BY <1>3, <1>5, <2>7
<1>15. CASE fs # {}
  <2>1. fs \subseteq {1, 2}
    BY <1>9, <1>12
  <2>2. PICK r : r = CHOOSE i \in fs : \A j \in fs : i <= j
    OBVIOUS
  <2>3. r \in fs
    <3>1. \E i \in fs : \A j \in fs : i <= j
      <4>1. CASE 1 \in fs
        BY <2>1, <4>1
      <4>2. CASE 1 \notin fs
        <5>1. fs = {2}
          BY <1>15, <2>1, <4>2
        <5>2. QED
          BY <5>1
      <4>3. QED
        BY <4>1, <4>2
    <3>2. QED
      BY <2>2, <3>1
  <2>4. r \in DOMAIN ts /\ ix[r] = Len(ts[r])
    BY <1>9, <1>12, <2>3
  <2>5. ts[r] \in Seq(STRING) /\ Ends(ts[r], Len(ts[r]), x, call.from, taken + 1)
    BY <1>13, <2>4
  <2>6. PICK t : t = ts[r]
    OBVIOUS
  <2>7. t \in Seq(STRING) /\ Len(t) \in 0 .. Len(t) /\ SubSeq(t, 1, Len(t)) = t
    BY <2>5, <2>6
  <2>8. call.from \in Nat /\ taken + 1 \in Nat /\ call.from <= taken + 1 /\ taken + 1 <= Len(x) /\ x \in Seq(STRING)
    BY <1>1, <1>4, <1>5, <1>11
  <2>9. Port!IsSuffix(SubSeq(t, 1, Len(t)), SubSeq(x, call.from + 1, taken + 1)) <=>
          Ends(t, Len(t), x, call.from, taken + 1)
    BY ONLY <2>7, <2>8, EndsIsSuffix
  <2>10. Port!IsSuffix(t, SubSeq(x, call.from + 1, taken + 1))
    BY ONLY <2>5, <2>6, <2>7, <2>9, Zenon
  <2>11. Port!Return(r)
    BY <1>10, <1>15, <2>2
  <2>12. CallSound(call', script.text, taken')
    BY <1>3, <1>5, <1>7, <2>6, <2>10, <2>11, ReturnSound
  <2>13. QED
    BY <1>3, <2>12
<1>16. QED
  BY <1>14, <1>15

LEMMA CollectSound ==
  ASSUME PortSound, CallSound(call, script.text, taken), Port!Collect
  PROVE  PortSound' /\ CallSound(call', script'.text, taken')
<1>1. script.text \in Seq(STRING) /\ Len(script.text) \in Nat
  BY ScriptIsText DEF PortSound
<1>2. call.op = "collect" /\ Port!Gives /\ Port!Take(1) /\ UNCHANGED <<Port!port, sent>>
  BY DEF Port!Collect
<1>3. PortSound' /\ script' = script /\ taken' = taken + 1
  BY <1>2, TakeSound
<1>4. taken \in Nat /\ taken < Len(script.text) /\ Head(Port!Waiting) = script.text[taken + 1]
  BY <1>1, <1>2, FirstWaits DEF PortSound
<1>5. PICK x : x = script.text
  OBVIOUS
<1>6. PICK more : more = Append(call.kept, Head(Port!Waiting))
  OBVIOUS
<1>7. Collecting(call, x, taken) /\ call.from \in Nat /\ call.from <= taken
  BY <1>2, <1>5 DEF CallSound
<1>8. \/ \E result : Port!Return(result)
      \/ call' = [call EXCEPT !.kept = more]
      \/ ~call.limited /\ call' = [call EXCEPT !.kept = call.kept]
  BY <1>6 DEF Port!Collect
<1>9. CASE \E result : Port!Return(result)
  BY <1>2, <1>3, <1>9, ReturnSound
<1>10. CASE call' = [call EXCEPT !.kept = more]
  <2>1. /\ call' = [f \in DOMAIN call' |-> call'[f]] /\ {"op", "from", "limited", "kept"} \subseteq DOMAIN call'
        /\ call'.op = "collect" /\ call'.from = call.from /\ call'.limited = call.limited /\ call'.kept = more
    BY <1>2, <1>7, <1>10 DEF CallSound, Collecting
  <2>2. ASSUME call.limited PROVE more = SubSeq(x, call.from + 1, taken + 1)
    <3>1. call.kept = SubSeq(x, call.from + 1, taken)
      BY <1>7, <2>2 DEF Collecting
    <3>2. Append(SubSeq(x, call.from + 1, taken), x[taken + 1]) = SubSeq(x, call.from + 1, taken + 1)
      BY <1>1, <1>4, <1>5, <1>7, ReadMore
    <3>3. QED
      BY <1>4, <1>5, <1>6, <3>1, <3>2
  <2>3. Collecting(call', x, taken + 1)
    BY <2>1, <2>2 DEF Collecting
  <2>4. call.from <= taken + 1
    BY <1>4, <1>7
  <2>5. CallSound(call', x, taken + 1)
    BY <1>7, <2>1, <2>3, <2>4 DEF CallSound
  <2>6. QED
    BY <1>3, <1>5, <2>5
<1>11. CASE ~call.limited /\ call' = [call EXCEPT !.kept = call.kept]
  <2>1. /\ call' = [f \in DOMAIN call' |-> call'[f]] /\ {"op", "from", "limited", "kept"} \subseteq DOMAIN call'
        /\ call'.op = "collect" /\ call'.from = call.from /\ call'.limited = call.limited
    BY <1>2, <1>7, <1>11 DEF CallSound, Collecting
  <2>2. Collecting(call', x, taken + 1)
    BY <1>11, <2>1 DEF Collecting
  <2>3. call.from <= taken + 1
    BY <1>4, <1>7
  <2>4. CallSound(call', x, taken + 1)
    BY <1>7, <2>1, <2>2, <2>3 DEF CallSound
  <2>5. QED
    BY <1>3, <1>5, <2>4
<1>12. QED
  BY <1>8, <1>9, <1>10, <1>11

LEMMA StartCollectSound ==
  ASSUME PortSound, NEW terminator, NEW limited, Port!StartCollect(terminator, limited)
  PROVE  CallSound(call', script.text, taken)
<1>1. script.text \in Seq(STRING) /\ Len(script.text) \in Nat /\ taken \in Nat /\ taken <= Len(script.text)
  BY ScriptIsText DEF PortSound
<1>2. call' = [op |-> "collect", from |-> taken, terminator |-> terminator, limited |-> limited, kept |-> << >>]
  BY DEF Port!StartCollect
<1>3. /\ call' = [f \in DOMAIN call' |-> call'[f]] /\ {"op", "from", "limited", "kept"} \subseteq DOMAIN call'
      /\ call'.op = "collect" /\ call'.from = taken /\ call'.kept = << >>
  BY <1>2
<1>4. SubSeq(script.text, taken + 1, taken) = << >>
  <2>1. PICK u : u = SubSeq(script.text, taken + 1, taken)
    OBVIOUS
  <2>2. u \in Seq(STRING) /\ Len(u) = 0
    BY <1>1, <2>1, PieceIs
  <2>3. u = << >>
    BY <2>2, EmptySeq
  <2>4. QED
    BY <2>1, <2>3
<1>5. Collecting(call', script.text, taken)
  BY <1>3, <1>4 DEF Collecting
<1>6. QED
  BY <1>1, <1>3, <1>5 DEF CallSound

LEMMA StartParseSound ==
  ASSUME PortSound, NEW mode, NEW ignore, NEW float, Port!StartParse(mode, ignore, float)
  PROVE  CallSound(call', script.text, taken)
<1>1. taken \in Nat
  BY DEF PortSound
<1>2. call' = [op |-> "seek", from |-> taken, mode |-> mode, ignore |-> ignore, float |-> float,
               value |-> 0, places |-> 0, negative |-> FALSE, point |-> FALSE]
  BY DEF Port!StartParse
<1>3. /\ call' = [f \in DOMAIN call' |-> call'[f]] /\ {"op", "from"} \subseteq DOMAIN call'
      /\ call'.op = "seek" /\ call'.from = taken
  BY <1>2
<1>4. QED
  BY <1>1, <1>3 DEF CallSound

\* A digit, a sign or a point changes what is known of the number only.
LEMMA DigestedIs ==
  ASSUME NEW x, NEW n \in Nat, CallSound(call, x, n), NEW ch, NEW d, d = Port!Digested(ch)
  PROVE  /\ d = [f \in DOMAIN d |-> d[f]] /\ DOMAIN d = DOMAIN call
         /\ d.op = "parse" /\ d.from = call.from
<1>1. call = [f \in DOMAIN call |-> call[f]] /\ {"op", "from"} \subseteq DOMAIN call
  BY DEF CallSound
<1>2. \E v, p : \/ d = [call EXCEPT !.op = "parse", !.negative = TRUE]
                \/ d = [call EXCEPT !.op = "parse", !.point = TRUE]
                \/ d = [call EXCEPT !.op = "parse", !.value = v, !.places = p]
                \/ d = [call EXCEPT !.op = "parse"]
  BY DEF Port!Digested
<1>3. QED
  BY <1>1, <1>2

LEMMA SkipSound ==
  ASSUME PortSound, CallSound(call, script.text, taken), Port!Skip
  PROVE  PortSound' /\ CallSound(call', script'.text, taken')
<1>1. call.op = "seek" /\ Port!Gives /\ UNCHANGED <<Port!port, sent>>
  BY DEF Port!Skip
<1>2. taken < sent /\ taken \in Nat
  BY <1>1, FirstWaits DEF PortSound
<1>3. \/ Port!Take(1) /\ call' = call
      \/ Port!PutAside /\ Port!Return(<<0, 0>>)
  BY DEF Port!Skip
<1>4. CASE Port!Take(1) /\ call' = call
  <2>1. PortSound' /\ script' = script /\ taken' = taken + 1
    BY <1>1, <1>4, TakeSound
  <2>2. CallSound(call', script.text, taken + 1)
    BY <1>1, <1>2, <1>4 DEF CallSound
  <2>3. QED
    BY <2>1, <2>2
<1>5. CASE Port!PutAside /\ Port!Return(<<0, 0>>)
  <2>1. PortSound' /\ script' = script /\ taken' = taken
    BY <1>1, <1>2, <1>5, PutAsideSound
  <2>2. CallSound(call', script.text, taken')
    BY <1>1, <1>5, ReturnSound
  <2>3. QED
    BY <2>1, <2>2
<1>6. QED
  BY <1>3, <1>4, <1>5

LEMMA ParseSound ==
  ASSUME PortSound, CallSound(call, script.text, taken), Port!Parse
  PROVE  PortSound' /\ CallSound(call', script'.text, taken')
<1>1. call.op \in {"seek", "parse"} /\ Port!Gives /\ UNCHANGED <<Port!port, sent>>
  BY DEF Port!Parse
<1>2. taken < sent /\ taken \in Nat
  BY <1>1, FirstWaits DEF PortSound
<1>3. \/ Port!Take(1) /\ call' = Port!Digested(Head(Port!Waiting))
      \/ Port!PutAside /\ Port!Return(Port!Result)
  BY DEF Port!Parse
<1>4. CASE Port!Take(1) /\ call' = Port!Digested(Head(Port!Waiting))
  <2>1. PortSound' /\ script' = script /\ taken' = taken + 1
    BY <1>1, <1>4, TakeSound
  <2>2. /\ call' = [f \in DOMAIN call' |-> call'[f]] /\ DOMAIN call' = DOMAIN call
        /\ call'.op = "parse" /\ call'.from = call.from
    BY <1>2, <1>4, DigestedIs
  <2>3. CallSound(call', script.text, taken + 1)
    BY <1>1, <1>2, <2>2 DEF CallSound
  <2>4. QED
    BY <2>1, <2>3
<1>5. CASE Port!PutAside /\ Port!Return(Port!Result)
  <2>1. PortSound' /\ script' = script /\ taken' = taken
    BY <1>1, <1>2, <1>5, PutAsideSound
  <2>2. CallSound(call', script.text, taken')
    BY <1>1, <1>5, ReturnSound
  <2>3. QED
    BY <2>1, <2>2
<1>6. QED
  BY <1>3, <1>4, <1>5

LEMMA TimeOutSound ==
  ASSUME PortSound, CallSound(call, script.text, taken), Port!TimeOut
  PROVE  PortSound' /\ CallSound(call', script'.text, taken')
<1>1. UNCHANGED <<isLogPort, begun, script, peeked, fifo, taken, sent>>
  BY DEF Port!TimeOut, Port!KeepBytes, Port!port
<1>2. PortSound'
  BY <1>1 DEF PortSound
<1>3. call.op \in {"find", "collect", "seek", "parse"}
  BY DEF Port!TimeOut, Port!Busy, CallSound
<1>4. \E result : Port!Return(result) /\ (call.op = "find" => result = 0)
  BY <1>3 DEF Port!TimeOut
<1>5. CallSound(call', script.text, taken')
  BY <1>4, ReturnSound
<1>6. QED
  BY <1>1, <1>2, <1>5

-----------------------------------------------------------------------------
(* Every step *)

\* While no call waits, none knows how far the text was read.
LEMMA IdleSound ==
  ASSUME NEW x, NEW n, NEW m, CallSound(call, x, n), ~Port!Busy
  PROVE  CallSound(call, x, m)
BY DEF CallSound, Port!Busy

LEMMA PortStep ==
  ASSUME PortInv, Port!Next
  PROVE  PortInv'
<1>1. PortSound /\ CallSound(call, script.text, taken)
  BY DEF PortInv
<1>2. SUFFICES PortSound' /\ CallSound(call', script'.text, taken')
  BY DEF PortInv
<1>3. CASE Port!Begin
  <2>1. script' = script /\ call' = call /\ ~Port!Busy
    BY <1>3 DEF Port!Begin
  <2>2. CallSound(call', script'.text, taken')
    BY <1>1, <2>1, IdleSound
  <2>3. CASE isLogPort
    <3>1. begun' = TRUE /\ UNCHANGED <<isLogPort, script, sent, peeked, fifo, taken>>
      BY <1>3, <2>3 DEF Port!Begin
    <3>2. PortSound'
      BY <1>1, <3>1 DEF PortSound
    <3>3. QED
      BY <2>2, <3>2
  <2>4. CASE ~isLogPort
    <3>1. begun' \in BOOLEAN /\ Port!Forget /\ UNCHANGED <<isLogPort, script, sent>>
      BY <1>3, <2>4 DEF Port!Begin
    <3>2. QED
      BY <1>1, <2>2, <3>1, ForgetSound
  <2>5. QED
    BY <2>3, <2>4
<1>4. CASE Port!End
  <2>1. script' = script /\ call' = call /\ ~Port!Busy
    BY <1>4 DEF Port!End
  <2>2. CallSound(call', script'.text, taken')
    BY <1>1, <2>1, IdleSound
  <2>3. CASE Port!Readable
    <3>1. begun' \in BOOLEAN /\ Port!Forget /\ UNCHANGED <<isLogPort, script, sent>>
      BY <1>4, <2>3 DEF Port!End
    <3>2. QED
      BY <1>1, <2>2, <3>1, ForgetSound
  <2>4. CASE ~Port!Readable
    <3>1. begun' = FALSE /\ UNCHANGED <<isLogPort, script, sent, peeked, fifo, taken>>
      BY <1>4, <2>4 DEF Port!End
    <3>2. PortSound'
      BY <1>1, <3>1 DEF PortSound
    <3>3. QED
      BY <2>2, <3>2
  <2>5. QED
    BY <2>3, <2>4
<1>5. CASE Port!Peek
  <2>1. Port!Gives /\ Port!PutAside /\ UNCHANGED <<Port!port, sent>> /\ call' = call
    BY <1>5 DEF Port!Peek, Port!Gives
  <2>2. taken < sent
    BY <1>1, <2>1, FirstWaits
  <2>3. PortSound' /\ script' = script /\ taken' = taken
    BY <1>1, <2>1, <2>2, PutAsideSound
  <2>4. QED
    BY <1>1, <2>1, <2>3
<1>6. CASE Port!Arrive
  <2>1. PortSound'
    BY <1>1, <1>6, ArriveSound
  <2>2. script' = script /\ taken' = taken /\ call' = call
    BY <1>6 DEF Port!Arrive, Port!port
  <2>3. QED
    BY <1>1, <2>1, <2>2
<1>7. ASSUME NEW n \in 1 .. Limit + 1, Port!Read(n) PROVE PortSound' /\ CallSound(call', script'.text, taken')
  <2>1. n \in Nat
    BY TextAssumption DEF Port!StreamAssumption
  <2>2. Port!Take(n) /\ ~Port!Busy /\ call' = call /\ UNCHANGED <<Port!port, sent>>
    BY <1>7 DEF Port!Read
  <2>3. PortSound' /\ script' = script
    BY <1>1, <2>1, <2>2, TakeSound
  <2>4. CallSound(call', script'.text, taken')
    BY <1>1, <2>2, <2>3, IdleSound
  <2>5. QED
    BY <2>3, <2>4
<1>8. ASSUME NEW ts \in Targets, Port!StartFind(ts) PROVE PortSound' /\ CallSound(call', script'.text, taken')
  <2>1. UNCHANGED <<isLogPort, begun, script, peeked, fifo, sent, taken>>
    BY <1>8 DEF Port!StartFind, Port!port
  <2>2. PortSound'
    BY <1>1, <2>1 DEF PortSound
  <2>3. CallSound(call', script.text, taken)
    BY <1>1, <1>8, StartFindSound
  <2>4. QED
    BY <2>1, <2>2, <2>3
<1>9. ASSUME NEW t \in Terminators, NEW limited \in BOOLEAN, Port!StartCollect(t, limited)
      PROVE  PortSound' /\ CallSound(call', script'.text, taken')
  <2>1. UNCHANGED <<isLogPort, begun, script, peeked, fifo, sent, taken>>
    BY <1>9 DEF Port!StartCollect, Port!port
  <2>2. PortSound'
    BY <1>1, <2>1 DEF PortSound
  <2>3. CallSound(call', script.text, taken)
    BY <1>1, <1>9, StartCollectSound
  <2>4. QED
    BY <2>1, <2>2, <2>3
<1>10. ASSUME NEW mode \in Port!Modes, NEW ignore \in Ignores, NEW float \in BOOLEAN, Port!StartParse(mode, ignore, float)
       PROVE  PortSound' /\ CallSound(call', script'.text, taken')
  <2>1. UNCHANGED <<isLogPort, begun, script, peeked, fifo, sent, taken>>
    BY <1>10 DEF Port!StartParse, Port!port
  <2>2. PortSound'
    BY <1>1, <2>1 DEF PortSound
  <2>3. CallSound(call', script.text, taken)
    BY <1>1, <1>10, StartParseSound
  <2>4. QED
    BY <2>1, <2>2, <2>3
<1>11. CASE Port!Find
  BY <1>1, <1>11, FindSound
<1>12. CASE Port!Collect
  BY <1>1, <1>12, CollectSound
<1>13. CASE Port!Skip
  BY <1>1, <1>13, SkipSound
<1>14. CASE Port!Parse
  BY <1>1, <1>14, ParseSound
<1>15. CASE Port!TimeOut
  BY <1>1, <1>15, TimeOutSound
<1>16. QED
  BY <1>3, <1>4, <1>5, <1>6, <1>7, <1>8, <1>9, <1>10, <1>11, <1>12, <1>13, <1>14, <1>15 DEF Port!Next

LEMMA PortStarts ==
  ASSUME TextInit
  PROVE  PortInv
<1>1. /\ isLogPort \in BOOLEAN /\ begun = FALSE /\ script \in Scripts
      /\ peeked = << >> /\ fifo = << >> /\ sent = 0 /\ taken = 0 /\ call = [op |-> "none", from |-> 0]
  BY DEF TextInit, Port!Init, Port!NoCall
<1>2. script.text \in Seq(STRING) /\ Len(script.text) \in Nat
  BY <1>1, ScriptIsText
<1>3. /\ peeked \in Seq(STRING) /\ fifo \in Seq(STRING) /\ Len(peeked) = 0 /\ Len(fifo) = 0
      /\ taken = 0 /\ sent = 0 /\ 0 + 0 = 0 - 0 /\ 1 .. 0 = {}
  BY <1>1, EmptySeq
<1>4. Put(script.text, taken, sent, peeked, fifo)
  BY ONLY <1>3 DEF Put
<1>5. PortSound
  <2>1. Len(peeked) <= 1 /\ begun \in BOOLEAN
    <3>1. Len(peeked) <= 1
      BY ONLY <1>3
    <3>2. begun \in BOOLEAN
      BY ONLY <1>1
    <3>3. QED
      BY <3>1, <3>2
  <2>2. sent \in Nat /\ taken \in Nat /\ taken <= sent /\ sent <= Len(script.text)
    BY <1>1, <1>2
  <2>3. QED
    BY <1>1, <1>3, <1>4, <2>1, <2>2 DEF PortSound
<1>6. call = [f \in DOMAIN call |-> call[f]] /\ {"op", "from"} \subseteq DOMAIN call /\ call.op = "none" /\ call.from = 0
  BY <1>1
<1>7. CallSound(call, script.text, taken)
  BY <1>6 DEF CallSound
<1>8. QED
  BY <1>5, <1>7 DEF PortInv

LEMMA TextStep ==
  ASSUME PortInv, [StringNext \/ NumbersNext \/ StreamNext]_allVars
  PROVE  PortInv'
<1>1. CASE StreamNext
  BY <1>1, PortStep DEF StreamNext
<1>2. CASE UNCHANGED streamVars
  BY <1>2 DEF PortInv, PortSound, streamVars
<1>3. QED
  BY <1>1, <1>2 DEF StringNext, NumbersNext, allVars

LEMMA PortIsSound == TextSpec => []PortInv
<1>1. TextInit => PortInv
  BY PortStarts
<1>2. PortInv /\ [StringNext \/ NumbersNext \/ StreamNext]_allVars => PortInv'
  BY TextStep
<1>3. QED
  BY <1>1, <1>2, PTL DEF TextSpec

\* No byte of a port is lost, returned twice or out of order, and what a call with a
\* limit has collected is what it has read: whatever is sent, however the calls of
\* Stream are mixed with read() and peek(), and wherever they time out.
THEOREM BytesStayInOrder == TextSpec => []BytesInOrder
<1>1. PortInv => BytesInOrder
  <2>1. SUFFICES ASSUME PortInv PROVE BytesInOrder
    OBVIOUS
  <2>2. PortSound /\ CallSound(call, script.text, taken)
    BY <2>1 DEF PortInv
  <2>3. Port!TypeOK
    <3>1. {isLogPort, begun} \subseteq BOOLEAN /\ script \in Scripts /\ Len(peeked) <= 1
      BY <2>2 DEF PortSound
    <3>2. sent \in 0 .. Len(script.text) /\ taken \in 0 .. sent
      BY <2>2, ScriptIsText DEF PortSound
    <3>3. QED
      BY <3>1, <3>2 DEF Port!TypeOK
  <2>4. Len(Port!Waiting) = sent - taken /\ Port!Waiting = SubSeq(script.text, taken + 1, sent)
    BY <2>2, WaitingLength
  <2>5. Port!Readable => Port!Available = sent - taken
    BY <2>4 DEF Port!Available
  <2>6. call.op = "collect" /\ call.limited => call.kept = Port!CallText
    BY <2>2 DEF CallSound, Collecting, Port!CallText
  <2>7. QED
    BY <2>3, <2>4, <2>5, <2>6 DEF BytesInOrder, Port!BytesInOrder
<1>2. QED
  BY <1>1, PortIsSound, PTL

\* A target that find() or findUntil() reports is what was read last; and a target
\* that can be restarted is never read past: the search is as far as the text is.
THEOREM SearchesFindTheirTargets == TextSpec => []FindsWhatIsThere
<1>1. PortInv => FindsWhatIsThere
  <2>1. SUFFICES ASSUME PortInv PROVE FindsWhatIsThere
    OBVIOUS
  <2>2. PortSound /\ CallSound(call, script.text, taken)
    BY <2>1 DEF PortInv
  <2>3. script.text \in Seq(STRING) /\ taken \in Nat /\ taken <= Len(script.text)
    BY <2>2, ScriptIsText DEF PortSound
  <2>4. ASSUME call.op = "find", NEW i \in DOMAIN call.targets
        PROVE  /\ Port!IsSuffix(SubSeq(call.targets[i], 1, call.index[i]), Port!CallText)
               /\ Port!Restartable(call.targets[i]) => call.index[i] = Port!Progress(call.targets[i], Port!CallText)
    <3>1. PICK t : t = call.targets[i]
      OBVIOUS
    <3>2. PICK k : k = call.index[i]
      OBVIOUS
    <3>3. Searching(call, script.text, taken) /\ call.from \in Nat /\ call.from <= taken
      BY <2>2, <2>4 DEF CallSound
    <3>4. t \in Seq(STRING) /\ Progressed(t, k, script.text, call.from, taken)
      BY <2>4, <3>1, <3>2, <3>3 DEF Searching
    <3>5. k \in 0 .. Len(t) /\ Ends(t, k, script.text, call.from, taken)
      BY <3>4 DEF Progressed
    <3>6. Port!IsSuffix(SubSeq(t, 1, k), SubSeq(script.text, call.from + 1, taken))
      BY <2>3, <3>3, <3>4, <3>5, EndsIsSuffix
    <3>7. ASSUME Port!Restartable(t) PROVE k = Port!Progress(t, SubSeq(script.text, call.from + 1, taken))
      <4>1. Longest(t, k, script.text, call.from, taken)
        BY <3>4, <3>7 DEF Progressed
      <4>2. QED
        BY <2>3, <3>3, <3>4, <4>1, ProgressIs
    <3>8. QED
      BY ONLY <3>1, <3>2, <3>6, <3>7, Zenon DEF Port!CallText
  <2>5. ASSUME call.op = "done", call.was.op = "find", call.result # 0
        PROVE  Port!IsSuffix(call.was.targets[call.result], SubSeq(script.text, call.from + 1, call.to))
    BY <2>2, <2>5 DEF CallSound, Found
  <2>6. QED
    BY <2>4, <2>5, Zenon DEF FindsWhatIsThere, Port!FindsWhatIsThere
<1>2. QED
  BY <1>1, PortIsSound, PTL

-----------------------------------------------------------------------------
(* Numbers *)

\* A non-empty set of numbers has a least one.
LEMMA LeastNumber ==
  ASSUME NEW T, T \subseteq Nat, T # {}
  PROVE  \E x \in T : \A y \in T : x <= y
<1>1. IsWellFoundedOn({p \in Nat \X Nat : p[1] < p[2]}, Nat)
  BY NatLessThanWellFounded DEF OpToRel
<1>2. PICK x \in T : \A y \in T : <<y, x>> \notin {p \in Nat \X Nat : p[1] < p[2]}
  BY <1>1, WFMin
<1>3. ASSUME NEW y \in T PROVE x <= y
  <2>1. <<y, x>> \in Nat \X Nat /\ <<y, x>>[1] = y /\ <<y, x>>[2] = x
    OBVIOUS
  <2>2. ~(y < x)
    BY <1>2, <2>1
  <2>3. QED
    BY <2>2
<1>4. QED
  BY <1>3

LEMMA MinIs ==
  ASSUME NEW T, T \subseteq Nat, T # {}
  PROVE  Min(T) \in T /\ \A y \in T : Min(T) <= y
BY LeastNumber DEF Min

LEMMA MinMeans ==
  ASSUME NEW T, T \subseteq Nat, NEW x \in T, \A y \in T : x <= y
  PROVE  Min(T) = x
<1>1. Min(T) \in T /\ \A y \in T : Min(T) <= y
  BY MinIs
<1>2. PICK m \in Nat : m = Min(T) /\ m <= x
  BY <1>1
<1>3. x \in Nat /\ x <= m
  BY <1>1, <1>2
<1>4. QED
  BY <1>2, <1>3

LEMMA MaxIs ==
  ASSUME NEW n \in Nat, NEW T, T \subseteq 0 .. n, T # {}
  PROVE  Max(T) \in T /\ \A y \in T : Max(T) >= y
<1> DEFINE U == {k \in Nat : n - k \in T}
<1>1. PICK x : x \in T
  OBVIOUS
<1>2. n - x \in U
  <2>1. x \in Int /\ n - x \in Nat /\ n - (n - x) = x
    BY <1>1
  <2>2. QED
    BY <1>1, <2>1
<1>3. PICK k \in U : \A j \in U : k <= j
  BY <1>2, LeastNumber
<1>4. ASSUME NEW y \in T PROVE n - k >= y
  <2>1. y \in Int /\ n - y \in Nat /\ n - (n - y) = y
    OBVIOUS
  <2>2. n - y \in U
    BY <2>1
  <2>3. k <= n - y
    BY <1>3, <2>2
  <2>4. QED
    BY <2>1, <2>3
<1>5. \E z \in T : \A y \in T : z >= y
  BY <1>3, <1>4
<1>6. QED
  BY <1>5 DEF Max

LEMMA MaxMeans ==
  ASSUME NEW n \in Nat, NEW T, T \subseteq 0 .. n, NEW x \in T, \A y \in T : x >= y
  PROVE  Max(T) = x
<1>1. Max(T) \in T /\ \A y \in T : Max(T) >= y
  BY MaxIs
<1>2. PICK m : m = Max(T)
  OBVIOUS
<1>3. m \in Int /\ x \in Int /\ m >= x /\ x >= m
  <2>1. m \in T /\ \A y \in T : m >= y
    BY <1>1, <1>2, Zenon
  <2>2. QED
    BY <2>1
<1>4. QED
  BY <1>2, <1>3

LEMMA PairMin ==
  ASSUME NEW a \in Int, NEW b \in Int
  PROVE  Min({a, b}) = IF a <= b THEN a ELSE b
<1>1. PICK m : m = IF a <= b THEN a ELSE b
  OBVIOUS
<1>2. m \in {a, b} /\ m <= a /\ m <= b /\ m \in Int
  BY <1>1
<1>3. ASSUME NEW x \in {a, b}, \A y \in {a, b} : x <= y PROVE x = m
  BY <1>2, <1>3
<1>4. QED
  BY <1>1, <1>2, <1>3 DEF Min

LEMMA PairMax ==
  ASSUME NEW a \in Int, NEW b \in Int
  PROVE  Max({a, b}) = IF a <= b THEN b ELSE a
<1>1. PICK m : m = IF a <= b THEN b ELSE a
  OBVIOUS
<1>2. m \in {a, b} /\ m >= a /\ m >= b /\ m \in Int
  BY <1>1
<1>3. ASSUME NEW x \in {a, b}, \A y \in {a, b} : x >= y PROVE x = m
  BY <1>2, <1>3
<1>4. QED
  BY <1>1, <1>2, <1>3 DEF Max

-----------------------------------------------------------------------------
(* Texts *)

Text == Seq(Chars)

\* The functions of C look at the first n characters of t.
Stops(t, n) == n \in 0 .. Len(t) /\ (\A i \in 1 .. n : t[i] # NUL) /\ (n = Len(t) \/ t[n + 1] = NUL)

LEMMA CStrIs ==
  ASSUME NEW t \in Text
  PROVE  \E n \in 0 .. Len(t) : Stops(t, n) /\ CStr(t) = SubSeq(t, 1, n)
<1>0. PICK nuls : nuls = {i \in DOMAIN t : t[i] = NUL}
  OBVIOUS
<1>1. t \in Seq(Chars) /\ Len(t) \in Nat /\ DOMAIN t = 1 .. Len(t)
  BY DEF Text
<1>2. CStr(t) = IF nuls = {} THEN t ELSE SubSeq(t, 1, Min(nuls) - 1)
  BY <1>0 DEF CStr
<1>3. CASE nuls = {}
  <2>1. Stops(t, Len(t))
    BY <1>0, <1>1, <1>3 DEF Stops
  <2>2. SubSeq(t, 1, Len(t)) = t
    BY <1>1, SubSeqFull
  <2>3. Len(t) \in 0 .. Len(t) /\ CStr(t) = SubSeq(t, 1, Len(t))
    BY <1>1, <1>2, <1>3, <2>2
  <2>4. QED
    BY <2>1, <2>3
<1>4. CASE nuls # {}
  <2>1. Min(nuls) \in nuls /\ \A i \in nuls : Min(nuls) <= i
    <3>1. nuls \subseteq Nat
      BY <1>0, <1>1
    <3>2. QED
      BY <1>4, <3>1, MinIs
  <2>2. PICK n \in 0 .. Len(t) - 1 : n = Min(nuls) - 1 /\ n + 1 = Min(nuls)
    <3>1. Min(nuls) \in 1 .. Len(t)
      BY <1>0, <1>1, <2>1
    <3>2. Min(nuls) - 1 \in 0 .. Len(t) - 1 /\ (Min(nuls) - 1) + 1 = Min(nuls)
      BY <1>1, <3>1
    <3>3. QED
      BY <3>2
  <2>3. t[n + 1] = NUL
    BY <1>0, <2>1, <2>2
  <2>4. ASSUME NEW i \in 1 .. n PROVE t[i] # NUL
    <3>1. i \in DOMAIN t /\ ~(n + 1 <= i)
      BY <1>1
    <3>2. QED
      BY <1>0, <2>1, <2>2, <3>1
  <2>5. n \in 0 .. Len(t)
    BY <1>1
  <2>6. Stops(t, n)
    BY <2>3, <2>4, <2>5 DEF Stops
  <2>7. CStr(t) = SubSeq(t, 1, n)
    BY <1>2, <1>4, <2>2
  <2>8. QED
    BY <2>5, <2>6, <2>7
<1>5. QED
  BY <1>3, <1>4

LEMMA CStrType ==
  ASSUME NEW t \in Text
  PROVE  CStr(t) \in Text /\ Len(CStr(t)) <= Len(t)
<1>1. PICK n \in 0 .. Len(t) : CStr(t) = SubSeq(t, 1, n)
  BY CStrIs
<1>2. SubSeq(t, 1, n) \in Seq(Chars) /\ Len(SubSeq(t, 1, n)) = n
  BY DEF Text
<1>3. QED
  BY <1>1, <1>2 DEF Text

\* A text without NUL is all the functions of C see.
LEMMA CStrWhole ==
  ASSUME NEW t \in Text, \A i \in 1 .. Len(t) : t[i] # NUL
  PROVE  CStr(t) = t
<1>1. PICK n \in 0 .. Len(t) : Stops(t, n) /\ CStr(t) = SubSeq(t, 1, n)
  BY CStrIs
<1>2. n = Len(t)
  <2>1. SUFFICES ASSUME n # Len(t) PROVE FALSE
    OBVIOUS
  <2>2. n + 1 \in 1 .. Len(t)
    BY <2>1 DEF Text
  <2>3. QED
    BY <1>1, <2>1, <2>2 DEF Stops
<1>3. QED
  BY <1>1, <1>2, SubSeqFull DEF Text

LEMMA CStrSame ==
  ASSUME NEW t \in Text, CStr(t) = t
  PROVE  \A i \in 1 .. Len(t) : t[i] # NUL
<1>1. PICK n \in 0 .. Len(t) : Stops(t, n) /\ CStr(t) = SubSeq(t, 1, n)
  BY CStrIs
<1>2. Len(SubSeq(t, 1, n)) = n
  BY DEF Text
<1>3. n = Len(t)
  BY <1>1, <1>2
<1>4. QED
  BY <1>1, <1>3 DEF Stops

LEMMA TextsAreTexts ==
  ASSUME NEW t \in Texts
  PROVE  t \in Text /\ Len(t) \in Nat /\ Len(t) <= MaxLen /\ CStr(t) = t /\ \A i \in 1 .. Len(t) : t[i] # NUL
<1>1. t \in Seq(Chars \ {NUL}) /\ Len(t) <= MaxLen
  BY TextAssumption DEF StringAssumption
<1>2. t \in Seq(Chars) /\ Len(t) \in Nat /\ \A i \in 1 .. Len(t) : t[i] # NUL
  BY <1>1
<1>3. QED
  BY <1>1, <1>2, CStrWhole DEF Text

-----------------------------------------------------------------------------
(* Memory *)

Strings == [text : Text, cap : Nat]

\* The buffer of o holds its text and the NUL.
Held(o) == o.text = <<>> \/ Len(o.text) < o.cap

Attempted(r, o, t) ==
  /\ r.obj \in Strings /\ Held(r.obj) /\ r.ok \in BOOLEAN
  /\ r.obj.text = IF r.ok THEN t ELSE o.text

LEMMA ReserveIs ==
  ASSUME NEW o \in Strings, Held(o), NEW size \in Nat
  PROVE  /\ Attempted(Reserve(o, size), o, o.text)
         /\ Reserve(o, size).ok => size < Reserve(o, size).obj.cap
<1>1. PICK r : r = Reserve(o, size)
  OBVIOUS
<1>2. o.text \in Seq(Chars) /\ Len(o.text) \in Nat /\ o.cap \in Nat
  BY DEF Strings, Text
<1>3. CASE size + 1 <= o.cap
  BY <1>1, <1>2, <1>3 DEF Reserve, Attempted
<1>4. CASE ~(size + 1 <= o.cap) /\ size + 1 <= free
  <2>1. r.ok = TRUE /\ r.obj = [o EXCEPT !.cap = size + 1]
    BY <1>1, <1>4 DEF Reserve
  <2>2. r.obj \in Strings /\ r.obj.text = o.text /\ r.obj.cap = size + 1
    BY <2>1 DEF Strings
  <2>3. Held(r.obj)
    BY <1>2, <1>4, <2>2 DEF Held
  <2>4. size < r.obj.cap
    BY <2>2
  <2>5. Attempted(r, o, o.text)
    BY <2>1, <2>2, <2>3 DEF Attempted
  <2>6. QED
    BY <1>1, <2>4, <2>5
<1>5. CASE ~(size + 1 <= o.cap) /\ ~(size + 1 <= free)
  BY <1>1, <1>5 DEF Reserve, Attempted
<1>6. QED
  BY <1>3, <1>4, <1>5

LEMMA BecomeIs ==
  ASSUME NEW o \in Strings, Held(o), NEW t \in Text
  PROVE  Attempted(Become(o, t), o, t)
<1>1. PICK r : r = Reserve(o, Len(t))
  OBVIOUS
<1>2. Len(t) \in Nat
  BY DEF Text
<1>3. Attempted(r, o, o.text) /\ (r.ok => Len(t) < r.obj.cap)
  BY <1>1, <1>2, ReserveIs
<1>4. PICK b : b = Become(o, t)
  OBVIOUS
<1>5. CASE r.ok
  <2>1. b = [r EXCEPT !.obj = [r.obj EXCEPT !.text = t]]
    BY <1>1, <1>4, <1>5 DEF Become
  <2>2. \E x, y : r = [ok |-> x, obj |-> y]
    BY <1>1 DEF Reserve
  <2>3. b.ok = r.ok /\ b.obj = [r.obj EXCEPT !.text = t]
    BY <2>1, <2>2
  <2>4. b.obj \in Strings /\ b.obj.text = t /\ b.obj.cap = r.obj.cap
    BY <1>3, <2>3 DEF Strings, Attempted
  <2>5. Held(b.obj)
    BY <1>3, <1>5, <2>4 DEF Held
  <2>6. QED
    BY <1>3, <1>4, <1>5, <2>3, <2>4, <2>5 DEF Attempted
<1>6. CASE ~r.ok
  <2>1. b = r
    BY <1>1, <1>4, <1>6 DEF Become
  <2>2. QED
    BY <1>3, <1>4, <1>6, <2>1 DEF Attempted
<1>7. QED
  BY <1>5, <1>6

LEMMA EmptyIsSound == Empty \in Strings /\ Held(Empty) /\ Empty.text = << >>
BY EmptySeq DEF Empty, Strings, Held, Text

-----------------------------------------------------------------------------
(* The calls, save for replace() *)

StringSound == s \in Strings /\ StringInv

\* What a call tells of the text it leaves.
Honest(now, was, want, told) ==
  \/ told = "nothing" /\ now \in {want, was}
  \/ told = "success" /\ now = want
  \/ told = "failure" /\ now = was

LEMMA DoneSound ==
  ASSUME StringSound, NEW obj \in Strings, NEW want, NEW told, NEW starved, Done(obj, want, told, starved),
         Held(obj), Len(obj.text) <= MaxLen, ~starved => Honest(obj.text, s.text, want, told)
  PROVE  StringSound'
<1>1. s' = obj /\ free' = free
  BY DEF Done
<1>2. last'.was = s.text /\ last'.want = want /\ last'.told = told /\ last'.starved = starved
  BY DEF Done
<1>3. TypeOK' /\ BufferHoldsText'
  BY <1>1 DEF StringSound, StringInv, TypeOK, BufferHoldsText, Strings, Text, Held
<1>4. AllOrNothing'
  BY <1>1, <1>2 DEF AllOrNothing, Honest
<1>5. QED
  BY <1>1, <1>3, <1>4 DEF StringSound, StringInv

LEMMA NowIs ==
  ASSUME StringSound
  PROVE  /\ s \in Strings /\ Held(s) /\ s.text \in Text /\ Len(s.text) \in Nat /\ Len(s.text) <= MaxLen
         /\ MaxLen \in Nat /\ CStr(s.text) \in Text /\ Len(CStr(s.text)) <= Len(s.text)
         /\ Len(CStr(s.text)) \in Nat
<1>1. s \in Strings /\ Held(s) /\ s.text \in Text /\ Len(s.text) <= MaxLen
  BY DEF StringSound, StringInv, TypeOK, BufferHoldsText, Held, Strings
<1>2. Len(s.text) \in Nat /\ MaxLen \in Nat
  BY <1>1, TextAssumption DEF Text, StringAssumption
<1>3. CStr(s.text) \in Text /\ Len(CStr(s.text)) <= Len(s.text)
  BY <1>1, CStrType
<1>4. Len(CStr(s.text)) \in Nat
  BY <1>3 DEF Text
<1>5. QED
  BY <1>1, <1>2, <1>3, <1>4

\* A text that is attempted is there, or the one before it is.
LEMMA AttemptIs ==
  ASSUME NEW o \in Strings, NEW t \in Text, NEW r, Attempted(r, o, t), Len(o.text) <= MaxLen, Len(t) <= MaxLen
  PROVE  /\ r.obj \in Strings /\ Held(r.obj) /\ Len(r.obj.text) <= MaxLen
         /\ r.obj.text \in {t, o.text} /\ (r.ok => r.obj.text = t)
         /\ Told(r) \in {"success", "failure"} /\ (Told(r) = "success" <=> r.ok)
         /\ Honest(r.obj.text, o.text, t, Told(r)) /\ Honest(r.obj.text, o.text, t, "nothing")
<1>1. r.obj \in Strings /\ Held(r.obj) /\ r.ok \in BOOLEAN
  BY DEF Attempted
<1>2. r.obj.text = t \/ r.obj.text = o.text
  BY DEF Attempted
<1>3. r.ok => r.obj.text = t
  BY DEF Attempted
<1>4. ~r.ok => r.obj.text = o.text
  BY DEF Attempted
<1>5. Told(r) = IF r.ok THEN "success" ELSE "failure"
  BY DEF Told
<1>6. Len(r.obj.text) <= MaxLen
  BY <1>2
<1>7. QED
  BY <1>1, <1>2, <1>3, <1>4, <1>5, <1>6 DEF Honest

LEMMA ReservesSound ==
  ASSUME StringSound, NEW size \in 0 .. MaxFree, Reserves(size)
  PROVE  StringSound'
<1>1. PICK r : r = Reserve(s, size)
  OBVIOUS
<1>2. size \in Nat
  BY TextAssumption DEF StringAssumption
<1>3. Attempted(r, s, s.text)
  BY <1>1, <1>2, NowIs, ReserveIs
<1>4. Done(r.obj, s.text, Told(r), FALSE)
  BY <1>1 DEF Reserves
<1>5. /\ r.obj \in Strings /\ Held(r.obj) /\ Len(r.obj.text) <= MaxLen
      /\ Honest(r.obj.text, s.text, s.text, Told(r))
  BY <1>3, NowIs, AttemptIs
<1>6. QED
  BY <1>4, <1>5, DoneSound

LEMMA MadeIs ==
  ASSUME NEW t \in Text
  PROVE  /\ Attempted(Made(t), Empty, CStr(t)) /\ Attempted(Number(t), Empty, t)
         /\ Made(t).obj.text \in Text /\ Number(t).obj.text \in Text
<1>1. CStr(t) \in Text
  BY CStrType
<1>2. Attempted(Made(t), Empty, CStr(t)) /\ Attempted(Number(t), Empty, t)
  BY <1>1, EmptyIsSound, BecomeIs DEF Made, Number, Assign
<1>3. QED
  BY <1>2 DEF Attempted, Strings

LEMMA ConstructsSound ==
  ASSUME StringSound, NEW t \in Texts, Constructs(t)
  PROVE  StringSound'
<1>1. PICK r : r = Made(t)
  OBVIOUS
<1>2. t \in Text /\ CStr(t) = t /\ Len(t) <= MaxLen /\ MaxLen \in Nat
  BY TextsAreTexts, NowIs
<1>3. Attempted(r, Empty, t)
  BY <1>1, <1>2, MadeIs
<1>4. Empty \in Strings /\ Empty.text = << >> /\ Len(Empty.text) <= MaxLen
  BY <1>2, EmptyIsSound, EmptySeq
<1>5. r.obj \in Strings /\ Held(r.obj) /\ Len(r.obj.text) <= MaxLen /\ r.obj.text \in {t, Empty.text}
  BY <1>2, <1>3, <1>4, AttemptIs
<1>6. s' = r.obj /\ free' = free /\ last' = [was |-> <<>>, want |-> t, told |-> "nothing", starved |-> FALSE]
  BY <1>1, <1>2 DEF Constructs
<1>7. last'.was = <<>> /\ last'.want = t /\ last'.told = "nothing"
  BY <1>6
<1>8. TypeOK' /\ BufferHoldsText'
  BY <1>5, <1>6 DEF StringSound, StringInv, TypeOK, BufferHoldsText, Strings, Text, Held
<1>9. AllOrNothing'
  BY <1>4, <1>5, <1>6, <1>7 DEF AllOrNothing
<1>10. QED
  BY <1>5, <1>6, <1>8, <1>9 DEF StringSound, StringInv

LEMMA AssignsSound ==
  ASSUME StringSound, NEW t \in Texts, Assigns(t)
  PROVE  StringSound'
<1>1. PICK r : r = Assign(s, t)
  OBVIOUS
<1>2. t \in Text /\ CStr(t) = t /\ Len(t) <= MaxLen
  BY TextsAreTexts
<1>3. Attempted(r, s, t)
  BY <1>1, <1>2, NowIs, BecomeIs DEF Assign
<1>4. Done(r.obj, t, "nothing", FALSE)
  BY <1>1, <1>2 DEF Assigns
<1>5. r.obj \in Strings /\ Held(r.obj) /\ Len(r.obj.text) <= MaxLen /\ Honest(r.obj.text, s.text, t, "nothing")
  BY <1>2, <1>3, NowIs, AttemptIs
<1>6. QED
  BY <1>4, <1>5, DoneSound

\* A text is added, if there is memory for the two.
LEMMA ConcatIs ==
  ASSUME NEW o \in Strings, Held(o), NEW t \in Text
  PROVE  Attempted(Concat(o, t), o, o.text \o t) /\ o.text \o t \in Text
<1>1. o.text \in Seq(Chars) /\ t \in Seq(Chars)
  BY DEF Strings, Text
<1>2. o.text \o t \in Text
  BY <1>1, ConcatProperties DEF Text
<1>3. QED
  BY <1>2, BecomeIs DEF Concat

LEMMA ConcatsTextSound ==
  ASSUME StringSound, NEW t \in Text, ConcatsText(t) \/ Appends(t)
  PROVE  StringSound'
<1>1. PICK r : r = Concat(s, t)
  OBVIOUS
<1>2. PICK want : want = s.text \o t
  OBVIOUS
<1>3. Attempted(r, s, want) /\ want \in Text
  BY <1>1, <1>2, NowIs, ConcatIs
<1>4. Len(want) <= MaxLen
  BY <1>2 DEF ConcatsText, Appends, Bounded
<1>5. Done(r.obj, want, Told(r), FALSE) \/ Done(r.obj, want, "nothing", FALSE)
  BY <1>1, <1>2 DEF ConcatsText, Appends
<1>6. /\ r.obj \in Strings /\ Held(r.obj) /\ Len(r.obj.text) <= MaxLen
      /\ Honest(r.obj.text, s.text, want, Told(r)) /\ Honest(r.obj.text, s.text, want, "nothing")
  BY <1>3, <1>4, NowIs, AttemptIs
<1>7. QED
  BY <1>5, <1>6, DoneSound

LEMMA ConcatsNumberSound ==
  ASSUME StringSound, NEW t \in Text, ConcatsNumber(t) \/ AppendsNumber(t)
  PROVE  StringSound'
<1>1. PICK n : n = Number(t)
  OBVIOUS
<1>2. PICK u : u = n.obj.text
  OBVIOUS
<1>3. PICK r : r = Concat(s, u)
  OBVIOUS
<1>4. PICK want : want = s.text \o t
  OBVIOUS
<1>5. Attempted(n, Empty, t) /\ u \in Text
  BY <1>1, <1>2, MadeIs
<1>6. /\ n.ok => u = t
      /\ ~n.ok => u = << >>
  BY <1>2, <1>5, EmptyIsSound DEF Attempted
<1>7. Len(want) <= MaxLen
  BY <1>4 DEF ConcatsNumber, AppendsNumber, Bounded
<1>8. Attempted(r, s, s.text \o u) /\ s.text \o u \in Text
  BY <1>3, <1>5, NowIs, ConcatIs
<1>9. Len(s.text \o u) <= MaxLen
  <2>1. n.ok => s.text \o u = want
    BY <1>4, <1>6
  <2>2. ~n.ok => s.text \o u = s.text
    BY <1>6, NowIs, ConcatEmptySeq DEF Text
  <2>3. QED
    BY <1>5, <1>7, <2>1, <2>2, NowIs DEF Attempted
<1>10. /\ r.obj \in Strings /\ Held(r.obj) /\ Len(r.obj.text) <= MaxLen
       /\ Honest(r.obj.text, s.text, s.text \o u, Told(r)) /\ Honest(r.obj.text, s.text, s.text \o u, "nothing")
  BY <1>8, <1>9, NowIs, AttemptIs
<1>11. n.ok => Honest(r.obj.text, s.text, want, Told(r)) /\ Honest(r.obj.text, s.text, want, "nothing")
  BY <1>4, <1>6, <1>10
<1>12. Done(r.obj, want, Told(r), ~n.ok) \/ Done(r.obj, want, "nothing", ~n.ok)
  BY <1>1, <1>2, <1>3, <1>4 DEF ConcatsNumber, AppendsNumber
<1>13. QED
  BY <1>10, <1>11, <1>12, DoneSound

LEMMA ConcatsItselfSound ==
  ASSUME StringSound, ConcatsItself
  PROVE  StringSound'
<1>1. PICK t : t = CStr(s.text)
  OBVIOUS
<1>2. PICK want : want = s.text \o t
  OBVIOUS
<1> DEFINE room == Len(want) + 1 <= s.cap
<1>4. /\ Len(want) <= MaxLen
      /\ \E copied \in IF room THEN {t} ELSE {t} \cup [1 .. Len(t) -> {"a"}] :
           Done(Concat(s, copied).obj, want, Told(Concat(s, copied)), ~room)
  BY <1>1, <1>2 DEF ConcatsItself, Bounded
<1>5. PICK copied \in IF room THEN {t} ELSE {t} \cup [1 .. Len(t) -> {"a"}] :
         Done(Concat(s, copied).obj, want, Told(Concat(s, copied)), ~room)
  BY <1>4
<1>6. t \in Seq(Chars) /\ Len(t) \in Nat
  BY <1>1, NowIs DEF Text
<1>7. copied \in Seq(Chars) /\ Len(copied) = Len(t)
  <2>1. ASSUME copied \in [1 .. Len(t) -> {"a"}] PROVE copied \in Seq(Chars) /\ Len(copied) = Len(t)
    <3>1. copied \in Seq({"a"}) /\ Len(copied) = Len(t)
      BY <1>6, <2>1
    <3>2. QED
      BY <3>1, SeqMonotonic DEF Chars
  <2>2. QED
    BY <1>6, <2>1
<1>8. PICK r : r = Concat(s, copied)
  OBVIOUS
<1>9. Attempted(r, s, s.text \o copied) /\ s.text \o copied \in Text
  BY <1>7, <1>8, NowIs, ConcatIs DEF Text
<1>10. Len(s.text \o copied) = Len(want)
  <2>1. Len(s.text \o copied) = Len(s.text) + Len(copied)
    BY <1>7, NowIs, ConcatProperties DEF Text
  <2>2. Len(want) = Len(s.text) + Len(t)
    BY <1>2, <1>6, NowIs, ConcatProperties DEF Text
  <2>3. QED
    BY <1>7, <2>1, <2>2
<1>11. /\ r.obj \in Strings /\ Held(r.obj) /\ Len(r.obj.text) <= MaxLen
       /\ Honest(r.obj.text, s.text, s.text \o copied, Told(r))
  BY <1>4, <1>9, <1>10, NowIs, AttemptIs
<1>12. room => Honest(r.obj.text, s.text, want, Told(r))
  BY <1>2, <1>5, <1>11
<1>13. Done(r.obj, want, Told(r), ~room)
  BY <1>5, <1>8
<1>14. QED
  BY <1>11, <1>12, <1>13, DoneSound

\* s = s + t: copy is the copy of s, sum what the right side makes of it, r what is
\* left in s.
LEMMA SumSound ==
  ASSUME StringSound, NEW t \in Text, NEW u \in Text, NEW right \in BOOLEAN, IF right THEN u = t ELSE u = << >>,
         NEW copy, copy = Made(s.text), NEW sum, sum = Concat(copy.obj, u), NEW r, r = Assign(s, sum.obj.text),
         Len(s.text \o t) <= MaxLen, NEW starved, starved = (~copy.ok \/ ~right \/ ~sum.ok),
         Done(r.obj, CStr(s.text) \o t, "nothing", starved)
  PROVE  StringSound'
<1>1. PICK c : c = CStr(s.text)
  OBVIOUS
<1>2. c \in Text /\ Len(c) \in Nat /\ Len(c) <= Len(s.text) /\ t \in Seq(Chars) /\ Len(t) \in Nat /\ c \in Seq(Chars)
  BY <1>1, NowIs DEF Text
<1>3. Len(s.text) + Len(t) <= MaxLen
  <2>1. Len(s.text \o t) = Len(s.text) + Len(t)
    BY <1>2, NowIs, ConcatProperties DEF Text
  <2>2. QED
    BY <2>1
<1>4. PICK o : o = copy.obj
  OBVIOUS
<1>5. Attempted(copy, Empty, c)
  BY <1>1, NowIs, MadeIs
<1>6. o \in Strings /\ Held(o) /\ (o.text = c \/ o.text = << >>) /\ (copy.ok => o.text = c)
  BY <1>4, <1>5, EmptyIsSound DEF Attempted
<1>7. Attempted(sum, o, o.text \o u) /\ o.text \o u \in Text
  BY <1>4, <1>6, ConcatIs
<1>8. o.text \in Seq(Chars) /\ Len(o.text) \in Nat /\ Len(o.text) <= Len(c)
  <2>1. o.text = c => Len(o.text) <= Len(c)
    BY <1>2
  <2>2. o.text = << >> => Len(o.text) <= Len(c)
    BY <1>2, EmptySeq
  <2>3. QED
    BY <1>6, <2>1, <2>2 DEF Strings, Text
<1>9. u \in Seq(Chars) /\ Len(u) \in Nat /\ Len(u) <= Len(t)
  BY <1>2, EmptySeq DEF Text
<1>10. Len(o.text \o u) = Len(o.text) + Len(u)
  BY <1>8, <1>9, ConcatProperties
<1>11. Len(o.text \o u) <= MaxLen /\ Len(o.text) <= MaxLen
  BY <1>2, <1>3, <1>8, <1>9, <1>10, NowIs
<1>12. PICK w : w = sum.obj.text
  OBVIOUS
<1>13. w \in Text /\ Len(w) <= MaxLen /\ (sum.ok => w = o.text \o u)
  BY <1>6, <1>7, <1>11, <1>12, AttemptIs DEF Strings
<1>14. Attempted(r, s, w)
  BY <1>12, <1>13, NowIs, BecomeIs DEF Assign
<1>15. r.obj \in Strings /\ Held(r.obj) /\ Len(r.obj.text) <= MaxLen /\ Honest(r.obj.text, s.text, w, "nothing")
  BY <1>13, <1>14, NowIs, AttemptIs
<1>16. ~starved => w = c \o t
  BY <1>6, <1>13
<1>17. ~starved => Honest(r.obj.text, s.text, CStr(s.text) \o t, "nothing")
  BY <1>1, <1>15, <1>16
<1>18. QED
  BY <1>15, <1>17, DoneSound

LEMMA AddsSound ==
  ASSUME StringSound, NEW t \in Text, Adds(t)
  PROVE  StringSound'
<1>1. PICK copy : copy = Made(s.text)
  OBVIOUS
<1>2. PICK sum : sum = Concat(copy.obj, t)
  OBVIOUS
<1>3. PICK r : r = Assign(s, sum.obj.text)
  OBVIOUS
<1>4. PICK starved : starved = (~copy.ok \/ ~TRUE \/ ~sum.ok) /\ starved = (~copy.ok \/ ~sum.ok)
  OBVIOUS
<1>5. Len(s.text \o t) <= MaxLen /\ Done(r.obj, CStr(s.text) \o t, "nothing", starved)
  BY <1>1, <1>2, <1>3, <1>4, Zenon DEF Adds, Bounded
<1>6. QED
  BY <1>1, <1>2, <1>3, <1>4, <1>5, SumSound

LEMMA AddsNumberSound ==
  ASSUME StringSound, NEW t \in Text, AddsNumber(t)
  PROVE  StringSound'
<1>1. PICK copy : copy = Made(s.text)
  OBVIOUS
<1>2. PICK n : n = Number(t)
  OBVIOUS
<1>3. PICK u : u = n.obj.text
  OBVIOUS
<1>4. PICK sum : sum = Concat(copy.obj, u)
  OBVIOUS
<1>5. PICK r : r = Assign(s, sum.obj.text)
  OBVIOUS
<1>6. PICK starved : starved = (~copy.ok \/ ~n.ok \/ ~sum.ok)
  OBVIOUS
<1>7. Len(s.text \o t) <= MaxLen /\ Done(r.obj, CStr(s.text) \o t, "nothing", starved)
  BY <1>1, <1>2, <1>3, <1>4, <1>5, <1>6, Zenon DEF AddsNumber, Bounded
<1>8. Attempted(n, Empty, t) /\ u \in Text
  BY <1>2, <1>3, MadeIs
<1>9. n.ok \in BOOLEAN /\ IF n.ok THEN u = t ELSE u = << >>
  BY <1>3, <1>8, EmptyIsSound DEF Attempted
<1>10. QED
  BY <1>1, <1>4, <1>5, <1>6, <1>7, <1>8, <1>9, SumSound

\* A call that changes the text in place.
LEMMA EditSound ==
  ASSUME StringSound, NEW t \in Text, Len(t) <= Len(s.text), NEW want, want = t,
         NEW told, told \in {"success", "nothing"}, Done([s EXCEPT !.text = t], want, told, FALSE)
  PROVE  StringSound'
<1>1. PICK o : o = [s EXCEPT !.text = t]
  OBVIOUS
<1>2. o \in Strings /\ o.text = t /\ o.cap = s.cap
  BY <1>1, NowIs DEF Strings
<1>3. Held(o)
  <2>1. Len(t) \in Nat /\ Len(s.text) \in Nat /\ s.cap \in Nat
    BY NowIs DEF Text, Strings
  <2>2. CASE s.text = << >>
    <3>1. Len(t) = 0
      BY <2>1, <2>2
    <3>2. t = << >>
      BY <3>1, EmptySeq DEF Text
    <3>3. QED
      BY <1>2, <3>2 DEF Held
  <2>3. CASE Len(s.text) < s.cap
    <3>1. Len(t) < s.cap
      BY <2>1, <2>3
    <3>2. QED
      BY <1>2, <3>1 DEF Held
  <2>4. QED
    BY <2>2, <2>3, NowIs DEF Held
<1>4. Len(o.text) <= MaxLen
  BY <1>2, NowIs DEF Text
<1>5. Honest(o.text, s.text, want, told)
  BY <1>2 DEF Honest
<1>6. QED
  BY <1>1, <1>2, <1>3, <1>4, <1>5, DoneSound

LEMMA RemovesFromSound ==
  ASSUME StringSound, NEW index \in Indexes, RemovesFrom(index)
  PROVE  StringSound'
<1>1. PICK t : t = SubSeq(s.text, 1, index)
  OBVIOUS
<1>2. index \in Nat /\ index < Len(s.text)
  BY NowIs DEF Indexes, RemovesFrom
<1>3. t \in Text /\ Len(t) <= Len(s.text)
  BY <1>1, <1>2, NowIs DEF Text
<1>4. Done([s EXCEPT !.text = t], t, "success", FALSE)
  BY <1>1 DEF RemovesFrom
<1>5. QED
  BY <1>3, <1>4, EditSound

\* How many characters remove(index, count) takes out of l.
LEMMA GoneIs ==
  ASSUME NEW l \in Nat, NEW index \in Nat, NEW count \in Nat
  PROVE  /\ Max({0, Min({count, l - index})}) \in 0 .. l
         /\ index >= l => Max({0, Min({count, l - index})}) = 0
         /\ index < l /\ index + count >= l => Max({0, Min({count, l - index})}) = l - index
         /\ index < l /\ index + count < l => Max({0, Min({count, l - index})}) = count
<1>1. PICK low : low = Min({count, l - index})
  OBVIOUS
<1>2. low \in Int /\ low = IF count <= l - index THEN count ELSE l - index
  BY <1>1, PairMin
<1>3. PICK gone : gone = Max({0, low})
  OBVIOUS
<1>4. gone = IF 0 <= low THEN low ELSE 0
  BY <1>2, <1>3, PairMax
<1>5. /\ gone \in 0 .. l /\ (index >= l => gone = 0)
      /\ index < l /\ index + count >= l => gone = l - index
      /\ index < l /\ index + count < l => gone = count
  BY <1>2, <1>4
<1>6. QED
  BY <1>1, <1>3, <1>5, Zenon

\* remove(index, count) leaves what a reader of the text expects.
LEMMA CutIs ==
  ASSUME NEW x \in Text, NEW index \in Nat, NEW count \in Nat, NEW gone \in 0 .. Len(x),
         index >= Len(x) => gone = 0,
         index < Len(x) /\ index + count >= Len(x) => gone = Len(x) - index,
         index < Len(x) /\ index + count < Len(x) => gone = count
  PROVE  /\ Cut(x, index, count) \in Text /\ Len(Cut(x, index, count)) <= Len(x)
         /\ Cut(x, index, count) = [i \in 1 .. Len(x) - gone |-> IF i <= index THEN x[i] ELSE x[i + gone]]
<1>1. PICK l \in Nat : l = Len(x) /\ x \in Seq(Chars)
  BY DEF Text
<1>2. PICK kept : kept = [i \in 1 .. l - gone |-> IF i <= index THEN x[i] ELSE x[i + gone]]
  OBVIOUS
<1>3. /\ gone \in 0 .. l /\ (index >= l => gone = 0)
      /\ index < l /\ index + count >= l => gone = l - index
      /\ index < l /\ index + count < l => gone = count
  BY <1>1
<1>6. PICK c : c = Cut(x, index, count)
  OBVIOUS
<1>7. kept \in Seq(Chars) /\ Len(kept) = l - gone /\ gone \in 0 .. l
      /\ \A i \in 1 .. l - gone : kept[i] = IF i <= index THEN x[i] ELSE x[i + gone]
  <2>1. gone \in 0 .. l /\ (index < l => gone + index <= l) /\ (index >= l => gone = 0)
    BY <1>3
  <2>2. \A i \in 1 .. l - gone : i \in 1 .. l /\ (i > index => i + gone \in 1 .. l)
    BY <2>1
  <2>3. \A i \in 1 .. l - gone : (IF i <= index THEN x[i] ELSE x[i + gone]) \in Chars
    BY <1>1, <2>2
  <2>4. kept \in [1 .. l - gone -> Chars] /\ l - gone \in Nat
    BY <1>2, <2>1, <2>3
  <2>5. kept \in Seq(Chars) /\ Len(kept) = l - gone
    BY <2>4
  <2>6. QED
    BY <1>2, <2>1, <2>5
<1>8. CASE index >= l \/ count = 0
  <2>1. gone = 0 /\ c = x
    <3>1. gone = 0
      <4>1. CASE index >= l
        BY <1>3, <4>1
      <4>2. CASE index < l /\ count = 0
        BY <1>3, <4>2
      <4>3. QED
        BY <1>8, <4>1, <4>2
    <3>2. c = x
      BY <1>1, <1>6, <1>8 DEF Cut
    <3>3. QED
      BY <3>1, <3>2
  <2>2. \A i \in 1 .. l : kept[i] = x[i]
    BY <1>7, <2>1
  <2>3. Len(kept) = l
    BY <1>7, <2>1
  <2>4. kept = x
    BY <1>1, <1>7, <2>2, <2>3, SeqEqual
  <2>5. QED
    BY <1>1, <1>2, <1>6, <2>1, <2>4
<1>9. CASE ~(index >= l \/ count = 0) /\ index + count >= l
  <2>1. gone = l - index /\ c = SubSeq(x, 1, index)
    BY <1>1, <1>3, <1>6, <1>9 DEF Cut
  <2>2. c \in Seq(Chars) /\ Len(c) = index /\ \A i \in 1 .. index : c[i] = x[i]
    BY <1>1, <1>9, <2>1
  <2>3. l - gone = index /\ index <= l
    BY <1>9, <2>1
  <2>4. \A i \in 1 .. index : kept[i] = x[i]
    BY <1>7, <2>3
  <2>5. kept = c
    BY <1>7, <2>2, <2>3, <2>4, SeqEqual
  <2>6. QED
    BY <1>1, <1>2, <1>6, <2>2, <2>3, <2>5 DEF Text
<1>10. CASE ~(index >= l \/ count = 0) /\ ~(index + count >= l)
  <2>1. gone = count
    BY <1>3, <1>10
  <2>2. PICK a : a = SubSeq(x, 1, index)
    OBVIOUS
  <2>3. PICK b : b = SubSeq(x, index + count + 1, l)
    OBVIOUS
  <2>4. c = a \o b
    BY <1>1, <1>6, <1>10, <2>2, <2>3 DEF Cut
  <2>5. a \in Seq(Chars) /\ Len(a) = index /\ \A i \in 1 .. index : a[i] = x[i]
    BY <1>1, <1>10, <2>2
  <2>6. PICK m \in Nat : m = index + count /\ m < l
    BY <1>10
  <2>7. b \in Seq(Chars) /\ Len(b) = l - m /\ \A i \in 1 .. l - m : b[i] = x[m + i]
    <3>1. b = SubSeq(x, m + 1, l)
      BY <2>3, <2>6
    <3>2. QED
      BY <1>1, <2>6, <3>1
  <2>8. /\ c \in Seq(Chars) /\ Len(c) = index + (l - m)
        /\ \A i \in 1 .. index : c[i] = a[i]
        /\ \A i \in 1 .. l - m : c[index + i] = b[i]
    <3>4. a \in Seq(Chars) /\ b \in Seq(Chars)
      BY <2>5, <2>7
    <3>1. /\ c \in Seq(Chars) /\ Len(c) = Len(a) + Len(b)
          /\ \A i \in 1 .. Len(a) : c[i] = a[i]
          /\ \A i \in 1 .. Len(b) : c[Len(a) + i] = b[i]
      BY ONLY <2>4, <3>4, JoinedIs
    <3>2. Len(a) = index /\ Len(b) = l - m
      BY <2>5, <2>7
    <3>3. QED
      BY ONLY <3>1, <3>2
  <2>9. index + (l - m) = l - gone
    BY <2>1, <2>6
  <2>10. ASSUME NEW i \in 1 .. l - gone PROVE c[i] = kept[i]
    <3>1. CASE i <= index
      <4>1. i \in 1 .. index
        BY <3>1
      <4>2. c[i] = a[i] /\ a[i] = x[i]
        BY <2>5, <2>8, <4>1
      <4>3. kept[i] = IF i <= index THEN x[i] ELSE x[i + gone]
        BY <1>7
      <4>4. QED
        BY ONLY <3>1, <4>2, <4>3, Zenon
    <3>2. CASE i > index
      <4>1. PICK j \in 1 .. l - m : i = index + j /\ m + j = i + gone
        <5>1. i - index \in 1 .. l - m /\ i = index + (i - index) /\ m + (i - index) = i + gone
          BY <2>1, <2>6, <3>2
        <5>2. QED
          BY <5>1
      <4>2. c[i] = b[j] /\ b[j] = x[m + j]
        BY <2>7, <2>8, <4>1
      <4>3. kept[i] = x[i + gone]
        <5>1. ~(i <= index)
          BY <3>2
        <5>2. kept[i] = IF i <= index THEN x[i] ELSE x[i + gone]
          BY <1>7
        <5>3. QED
          BY ONLY <5>1, <5>2, Zenon
      <4>4. QED
        BY <4>1, <4>2, <4>3
    <3>3. QED
      BY <3>1, <3>2
  <2>11. c = kept
    BY <1>7, <2>8, <2>9, <2>10, SeqEqual
  <2>12. Len(c) <= l
    BY <1>7, <2>8, <2>9
  <2>13. QED
    BY <1>1, <1>2, <1>6, <2>8, <2>11, <2>12 DEF Text
<1>11. QED
  BY <1>8, <1>9, <1>10

LEMMA RemovesSound ==
  ASSUME StringSound, NEW index \in Indexes, NEW count \in Indexes, Removes(index, count)
  PROVE  StringSound'
<1>1. index \in Nat /\ count \in Nat
  BY NowIs DEF Indexes
<1>2. PICK gone : gone = Max({0, Min({count, Len(s.text) - index})})
  OBVIOUS
<1>3. PICK kept : kept = [i \in 1 .. Len(s.text) - gone |-> IF i <= index THEN s.text[i] ELSE s.text[i + gone]]
  OBVIOUS
<1>4. PICK c : c = Cut(s.text, index, count)
  OBVIOUS
<1>5. PICK x \in Text : x = s.text /\ Len(x) \in Nat
  BY NowIs
<1>6. c \in Text /\ Len(c) <= Len(x) /\ kept = c
  <2>1. /\ gone \in 0 .. Len(x) /\ (index >= Len(x) => gone = 0)
        /\ index < Len(x) /\ index + count >= Len(x) => gone = Len(x) - index
        /\ index < Len(x) /\ index + count < Len(x) => gone = count
    BY <1>1, <1>2, <1>5, GoneIs
  <2>2. /\ Cut(x, index, count) \in Text /\ Len(Cut(x, index, count)) <= Len(x)
        /\ Cut(x, index, count) = [i \in 1 .. Len(x) - gone |-> IF i <= index THEN x[i] ELSE x[i + gone]]
    BY <1>1, <2>1, CutIs
  <2>3. QED
    BY <1>3, <1>4, <1>5, <2>2, Zenon
<1>7. Done([s EXCEPT !.text = c], kept, "success", FALSE)
  BY <1>2, <1>3, <1>4, Zenon DEF Removes
<1>8. QED
  BY <1>5, <1>6, <1>7, EditSound

LEMMA SetsCharSound ==
  ASSUME StringSound, NEW index \in Indexes, NEW c \in Chars, SetsChar(index, c)
  PROVE  StringSound'
<1>1. PICK t : t = IF index < Len(s.text) THEN [s.text EXCEPT ![index + 1] = c] ELSE s.text
  OBVIOUS
<1>2. index \in Nat
  BY NowIs DEF Indexes
<1>3. t \in Text /\ Len(t) <= Len(s.text)
  <2>1. CASE index < Len(s.text)
    <3>1. index + 1 \in 1 .. Len(s.text)
      BY <1>2, <2>1, NowIs
    <3>2. s.text \in Seq(Chars)
      BY NowIs DEF Text
    <3>3. [s.text EXCEPT ![index + 1] = c] \in Seq(Chars) /\ Len([s.text EXCEPT ![index + 1] = c]) = Len(s.text)
      BY ONLY <3>1, <3>2, c \in Chars, ExceptSeq
    <3>4. t \in Seq(Chars) /\ Len(t) = Len(s.text)
      BY <1>1, <2>1, <3>3
    <3>5. QED
      BY <3>4, NowIs DEF Text
  <2>2. CASE ~(index < Len(s.text))
    BY <1>1, <2>2, NowIs
  <2>3. QED
    BY <2>1, <2>2
<1>4. Done([s EXCEPT !.text = t], t, "success", FALSE)
  BY <1>1, Zenon DEF SetsChar
<1>5. QED
  BY <1>3, <1>4, EditSound

\* A text that another of the same length is made of.
LEMMA SameLength ==
  ASSUME NEW x \in Text, NEW t \in [1 .. Len(x) -> Chars]
  PROVE  t \in Text /\ Len(t) <= Len(x) /\ Len(t) = Len(x)
<1>1. Len(x) \in Nat
  BY DEF Text
<1>2. t \in Seq(Chars) /\ Len(t) = Len(x)
  BY <1>1
<1>3. QED
  BY <1>1, <1>2 DEF Text

LEMMA ReplacesCharSound ==
  ASSUME StringSound, NEW find \in Chars, NEW by \in Chars, ReplacesChar(find, by)
  PROVE  StringSound'
<1>1. PICK t : t = [i \in DOMAIN s.text |-> IF s.text[i] = find THEN by ELSE s.text[i]]
  OBVIOUS
<1>2. DOMAIN s.text = 1 .. Len(s.text) /\ \A i \in 1 .. Len(s.text) : s.text[i] \in Chars
  BY NowIs DEF Text
<1>3. t \in [1 .. Len(s.text) -> Chars]
  BY <1>1, <1>2
<1>4. t \in Text /\ Len(t) <= Len(s.text)
  BY <1>3, NowIs, SameLength
<1>5. Done([s EXCEPT !.text = t], t, "success", FALSE)
  BY <1>1, Zenon DEF ReplacesChar
<1>6. QED
  BY <1>4, <1>5, EditSound

LEMMA ChangesCaseSound ==
  ASSUME StringSound, ChangesCase
  PROVE  StringSound'
<1>1. PICK t \in {[i \in DOMAIN s.text |-> Lower(s.text[i])], [i \in DOMAIN s.text |-> Upper(s.text[i])]} :
         Done([s EXCEPT !.text = t], t, "success", FALSE)
  BY DEF ChangesCase
<1>2. DOMAIN s.text = 1 .. Len(s.text) /\ \A i \in 1 .. Len(s.text) : s.text[i] \in Chars
  BY NowIs DEF Text
<1>3. \A c \in Chars : Lower(c) \in Chars /\ Upper(c) \in Chars
  BY DEF Chars, Lower, Upper
<1>4. t \in [1 .. Len(s.text) -> Chars]
  BY <1>1, <1>2, <1>3
<1>5. t \in Text /\ Len(t) <= Len(s.text)
  BY <1>4, NowIs, SameLength
<1>6. QED
  BY <1>1, <1>5, EditSound

LEMMA TrimIs ==
  ASSUME NEW x \in Text
  PROVE  Trim(x) \in Text /\ Len(Trim(x)) <= Len(x)
<1>1. PICK l \in Nat : l = Len(x) /\ x \in Seq(Chars)
  BY DEF Text
<1>2. PICK T : T = {i \in 1 .. l + 1 : i > l \/ x[i] # " "}
  OBVIOUS
<1>3. T \subseteq 1 .. l + 1 /\ T \subseteq Nat /\ l + 1 \in T
  <2>1. T \subseteq 1 .. l + 1
    BY <1>2
  <2>2. l + 1 \in 1 .. l + 1 /\ l + 1 > l
    OBVIOUS
  <2>3. l + 1 \in T
    BY ONLY <1>2, <2>2, Zenon
  <2>4. QED
    BY <2>1, <2>3
<1>4. PICK start : start = Min(T)
  OBVIOUS
<1>5. start \in 1 .. l + 1
  BY <1>3, <1>4, MinIs
<1>6. PICK U : U = {i \in start - 1 .. l : i = start - 1 \/ x[i] # " "}
  OBVIOUS
<1>7. U \subseteq start - 1 .. l /\ U \subseteq 0 .. l /\ start - 1 \in U
  <2>1. U \subseteq start - 1 .. l
    BY <1>6
  <2>2. start - 1 \in start - 1 .. l
    BY <1>5
  <2>3. start - 1 \in U
    BY ONLY <1>6, <2>2, Zenon
  <2>4. U \subseteq 0 .. l
    BY <1>5, <2>1
  <2>5. QED
    BY <2>1, <2>3, <2>4
<1>8. PICK end : end = Max(U)
  OBVIOUS
<1>9. end \in start - 1 .. l
  <2>1. Max(U) \in U
    BY <1>7, MaxIs
  <2>2. QED
    BY <1>7, <1>8, <2>1
<1>10. Trim(x) = SubSeq(x, start, end)
  BY <1>1, <1>2, <1>4, <1>6, <1>8, Zenon DEF Trim
<1>11. PICK a \in 0 .. l : a + 1 = start /\ a <= end
  <2>1. start - 1 \in 0 .. l /\ (start - 1) + 1 = start /\ start - 1 <= end
    BY <1>5, <1>9
  <2>2. QED
    BY <2>1
<1>12. SubSeq(x, a + 1, end) \in Seq(Chars) /\ Len(SubSeq(x, a + 1, end)) = end - a
  BY <1>1, <1>9, <1>11, PieceIs
<1>13. end - a <= l
  BY <1>9, <1>11
<1>14. QED
  BY <1>1, <1>10, <1>11, <1>12, <1>13 DEF Text

LEMMA TrimsSound ==
  ASSUME StringSound, Trims
  PROVE  StringSound'
<1>1. Done([s EXCEPT !.text = Trim(s.text)], Trim(s.text), "success", FALSE)
  BY DEF Trims
<1>2. Trim(s.text) \in Text /\ Len(Trim(s.text)) <= Len(s.text)
  BY NowIs, TrimIs
<1>3. QED
  BY <1>1, <1>2, EditSound

LEMMA BetweenIs ==
  ASSUME NEW x \in Text, NEW b \in Nat, NEW e \in Nat
  PROVE  Between(x, b, e) \in Text /\ Len(Between(x, b, e)) <= Len(x)
<1>1. PICK l \in Nat : l = Len(x) /\ x \in Seq(Chars)
  BY DEF Text
<1>2. PICK from \in Nat : from = IF b > e THEN e ELSE b
  OBVIOUS
<1>3. PICK to \in Nat : to = (IF b > e THEN b ELSE e) /\ from <= to
  BY <1>2
<1>4. PICK end \in Nat : end = IF to > l THEN l ELSE to
  OBVIOUS
<1>5. Between(x, b, e) = IF from >= l THEN << >> ELSE SubSeq(x, from + 1, end)
  BY <1>1, <1>2, <1>3, <1>4, Zenon DEF Between
<1>6. CASE from >= l
  <2>1. Between(x, b, e) = << >>
    BY <1>5, <1>6
  <2>2. << >> \in Seq(Chars) /\ Len(<< >>) = 0
    BY EmptySeq
  <2>3. QED
    BY <1>1, <2>1, <2>2 DEF Text
<1>7. CASE from < l
  <2>1. Between(x, b, e) = SubSeq(x, from + 1, end) /\ from <= end /\ end <= l
    BY <1>3, <1>4, <1>5, <1>7
  <2>2. SubSeq(x, from + 1, end) \in Seq(Chars) /\ Len(SubSeq(x, from + 1, end)) = end - from
    BY <1>1, <2>1, PieceIs
  <2>3. end - from <= l
    BY <2>1
  <2>4. QED
    BY <1>1, <2>1, <2>2, <2>3 DEF Text
<1>8. QED
  BY <1>6, <1>7

LEMMA TakesSubstringSound ==
  ASSUME StringSound, NEW b \in Indexes, NEW e \in Indexes, TakesSubstring(b, e)
  PROVE  StringSound'
<1>1. PICK u : u = Between(s.text, b, e)
  OBVIOUS
<1>2. b \in Nat /\ e \in Nat
  BY NowIs DEF Indexes
<1>3. u \in Text /\ Len(u) <= Len(s.text) /\ Len(u) \in Nat
  BY <1>1, <1>2, NowIs, BetweenIs DEF Text
<1>4. PICK n : n = Assign(Empty, u)
  OBVIOUS
<1>5. Attempted(n, Empty, u)
  BY <1>3, <1>4, EmptyIsSound, BecomeIs DEF Assign
<1>6. PICK w : w = n.obj.text
  OBVIOUS
<1>7. w \in Text /\ (w = u \/ w = << >>) /\ (n.ok => w = u)
  BY <1>5, <1>6, EmptyIsSound DEF Attempted, Strings
<1>8. Len(w) \in Nat /\ Len(w) <= MaxLen
  <2>1. w = << >> => Len(w) = 0
    BY EmptySeq
  <2>2. QED
    BY <1>3, <1>7, <2>1, NowIs
<1>9. PICK c : c = CStr(w)
  OBVIOUS
<1>10. c \in Text /\ Len(c) <= MaxLen
  <2>1. CStr(w) \in Text /\ Len(CStr(w)) <= Len(w)
    BY <1>7, CStrType
  <2>2. QED
    BY <1>8, <1>9, <2>1, NowIs DEF Text
<1>11. PICK r : r = Assign(s, c)
  OBVIOUS
<1>12. Attempted(r, s, c)
  BY <1>10, <1>11, NowIs, BecomeIs DEF Assign
<1>13. r.obj \in Strings /\ Held(r.obj) /\ Len(r.obj.text) <= MaxLen /\ Honest(r.obj.text, s.text, c, "nothing")
  BY <1>10, <1>12, NowIs, AttemptIs
<1>14. n.ok => Honest(r.obj.text, s.text, CStr(u), "nothing")
  BY <1>7, <1>9, <1>13
<1>15. Done(r.obj, CStr(u), "nothing", ~n.ok)
  BY <1>1, <1>4, <1>6, <1>9, <1>11, Zenon DEF TakesSubstring
<1>16. QED
  BY <1>13, <1>14, <1>15, DoneSound

-----------------------------------------------------------------------------
(* Where a value is found in a text *)

Occurs(v, t, i) == i + Len(v) <= Len(t) /\ \A j \in 1 .. Len(v) : t[i + j] = v[j]

\* m is the first place of v in t from c on.
First(m, v, t, c) ==
  \/ m = -1 /\ \A i \in c .. Len(t) : ~Occurs(v, t, i)
  \/ m \in c .. Len(t) /\ Occurs(v, t, m) /\ \A i \in c .. m - 1 : ~Occurs(v, t, i)

LEMMA PrefixIs ==
  ASSUME NEW S, NEW u \in Seq(S), NEW w \in Seq(S)
  PROVE  IsPrefix(u, w) <=> Len(u) <= Len(w) /\ \A j \in 1 .. Len(u) : w[j] = u[j]
<1>1. PICK l \in Nat : l = Len(u)
  OBVIOUS
<1>2. CASE l <= Len(w)
  <2>1. PICK a : a = SubSeq(u, 1, l)
    OBVIOUS
  <2>2. PICK b : b = SubSeq(w, 1, l)
    OBVIOUS
  <2>3. /\ a \in Seq(S) /\ Len(a) = l /\ \A i \in 1 .. l : a[i] = u[i]
        /\ b \in Seq(S) /\ Len(b) = l /\ \A i \in 1 .. l : b[i] = w[i]
    BY <1>1, <1>2, <2>1, <2>2
  <2>4. a = b <=> \A i \in 1 .. l : a[i] = b[i]
    BY <2>3, SeqEqual
  <2>5. a = b <=> \A i \in 1 .. l : w[i] = u[i]
    BY <2>3, <2>4
  <2>6. QED
    BY <1>1, <1>2, <2>1, <2>2, <2>5 DEF IsPrefix
<1>3. CASE ~(l <= Len(w))
  BY <1>1, <1>3 DEF IsPrefix
<1>4. QED
  BY <1>2, <1>3

\* A value is the beginning of what is left of a text where it occurs.
LEMMA PrefixOfRest ==
  ASSUME NEW t \in Text, NEW v \in Text, NEW i \in 0 .. Len(t)
  PROVE  IsPrefix(v, SubSeq(t, i + 1, Len(t))) <=> Occurs(v, t, i)
<1>1. PICK l \in Nat : l = Len(t) /\ t \in Seq(Chars) /\ v \in Seq(Chars) /\ Len(v) \in Nat /\ i \in Nat /\ i <= l
  BY DEF Text
<1>2. PICK w : w = SubSeq(t, i + 1, l)
  OBVIOUS
<1>3. w \in Seq(Chars) /\ Len(w) = l - i /\ \A j \in 1 .. l - i : w[j] = t[i + j]
  BY <1>1, <1>2, PieceIs
<1>4. IsPrefix(v, w) <=> Len(v) <= Len(w) /\ \A j \in 1 .. Len(v) : w[j] = v[j]
  BY <1>1, <1>3, PrefixIs
<1>5. Len(v) <= Len(w) <=> i + Len(v) <= l
  BY <1>1, <1>3
<1>6. ASSUME Len(v) <= Len(w), NEW j \in 1 .. Len(v) PROVE w[j] = t[i + j]
  <2>1. j \in 1 .. l - i
    BY <1>1, <1>3, <1>6
  <2>2. QED
    BY <1>3, <2>1
<1>7. IsPrefix(v, w) <=> i + Len(v) <= l /\ \A j \in 1 .. Len(v) : t[i + j] = v[j]
  BY <1>4, <1>5, <1>6
<1>8. QED
  BY ONLY <1>1, <1>2, <1>7, Zenon DEF Occurs

LEMMA StopsOnce ==
  ASSUME NEW t \in Text, NEW a, NEW b, Stops(t, a), Stops(t, b)
  PROVE  a = b
<1>1. PICK l \in Nat : l = Len(t) /\ a \in 0 .. l /\ b \in 0 .. l
  BY DEF Text, Stops
<1>2. ~(a < b)
  <2>1. SUFFICES ASSUME a < b PROVE FALSE
    OBVIOUS
  <2>2. a + 1 \in 1 .. b /\ a # l
    BY <1>1, <2>1
  <2>3. QED
    BY <1>1, <2>2 DEF Stops
<1>3. ~(b < a)
  <2>1. SUFFICES ASSUME b < a PROVE FALSE
    OBVIOUS
  <2>2. b + 1 \in 1 .. a /\ b # l
    BY <1>1, <2>1
  <2>3. QED
    BY <1>1, <2>2 DEF Stops
<1>4. QED
  BY <1>1, <1>2, <1>3

\* c_str() + c is what is left of c_str().
LEMMA RestIs ==
  ASSUME NEW x \in Text, NEW n, Stops(x, n), NEW c \in 0 .. n
  PROVE  CStr(SubSeq(x, c + 1, Len(x))) = SubSeq(x, c + 1, n)
<1>1. PICK l \in Nat : l = Len(x) /\ x \in Seq(Chars) /\ n \in 0 .. l
  BY DEF Text, Stops
<1>2. c \in Nat /\ c <= n /\ n \in Nat /\ n <= l
  BY <1>1
<1>3. PICK w : w = SubSeq(x, c + 1, l)
  OBVIOUS
<1>4. w \in Seq(Chars) /\ Len(w) = l - c /\ \A j \in 1 .. l - c : w[j] = x[c + j]
  BY <1>1, <1>2, <1>3, PieceIs
<1>5. Stops(w, n - c)
  <2>1. n - c \in 0 .. Len(w)
    BY <1>2, <1>4
  <2>2. ASSUME NEW i \in 1 .. n - c PROVE w[i] # NUL
    <3>1. i \in 1 .. l - c /\ c + i \in 1 .. n
      BY <1>2
    <3>2. QED
      BY <1>4, <3>1 DEF Stops
  <2>3. n - c = Len(w) \/ w[(n - c) + 1] = NUL
    <3>1. CASE n = l
      BY <1>4, <3>1
    <3>2. CASE n # l
      <4>1. x[n + 1] = NUL
        BY <1>1, <3>2 DEF Stops
      <4>2. (n - c) + 1 \in 1 .. l - c /\ c + ((n - c) + 1) = n + 1
        BY <1>2, <3>2
      <4>3. QED
        BY <1>4, <4>1, <4>2
    <3>3. QED
      BY <3>1, <3>2
  <2>4. QED
    BY <2>1, <2>2, <2>3 DEF Stops
<1>6. PICK m \in 0 .. Len(w) : Stops(w, m) /\ CStr(w) = SubSeq(w, 1, m)
  BY <1>4, CStrIs DEF Text
<1>7. m = n - c
  BY <1>4, <1>5, <1>6, StopsOnce DEF Text
<1>8. PICK u : u = SubSeq(w, 1, n - c)
  OBVIOUS
<1>9. u \in Seq(Chars) /\ Len(u) = n - c /\ \A j \in 1 .. n - c : u[j] = w[j]
  BY <1>2, <1>4, <1>8
<1>10. PICK z : z = SubSeq(x, c + 1, n)
  OBVIOUS
<1>11. z \in Seq(Chars) /\ Len(z) = n - c /\ \A j \in 1 .. n - c : z[j] = x[c + j]
  BY <1>1, <1>2, <1>10, PieceIs
<1>12. ASSUME NEW j \in 1 .. Len(u) PROVE u[j] = z[j]
  <2>1. j \in 1 .. n - c /\ j \in 1 .. l - c
    BY <1>2, <1>9
  <2>2. QED
    BY <1>4, <1>9, <1>11, <2>1
<1>13. u = z
  BY <1>9, <1>11, <1>12, SeqEqual
<1>14. QED
  BY <1>1, <1>3, <1>6, <1>7, <1>8, <1>10, <1>13

LEMMA IndexOfIs ==
  ASSUME NEW x \in Text, NEW n, Stops(x, n), NEW t, t = SubSeq(x, 1, n), NEW v \in Text, NEW c \in 0 .. n
  PROVE  First(IndexOf(x, v, c), v, t, c)
<1>1. PICK l \in Nat : l = Len(x) /\ x \in Seq(Chars) /\ n \in 0 .. l /\ v \in Seq(Chars)
  BY DEF Text, Stops
<1>2. PICK k \in Nat : k = Len(v)
  BY <1>1
<1>3. c \in Nat /\ c <= n /\ n \in Nat /\ n <= l /\ ~(c > l)
  BY <1>1
<1>4. t \in Seq(Chars) /\ t \in Text /\ Len(t) = n /\ \A j \in 1 .. n : t[j] = x[j]
  BY <1>1, <1>3 DEF Text
<1>5. PICK w : w = CStr(SubSeq(x, c + 1, l)) /\ w = SubSeq(x, c + 1, n)
  BY <1>1, RestIs
<1>6. w \in Seq(Chars) /\ w \in Text /\ Len(w) = n - c /\ \A j \in 1 .. n - c : w[j] = x[c + j]
  <2>1. PICK u : u = SubSeq(x, c + 1, n)
    OBVIOUS
  <2>2. u \in Seq(Chars) /\ Len(u) = n - c /\ \A j \in 1 .. n - c : u[j] = x[c + j]
    BY <1>1, <1>3, <2>1, PieceIs
  <2>3. u = w
    BY <1>5, <2>1
  <2>4. QED
    BY <2>2, <2>3 DEF Text
<1>7. PICK found : found = {i \in 0 .. Len(w) - Len(v) : IsPrefix(v, SubSeq(w, i + 1, Len(w)))}
  OBVIOUS
<1>8. IndexOf(x, v, c) = IF found = {} THEN -1 ELSE c + Min(found)
  BY <1>1, <1>3, <1>5, <1>7, Zenon DEF IndexOf
<1>9. ASSUME NEW i \in 0 .. n - c PROVE Occurs(v, w, i) <=> Occurs(v, t, c + i)
  <2>1. i + k <= n - c <=> (c + i) + k <= n
    BY <1>3
  <2>2. ASSUME i + k <= n - c, NEW j \in 1 .. k PROVE w[i + j] = t[(c + i) + j]
    <3>1. i + j \in 1 .. n - c /\ c + (i + j) = (c + i) + j /\ (c + i) + j \in 1 .. n
      BY <1>3, <2>2
    <3>2. QED
      BY <1>4, <1>6, <3>1
  <2>3. (i + k <= n - c /\ \A j \in 1 .. k : w[i + j] = v[j]) <=>
          ((c + i) + k <= n /\ \A j \in 1 .. k : t[(c + i) + j] = v[j])
    BY <2>1, <2>2
  <2>4. Len(w) = n - c /\ Len(t) = n
    BY <1>4, <1>6
  <2>5. QED
    BY ONLY <1>2, <2>3, <2>4, Zenon DEF Occurs
<1>10. \A i \in 0 .. n - c : i \in found <=> Occurs(v, t, c + i)
  <2>1. SUFFICES ASSUME NEW i \in 0 .. n - c PROVE i \in found <=> Occurs(v, w, i)
    BY <1>9
  <2>2. i \in 0 .. Len(w)
    BY <1>6
  <2>3. IsPrefix(v, SubSeq(w, i + 1, Len(w))) <=> Occurs(v, w, i)
    BY <1>6, <2>2, PrefixOfRest
  <2>4. Occurs(v, w, i) => i \in 0 .. Len(w) - Len(v)
    <3>1. Occurs(v, w, i) => i + k <= n - c
      BY <1>2, <1>6, Zenon DEF Occurs
    <3>2. i + k <= n - c => i \in 0 .. (n - c) - k
      BY <1>3
    <3>3. Len(w) - Len(v) = (n - c) - k
      BY <1>2, <1>6
    <3>4. QED
      BY <3>1, <3>2, <3>3
  <2>5. QED
    BY <1>7, <2>3, <2>4
<1>11. found \subseteq 0 .. n - c
  BY <1>2, <1>3, <1>6, <1>7
<1>12. CASE found = {}
  <2>1. ASSUME NEW i \in c .. Len(t) PROVE ~Occurs(v, t, i)
    <3>1. i - c \in 0 .. n - c /\ c + (i - c) = i
      BY <1>3, <1>4
    <3>2. QED
      BY <1>10, <1>12, <3>1
  <2>2. QED
    BY <1>8, <1>12, <2>1 DEF First
<1>13. CASE found # {}
  <2>1. found \subseteq Nat
    BY <1>3, <1>11
  <2>2. PICK m : m = Min(found) /\ m \in found /\ \A y \in found : m <= y
    BY <1>13, <2>1, MinIs
  <2>3. m \in 0 .. n - c /\ m \in Nat /\ c + m \in c .. Len(t)
    BY <1>3, <1>4, <1>11, <2>2
  <2>4. Occurs(v, t, c + m)
    BY <1>10, <2>2, <2>3
  <2>5. ASSUME NEW i \in c .. (c + m) - 1 PROVE ~Occurs(v, t, i)
    <3>1. i - c \in 0 .. n - c /\ c + (i - c) = i /\ ~(m <= i - c)
      BY <1>3, <2>3
    <3>2. QED
      BY <1>10, <2>2, <3>1
  <2>6. QED
    BY <1>8, <1>13, <2>2, <2>3, <2>4, <2>5 DEF First
<1>14. QED
  BY <1>12, <1>13

-----------------------------------------------------------------------------
(* replace(): what a reader of the text expects *)

\* g[n] is what the last n characters of t become.
Becomes(g, t, v, b, n) ==
  g[n] = IF n = 0 THEN << >>
         ELSE IF Occurs(v, t, Len(t) - n) THEN b \o g[n - Len(v)]
         ELSE <<t[Len(t) - n + 1]>> \o g[n - 1]

Rewrites(g, t, v, b, m) ==
  /\ DOMAIN g = 0 .. m /\ g = [n \in 0 .. m |-> g[n]]
  /\ \A n \in 0 .. m : g[n] \in Text /\ Becomes(g, t, v, b, n)

AllBecome(g, t, v, b, m) == \A n \in 0 .. m : Becomes(g, t, v, b, n)

LEMMA SameRewrite ==
  ASSUME NEW t \in Text, NEW v \in Text, v # << >>, NEW b, NEW m \in 0 .. Len(t), NEW g, NEW h,
         AllBecome(g, t, v, b, m), AllBecome(h, t, v, b, m)
  PROVE  \A n \in 0 .. m : g[n] = h[n]
<1>1. PICK k \in Nat \ {0} : k = Len(v)
  BY EmptySeq DEF Text
<1>2. PICK l \in Nat : l = Len(t) /\ m \in Nat /\ m <= l
  BY DEF Text
<1>3. PICK D : D = {n \in 0 .. m : g[n] # h[n]}
  OBVIOUS
<1>4. SUFFICES ASSUME D # {} PROVE FALSE
  BY <1>3
<1>5. D \subseteq Nat
  BY <1>2, <1>3
<1>6. PICK n \in D : \A j \in D : n <= j
  BY <1>4, <1>5, LeastNumber
<1>7. n \in 0 .. m /\ g[n] # h[n] /\ n \in Nat
  BY <1>3, <1>2
<1>8. \A j \in 0 .. n - 1 : g[j] = h[j]
  <2>1. SUFFICES ASSUME NEW j \in 0 .. n - 1 PROVE j \notin D /\ j \in 0 .. m
    BY <1>3
  <2>2. j \in 0 .. m /\ ~(n <= j)
    BY <1>2, <1>7
  <2>3. QED
    BY <1>6, <2>2
<1>9. Becomes(g, t, v, b, n) /\ Becomes(h, t, v, b, n)
  BY <1>7 DEF AllBecome
<1>10. n # 0
  BY <1>7, <1>9 DEF Becomes
<1>11. Occurs(v, t, l - n) => n - k \in 0 .. n - 1
  <2>1. Occurs(v, t, l - n) => (l - n) + k <= l
    BY <1>1, <1>2 DEF Occurs
  <2>2. (l - n) + k <= l => n - k \in 0 .. n - 1
    BY <1>1, <1>2, <1>7
  <2>3. QED
    BY <2>1, <2>2
<1>12. n - 1 \in 0 .. n - 1
  BY <1>7, <1>10
<1>13. CASE Occurs(v, t, l - n)
  <2>1. g[n - k] = h[n - k]
    BY <1>8, <1>11, <1>13
  <2>2. g[n] = b \o g[n - k] /\ h[n] = b \o h[n - k]
    BY <1>1, <1>2, <1>9, <1>10, <1>13, Zenon DEF Becomes
  <2>3. QED
    BY <1>7, <2>1, <2>2
<1>14. CASE ~Occurs(v, t, l - n)
  <2>1. g[n - 1] = h[n - 1]
    BY <1>8, <1>12
  <2>2. g[n] = <<t[l - n + 1]>> \o g[n - 1] /\ h[n] = <<t[l - n + 1]>> \o h[n - 1]
    BY <1>2, <1>9, <1>10, <1>14, Zenon DEF Becomes
  <2>3. QED
    BY <1>7, <2>1, <2>2
<1>15. QED
  BY <1>13, <1>14

\* A function that rewrites the end of t can be continued by a character.
LEMMA RewriteMore ==
  ASSUME NEW t \in Text, NEW v \in Text, v # << >>, NEW b \in Text, NEW m \in 1 .. Len(t), NEW g, Rewrites(g, t, v, b, m - 1)
  PROVE  \E h : Rewrites(h, t, v, b, m)
<1>1. PICK k \in Nat \ {0} : k = Len(v)
  BY EmptySeq DEF Text
<1>2. PICK l \in Nat : l = Len(t) /\ m \in Nat /\ m # 0 /\ m <= l /\ t \in Seq(Chars)
  BY DEF Text
<1>3. \A n \in 0 .. m - 1 : g[n] \in Text /\ Becomes(g, t, v, b, n)
  BY DEF Rewrites
<1>4. Occurs(v, t, l - m) => m - k \in 0 .. m - 1
  <2>1. Occurs(v, t, l - m) => (l - m) + k <= l
    BY <1>1, <1>2 DEF Occurs
  <2>2. (l - m) + k <= l => m - k \in 0 .. m - 1
    BY <1>1, <1>2
  <2>3. QED
    BY <2>1, <2>2
<1>5. m - 1 \in 0 .. m - 1 /\ (l - m) + 1 \in 1 .. l
  BY <1>2
<1>6. PICK e : e = IF Occurs(v, t, l - m) THEN b \o g[m - k] ELSE <<t[l - m + 1]>> \o g[m - 1]
  OBVIOUS
<1>7. e \in Text
  <2>1. CASE Occurs(v, t, l - m)
    <3>1. g[m - k] \in Seq(Chars) /\ b \in Seq(Chars)
      BY <1>3, <1>4, <2>1 DEF Text
    <3>2. b \o g[m - k] \in Seq(Chars)
      BY <3>1, ConcatProperties
    <3>3. QED
      BY <1>6, <2>1, <3>2 DEF Text
  <2>2. CASE ~Occurs(v, t, l - m)
    <3>1. t[l - m + 1] \in Chars
      BY <1>2, <1>5
    <3>2. g[m - 1] \in Seq(Chars) /\ <<t[l - m + 1]>> \in Seq(Chars)
      BY <1>3, <1>5, <3>1 DEF Text
    <3>3. <<t[l - m + 1]>> \o g[m - 1] \in Seq(Chars)
      BY <3>2, ConcatProperties
    <3>4. QED
      BY <1>6, <2>2, <3>3 DEF Text
  <2>3. QED
    BY <2>1, <2>2
<1>8. PICK h : h = [n \in 0 .. m |-> IF n = m THEN e ELSE g[n]]
  OBVIOUS
<1>9. DOMAIN h = 0 .. m /\ h[m] = e /\ \A n \in 0 .. m - 1 : h[n] = g[n]
  <2>1. m \in 0 .. m /\ \A n \in 0 .. m - 1 : n \in 0 .. m /\ n # m
    BY <1>2
  <2>2. QED
    BY <1>8, <2>1
<1>10. Becomes(h, t, v, b, m)
  <2>1. Occurs(v, t, l - m) => h[m - k] = g[m - k]
    BY <1>4, <1>9
  <2>2. h[m - 1] = g[m - 1]
    BY <1>5, <1>9
  <2>3. h[m] = IF Occurs(v, t, l - m) THEN b \o h[m - k] ELSE <<t[l - m + 1]>> \o h[m - 1]
    BY <1>6, <1>9, <2>1, <2>2, Zenon
  <2>4. QED
    BY ONLY <1>1, <1>2, <2>3, Zenon DEF Becomes
<1>11. ASSUME NEW n \in 0 .. m - 1 PROVE Becomes(h, t, v, b, n)
  <2>1. n \in Nat /\ n <= m - 1 /\ h[n] = g[n]
    BY <1>2, <1>9
  <2>2. CASE n = 0
    <3>1. g[n] = << >>
      BY <1>3, <2>2 DEF Becomes
    <3>2. QED
      BY <2>1, <2>2, <3>1 DEF Becomes
  <2>3. CASE n # 0
    <3>1. g[n] = IF Occurs(v, t, l - n) THEN b \o g[n - k] ELSE <<t[l - n + 1]>> \o g[n - 1]
      <4>1. Becomes(g, t, v, b, n)
        BY <1>3
      <4>2. QED
        BY ONLY <1>1, <1>2, <2>3, <4>1, Zenon DEF Becomes
    <3>2. Occurs(v, t, l - n) => h[n - k] = g[n - k]
      <4>1. Occurs(v, t, l - n) => (l - n) + k <= l
        BY <1>1, <1>2 DEF Occurs
      <4>2. (l - n) + k <= l => n - k \in 0 .. m - 1
        BY <1>1, <1>2, <2>1
      <4>3. QED
        BY <1>9, <4>1, <4>2
    <3>3. h[n - 1] = g[n - 1]
      <4>1. n - 1 \in 0 .. m - 1
        BY <2>1, <2>3
      <4>2. QED
        BY <1>9, <4>1
    <3>4. h[n] = IF Occurs(v, t, l - n) THEN b \o h[n - k] ELSE <<t[l - n + 1]>> \o h[n - 1]
      BY <2>1, <3>1, <3>2, <3>3, Zenon
    <3>5. QED
      BY ONLY <1>1, <1>2, <2>3, <3>4, Zenon DEF Becomes
  <2>4. QED
    BY <2>2, <2>3
<1>12. \A n \in 0 .. m : n = m \/ n \in 0 .. m - 1
  BY <1>2
<1>13. \A n \in 0 .. m : h[n] \in Text /\ Becomes(h, t, v, b, n)
  BY <1>3, <1>7, <1>9, <1>10, <1>11, <1>12
<1>14. h = [n \in 0 .. m |-> h[n]]
  BY <1>8
<1>15. QED
  BY <1>9, <1>13, <1>14 DEF Rewrites

LEMMA RewriteExists ==
  ASSUME NEW t \in Text, NEW v \in Text, v # << >>, NEW b \in Text
  PROVE  \E g : Rewrites(g, t, v, b, Len(t))
<1>1. PICK l \in Nat : l = Len(t)
  BY DEF Text
<1>2. \E g : Rewrites(g, t, v, b, 0)
  <2>1. PICK g : g = [n \in 0 .. 0 |-> << >>]
    OBVIOUS
  <2>2. DOMAIN g = 0 .. 0 /\ g[0] = << >> /\ g = [n \in 0 .. 0 |-> g[n]] /\ \A n \in 0 .. 0 : n = 0
    BY <2>1
  <2>3. << >> \in Text
    BY EmptySeq DEF Text
  <2>4. Becomes(g, t, v, b, 0)
    BY <2>2 DEF Becomes
  <2>5. Rewrites(g, t, v, b, 0)
    BY <2>2, <2>3, <2>4 DEF Rewrites
  <2>6. QED
    BY <2>5
<1>3. PICK M : M = {m \in 0 .. l : \A g : ~Rewrites(g, t, v, b, m)}
  OBVIOUS
<1>4. M = {}
  <2>1. SUFFICES ASSUME M # {} PROVE FALSE
    OBVIOUS
  <2>2. M \subseteq Nat
    BY <1>1, <1>3
  <2>3. PICK m \in M : \A j \in M : m <= j
    BY <2>1, <2>2, LeastNumber
  <2>4. m \in 0 .. l /\ (\A g : ~Rewrites(g, t, v, b, m)) /\ m # 0
    BY <1>2, <1>3, <2>3
  <2>5. m - 1 \in 0 .. l /\ m \in 1 .. Len(t) /\ ~(m <= m - 1)
    BY <1>1, <2>4
  <2>6. m - 1 \notin M
    BY <2>3, <2>5
  <2>7. PICK g : Rewrites(g, t, v, b, m - 1)
    BY <1>3, <2>5, <2>6
  <2>8. QED
    BY <2>4, <2>5, <2>7, RewriteMore
<1>5. l \in 0 .. l /\ l \notin M
  BY <1>1, <1>4
<1>6. QED
  BY <1>1, <1>3, <1>5

LEMMA ReplacedIs ==
  ASSUME NEW t \in Text, NEW v \in Text, v # << >>, NEW b \in Text
  PROVE  \E g : Rewrites(g, t, v, b, Len(t)) /\ Replaced(t, v, b) = g[Len(t)]
<1>1. PICK l \in Nat : l = Len(t) /\ t \in Seq(Chars)
  BY DEF Text
<1>2. PICK g : Rewrites(g, t, v, b, l)
  BY <1>1, RewriteExists
<1> DEFINE Equation(f) ==
       f = [n \in 0 .. l |->
              IF n = 0 THEN << >>
              ELSE IF IsPrefix(v, SubSeq(t, l - n + 1, l)) THEN b \o f[n - Len(v)]
              ELSE <<SubSeq(t, l - n + 1, l)[1]>> \o f[n - 1]]
<1>3. ASSUME NEW n \in 1 .. l
      PROVE  /\ IsPrefix(v, SubSeq(t, l - n + 1, l)) <=> Occurs(v, t, l - n)
             /\ SubSeq(t, l - n + 1, l)[1] = t[l - n + 1]
  <2>1. PICK i \in 0 .. l : i = l - n /\ i + 1 \in 1 .. l
    <3>1. l - n \in 0 .. l /\ (l - n) + 1 \in 1 .. l
      BY <1>1
    <3>2. QED
      BY <3>1
  <2>2. IsPrefix(v, SubSeq(t, i + 1, l)) <=> Occurs(v, t, i)
    BY <1>1, PrefixOfRest
  <2>3. SubSeq(t, i + 1, l)[1] = t[i + 1]
    BY <1>1, <2>1
  <2>4. QED
    BY ONLY <2>1, <2>2, <2>3, Zenon
<1>4. ASSUME NEW f, NEW n \in 0 .. l
      PROVE  Becomes(f, t, v, b, n) <=>
               f[n] = (IF n = 0 THEN << >>
                       ELSE IF IsPrefix(v, SubSeq(t, l - n + 1, l)) THEN b \o f[n - Len(v)]
                       ELSE <<SubSeq(t, l - n + 1, l)[1]>> \o f[n - 1])
  <2>1. CASE n = 0
    BY <2>1 DEF Becomes
  <2>2. CASE n # 0
    <3>1. n \in 1 .. l
      BY <1>1, <2>2
    <3>2. /\ IsPrefix(v, SubSeq(t, l - n + 1, l)) <=> Occurs(v, t, l - n)
          /\ SubSeq(t, l - n + 1, l)[1] = t[l - n + 1]
      BY <1>3, <3>1
    <3>3. l = Len(t)
      BY <1>1
    <3>4. QED
      BY ONLY <2>2, <3>2, <3>3, Zenon DEF Becomes
  <2>3. QED
    BY <2>1, <2>2
<1>5. Equation(g)
  <2>1. g = [n \in 0 .. l |-> g[n]] /\ \A n \in 0 .. l : Becomes(g, t, v, b, n)
    BY <1>2 DEF Rewrites
  <2>2. \A n \in 0 .. l : g[n] = (IF n = 0 THEN << >>
                                  ELSE IF IsPrefix(v, SubSeq(t, l - n + 1, l)) THEN b \o g[n - Len(v)]
                                  ELSE <<SubSeq(t, l - n + 1, l)[1]>> \o g[n - 1])
    BY <1>4, <2>1, Zenon
  <2>3. QED
    BY ONLY <2>1, <2>2, Zenon
<1>6. PICK f : Equation(f) /\ Replaced(t, v, b) = f[l]
  <2>1. Replaced(t, v, b) = (CHOOSE f : Equation(f))[l]
    BY <1>1 DEF Replaced
  <2> HIDE DEF Equation
  <2>2. Equation(CHOOSE f : Equation(f))
    BY <1>5, Zenon
  <2>3. QED
    BY <2>1, <2>2
<1>7. \A n \in 0 .. l : Becomes(f, t, v, b, n)
  <2>1. f = [n \in 0 .. l |->
               IF n = 0 THEN << >>
               ELSE IF IsPrefix(v, SubSeq(t, l - n + 1, l)) THEN b \o f[n - Len(v)]
               ELSE <<SubSeq(t, l - n + 1, l)[1]>> \o f[n - 1]]
    BY <1>6
  <2>2. \A n \in 0 .. l : f[n] = (IF n = 0 THEN << >>
                                  ELSE IF IsPrefix(v, SubSeq(t, l - n + 1, l)) THEN b \o f[n - Len(v)]
                                  ELSE <<SubSeq(t, l - n + 1, l)[1]>> \o f[n - 1])
    BY ONLY <2>1, Zenon
  <2>3. QED
    BY <1>4, <2>2, Zenon
<1>8. \A n \in 0 .. l : f[n] = g[n]
  <2>1. l \in 0 .. Len(t)
    BY <1>1
  <2>2. AllBecome(g, t, v, b, l)
    BY <1>2 DEF Rewrites, AllBecome
  <2>3. AllBecome(f, t, v, b, l)
    BY <1>7 DEF AllBecome
  <2> HIDE DEF Equation
  <2>4. QED
    BY <2>1, <2>2, <2>3, SameRewrite
<1>9. l \in 0 .. l
  BY <1>1
<1>10. QED
  BY <1>1, <1>2, <1>6, <1>8, <1>9, Zenon

-----------------------------------------------------------------------------
(* replace(): what its loop makes of a text *)

\* A chunk and a replacement, each of which memory may refuse.
TwoSteps(o, u, b, rest, tail, first, next) ==
  tail = u \o (b \o rest) /\ first = Concat(o, u) /\ next = Concat(first.obj, b)

TwoAdd(o, rest, tail, first, next) ==
  /\ next.obj \in Strings /\ Held(next.obj) /\ first.ok \in BOOLEAN /\ next.ok \in BOOLEAN
  /\ Len(next.obj.text) + Len(rest) <= Len(o.text) + Len(tail)
  /\ first.ok /\ next.ok => next.obj.text \o rest = o.text \o tail

LEMMA TwoAdded ==
  ASSUME NEW o \in Strings, Held(o), NEW u \in Text, NEW b \in Text, NEW rest \in Text, NEW tail \in Text,
         NEW first, NEW next, TwoSteps(o, u, b, rest, tail, first, next)
  PROVE  TwoAdd(o, rest, tail, first, next)
<1>0. tail = u \o (b \o rest) /\ first = Concat(o, u) /\ next = Concat(first.obj, b)
  BY DEF TwoSteps
<1>1. PICK x : x = o.text /\ x \in Seq(Chars)
  BY DEF Strings, Text
<1>2. u \in Seq(Chars) /\ b \in Seq(Chars) /\ rest \in Seq(Chars)
  BY DEF Text
<1>3. Attempted(first, o, x \o u) /\ first.obj \in Strings /\ Held(first.obj)
  BY <1>0, <1>1, ConcatIs DEF Attempted
<1>4. PICK y : y = first.obj.text /\ y \in Seq(Chars)
  BY <1>3 DEF Strings, Text
<1>5. first.ok \in BOOLEAN /\ y = IF first.ok THEN x \o u ELSE x
  BY <1>1, <1>3, <1>4 DEF Attempted
<1>6. Attempted(next, first.obj, y \o b) /\ next.obj \in Strings /\ Held(next.obj)
  BY <1>0, <1>3, <1>4, ConcatIs DEF Attempted
<1>7. PICK z : z = next.obj.text /\ z \in Seq(Chars)
  BY <1>6 DEF Strings, Text
<1>8. next.ok \in BOOLEAN /\ z = IF next.ok THEN y \o b ELSE y
  BY <1>4, <1>6, <1>7 DEF Attempted
<1>9. Len(tail) = Len(u) + Len(b) + Len(rest)
  <2>1. PICK w : w = b \o rest
    OBVIOUS
  <2>2. w \in Seq(Chars) /\ Len(w) = Len(b) + Len(rest)
    BY <1>2, <2>1, JoinedIs
  <2>3. tail = u \o w
    BY <1>0, <2>1
  <2>4. Len(tail) = Len(u) + Len(w)
    BY <1>2, <2>2, <2>3, JoinedIs
  <2>5. QED
    BY <1>2, <2>2, <2>4
<1>10. Len(y) <= Len(x) + Len(u)
  BY <1>1, <1>2, <1>5
<1>11. Len(z) <= Len(y) + Len(b)
  BY <1>2, <1>4, <1>8
<1>12. Len(z) + Len(rest) <= Len(x) + Len(tail)
  <2>1. Len(x) \in Nat /\ Len(y) \in Nat /\ Len(z) \in Nat /\ Len(u) \in Nat /\ Len(b) \in Nat /\ Len(rest) \in Nat
    BY <1>1, <1>2, <1>4, <1>7
  <2>2. QED
    BY ONLY <1>9, <1>10, <1>11, <2>1
<1>13. ASSUME first.ok, next.ok PROVE z \o rest = x \o tail
  <2>1. z = (x \o u) \o b
    <3>1. y = x \o u
      BY <1>5, <1>13
    <3>2. z = y \o b
      BY <1>8, <1>13
    <3>3. QED
      BY <3>1, <3>2
  <2>2. (x \o u) \o b = x \o (u \o b)
    <3>1. x \in Seq(Chars) /\ u \in Seq(Chars) /\ b \in Seq(Chars)
      BY <1>1, <1>2
    <3>2. QED
      BY ONLY <3>1, ConcatAssociative, SMTT(30)
  <2>3. PICK w : w = u \o b
    OBVIOUS
  <2>4. w \in Seq(Chars)
    BY <1>2, <2>3, JoinedIs
  <2>5. (x \o w) \o rest = x \o (w \o rest)
    <3>1. x \in Seq(Chars) /\ w \in Seq(Chars) /\ rest \in Seq(Chars)
      BY <1>1, <1>2, <2>4
    <3>2. QED
      BY ONLY <3>1, ConcatAssociative, SMTT(30)
  <2>6. w \o rest = u \o (b \o rest)
    <3>1. (u \o b) \o rest = u \o (b \o rest)
      BY ONLY <1>2, ConcatAssociative
    <3>2. QED
      BY ONLY <2>3, <3>1, Zenon
  <2>7. z = x \o w
    BY ONLY <2>1, <2>2, <2>3, Zenon
  <2>8. z \o rest = x \o (u \o (b \o rest))
    BY ONLY <2>5, <2>6, <2>7, Zenon
  <2>9. QED
    BY <1>0, <2>8
<1>14. QED
  BY <1>1, <1>5, <1>6, <1>7, <1>8, <1>12, <1>13 DEF TwoAdd

\* The loop is at r.cursor, of the n characters before a NUL, after k rounds; what
\* is left becomes g[n - r.cursor].
Working(r, n, g, k) ==
  /\ r.cursor \in 0 .. n /\ k <= r.cursor
  /\ Len(r.obj.text) + Len(g[n - r.cursor]) <= Len(g[n])
  /\ ~r.starved => r.obj.text \o g[n - r.cursor] = g[n]

Finished(r, x, n, g) ==
  /\ r.cursor = Len(x)
  /\ Len(r.obj.text) <= Len(g[n])
  /\ ~r.starved => r.obj.text = g[n]

RoundSound(r, x, n, g, k) ==
  /\ r.obj \in Strings /\ Held(r.obj) /\ r.starved \in BOOLEAN
  /\ Working(r, n, g, k) \/ Finished(r, x, n, g)

\* The text, the value and the replacement of a call, and what the text becomes.
Task(x, n, t, v, b, g) ==
  /\ x \in Text /\ Stops(x, n) /\ t = SubSeq(x, 1, n)
  /\ v \in Text /\ v # << >> /\ b \in Text
  /\ Rewrites(g, t, v, b, n)

LEMMA TaskIs ==
  ASSUME NEW x, NEW n, NEW t, NEW v, NEW b, NEW g, Task(x, n, t, v, b, g)
  PROVE  /\ x \in Text /\ x \in Seq(Chars) /\ Len(x) \in Nat /\ n \in Nat /\ n \in 0 .. Len(x) /\ n <= Len(x) /\ Stops(x, n)
         /\ t \in Text /\ t \in Seq(Chars) /\ Len(t) = n /\ t = SubSeq(x, 1, n) /\ \A i \in 1 .. n : t[i] = x[i]
         /\ v \in Text /\ v # << >> /\ Len(v) \in Nat \ {0} /\ b \in Text
         /\ Rewrites(g, t, v, b, n) /\ g[0] = << >>
         /\ \A i \in 0 .. n : g[i] \in Text /\ Len(g[i]) \in Nat
<1>1. x \in Seq(Chars) /\ Len(x) \in Nat /\ n \in Nat /\ n \in 0 .. Len(x) /\ n <= Len(x)
  BY DEF Task, Text, Stops
<1>2. t \in Seq(Chars) /\ Len(t) = n /\ \A i \in 1 .. n : t[i] = x[i]
  BY <1>1 DEF Task
<1>3. Len(v) \in Nat \ {0}
  BY EmptySeq DEF Task, Text
<1>4. \A i \in 0 .. n : g[i] \in Text /\ Len(g[i]) \in Nat /\ Becomes(g, t, v, b, i)
  BY DEF Task, Rewrites, Text
<1>5. g[0] = << >>
  <2>1. 0 \in 0 .. n
    BY <1>1
  <2>2. Becomes(g, t, v, b, 0)
    BY <1>4, <2>1
  <2>3. QED
    BY <2>2 DEF Becomes
<1>6. QED
  BY <1>1, <1>2, <1>3, <1>4, <1>5 DEF Task, Text

\* Of a text up to its NUL, a piece is a piece of the text.
LEMMA SamePiece ==
  ASSUME NEW x, NEW n, NEW t, NEW v, NEW b, NEW g, Task(x, n, t, v, b, g), NEW c \in 0 .. n, NEW m \in c .. n
  PROVE  /\ SubSeq(t, c + 1, m) = SubSeq(x, c + 1, m) /\ SubSeq(x, c + 1, m) \in Seq(Chars)
         /\ Len(SubSeq(x, c + 1, m)) = m - c
<1>1. x \in Seq(Chars) /\ t \in Seq(Chars) /\ Len(t) = n /\ n \in Nat /\ n <= Len(x) /\ \A i \in 1 .. n : t[i] = x[i]
  BY TaskIs
<1>2. c \in Nat /\ m \in Nat /\ c <= m /\ m <= n /\ m <= Len(x) /\ m <= Len(t)
  BY <1>1
<1>3. PICK u : u = SubSeq(t, c + 1, m)
  OBVIOUS
<1>4. PICK w : w = SubSeq(x, c + 1, m)
  OBVIOUS
<1>5. u \in Seq(Chars) /\ Len(u) = m - c /\ \A i \in 1 .. m - c : u[i] = t[c + i]
  BY <1>1, <1>2, <1>3, PieceIs
<1>6. w \in Seq(Chars) /\ Len(w) = m - c /\ \A i \in 1 .. m - c : w[i] = x[c + i]
  BY <1>1, <1>2, <1>4, PieceIs
<1>7. ASSUME NEW i \in 1 .. Len(u) PROVE u[i] = w[i]
  <2>1. i \in 1 .. m - c /\ c + i \in 1 .. n
    <3>1. i \in 1 .. m - c
      BY <1>5, <1>7
    <3>2. QED
      BY ONLY <1>1, <1>2, <3>1
  <2>2. QED
    BY <1>1, <1>5, <1>6, <2>1
<1>8. u = w
  BY <1>5, <1>6, <1>7, SeqEqual
<1>9. QED
  BY <1>3, <1>4, <1>6, <1>8

\* The value does not occur from c on, before m.
Free(v, t, c, m) == \A i \in c .. m - 1 : ~Occurs(v, t, i)

Keeps(g, n, x, c, m) == g[n - c] = SubSeq(x, c + 1, m) \o g[n - m]

\* Up to a place m before which the value does not occur, the text stays.
LEMMA RunIs ==
  ASSUME NEW x, NEW n, NEW t, NEW v, NEW b, NEW g, Task(x, n, t, v, b, g),
         NEW c \in 0 .. n, NEW m \in c .. n, Free(v, t, c, m)
  PROVE  Keeps(g, n, x, c, m)
<1>0. PICK l \in Nat : l = n /\ l = Len(t) /\ t \in Seq(Chars) /\ Rewrites(g, t, v, b, l)
  BY TaskIs
<1>1. c \in Nat /\ m \in Nat /\ c <= m /\ m <= l
  BY <1>0
<1>2. \A j \in 0 .. l : g[j] \in Seq(Chars) /\ Becomes(g, t, v, b, j)
  BY <1>0 DEF Rewrites, Text
<1>3. PICK D : D = {d \in 0 .. m - c : g[l - (m - d)] # SubSeq(t, (m - d) + 1, m) \o g[l - m]}
  OBVIOUS
<1>4. D = {}
  <2>1. SUFFICES ASSUME D # {} PROVE FALSE
    OBVIOUS
  <2>2. D \subseteq Nat
    BY <1>0, <1>1, <1>3
  <2>3. PICK d \in D : \A j \in D : d <= j
    BY <2>1, <2>2, LeastNumber
  <2>4. d \in 0 .. m - c /\ g[l - (m - d)] # SubSeq(t, (m - d) + 1, m) \o g[l - m]
    BY <1>3, <2>3
  <2>5. PICK r : r = g[l - m] /\ r \in Seq(Chars)
    <3>1. l - m \in 0 .. l
      BY <1>0, <1>1
    <3>2. QED
      BY <1>2, <3>1
  <2>6. CASE d = 0
    <3>1. m - d = m
      BY <1>0, <1>1, <2>6
    <3>2. SubSeq(t, m + 1, m) = << >>
      BY <1>0, <1>1, SubSeqEmpty
    <3>3. << >> \o r = r
      BY <2>5, ConcatEmptySeq
    <3>4. QED
      BY <2>4, <2>5, <3>1, <3>2, <3>3
  <2>7. CASE d # 0
    <3>1. PICK i \in Nat : i = m - d /\ i \in c .. m - 1 /\ i + 1 = m - (d - 1) /\ i + 1 \in 1 .. m
      <4>1. /\ m - d \in Nat /\ m - d \in c .. m - 1 /\ (m - d) + 1 = m - (d - 1)
            /\ (m - d) + 1 \in 1 .. m
        BY <1>0, <1>1, <2>4, <2>7
      <4>2. QED
        BY <4>1
    <3>2. d - 1 \in 0 .. m - c /\ ~(d <= d - 1)
      BY <1>0, <1>1, <2>4, <2>7
    <3>3. d - 1 \notin D
      BY <2>3, <3>2
    <3>4. g[l - (i + 1)] = SubSeq(t, (i + 1) + 1, m) \o r
      BY <1>3, <2>5, <3>1, <3>2, <3>3
    <3>5. PICK q \in 0 .. l : q = l - i /\ q # 0 /\ l - q = i /\ l - q + 1 = i + 1 /\ q - 1 = l - (i + 1)
      <4>1. l - i \in 0 .. l /\ l - i # 0 /\ l - (l - i) = i /\ l - (l - i) + 1 = i + 1 /\ (l - i) - 1 = l - (i + 1)
        BY <1>0, <1>1, <3>1
      <4>2. QED
        BY <4>1
    <3>6. g[q] = <<t[i + 1]>> \o g[q - 1]
      <4>1. Becomes(g, t, v, b, q) /\ ~Occurs(v, t, i)
        BY <1>2, <3>1 DEF Free
      <4>2. QED
        BY ONLY <1>0, <4>1, <3>5, Zenon DEF Becomes
    <3>7. SubSeq(t, i + 1, m) = <<t[i + 1]>> \o SubSeq(t, (i + 1) + 1, m)
      <4>1. i + 1 \in 1 .. Len(t) /\ m \in i + 1 .. Len(t)
        BY <1>0, <1>1, <3>1
      <4>2. QED
        BY <1>0, <1>1, <4>1, SubSeqRecursiveFirst
    <3>8. (<<t[i + 1]>> \o SubSeq(t, (i + 1) + 1, m)) \o r = <<t[i + 1]>> \o (SubSeq(t, (i + 1) + 1, m) \o r)
      <4>1. t[i + 1] \in Chars
        BY <1>0, <1>1, <3>1
      <4>2. <<t[i + 1]>> \in Seq(Chars)
        BY <4>1
      <4>3. i + 1 \in Nat /\ i + 1 <= m /\ m \in Nat /\ m <= Len(t)
        BY <1>0, <1>1, <3>1
      <4>4. SubSeq(t, (i + 1) + 1, m) \in Seq(Chars)
        BY <1>0, <1>1, <4>3, PieceIs
      <4>5. PICK u, w : u = <<t[i + 1]>> /\ w = SubSeq(t, (i + 1) + 1, m)
        OBVIOUS
      <4>6. u \in Seq(Chars) /\ w \in Seq(Chars) /\ r \in Seq(Chars)
        BY ONLY <2>5, <4>2, <4>4, <4>5, Zenon
      <4>7. (u \o w) \o r = u \o (w \o r)
        BY ONLY <4>6, ConcatAssociative
      <4>8. QED
        BY ONLY <4>5, <4>7, Zenon
    <3>9. g[l - i] = SubSeq(t, i + 1, m) \o r
      BY <3>4, <3>5, <3>6, <3>7, <3>8, Zenon
    <3>10. QED
      BY <2>4, <2>5, <3>1, <3>9
  <2>8. QED
    BY <2>6, <2>7
<1>5. m - c \in 0 .. m - c /\ m - (m - c) = c
  BY <1>0, <1>1
<1>6. g[l - c] = SubSeq(t, c + 1, m) \o g[l - m]
  BY <1>3, <1>4, <1>5
<1>7. SubSeq(t, c + 1, m) = SubSeq(x, c + 1, m)
  BY SamePiece
<1>8. QED
  BY ONLY <1>0, <1>6, <1>7, Zenon DEF Keeps

\* A round whose value is not found adds what is left.
LEMMA LastRound ==
  ASSUME NEW x, NEW n, NEW t, NEW v, NEW b, NEW g, Task(x, n, t, v, b, g), NEW k, NEW r, RoundSound(r, x, n, g, k),
         Working(r, n, g, k), r.cursor < Len(x), IndexOf(x, v, r.cursor) = -1
  PROVE  RoundSound(ReplaceRound(x, v, b, r), x, n, g, k + 1)
<1>1. PICK c : c = r.cursor /\ c \in 0 .. n /\ c \in Nat /\ c <= n
  <2>1. r.cursor \in 0 .. n /\ n \in Nat
    BY TaskIs DEF Working
  <2>2. QED
    BY <2>1
<1>2. n \in Nat /\ n \in c .. n /\ n \in 0 .. n /\ n - c \in 0 .. n /\ n <= Len(x) /\ Len(x) \in Nat
  BY <1>1, TaskIs
<1>3. PICK u : u = SubSeq(x, c + 1, n) /\ u \in Seq(Chars)
  BY <1>1, <1>2, SamePiece
<1>4. CStr(SubSeq(x, c + 1, Len(x))) = u
  <2>1. x \in Text /\ Stops(x, n)
    BY TaskIs
  <2>2. CStr(SubSeq(x, c + 1, Len(x))) = SubSeq(x, c + 1, n)
    BY <1>1, <2>1, RestIs
  <2>3. QED
    BY <1>3, <2>2
<1>5. g[n - c] = u
  <2>0. /\ x \in Text /\ Stops(x, n) /\ t \in Text /\ t = SubSeq(x, 1, n) /\ v \in Text /\ n = Len(t)
        /\ Rewrites(g, t, v, b, n) /\ g[0] = << >>
    BY TaskIs
  <2>1. First(-1, v, t, c)
    <3>1. First(IndexOf(x, v, c), v, t, c)
      BY ONLY <1>1, <2>0, IndexOfIs
    <3>2. IndexOf(x, v, c) = -1
      BY <1>1
    <3>3. QED
      BY ONLY <3>1, <3>2, Zenon
  <2>2. \A i \in c .. n : ~Occurs(v, t, i)
    <3>1. -1 \notin c .. Len(t)
      BY <1>1
    <3>2. QED
      BY ONLY <2>0, <2>1, <3>1, Zenon DEF First
  <2>3. Free(v, t, c, n)
    BY <1>1, <1>2, <2>2 DEF Free
  <2>4. g[n - c] = SubSeq(x, c + 1, n) \o g[n - n]
    <3>1. Keeps(g, n, x, c, n)
      BY <1>1, <1>2, <2>3, RunIs
    <3>2. QED
      BY ONLY <3>1, Zenon DEF Keeps
  <2>5. SubSeq(x, c + 1, n) = u
    BY <1>3
  <2>6. n - n = 0 /\ g[0] = << >>
    BY <1>2, <2>0
  <2>7. g[n - c] = u \o << >>
    BY ONLY <2>4, <2>5, <2>6, Zenon
  <2>8. u \o << >> = u
    BY <1>3, ConcatEmptySeq
  <2>9. QED
    BY ONLY <2>7, <2>8, Zenon
<1>6. PICK first : first = Concat(r.obj, u)
  OBVIOUS
<1>7. PICK q : q = ReplaceRound(x, v, b, r)
  OBVIOUS
<1>8. q = [cursor |-> Len(x), obj |-> first.obj, starved |-> r.starved \/ ~first.ok]
  <2>1. ~(r.cursor >= Len(x)) /\ IndexOf(x, v, r.cursor) < 0
    BY <1>1, <1>2
  <2>2. QED
    BY ONLY <1>1, <1>4, <1>6, <1>7, <2>1, Zenon DEF ReplaceRound
<1>9. r.obj \in Strings /\ Held(r.obj) /\ r.starved \in BOOLEAN
  BY DEF RoundSound
<1>10. Attempted(first, r.obj, r.obj.text \o u)
  BY <1>3, <1>6, <1>9, ConcatIs DEF Text
<1>11. first.obj \in Strings /\ Held(first.obj) /\ first.ok \in BOOLEAN
  BY <1>10 DEF Attempted
<1>12. PICK y : y = r.obj.text /\ y \in Seq(Chars)
  BY <1>9 DEF Strings, Text
<1>13. PICK z : z = first.obj.text /\ z = IF first.ok THEN y \o u ELSE y
  BY <1>10, <1>12 DEF Attempted
<1>14. Len(y) + Len(u) <= Len(g[n]) /\ (~r.starved => y \o u = g[n])
  BY <1>1, <1>5, <1>12 DEF Working
<1>15. Len(z) <= Len(g[n])
  <2>1. Len(g[n]) \in Nat
    BY <1>2, TaskIs
  <2>2. Len(y) \in Nat /\ Len(u) \in Nat /\ Len(y \o u) = Len(y) + Len(u)
    BY <1>3, <1>12, JoinedIs
  <2>3. QED
    BY <1>13, <1>14, <2>1, <2>2
<1>16. ~(r.starved \/ ~first.ok) => z = g[n]
  BY <1>13, <1>14
<1>17. Finished(q, x, n, g)
  BY <1>8, <1>13, <1>15, <1>16 DEF Finished
<1>18. QED
  BY <1>7, <1>8, <1>9, <1>11, <1>17 DEF RoundSound

\* A round whose value is found at m adds the chunk up to it and the replacement.
LEMMA MatchRound ==
  ASSUME NEW x, NEW n, NEW t, NEW v, NEW b, NEW g, Task(x, n, t, v, b, g), NEW k \in Nat, NEW r, RoundSound(r, x, n, g, k),
         Working(r, n, g, k), r.cursor < Len(x), IndexOf(x, v, r.cursor) # -1
  PROVE  RoundSound(ReplaceRound(x, v, b, r), x, n, g, k + 1)
<1>1. PICK c : c = r.cursor /\ c \in 0 .. n /\ c \in Nat /\ c <= n /\ k <= c
  <2>1. r.cursor \in 0 .. n /\ n \in Nat /\ k <= r.cursor
    BY TaskIs DEF Working
  <2>2. QED
    BY <2>1
<1>2. n \in Nat /\ n \in 0 .. n /\ n - c \in 0 .. n /\ n <= Len(x) /\ Len(x) \in Nat
  BY <1>1, TaskIs
<1>3. PICK m : m = IndexOf(x, v, c)
  OBVIOUS
<1>4. m \in c .. n /\ Occurs(v, t, m) /\ \A i \in c .. m - 1 : ~Occurs(v, t, i)
  <2>0. x \in Text /\ Stops(x, n) /\ t \in Text /\ t = SubSeq(x, 1, n) /\ v \in Text /\ n = Len(t)
    BY TaskIs
  <2>1. First(m, v, t, c) /\ Len(t) = n
    BY ONLY <1>1, <1>3, <2>0, IndexOfIs
  <2>2. m # -1
    BY <1>1, <1>3
  <2>3. QED
    BY ONLY <2>1, <2>2 DEF First
<1>5. PICK l \in Nat : l = Len(v) /\ l # 0
  BY TaskIs
<1>6. m \in Nat /\ c <= m /\ m + l <= n /\ m + l \in 0 .. n /\ n - m \in 0 .. n /\ n - m # 0 /\ n - (m + l) \in 0 .. n
  <2>1. m + l <= n
    BY <1>4, <1>5, TaskIs DEF Occurs
  <2>2. QED
    BY <1>1, <1>2, <1>4, <1>5, <2>1
<1>7. PICK u : u = SubSeq(x, c + 1, m) /\ u \in Seq(Chars)
  BY <1>1, <1>4, SamePiece
<1>8. PICK rest : rest = g[n - (m + l)] /\ rest \in Text
  BY <1>6, TaskIs
<1>9. PICK tail : tail = g[n - c] /\ tail \in Text
  BY <1>2, TaskIs
<1>10. tail = u \o (b \o rest)
  <2>0. t \in Text /\ v \in Text /\ n = Len(t) /\ Rewrites(g, t, v, b, n)
    BY TaskIs
  <2>1. g[n - c] = SubSeq(x, c + 1, m) \o g[n - m]
    <3>1. Free(v, t, c, m)
      BY <1>4 DEF Free
    <3>2. Keeps(g, n, x, c, m)
      BY <1>1, <1>4, <3>1, RunIs
    <3>3. QED
      BY ONLY <3>2, Zenon DEF Keeps
  <2>2. SubSeq(x, c + 1, m) = u
    BY <1>7
  <2>3. Becomes(g, t, v, b, n - m)
    BY <1>6, <2>0 DEF Rewrites
  <2>4. Len(t) - (n - m) = m /\ (n - m) - Len(v) = n - (m + l)
    BY ONLY <1>2, <1>5, <1>6, <2>0
  <2>5. g[n - m] = b \o g[n - (m + l)]
    BY ONLY <1>4, <1>6, <2>3, <2>4, Zenon DEF Becomes
  <2>6. QED
    BY ONLY <1>8, <1>9, <2>1, <2>2, <2>5, Zenon
<1>11. PICK first : first = Concat(r.obj, u)
  OBVIOUS
<1>12. PICK next : next = Concat(first.obj, b)
  OBVIOUS
<1>13. PICK q : q = ReplaceRound(x, v, b, r)
  OBVIOUS
<1>14. q = [cursor |-> m + l, obj |-> next.obj, starved |-> r.starved \/ ~first.ok \/ ~next.ok]
  <2>1. ~(r.cursor >= Len(x)) /\ ~(m < 0)
    BY <1>1, <1>2, <1>6
  <2>2. QED
    BY ONLY <1>1, <1>3, <1>5, <1>7, <1>11, <1>12, <1>13, <2>1, Zenon DEF ReplaceRound
<1>15. r.obj \in Strings /\ Held(r.obj) /\ r.starved \in BOOLEAN
  BY DEF RoundSound
<1>16. /\ next.obj \in Strings /\ Held(next.obj) /\ first.ok \in BOOLEAN /\ next.ok \in BOOLEAN
       /\ Len(next.obj.text) + Len(rest) <= Len(r.obj.text) + Len(tail)
       /\ first.ok /\ next.ok => next.obj.text \o rest = r.obj.text \o tail
  <2>1. u \in Text /\ b \in Text
    BY <1>7, TaskIs DEF Text
  <2>2. QED
    <3>1. TwoSteps(r.obj, u, b, rest, tail, first, next)
      BY <1>10, <1>11, <1>12 DEF TwoSteps
    <3>2. QED
      <4>1. TwoAdd(r.obj, rest, tail, first, next)
        BY ONLY <1>8, <1>9, <1>15, <2>1, <3>1, TwoAdded
      <4>2. QED
        BY ONLY <4>1, Zenon DEF TwoAdd
<1>17. Len(r.obj.text) + Len(tail) <= Len(g[n]) /\ (~r.starved => r.obj.text \o tail = g[n])
  BY <1>1, <1>9 DEF Working
<1>18. Len(next.obj.text) + Len(rest) <= Len(g[n])
  <2>1. Len(next.obj.text) \in Nat /\ Len(r.obj.text) \in Nat
    <3>1. \A o \in Strings : Len(o.text) \in Nat
      BY DEF Strings, Text
    <3>2. QED
      BY <1>15, <1>16, <3>1
  <2>2. Len(rest) \in Nat /\ Len(tail) \in Nat
    BY <1>8, <1>9 DEF Text
  <2>3. Len(g[n]) \in Nat
    BY <1>2, TaskIs
  <2>4. QED
    BY ONLY <1>16, <1>17, <2>1, <2>2, <2>3, SMTT(30)
<1>19. Working(q, n, g, k + 1)
  <2>1. q.cursor = m + l /\ q.obj = next.obj /\ q.starved = (r.starved \/ ~first.ok \/ ~next.ok)
    BY <1>14
  <2>2. m + l \in 0 .. n /\ k + 1 <= m + l
    BY <1>1, <1>5, <1>6
  <2>3. ~q.starved => next.obj.text \o rest = g[n]
    BY <1>15, <1>16, <1>17, <2>1
  <2>4. QED
    BY <1>8, <1>18, <2>1, <2>2, <2>3 DEF Working
<1>20. QED
  BY <1>13, <1>14, <1>15, <1>16, <1>19 DEF RoundSound

LEMMA EveryRound ==
  ASSUME NEW x, NEW n, NEW t, NEW v, NEW b, NEW g, Task(x, n, t, v, b, g), NEW k \in Nat, NEW r, RoundSound(r, x, n, g, k)
  PROVE  RoundSound(ReplaceRound(x, v, b, r), x, n, g, k + 1)
<1>1. CASE r.cursor >= Len(x)
  <2>1. ReplaceRound(x, v, b, r) = r
    BY <1>1 DEF ReplaceRound
  <2>2. Finished(r, x, n, g)
    <3>1. SUFFICES ASSUME Working(r, n, g, k) PROVE Finished(r, x, n, g)
      BY DEF RoundSound
    <3>2. r.cursor = n /\ n = Len(x) /\ n - r.cursor = 0
      BY <1>1, <3>1, TaskIs DEF Working
    <3>3. PICK y : y = r.obj.text /\ y \in Seq(Chars) /\ Len(y) \in Nat
      BY DEF RoundSound, Strings, Text
    <3>4. y \o << >> = y /\ Len(<< >>) = 0 /\ g[0] = << >>
      BY <3>3, ConcatEmptySeq, EmptySeq, TaskIs
    <3>5. Len(y) + 0 <= Len(g[n]) /\ (~r.starved => y = g[n])
      BY <3>1, <3>2, <3>3, <3>4 DEF Working
    <3>6. QED
      BY <3>2, <3>3, <3>5 DEF Finished
  <2>3. QED
    BY <2>1, <2>2 DEF RoundSound
<1>2. CASE ~(r.cursor >= Len(x))
  <2>1. Working(r, n, g, k)
    <3>1. SUFFICES ASSUME Finished(r, x, n, g) PROVE FALSE
      BY DEF RoundSound
    <3>2. QED
      BY <1>2, <3>1, TaskIs DEF Finished
  <2>2. r.cursor < Len(x)
    BY <1>2, <2>1, TaskIs DEF Working
  <2>3. QED
    BY <2>1, <2>2, LastRound, MatchRound
<1>3. QED
  BY <1>1, <1>2

FirstRound == [cursor |-> 0, obj |-> Empty, starved |-> FALSE]

\* f[k] is where the loop is after k rounds.
Rounds(f, x, v, b, m) ==
  /\ DOMAIN f = 0 .. m /\ f = [n \in 0 .. m |-> f[n]]
  /\ f[0] = FirstRound
  /\ \A n \in 1 .. m : f[n] = ReplaceRound(x, v, b, f[n - 1])

LEMMA MoreRounds ==
  ASSUME NEW x, NEW v, NEW b, NEW m \in Nat \ {0}, NEW f, Rounds(f, x, v, b, m - 1)
  PROVE  \E h : Rounds(h, x, v, b, m)
<1>1. PICK e : e = ReplaceRound(x, v, b, f[m - 1])
  OBVIOUS
<1>2. PICK h : h = [n \in 0 .. m |-> IF n = m THEN e ELSE f[n]]
  OBVIOUS
<1>3. DOMAIN h = 0 .. m /\ h[m] = e /\ \A n \in 0 .. m - 1 : h[n] = f[n]
  <2>1. m \in 0 .. m /\ \A n \in 0 .. m - 1 : n \in 0 .. m /\ n # m
    OBVIOUS
  <2>2. QED
    BY <1>2, <2>1
<1>4. 0 \in 0 .. m - 1 /\ m - 1 \in 0 .. m - 1
  OBVIOUS
<1>5. h[0] = FirstRound
  BY <1>3, <1>4 DEF Rounds
<1>6. ASSUME NEW n \in 1 .. m PROVE h[n] = ReplaceRound(x, v, b, h[n - 1])
  <2>1. CASE n = m
    <3>1. h[n - 1] = f[m - 1] /\ h[n] = e
      BY <1>3, <1>4, <2>1
    <3>2. QED
      BY ONLY <1>1, <3>1, Zenon
  <2>2. CASE n # m
    <3>1. n \in 0 .. m - 1 /\ n - 1 \in 0 .. m - 1 /\ n \in 1 .. m - 1
      BY <2>2
    <3>2. h[n - 1] = f[n - 1] /\ h[n] = f[n] /\ f[n] = ReplaceRound(x, v, b, f[n - 1])
      BY <1>3, <3>1 DEF Rounds
    <3>3. QED
      BY ONLY <3>2, Zenon
  <2>3. QED
    BY <2>1, <2>2
<1>7. h = [n \in 0 .. m |-> h[n]]
  BY <1>2
<1>8. QED
  BY <1>3, <1>5, <1>6, <1>7 DEF Rounds

LEMMA RoundsExist ==
  ASSUME NEW x, NEW v, NEW b, NEW l \in Nat
  PROVE  \E f : Rounds(f, x, v, b, l)
<1>1. \E f : Rounds(f, x, v, b, 0)
  <2>1. PICK f : f = [n \in 0 .. 0 |-> FirstRound]
    OBVIOUS
  <2>2. DOMAIN f = 0 .. 0 /\ f[0] = FirstRound /\ f = [n \in 0 .. 0 |-> f[n]] /\ 1 .. 0 = {}
    BY <2>1
  <2>3. Rounds(f, x, v, b, 0)
    BY <2>2 DEF Rounds
  <2>4. QED
    BY <2>3
<1>2. PICK M : M = {m \in 0 .. l : \A f : ~Rounds(f, x, v, b, m)}
  OBVIOUS
<1>3. M = {}
  <2>1. SUFFICES ASSUME M # {} PROVE FALSE
    OBVIOUS
  <2>2. M \subseteq Nat
    BY <1>2
  <2>3. PICK m \in M : \A j \in M : m <= j
    BY <2>1, <2>2, LeastNumber
  <2>4. m \in 0 .. l /\ (\A f : ~Rounds(f, x, v, b, m)) /\ m # 0
    BY <1>1, <1>2, <2>3
  <2>5. m - 1 \in 0 .. l /\ m \in Nat \ {0} /\ ~(m <= m - 1)
    BY <2>4
  <2>6. m - 1 \notin M
    BY <2>3, <2>5
  <2>7. PICK f : Rounds(f, x, v, b, m - 1)
    BY <1>2, <2>5, <2>6
  <2>8. QED
    BY <2>4, <2>5, <2>7, MoreRounds
<1>4. l \in 0 .. l /\ l \notin M
  BY <1>3
<1>5. QED
  BY <1>2, <1>4

LEMMA LoopIs ==
  ASSUME NEW x, NEW v, NEW b, NEW l \in Nat, l = Len(x)
  PROVE  \E f : Rounds(f, x, v, b, l) /\ ReplaceLoop(x, v, b) = f[l]
<1>1. PICK g : Rounds(g, x, v, b, l)
  BY RoundsExist
<1> DEFINE Equation(f) == f = [n \in 0 .. l |-> IF n = 0 THEN FirstRound ELSE ReplaceRound(x, v, b, f[n - 1])]
<1>2. Equation(g)
  <2>1. g = [n \in 0 .. l |-> g[n]] /\ g[0] = FirstRound /\ \A n \in 1 .. l : g[n] = ReplaceRound(x, v, b, g[n - 1])
    BY <1>1 DEF Rounds
  <2>2. ASSUME NEW n \in 0 .. l PROVE g[n] = IF n = 0 THEN FirstRound ELSE ReplaceRound(x, v, b, g[n - 1])
    <3>1. n = 0 \/ (n \in 1 .. l /\ n # 0)
      BY <2>2
    <3>2. QED
      BY ONLY <2>1, <3>1, Zenon
  <2>3. QED
    BY ONLY <2>1, <2>2, Zenon
<1>3. PICK f : Equation(f) /\ ReplaceLoop(x, v, b) = f[l]
  <2>1. ReplaceLoop(x, v, b) = (CHOOSE f : Equation(f))[l]
    BY Zenon DEF ReplaceLoop, FirstRound
  <2> HIDE DEF Equation
  <2>2. Equation(CHOOSE f : Equation(f))
    BY <1>2, Zenon
  <2>3. QED
    BY <2>1, <2>2
<1>4. \A n \in 0 .. l : f[n] = IF n = 0 THEN FirstRound ELSE ReplaceRound(x, v, b, f[n - 1])
  <2>1. Equation(f)
    BY <1>3
  <2>2. QED
    BY ONLY <2>1, Zenon
<1>5. DOMAIN f = 0 .. l /\ f = [n \in 0 .. l |-> f[n]]
  <2>1. Equation(f)
    BY <1>3
  <2>2. DOMAIN f = 0 .. l
    BY ONLY <2>1, Zenon
  <2>3. f = [n \in 0 .. l |-> f[n]]
    BY ONLY <2>1, <1>4, Zenon
  <2>4. QED
    BY <2>2, <2>3
<1>6. f[0] = FirstRound
  <2>1. 0 \in 0 .. l
    OBVIOUS
  <2>2. QED
    BY ONLY <1>4, <2>1, Zenon
<1>7. \A n \in 1 .. l : f[n] = ReplaceRound(x, v, b, f[n - 1])
  <2>1. \A n \in 1 .. l : n \in 0 .. l /\ n # 0
    OBVIOUS
  <2>2. QED
    BY ONLY <1>4, <2>1, Zenon
<1>8. Rounds(f, x, v, b, l)
  BY <1>5, <1>6, <1>7 DEF Rounds
<1>9. QED
  BY <1>3, <1>8

\* What the loop leaves.
LoopDone(r, want) ==
  /\ r.obj \in Strings /\ Held(r.obj) /\ r.starved \in BOOLEAN
  /\ Len(r.obj.text) <= Len(want)
  /\ ~r.starved => r.obj.text = want

LEMMA LoopSound ==
  ASSUME NEW x, NEW n, NEW t, NEW v, NEW b, NEW g, Task(x, n, t, v, b, g)
  PROVE  LoopDone(ReplaceLoop(x, v, b), g[n])
<1>1. PICK l \in Nat : l = Len(x) /\ n \in 0 .. l /\ n \in Nat
  BY TaskIs
<1>2. PICK f : Rounds(f, x, v, b, l) /\ ReplaceLoop(x, v, b) = f[l]
  BY <1>1, LoopIs
<1>3. RoundSound(f[0], x, n, g, 0)
  <2>1. f[0] = FirstRound
    BY <1>2 DEF Rounds
  <2>2. f[0].cursor = 0 /\ f[0].obj = Empty /\ f[0].starved = FALSE
    BY <2>1 DEF FirstRound
  <2>3. PICK y : y = g[n] /\ y \in Seq(Chars) /\ Len(y) \in Nat /\ n - 0 = n
    BY <1>1, TaskIs DEF Text
  <2>4. << >> \o y = y /\ Len(<< >>) = 0 /\ 0 + Len(y) = Len(y)
    BY <2>3, ConcatEmptySeq, EmptySeq
  <2>5. Working(f[0], n, g, 0)
    BY <1>1, <2>2, <2>3, <2>4, EmptyIsSound DEF Working
  <2>6. QED
    BY <2>2, <2>5, EmptyIsSound DEF RoundSound
<1>4. PICK M : M = {k \in 0 .. l : ~RoundSound(f[k], x, n, g, k)}
  OBVIOUS
<1>5. M = {}
  <2>1. SUFFICES ASSUME M # {} PROVE FALSE
    OBVIOUS
  <2>2. M \subseteq Nat
    BY <1>4
  <2>3. PICK k \in M : \A j \in M : k <= j
    BY <2>1, <2>2, LeastNumber
  <2>4. k \in 0 .. l /\ ~RoundSound(f[k], x, n, g, k) /\ k # 0
    BY <1>3, <1>4, <2>3
  <2>5. k - 1 \in 0 .. l /\ k - 1 \in Nat /\ k \in 1 .. l /\ ~(k <= k - 1) /\ (k - 1) + 1 = k
    BY <1>1, <2>4
  <2>6. k - 1 \notin M
    BY <2>3, <2>5
  <2>7. RoundSound(f[k - 1], x, n, g, k - 1)
    BY <1>4, <2>5, <2>6
  <2>8. RoundSound(ReplaceRound(x, v, b, f[k - 1]), x, n, g, (k - 1) + 1)
    BY <2>5, <2>7, EveryRound
  <2>9. f[k] = ReplaceRound(x, v, b, f[k - 1])
    BY <1>2, <2>5 DEF Rounds
  <2>10. QED
    BY <2>4, <2>5, <2>8, <2>9
<1>6. PICK r : r = f[l] /\ RoundSound(r, x, n, g, l)
  <2>1. l \in 0 .. l /\ l \notin M
    BY <1>1, <1>5
  <2>2. QED
    BY <1>4, <2>1
<1>7. PICK y : y = r.obj.text /\ y \in Seq(Chars) /\ Len(y) \in Nat
  BY <1>6 DEF RoundSound, Strings, Text
<1>8. Len(y) <= Len(g[n]) /\ (~r.starved => y = g[n])
  <2>1. CASE Finished(r, x, n, g)
    BY <1>7, <2>1 DEF Finished
  <2>2. CASE Working(r, n, g, l)
    <3>1. n - r.cursor = 0
      BY <1>1, <2>2 DEF Working
    <3>2. y \o << >> = y /\ Len(<< >>) = 0 /\ g[0] = << >> /\ Len(y) + 0 = Len(y)
      BY <1>7, ConcatEmptySeq, EmptySeq, TaskIs
    <3>3. QED
      BY <1>7, <2>2, <3>1, <3>2 DEF Working
  <2>3. QED
    BY <1>6, <2>1, <2>2 DEF RoundSound
<1>9. QED
  BY <1>2, <1>6, <1>7, <1>8 DEF LoopDone, RoundSound

LEMMA ReplacesSound ==
  ASSUME StringSound, NEW v \in Texts, NEW b \in Texts, Replaces(v, b)
  PROVE  StringSound'
<1>1. PICK x : x = s.text /\ x \in Text /\ Len(x) <= MaxLen /\ MaxLen \in Nat
  BY NowIs
<1>2. PICK n \in 0 .. Len(x) : Stops(x, n) /\ CStr(x) = SubSeq(x, 1, n)
  BY <1>1, CStrIs
<1>3. PICK t : t = SubSeq(x, 1, n)
  OBVIOUS
<1>4. t \in Text /\ Len(t) = n /\ CStr(x) = t
  <2>1. x \in Seq(Chars) /\ n \in Nat /\ n <= Len(x)
    BY <1>1 DEF Text
  <2>2. QED
    BY <1>2, <1>3, <2>1 DEF Text
<1>5. v \in Text /\ b \in Text /\ v # << >>
  BY TextsAreTexts DEF Replaces
<1>6. PICK g : Rewrites(g, t, v, b, n) /\ Replaced(t, v, b) = g[n]
  <2>1. PICK g : Rewrites(g, t, v, b, Len(t)) /\ Replaced(t, v, b) = g[Len(t)]
    BY <1>4, <1>5, ReplacedIs
  <2>2. QED
    BY <1>4, <2>1
<1>7. Task(x, n, t, v, b, g)
  BY <1>1, <1>2, <1>3, <1>5, <1>6 DEF Task
<1>8. PICK result : result = ReplaceLoop(x, v, b)
  OBVIOUS
<1>9. PICK want : want = g[n] /\ want \in Text
  BY <1>7, <1>2, TaskIs
<1>10. LoopDone(result, want)
  BY <1>7, <1>8, <1>9, LoopSound
<1>11. PICK u : u = result.obj.text
  OBVIOUS
<1>12. PICK r : r = Assign(s, u)
  OBVIOUS
<1>13. Len(want) <= MaxLen /\ Done(r.obj, want, "nothing", result.starved \/ CStr(s.text) # s.text)
  BY <1>1, <1>4, <1>6, <1>8, <1>9, <1>11, <1>12, Zenon DEF Replaces, Bounded
<1>14. u \in Text /\ Len(u) <= MaxLen /\ (~result.starved => u = want)
  <2>1. u \in Text /\ Len(u) <= Len(want) /\ (~result.starved => u = want)
    BY <1>10, <1>11 DEF LoopDone, Strings
  <2>2. Len(u) \in Nat /\ Len(want) \in Nat
    BY <1>9, <2>1 DEF Text
  <2>3. QED
    BY <1>1, <1>13, <2>1, <2>2
<1>15. Attempted(r, s, u)
  BY <1>12, <1>14, NowIs, BecomeIs DEF Assign
<1>16. r.obj \in Strings /\ Held(r.obj) /\ Len(r.obj.text) <= MaxLen /\ Honest(r.obj.text, s.text, u, "nothing")
  BY <1>14, <1>15, NowIs, AttemptIs
<1>17. ~(result.starved \/ CStr(s.text) # s.text) => Honest(r.obj.text, s.text, want, "nothing")
  BY <1>14, <1>16
<1>18. QED
  BY <1>13, <1>16, <1>17, DoneSound

-----------------------------------------------------------------------------
(* Every step *)

LEMMA MemorySound ==
  ASSUME StringSound, MemoryChanges
  PROVE  StringSound'
<1>1. s' = s /\ last' = last /\ free' \in 0 .. MaxFree
  BY DEF MemoryChanges
<1>2. TypeOK'
  BY <1>1 DEF StringSound, StringInv, TypeOK
<1>3. BufferHoldsText'
  BY <1>1 DEF StringSound, StringInv, BufferHoldsText
<1>4. AllOrNothing'
  <2>1. AllOrNothing
    BY DEF StringSound, StringInv
  <2>2. QED
    BY <1>1, <2>1 DEF AllOrNothing
<1>5. QED
  BY <1>1, <1>2, <1>3, <1>4 DEF StringSound, StringInv

LEMMA OneChar ==
  ASSUME NEW c \in Chars
  PROVE  <<c>> \in Text /\ CStr(<<c>>) \in Text
<1>1. <<c>> \in Text
  BY DEF Text
<1>2. QED
  BY <1>1, CStrType

LEMMA StringStep ==
  ASSUME StringSound, Next
  PROVE  StringSound'
<1>1. CASE MemoryChanges
  BY <1>1, MemorySound
<1>2. CASE ConcatsItself
  BY <1>2, ConcatsItselfSound
<1>3. CASE Trims
  BY <1>3, TrimsSound
<1>4. CASE ChangesCase
  BY <1>4, ChangesCaseSound
<1>5. ASSUME NEW t \in Texts,
             \/ Constructs(t) \/ Assigns(t)
             \/ ConcatsText(t) \/ Appends(t) \/ Adds(t)
             \/ ConcatsNumber(t) \/ AppendsNumber(t) \/ AddsNumber(t)
      PROVE  StringSound'
  <2>1. t \in Text
    BY TextsAreTexts
  <2>2. CASE Constructs(t)
    BY <2>2, ConstructsSound
  <2>3. CASE Assigns(t)
    BY <2>3, AssignsSound
  <2>4. CASE ConcatsText(t) \/ Appends(t)
    BY <2>1, <2>4, ConcatsTextSound
  <2>5. CASE Adds(t)
    BY <2>1, <2>5, AddsSound
  <2>6. CASE ConcatsNumber(t) \/ AppendsNumber(t)
    BY <2>1, <2>6, ConcatsNumberSound
  <2>7. CASE AddsNumber(t)
    BY <2>1, <2>7, AddsNumberSound
  <2>8. QED
    BY <1>5, <2>2, <2>3, <2>4, <2>5, <2>6, <2>7
<1>6. ASSUME NEW c \in Chars, ConcatsText(<<c>>) \/ ConcatsText(CStr(<<c>>))
      PROVE  StringSound'
  BY <1>6, OneChar, ConcatsTextSound
<1>7. ASSUME NEW size \in 0 .. MaxFree, Reserves(size)
      PROVE  StringSound'
  BY <1>7, ReservesSound
<1>8. ASSUME NEW i \in Indexes, RemovesFrom(i)
      PROVE  StringSound'
  BY <1>8, RemovesFromSound
<1>9. ASSUME NEW i \in Indexes, NEW n \in Indexes, Removes(i, n) \/ TakesSubstring(i, n)
      PROVE  StringSound'
  BY <1>9, RemovesSound, TakesSubstringSound
<1>10. ASSUME NEW i \in Indexes, NEW c \in Chars, SetsChar(i, c)
       PROVE  StringSound'
  BY <1>10, SetsCharSound
<1>11. ASSUME NEW find \in Chars, NEW by \in Chars, ReplacesChar(find, by)
       PROVE  StringSound'
  BY <1>11, ReplacesCharSound
<1>12. ASSUME NEW find \in Texts, NEW by \in Texts, Replaces(find, by)
       PROVE  StringSound'
  BY <1>12, ReplacesSound
<1>13. QED
  BY <1>1, <1>2, <1>3, <1>4, <1>5, <1>6, <1>7, <1>8, <1>9, <1>10, <1>11, <1>12, Zenon DEF Next

LEMMA StringStarts ==
  ASSUME Init
  PROVE  StringSound
<1>1. s = Empty /\ free = MaxFree /\ last.told = "nothing" /\ last.want = << >>
  BY DEF Init
<1>2. MaxLen \in Nat /\ MaxFree \in Nat
  BY TextAssumption DEF StringAssumption
<1>3. s \in Strings /\ s.text = << >> /\ s.text \in Seq(Chars) /\ Len(s.text) = 0 /\ s.cap \in Nat
  BY <1>1, EmptyIsSound, EmptySeq DEF Strings
<1>4. TypeOK /\ BufferHoldsText
  BY <1>1, <1>2, <1>3 DEF TypeOK, BufferHoldsText
<1>5. AllOrNothing
  BY <1>1, <1>3 DEF AllOrNothing
<1>6. QED
  BY <1>3, <1>4, <1>5 DEF StringSound, StringInv

LEMMA StringKept ==
  ASSUME StringSound, UNCHANGED vars
  PROVE  StringSound'
<1>1. s' = s /\ free' = free /\ last' = last
  BY DEF vars
<1>2. TypeOK' /\ BufferHoldsText'
  BY <1>1 DEF StringSound, StringInv, TypeOK, BufferHoldsText
<1>3. AllOrNothing'
  <2>1. AllOrNothing
    BY DEF StringSound, StringInv
  <2>2. QED
    BY <1>1, <2>1 DEF AllOrNothing
<1>4. QED
  BY <1>1, <1>2, <1>3 DEF StringSound, StringInv

LEMMA StringIsSound == TextSpec => []StringSound
<1>1. TextInit => StringSound
  BY StringStarts DEF TextInit
<1>2. StringSound /\ [StringNext \/ NumbersNext \/ StreamNext]_allVars => StringSound'
  <2>1. SUFFICES ASSUME StringSound, [StringNext \/ NumbersNext \/ StreamNext]_allVars PROVE StringSound'
    OBVIOUS
  <2>2. CASE StringNext
    BY <2>1, <2>2, StringStep DEF StringNext
  <2>3. CASE UNCHANGED vars
    BY <2>1, <2>3, StringKept
  <2>4. QED
    BY <2>1, <2>2, <2>3 DEF NumbersNext, StreamNext, allVars
<1>3. QED
  BY <1>1, <1>2, PTL DEF TextSpec

\* A String's buffer holds its text and the NUL behind it, and a call makes the whole
\* of what it is called for or leaves the text as it was, and tells which: however
\* much memory there is at each of its allocations, for every text and every limit,
\* over the loop of replace() and the NULs a text may hold.
THEOREM StringsAreSound == TextSpec => []StringInv
<1>1. StringSound => StringInv
  BY DEF StringSound
<1>2. QED
  BY <1>1, StringIsSound, PTL

-----------------------------------------------------------------------------
(* What the calls answer about a text without NUL *)

NoNul(t) == t \in Text /\ \A i \in 1 .. Len(t) : t[i] # NUL

LEMMA NoNulIs ==
  ASSUME NEW t, NoNul(t)
  PROVE  t \in Text /\ t \in Seq(Chars) /\ Len(t) \in Nat /\ CStr(t) = t /\ Stops(t, Len(t))
<1>1. t \in Text /\ t \in Seq(Chars) /\ Len(t) \in Nat /\ \A i \in 1 .. Len(t) : t[i] # NUL
  BY DEF NoNul, Text
<1>2. Stops(t, Len(t))
  BY <1>1 DEF Stops
<1>3. CStr(t) = t
  BY <1>1, CStrWhole
<1>4. QED
  BY <1>1, <1>2, <1>3

\* A piece of it has none, either.
LEMMA PieceNoNul ==
  ASSUME NEW x, NoNul(x), NEW m \in Nat, NEW n \in Nat, m <= n, n <= Len(x)
  PROVE  NoNul(SubSeq(x, m + 1, n)) /\ CStr(SubSeq(x, m + 1, n)) = SubSeq(x, m + 1, n)
<1>1. x \in Seq(Chars) /\ Len(x) \in Nat /\ \A i \in 1 .. Len(x) : x[i] # NUL
  BY DEF NoNul, Text
<1>2. PICK w : w = SubSeq(x, m + 1, n)
  OBVIOUS
<1>3. w \in Seq(Chars) /\ Len(w) = n - m /\ \A i \in 1 .. n - m : w[i] = x[m + i]
  BY <1>1, <1>2, PieceIs
<1>4. \A i \in 1 .. n - m : m + i \in 1 .. Len(x)
  BY <1>1
<1>5. NoNul(w)
  BY <1>1, <1>3, <1>4 DEF NoNul, Text
<1>6. CStr(w) = w
  BY <1>5, NoNulIs
<1>7. QED
  BY <1>2, <1>5, <1>6

\* A piece is a value exactly where the value occurs.
LEMMA PieceOccurs ==
  ASSUME NEW x \in Text, NEW v \in Text, NEW k, k = Len(v), NEW i \in Nat, i + k <= Len(x)
  PROVE  SubSeq(x, i + 1, i + k) = v <=> Occurs(v, x, i)
<1>1. x \in Seq(Chars) /\ v \in Seq(Chars) /\ Len(x) \in Nat /\ k \in Nat /\ i + k \in Nat /\ i <= i + k /\ (i + k) - i = k
  BY DEF Text
<1>2. PICK w : w = SubSeq(x, i + 1, i + k)
  OBVIOUS
<1>3. w \in Seq(Chars) /\ Len(w) = k /\ \A j \in 1 .. k : w[j] = x[i + j]
  <2>1. PICK e \in Nat : e = i + k /\ i <= e /\ e <= Len(x) /\ e - i = k
    BY <1>1
  <2>2. SubSeq(x, i + 1, e) \in Seq(Chars) /\ Len(SubSeq(x, i + 1, e)) = e - i /\ \A j \in 1 .. e - i : SubSeq(x, i + 1, e)[j] = x[i + j]
    BY <1>1, <2>1, PieceIs
  <2>3. QED
    BY ONLY <1>2, <2>1, <2>2, Zenon
<1>4. w = v <=> \A j \in 1 .. k : w[j] = v[j]
  BY <1>1, <1>3, SeqEqual
<1>5. w = v <=> \A j \in 1 .. k : x[i + j] = v[j]
  BY <1>3, <1>4
<1>6. QED
  BY ONLY <1>2, <1>5, i + k <= Len(x), k = Len(v), Zenon DEF Occurs

\* substring(b, e) for b <= e.
LEMMA BetweenOrdered ==
  ASSUME NEW x \in Text, NEW b \in Nat, NEW e \in Nat, b <= e
  PROVE  Between(x, b, e) = IF b >= Len(x) THEN << >> ELSE SubSeq(x, b + 1, IF e > Len(x) THEN Len(x) ELSE e)
<1>1. ~(b > e)
  OBVIOUS
<1>2. QED
  BY ONLY <1>1, Zenon DEF Between

LEMMA IsOccurs ==
  ASSUME NEW x \in Text, NEW v \in Text, NEW i \in Nat
  PROVE  (i + Len(v) <= Len(x) /\ Between(x, i, i + Len(v)) = v) <=> Occurs(v, x, i)
<1>1. PICK k \in Nat : k = Len(v)
  BY DEF Text
<1>2. PICK l \in Nat : l = Len(x)
  BY DEF Text
<1>3. CASE ~(i + k <= l)
  BY <1>1, <1>2, <1>3 DEF Occurs
<1>4. CASE i + k <= l
  <2>1. i + k \in Nat /\ i <= i + k /\ ~(i + k > l)
    BY <1>4
  <2>2. Between(x, i, i + k) = IF i >= l THEN << >> ELSE SubSeq(x, i + 1, i + k)
    <3>1. Between(x, i, i + k) = IF i >= l THEN << >> ELSE SubSeq(x, i + 1, IF i + k > l THEN l ELSE i + k)
      BY <1>2, <2>1, BetweenOrdered
    <3>2. QED
      BY ONLY <2>1, <3>1, Zenon
  <2>3. SubSeq(x, i + 1, i + k) = v <=> Occurs(v, x, i)
    BY <1>1, <1>2, <1>4, PieceOccurs
  <2>4. CASE i >= l
    <3>1. k = 0 /\ v = << >>
      <4>1. k = 0
        BY <1>4, <2>4
      <4>2. QED
        BY <1>1, <4>1, EmptySeq DEF Text
    <3>2. Occurs(v, x, i)
      BY <1>1, <1>2, <1>4, <3>1 DEF Occurs
    <3>3. Between(x, i, i + k) = v
      BY <2>2, <2>4, <3>1
    <3>4. QED
      BY <1>1, <1>2, <1>4, <3>2, <3>3
  <2>5. CASE ~(i >= l)
    BY ONLY <1>1, <1>2, <1>4, <2>2, <2>3, <2>5, Zenon
  <2>6. QED
    BY <2>4, <2>5
<1>5. QED
  BY <1>3, <1>4

-----------------------------------------------------------------------------
(* Comparing *)

LEMMA AtIs ==
  ASSUME NEW t \in Text, NEW i \in Nat \ {0}
  PROVE  At(t, i) \in Chars
<1>1. t \in Seq(Chars) /\ Len(t) \in Nat
  BY DEF Text
<1>2. i <= Len(t) => i \in 1 .. Len(t)
  BY <1>1
<1>3. NUL \in Chars
  BY DEF Chars
<1>4. QED
  BY <1>1, <1>2, <1>3 DEF At

LEMMA CodesDiffer ==
  ASSUME NEW a \in Chars, NEW b \in Chars
  PROVE  Code(a) \in Int /\ (Code(a) = Code(b) => a = b)
<1>1. ASSUME NEW c \in Chars
      PROVE  \/ c = NUL /\ Code(c) = 0
             \/ c = " " /\ Code(c) = 32
             \/ c = "A" /\ Code(c) = 65
             \/ c = "a" /\ Code(c) = 97
  <2>1. CASE c = NUL
    BY <2>1 DEF Code, NUL
  <2>2. CASE c = " "
    BY <2>2 DEF Code, NUL
  <2>3. CASE c = "A"
    BY <2>3 DEF Code, NUL
  <2>4. CASE c = "a"
    BY <2>4 DEF Code, NUL
  <2>5. QED
    BY <1>1, <2>1, <2>2, <2>3, <2>4 DEF Chars
<1>2. PICK p, q : p = Code(a) /\ q = Code(b)
  OBVIOUS
<1>3. (a = NUL /\ p = 0) \/ (a = " " /\ p = 32) \/ (a = "A" /\ p = 65) \/ (a = "a" /\ p = 97)
  BY <1>1, <1>2, Zenon
<1>4. (b = NUL /\ q = 0) \/ (b = " " /\ q = 32) \/ (b = "A" /\ q = 65) \/ (b = "a" /\ q = 97)
  BY <1>1, <1>2, Zenon
<1>5. p \in Int /\ q \in Int
  <2>1. p \in {0, 32, 65, 97} /\ q \in {0, 32, 65, 97}
    BY <1>3, <1>4, Zenon
  <2>2. {0, 32, 65, 97} \subseteq Int
    OBVIOUS
  <2>3. QED
    BY <2>1, <2>2
<1>6. ASSUME p = q PROVE a = b
  <2>1. CASE p = 0
    <3>1. a = NUL
      BY ONLY <1>3, <1>5, <2>1
    <3>2. q = 0
      BY <1>6, <2>1
    <3>3. b = NUL
      BY ONLY <1>4, <1>5, <3>2
    <3>4. QED
      BY <3>1, <3>3
  <2>2. CASE p = 32
    <3>1. a = " "
      <4>1. p # 0 /\ p # 65 /\ p # 97
        BY <2>2
      <4>2. QED
        BY ONLY <1>3, <4>1, Zenon
    <3>2. q = 32
      BY <1>6, <2>2
    <3>3. b = " "
      <4>1. q # 0 /\ q # 65 /\ q # 97
        BY <3>2
      <4>2. QED
        BY ONLY <1>4, <4>1, Zenon
    <3>4. QED
      BY <3>1, <3>3
  <2>3. CASE p = 65
    <3>1. a = "A"
      BY ONLY <1>3, <1>5, <2>3
    <3>2. q = 65
      BY <1>6, <2>3
    <3>3. b = "A"
      BY ONLY <1>4, <1>5, <3>2
    <3>4. QED
      BY <3>1, <3>3
  <2>4. CASE p = 97
    <3>1. a = "a"
      BY ONLY <1>3, <1>5, <2>4
    <3>2. q = 97
      BY <1>6, <2>4
    <3>3. b = "a"
      BY ONLY <1>4, <1>5, <3>2
    <3>4. QED
      BY <3>1, <3>3
  <2>5. QED
    BY ONLY <1>3, <2>1, <2>2, <2>3, <2>4
<1>7. QED
  BY <1>2, <1>5, <1>6

Differ(x, v) == {i \in 1 .. Max({Len(x), Len(v)}) : At(x, i) # At(v, i)}

LEMMA DifferIs ==
  ASSUME NEW x, NEW v, NoNul(x), NoNul(v)
  PROVE  Differ(x, v) \subseteq Nat \ {0} /\ (Differ(x, v) = {} <=> x = v) /\ Differ(x, v) = Differ(v, x)
<1>1. PICK m : m = Max({Len(x), Len(v)})
  OBVIOUS
<1>2. PICK a \in Nat : a = Len(x)
  BY NoNulIs
<1>3. PICK b \in Nat : b = Len(v)
  BY NoNulIs
<1>4. m \in Nat /\ a <= m /\ b <= m
  BY <1>1, <1>2, <1>3, PairMax
<1>5. PICK D : D = {i \in 1 .. m : At(x, i) # At(v, i)} /\ D = Differ(x, v)
  BY <1>1 DEF Differ
<1>6. D \subseteq Nat \ {0}
  BY <1>4, <1>5
<1>7. x = v => D = {}
  BY <1>5
<1>8. ASSUME D = {} PROVE x = v
  <2>1. \A i \in 1 .. m : At(x, i) = At(v, i)
    BY <1>5, <1>8
  <2>2. \A i \in 1 .. a : At(x, i) = x[i] /\ x[i] # NUL
    BY <1>2 DEF At, NoNul
  <2>3. \A i \in 1 .. b : At(v, i) = v[i] /\ v[i] # NUL
    BY <1>3 DEF At, NoNul
  <2>4. ~(a < b)
    <3>1. SUFFICES ASSUME a < b PROVE FALSE
      OBVIOUS
    <3>2. a + 1 \in 1 .. m /\ a + 1 \in 1 .. b /\ ~(a + 1 <= a)
      BY <1>4, <3>1
    <3>3. At(x, a + 1) = NUL
      BY <1>2, <3>2 DEF At
    <3>4. QED
      BY <2>1, <2>3, <3>2, <3>3
  <2>5. ~(b < a)
    <3>1. SUFFICES ASSUME b < a PROVE FALSE
      OBVIOUS
    <3>2. b + 1 \in 1 .. m /\ b + 1 \in 1 .. a /\ ~(b + 1 <= b)
      BY <1>4, <3>1
    <3>3. At(v, b + 1) = NUL
      BY <1>3, <3>2 DEF At
    <3>4. QED
      BY <2>1, <2>2, <3>2, <3>3
  <2>6. a = b
    BY <2>4, <2>5
  <2>7. \A i \in 1 .. a : x[i] = v[i]
    <3>1. \A i \in 1 .. a : i \in 1 .. m /\ i \in 1 .. b
      BY <1>4, <2>6
    <3>2. QED
      BY <2>1, <2>2, <2>3, <3>1
  <2>8. x \in Seq(Chars) /\ v \in Seq(Chars)
    BY NoNulIs
  <2>9. QED
    BY <1>2, <1>3, <2>6, <2>7, <2>8, SeqEqual
<1>9. D = Differ(v, x)
  <2>1. {Len(v), Len(x)} = {Len(x), Len(v)}
    OBVIOUS
  <2>2. Differ(v, x) = {i \in 1 .. m : At(v, i) # At(x, i)}
    BY <1>1, <2>1 DEF Differ
  <2>3. QED
    BY <1>5, <2>2
<1>10. QED
  BY <1>5, <1>6, <1>7, <1>8, <1>9

LEMMA CompareIs ==
  ASSUME NEW x, NEW v, NoNul(x), NoNul(v)
  PROVE  Compare(x, v) = IF x = v THEN 0 ELSE Code(At(x, Min(Differ(x, v)))) - Code(At(v, Min(Differ(x, v))))
<1>1. CStr(x) = x /\ CStr(v) = v
  BY NoNulIs
<1>2. Compare(x, v) = IF Differ(x, v) = {} THEN 0 ELSE Code(At(x, Min(Differ(x, v)))) - Code(At(v, Min(Differ(x, v))))
  BY ONLY <1>1, Zenon DEF Compare, Differ
<1>3. QED
  BY ONLY <1>2, DifferIs, NoNul(x), NoNul(v)

LEMMA ComparesTruly ==
  ASSUME NEW x, NEW v, NoNul(x), NoNul(v)
  PROVE  /\ Equal(x, v) <=> x = v
         /\ Less(x, v) <=> ~Less(v, x) /\ x # v
<1>1. CASE x = v
  BY <1>1, CompareIs DEF Equal, Less
<1>2. CASE x # v
  <2>1. PICK m : m = Min(Differ(x, v))
    OBVIOUS
  <2>2. PICK D : D = Differ(x, v) /\ D = {i \in 1 .. Max({Len(x), Len(v)}) : At(x, i) # At(v, i)}
    BY DEF Differ
  <2>3. D # {} /\ D \subseteq Nat \ {0} /\ D = Differ(v, x)
    BY <1>2, <2>2, DifferIs
  <2>4. m \in D
    BY <2>1, <2>2, <2>3, MinIs
  <2>5. PICK a, b : a = At(x, m) /\ b = At(v, m)
    OBVIOUS
  <2>6. a # b /\ a \in Chars /\ b \in Chars
    <3>1. x \in Text /\ v \in Text /\ m \in Nat \ {0}
      BY <2>3, <2>4, NoNulIs
    <3>2. QED
      BY <2>2, <2>4, <2>5, <3>1, AtIs
  <2>7. PICK p, q : p = Code(a) /\ q = Code(b) /\ p \in Int /\ q \in Int /\ p # q
    BY <2>6, CodesDiffer
  <2>8. Compare(x, v) = p - q
    BY <1>2, <2>1, <2>5, <2>7, CompareIs
  <2>9. Compare(v, x) = q - p
    <3>1. Compare(v, x) = Code(At(v, Min(Differ(v, x)))) - Code(At(x, Min(Differ(v, x))))
      BY <1>2, CompareIs
    <3>2. Min(Differ(v, x)) = m
      BY <2>1, <2>2, <2>3
    <3>3. QED
      BY <2>5, <2>7, <3>1, <3>2
  <2>10. QED
    BY <1>2, <2>7, <2>8, <2>9 DEF Equal, Less
<1>3. QED
  BY <1>1, <1>2

LEMMA ConstantTimeIs ==
  ASSUME NEW x, NEW v, NoNul(x), NoNul(v)
  PROVE  EqualsConstantTime(x, v) <=> x = v
<1>1. EqualsConstantTime(x, v) => Differ(x, v) = {}
  BY Zenon DEF EqualsConstantTime, Differ
<1>2. x = v => EqualsConstantTime(x, v)
  BY DEF EqualsConstantTime
<1>3. QED
  BY <1>1, <1>2, DifferIs

LEMMA IgnoresCase ==
  ASSUME NEW x, NEW v, x = v
  PROVE  EqualsIgnoreCase(x, v)
<1>1. ASSUME NEW y PROVE Compare(y, y) = 0
  <2>1. PICK c : c = CStr(y)
    OBVIOUS
  <2>2. {i \in 1 .. Max({Len(c), Len(c)}) : At(c, i) # At(c, i)} = {}
    OBVIOUS
  <2>3. QED
    BY ONLY <2>1, <2>2, Zenon DEF Compare
<1>2. PICK y : y = [i \in DOMAIN CStr(x) |-> Lower(x[i])]
  OBVIOUS
<1>3. EqualsIgnoreCase(x, v) <=> Compare(y, y) = 0
  BY <1>2 DEF EqualsIgnoreCase
<1>4. QED
  BY <1>1, <1>3

-----------------------------------------------------------------------------
(* Searching *)

LEMMA FirstOnce ==
  ASSUME NEW v, NEW t \in Text, NEW c \in Nat, NEW a, NEW b, First(a, v, t, c), First(b, v, t, c)
  PROVE  a = b
<1>1. Len(t) \in Nat /\ -1 \notin c .. Len(t)
  BY DEF Text
<1>2. CASE a = -1
  BY <1>1, <1>2 DEF First
<1>3. CASE b = -1
  BY <1>1, <1>3 DEF First
<1>4. CASE a # -1 /\ b # -1
  <2>1. /\ a \in c .. Len(t) /\ Occurs(v, t, a) /\ \A i \in c .. a - 1 : ~Occurs(v, t, i)
        /\ b \in c .. Len(t) /\ Occurs(v, t, b) /\ \A i \in c .. b - 1 : ~Occurs(v, t, i)
    BY <1>4 DEF First
  <2>2. ~(a < b)
    <3>1. a < b => a \in c .. b - 1
      BY <1>1, <2>1
    <3>2. QED
      BY <2>1, <3>1
  <2>3. ~(b < a)
    <3>1. b < a => b \in c .. a - 1
      BY <1>1, <2>1
    <3>2. QED
      BY <2>1, <3>1
  <2>4. QED
    BY <1>1, <2>1, <2>2, <2>3
<1>5. QED
  BY <1>2, <1>3, <1>4

\* Where substring() finds v.
Finds(x, v) == {i \in 0 .. Len(x) : i + Len(v) <= Len(x) /\ Between(x, i, i + Len(v)) = v}

LEMMA FindsIs ==
  ASSUME NEW x, NEW v, NoNul(x), NoNul(v)
  PROVE  /\ Finds(x, v) \subseteq 0 .. Len(x)
         /\ \A i \in 0 .. Len(x) : i \in Finds(x, v) <=> Occurs(v, x, i)
         /\ \A i \in Nat : Occurs(v, x, i) => i \in 0 .. Len(x)
<1>1. x \in Text /\ v \in Text /\ Len(x) \in Nat /\ Len(v) \in Nat
  BY NoNulIs
<1>2. Finds(x, v) \subseteq 0 .. Len(x)
  BY DEF Finds
<1>3. ASSUME NEW i \in 0 .. Len(x) PROVE i \in Finds(x, v) <=> Occurs(v, x, i)
  <2>1. i \in Nat
    BY <1>1, <1>3
  <2>2. (i + Len(v) <= Len(x) /\ Between(x, i, i + Len(v)) = v) <=> Occurs(v, x, i)
    BY <1>1, <2>1, IsOccurs
  <2>3. QED
    BY ONLY <1>3, <2>2, Zenon DEF Finds
<1>4. ASSUME NEW i \in Nat, Occurs(v, x, i) PROVE i \in 0 .. Len(x)
  <2>1. i + Len(v) <= Len(x)
    BY <1>4, Zenon DEF Occurs
  <2>2. QED
    BY <1>1, <2>1
<1>5. QED
  BY <1>2, <1>3, <1>4

LEMMA EndsTruly ==
  ASSUME NEW x, NEW v, NoNul(x), NoNul(v)
  PROVE  EndsWith(x, v) <=> Len(v) <= Len(x) /\ (Len(x) - Len(v)) + Len(v) <= Len(x) /\ Between(x, Len(x) - Len(v), (Len(x) - Len(v)) + Len(v)) = v
<1>1. x \in Text /\ v \in Text /\ Len(x) \in Nat /\ Len(v) \in Nat
  BY NoNulIs
<1>2. CASE Len(v) <= Len(x)
  <2>1. PICK i \in Nat : i = Len(x) - Len(v) /\ i + Len(v) = Len(x) /\ i <= Len(x) /\ i + Len(v) <= Len(x)
    <3>1. Len(x) - Len(v) \in Nat /\ (Len(x) - Len(v)) + Len(v) = Len(x) /\ Len(x) - Len(v) <= Len(x) /\ (Len(x) - Len(v)) + Len(v) <= Len(x)
      BY <1>1, <1>2
    <3>2. QED
      BY <3>1
  <2>2. EndsWith(x, v) <=> CStr(SubSeq(x, i + 1, Len(x))) = v
    BY ONLY <1>2, <2>1, Zenon DEF EndsWith
  <2>3. CStr(SubSeq(x, i + 1, Len(x))) = SubSeq(x, i + 1, Len(x))
    BY <1>1, <1>2, <2>1, PieceNoNul
  <2>4. SubSeq(x, i + 1, i + Len(v)) = v <=> Occurs(v, x, i)
    <3>1. i \in Nat /\ i + Len(v) <= Len(x)
      BY <2>1
    <3>2. QED
      BY ONLY <1>1, <3>1, PieceOccurs
  <2>5. (i + Len(v) <= Len(x) /\ Between(x, i, i + Len(v)) = v) <=> Occurs(v, x, i)
    BY <1>1, <2>1, IsOccurs
  <2>6. EndsWith(x, v) <=> (i + Len(v) <= Len(x) /\ Between(x, i, i + Len(v)) = v)
    BY ONLY <2>1, <2>2, <2>3, <2>4, <2>5, Zenon
  <2>7. QED
    BY ONLY <1>2, <2>1, <2>6, Zenon
<1>3. CASE ~(Len(v) <= Len(x))
  BY ONLY <1>3, Zenon DEF EndsWith
<1>4. QED
  BY <1>2, <1>3

LEMMA StartsTruly ==
  ASSUME NEW x, NEW v, NoNul(x), NoNul(v), NEW c \in Nat
  PROVE  StartsWith(x, v, c) <=> c \in Finds(x, v)
<1>1. x \in Text /\ v \in Text /\ Len(x) \in Nat /\ Len(v) \in Nat
  BY NoNulIs
<1>2. CASE c + Len(v) <= Len(x)
  <2>1. c <= Len(x) /\ Len(v) <= Len(x) - c /\ c \in 0 .. Len(x) /\ c + Len(v) \in Nat /\ c <= c + Len(v)
    BY <1>1, <1>2
  <2>2. StartsWith(x, v, c) <=> CStr(SubSeq(x, c + 1, c + Len(v))) = v
    BY ONLY <2>1, Zenon DEF StartsWith
  <2>3. CStr(SubSeq(x, c + 1, c + Len(v))) = SubSeq(x, c + 1, c + Len(v))
    BY <1>1, <1>2, <2>1, PieceNoNul
  <2>4. SubSeq(x, c + 1, c + Len(v)) = v <=> Occurs(v, x, c)
    BY <1>1, <1>2, PieceOccurs
  <2>5. c \in Finds(x, v) <=> Occurs(v, x, c)
    BY <2>1, FindsIs
  <2>6. QED
    BY ONLY <2>2, <2>3, <2>4, <2>5, Zenon
<1>3. CASE ~(c + Len(v) <= Len(x))
  <2>1. ~(c <= Len(x) /\ Len(v) <= Len(x) - c)
    BY <1>1, <1>3
  <2>2. ~StartsWith(x, v, c)
    BY ONLY <2>1, Zenon DEF StartsWith
  <2>3. c \notin Finds(x, v)
    BY <1>3 DEF Finds
  <2>4. QED
    BY <2>2, <2>3
<1>4. QED
  BY <1>2, <1>3

LEMMA FindsFirst ==
  ASSUME NEW x, NEW v, NoNul(x), NoNul(v), NEW c \in Nat, NEW after, after = {i \in Finds(x, v) : i >= c}
  PROVE  IndexOf(x, v, c) = IF after = {} THEN -1 ELSE Min(after)
<1>1. x \in Text /\ v \in Text /\ Len(x) \in Nat /\ Stops(x, Len(x)) /\ x = SubSeq(x, 1, Len(x))
  BY NoNulIs, SubSeqFull
<1>2. after \subseteq Nat /\ \A i \in c .. Len(x) : i \in after <=> Occurs(v, x, i)
  <2>1. \A i \in c .. Len(x) : i \in 0 .. Len(x) /\ i >= c
    BY <1>1
  <2>2. \A i \in c .. Len(x) : i \in after <=> Occurs(v, x, i)
    BY <2>1, FindsIs
  <2>3. after \subseteq Nat
    BY <1>1, FindsIs
  <2>4. QED
    BY <2>2, <2>3
<1>3. after \subseteq c .. Len(x)
  BY <1>1, FindsIs
<1>4. CASE c > Len(x)
  <2>1. after = {}
    BY <1>1, <1>3, <1>4
  <2>2. IndexOf(x, v, c) = -1
    BY <1>4 DEF IndexOf
  <2>3. QED
    BY <2>1, <2>2
<1>5. CASE ~(c > Len(x))
  <2>1. PICK m : m = IndexOf(x, v, c)
    OBVIOUS
  <2>2. First(m, v, x, c)
    <3>1. c \in 0 .. Len(x)
      BY <1>1, <1>5
    <3>2. QED
      BY <1>1, <2>1, <3>1, IndexOfIs
  <2>3. CASE m = -1
    <3>1. -1 \notin c .. Len(x)
      BY <1>1
    <3>2. \A i \in c .. Len(x) : ~Occurs(v, x, i)
      BY ONLY <2>2, <2>3, <3>1, Zenon DEF First
    <3>3. after = {}
      BY <1>2, <1>3, <3>2
    <3>4. QED
      BY <2>1, <2>3, <3>3
  <2>4. CASE m # -1
    <3>1. m \in c .. Len(x) /\ Occurs(v, x, m) /\ \A i \in c .. m - 1 : ~Occurs(v, x, i)
      BY ONLY <2>2, <2>4, Zenon DEF First
    <3>2. m \in after
      BY <1>2, <3>1
    <3>3. ASSUME NEW i \in after PROVE m <= i
      <4>1. i \in c .. Len(x) /\ Occurs(v, x, i) /\ i \in Nat /\ m \in Nat
        BY <1>1, <1>2, <1>3, <3>1, <3>3
      <4>2. ~(i \in c .. m - 1)
        BY <3>1, <4>1
      <4>3. QED
        BY <1>1, <4>1, <4>2
    <3>4. Min(after) = m
      BY <1>2, <3>2, <3>3, MinMeans
    <3>5. QED
      BY <2>1, <3>2, <3>4
  <2>5. QED
    BY <2>3, <2>4
<1>6. QED
  BY <1>4, <1>5

LEMMA FindsLast ==
  ASSUME NEW x, NEW v, NoNul(x), NoNul(v), NEW c \in Nat, NEW before, before = {i \in Finds(x, v) : i <= c}
  PROVE  LastIndexOf(x, v, c) = IF before = {} THEN -1 ELSE Max(before)
<1>1. x \in Text /\ v \in Text /\ Len(x) \in Nat /\ Len(v) \in Nat
  BY NoNulIs
<1>2. PICK found : found = {i \in 0 .. Len(x) - Len(v) : i <= c /\ CStr(SubSeq(x, i + 1, i + Len(v))) = v}
  OBVIOUS
<1>3. ASSUME NEW i PROVE i \in found <=> i \in before
  <2>1. CASE ~(i \in 0 .. Len(x) - Len(v))
    <3>1. i \notin found
      BY <1>2, <2>1
    <3>2. i \notin before
      <4>1. SUFFICES ASSUME i \in before PROVE FALSE
        OBVIOUS
      <4>2. i \in 0 .. Len(x) /\ Occurs(v, x, i)
        BY <4>1, FindsIs
      <4>3. i + Len(v) <= Len(x)
        BY <4>2, Zenon DEF Occurs
      <4>4. QED
        BY <1>1, <2>1, <4>2, <4>3
    <3>3. QED
      BY <3>1, <3>2
  <2>2. CASE i \in 0 .. Len(x) - Len(v)
    <3>1. i \in Nat /\ i \in 0 .. Len(x) /\ i + Len(v) <= Len(x) /\ i + Len(v) \in Nat /\ i <= i + Len(v)
      BY <1>1, <2>2
    <3>2. CStr(SubSeq(x, i + 1, i + Len(v))) = SubSeq(x, i + 1, i + Len(v))
      BY <3>1, PieceNoNul
    <3>3. SubSeq(x, i + 1, i + Len(v)) = v <=> Occurs(v, x, i)
      BY <1>1, <3>1, PieceOccurs
    <3>4. i \in Finds(x, v) <=> Occurs(v, x, i)
      BY <3>1, FindsIs
    <3>5. i \in found <=> i <= c /\ Occurs(v, x, i)
      BY ONLY <1>2, <2>2, <3>2, <3>3, Zenon
    <3>6. QED
      BY <3>4, <3>5
  <2>3. QED
    BY <2>1, <2>2
<1>4. found = before
  BY <1>3
<1>5. LastIndexOf(x, v, c) = IF v = << >> THEN (IF c < Len(x) THEN c ELSE Len(x))
                             ELSE IF found = {} THEN -1 ELSE Max(found)
  BY ONLY <1>2, Zenon DEF LastIndexOf
<1>6. CASE v # << >>
  BY ONLY <1>4, <1>5, <1>6, Zenon
<1>7. CASE v = << >>
  <2>1. PICK m \in Nat : m = (IF c < Len(x) THEN c ELSE Len(x)) /\ m <= c /\ m <= Len(x)
    BY <1>1
  <2>2. \A i \in 0 .. Len(x) : i \in before <=> i <= c
    <3>1. Len(v) = 0
      BY <1>7, EmptySeq
    <3>2. \A i \in 0 .. Len(x) : Occurs(v, x, i)
      BY <1>1, <3>1 DEF Occurs
    <3>3. QED
      BY <3>2, FindsIs
  <2>3. before \subseteq 0 .. Len(x)
    BY FindsIs
  <2>4. m \in before
    BY <1>1, <2>1, <2>2
  <2>5. \A i \in before : m >= i
    BY <1>1, <2>1, <2>2, <2>3
  <2>6. Max(before) = m
    BY <1>1, <2>3, <2>4, <2>5, MaxMeans
  <2>7. QED
    BY <1>5, <1>7, <2>1, <2>4, <2>6
<1>8. QED
  BY <1>6, <1>7

LEMMA CharOccurs ==
  ASSUME NEW x \in Text, NEW v, Len(v) = 1, NEW i \in Nat
  PROVE  Occurs(v, x, i) <=> i + 1 <= Len(x) /\ x[i + 1] = v[1]
<1>1. \A j \in 1 .. 1 : j = 1
  OBVIOUS
<1>2. Occurs(v, x, i) <=> i + 1 <= Len(x) /\ \A j \in 1 .. 1 : x[i + j] = v[j]
  BY Zenon DEF Occurs
<1>3. 1 \in 1 .. 1
  OBVIOUS
<1>4. QED
  BY ONLY <1>1, <1>2, <1>3, Zenon

LEMMA CharFirst ==
  ASSUME NEW x, NEW v, NoNul(x), NoNul(v), Len(v) = 1, NEW c \in Nat, c < Len(x)
  PROVE  IndexOfChar(x, v[1], c) = IndexOf(x, v, c)
<1>1. PICK l \in Nat : l = Len(x) /\ x \in Text /\ x \in Seq(Chars) /\ Stops(x, l)
  BY NoNulIs
<1>2. v \in Text /\ v[1] # NUL
  BY NoNulIs DEF NoNul
<1>3. PICK k \in Nat : k = l - c /\ c + k = l /\ c <= l
  <2>1. l - c \in Nat /\ c + (l - c) = l /\ c <= l
    BY <1>1
  <2>2. QED
    BY <2>1
<1>4. PICK w : w = SubSeq(x, c + 1, l)
  OBVIOUS
<1>5. w \in Seq(Chars) /\ Len(w) = k /\ (\A i \in 1 .. k : w[i] = x[c + i]) /\ CStr(w) = w
  BY <1>1, <1>3, <1>4, PieceIs, PieceNoNul
<1>6. PICK rest : rest = w \o <<NUL>>
  OBVIOUS
<1>7. rest \in Seq(Chars) /\ DOMAIN rest = 1 .. k + 1 /\ (\A i \in 1 .. k : rest[i] = x[c + i]) /\ rest[k + 1] = NUL
  <2>1. PICK y : y = <<NUL>> /\ y \in Seq(Chars) /\ Len(y) = 1 /\ y[1] = NUL
    <3>1. NUL \in Chars
      BY DEF Chars
    <3>2. <<NUL>> \in Seq(Chars) /\ Len(<<NUL>>) = 1 /\ <<NUL>>[1] = NUL
      BY <3>1
    <3>3. QED
      BY <3>2
  <2>2. rest \in Seq(Chars) /\ Len(rest) = k + 1 /\ (\A i \in 1 .. k : rest[i] = w[i]) /\ \A i \in 1 .. 1 : rest[k + i] = y[i]
    BY <1>5, <1>6, <2>1, JoinedIs
  <2>3. QED
    BY <1>5, <2>1, <2>2
<1>8. ASSUME NEW i \in 1 .. k PROVE rest[i] = v[1] <=> Occurs(v, x, c + i - 1)
  <2>1. c + i - 1 \in Nat /\ (c + i - 1) + 1 = c + i /\ c + i <= l
    BY <1>3, <1>8
  <2>2. Occurs(v, x, c + i - 1) <=> (c + i - 1) + 1 <= Len(x) /\ x[(c + i - 1) + 1] = v[1]
    BY <1>1, <2>1, CharOccurs
  <2>3. rest[i] = x[c + i]
    BY <1>7, <1>8
  <2>4. QED
    BY ONLY <1>1, <2>1, <2>2, <2>3, Zenon
<1>9. \A i \in 1 .. k + 1 : rest[i] = v[1] => i \in 1 .. k
  BY <1>2, <1>7
<1>10. ~Occurs(v, x, l)
  BY <1>1, CharOccurs
<1>11. PICK P : P = {i \in DOMAIN rest : rest[i] = v[1]}
  OBVIOUS
<1>12. P \subseteq 1 .. k /\ \A i \in 1 .. k : i \in P <=> Occurs(v, x, c + i - 1)
  <2>1. \A i \in 1 .. k : i \in DOMAIN rest
    BY <1>7
  <2>2. QED
    BY <1>7, <1>8, <1>9, <1>11, <2>1
<1>13. PICK m : m = IF P = {} THEN -1 ELSE c + Min(P) - 1
  OBVIOUS
<1>14. IndexOfChar(x, v[1], c) = m
  <2>1. rest = CStr(SubSeq(x, c + 1, Len(x))) \o <<NUL>>
    BY <1>1, <1>4, <1>5, <1>6
  <2>2. ~(c >= Len(x))
    BY <1>1
  <2>3. (\A i \in DOMAIN rest : rest[i] # v[1]) <=> P = {}
    BY <1>11
  <2>4. IndexOfChar(x, v[1], c) = IF \A i \in DOMAIN rest : rest[i] # v[1] THEN -1 ELSE c + Min({i \in DOMAIN rest : rest[i] = v[1]}) - 1
    BY ONLY <2>1, <2>2, Zenon DEF IndexOfChar
  <2>5. QED
    BY ONLY <1>11, <1>13, <2>3, <2>4, Zenon
<1>15. First(m, v, x, c)
  <2>1. CASE P = {}
    <3>1. ASSUME NEW j \in c .. Len(x) PROVE ~Occurs(v, x, j)
      <4>1. j = l \/ (j - c + 1 \in 1 .. k /\ c + (j - c + 1) - 1 = j)
        BY <1>1, <1>3, <3>1
      <4>2. QED
        BY <1>10, <1>12, <2>1, <4>1
    <3>2. QED
      BY <1>13, <2>1, <3>1 DEF First
  <2>2. CASE P # {}
    <3>1. P \subseteq Nat
      BY <1>12
    <3>2. PICK p : p = Min(P) /\ p \in P /\ \A i \in P : p <= i
      BY <2>2, <3>1, MinIs
    <3>3. p \in 1 .. k /\ m = c + p - 1 /\ Occurs(v, x, m)
      BY <1>12, <1>13, <2>2, <3>2
    <3>4. m \in c .. Len(x)
      BY <1>1, <1>3, <3>3
    <3>5. ASSUME NEW j \in c .. m - 1 PROVE ~Occurs(v, x, j)
      <4>1. j - c + 1 \in 1 .. k /\ c + (j - c + 1) - 1 = j /\ ~(p <= j - c + 1)
        BY <1>3, <3>3, <3>5
      <4>2. QED
        BY <1>12, <3>2, <4>1
    <3>6. QED
      BY <3>3, <3>4, <3>5 DEF First
  <2>3. QED
    BY <2>1, <2>2
<1>16. First(IndexOf(x, v, c), v, x, c)
  <2>1. c \in 0 .. l /\ x = SubSeq(x, 1, l)
    BY <1>1, <1>3, SubSeqFull
  <2>2. QED
    BY ONLY <1>1, <1>2, <2>1, IndexOfIs
<1>17. IndexOf(x, v, c) = m
  BY <1>1, <1>15, <1>16, FirstOnce
<1>18. QED
  BY <1>14, <1>17

LEMMA CharLast ==
  ASSUME NEW x, NEW v, NoNul(x), NoNul(v), Len(v) = 1, NEW c \in Nat
  PROVE  LastIndexOfChar(x, v[1], c) = LastIndexOf(x, v, c)
<1>1. PICK l \in Nat : l = Len(x) /\ x \in Text /\ x \in Seq(Chars)
  BY NoNulIs
<1>2. v \in Text /\ v # << >>
  BY NoNulIs, EmptySeq
<1>3. ASSUME NEW i \in 0 .. l - 1 PROVE x[i + 1] = v[1] <=> CStr(SubSeq(x, i + 1, i + 1)) = v
  <2>1. i \in Nat /\ i + 1 \in Nat /\ i <= i + 1 /\ i + 1 <= l
    BY <1>1, <1>3
  <2>2. CStr(SubSeq(x, i + 1, i + 1)) = SubSeq(x, i + 1, i + 1)
    BY <1>1, <2>1, PieceNoNul
  <2>3. SubSeq(x, i + 1, i + 1) = v <=> Occurs(v, x, i)
    BY <1>1, <1>2, <2>1, PieceOccurs
  <2>4. Occurs(v, x, i) <=> x[i + 1] = v[1]
    BY <1>1, <2>1, CharOccurs
  <2>5. QED
    BY ONLY <2>2, <2>3, <2>4, Zenon
<1>4. PICK found : found = {i \in 0 .. l - 1 : i <= c /\ x[i + 1] = v[1]}
  OBVIOUS
<1>5. found = {i \in 0 .. l - 1 : i <= c /\ CStr(SubSeq(x, i + 1, i + 1)) = v}
  BY <1>3, <1>4
<1>6. LastIndexOfChar(x, v[1], c) = IF found = {} THEN -1 ELSE Max(found)
  BY ONLY <1>1, <1>4, Zenon DEF LastIndexOfChar
<1>7. LastIndexOf(x, v, c) = IF found = {} THEN -1 ELSE Max(found)
  <2>1. Len(v) = 1
    OBVIOUS
  <2>2. QED
    BY ONLY <1>1, <1>2, <1>5, <2>1, Zenon DEF LastIndexOf
<1>8. QED
  BY <1>6, <1>7

LEMMA OneBetween ==
  ASSUME NEW x \in Text, NEW c \in Nat
  PROVE  Between(x, c, c + 1) = IF c < Len(x) THEN <<x[c + 1]>> ELSE << >>
<1>1. PICK l \in Nat : l = Len(x) /\ x \in Seq(Chars)
  BY DEF Text
<1>2. Between(x, c, c + 1) = IF c >= l THEN << >> ELSE SubSeq(x, c + 1, IF c + 1 > l THEN l ELSE c + 1)
  <2>1. ~(c > c + 1)
    OBVIOUS
  <2>2. QED
    BY ONLY <1>1, <2>1, Zenon DEF Between
<1>3. CASE c < l
  <2>1. PICK e \in Nat : e = c + 1 /\ c <= e /\ e <= l /\ e - c = 1 /\ ~(c >= l) /\ ~(e > l)
    BY <1>3
  <2>2. Between(x, c, c + 1) = SubSeq(x, c + 1, e)
    BY ONLY <1>2, <2>1, Zenon
  <2>3. PICK w : w = SubSeq(x, c + 1, e) /\ w \in Seq(Chars) /\ Len(w) = 1 /\ \A i \in 1 .. 1 : w[i] = x[c + i]
    <3>1. PICK w : w = SubSeq(x, c + 1, e)
      OBVIOUS
    <3>2. w \in Seq(Chars) /\ Len(w) = e - c /\ \A i \in 1 .. e - c : w[i] = x[c + i]
      BY <1>1, <2>1, <3>1, PieceIs
    <3>3. w \in Seq(Chars) /\ Len(w) = 1 /\ \A i \in 1 .. 1 : w[i] = x[c + i]
      BY ONLY <2>1, <3>2, Zenon
    <3>4. QED
      BY ONLY <3>1, <3>3, Zenon
  <2>4. w = <<x[c + 1]>>
    <3>1. PICK y : y = <<x[c + 1]>>
      OBVIOUS
    <3>2. x[c + 1] \in Chars
      BY <1>1, <2>1
    <3>3. y \in Seq(Chars) /\ Len(y) = 1 /\ y[1] = x[c + 1]
      BY <3>1, <3>2
    <3>4. \A i \in 1 .. 1 : w[i] = y[i]
      BY <2>3, <3>3
    <3>5. w = y
      BY <2>3, <3>3, <3>4, SeqEqual
    <3>6. QED
      BY <3>1, <3>5
  <2>5. QED
    BY <1>1, <1>3, <2>2, <2>3, <2>4
<1>4. CASE ~(c < l)
  <2>1. c >= l
    BY <1>4
  <2>2. QED
    BY ONLY <1>1, <1>2, <1>4, <2>1, Zenon
<1>5. QED
  BY <1>3, <1>4

LEMMA BytesBetween ==
  ASSUME NEW x \in Text, NEW c \in Nat
  PROVE  GetBytes(x, c + 1, 0) = Append(Between(x, 0, c), NUL)
<1>1. PICK l \in Nat : l = Len(x) /\ x \in Seq(Chars)
  BY DEF Text
<1>2. Between(x, 0, c) = IF 0 >= l THEN << >> ELSE SubSeq(x, 0 + 1, IF c > l THEN l ELSE c)
  <2>1. ~(0 > c)
    OBVIOUS
  <2>2. QED
    BY ONLY <1>1, <2>1, Zenon DEF Between
<1>3. c + 1 # 0 /\ l - 0 = l /\ (c + 1) - 1 = c /\ 0 + (c + 1) - 1 = c
  BY <1>1
<1>4. GetBytes(x, c + 1, 0) = IF 0 >= l THEN <<NUL>> ELSE Append(SubSeq(x, 0 + 1, IF l < c THEN l ELSE c), NUL)
  BY ONLY <1>1, <1>3, Zenon DEF GetBytes
<1>5. (l < c) <=> (c > l)
  BY <1>1
<1>6. CASE 0 >= l
  <2>1. Append(<< >>, NUL) = <<NUL>>
    OBVIOUS
  <2>2. QED
    BY ONLY <1>2, <1>4, <1>6, <2>1, Zenon
<1>7. CASE ~(0 >= l)
  BY ONLY <1>2, <1>4, <1>5, <1>7, Zenon
<1>8. QED
  BY <1>6, <1>7

-----------------------------------------------------------------------------

\* What AnswersAgree says of a text and a value, and of a place to search from.
AgreeOn(x, v) ==
  /\ Equal(x, v) = (x = v)
  /\ Less(x, v) <=> ~Less(v, x) /\ x # v
  /\ EqualsConstantTime(x, v) = (x = v)
  /\ x = v => EqualsIgnoreCase(x, v)
  /\ EndsWith(x, v) = (Len(v) <= Len(x) /\ ((Len(x) - Len(v)) + Len(v) <= Len(x) /\ Between(x, Len(x) - Len(v), (Len(x) - Len(v)) + Len(v)) = v))

AgreeFrom(x, v, c) ==
  /\ StartsWith(x, v, c) = (c \in Finds(x, v))
  /\ IndexOf(x, v, c) = IF {i \in Finds(x, v) : i >= c} = {} THEN -1 ELSE Min({i \in Finds(x, v) : i >= c})
  /\ LastIndexOf(x, v, c) = IF {i \in Finds(x, v) : i <= c} = {} THEN -1 ELSE Max({i \in Finds(x, v) : i <= c})
  /\ Len(v) = 1 /\ c < Len(x) => IndexOfChar(x, v[1], c) = IndexOf(x, v, c)
  /\ Len(v) = 1 => LastIndexOfChar(x, v[1], c) = LastIndexOf(x, v, c)
  /\ Between(x, c, c + 1) = (IF c < Len(x) THEN <<x[c + 1]>> ELSE << >>)
  /\ GetBytes(x, c + 1, 0) = Append(Between(x, 0, c), NUL)

LEMMA Agreed ==
  ASSUME NEW x, NEW v, NoNul(x), NoNul(v)
  PROVE  AgreeOn(x, v)
<1>1. (Equal(x, v) <=> x = v) /\ (Less(x, v) <=> ~Less(v, x) /\ x # v)
  BY ComparesTruly
<1>2. Equal(x, v) \in BOOLEAN /\ EqualsConstantTime(x, v) \in BOOLEAN /\ EndsWith(x, v) \in BOOLEAN
  BY DEF Equal, EqualsConstantTime, EndsWith
<1>3. EqualsConstantTime(x, v) <=> x = v
  BY ConstantTimeIs
<1>4. x = v => EqualsIgnoreCase(x, v)
  BY IgnoresCase
<1>5. EndsWith(x, v) <=> Len(v) <= Len(x) /\ (Len(x) - Len(v)) + Len(v) <= Len(x) /\ Between(x, Len(x) - Len(v), (Len(x) - Len(v)) + Len(v)) = v
  BY EndsTruly
<1>6. QED
  BY ONLY <1>1, <1>2, <1>3, <1>4, <1>5, Zenon DEF AgreeOn

LEMMA AgreedFrom ==
  ASSUME NEW x, NEW v, NoNul(x), NoNul(v), NEW c \in Nat
  PROVE  AgreeFrom(x, v, c)
<1>1. StartsWith(x, v, c) = (c \in Finds(x, v))
  <2>1. StartsWith(x, v, c) \in BOOLEAN /\ (StartsWith(x, v, c) <=> c \in Finds(x, v))
    BY StartsTruly DEF StartsWith
  <2>2. QED
    BY <2>1
<1>2. PICK after : after = {i \in Finds(x, v) : i >= c}
  OBVIOUS
<1>3. IndexOf(x, v, c) = IF after = {} THEN -1 ELSE Min(after)
  BY <1>2, FindsFirst
<1>4. PICK before : before = {i \in Finds(x, v) : i <= c}
  OBVIOUS
<1>5. LastIndexOf(x, v, c) = IF before = {} THEN -1 ELSE Max(before)
  BY <1>4, FindsLast
<1>6. Len(v) = 1 /\ c < Len(x) => IndexOfChar(x, v[1], c) = IndexOf(x, v, c)
  BY CharFirst
<1>7. Len(v) = 1 => LastIndexOfChar(x, v[1], c) = LastIndexOf(x, v, c)
  BY CharLast
<1>8. /\ Between(x, c, c + 1) = (IF c < Len(x) THEN <<x[c + 1]>> ELSE << >>)
      /\ GetBytes(x, c + 1, 0) = Append(Between(x, 0, c), NUL)
  BY NoNulIs, OneBetween, BytesBetween
<1>9. QED
  BY ONLY <1>1, <1>2, <1>3, <1>4, <1>5, <1>6, <1>7, <1>8, Zenon DEF AgreeFrom

\* What the calls that only look at a text answer fits together, for every text
\* without NUL that the calls may make and every value: a search, of a character or a
\* text, from either end, finds the first or the last place where substring() has the
\* value; startsWith, endsWith, the comparisons and getBytes agree with substring().
THEOREM CallsAgree == TextSpec => []AnswersAgree
<1>1. StringSound => AnswersAgree
  <2>1. SUFFICES ASSUME StringSound, s.text = CStr(s.text) PROVE AnswersAgree
    BY DEF AnswersAgree
  <2>2. PICK x : x = s.text
    OBVIOUS
  <2>3. NoNul(x)
    <3>1. x \in Text /\ CStr(x) = x
      BY <2>1, <2>2, NowIs
    <3>2. QED
      BY <3>1, CStrSame DEF NoNul
  <2>4. ASSUME NEW v \in Texts PROVE NoNul(v)
    BY <2>4, TextsAreTexts DEF NoNul
  <2>5. \A v \in Texts : AgreeOn(x, v)
    BY <2>3, <2>4, Agreed
  <2>6. \A v \in Texts : \A c \in Indexes : AgreeFrom(x, v, c)
    <3>1. Indexes \subseteq Nat
      BY <2>1, NowIs DEF Indexes
    <3>2. QED
      BY <2>3, <2>4, <3>1, AgreedFrom
  <2>7. /\ \A v \in Texts : AgreeOn(s.text, v)
        /\ \A v \in Texts : \A c \in Indexes : AgreeFrom(s.text, v, c)
    BY ONLY <2>2, <2>5, <2>6, Zenon
  <2>8. QED
    BY ONLY <2>7, Zenon DEF AnswersAgree, AgreeOn, AgreeFrom, Finds
<1>2. QED
  BY <1>1, StringIsSound, PTL

-----------------------------------------------------------------------------
(* Numbers as text: the digits of a number *)

\* Bases there are digits for.
DigitBases == 2 .. 16

LEMMA Divided ==
  ASSUME NEW b \in DigitBases, NEW v \in Nat
  PROVE  /\ v \div b \in Nat /\ v % b \in 0 .. b - 1
         /\ v = (v \div b) * b + (v % b)
         /\ v >= b => v \div b < v /\ v \div b >= 1
         /\ v < b => v \div b = 0 /\ v % b = v
<1>1. v \div b \in Nat /\ v % b \in 0 .. b - 1
  BY DEF DigitBases
<1>2. v % b = v - b * (v \div b)
  BY DEF DigitBases
<1>3. v = (v \div b) * b + (v % b)
  BY <1>1, <1>2 DEF DigitBases
<1>4. v >= b => v \div b < v /\ v \div b >= 1
  BY DEF DigitBases
<1>5. v < b => v \div b = 0 /\ v % b = v
  BY DEF DigitBases
<1>6. QED
  BY <1>1, <1>3, <1>4, <1>5

\* g has the digits of v in base b, given those of smaller numbers.
Writes(g, b, v) ==
  g[v] = IF v < b THEN <<Numbers!kDigits[v + 1]>>
         ELSE Append(g[v \div b], Numbers!kDigits[(v % b) + 1])
WritesAll(g, b, n) == \A v \in 0 .. n : Writes(g, b, v)
WritesUpTo(g, b, n) == g = [v \in 0 .. n |-> g[v]] /\ WritesAll(g, b, n)

LEMMA SameDigits ==
  ASSUME NEW b \in DigitBases, NEW n \in Nat, NEW m \in Nat, NEW g, NEW h,
         WritesAll(g, b, n), WritesAll(h, b, m)
  PROVE  \A v \in Nat : v <= n /\ v <= m => g[v] = h[v]
<1>1. PICK D : D = {v \in Nat : v <= n /\ v <= m /\ g[v] # h[v]}
  OBVIOUS
<1>2. SUFFICES ASSUME D # {} PROVE FALSE
  BY <1>1
<1>3. D \subseteq Nat
  BY <1>1
<1>4. PICK v \in D : \A w \in D : v <= w
  BY <1>2, <1>3, LeastNumber
<1>5. v \in Nat /\ v \in 0 .. n /\ v \in 0 .. m /\ g[v] # h[v] /\ v <= n /\ v <= m
  BY <1>1, <1>4
<1>6. Writes(g, b, v) /\ Writes(h, b, v)
  BY <1>5 DEF WritesAll
<1>7. ~(v < b)
  BY ONLY <1>5, <1>6, Zenon DEF Writes
<1>8. PICK d \in Nat : d = v \div b /\ d < v
  <2>1. v >= b
    BY <1>5, <1>7 DEF DigitBases
  <2>2. QED
    BY <1>5, <2>1, Divided
<1>9. d \notin D
  <2>1. ~(v <= d)
    BY <1>5, <1>8
  <2>2. QED
    BY <1>4, <2>1
<1>10. g[d] = h[d]
  <2>1. d <= n /\ d <= m
    BY <1>5, <1>8
  <2>2. QED
    BY <1>1, <1>9, <2>1
<1>11. QED
  BY ONLY <1>5, <1>6, <1>7, <1>8, <1>10, Zenon DEF Writes

LEMMA DigitsMore ==
  ASSUME NEW b \in DigitBases, NEW m \in Nat, m # 0, NEW g, WritesUpTo(g, b, m - 1)
  PROVE  \E h : WritesUpTo(h, b, m)
<1>1. PICK t : t = IF m < b THEN <<Numbers!kDigits[m + 1]>>
                   ELSE Append(g[m \div b], Numbers!kDigits[(m % b) + 1])
  OBVIOUS
<1>2. PICK h : h = [v \in 0 .. m |-> IF v = m THEN t ELSE g[v]]
  OBVIOUS
<1>3. h[m] = t /\ \A v \in 0 .. m : v # m => h[v] = g[v]
  BY <1>2
<1>4. \A v \in 0 .. m : v = m \/ v \in 0 .. m - 1
  OBVIOUS
<1>5. ASSUME NEW v \in 0 .. m PROVE Writes(h, b, v)
  <2>1. v \in Nat /\ v <= m /\ v \div b \in Nat
    BY Divided
  <2>2. ~(v < b) => v \div b \in 0 .. m - 1
    <3>1. SUFFICES ASSUME ~(v < b) PROVE v \div b \in 0 .. m - 1
      OBVIOUS
    <3>2. v >= b
      BY <2>1, <3>1 DEF DigitBases
    <3>3. v \div b < v
      BY <2>1, <3>2, Divided
    <3>4. PICK d \in Nat : d = v \div b
      BY <2>1
    <3>5. QED
      BY <2>1, <3>3, <3>4
  <2>3. ~(v < b) => h[v \div b] = g[v \div b]
    <3>1. \A w \in 0 .. m - 1 : w \in 0 .. m /\ w # m
      OBVIOUS
    <3>2. QED
      BY <1>3, <2>2, <3>1
  <2>4. CASE v = m
    BY ONLY <1>1, <1>3, <2>3, <2>4, Zenon DEF Writes
  <2>5. CASE v # m
    <3>1. Writes(g, b, v) /\ h[v] = g[v]
      BY <1>3, <1>4, <2>5 DEF WritesUpTo, WritesAll
    <3>2. QED
      BY ONLY <2>3, <3>1, Zenon DEF Writes
  <2>6. QED
    BY <2>4, <2>5
<1>6. h = [v \in 0 .. m |-> h[v]]
  BY <1>2
<1>7. QED
  BY <1>5, <1>6 DEF WritesUpTo, WritesAll

LEMMA DigitsUpTo ==
  ASSUME NEW b \in DigitBases, NEW n \in Nat
  PROVE  \E g : WritesUpTo(g, b, n)
<1>1. \E g : WritesUpTo(g, b, 0)
  <2>1. PICK g : g = [v \in 0 .. 0 |-> <<Numbers!kDigits[1]>>]
    OBVIOUS
  <2>2. g = [v \in 0 .. 0 |-> g[v]] /\ g[0] = <<Numbers!kDigits[1]>> /\ (\A v \in 0 .. 0 : v = 0) /\ 0 + 1 = 1 /\ 0 < b
    BY <2>1 DEF DigitBases
  <2>3. Writes(g, b, 0)
    BY ONLY <2>2, Zenon DEF Writes
  <2>4. WritesUpTo(g, b, 0)
    BY <2>2, <2>3 DEF WritesUpTo, WritesAll
  <2>5. QED
    BY <2>4
<1>2. PICK M : M = {m \in Nat : \A g : ~WritesUpTo(g, b, m)}
  OBVIOUS
<1>3. SUFFICES ASSUME M # {} PROVE FALSE
  BY <1>2
<1>4. M \subseteq Nat
  BY <1>2
<1>5. PICK m \in M : \A j \in M : m <= j
  BY <1>3, <1>4, LeastNumber
<1>6. m \in Nat /\ (\A g : ~WritesUpTo(g, b, m)) /\ m # 0
  BY <1>1, <1>2, <1>5
<1>7. m - 1 \in Nat /\ ~(m <= m - 1)
  BY <1>6
<1>8. PICK g : WritesUpTo(g, b, m - 1)
  BY <1>2, <1>5, <1>7
<1>9. QED
  BY <1>6, <1>8, DigitsMore

\* The digits of a number: those of a b-th of it, and one more.
LEMMA DigitsAre ==
  ASSUME NEW b \in DigitBases
  PROVE  \E f : (\A v \in Nat : Writes(f, b, v)) /\ \A v \in Nat : Numbers!Digits(v, b) = f[v]
<1> DEFINE Equation(f) ==
       f = [v \in Nat |-> IF v < b THEN <<Numbers!kDigits[v + 1]>>
                          ELSE Append(f[v \div b], Numbers!kDigits[(v % b) + 1])]
<1>1. PICK G : \A n \in Nat : WritesUpTo(G[n], b, n)
  <2>1. PICK G : G = [n \in Nat |-> CHOOSE g : WritesUpTo(g, b, n)]
    OBVIOUS
  <2>2. ASSUME NEW n \in Nat PROVE WritesUpTo(G[n], b, n)
    <3>1. \E g : WritesUpTo(g, b, n)
      BY DigitsUpTo
    <3>2. G[n] = CHOOSE g : WritesUpTo(g, b, n)
      BY <2>1
    <3>3. QED
      BY ONLY <3>1, <3>2, Zenon
  <2>3. QED
    BY <2>2
<1>2. PICK h : h = [v \in Nat |-> G[v][v]]
  OBVIOUS
<1>3. ASSUME NEW v \in Nat PROVE Writes(h, b, v)
  <2>1. h[v] = G[v][v] /\ v \in 0 .. v
    BY <1>2
  <2>2. Writes(G[v], b, v)
    BY <1>1, <2>1 DEF WritesUpTo, WritesAll
  <2>3. ~(v < b) => h[v \div b] = G[v][v \div b]
    <3>1. SUFFICES ASSUME ~(v < b) PROVE h[v \div b] = G[v][v \div b]
      OBVIOUS
    <3>2. v >= b
      BY <3>1 DEF DigitBases
    <3>3. PICK d \in Nat : d = v \div b /\ d < v
      BY <3>2, Divided
    <3>4. WritesAll(G[d], b, d) /\ WritesAll(G[v], b, v)
      BY <1>1 DEF WritesUpTo
    <3>5. G[d][d] = G[v][d]
      <4>1. d <= d /\ d <= v
        BY <3>3
      <4>2. QED
        BY <3>4, <4>1, SameDigits
    <3>6. QED
      BY <1>2, <3>3, <3>5
  <2>4. QED
    BY ONLY <2>1, <2>2, <2>3, Zenon DEF Writes
<1>4. Equation(h)
  <2>1. h = [v \in Nat |-> h[v]]
    BY <1>2
  <2>2. \A v \in Nat : h[v] = IF v < b THEN <<Numbers!kDigits[v + 1]>>
                              ELSE Append(h[v \div b], Numbers!kDigits[(v % b) + 1])
    BY ONLY <1>3, Zenon DEF Writes
  <2>3. QED
    BY ONLY <2>1, <2>2, Zenon
<1>5. PICK f : Equation(f) /\ \A v : Numbers!Digits(v, b) = f[v]
  <2>1. \A v : Numbers!Digits(v, b) = (CHOOSE f : Equation(f))[v]
    BY Zenon DEF Numbers!Digits
  <2> HIDE DEF Equation
  <2>2. Equation(CHOOSE f : Equation(f))
    BY <1>4, Zenon
  <2>3. QED
    BY <2>1, <2>2, Zenon
<1>6. \A v \in Nat : Writes(f, b, v)
  <2>1. f = [v \in Nat |-> IF v < b THEN <<Numbers!kDigits[v + 1]>>
                           ELSE Append(f[v \div b], Numbers!kDigits[(v % b) + 1])]
    BY <1>5
  <2>2. QED
    BY ONLY <2>1, Zenon DEF Writes
<1>7. QED
  BY <1>5, <1>6

-----------------------------------------------------------------------------
(* What digits stand for *)

LEMMA LargestIs ==
  ASSUME NEW n \in Nat, NEW S, S \subseteq 1 .. n, S # {}
  PROVE  Numbers!Max(S) \in S /\ \A y \in S : y <= Numbers!Max(S)
<1>1. PICK T : T = {m \in 0 .. n : n - m \in S}
  OBVIOUS
<1>2. T \subseteq Nat /\ T # {}
  <2>1. PICK y \in S : TRUE
    OBVIOUS
  <2>2. n - y \in 0 .. n /\ n - (n - y) = y
    OBVIOUS
  <2>3. n - y \in T
    BY <1>1, <2>1, <2>2
  <2>4. T \subseteq Nat
    BY <1>1
  <2>5. QED
    BY <2>3, <2>4
<1>3. PICK x \in T : \A y \in T : x <= y
  BY <1>2, LeastNumber
<1>4. n - x \in S /\ x \in 0 .. n
  BY <1>1
<1>5. ASSUME NEW y \in S PROVE n - x >= y
  <2>1. n - y \in 0 .. n /\ n - (n - y) = y /\ y \in Nat
    OBVIOUS
  <2>2. n - y \in T
    BY <1>1, <2>1
  <2>3. x <= n - y
    BY <1>3, <2>2
  <2>4. QED
    BY <1>4, <2>1, <2>3
<1>6. \E z \in S : \A y \in S : z >= y
  BY <1>4, <1>5
<1>7. PICK z : z = Numbers!Max(S)
  OBVIOUS
<1>8. z \in S /\ \A y \in S : z >= y
  BY <1>6, <1>7 DEF Numbers!Max
<1>9. \A y \in S : y <= z
  BY <1>8
<1>10. QED
  BY <1>7, <1>8, <1>9

\* One more digit.
More(value, c, b) == value * b + Numbers!DigitValue(c)

\* g has the number that the digits of t at the places s stand for, given those at
\* fewer places.
Folds(g, t, b, set) ==
  g[set] = IF set = {} THEN 0 ELSE More(g[set \ {Numbers!Max(set)}], t[Numbers!Max(set)], b)
FoldsUpTo(g, t, b, n) ==
  /\ g = [set \in SUBSET (1 .. n) |-> g[set]]
  /\ \A set \in SUBSET (1 .. n) : Folds(g, t, b, set)

LEMMA FoldsMore ==
  ASSUME NEW t, NEW b, NEW m \in Nat, m # 0, NEW g, FoldsUpTo(g, t, b, m - 1)
  PROVE  \E h : FoldsUpTo(h, t, b, m)
<1>1. PICK h : h = [set \in SUBSET (1 .. m) |-> IF m \in set THEN More(g[set \ {m}], t[m], b) ELSE g[set]]
  OBVIOUS
<1>2. h = [set \in SUBSET (1 .. m) |-> h[set]]
  BY <1>1
<1>3. ASSUME NEW set \in SUBSET (1 .. m), m \notin set
      PROVE  set \in SUBSET (1 .. m - 1) /\ h[set] = g[set]
  <2>1. ASSUME NEW x \in set PROVE x \in 1 .. m - 1
    <3>1. x \in 1 .. m /\ x # m
      BY <1>3
    <3>2. QED
      BY <3>1
  <2>2. h[set] = g[set]
    BY <1>1, <1>3
  <2>3. QED
    BY <2>1, <2>2
<1>4. ASSUME NEW set \in SUBSET (1 .. m) PROVE Folds(h, t, b, set)
  <2>1. CASE m \in set
    <3>1. Numbers!Max(set) = m
      <4>1. Numbers!Max(set) \in set /\ \A y \in set : y <= Numbers!Max(set)
        BY <2>1, LargestIs
      <4>2. Numbers!Max(set) \in 1 .. m /\ m <= Numbers!Max(set)
        BY <2>1, <4>1
      <4>3. QED
        BY <4>2
    <3>2. set \ {m} \in SUBSET (1 .. m) /\ m \notin set \ {m}
      OBVIOUS
    <3>3. h[set \ {m}] = g[set \ {m}]
      BY <1>3, <3>2
    <3>4. h[set] = More(g[set \ {m}], t[m], b)
      BY <1>1, <2>1
    <3>5. set # {}
      BY <2>1
    <3>6. QED
      BY ONLY <3>1, <3>3, <3>4, <3>5, Zenon DEF Folds
  <2>2. CASE m \notin set
    <3>1. set \in SUBSET (1 .. m - 1) /\ h[set] = g[set] /\ Folds(g, t, b, set)
      BY <1>3, <2>2 DEF FoldsUpTo
    <3>2. PICK r : r = set \ {Numbers!Max(set)}
      OBVIOUS
    <3>3. r \in SUBSET (1 .. m) /\ m \notin r
      BY <2>2, <3>2
    <3>4. h[r] = g[r]
      BY <1>3, <3>3
    <3>5. QED
      BY ONLY <3>1, <3>2, <3>4, Zenon DEF Folds
  <2>3. QED
    BY <2>1, <2>2
<1>5. QED
  BY <1>2, <1>4 DEF FoldsUpTo

LEMMA FoldsExist ==
  ASSUME NEW t, NEW b, NEW n \in Nat
  PROVE  \E g : FoldsUpTo(g, t, b, n)
<1>1. \E g : FoldsUpTo(g, t, b, 0)
  <2>1. PICK g : g = [set \in SUBSET (1 .. 0) |-> 0]
    OBVIOUS
  <2>2. g = [set \in SUBSET (1 .. 0) |-> g[set]] /\ \A set \in SUBSET (1 .. 0) : g[set] = 0
    BY <2>1
  <2>3. \A set \in SUBSET (1 .. 0) : set = {}
    <3>1. 1 .. 0 = {}
      OBVIOUS
    <3>2. QED
      BY <3>1
  <2>4. \A set \in SUBSET (1 .. 0) : Folds(g, t, b, set)
    BY ONLY <2>2, <2>3, Zenon DEF Folds
  <2>5. FoldsUpTo(g, t, b, 0)
    BY <2>2, <2>4 DEF FoldsUpTo
  <2>6. QED
    BY <2>5
<1>2. PICK M : M = {m \in Nat : \A g : ~FoldsUpTo(g, t, b, m)}
  OBVIOUS
<1>3. SUFFICES ASSUME M # {} PROVE FALSE
  BY <1>2
<1>4. M \subseteq Nat
  BY <1>2
<1>5. PICK m \in M : \A j \in M : m <= j
  BY <1>3, <1>4, LeastNumber
<1>6. m \in Nat /\ (\A g : ~FoldsUpTo(g, t, b, m)) /\ m # 0
  BY <1>1, <1>2, <1>5
<1>7. m - 1 \in Nat /\ ~(m <= m - 1)
  BY <1>6
<1>8. PICK g : FoldsUpTo(g, t, b, m - 1)
  BY <1>2, <1>5, <1>7
<1>9. QED
  BY <1>6, <1>8, FoldsMore

\* r[k] is the number that the first k characters of t stand for.
Steps(r, t, b) == r[0] = 0 /\ \A k \in 1 .. Len(t) : r[k] = More(r[k - 1], t[k], b)

\* Reads by the number of digits that are read.
LEMMA ReadsIs ==
  ASSUME NEW S, NEW t \in Seq(S), NEW b
  PROVE  \E r : Steps(r, t, b) /\ Numbers!Reads(t, b) = r[Len(t)]
<1>1. PICK n \in Nat : n = Len(t) /\ DOMAIN t = 1 .. n
  OBVIOUS
<1> DEFINE Equation(f) ==
       f = [set \in SUBSET (1 .. n) |->
              IF set = {} THEN 0
              ELSE f[set \ {Numbers!Max(set)}] * b + Numbers!DigitValue(t[Numbers!Max(set)])]
<1>2. PICK g : FoldsUpTo(g, t, b, n)
  BY FoldsExist
<1>3. Equation(g)
  <2>1. g = [set \in SUBSET (1 .. n) |-> g[set]]
    BY <1>2 DEF FoldsUpTo
  <2>2. \A set \in SUBSET (1 .. n) : Folds(g, t, b, set)
    BY <1>2 DEF FoldsUpTo
  <2>3. \A set \in SUBSET (1 .. n) : g[set] = IF set = {} THEN 0
              ELSE g[set \ {Numbers!Max(set)}] * b + Numbers!DigitValue(t[Numbers!Max(set)])
    BY ONLY <2>2, Zenon DEF Folds, More
  <2>4. QED
    BY ONLY <2>1, <2>3, Zenon
<1>4. PICK f : Equation(f) /\ Numbers!Reads(t, b) = f[1 .. n]
  <2>1. Numbers!Reads(t, b) = (CHOOSE f : Equation(f))[1 .. n]
    BY <1>1, Zenon DEF Numbers!Reads, Numbers!FoldLeft, Numbers!MapThenFoldSet
  <2> HIDE DEF Equation
  <2>2. Equation(CHOOSE f : Equation(f))
    BY <1>3, Zenon
  <2>3. QED
    BY <2>1, <2>2, Zenon
<1>5. \A set \in SUBSET (1 .. n) : Folds(f, t, b, set)
  <2>1. f = [set \in SUBSET (1 .. n) |->
              IF set = {} THEN 0
              ELSE f[set \ {Numbers!Max(set)}] * b + Numbers!DigitValue(t[Numbers!Max(set)])]
    BY <1>4
  <2>2. QED
    BY ONLY <2>1, Zenon DEF Folds, More
<1> HIDE DEF Equation
<1>6. PICK r : r = [k \in 0 .. n |-> f[1 .. k]]
  OBVIOUS
<1>7. \A k \in 0 .. n : r[k] = f[1 .. k]
  BY <1>6
<1>8. r[0] = 0
  <2>1. 1 .. 0 = {} /\ {} \in SUBSET (1 .. n) /\ 0 \in 0 .. n
    OBVIOUS
  <2>2. Folds(f, t, b, {})
    BY <1>5, <2>1
  <2>3. f[{}] = 0
    BY ONLY <2>2, Zenon DEF Folds
  <2>4. QED
    BY ONLY <1>7, <2>1, <2>3, Zenon
<1>9. ASSUME NEW k \in 1 .. n PROVE r[k] = More(r[k - 1], t[k], b)
  <2>1. PICK set : set = 1 .. k
    OBVIOUS
  <2>2. set \in SUBSET (1 .. n) /\ set # {} /\ k \in set /\ k \in Nat
    <3>1. k \in Nat /\ k \in 1 .. k /\ 1 .. k \subseteq 1 .. n
      OBVIOUS
    <3>2. QED
      BY ONLY <2>1, <3>1, Zenon
  <2>3. Numbers!Max(set) = k
    <3>1. set \subseteq 1 .. k
      BY <2>1
    <3>2. Numbers!Max(set) \in set /\ \A y \in set : y <= Numbers!Max(set)
      BY <2>2, <3>1, LargestIs
    <3>3. Numbers!Max(set) \in 1 .. k /\ k <= Numbers!Max(set)
      BY <2>1, <2>2, <3>2
    <3>4. QED
      BY <3>3
  <2>4. set \ {k} = 1 .. k - 1
    BY <2>1
  <2>5. Folds(f, t, b, set)
    BY <1>5, <2>2
  <2>6. f[set] = More(f[1 .. k - 1], t[k], b)
    BY ONLY <2>2, <2>3, <2>4, <2>5, Zenon DEF Folds
  <2>7. k \in 0 .. n /\ k - 1 \in 0 .. n
    BY <1>1
  <2>8. QED
    BY ONLY <1>7, <2>1, <2>6, <2>7, Zenon
<1>10. n \in 0 .. n
  BY <1>1
<1>11. Steps(r, t, b)
  BY <1>1, <1>8, <1>9 DEF Steps
<1>12. QED
  BY <1>1, <1>4, <1>7, <1>10, <1>11

LEMMA DigitsDiffer ==
  \A i \in 1 .. 16 : \A j \in 1 .. 16 : Numbers!kDigits[i] = Numbers!kDigits[j] => i = j
BY DEF Numbers!kDigits

LEMMA FirstDigit == Numbers!kDigits[1] = "0"
BY DEF Numbers!kDigits

Digit == {Numbers!kDigits[i] : i \in 1 .. 16}

LEMMA OneOf == ASSUME NEW S, NEW c \in S PROVE <<c>> \in Seq(S)
OBVIOUS

LEMMA ValueOfDigit ==
  ASSUME NEW i \in 1 .. 16
  PROVE  Numbers!DigitValue(Numbers!kDigits[i]) = i - 1
<1>1. PICK c : c = Numbers!kDigits[i]
  OBVIOUS
<1>2. PICK x : x = CHOOSE j \in 1 .. 16 : Numbers!kDigits[j] = c
  OBVIOUS
<1>3. x \in 1 .. 16 /\ Numbers!kDigits[x] = c
  BY <1>1, <1>2, Zenon
<1>4. x = i
  BY <1>1, <1>3, DigitsDiffer
<1>5. QED
  BY ONLY <1>1, <1>2, <1>4, Zenon DEF Numbers!DigitValue

\* A text with one more character is read as far as without it.
LEMMA SameSteps ==
  ASSUME NEW S, NEW t \in Seq(S), NEW c \in S, NEW b, NEW r, NEW q,
         Steps(r, t, b), Steps(q, Append(t, c), b)
  PROVE  \A k \in 0 .. Len(t) : r[k] = q[k]
<1>1. PICK n \in Nat : n = Len(t)
  OBVIOUS
<1>2. PICK u : u = Append(t, c)
  OBVIOUS
<1>3. Len(u) = n + 1 /\ \A k \in 1 .. n : u[k] = t[k]
  BY <1>1, <1>2
<1>4. PICK D : D = {k \in 0 .. n : r[k] # q[k]}
  OBVIOUS
<1>5. SUFFICES ASSUME D # {} PROVE FALSE
  BY <1>1, <1>4
<1>6. D \subseteq Nat
  BY <1>4
<1>7. PICK k \in D : \A j \in D : k <= j
  BY <1>5, <1>6, LeastNumber
<1>8. k \in 0 .. n /\ r[k] # q[k] /\ r[0] = q[0]
  BY <1>4, <1>7 DEF Steps
<1>9. k \in 1 .. n /\ k \in 1 .. n + 1 /\ k - 1 \in 0 .. n /\ ~(k <= k - 1)
  BY <1>8
<1>10. r[k - 1] = q[k - 1]
  <2>1. k - 1 \notin D
    BY <1>7, <1>9
  <2>2. QED
    BY <1>4, <1>9, <2>1
<1>11. r[k] = More(r[k - 1], t[k], b) /\ q[k] = More(q[k - 1], u[k], b)
  <2>1. \A j \in 1 .. n : r[j] = More(r[j - 1], t[j], b)
    BY <1>1, Zenon DEF Steps
  <2>2. \A j \in 1 .. n + 1 : q[j] = More(q[j - 1], u[j], b)
    BY <1>2, <1>3, Zenon DEF Steps
  <2>3. QED
    BY ONLY <1>9, <2>1, <2>2, Zenon
<1>12. u[k] = t[k]
  BY <1>3, <1>9
<1>13. QED
  BY ONLY <1>8, <1>10, <1>11, <1>12, Zenon

\* One more digit behind a text.
LEMMA ReadsOneMore ==
  ASSUME NEW S, NEW t \in Seq(S), NEW c \in S, NEW b
  PROVE  Numbers!Reads(Append(t, c), b) = More(Numbers!Reads(t, b), c, b)
<1>1. PICK n \in Nat : n = Len(t)
  OBVIOUS
<1>2. PICK u : u = Append(t, c)
  OBVIOUS
<1>3. u \in Seq(S) /\ Len(u) = n + 1 /\ u[n + 1] = c
  BY <1>1, <1>2
<1>4. PICK r : Steps(r, t, b) /\ Numbers!Reads(t, b) = r[n]
  BY <1>1, ReadsIs
<1>5. PICK q : Steps(q, u, b) /\ Numbers!Reads(u, b) = q[n + 1]
  BY <1>3, ReadsIs
<1>6. r[n] = q[n]
  <2>1. n \in 0 .. Len(t)
    BY <1>1
  <2>2. QED
    BY <1>2, <1>4, <1>5, <2>1, SameSteps
<1>7. q[n + 1] = More(q[n], c, b)
  <2>1. n + 1 \in 1 .. n + 1 /\ (n + 1) - 1 = n
    BY <1>1
  <2>2. \A j \in 1 .. n + 1 : q[j] = More(q[j - 1], u[j], b)
    BY <1>3, <1>5, Zenon DEF Steps
  <2>3. q[n + 1] = More(q[(n + 1) - 1], u[n + 1], b)
    BY ONLY <2>1, <2>2, Zenon
  <2>4. QED
    BY ONLY <1>3, <2>1, <2>3, Zenon
<1>8. QED
  BY ONLY <1>2, <1>4, <1>5, <1>6, <1>7, Zenon

LEMMA ReadsOne ==
  ASSUME NEW c, NEW b
  PROVE  Numbers!Reads(<<c>>, b) = More(0, c, b)
<1>1. PICK t : t = <<c>>
  OBVIOUS
<1>2. t \in Seq({c}) /\ Len(t) = 1 /\ t[1] = c
  BY <1>1
<1>3. PICK r : Steps(r, t, b) /\ Numbers!Reads(t, b) = r[1]
  BY <1>2, ReadsIs
<1>4. 1 \in 1 .. 1 /\ 1 - 1 = 0
  OBVIOUS
<1>5. r[0] = 0 /\ \A k \in 1 .. 1 : r[k] = More(r[k - 1], t[k], b)
  BY <1>2, <1>3, Zenon DEF Steps
<1>6. r[1] = More(r[1 - 1], t[1], b)
  BY ONLY <1>4, <1>5, Zenon
<1>7. QED
  BY ONLY <1>1, <1>2, <1>3, <1>4, <1>5, <1>6, Zenon

\* d is v in base b, without leading zeros.
Denotes(d, b, v) ==
  /\ d \in Seq(Digit) /\ d # << >> /\ (v >= 1 => d[1] # "0")
  /\ Numbers!ReadsAs(d, b, v)

LEMMA OneDigit ==
  ASSUME NEW b \in DigitBases, NEW v \in Nat, v < b
  PROVE  Denotes(<<Numbers!kDigits[v + 1]>>, b, v)
<1>1. v + 1 \in 1 .. b /\ v + 1 \in 1 .. 16 /\ 1 \in 1 .. 16 /\ (v + 1) - 1 = v
  BY DEF DigitBases
<1>2. PICK c \in Digit : c = Numbers!kDigits[v + 1]
  BY <1>1 DEF Digit
<1>3. PICK d : d = <<c>>
  OBVIOUS
<1>4. d \in Seq(Digit) /\ d # << >> /\ Len(d) = 1 /\ DOMAIN d = 1 .. 1 /\ d[1] = c
  <2>1. Len(d) = 1 /\ d[1] = c
    BY <1>3
  <2>2. d \in Seq(Digit)
    BY <1>3, OneOf
  <2>3. d # << >> /\ DOMAIN d = 1 .. 1
    BY <2>1, <2>2
  <2>4. QED
    BY <2>1, <2>2, <2>3
<1>5. v >= 1 => d[1] # "0"
  <2>1. ASSUME d[1] = "0" PROVE v + 1 = 1
    BY <1>1, <1>2, <1>4, <2>1, FirstDigit, DigitsDiffer
  <2>2. QED
    BY <2>1
<1>6. Numbers!IsNumber(d, b)
  <2>1. \A i \in DOMAIN d : \E k \in 1 .. b : Numbers!kDigits[k] = d[i]
    <3>1. \A i \in 1 .. 1 : i = 1
      OBVIOUS
    <3>2. QED
      BY ONLY <1>1, <1>2, <1>4, <3>1, Zenon
  <2>2. ~(Len(d) > 1)
    BY <1>4
  <2>3. QED
    BY ONLY <1>4, <2>1, <2>2, Zenon DEF Numbers!IsNumber
<1>7. Numbers!Reads(d, b) = v
  <2>1. Numbers!Reads(d, b) = More(0, c, b)
    BY <1>3, ReadsOne
  <2>2. Numbers!DigitValue(c) = v
    BY <1>1, <1>2, ValueOfDigit
  <2>3. More(0, c, b) = 0 * b + v
    BY ONLY <2>2, Zenon DEF More
  <2>4. 0 * b + v = v
    BY DEF DigitBases
  <2>5. QED
    BY ONLY <2>1, <2>3, <2>4, Zenon
<1>8. QED
  BY ONLY <1>2, <1>3, <1>4, <1>5, <1>6, <1>7, Zenon DEF Denotes, Numbers!ReadsAs

LEMMA OneMoreDigit ==
  ASSUME NEW b \in DigitBases, NEW v \in Nat, v >= b, NEW e, Denotes(e, b, v \div b)
  PROVE  Denotes(Append(e, Numbers!kDigits[(v % b) + 1]), b, v)
<1>1. PICK w \in Nat, x \in Nat : w = v \div b /\ x = v % b /\ x + 1 \in 1 .. b /\ w >= 1
  <2>1. v \div b \in Nat /\ v % b \in 0 .. b - 1 /\ v \div b >= 1
    BY Divided
  <2>2. (v % b) \in Nat /\ (v % b) + 1 \in 1 .. b
    BY <2>1 DEF DigitBases
  <2>3. QED
    BY <2>1, <2>2
<1>2. x + 1 \in 1 .. 16 /\ (x + 1) - 1 = x
  BY <1>1 DEF DigitBases
<1>3. PICK c \in Digit : c = Numbers!kDigits[x + 1]
  BY <1>2 DEF Digit
<1>4. e \in Seq(Digit) /\ e # << >> /\ e[1] # "0" /\ Numbers!ReadsAs(e, b, w)
  BY <1>1 DEF Denotes
<1>5. PICK m \in Nat : m = Len(e) /\ m >= 1
  BY <1>4
<1>6. PICK d : d = Append(e, c)
  OBVIOUS
<1>7. d \in Seq(Digit) /\ Len(d) = m + 1 /\ (\A i \in 1 .. m : d[i] = e[i]) /\ d[m + 1] = c
  BY <1>4, <1>5, <1>6
<1>8. d # << >> /\ d[1] # "0"
  <2>1. 1 \in 1 .. m
    BY <1>5
  <2>2. d[1] # "0"
    BY <1>4, <1>7, <2>1
  <2>3. Len(d) # 0
    BY <1>7
  <2>4. QED
    BY <2>2, <2>3
<1>9. Numbers!IsNumber(d, b)
  <2>1. ASSUME NEW i \in DOMAIN d PROVE \E k \in 1 .. b : Numbers!kDigits[k] = d[i]
    <3>1. i \in 1 .. m \/ i = m + 1
      BY <1>7
    <3>2. CASE i \in 1 .. m
      <4>1. i \in DOMAIN e
        BY <1>4, <1>5, <3>2
      <4>2. \E k \in 1 .. b : Numbers!kDigits[k] = e[i]
        BY <1>4, <4>1, Zenon DEF Numbers!ReadsAs, Numbers!IsNumber
      <4>3. QED
        BY <1>7, <3>2, <4>2
    <3>3. CASE i = m + 1
      BY ONLY <1>1, <1>3, <1>7, <3>3, Zenon
    <3>4. QED
      BY <3>1, <3>2, <3>3
  <2>2. QED
    BY ONLY <1>8, <2>1, Zenon DEF Numbers!IsNumber
<1>10. Numbers!Reads(d, b) = v
  <2>1. Numbers!Reads(e, b) = w
    BY <1>4 DEF Numbers!ReadsAs
  <2>2. Numbers!Reads(d, b) = More(w, c, b)
    BY <1>4, <1>6, <2>1, ReadsOneMore
  <2>3. Numbers!DigitValue(c) = x
    BY <1>2, <1>3, ValueOfDigit
  <2>4. More(w, c, b) = w * b + x
    BY ONLY <2>3, Zenon DEF More
  <2>5. v = (v \div b) * b + (v % b)
    BY Divided
  <2>6. v = w * b + x
    <3>1. (v \div b) * b + (v % b) = w * b + x
      BY ONLY <1>1, Zenon
    <3>2. QED
      BY ONLY <2>5, <3>1, Zenon
  <2>7. QED
    BY ONLY <2>2, <2>4, <2>6, Zenon
<1>11. Denotes(d, b, v)
  BY ONLY <1>7, <1>8, <1>9, <1>10, Zenon DEF Denotes, Numbers!ReadsAs
<1>12. QED
  BY ONLY <1>1, <1>3, <1>6, <1>11, Zenon

\* What is written in a base is read back in it, whatever the number.
LEMMA DigitsDenote ==
  ASSUME NEW b \in DigitBases, NEW v \in Nat
  PROVE  Denotes(Numbers!Digits(v, b), b, v)
<1>1. PICK f : (\A n \in Nat : Writes(f, b, n)) /\ \A n \in Nat : Numbers!Digits(n, b) = f[n]
  BY DigitsAre
<1>2. PICK D : D = {n \in Nat : ~Denotes(f[n], b, n)}
  OBVIOUS
<1>3. D = {}
  <2>1. SUFFICES ASSUME D # {} PROVE FALSE
    OBVIOUS
  <2>2. D \subseteq Nat
    BY <1>2
  <2>3. PICK n \in D : \A m \in D : n <= m
    BY <2>1, <2>2, LeastNumber
  <2>4. n \in Nat /\ ~Denotes(f[n], b, n) /\ Writes(f, b, n)
    BY <1>1, <1>2, <2>3
  <2>5. CASE n < b
    <3>1. f[n] = <<Numbers!kDigits[n + 1]>>
      BY ONLY <2>4, <2>5, Zenon DEF Writes
    <3>2. Denotes(<<Numbers!kDigits[n + 1]>>, b, n)
      BY <2>4, <2>5, OneDigit
    <3>3. QED
      BY ONLY <2>4, <3>1, <3>2, Zenon
  <2>6. CASE ~(n < b)
    <3>1. n >= b
      BY <2>4, <2>6 DEF DigitBases
    <3>2. f[n] = Append(f[n \div b], Numbers!kDigits[(n % b) + 1])
      BY ONLY <2>4, <2>6, Zenon DEF Writes
    <3>3. n \div b \in Nat /\ n \div b < n
      BY <2>4, <3>1, Divided
    <3>4. n \div b \notin D
      <4>1. PICK d \in Nat : d = n \div b
        BY <3>3
      <4>2. ~(n <= d)
        BY <2>4, <3>3, <4>1
      <4>3. QED
        BY <2>3, <4>1, <4>2
    <3>5. Denotes(f[n \div b], b, n \div b)
      BY <1>2, <3>3, <3>4
    <3>6. Denotes(Append(f[n \div b], Numbers!kDigits[(n % b) + 1]), b, n)
      BY <2>4, <3>1, <3>5, OneMoreDigit
    <3>7. QED
      BY ONLY <2>4, <3>2, <3>6, Zenon
  <2>7. QED
    BY <2>5, <2>6
<1>4. Denotes(f[v], b, v)
  BY <1>2, <1>3
<1>5. QED
  BY <1>1, <1>4

-----------------------------------------------------------------------------
(* Repeated steps *)

\* g has x0 and what F makes of it again and again, n times.
Repeats(g, D, x0, F, n) ==
  /\ g \in [0 .. n -> D] /\ g[0] = x0
  /\ \A k \in 0 .. n : k # 0 => g[k] = F[g[k - 1]]

LEMMA RepeatsSame ==
  ASSUME NEW D, NEW x0, NEW F, NEW n \in Nat, NEW m \in Nat, n <= m,
         NEW g, NEW h, Repeats(g, D, x0, F, n), Repeats(h, D, x0, F, m)
  PROVE  g[n] = h[n]
<1>1. PICK B : B = {k \in 0 .. n : g[k] # h[k]}
  OBVIOUS
<1>2. SUFFICES ASSUME B # {} PROVE FALSE
  BY <1>1
<1>3. B \subseteq Nat
  BY <1>1
<1>4. PICK k \in B : \A j \in B : k <= j
  BY <1>2, <1>3, LeastNumber
<1>5. k \in 0 .. n /\ g[k] # h[k] /\ k # 0
  BY <1>1, <1>4 DEF Repeats
<1>6. k - 1 \in 0 .. n /\ ~(k <= k - 1) /\ k \in 0 .. m
  BY <1>5
<1>7. g[k - 1] = h[k - 1]
  <2>1. k - 1 \notin B
    BY <1>4, <1>6
  <2>2. QED
    BY <1>1, <1>6, <2>1
<1>8. g[k] = F[g[k - 1]] /\ h[k] = F[h[k - 1]]
  BY ONLY Repeats(g, D, x0, F, n), Repeats(h, D, x0, F, m), <1>5, <1>6, Zenon DEF Repeats
<1>9. QED
  BY ONLY <1>5, <1>7, <1>8, Zenon

LEMMA RepeatsMore ==
  ASSUME NEW D, NEW x0 \in D, NEW F \in [D -> D], NEW n \in Nat, n # 0,
         NEW g, Repeats(g, D, x0, F, n - 1)
  PROVE  \E h : Repeats(h, D, x0, F, n)
<1>1. PICK h : h = [k \in 0 .. n |-> IF k = n THEN F[g[n - 1]] ELSE g[k]]
  OBVIOUS
<1>2. n - 1 \in 0 .. n - 1 /\ g \in [0 .. n - 1 -> D] /\ g[0] = x0
  BY DEF Repeats
<1>3. F[g[n - 1]] \in D
  BY <1>2
<1>4. ASSUME NEW k \in 0 .. n, k # n PROVE k \in 0 .. n - 1 /\ g[k] \in D /\ h[k] = g[k]
  <2>1. k \in 0 .. n - 1
    BY <1>4
  <2>2. QED
    BY <1>1, <1>2, <1>4, <2>1
<1>5. h[n] = F[g[n - 1]]
  BY <1>1
<1>6. h \in [0 .. n -> D]
  BY <1>1, <1>3, <1>4
<1>7. h[0] = x0
  <2>1. 0 \in 0 .. n /\ 0 # n
    OBVIOUS
  <2>2. QED
    BY <1>2, <1>4, <2>1
<1>8. ASSUME NEW k \in 0 .. n, k # 0 PROVE h[k] = F[h[k - 1]]
  <2>1. k - 1 \in 0 .. n /\ k - 1 # n
    BY <1>8
  <2>2. h[k - 1] = g[k - 1]
    BY <1>4, <2>1
  <2>3. CASE k = n
    BY <1>5, <2>2, <2>3
  <2>4. CASE k # n
    <3>1. k \in 0 .. n - 1 /\ h[k] = g[k]
      BY <1>4, <2>4
    <3>2. g[k] = F[g[k - 1]]
      BY <1>8, <3>1 DEF Repeats
    <3>3. QED
      BY ONLY <2>2, <3>1, <3>2, Zenon
  <2>5. QED
    BY <2>3, <2>4
<1>9. QED
  BY <1>6, <1>7, <1>8 DEF Repeats

LEMMA RepeatsUpTo ==
  ASSUME NEW D, NEW x0 \in D, NEW F \in [D -> D], NEW n \in Nat
  PROVE  \E g : Repeats(g, D, x0, F, n)
<1>1. \E g : Repeats(g, D, x0, F, 0)
  <2>1. PICK g : g = [k \in 0 .. 0 |-> x0]
    OBVIOUS
  <2>2. g \in [0 .. 0 -> D] /\ g[0] = x0 /\ \A k \in 0 .. 0 : k = 0
    BY <2>1
  <2>3. QED
    BY <2>2 DEF Repeats
<1>2. PICK M : M = {m \in Nat : \A g : ~Repeats(g, D, x0, F, m)}
  OBVIOUS
<1>3. SUFFICES ASSUME M # {} PROVE FALSE
  BY <1>2
<1>4. M \subseteq Nat
  BY <1>2
<1>5. PICK m \in M : \A j \in M : m <= j
  BY <1>3, <1>4, LeastNumber
<1>6. m \in Nat /\ (\A g : ~Repeats(g, D, x0, F, m)) /\ m # 0
  BY <1>1, <1>2, <1>5
<1>7. m - 1 \in Nat /\ ~(m <= m - 1)
  BY <1>6
<1>8. PICK g : Repeats(g, D, x0, F, m - 1)
  BY <1>2, <1>5, <1>7
<1>9. QED
  BY <1>6, <1>8, RepeatsMore

\* A step can be repeated for ever.
LEMMA Repeated ==
  ASSUME NEW D, NEW x0 \in D, NEW F \in [D -> D]
  PROVE  \E f \in [Nat -> D] : f[0] = x0 /\ \A n \in Nat : n # 0 => f[n] = F[f[n - 1]]
<1>1. PICK G : \A n \in Nat : Repeats(G[n], D, x0, F, n)
  <2>1. PICK G : G = [n \in Nat |-> CHOOSE g : Repeats(g, D, x0, F, n)]
    OBVIOUS
  <2>2. ASSUME NEW n \in Nat PROVE Repeats(G[n], D, x0, F, n)
    <3>1. \E g : Repeats(g, D, x0, F, n)
      BY RepeatsUpTo
    <3>2. G[n] = CHOOSE g : Repeats(g, D, x0, F, n)
      BY <2>1
    <3>3. QED
      BY ONLY <3>1, <3>2, Zenon
  <2>3. QED
    BY <2>2
<1>2. PICK f : f = [n \in Nat |-> G[n][n]]
  OBVIOUS
<1>3. f \in [Nat -> D]
  <2>1. ASSUME NEW n \in Nat PROVE G[n][n] \in D
    <3>1. n \in 0 .. n /\ G[n] \in [0 .. n -> D]
      BY <1>1 DEF Repeats
    <3>2. QED
      BY <3>1
  <2>2. QED
    BY <1>2, <2>1
<1>4. f[0] = x0
  BY <1>1, <1>2 DEF Repeats
<1>5. ASSUME NEW n \in Nat, n # 0 PROVE f[n] = F[f[n - 1]]
  <2>1. PICK m \in Nat : m = n - 1 /\ m <= n /\ n \in 0 .. n
    BY <1>5
  <2>2. f[n] = G[n][n] /\ f[m] = G[m][m]
    BY <1>2
  <2>3. Repeats(G[m], D, x0, F, m) /\ Repeats(G[n], D, x0, F, n)
    BY <1>1
  <2>4. G[m][m] = G[n][m]
    BY <2>1, <2>3, RepeatsSame
  <2>5. G[n][n] = F[G[n][n - 1]]
    BY ONLY <1>5, <2>1, <2>3, Zenon DEF Repeats
  <2>6. QED
    BY ONLY <2>1, <2>2, <2>4, <2>5, Zenon
<1>6. QED
  BY <1>3, <1>4, <1>5

-----------------------------------------------------------------------------
(* Powers *)

\* f has the powers of b.
Powers(f, b) == f \in [Nat -> Nat] /\ f[0] = 1 /\ \A n \in Nat : n # 0 => f[n] = b * f[n - 1]

LEMMA PowersAre ==
  ASSUME NEW b \in Nat
  PROVE  \E f : Powers(f, b) /\ \A n \in Nat : Numbers!Power(b, n) = f[n]
<1> DEFINE Equation(f) == f = [n \in Nat |-> IF n = 0 THEN 1 ELSE b * f[n - 1]]
<1>1. PICK F : F = [x \in Nat |-> b * x]
  OBVIOUS
<1>2. F \in [Nat -> Nat] /\ \A x \in Nat : F[x] = b * x
  BY <1>1
<1>3. PICK g \in [Nat -> Nat] : g[0] = 1 /\ \A n \in Nat : n # 0 => g[n] = F[g[n - 1]]
  <2>1. PICK D : D = Nat
    OBVIOUS
  <2>2. PICK one \in D : one = 1
    BY <2>1
  <2>3. F \in [D -> D]
    BY <1>2, <2>1
  <2>4. \E g \in [Nat -> D] : g[0] = one /\ \A n \in Nat : n # 0 => g[n] = F[g[n - 1]]
    BY <2>3, Repeated
  <2>5. QED
    BY ONLY <2>1, <2>2, <2>4, Zenon
<1>4. Equation(g)
  <2>1. ASSUME NEW n \in Nat PROVE g[n] = IF n = 0 THEN 1 ELSE b * g[n - 1]
    <3>1. CASE n = 0
      BY <1>3, <3>1
    <3>2. CASE n # 0
      <4>1. n - 1 \in Nat
        BY <3>2
      <4>2. g[n - 1] \in Nat
        BY <4>1
      <4>3. QED
        BY ONLY <1>2, <1>3, <3>2, <4>2, Zenon
    <3>3. QED
      BY <3>1, <3>2
  <2>2. g = [n \in Nat |-> g[n]]
    BY <1>3
  <2>3. QED
    BY ONLY <2>1, <2>2, Zenon
<1>5. PICK f : Equation(f) /\ \A n : Numbers!Power(b, n) = f[n]
  <2>1. \A n : Numbers!Power(b, n) = (CHOOSE f : Equation(f))[n]
    BY Zenon DEF Numbers!Power
  <2> HIDE DEF Equation
  <2>2. Equation(CHOOSE f : Equation(f))
    BY <1>4, Zenon
  <2>3. QED
    BY <2>1, <2>2, Zenon
<1>6. f = [n \in Nat |-> IF n = 0 THEN 1 ELSE b * f[n - 1]]
  BY <1>5
<1>7. \A n \in Nat : f[n] = IF n = 0 THEN 1 ELSE b * f[n - 1]
  BY ONLY <1>6, Zenon
<1>8. ASSUME NEW n \in Nat PROVE f[n] \in Nat
  <2>1. PICK B : B = {k \in Nat : f[k] \notin Nat}
    OBVIOUS
  <2>2. SUFFICES ASSUME B # {} PROVE FALSE
    BY <2>1
  <2>3. B \subseteq Nat
    BY <2>1
  <2>4. PICK k \in B : \A j \in B : k <= j
    BY <2>2, <2>3, LeastNumber
  <2>5. k \in Nat /\ f[k] \notin Nat
    BY <2>1, <2>4
  <2>6. k # 0
    BY <1>7, <2>5
  <2>7. k - 1 \in Nat /\ ~(k <= k - 1)
    BY <2>5, <2>6
  <2>8. f[k - 1] \in Nat
    BY <2>1, <2>4, <2>7
  <2>9. f[k] = b * f[k - 1]
    BY ONLY <1>7, <2>5, <2>6, Zenon
  <2>10. QED
    BY <2>5, <2>8, <2>9
<1>9. f \in [Nat -> Nat]
  <2>1. f = [n \in Nat |-> f[n]]
    BY ONLY <1>6, <1>7, Zenon
  <2>2. QED
    BY <1>8, <2>1
<1>10. Powers(f, b)
  BY <1>7, <1>9 DEF Powers
<1>11. QED
  BY <1>5, <1>10

LEMMA PowerIs ==
  ASSUME NEW b \in Nat
  PROVE  /\ Numbers!Power(b, 0) = 1
         /\ \A n \in Nat : /\ Numbers!Power(b, n) \in Nat
                           /\ Numbers!Power(b, n + 1) = b * Numbers!Power(b, n)
<1>1. PICK f : Powers(f, b) /\ \A n \in Nat : Numbers!Power(b, n) = f[n]
  BY PowersAre
<1>2. f \in [Nat -> Nat] /\ f[0] = 1 /\ \A n \in Nat : n # 0 => f[n] = b * f[n - 1]
  BY <1>1 DEF Powers
<1>3. ASSUME NEW n \in Nat
      PROVE  Numbers!Power(b, n) \in Nat /\ Numbers!Power(b, n + 1) = b * Numbers!Power(b, n)
  <2>1. n + 1 \in Nat /\ n + 1 # 0 /\ (n + 1) - 1 = n
    OBVIOUS
  <2>2. f[n + 1] = b * f[(n + 1) - 1]
    BY ONLY <1>2, <2>1, Zenon
  <2>3. f[n] \in Nat
    BY <1>2
  <2>4. QED
    BY ONLY <1>1, <2>1, <2>2, <2>3, Zenon
<1>4. 0 \in Nat
  OBVIOUS
<1>5. QED
  BY ONLY <1>1, <1>2, <1>3, <1>4, Zenon

LEMMA StepByStep ==
  ASSUME NEW T, T \subseteq Nat, 0 \in T, \A n \in T : n + 1 \in T
  PROVE  T = Nat
<1>1. PICK B : B = Nat \ T
  OBVIOUS
<1>2. SUFFICES ASSUME B # {} PROVE FALSE
  BY <1>1
<1>3. B \subseteq Nat
  BY <1>1
<1>4. PICK n \in B : \A j \in B : n <= j
  BY <1>2, <1>3, LeastNumber
<1>5. n \in Nat /\ n \notin T /\ n # 0
  BY <1>1, <1>4
<1>6. PICK m \in Nat : m = n - 1 /\ m + 1 = n /\ ~(n <= m)
  BY <1>5
<1>7. m \in T
  BY <1>1, <1>4, <1>6
<1>8. QED
  BY <1>5, <1>6, <1>7

LEMMA AllBefore ==
  ASSUME NEW T, T \subseteq Nat, \A n \in Nat : (\A m \in 0 .. n - 1 : m \in T) => n \in T
  PROVE  T = Nat
<1>1. PICK B : B = Nat \ T
  OBVIOUS
<1>2. SUFFICES ASSUME B # {} PROVE FALSE
  BY <1>1
<1>3. B \subseteq Nat
  BY <1>1
<1>4. PICK n \in B : \A j \in B : n <= j
  BY <1>2, <1>3, LeastNumber
<1>5. n \in Nat /\ n \notin T
  BY <1>1, <1>4
<1>6. ASSUME NEW m \in 0 .. n - 1 PROVE m \in T
  <2>1. m \in Nat /\ ~(n <= m)
    BY <1>5
  <2>2. QED
    BY <1>1, <1>4, <2>1
<1>7. QED
  BY <1>5, <1>6

LEMMA Timed ==
  ASSUME NEW a \in Nat, NEW x \in Nat, NEW y \in Nat
  PROVE  /\ a * x \in Nat
         /\ x <= y => a * x <= a * y
         /\ a * x < a * y => x < y
         /\ a * (x * y) = x * (a * y)
<1>1. a * x \in Nat
  OBVIOUS
<1>2. x <= y => a * x <= a * y
  OBVIOUS
<1>3. a * x < a * y => x < y
  OBVIOUS
<1>4. a * (x * y) = x * (a * y)
  OBVIOUS
<1>5. QED
  BY <1>1, <1>2, <1>3, <1>4

\* A power of a sum.
LEMMA PowerSplit ==
  ASSUME NEW b \in Nat, NEW n \in Nat, NEW m \in Nat
  PROVE  Numbers!Power(b, n + m) = Numbers!Power(b, n) * Numbers!Power(b, m)
<1>1. PICK T : T = {k \in Nat : Numbers!Power(b, n + k) = Numbers!Power(b, n) * Numbers!Power(b, k)}
  OBVIOUS
<1>2. 0 \in T
  <2>1. PICK p \in Nat : p = Numbers!Power(b, n)
    BY PowerIs
  <2>2. n + 0 = n /\ p * 1 = p /\ 0 \in Nat
    OBVIOUS
  <2>3. Numbers!Power(b, n + 0) = Numbers!Power(b, n) * Numbers!Power(b, 0)
    BY ONLY <2>1, <2>2, PowerIs, b \in Nat, Zenon
  <2>4. QED
    BY <1>1, <2>3
<1>3. ASSUME NEW k \in T PROVE k + 1 \in T
  <2>1. k \in Nat /\ n + k \in Nat /\ Numbers!Power(b, n + k) = Numbers!Power(b, n) * Numbers!Power(b, k)
    BY <1>1
  <2>2. PICK p \in Nat, q \in Nat : p = Numbers!Power(b, n) /\ q = Numbers!Power(b, k)
    BY <2>1, PowerIs
  <2>3. Numbers!Power(b, k + 1) = b * q /\ Numbers!Power(b, (n + k) + 1) = b * (p * q)
    <3>1. Numbers!Power(b, k + 1) = b * Numbers!Power(b, k)
      BY <2>1, PowerIs
    <3>2. PICK i \in Nat : i = n + k
      BY <2>1
    <3>3. Numbers!Power(b, i + 1) = b * Numbers!Power(b, i)
      BY PowerIs
    <3>4. QED
      BY ONLY <2>1, <2>2, <3>1, <3>2, <3>3, Zenon
  <2>4. b * (p * q) = p * (b * q)
    BY Timed
  <2>5. n + (k + 1) = (n + k) + 1 /\ k + 1 \in Nat
    BY <2>1
  <2>6. Numbers!Power(b, n + (k + 1)) = Numbers!Power(b, n) * Numbers!Power(b, k + 1)
    BY ONLY <2>2, <2>3, <2>4, <2>5, Zenon
  <2>7. QED
    BY <1>1, <2>5, <2>6
<1>4. T = Nat
  <2>1. T \subseteq Nat
    BY <1>1
  <2>2. QED
    BY <1>2, <1>3, <2>1, StepByStep
<1>5. QED
  BY <1>1, <1>4

\* Larger bases have larger powers.
LEMMA PowerGrows ==
  ASSUME NEW b \in Nat, b >= 2, NEW n \in Nat
  PROVE  1 <= Numbers!Power(2, n) /\ Numbers!Power(2, n) <= Numbers!Power(b, n)
<1>1. PICK T : T = {k \in Nat : 1 <= Numbers!Power(2, k) /\ Numbers!Power(2, k) <= Numbers!Power(b, k)}
  OBVIOUS
<1>2. 0 \in T
  BY <1>1, PowerIs
<1>3. ASSUME NEW k \in T PROVE k + 1 \in T
  <2>1. k \in Nat /\ k + 1 \in Nat
    BY <1>1
  <2>2. PICK p \in Nat : p = Numbers!Power(2, k)
    BY <2>1, PowerIs
  <2>3. PICK q \in Nat : q = Numbers!Power(b, k)
    BY <2>1, PowerIs
  <2>4. Numbers!Power(2, k + 1) = 2 * p
    BY <2>1, <2>2, PowerIs
  <2>5. Numbers!Power(b, k + 1) = b * q
    BY <2>1, <2>3, PowerIs
  <2>6. 1 <= p /\ p <= q
    BY <1>1, <2>2, <2>3
  <2>7. 1 <= 2 * p
    BY <2>6
  <2>8. 2 * p <= b * q
    <3>1. 2 * p <= 2 * q
      BY <2>6
    <3>2. q * 2 <= q * b
      BY Timed
    <3>3. QED
      BY <3>1, <3>2
  <2>9. QED
    BY <1>1, <2>1, <2>4, <2>5, <2>7, <2>8
<1>4. T = Nat
  <2>1. T \subseteq Nat
    BY <1>1
  <2>2. QED
    BY <1>2, <1>3, <2>1, StepByStep
<1>5. QED
  BY <1>1, <1>4

LEMMA TenIsMore ==
  ASSUME NEW n \in Nat
  PROVE  2 * Numbers!Power(2, n + 1) < Numbers!Power(10, n + 1)
<1>1. PICK T : T = {k \in Nat : 2 * Numbers!Power(2, k + 1) < Numbers!Power(10, k + 1)}
  OBVIOUS
<1>2. 0 \in T
  <2>1. Numbers!Power(2, 0 + 1) = 2 * 1 /\ Numbers!Power(10, 0 + 1) = 10 * 1
    BY PowerIs
  <2>2. QED
    BY <1>1, <2>1
<1>3. ASSUME NEW k \in T PROVE k + 1 \in T
  <2>1. k \in Nat /\ k + 1 \in Nat
    BY <1>1
  <2>2. PICK p \in Nat : p = Numbers!Power(2, k + 1)
    BY <2>1, PowerIs
  <2>3. PICK q \in Nat : q = Numbers!Power(10, k + 1)
    BY <2>1, PowerIs
  <2>4. Numbers!Power(2, (k + 1) + 1) = 2 * p
    BY <2>1, <2>2, PowerIs
  <2>5. Numbers!Power(10, (k + 1) + 1) = 10 * q
    BY <2>1, <2>3, PowerIs
  <2>6. 2 * p < q
    BY <1>1, <2>2, <2>3
  <2>7. 2 * (2 * p) < 10 * q
    BY <2>6
  <2>8. QED
    BY <1>1, <2>1, <2>4, <2>5, <2>7
<1>4. T = Nat
  <2>1. T \subseteq Nat
    BY <1>1
  <2>2. QED
    BY <1>2, <1>3, <2>1, StepByStep
<1>5. QED
  BY <1>1, <1>4

-----------------------------------------------------------------------------
(* The digits that fit *)

\* The digits of a number with more than one: those before the last, and that one.
LEMMA DigitsStep ==
  ASSUME NEW b \in DigitBases, NEW v \in Nat
  PROVE  \/ v < b /\ Numbers!Digits(v, b) = <<Numbers!kDigits[v + 1]>>
         \/ /\ v >= b
            /\ Numbers!Digits(v, b) = Append(Numbers!Digits(v \div b, b), Numbers!kDigits[(v % b) + 1])
<1>1. PICK f : (\A n \in Nat : Writes(f, b, n)) /\ \A n \in Nat : Numbers!Digits(n, b) = f[n]
  BY DigitsAre
<1>2. v < b \/ v >= b
  BY DEF DigitBases
<1>3. v >= b => ~(v < b)
  BY DEF DigitBases
<1>4. v \div b \in Nat
  BY Divided
<1>5. Writes(f, b, v)
  BY <1>1
<1>6. QED
  BY ONLY <1>1, <1>2, <1>3, <1>4, <1>5, v \in Nat, Zenon DEF Writes

LEMMA DigitsAreDigits ==
  ASSUME NEW b \in DigitBases, NEW v \in Nat
  PROVE  Numbers!Digits(v, b) \in Seq(Digit) /\ Len(Numbers!Digits(v, b)) \in Nat \ {0}
<1>1. PICK d : d = Numbers!Digits(v, b)
  OBVIOUS
<1>2. d \in Seq(Digit) /\ d # << >>
  BY <1>1, DigitsDenote DEF Denotes
<1>3. Len(d) \in Nat /\ Len(d) # 0
  BY <1>2
<1>4. QED
  BY <1>1, <1>2, <1>3

\* A number below the n-th power of the base has n digits at most.
Short(v, b) ==
  \A n \in Nat : n >= 1 /\ v < Numbers!Power(b, n) => Len(Numbers!Digits(v, b)) <= n

\* A number below a power of the base has no more digits than that.
LEMMA DigitsAreShort ==
  ASSUME NEW b \in DigitBases, NEW v \in Nat
  PROVE  Short(v, b)
<1>1. PICK T : T = {u \in Nat : Short(u, b)}
  OBVIOUS
<1>2. ASSUME NEW u \in Nat, \A m \in 0 .. u - 1 : m \in T PROVE u \in T
  <2>1. CASE u < b /\ Numbers!Digits(u, b) = <<Numbers!kDigits[u + 1]>>
    <3>1. Len(Numbers!Digits(u, b)) = 1
      BY <2>1
    <3>2. QED
      BY <1>1, <3>1 DEF Short
  <2>2. CASE /\ u >= b
             /\ Numbers!Digits(u, b) = Append(Numbers!Digits(u \div b, b), Numbers!kDigits[(u % b) + 1])
    <3>1. PICK w \in Nat, x \in 0 .. b - 1 : w = u \div b /\ x = u % b /\ u = w * b + x /\ w < u /\ w >= 1
      BY <2>2, Divided
    <3>2. Short(w, b)
      <4>1. w \in 0 .. u - 1
        BY <3>1
      <4>2. QED
        BY <1>1, <1>2, <4>1
    <3>3. PICK e \in Seq(Digit) : e = Numbers!Digits(w, b)
      BY DigitsAreDigits
    <3>4. PICK c : c = Numbers!kDigits[x + 1]
      OBVIOUS
    <3>5. Numbers!Digits(u, b) = Append(e, c)
      BY ONLY <2>2, <3>1, <3>3, <3>4, Zenon
    <3>6. PICK k \in Nat : k = Len(e)
      BY <3>3
    <3>7. Len(Numbers!Digits(u, b)) = k + 1
      BY <3>5, <3>6
    <3>8. ASSUME NEW n \in Nat, n >= 1, u < Numbers!Power(b, n) PROVE k + 1 <= n
      <4>1. PICK m \in Nat : n = m + 1
        BY <3>8
      <4>2. b \in Nat /\ b >= 2
        BY DEF DigitBases
      <4>3. PICK p \in Nat : p = Numbers!Power(b, m)
        BY <4>2, PowerIs
      <4>4. u < b * p
        BY <3>8, <4>1, <4>2, <4>3, PowerIs
      <4>5. b * w < b * p
        BY <3>1, <4>2, <4>4
      <4>6. w < p
        BY <4>2, <4>5, Timed
      <4>7. m # 0
        <5>1. SUFFICES ASSUME m = 0 PROVE FALSE
          OBVIOUS
        <5>2. p = 1
          BY <4>2, <4>3, <5>1, PowerIs
        <5>3. QED
          BY <3>1, <4>6, <5>2
      <4>8. m >= 1 /\ w < Numbers!Power(b, m)
        BY <4>3, <4>6, <4>7
      <4>9. k <= m
        BY <3>2, <3>3, <3>6, <4>8 DEF Short
      <4>10. QED
        BY <4>1, <4>9
    <3>9. QED
      BY <1>1, <3>7, <3>8 DEF Short
  <2>3. QED
    BY <2>1, <2>2, DigitsStep
<1>3. T = Nat
  <2>1. T \subseteq Nat
    BY <1>1
  <2>2. QED
    BY <1>2, <2>1, AllBefore
<1>4. QED
  BY <1>1, <1>3

LEMMA ReadsNothing == ASSUME NEW b PROVE Numbers!Reads(<< >>, b) = 0
<1>1. PICK t : t = << >>
  OBVIOUS
<1>2. t \in Seq({}) /\ Len(t) = 0
  BY <1>1
<1>3. PICK r : Steps(r, t, b) /\ Numbers!Reads(t, b) = r[0]
  BY <1>2, ReadsIs
<1>4. QED
  BY ONLY <1>1, <1>3, Zenon DEF Steps

LEMMA LastOfIs ==
  ASSUME NEW S, NEW e \in Seq(S), NEW c \in S
  PROVE  /\ Numbers!LastOf(Append(e, c), 0) = << >>
         /\ \A n \in Nat : /\ Numbers!LastOf(e, n) \in Seq(S)
                           /\ Numbers!LastOf(Append(e, c), n + 1) = Append(Numbers!LastOf(e, n), c)
<1>1. PICK m \in Nat : m = Len(e)
  OBVIOUS
<1>2. PICK x : x = Append(e, c)
  OBVIOUS
<1>3. x \in Seq(S) /\ Len(x) = m + 1 /\ (\A i \in 1 .. m : x[i] = e[i]) /\ x[m + 1] = c
  BY <1>1, <1>2
<1>4. Numbers!LastOf(x, 0) = << >>
  BY <1>3 DEF Numbers!LastOf
<1>5. ASSUME NEW n \in Nat
      PROVE  Numbers!LastOf(e, n) \in Seq(S) /\ Numbers!LastOf(x, n + 1) = Append(Numbers!LastOf(e, n), c)
  <2>1. CASE m <= n
    <3>1. Numbers!LastOf(e, n) = e
      BY <1>1, <2>1 DEF Numbers!LastOf
    <3>2. Numbers!LastOf(x, n + 1) = x
      BY <1>3, <2>1 DEF Numbers!LastOf
    <3>3. QED
      BY ONLY <1>2, <3>1, <3>2, e \in Seq(S), Zenon
  <2>2. CASE n < m
    <3>1. PICK d : d = SubSeq(e, m - n + 1, m)
      OBVIOUS
    <3>2. d \in Seq(S) /\ Len(d) = n /\ \A i \in 1 .. n : d[i] = e[m - n + i]
      BY <1>1, <2>2, <3>1
    <3>3. Numbers!LastOf(e, n) = d
      BY <1>1, <2>2, <3>1 DEF Numbers!LastOf
    <3>4. PICK y : y = SubSeq(x, m - n + 1, m + 1)
      OBVIOUS
    <3>5. y \in Seq(S) /\ Len(y) = n + 1 /\ \A i \in 1 .. n + 1 : y[i] = x[m - n + i]
      BY <1>3, <2>2, <3>4
    <3>6. Numbers!LastOf(x, n + 1) = y
      <4>1. (m + 1) - (n + 1) + 1 = m - n + 1 /\ ~(m + 1 <= n + 1)
        BY <2>2
      <4>2. QED
        BY ONLY <1>3, <3>4, <4>1, Zenon DEF Numbers!LastOf
    <3>7. y = Append(d, c)
      <4>1. PICK z : z = Append(d, c)
        OBVIOUS
      <4>2. z \in Seq(S) /\ Len(z) = n + 1 /\ (\A i \in 1 .. n : z[i] = d[i]) /\ z[n + 1] = c
        BY <3>2, <4>1
      <4>3. ASSUME NEW i \in 1 .. n + 1 PROVE y[i] = z[i]
        <5>1. CASE i = n + 1
          BY <1>3, <2>2, <3>5, <4>2, <5>1
        <5>2. CASE i # n + 1
          <6>1. i \in 1 .. n /\ m - n + i \in 1 .. m
            BY <2>2, <5>2
          <6>2. QED
            BY <1>3, <3>2, <3>5, <4>2, <6>1
        <5>3. QED
          BY <5>1, <5>2
      <4>4. y = z
        BY <3>5, <4>2, <4>3
      <4>5. QED
        BY <4>1, <4>4
    <3>8. QED
      BY ONLY <3>2, <3>3, <3>6, <3>7, Zenon
  <2>3. QED
    BY <1>1, <2>1, <2>2
<1>6. QED
  BY ONLY <1>2, <1>4, <1>5, Zenon

\* What remains of w b + x, and of w, without what b p and p go into.
RemainsToo(b, p, w, x) == (w * b + x) % (b * p) = (w % p) * b + x

LEMMA OneRemains ==
  ASSUME NEW b \in Nat, NEW p \in Nat, p >= 1, b >= 1, NEW w \in Nat, NEW x \in Nat, x < b
  PROVE  RemainsToo(b, p, w, x)
<1>1. PICK q \in Nat, r \in Nat : q = w \div p /\ r = w % p /\ w = p * q + r /\ r < p
  OBVIOUS
<1>2. PICK B \in Nat : B = b * p
  OBVIOUS
<1>3. B >= 1
  <2>1. b * 1 <= b * p
    BY Timed
  <2>2. QED
    BY <1>2, <2>1
<1>4. w * b + x = B * q + (r * b + x)
  <2>1. (p * q + r) * b + x = (b * p) * q + (r * b + x)
    OBVIOUS
  <2>2. QED
    BY ONLY <1>1, <1>2, <2>1, Zenon
<1>5. r * b + x \in Nat /\ r * b + x < B
  <2>1. b * (r + 1) <= b * p
    <3>1. r + 1 \in Nat /\ r + 1 <= p
      BY <1>1
    <3>2. QED
      BY <3>1, Timed
  <2>2. b * (r + 1) = r * b + b
    BY <1>1
  <2>3. r * b \in Nat
    BY <1>1
  <2>4. QED
    BY <1>2, <2>1, <2>2, <2>3
<1>6. (B * q + (r * b + x)) % B = r * b + x
  <2>1. PICK y \in Nat : y = r * b + x
    BY <1>5
  <2>2. (B * q + y) % B = y
    BY <1>3, <1>5, <2>1
  <2>3. QED
    BY ONLY <2>1, <2>2, Zenon
<1>7. QED
  BY ONLY <1>1, <1>2, <1>4, <1>6, Zenon DEF RemainsToo

\* The digits that fit are the number as far as they go.
Remains(v, b) ==
  \A n \in Nat : Numbers!Reads(Numbers!LastOf(Numbers!Digits(v, b), n), b) = v % Numbers!Power(b, n)

LEMMA BelowOne == ASSUME NEW v \in Nat PROVE v % 1 = 0
OBVIOUS

\* The digits that fit are those of the number modulo a power of the base.
LEMMA DigitsRemain ==
  ASSUME NEW b \in DigitBases, NEW v \in Nat
  PROVE  Remains(v, b)
<1>1. PICK T : T = {u \in Nat : Remains(u, b)}
  OBVIOUS
<1>2. b \in Nat /\ b >= 2 /\ b >= 1
  BY DEF DigitBases
<1>3. ASSUME NEW u \in Nat, \A m \in 0 .. u - 1 : m \in T PROVE u \in T
  <2>1. CASE u < b /\ Numbers!Digits(u, b) = <<Numbers!kDigits[u + 1]>>
    <3>1. Denotes(Numbers!Digits(u, b), b, u)
      BY DigitsDenote
    <3>2. PICK d : d = Numbers!Digits(u, b)
      OBVIOUS
    <3>3. Len(d) = 1 /\ Numbers!Reads(d, b) = u
      <4>1. Len(d) = 1
        BY <2>1, <3>2
      <4>2. QED
        BY ONLY <3>1, <3>2, <4>1, Zenon DEF Denotes, Numbers!ReadsAs
    <3>4. ASSUME NEW n \in Nat
          PROVE  Numbers!Reads(Numbers!LastOf(d, n), b) = u % Numbers!Power(b, n)
      <4>1. CASE n = 0
        <5>1. Numbers!LastOf(d, 0) = << >>
          <6>1. SubSeq(d, 2, 1) = << >>
            BY <2>1, <3>2
          <6>2. ~(1 <= 0) /\ 1 - 0 + 1 = 2
            OBVIOUS
          <6>3. QED
            BY ONLY <3>3, <6>1, <6>2, SMT DEF Numbers!LastOf
        <5>2. u % 1 = 0 /\ Numbers!Power(b, 0) = 1
          BY <1>2, BelowOne, PowerIs
        <5>3. QED
          BY ONLY <4>1, <5>1, <5>2, ReadsNothing, Zenon
      <4>2. CASE n # 0
        <5>1. Numbers!LastOf(d, n) = d
          BY <3>3, <4>2 DEF Numbers!LastOf
        <5>2. PICK m \in Nat : n = m + 1
          BY <4>2
        <5>3. PICK p \in Nat : p = Numbers!Power(b, m) /\ p >= 1
          BY <1>2, PowerIs, PowerGrows
        <5>4. PICK q \in Nat : q = Numbers!Power(b, n) /\ q = b * p
          BY <1>2, <5>2, <5>3, PowerIs
        <5>5. u < q
          <6>1. b * 1 <= b * p
            BY <1>2, <5>3, Timed
          <6>2. QED
            BY <1>2, <2>1, <5>4, <6>1
        <5>6. u % q = u
          BY <5>5
        <5>7. QED
          BY ONLY <3>3, <5>1, <5>4, <5>6, Zenon
      <4>3. QED
        BY <4>1, <4>2
    <3>5. QED
      BY ONLY <1>1, <3>2, <3>4, u \in Nat, Zenon DEF Remains
  <2>2. CASE /\ u >= b
             /\ Numbers!Digits(u, b) = Append(Numbers!Digits(u \div b, b), Numbers!kDigits[(u % b) + 1])
    <3>1. PICK w \in Nat, x \in 0 .. b - 1 : w = u \div b /\ x = u % b /\ u = w * b + x /\ w < u
      BY <2>2, Divided
    <3>2. Remains(w, b)
      <4>1. w \in 0 .. u - 1
        BY <3>1
      <4>2. QED
        BY <1>1, <1>3, <4>1
    <3>3. PICK e \in Seq(Digit) : e = Numbers!Digits(w, b)
      BY DigitsAreDigits
    <3>4. x + 1 \in 1 .. 16 /\ (x + 1) - 1 = x /\ x \in Nat /\ x < b
      BY <3>1 DEF DigitBases
    <3>5. PICK c \in Digit : c = Numbers!kDigits[x + 1]
      BY <3>4 DEF Digit
    <3>6. Numbers!DigitValue(c) = x
      BY <3>4, <3>5, ValueOfDigit
    <3>7. PICK d : d = Append(e, c)
      OBVIOUS
    <3>8. Numbers!Digits(u, b) = d
      BY ONLY <2>2, <3>1, <3>3, <3>5, <3>7, Zenon
    <3>9. ASSUME NEW n \in Nat
          PROVE  Numbers!Reads(Numbers!LastOf(d, n), b) = u % Numbers!Power(b, n)
      <4>1. CASE n = 0
        <5>1. Numbers!LastOf(d, 0) = << >>
          BY <3>7, LastOfIs
        <5>2. u % 1 = 0 /\ Numbers!Power(b, 0) = 1
          BY <1>2, BelowOne, PowerIs
        <5>3. QED
          BY ONLY <4>1, <5>1, <5>2, ReadsNothing, Zenon
      <4>2. CASE n # 0
        <5>1. PICK m \in Nat : n = m + 1
          BY <4>2
        <5>2. PICK l \in Seq(Digit) : l = Numbers!LastOf(e, m)
          BY LastOfIs, <3>5
        <5>3. Numbers!LastOf(d, n) = Append(l, c)
          <6>1. Numbers!LastOf(Append(e, c), m + 1) = Append(Numbers!LastOf(e, m), c)
            BY <3>3, <3>5, LastOfIs
          <6>2. QED
            BY ONLY <3>7, <5>1, <5>2, <6>1, Zenon
        <5>4. PICK p \in Nat : p = Numbers!Power(b, m) /\ p >= 1
          <6>1. Numbers!Power(b, m) \in Nat /\ Numbers!Power(2, m) \in Nat
            BY <1>2, PowerIs
          <6>2. 1 <= Numbers!Power(2, m) /\ Numbers!Power(2, m) <= Numbers!Power(b, m)
            BY <1>2, PowerGrows
          <6>3. QED
            BY <6>1, <6>2
        <5>5. Numbers!Power(b, n) = b * p
          BY <1>2, <5>1, <5>4, PowerIs
        <5>6. Numbers!Reads(l, b) = w % p
          BY ONLY <3>2, <3>3, <5>2, <5>4, m \in Nat, Zenon DEF Remains
        <5>7. Numbers!Reads(Append(l, c), b) = More(Numbers!Reads(l, b), c, b)
          BY ReadsOneMore
        <5>8. More(w % p, c, b) = (w % p) * b + x
          BY ONLY <3>6, Zenon DEF More
        <5>9. (w * b + x) % (b * p) = (w % p) * b + x
          <6>1. RemainsToo(b, p, w, x)
            BY <1>2, <3>4, <5>4, OneRemains
          <6>2. QED
            BY ONLY <6>1, Zenon DEF RemainsToo
        <5>10. QED
          BY ONLY <3>1, <5>3, <5>5, <5>6, <5>7, <5>8, <5>9, Zenon
      <4>3. QED
        BY <4>1, <4>2
    <3>10. QED
      BY ONLY <1>1, <3>8, <3>9, u \in Nat, Zenon DEF Remains
  <2>3. QED
    BY <2>1, <2>2, DigitsStep
<1>4. T = Nat
  <2>1. T \subseteq Nat
    BY <1>1
  <2>2. QED
    BY <1>3, <2>1, AllBefore
<1>5. QED
  BY <1>1, <1>4

-----------------------------------------------------------------------------
(* Integers that are printed *)

\* Characters of numbers and of lines of them.
Characters == Digit \cup {"-", ".", "\r", "\n"}

LEMMA DigitsAreChars ==
  ASSUME NEW d \in Seq(Digit)
  PROVE  d \in Seq(Characters)
BY DEF Characters

LEMMA NumbersAre ==
  /\ IntMod \in Nat \ {0} /\ LongLongMod \in Nat \ {0} /\ ByteMod \in Nat /\ ByteMod > 16
  /\ MaxPlaces \in Nat /\ IntMod <= LongLongMod
  /\ IntMod % ByteMod = 0 /\ LongLongMod % ByteMod = 0
  /\ SmallBuffer \in Nat /\ SmallBuffer > 2 /\ LargeBuffer \in Nat /\ LargeBuffer > 1
  /\ IntMod <= Numbers!Power(2, SmallBuffer) /\ LongLongMod <= Numbers!Power(2, LargeBuffer - 1)
<1>1. Numbers!NumberAssumption
  BY TextAssumption
<1>2. QED
  BY <1>1 DEF Numbers!NumberAssumption

LEMMA Headed ==
  ASSUME NEW S, NEW c \in S, NEW d \in Seq(S)
  PROVE  /\ <<c>> \o d \in Seq(S) /\ <<c>> \o d # << >>
         /\ (<<c>> \o d)[1] = c /\ Tail(<<c>> \o d) = d
         /\ Len(<<c>> \o d) = Len(d) + 1
<1>1. PICK n \in Nat : n = Len(d)
  OBVIOUS
<1>2. PICK t : t = <<c>> \o d
  OBVIOUS
<1>3. t \in Seq(S) /\ Len(t) = n + 1 /\ t[1] = c /\ \A i \in 1 .. n : t[i + 1] = d[i]
  <2>1. <<c>> \in Seq(S) /\ Len(<<c>>) = 1 /\ <<c>>[1] = c
    OBVIOUS
  <2>2. QED
    BY <1>1, <1>2, <2>1
<1>4. PICK u : u = Tail(t)
  OBVIOUS
<1>5. u \in Seq(S) /\ Len(u) = n /\ \A i \in 1 .. n : u[i] = t[i + 1]
  BY <1>1, <1>3, <1>4
<1>6. u = d
  BY <1>1, <1>3, <1>5
<1>7. t # << >>
  BY <1>1, <1>3
<1>8. QED
  BY ONLY <1>1, <1>2, <1>3, <1>4, <1>6, <1>7, Zenon

\* The digits of the magnitude behind a sign are the negative number.
LEMMA SignedIs ==
  ASSUME NEW v \in Int, v < 0, NEW d, Denotes(d, 10, -v)
  PROVE  Numbers!SignedReadsAs(<<"-">> \o d, v)
<1>1. d \in Seq(Characters) /\ "-" \in Characters
  BY DigitsAreChars DEF Denotes, Characters
<1>2. PICK c \in Characters : c = "-"
  BY <1>1
<1>3. <<c>> \o d # << >> /\ (<<c>> \o d)[1] = c /\ Tail(<<c>> \o d) = d
  BY <1>1, Headed
<1>4. Numbers!ReadsAs(d, 10, -v)
  BY DEF Denotes
<1>5. QED
  BY ONLY <1>2, <1>3, <1>4, v < 0, Zenon DEF Numbers!SignedReadsAs

LEMMA MagnitudeIs ==
  ASSUME NEW v \in Int
  PROVE  v < 0 => Numbers!SignedMagnitude(v) = -v /\ -v \in Nat
BY DEF Numbers!SignedMagnitude

LEMMA UsedBaseIs ==
  ASSUME NEW b \in Nat
  PROVE  Numbers!UsedBase(b) \in DigitBases /\ Numbers!UsedBase(10) = 10
BY DEF Numbers!UsedBase, DigitBases

LEMMA NarrowIs ==
  ASSUME NEW b \in Int
  PROVE  b % ByteMod \in Nat /\ 10 % ByteMod = 10
<1>1. ByteMod \in Nat /\ ByteMod > 16
  BY NumbersAre
<1>2. QED
  BY <1>1

\* The pieces one after the other.
LEMMA FlattenIs ==
  ASSUME NEW p, NEW n \in 1 .. 3, Len(p) = n
  PROVE  Numbers!FlattenSeq(p) =
           IF n = 1 THEN p[1] ELSE IF n = 2 THEN p[1] \o p[2] ELSE (p[1] \o p[2]) \o p[3]
<1> DEFINE Equation(f) == f = [i \in 1 .. n |-> IF i = 1 THEN p[i] ELSE f[i - 1] \o p[i]]
<1>1. PICK x : x = p[1] \o p[2]
  OBVIOUS
<1>2. PICK y : y = x \o p[3]
  OBVIOUS
<1>3. PICK g : g = [i \in 1 .. n |-> IF i = 1 THEN p[1] ELSE IF i = 2 THEN x ELSE y]
  OBVIOUS
<1>4. Equation(g)
  <2>1. ASSUME NEW i \in 1 .. n PROVE g[i] = IF i = 1 THEN p[i] ELSE g[i - 1] \o p[i]
    <3>1. i = 1 \/ i = 2 \/ i = 3
      OBVIOUS
    <3>2. CASE i = 1
      BY <1>3, <3>2
    <3>3. CASE i = 2
      <4>1. g[i] = x /\ g[i - 1] = p[1] /\ i # 1
        BY <1>3, <3>3
      <4>2. QED
        BY ONLY <1>1, <3>3, <4>1, Zenon
    <3>4. CASE i = 3
      <4>1. g[i] = y /\ g[i - 1] = x /\ i # 1
        BY <1>3, <3>4
      <4>2. QED
        BY ONLY <1>2, <3>4, <4>1, Zenon
    <3>5. QED
      BY <3>1, <3>2, <3>3, <3>4
  <2>2. g = [i \in 1 .. n |-> g[i]]
    BY <1>3
  <2>3. QED
    BY ONLY <2>1, <2>2, Zenon
<1>5. PICK f : Equation(f) /\ Numbers!FlattenSeq(p) = f[n]
  <2>1. n # 0
    OBVIOUS
  <2>2. Numbers!FlattenSeq(p) = (CHOOSE f : Equation(f))[n]
    BY <2>1, Zenon DEF Numbers!FlattenSeq
  <2> HIDE DEF Equation
  <2>3. Equation(CHOOSE f : Equation(f))
    BY <1>4, Zenon
  <2>4. QED
    BY <2>2, <2>3, Zenon
<1>6. f = [i \in 1 .. n |-> IF i = 1 THEN p[i] ELSE f[i - 1] \o p[i]]
  BY <1>5
<1>7. \A i \in 1 .. n : f[i] = IF i = 1 THEN p[i] ELSE f[i - 1] \o p[i]
  BY ONLY <1>6, Zenon
<1> HIDE DEF Equation
<1>8. f[1] = p[1]
  BY <1>7
<1>9. n >= 2 => f[2] = p[1] \o p[2]
  <2>1. SUFFICES ASSUME n >= 2 PROVE f[2] = p[1] \o p[2]
    OBVIOUS
  <2>2. 2 \in 1 .. n /\ 2 # 1 /\ 2 - 1 = 1
    BY <2>1
  <2>3. f[2] = f[2 - 1] \o p[2]
    BY ONLY <1>7, <2>2, Zenon
  <2>4. QED
    BY ONLY <1>8, <2>2, <2>3, Zenon
<1>10. n = 3 => f[3] = (p[1] \o p[2]) \o p[3]
  <2>1. SUFFICES ASSUME n = 3 PROVE f[3] = (p[1] \o p[2]) \o p[3]
    OBVIOUS
  <2>2. 3 \in 1 .. n /\ 3 # 1 /\ 3 - 1 = 2 /\ n >= 2
    BY <2>1
  <2>3. f[3] = f[3 - 1] \o p[3]
    BY ONLY <1>7, <2>2, Zenon
  <2>4. QED
    BY ONLY <1>9, <2>2, <2>3, Zenon
<1>11. \/ n = 1
       \/ n = 2 /\ n >= 2 /\ n # 1
       \/ n = 3 /\ n # 1 /\ n # 2
  OBVIOUS
<1>12. QED
  BY ONLY <1>5, <1>8, <1>9, <1>10, <1>11, Zenon

LEMMA FlattenedOne == ASSUME NEW x PROVE Numbers!FlattenSeq(<<x>>) = x
<1>1. PICK p : p = <<x>>
  OBVIOUS
<1>2. Len(p) = 1 /\ p[1] = x /\ 1 \in 1 .. 3
  BY <1>1
<1>3. Numbers!FlattenSeq(p) = p[1]
  BY <1>2, FlattenIs
<1>4. QED
  BY ONLY <1>1, <1>2, <1>3, Zenon

LEMMA FlattenedTwo == ASSUME NEW x, NEW y PROVE Numbers!FlattenSeq(<<x, y>>) = x \o y
<1>1. PICK p : p = <<x, y>>
  OBVIOUS
<1>2. Len(p) = 2 /\ p[1] = x /\ p[2] = y /\ 2 \in 1 .. 3 /\ 2 # 1
  BY <1>1
<1>3. Numbers!FlattenSeq(p) = p[1] \o p[2]
  BY ONLY <1>2, FlattenIs, Zenon
<1>4. QED
  BY ONLY <1>1, <1>2, <1>3, Zenon

\* What is printed of an integer: a sign and digits, or what printNumber makes of it.
LEMMA PrintPiecesAre ==
  ASSUME NEW v \in Int, NEW b \in Int, NEW mod
  PROVE  IF b = 10 /\ v < 0
         THEN Numbers!PrintPieces(v, b, mod) = <<<<"-">>, Numbers!Digits(-v, 10)>>
         ELSE Numbers!PrintPieces(v, b, mod) = <<Numbers!PrintNumber(v % mod, b % ByteMod)>>
<1>1. CASE b = 10 /\ v < 0
  <2>1. Numbers!SignedMagnitude(v) = -v
    BY <1>1, MagnitudeIs
  <2>2. Numbers!UsedBase(10) = 10
    BY UsedBaseIs
  <2>3. 10 # 0
    OBVIOUS
  <2>4. Numbers!PrintNumber(-v, 10) = Numbers!Digits(-v, 10)
    BY ONLY <2>2, <2>3, Zenon DEF Numbers!PrintNumber
  <2>5. QED
    BY ONLY <1>1, <2>1, <2>4, Zenon DEF Numbers!PrintPieces
<1>2. CASE ~(b = 10 /\ v < 0)
  BY ONLY <1>2, Zenon DEF Numbers!PrintPieces
<1>3. QED
  BY ONLY <1>1, <1>2, Zenon

LEMMA PrintIntIs ==
  ASSUME NEW v \in Int, NEW b \in Int, NEW mod
  PROVE  IF b = 10 /\ v < 0
         THEN Numbers!PrintInt(v, b, mod) = <<"-">> \o Numbers!Digits(-v, 10)
         ELSE Numbers!PrintInt(v, b, mod) = Numbers!PrintNumber(v % mod, b % ByteMod)
BY ONLY v \in Int, b \in Int, PrintPiecesAre, FlattenedOne, FlattenedTwo, Zenon DEF Numbers!PrintInt

\* Values of a signed type of mod values.
LEMMA Wrapped ==
  ASSUME NEW mod \in Nat \ {0}, NEW v \in Numbers!Signed(mod)
  PROVE  /\ v \in Int /\ v % mod \in Nat /\ v % mod < mod
         /\ v >= 0 => v % mod = v /\ 2 * v < mod
         /\ v < 0 => -v \in Nat /\ -v < mod /\ 2 * (-v) <= mod
<1>1. v \in Int /\ -(mod \div 2) <= v /\ v <= mod \div 2 - 1
  BY DEF Numbers!Signed
<1>2. PICK h \in Nat : h = mod \div 2 /\ 2 * h <= mod
  OBVIOUS
<1>3. -h <= v /\ v <= h - 1
  BY <1>1, <1>2
<1>4. v % mod \in Nat /\ v % mod < mod
  BY <1>1
<1>5. v >= 0 => v % mod = v /\ 2 * v < mod
  BY <1>1, <1>2, <1>3
<1>6. v < 0 => -v \in Nat /\ -v < mod /\ 2 * (-v) <= mod
  BY <1>1, <1>2, <1>3
<1>7. QED
  BY <1>1, <1>4, <1>5, <1>6

LEMMA TenIsABase == 10 \in DigitBases
BY DEF DigitBases

\* A byte is the low part of a number of any width.
LEMMA LowPart ==
  ASSUME NEW mod \in Nat \ {0}, NEW m \in Nat \ {0}, mod % m = 0, NEW v \in Int
  PROVE  (v % mod) % m = v % m
<1>1. PICK q \in Int, r \in Nat : r = v % mod /\ v = mod * q + r
  BY SMTT(30)
<1>2. PICK k \in Nat : mod = m * k
  OBVIOUS
<1>3. PICK a \in Int, c \in Nat : c = r % m /\ r = m * a + c /\ c < m
  BY SMTT(30)
<1>4. v = m * (k * q + a) + c
  <2>1. (m * k) * q + (m * a + c) = m * (k * q + a) + c
    OBVIOUS
  <2>2. QED
    BY ONLY <1>1, <1>2, <1>3, <2>1, Zenon
<1>5. PICK z \in Int : z = k * q + a
  OBVIOUS
<1>6. (m * z + c) % m = c
  BY <1>3
<1>7. QED
  BY ONLY <1>1, <1>3, <1>4, <1>5, <1>6, Zenon

\* c is what a negative number without a sign stands for.
PrintedIs(t, v, b, c) ==
  IF b % ByteMod = 0 THEN t = Numbers!RawByte(v)
  ELSE Numbers!IntegerReadsAs(t, Numbers!UsedBase(b % ByteMod), b = 10, v, c)

\* print() of an integer, in a width that is a multiple of a byte.
LEMMA IntegerPrinted ==
  ASSUME NEW mod \in Nat \ {0}, mod % ByteMod = 0, NEW v \in Numbers!Signed(mod), NEW b \in Int
  PROVE  PrintedIs(Numbers!PrintInt(v, b, mod), v, b, v % mod)
<1>1. PICK n \in Nat : n = b % ByteMod
  BY NarrowIs
<1>2. v \in Int /\ (v < 0 => -v \in Nat) /\ (v >= 0 => v % mod = v) /\ v % mod \in Nat
  BY Wrapped
<1>3. CASE b = 10 /\ v < 0
  <2>1. Numbers!PrintInt(v, b, mod) = <<"-">> \o Numbers!Digits(-v, 10)
    BY ONLY <1>2, <1>3, b \in Int, PrintIntIs, Zenon
  <2>2. Denotes(Numbers!Digits(-v, 10), 10, -v)
    BY <1>2, <1>3, TenIsABase, DigitsDenote
  <2>3. PICK d : d = Numbers!Digits(-v, 10)
    OBVIOUS
  <2>4. Numbers!SignedReadsAs(<<"-">> \o d, v)
    BY <1>2, <1>3, <2>2, <2>3, SignedIs
  <2>5. n # 0
    BY <1>1, <1>3, NarrowIs
  <2>6. QED
    BY ONLY <1>1, <1>3, <2>1, <2>3, <2>4, <2>5, Zenon DEF PrintedIs, Numbers!IntegerReadsAs
<1>4. CASE ~(b = 10 /\ v < 0)
  <2>1. Numbers!PrintInt(v, b, mod) = Numbers!PrintNumber(v % mod, n)
    BY ONLY <1>1, <1>2, <1>4, b \in Int, PrintIntIs, Zenon
  <2>2. CASE n = 0
    <3>1. (v % mod) % ByteMod = v % ByteMod
      <4>1. ByteMod \in Nat \ {0}
        BY NumbersAre
      <4>2. QED
        BY <1>2, <4>1, LowPart
    <3>2. Numbers!RawByte(v % mod) = Numbers!RawByte(v)
      BY ONLY <3>1, Zenon DEF Numbers!RawByte
    <3>3. Numbers!PrintNumber(v % mod, n) = Numbers!RawByte(v)
      BY ONLY <2>2, <3>2, Zenon DEF Numbers!PrintNumber
    <3>4. QED
      BY ONLY <1>1, <2>1, <2>2, <3>3, Zenon DEF PrintedIs
  <2>3. CASE n # 0
    <3>1. PICK c \in DigitBases : c = Numbers!UsedBase(n)
      BY UsedBaseIs
    <3>2. Numbers!PrintNumber(v % mod, n) = Numbers!Digits(v % mod, c)
      BY ONLY <2>3, <3>1, Zenon DEF Numbers!PrintNumber
    <3>3. PICK w \in Nat : w = v % mod
      BY <1>2
    <3>4. PICK t : t = Numbers!Digits(w, c)
      OBVIOUS
    <3>5. Numbers!ReadsAs(t, c, w)
      BY <3>4, DigitsDenote DEF Denotes
    <3>6. v < 0 => b # 10
      BY <1>4
    <3>7. ~(v < 0) => v >= 0
      BY <1>2
    <3>8. v >= 0 => w = v
      BY <1>2, <3>3
    <3>9. Numbers!IntegerReadsAs(t, c, b = 10, v, w)
      BY ONLY <3>5, <3>6, <3>7, <3>8, Zenon DEF Numbers!IntegerReadsAs, Numbers!ReadsAs
    <3>10. QED
      BY ONLY <1>1, <2>1, <2>3, <3>1, <3>2, <3>3, <3>4, <3>9, Zenon DEF PrintedIs
  <2>4. QED
    BY <2>2, <2>3
<1>5. QED
  BY <1>3, <1>4

-----------------------------------------------------------------------------
(* Integers that Strings are made of *)

\* The digits in a buffer of a size stand for the number as far as there is room.
LEMMA FormattedIs ==
  ASSUME NEW b \in Nat, NEW v \in Nat, NEW size \in Nat, size >= 2
  PROVE  LET c == Numbers!UsedBase(b)
             t == Numbers!FormatUnsigned(v, b, size)
         IN  /\ Numbers!Reads(t, c) = v % Numbers!Power(c, size - 1)
             /\ v < Numbers!Power(c, size - 1) => Denotes(t, c, v)
<1>1. PICK c \in DigitBases : c = Numbers!UsedBase(b)
  BY UsedBaseIs
<1>2. PICK n \in Nat : n = size - 1 /\ n >= 1
  OBVIOUS
<1>3. PICK d : d = Numbers!Digits(v, c)
  OBVIOUS
<1>4. PICK t : t = Numbers!LastOf(d, n)
  OBVIOUS
<1>5. Numbers!FormatUnsigned(v, b, size) = t
  BY ONLY <1>1, <1>2, <1>3, <1>4, Zenon DEF Numbers!FormatUnsigned
<1>6. Numbers!Reads(t, c) = v % Numbers!Power(c, n)
  <2>1. Remains(v, c)
    BY DigitsRemain
  <2>2. n \in Nat
    OBVIOUS
  <2>3. QED
    BY ONLY <1>3, <1>4, <2>1, <2>2, Zenon DEF Remains
<1>7. ASSUME v < Numbers!Power(c, n) PROVE Denotes(t, c, v)
  <2>1. Len(d) <= n
    <3>1. Short(v, c)
      BY DigitsAreShort
    <3>2. QED
      BY ONLY <1>2, <1>3, <1>7, <3>1, n \in Nat, SMT DEF Short
  <2>2. t = d
    BY ONLY <1>4, <2>1, Zenon DEF Numbers!LastOf
  <2>3. QED
    BY <1>3, <2>2, DigitsDenote
<1>8. QED
  BY ONLY <1>1, <1>2, <1>5, <1>6, <1>7, Zenon

MadeAs(t, v, b, c) ==
  Numbers!IntegerReadsAs(t, Numbers!UsedBase(b % ByteMod), b % ByteMod = 10, v, c)

\* A buffer that holds a non-negative number, and the digits of a negative one in base
\* 10 behind its sign.
Holds(v, size) ==
  /\ v >= 0 => v < Numbers!Power(2, size - 1)
  /\ v < 0 => -v < Numbers!Power(10, size - 2)

\* String() of an integer, in a buffer that holds it.
LEMMA IntegerFormatted ==
  ASSUME NEW v \in Numbers!Signed(LongLongMod), NEW b \in Int,
         NEW size \in Nat, size >= 3, Holds(v, size)
  PROVE  LET n == b % ByteMod
         IN  MadeAs(Numbers!FormatSigned(v, n, size), v, b,
                    (v % LongLongMod) % Numbers!Power(Numbers!UsedBase(n), size - 1))
<1>1. PICK n \in Nat : n = b % ByteMod
  BY NarrowIs
<1>2. PICK c \in DigitBases : c = Numbers!UsedBase(n)
  BY UsedBaseIs
<1>3. PICK w \in Nat : w = v % LongLongMod
  BY NumbersAre, Wrapped
<1>4. v \in Int /\ (v < 0 => -v \in Nat) /\ (v >= 0 => w = v)
  BY <1>3, NumbersAre, Wrapped
<1>5. CASE n = 10 /\ v < 0
  <2>1. PICK m \in Nat : m = -v
    BY <1>4, <1>5
  <2>2. PICK l \in Nat : l = size - 1 /\ l >= 2 /\ l - 1 = size - 2
    OBVIOUS
  <2>3. PICK d : d = Numbers!FormatUnsigned(m, 10, l)
    OBVIOUS
  <2>4. Numbers!FormatSigned(v, n, size) = <<"-">> \o d
    <3>1. Numbers!SignedMagnitude(v) = m
      BY <1>4, <1>5, <2>1, MagnitudeIs
    <3>2. QED
      BY ONLY <1>5, <2>2, <2>3, <3>1, Zenon DEF Numbers!FormatSigned
  <2>5. Denotes(d, 10, m)
    <3>1. Numbers!UsedBase(10) = 10
      BY UsedBaseIs
    <3>2. m < Numbers!Power(10, l - 1)
      BY <1>5, <2>1, <2>2 DEF Holds
    <3>3. m < Numbers!Power(Numbers!UsedBase(10), l - 1)
      BY ONLY <3>1, <3>2, Zenon
    <3>4. Denotes(Numbers!FormatUnsigned(m, 10, l), Numbers!UsedBase(10), m)
      BY <2>2, <3>3, FormattedIs
    <3>5. QED
      BY ONLY <2>3, <3>1, <3>4, Zenon
  <2>6. Numbers!SignedReadsAs(<<"-">> \o d, v)
    <3>1. Denotes(d, 10, -v)
      BY <2>1, <2>5
    <3>2. QED
      BY <1>4, <1>5, <3>1, SignedIs
  <2>7. QED
    BY ONLY <1>1, <1>5, <2>4, <2>6, Zenon DEF MadeAs, Numbers!IntegerReadsAs
<1>6. CASE ~(n = 10 /\ v < 0)
  <2>1. PICK t : t = Numbers!FormatUnsigned(w, n, size)
    OBVIOUS
  <2>2. Numbers!FormatSigned(v, n, size) = t
    BY ONLY <1>3, <1>6, <2>1, Zenon DEF Numbers!FormatSigned
  <2>3. Numbers!Reads(t, c) = w % Numbers!Power(c, size - 1)
    <3>1. size >= 2
      OBVIOUS
    <3>2. QED
      BY <1>2, <2>1, <3>1, FormattedIs
  <2>4. v >= 0 => Numbers!ReadsAs(t, c, v)
    <3>1. SUFFICES ASSUME v >= 0 PROVE Numbers!ReadsAs(t, c, v)
      OBVIOUS
    <3>2. v < Numbers!Power(2, size - 1) /\ w = v
      BY <1>4, <3>1 DEF Holds
    <3>3. PICK l \in Nat : l = size - 1
      OBVIOUS
    <3>4. Numbers!Power(2, l) <= Numbers!Power(c, l)
      BY PowerGrows DEF DigitBases
    <3>5. Numbers!Power(2, l) \in Nat /\ Numbers!Power(c, l) \in Nat
      <4>1. c \in Nat /\ 2 \in Nat
        BY DEF DigitBases
      <4>2. QED
        BY ONLY <3>3, <4>1, l \in Nat, PowerIs, Zenon
    <3>6. w < Numbers!Power(c, size - 1)
      BY <3>2, <3>3, <3>4, <3>5
    <3>7. Denotes(t, c, w)
      <4>1. size >= 2
        OBVIOUS
      <4>2. QED
        BY <1>2, <2>1, <3>6, <4>1, FormattedIs
    <3>8. QED
      BY ONLY <3>2, <3>7, Zenon DEF Denotes
  <2>5. ~(v < 0) => v >= 0
    BY <1>4
  <2>6. QED
    BY ONLY <1>1, <1>2, <1>3, <1>6, <2>2, <2>3, <2>4, <2>5, Zenon DEF MadeAs, Numbers!IntegerReadsAs
<1>7. QED
  BY <1>5, <1>6

LEMMA PowersOfTwo ==
  ASSUME NEW n \in Nat
  PROVE  /\ Numbers!Power(2, n) \in Nat /\ Numbers!Power(2, n + 1) = 2 * Numbers!Power(2, n)
         /\ Numbers!Power(10, n) \in Nat /\ Numbers!Power(2, n) <= Numbers!Power(10, n)
         /\ 1 <= Numbers!Power(2, n)
<1>1. 2 \in Nat /\ 10 \in Nat /\ 10 >= 2
  OBVIOUS
<1>2. /\ Numbers!Power(2, n) \in Nat /\ Numbers!Power(2, n + 1) = 2 * Numbers!Power(2, n)
      /\ Numbers!Power(10, n) \in Nat
  BY ONLY <1>1, n \in Nat, PowerIs, Zenon
<1>3. Numbers!Power(2, n) <= Numbers!Power(10, n) /\ 1 <= Numbers!Power(2, n)
  BY <1>1, PowerGrows
<1>4. QED
  BY <1>2, <1>3

\* What fits in the buffers.
LEMMA SmallHolds ==
  ASSUME NEW v \in Numbers!Signed(IntMod)
  PROVE  Holds(v, SmallBuffer) /\ v \in Numbers!Signed(LongLongMod)
<1>1. /\ IntMod \in Nat \ {0} /\ LongLongMod \in Nat \ {0} /\ IntMod <= LongLongMod
      /\ SmallBuffer \in Nat /\ SmallBuffer > 2 /\ IntMod <= Numbers!Power(2, SmallBuffer)
  BY NumbersAre
<1>2. v \in Int /\ (v >= 0 => 2 * v < IntMod) /\ (v < 0 => 2 * (-v) <= IntMod)
  BY <1>1, Wrapped
<1>3. PICK k \in Nat : SmallBuffer = (k + 1) + 2
  <2>1. SmallBuffer - 3 \in Nat /\ SmallBuffer = ((SmallBuffer - 3) + 1) + 2
    BY <1>1
  <2>2. QED
    BY <2>1
<1>4. PICK l \in Nat : l = k + 1
  OBVIOUS
<1>5. SmallBuffer = (l + 1) + 1 /\ SmallBuffer - 1 = l + 1 /\ SmallBuffer - 2 = l /\ l + 1 \in Nat
  BY <1>3, <1>4
<1>6. PICK p \in Nat : p = Numbers!Power(2, l)
  BY PowersOfTwo
<1>7. Numbers!Power(2, l + 1) = 2 * p
  BY <1>6, PowersOfTwo
<1>8. Numbers!Power(2, (l + 1) + 1) = 2 * (2 * p)
  BY <1>5, <1>7, PowersOfTwo
<1>9. IntMod <= 2 * (2 * p)
  BY ONLY <1>1, <1>5, <1>8, Zenon
<1>10. PICK q \in Nat : q = Numbers!Power(10, l) /\ 2 * p < q
  BY <1>4, <1>6, PowersOfTwo, TenIsMore
<1>11. v >= 0 => v < 2 * p
  BY <1>1, <1>2, <1>9
<1>12. v < 0 => -v < q
  BY <1>1, <1>2, <1>9, <1>10
<1>13. Holds(v, SmallBuffer)
  BY ONLY <1>5, <1>7, <1>10, <1>11, <1>12, Zenon DEF Holds
<1>14. v \in Numbers!Signed(LongLongMod)
  <2>1. IntMod \div 2 <= LongLongMod \div 2 /\ IntMod \div 2 \in Nat /\ LongLongMod \div 2 \in Nat
    BY <1>1
  <2>2. -(IntMod \div 2) <= v /\ v <= IntMod \div 2 - 1
    BY DEF Numbers!Signed
  <2>3. -(LongLongMod \div 2) <= v /\ v <= LongLongMod \div 2 - 1
    BY <1>2, <2>1, <2>2
  <2>4. QED
    BY <1>2, <2>1, <2>3 DEF Numbers!Signed
<1>15. QED
  BY <1>13, <1>14

\* The large buffer holds every long long.
LEMMA LargeHolds ==
  ASSUME NEW v \in Numbers!Signed(LongLongMod)
  PROVE  /\ Holds(v, LargeBuffer + 1)
         /\ \A c \in DigitBases :
              (v % LongLongMod) % Numbers!Power(c, LargeBuffer) = v % LongLongMod
<1>1. /\ LongLongMod \in Nat \ {0} /\ LargeBuffer \in Nat /\ LargeBuffer > 1
      /\ LongLongMod <= Numbers!Power(2, LargeBuffer - 1)
  BY NumbersAre
<1>2. /\ v \in Int /\ (v >= 0 => 2 * v < LongLongMod) /\ (v < 0 => -v < LongLongMod)
      /\ v % LongLongMod \in Nat /\ v % LongLongMod < LongLongMod
  BY <1>1, Wrapped
<1>3. PICK l \in Nat : LargeBuffer = l + 1 /\ LargeBuffer - 1 = l
  <2>1. LargeBuffer - 1 \in Nat /\ LargeBuffer = (LargeBuffer - 1) + 1
    BY <1>1
  <2>2. QED
    BY <2>1
<1>4. PICK p \in Nat : p = Numbers!Power(2, l) /\ p >= 1
  BY PowersOfTwo
<1>5. LongLongMod <= p
  BY ONLY <1>1, <1>3, <1>4, Zenon
<1>6. Numbers!Power(2, l + 1) = 2 * p
  BY <1>4, PowersOfTwo
<1>7. PICK q \in Nat : q = Numbers!Power(10, l) /\ p <= q
  BY <1>4, PowersOfTwo
<1>8. Holds(v, LargeBuffer + 1)
  <2>1. (LargeBuffer + 1) - 1 = l + 1 /\ (LargeBuffer + 1) - 2 = l
    BY <1>3
  <2>2. (v >= 0 => v < 2 * p) /\ (v < 0 => -v < q)
    BY <1>1, <1>2, <1>5, <1>7
  <2>3. QED
    BY ONLY <1>6, <1>7, <2>1, <2>2, Zenon DEF Holds
<1>9. ASSUME NEW c \in DigitBases
      PROVE  (v % LongLongMod) % Numbers!Power(c, LargeBuffer) = v % LongLongMod
  <2>1. c \in Nat /\ c >= 2 /\ l + 1 \in Nat
    BY DEF DigitBases
  <2>2. PICK r \in Nat : r = Numbers!Power(c, l + 1)
    BY <2>1, PowerIs
  <2>3. 2 * p <= r
    BY <1>6, <2>1, <2>2, PowerGrows
  <2>4. PICK w \in Nat : w = v % LongLongMod /\ w < r
    BY <1>1, <1>2, <1>5, <2>3
  <2>5. w % r = w
    BY <2>4
  <2>6. QED
    BY ONLY <1>3, <2>2, <2>4, <2>5, Zenon
<1>10. QED
  BY <1>8, <1>9

\* String(int): its buffer is smaller than a long long needs.
LEMMA IntMade ==
  ASSUME NEW v \in Numbers!Signed(IntMod), NEW b \in Int
  PROVE  MadeAs(Numbers!StringOfInt(v, b), v, b,
                (v % LongLongMod) % Numbers!Power(Numbers!UsedBase(b % ByteMod), SmallBuffer - 1))
<1>1. SmallBuffer \in Nat /\ SmallBuffer >= 3
  BY NumbersAre
<1>2. Holds(v, SmallBuffer) /\ v \in Numbers!Signed(LongLongMod)
  BY SmallHolds
<1>3. QED
  BY ONLY <1>1, <1>2, b \in Int, IntegerFormatted, Zenon DEF Numbers!StringOfInt

\* String(long long): its buffer keeps every digit.
LEMMA LongLongMade ==
  ASSUME NEW v \in Numbers!Signed(LongLongMod), NEW b \in Int
  PROVE  MadeAs(Numbers!StringOfLongLong(v, b), v, b, v % LongLongMod)
<1>1. PICK size \in Nat : size = LargeBuffer + 1 /\ size >= 3 /\ size - 1 = LargeBuffer
  BY NumbersAre
<1>2. Holds(v, size)
  BY <1>1, LargeHolds
<1>3. PICK n \in Nat : n = b % ByteMod
  BY NarrowIs
<1>4. PICK c \in DigitBases : c = Numbers!UsedBase(n)
  BY UsedBaseIs
<1>5. (v % LongLongMod) % Numbers!Power(c, LargeBuffer) = v % LongLongMod
  BY LargeHolds
<1>6. MadeAs(Numbers!FormatSigned(v, n, size), v, b,
             (v % LongLongMod) % Numbers!Power(Numbers!UsedBase(n), size - 1))
  BY ONLY <1>1, <1>2, <1>3, b \in Int, v \in Numbers!Signed(LongLongMod), size \in Nat, IntegerFormatted, Zenon
<1>7. QED
  BY ONLY <1>1, <1>3, <1>4, <1>5, <1>6, Zenon DEF Numbers!StringOfLongLong

\* String(unsigned int): nothing is negative.
LEMMA UnsignedMade ==
  ASSUME NEW v \in 0 .. IntMod - 1, NEW b \in Int, NEW c
  PROVE  MadeAs(Numbers!StringOfUnsigned(v, b), v, b, c)
<1>1. /\ IntMod \in Nat /\ LongLongMod \in Nat /\ IntMod <= LongLongMod
      /\ LargeBuffer \in Nat /\ LargeBuffer >= 2
      /\ LongLongMod <= Numbers!Power(2, LargeBuffer - 1)
  BY NumbersAre
<1>2. PICK l \in Nat : l = LargeBuffer - 1
  BY <1>1
<1>3. PICK n \in Nat : n = b % ByteMod
  BY NarrowIs
<1>4. PICK d \in DigitBases : d = Numbers!UsedBase(n)
  BY UsedBaseIs
<1>5. d \in Nat /\ d >= 2 /\ v \in Nat /\ ~(v < 0)
  BY <1>1 DEF DigitBases
<1>6. PICK p \in Nat : p = Numbers!Power(2, l)
  BY PowersOfTwo
<1>7. PICK q \in Nat : q = Numbers!Power(d, l)
  BY <1>5, PowerIs
<1>8. p <= q
  BY <1>5, <1>6, <1>7, PowerGrows
<1>9. v < q
  BY <1>1, <1>2, <1>6, <1>8
<1>10. v < Numbers!Power(Numbers!UsedBase(n), LargeBuffer - 1)
  BY ONLY <1>2, <1>4, <1>7, <1>9, Zenon
<1>11. Denotes(Numbers!FormatUnsigned(v, n, LargeBuffer), Numbers!UsedBase(n), v)
  BY <1>1, <1>5, <1>10, FormattedIs
<1>12. QED
  BY ONLY <1>3, <1>5, <1>11, Zenon DEF Numbers!StringOfUnsigned, MadeAs, Denotes, Numbers!IntegerReadsAs

-----------------------------------------------------------------------------
(* What is sent, and counted *)

\* What a piece counts for in the sum over a set of places.
Counts(a, i, set) == IF i \in set THEN a[i] ELSE 0

\* FoldLeft of + over up to three numbers is their sum.
LEMMA CountIs ==
  ASSUME NEW n \in 0 .. 3, NEW a \in [1 .. n -> Nat]
  PROVE  Numbers!FoldLeft(+, 0, a) =
           IF n = 0 THEN 0 ELSE IF n = 1 THEN a[1] ELSE IF n = 2 THEN a[1] + a[2] ELSE a[1] + a[2] + a[3]
<1> DEFINE Equation(f) ==
       f = [set \in SUBSET (1 .. n) |-> IF set = {} THEN 0 ELSE f[set \ {Numbers!Max(set)}] + a[Numbers!Max(set)]]
<1>1. PICK g : g = [set \in SUBSET (1 .. n) |-> Counts(a, 1, set) + Counts(a, 2, set) + Counts(a, 3, set)]
  OBVIOUS
<1>2. ASSUME NEW set \in SUBSET (1 .. n), NEW i \in 1 .. 3 PROVE Counts(a, i, set) \in Nat
  BY DEF Counts
<1>3. ASSUME NEW set \in SUBSET (1 .. n)
      PROVE  g[set] = IF set = {} THEN 0 ELSE g[set \ {Numbers!Max(set)}] + a[Numbers!Max(set)]
  <2>1. g[set] = Counts(a, 1, set) + Counts(a, 2, set) + Counts(a, 3, set)
    BY <1>1
  <2>2. CASE set = {}
    <3>1. Counts(a, 1, set) = 0 /\ Counts(a, 2, set) = 0 /\ Counts(a, 3, set) = 0
      BY <2>2 DEF Counts
    <3>2. QED
      BY ONLY <2>1, <2>2, <3>1, SMT
  <2>3. CASE set # {}
    <3>1. PICK m : m = Numbers!Max(set)
      OBVIOUS
    <3>2. m \in set
      <4>1. n \in Nat /\ set \subseteq 1 .. n
        OBVIOUS
      <4>2. QED
        BY <2>3, <3>1, <4>1, LargestIs
    <3>3. PICK r \in SUBSET (1 .. n) : r = set \ {m}
      OBVIOUS
    <3>4. g[r] = Counts(a, 1, r) + Counts(a, 2, r) + Counts(a, 3, r)
      BY <1>1
    <3>5. ASSUME NEW i \in 1 .. 3
          PROVE  Counts(a, i, set) = IF i = m THEN Counts(a, i, r) + a[m] ELSE Counts(a, i, r)
      <4>1. CASE i = m
        <5>1. i \in set /\ i \notin r /\ a[i] \in Nat
          BY <3>2, <3>3, <4>1
        <5>2. Counts(a, i, set) = a[i] /\ Counts(a, i, r) = 0
          BY ONLY <5>1, Zenon DEF Counts
        <5>3. QED
          BY <4>1, <5>1, <5>2
      <4>2. CASE i # m
        BY <3>3, <4>2 DEF Counts
      <4>3. QED
        BY <4>1, <4>2
    <3>6. m = 1 \/ m = 2 \/ m = 3
      BY <3>2
    <3>7. a[m] \in Nat
      BY <3>2
    <3>8. \A i \in 1 .. 3 : Counts(a, i, r) \in Nat
      BY <1>2
    <3>9. g[set] = g[r] + a[m]
      <4>1. PICK x1 \in Nat, x2 \in Nat, x3 \in Nat :
              x1 = Counts(a, 1, r) /\ x2 = Counts(a, 2, r) /\ x3 = Counts(a, 3, r)
        BY <3>8
      <4>2. /\ Counts(a, 1, set) = IF 1 = m THEN x1 + a[m] ELSE x1
            /\ Counts(a, 2, set) = IF 2 = m THEN x2 + a[m] ELSE x2
            /\ Counts(a, 3, set) = IF 3 = m THEN x3 + a[m] ELSE x3
        BY <3>5, <4>1
      <4>3. PICK y \in Nat : y = a[m]
        BY <3>7
      <4>4. g[set] = (IF 1 = m THEN x1 + y ELSE x1) + (IF 2 = m THEN x2 + y ELSE x2) + (IF 3 = m THEN x3 + y ELSE x3)
        BY ONLY <2>1, <4>2, <4>3, Zenon
      <4>5. g[r] = x1 + x2 + x3
        BY ONLY <3>4, <4>1, Zenon
      <4>6. (IF 1 = m THEN x1 + y ELSE x1) + (IF 2 = m THEN x2 + y ELSE x2) + (IF 3 = m THEN x3 + y ELSE x3)
            = (x1 + x2 + x3) + y
        BY <3>6
      <4>7. QED
        BY ONLY <4>3, <4>4, <4>5, <4>6, Zenon
    <3>10. QED
      BY ONLY <2>3, <3>1, <3>3, <3>9, Zenon
  <2>4. QED
    BY <2>2, <2>3
<1>4. Equation(g)
  <2>1. g = [set \in SUBSET (1 .. n) |-> g[set]]
    BY <1>1
  <2>2. QED
    BY ONLY <1>3, <2>1, Zenon
<1>5. DOMAIN a = 1 .. n
  OBVIOUS
<1>6. PICK f : Equation(f) /\ Numbers!FoldLeft(+, 0, a) = f[1 .. n]
  <2>1. Numbers!FoldLeft(+, 0, a) = (CHOOSE f : Equation(f))[1 .. n]
    BY <1>5, Zenon DEF Numbers!FoldLeft, Numbers!MapThenFoldSet
  <2> HIDE DEF Equation
  <2>2. Equation(CHOOSE f : Equation(f))
    BY <1>4, Zenon
  <2>3. QED
    BY <2>1, <2>2, Zenon
<1>7. f = [set \in SUBSET (1 .. n) |-> IF set = {} THEN 0 ELSE f[set \ {Numbers!Max(set)}] + a[Numbers!Max(set)]]
  BY <1>6
<1> HIDE DEF Equation
<1>8. f[{}] = 0
  BY <1>7
<1>9. ASSUME NEW m \in 1 .. n, NEW k \in Nat, m = k + 1 PROVE f[1 .. m] = f[1 .. k] + a[m]
  <2>1. PICK set \in SUBSET (1 .. n) : set = 1 .. m
    OBVIOUS
  <2>2. set # {} /\ m \in set
    BY <2>1
  <2>3. Numbers!Max(set) = m
    <3>1. Numbers!Max(set) \in set /\ \A y \in set : y <= Numbers!Max(set)
      <4>1. n \in Nat /\ set \subseteq 1 .. n
        OBVIOUS
      <4>2. QED
        BY <2>2, <4>1, LargestIs
    <3>2. Numbers!Max(set) \in 1 .. m /\ m <= Numbers!Max(set)
      BY <2>1, <2>2, <3>1
    <3>3. QED
      BY <3>2
  <2>4. set \ {m} = 1 .. k
    BY <1>9, <2>1
  <2>5. f[set] = f[set \ {Numbers!Max(set)}] + a[Numbers!Max(set)]
    BY ONLY <1>7, <2>2, set \in SUBSET (1 .. n), Zenon
  <2>6. QED
    BY ONLY <2>1, <2>3, <2>4, <2>5, Zenon
<1>10. 1 .. 0 = {}
  OBVIOUS
<1>11. n >= 1 => f[1 .. 1] = a[1]
  <2>1. SUFFICES ASSUME n >= 1 PROVE f[1 .. 1] = a[1]
    OBVIOUS
  <2>2. 1 \in 1 .. n /\ 0 \in Nat /\ 1 = 0 + 1 /\ a[1] \in Nat
    BY <2>1
  <2>3. f[1 .. 1] = f[1 .. 0] + a[1]
    BY ONLY <1>9, <2>2, Zenon
  <2>4. f[1 .. 1] = 0 + a[1]
    BY ONLY <1>8, <1>10, <2>3, Zenon
  <2>5. QED
    BY <2>2, <2>4
<1>12. n >= 2 => f[1 .. 2] = a[1] + a[2]
  <2>1. SUFFICES ASSUME n >= 2 PROVE f[1 .. 2] = a[1] + a[2]
    OBVIOUS
  <2>2. 2 \in 1 .. n /\ 1 \in Nat /\ 2 = 1 + 1 /\ n >= 1
    BY <2>1
  <2>3. f[1 .. 2] = f[1 .. 1] + a[2]
    BY ONLY <1>9, <2>2, Zenon
  <2>4. QED
    BY ONLY <1>11, <2>2, <2>3, Zenon
<1>13. n = 3 => f[1 .. 3] = a[1] + a[2] + a[3]
  <2>1. SUFFICES ASSUME n = 3 PROVE f[1 .. 3] = a[1] + a[2] + a[3]
    OBVIOUS
  <2>2. 3 \in 1 .. n /\ 2 \in Nat /\ 3 = 2 + 1 /\ n >= 2
    BY <2>1
  <2>3. f[1 .. 3] = f[1 .. 2] + a[3]
    BY ONLY <1>9, <2>2, Zenon
  <2>4. QED
    BY ONLY <1>12, <2>2, <2>3, Zenon
<1>14. \/ n = 0
       \/ n = 1 /\ n # 0 /\ n >= 1
       \/ n = 2 /\ n # 0 /\ n # 1 /\ n >= 2
       \/ n = 3 /\ n # 0 /\ n # 1 /\ n # 2
  OBVIOUS
<1>15. QED
  BY ONLY <1>6, <1>8, <1>10, <1>11, <1>12, <1>13, <1>14, Zenon

\* What was counted is all of the text exactly when what was sent is.
Tells(o, t) == o.count = Len(t) <=> o.wire = t

\* The text and the part of it that was taken, side by side.
Beginning(q, p, k) ==
  /\ q \in Seq(Characters) /\ Len(q) = k /\ k \in Nat /\ k <= Len(p) /\ Len(p) \in Nat
  /\ k = Len(p) => q = p

LEMMA BeginningIs ==
  ASSUME NEW p \in Seq(Characters), NEW k \in Nat, k <= Len(p)
  PROVE  Beginning(SubSeq(p, 1, k), p, k)
<1>1. PICK q : q = SubSeq(p, 1, k)
  OBVIOUS
<1>2. q \in Seq(Characters) /\ Len(q) = k /\ \A i \in 1 .. k : q[i] = p[i]
  BY <1>1
<1>3. k = Len(p) => q = p
  BY <1>2
<1>4. Len(p) \in Nat
  OBVIOUS
<1>5. QED
  BY ONLY <1>1, <1>2, <1>3, <1>4, k \in Nat, k <= Len(p), Zenon DEF Beginning

LEMMA JoinedBeginnings ==
  ASSUME NEW q \in Seq(Characters), NEW r \in Seq(Characters), NEW x \in Seq(Characters), NEW y \in Seq(Characters)
  PROVE  /\ q \o r \in Seq(Characters) /\ Len(q \o r) = Len(q) + Len(r)
         /\ x \o y \in Seq(Characters) /\ Len(x \o y) = Len(x) + Len(y)
  OBVIOUS

LEMMA OneTold ==
  ASSUME NEW x \in Seq(Characters), NEW a \in [1 .. 1 -> Nat], a[1] <= Len(x)
  PROVE  Tells(Numbers!Written(<<x>>, a), x)
<1>1. PICK k \in Nat : k = a[1]
  OBVIOUS
<1>2. PICK q : q = SubSeq(x, 1, k)
  OBVIOUS
<1>3. PICK o : o = Numbers!Written(<<x>>, a)
  OBVIOUS
<1>4. o.count = k
  <2>1. 1 \in 0 .. 3 /\ 1 # 0
    OBVIOUS
  <2>2. Numbers!FoldLeft(+, 0, a) = a[1]
    BY ONLY <2>1, a \in [1 .. 1 -> Nat], CountIs, Zenon
  <2>3. o.count = Numbers!FoldLeft(+, 0, a)
    BY ONLY <1>3, Zenon DEF Numbers!Written
  <2>4. QED
    BY ONLY <1>1, <2>2, <2>3, Zenon
<1>5. o.wire = q
  <2>1. PICK f : f = [i \in DOMAIN <<x>> |-> SubSeq(<<x>>[i], 1, a[i])]
    OBVIOUS
  <2>2. f = <<q>>
    <3>1. DOMAIN <<x>> = 1 .. 1 /\ <<x>>[1] = x
      OBVIOUS
    <3>2. QED
      BY ONLY <1>1, <1>2, <2>1, <3>1, SMT
  <2>3. o.wire = Numbers!FlattenSeq(f)
    BY ONLY <1>3, <2>1, Zenon DEF Numbers!Written
  <2>4. QED
    BY ONLY <2>2, <2>3, FlattenedOne, Zenon
<1>6. Beginning(q, x, k)
  BY <1>1, <1>2, BeginningIs
<1>7. QED
  BY ONLY <1>3, <1>4, <1>5, <1>6, Zenon DEF Tells, Beginning

LEMMA TwoTold ==
  ASSUME NEW x \in Seq(Characters), NEW y \in Seq(Characters),
         NEW a \in [1 .. 2 -> Nat], a[1] <= Len(x), a[2] <= Len(y)
  PROVE  Tells(Numbers!Written(<<x, y>>, a), x \o y)
<1>1. PICK k \in Nat, l \in Nat : k = a[1] /\ l = a[2]
  OBVIOUS
<1>2. PICK q : q = SubSeq(x, 1, k)
  OBVIOUS
<1>3. PICK r : r = SubSeq(y, 1, l)
  OBVIOUS
<1>4. PICK o : o = Numbers!Written(<<x, y>>, a)
  OBVIOUS
<1>5. o.count = k + l
  <2>1. 2 \in 0 .. 3 /\ 2 # 0 /\ 2 # 1
    OBVIOUS
  <2>2. Numbers!FoldLeft(+, 0, a) = a[1] + a[2]
    BY ONLY <2>1, a \in [1 .. 2 -> Nat], CountIs, Zenon
  <2>3. o.count = Numbers!FoldLeft(+, 0, a)
    BY ONLY <1>4, Zenon DEF Numbers!Written
  <2>4. QED
    BY ONLY <1>1, <2>2, <2>3, Zenon
<1>6. o.wire = q \o r
  <2>1. PICK p : p = <<x, y>>
    OBVIOUS
  <2>2. PICK f : f = [i \in DOMAIN p |-> SubSeq(p[i], 1, a[i])]
    OBVIOUS
  <2>3. DOMAIN p = 1 .. 2 /\ p[1] = x /\ p[2] = y
    BY <2>1
  <2>4. f = [i \in 1 .. 2 |-> f[i]] /\ f[1] = q /\ f[2] = r
    BY ONLY <1>1, <1>2, <1>3, <2>2, <2>3, SMT
  <2>5. f = <<q, r>>
    BY <2>4
  <2>6. o.wire = Numbers!FlattenSeq(f)
    BY ONLY <1>4, <2>1, <2>2, Zenon DEF Numbers!Written
  <2>7. QED
    BY ONLY <2>5, <2>6, FlattenedTwo, Zenon
<1>7. Beginning(q, x, k) /\ Beginning(r, y, l)
  BY <1>1, <1>2, <1>3, BeginningIs
<1>8. PICK m \in Nat, n \in Nat : m = Len(x) /\ n = Len(y) /\ k <= m /\ l <= n
  BY <1>1
<1>9. Len(q \o r) = k + l /\ Len(x \o y) = m + n
  BY <1>7, <1>8, JoinedBeginnings DEF Beginning
<1>10. (k = m => q = x) /\ (l = n => r = y)
  BY ONLY <1>7, <1>8, Zenon DEF Beginning
<1>11. k + l = m + n => k = m /\ l = n
  BY <1>8
<1>12. (k + l = Len(x \o y)) <=> (q \o r = x \o y)
  BY ONLY <1>9, <1>10, <1>11, Zenon
<1>13. QED
  BY ONLY <1>4, <1>5, <1>6, <1>12, Zenon DEF Tells

LEMMA ThreeTold ==
  ASSUME NEW x \in Seq(Characters), NEW y \in Seq(Characters), NEW z \in Seq(Characters),
         NEW a \in [1 .. 3 -> Nat], a[1] <= Len(x), a[2] <= Len(y), a[3] <= Len(z)
  PROVE  Tells(Numbers!Written(<<x, y, z>>, a), (x \o y) \o z)
<1>1. PICK k \in Nat, l \in Nat, h \in Nat : k = a[1] /\ l = a[2] /\ h = a[3]
  OBVIOUS
<1>2. PICK q : q = SubSeq(x, 1, k)
  OBVIOUS
<1>3. PICK r : r = SubSeq(y, 1, l)
  OBVIOUS
<1>4. PICK t : t = SubSeq(z, 1, h)
  OBVIOUS
<1>5. PICK o : o = Numbers!Written(<<x, y, z>>, a)
  OBVIOUS
<1>6. o.count = (k + l) + h
  <2>1. 3 \in 0 .. 3 /\ 3 # 0 /\ 3 # 1 /\ 3 # 2
    OBVIOUS
  <2>2. Numbers!FoldLeft(+, 0, a) = a[1] + a[2] + a[3]
    BY ONLY <2>1, a \in [1 .. 3 -> Nat], CountIs, Zenon
  <2>3. o.count = Numbers!FoldLeft(+, 0, a)
    BY ONLY <1>5, Zenon DEF Numbers!Written
  <2>4. QED
    BY ONLY <1>1, <2>2, <2>3, Zenon
<1>7. o.wire = (q \o r) \o t
  <2>1. PICK p : p = <<x, y, z>>
    OBVIOUS
  <2>2. PICK f : f = [i \in DOMAIN p |-> SubSeq(p[i], 1, a[i])]
    OBVIOUS
  <2>3. DOMAIN p = 1 .. 3 /\ p[1] = x /\ p[2] = y /\ p[3] = z
    BY <2>1
  <2>4. f = [i \in 1 .. 3 |-> f[i]] /\ f[1] = q /\ f[2] = r /\ f[3] = t
    <3>1. f = [i \in 1 .. 3 |-> f[i]]
      BY ONLY <2>2, <2>3
    <3>2. 1 \in DOMAIN p /\ 2 \in DOMAIN p /\ 3 \in DOMAIN p
      BY ONLY <2>3
    <3>3. f[1] = SubSeq(p[1], 1, a[1]) /\ f[2] = SubSeq(p[2], 1, a[2]) /\ f[3] = SubSeq(p[3], 1, a[3])
      BY ONLY <2>2, <3>2, Zenon
    <3>4. QED
      BY ONLY <1>1, <1>2, <1>3, <1>4, <2>3, <3>1, <3>3, Zenon
  <2>5. f = <<q, r, t>>
    BY <2>4
  <2>6. o.wire = Numbers!FlattenSeq(f)
    BY ONLY <1>5, <2>1, <2>2, Zenon DEF Numbers!Written
  <2>7. QED
    <3>1. Len(f) = 3 /\ 3 \in 1 .. 3 /\ 3 # 1 /\ 3 # 2
      BY <2>5
    <3>2. Numbers!FlattenSeq(f) = (f[1] \o f[2]) \o f[3]
      BY ONLY <3>1, FlattenIs, Zenon
    <3>3. QED
      BY ONLY <2>4, <2>6, <3>2, Zenon
<1>8. Beginning(q, x, k) /\ Beginning(r, y, l) /\ Beginning(t, z, h)
  BY <1>1, <1>2, <1>3, <1>4, BeginningIs
<1>9. PICK m \in Nat, n \in Nat, g \in Nat :
        m = Len(x) /\ n = Len(y) /\ g = Len(z) /\ k <= m /\ l <= n /\ h <= g
  BY <1>1
<1>10. Len((q \o r) \o t) = (k + l) + h /\ Len((x \o y) \o z) = (m + n) + g
  <2>1. q \in Seq(Characters) /\ r \in Seq(Characters) /\ t \in Seq(Characters) /\ Len(q) = k /\ Len(r) = l /\ Len(t) = h
    BY <1>8 DEF Beginning
  <2>2. PICK u \in Seq(Characters), w \in Seq(Characters) : u = q \o r /\ w = x \o y
    BY <2>1, JoinedBeginnings
  <2>3. Len(u) = k + l /\ Len(w) = m + n
    BY <1>9, <2>1, <2>2, JoinedBeginnings
  <2>4. Len(u \o t) = Len(u) + h /\ Len(w \o z) = Len(w) + g
    BY <1>9, <2>1, JoinedBeginnings
  <2>5. QED
    BY ONLY <2>2, <2>3, <2>4, Zenon
<1>11. (k = m => q = x) /\ (l = n => r = y) /\ (h = g => t = z)
  BY ONLY <1>8, <1>9, Zenon DEF Beginning
<1>12. (k + l) + h = (m + n) + g => k = m /\ l = n /\ h = g
  BY <1>9
<1>13. ((k + l) + h = Len((x \o y) \o z)) <=> ((q \o r) \o t = (x \o y) \o z)
  BY ONLY <1>10, <1>11, <1>12, Zenon
<1>14. QED
  BY ONLY <1>5, <1>6, <1>7, <1>13, Zenon DEF Tells

LEMMA NoneTold ==
  ASSUME NEW x \in Seq(Characters), x # << >>, NEW a \in [1 .. 0 -> Nat]
  PROVE  Tells(Numbers!Written(<< >>, a), x)
<1>1. PICK o : o = Numbers!Written(<< >>, a)
  OBVIOUS
<1>2. o.count = 0
  <2>1. 0 \in 0 .. 3
    OBVIOUS
  <2>2. Numbers!FoldLeft(+, 0, a) = 0
    BY ONLY <2>1, a \in [1 .. 0 -> Nat], CountIs, Zenon
  <2>3. QED
    BY ONLY <1>1, <2>2, Zenon DEF Numbers!Written
<1>3. o.wire = << >>
  <2>1. PICK f : f = [i \in DOMAIN << >> |-> SubSeq(<< >>[i], 1, a[i])]
    OBVIOUS
  <2>2. f = << >> /\ Len(f) = 0
    BY <2>1
  <2>3. Numbers!FlattenSeq(f) = << >>
    BY ONLY <2>2, Zenon DEF Numbers!FlattenSeq
  <2>4. QED
    BY ONLY <1>1, <2>1, <2>3, Zenon DEF Numbers!Written
<1>4. Len(x) # 0
  OBVIOUS
<1>5. QED
  BY ONLY <1>1, <1>2, <1>3, <1>4, x # << >>, Zenon DEF Tells

LineEnd == <<"\r", "\n">>

LEMMA LineEndIs == LineEnd \in Seq(Characters) /\ Len(LineEnd) = 2
<1>1. PICK c \in Characters, d \in Characters : c = "\r" /\ d = "\n"
  BY DEF Characters
<1>2. <<c, d>> \in Seq(Characters) /\ Len(<<c, d>>) = 2
  OBVIOUS
<1>3. QED
  BY ONLY <1>1, <1>2, Zenon DEF LineEnd

\* The pieces of a printed integer: its digits, or a sign and the digits.
LEMMA PiecesOfInt ==
  ASSUME NEW v \in Numbers!Signed(IntMod)
  PROVE  \E x \in Seq(Characters), y \in Seq(Characters) :
           \/ /\ Numbers!PrintPieces(v, 10, IntMod) = <<x>> /\ x # << >>
              /\ Numbers!PrintInt(v, 10, IntMod) = x
           \/ /\ Numbers!PrintPieces(v, 10, IntMod) = <<x, y>> /\ x \o y # << >>
              /\ Numbers!PrintInt(v, 10, IntMod) = x \o y
<1>1. IntMod \in Nat \ {0} /\ 10 \in Int
  BY NumbersAre
<1>2. v \in Int /\ (v < 0 => -v \in Nat) /\ v % IntMod \in Nat
  BY <1>1, Wrapped
<1>3. CASE v < 0
  <2>1. PICK m \in Nat : m = -v
    BY <1>2, <1>3
  <2>2. PICK d \in Seq(Characters) : d = Numbers!Digits(m, 10)
    BY DigitsAreDigits, DigitsAreChars, TenIsABase
  <2>3. Numbers!PrintPieces(v, 10, IntMod) = <<<<"-">>, d>>
    BY ONLY <1>1, <1>2, <1>3, <2>1, <2>2, PrintPiecesAre, Zenon
  <2>4. PICK s1 : s1 = <<"-">>
    OBVIOUS
  <2>5. s1 \in Seq(Characters) /\ s1 \o d # << >>
    <3>1. "-" \in Characters
      BY DEF Characters
    <3>2. PICK c \in Characters : c = "-"
      BY <3>1
    <3>3. <<c>> \in Seq(Characters)
      BY OneOf
    <3>4. <<c>> \o d # << >>
      BY Headed
    <3>5. QED
      BY ONLY <2>4, <3>2, <3>3, <3>4, Zenon
  <2>6. Numbers!PrintInt(v, 10, IntMod) = s1 \o d
    BY ONLY <2>3, <2>4, FlattenedTwo, Zenon DEF Numbers!PrintInt
  <2>7. QED
    BY ONLY <2>2, <2>3, <2>4, <2>5, <2>6, d \in Seq(Characters), Zenon
<1>4. CASE ~(v < 0)
  <2>1. PICK w \in Nat : w = v % IntMod
    BY <1>2
  <2>2. PICK d \in Seq(Characters) : d = Numbers!Digits(w, 10) /\ d # << >>
    <3>1. Numbers!Digits(w, 10) \in Seq(Digit) /\ Numbers!Digits(w, 10) # << >>
      BY TenIsABase, DigitsDenote DEF Denotes
    <3>2. QED
      BY <3>1, DigitsAreChars
  <2>3. Numbers!PrintNumber(w, 10 % ByteMod) = d
    <3>1. 10 % ByteMod = 10 /\ 10 # 0
      BY <1>1, NarrowIs
    <3>2. Numbers!UsedBase(10) = 10
      BY UsedBaseIs
    <3>3. QED
      BY ONLY <2>2, <3>1, <3>2, Zenon DEF Numbers!PrintNumber
  <2>4. Numbers!PrintPieces(v, 10, IntMod) = <<d>>
    BY ONLY <1>1, <1>2, <1>4, <2>1, <2>3, PrintPiecesAre, Zenon
  <2>5. Numbers!PrintInt(v, 10, IntMod) = d
    BY ONLY <2>4, FlattenedOne, Zenon DEF Numbers!PrintInt
  <2>6. QED
    BY ONLY <2>2, <2>4, <2>5, d \in Seq(Characters), Zenon
<1>5. QED
  BY <1>3, <1>4

LEMMA TenReads ==
  ASSUME NEW v \in Numbers!Signed(IntMod)
  PROVE  Numbers!SignedReadsAs(Numbers!PrintInt(v, 10, IntMod), v)
<1>1. IntMod \in Nat \ {0} /\ IntMod % ByteMod = 0 /\ 10 \in Int
  BY NumbersAre
<1>2. PICK t : t = Numbers!PrintInt(v, 10, IntMod)
  OBVIOUS
<1>3. PrintedIs(t, v, 10, v % IntMod)
  BY <1>1, <1>2, IntegerPrinted
<1>4. 10 % ByteMod = 10 /\ Numbers!UsedBase(10) = 10 /\ 10 # 0
  BY <1>1, NarrowIs, UsedBaseIs
<1>5. Numbers!IntegerReadsAs(t, 10, TRUE, v, v % IntMod)
  BY ONLY <1>3, <1>4, Zenon DEF PrintedIs, Numbers!IntegerReadsAs
<1>6. QED
  BY ONLY <1>2, <1>5, Zenon DEF Numbers!IntegerReadsAs, Numbers!SignedReadsAs

LEMMA TakesAre ==
  ASSUME NEW L, NEW D, NEW a \in [D -> 0 .. L]
  PROVE  a \in [D -> Nat]
<1>1. 0 .. L \subseteq Nat
  OBVIOUS
<1>2. QED
  BY <1>1

LEMMA OneMore ==
  ASSUME NEW S, NEW t \in Seq(S), NEW c \in S
  PROVE  /\ Append(t, c) \in Seq(S) /\ Len(Append(t, c)) = Len(t) + 1
         /\ \A i \in 1 .. Len(t) : Append(t, c)[i] = t[i]
         /\ Append(t, c)[Len(t) + 1] = c
  OBVIOUS

\* What the device takes of the pieces.
Takes(a, p, L) == a \in [DOMAIN p -> 0 .. L] /\ \A i \in DOMAIN p : a[i] <= Len(p[i])

\* println(): the count tells whether the digits and the line end were all sent.
LEMMA LineTold ==
  ASSUME NEW v \in Numbers!Signed(IntMod), NEW L, NEW a,
         Takes(a, Numbers!LinePieces(Numbers!PrintPieces(v, 10, IntMod)), L)
  PROVE  LET t == Numbers!PrintInt(v, 10, IntMod)
             p == Numbers!LinePieces(Numbers!PrintPieces(v, 10, IntMod))
         IN  /\ t \in Seq(Characters) /\ Numbers!FlattenSeq(p) = t \o LineEnd
             /\ Tells(Numbers!Written(p, a), t \o LineEnd)
<1>1. PICK p : p = Numbers!LinePieces(Numbers!PrintPieces(v, 10, IntMod))
  OBVIOUS
<1>2. PICK t : t = Numbers!PrintInt(v, 10, IntMod)
  OBVIOUS
<1>3. PICK e \in Seq(Characters) : e = LineEnd /\ e = <<"\r", "\n">>
  BY LineEndIs DEF LineEnd
<1>4. a \in [DOMAIN p -> Nat] /\ \A i \in DOMAIN p : a[i] <= Len(p[i])
  BY <1>1, TakesAre DEF Takes
<1>5. PICK x \in Seq(Characters), y \in Seq(Characters) :
        \/ Numbers!PrintPieces(v, 10, IntMod) = <<x>> /\ t = x
        \/ Numbers!PrintPieces(v, 10, IntMod) = <<x, y>> /\ t = x \o y
  BY <1>2, PiecesOfInt
<1>6. CASE Numbers!PrintPieces(v, 10, IntMod) = <<x>> /\ t = x
  <2>1. p = Append(<<x>>, e)
    BY ONLY <1>1, <1>3, <1>6, Zenon DEF Numbers!LinePieces
  <2>2. p = <<x, e>> /\ DOMAIN p = 1 .. 2 /\ p[1] = x /\ p[2] = e
    <3>1. PICK u, Q : u = <<x>> /\ Q = Seq(Characters)
      OBVIOUS
    <3>2. x \in Q /\ e \in Q /\ u \in Seq(Q) /\ Len(u) = 1 /\ u[1] = x
      BY <3>1
    <3>3. p = Append(u, e)
      BY ONLY <2>1, <3>1, Zenon
    <3>4. p \in Seq(Q) /\ Len(p) = 2 /\ p[1] = x /\ p[2] = e
      <4>1. /\ Append(u, e) \in Seq(Q) /\ Len(Append(u, e)) = Len(u) + 1
            /\ \A i \in 1 .. Len(u) : Append(u, e)[i] = u[i]
            /\ Append(u, e)[Len(u) + 1] = e
        BY <3>2, OneMore
      <4>2. QED
        BY <3>2, <3>3, <4>1
    <3>5. p = <<x, e>> /\ DOMAIN p = 1 .. 2
      BY <3>4
    <3>6. QED
      BY <3>4, <3>5
  <2>3. a \in [1 .. 2 -> Nat] /\ a[1] <= Len(x) /\ a[2] <= Len(e)
    <3>1. 1 \in 1 .. 2 /\ 2 \in 1 .. 2
      OBVIOUS
    <3>2. QED
      BY ONLY <1>4, <2>2, <3>1, Zenon
  <2>4. Tells(Numbers!Written(<<x, e>>, a), x \o e)
    BY <2>3, TwoTold
  <2>5. Numbers!FlattenSeq(<<x, e>>) = x \o e
    BY ONLY FlattenedTwo
  <2>6. t \in Seq(Characters)
    BY <1>6
  <2>7. QED
    BY ONLY <1>1, <1>2, <1>3, <1>6, <2>2, <2>4, <2>5, <2>6, Zenon
<1>7. CASE Numbers!PrintPieces(v, 10, IntMod) = <<x, y>> /\ t = x \o y
  <2>1. p = Append(<<x, y>>, e)
    BY ONLY <1>1, <1>3, <1>7, Zenon DEF Numbers!LinePieces
  <2>2. p = <<x, y, e>> /\ DOMAIN p = 1 .. 3 /\ p[1] = x /\ p[2] = y /\ p[3] = e
    <3>1. PICK u, Q : u = <<x, y>> /\ Q = Seq(Characters)
      OBVIOUS
    <3>2. x \in Q /\ y \in Q /\ e \in Q /\ u \in Seq(Q) /\ Len(u) = 2 /\ u[1] = x /\ u[2] = y
      BY <3>1
    <3>3. p = Append(u, e)
      BY ONLY <2>1, <3>1, Zenon
    <3>4. p \in Seq(Q) /\ Len(p) = 3 /\ p[1] = x /\ p[2] = y /\ p[3] = e
      <4>1. /\ Append(u, e) \in Seq(Q) /\ Len(Append(u, e)) = Len(u) + 1
            /\ \A i \in 1 .. Len(u) : Append(u, e)[i] = u[i]
            /\ Append(u, e)[Len(u) + 1] = e
        BY <3>2, OneMore
      <4>2. QED
        BY <3>2, <3>3, <4>1
    <3>5. p = <<x, y, e>> /\ DOMAIN p = 1 .. 3
      BY <3>4
    <3>6. QED
      BY <3>4, <3>5
  <2>3. a \in [1 .. 3 -> Nat] /\ a[1] <= Len(x) /\ a[2] <= Len(y) /\ a[3] <= Len(e)
    <3>1. 1 \in 1 .. 3 /\ 2 \in 1 .. 3 /\ 3 \in 1 .. 3
      OBVIOUS
    <3>2. QED
      BY ONLY <1>4, <2>2, <3>1, Zenon
  <2>4. Tells(Numbers!Written(<<x, y, e>>, a), (x \o y) \o e)
    BY <2>3, ThreeTold
  <2>5. Numbers!FlattenSeq(p) = (x \o y) \o e
    <3>1. Len(p) = 3 /\ 3 \in 1 .. 3 /\ 3 # 1 /\ 3 # 2
      BY <2>2
    <3>2. Numbers!FlattenSeq(p) = (p[1] \o p[2]) \o p[3]
      BY ONLY <3>1, FlattenIs, Zenon
    <3>3. QED
      BY ONLY <2>2, <3>2, Zenon
  <2>6. t \in Seq(Characters)
    BY <1>7, JoinedBeginnings
  <2>7. QED
    BY ONLY <1>1, <1>2, <1>3, <1>7, <2>2, <2>4, <2>5, <2>6, Zenon
<1>8. QED
  BY <1>5, <1>6, <1>7

\* printf(): the count tells whether the text was sent, memory or not.
LEMMA FormatTold ==
  ASSUME NEW v \in Numbers!Signed(IntMod), NEW memory, NEW L, NEW a,
         Takes(a, Numbers!FormattedPieces(Numbers!PrintInt(v, 10, IntMod), memory), L)
  PROVE  Tells(Numbers!Written(Numbers!FormattedPieces(Numbers!PrintInt(v, 10, IntMod), memory), a),
               Numbers!PrintInt(v, 10, IntMod))
<1>1. PICK t : t = Numbers!PrintInt(v, 10, IntMod)
  OBVIOUS
<1>2. PICK p : p = Numbers!FormattedPieces(t, memory)
  OBVIOUS
<1>3. t \in Seq(Characters) /\ t # << >>
  BY <1>1, PiecesOfInt, JoinedBeginnings
<1>4. a \in [DOMAIN p -> Nat] /\ \A i \in DOMAIN p : a[i] <= Len(p[i])
  BY <1>1, <1>2, TakesAre DEF Takes
<1>5. p = <<t>> \/ p = << >>
  BY ONLY <1>2, Zenon DEF Numbers!FormattedPieces
<1>6. CASE p = <<t>>
  <2>1. DOMAIN p = 1 .. 1 /\ p[1] = t /\ 1 \in 1 .. 1
    BY <1>6
  <2>2. a \in [1 .. 1 -> Nat] /\ a[1] <= Len(t)
    BY ONLY <1>4, <2>1, Zenon
  <2>3. Tells(Numbers!Written(<<t>>, a), t)
    BY <1>3, <2>2, OneTold
  <2>4. QED
    BY ONLY <1>1, <1>2, <1>6, <2>3, Zenon
<1>7. CASE p = << >>
  <2>1. DOMAIN p = 1 .. 0
    BY <1>7
  <2>2. a \in [1 .. 0 -> Nat]
    BY ONLY <1>4, <2>1, Zenon
  <2>3. Tells(Numbers!Written(<< >>, a), t)
    BY <1>3, <2>2, NoneTold
  <2>4. QED
    BY ONLY <1>1, <1>2, <1>7, <2>3, Zenon
<1>8. QED
  BY <1>5, <1>6, <1>7

-----------------------------------------------------------------------------
(* Doubles *)

LEMMA TenPower ==
  ASSUME NEW n \in Nat
  PROVE  /\ Numbers!Power(10, n) \in Nat /\ Numbers!Power(10, n) >= 1
         /\ Numbers!Power(10, n + 1) = 10 * Numbers!Power(10, n) /\ Numbers!Power(10, 0) = 1
<1>1. 10 \in Nat /\ 10 >= 2
  OBVIOUS
<1>2. /\ Numbers!Power(10, n) \in Nat /\ Numbers!Power(10, n + 1) = 10 * Numbers!Power(10, n)
      /\ Numbers!Power(10, 0) = 1
  BY ONLY <1>1, n \in Nat, PowerIs, Zenon
<1>3. Numbers!Power(10, n) >= 1
  BY <1>2, PowersOfTwo
<1>4. QED
  BY <1>2, <1>3

\* A unit of the last of p places, and the Scale.
LEMMA UnitIs ==
  ASSUME NEW p \in Nat, p <= MaxPlaces
  PROVE  \E h \in Nat, q \in Nat :
           /\ h >= 1 /\ q >= 1 /\ q = Numbers!Power(10, p)
           /\ Numbers!Scale = q * (2 * h)
           /\ Numbers!Scale \div Numbers!Power(10, p) = 2 * h
           /\ Numbers!Scale \div (2 * Numbers!Power(10, p)) = h
<1>1. MaxPlaces \in Nat
  BY NumbersAre
<1>2. PICK k \in Nat : k = MaxPlaces - p /\ p + k = MaxPlaces
  BY <1>1
<1>3. PICK h \in Nat : h = Numbers!Power(10, k) /\ h >= 1
  BY TenPower
<1>4. PICK q \in Nat : q = Numbers!Power(10, p) /\ q >= 1
  BY TenPower
<1>5. Numbers!Power(10, MaxPlaces) = q * h
  <2>1. 10 \in Nat
    OBVIOUS
  <2>2. Numbers!Power(10, p + k) = Numbers!Power(10, p) * Numbers!Power(10, k)
    BY <2>1, PowerSplit
  <2>3. QED
    BY ONLY <1>2, <1>3, <1>4, <2>2, Zenon
<1>6. PICK s1 \in Nat : s1 = 2 * (q * h)
  OBVIOUS
<1>7. Numbers!Scale = s1
  BY ONLY <1>5, <1>6, Zenon DEF Numbers!Scale
<1>8. s1 = q * (2 * h)
  BY <1>6
<1>9. s1 \div q = 2 * h
  <2>1. PICK u \in Nat : u = 2 * h
    OBVIOUS
  <2>2. s1 = q * u
    BY ONLY <1>8, <2>1, Zenon
  <2>3. (q * u) \div q = u
    BY <1>4
  <2>4. QED
    BY ONLY <2>1, <2>2, <2>3, Zenon
<1>10. s1 \div (2 * q) = h
  <2>1. PICK d \in Nat : d = 2 * q /\ d >= 1
    BY <1>4
  <2>2. s1 = d * h
    <3>1. 2 * (q * h) = (2 * q) * h
      OBVIOUS
    <3>2. QED
      BY ONLY <1>6, <2>1, <3>1, Zenon
  <2>3. (d * h) \div d = h
    BY <2>1
  <2>4. QED
    BY ONLY <2>1, <2>2, <2>3, Zenon
<1>11. QED
  <2>1. Numbers!Scale = q * (2 * h)
    BY ONLY <1>7, <1>8, Zenon
  <2>2. Numbers!Scale \div Numbers!Power(10, p) = 2 * h
    BY ONLY <1>4, <1>7, <1>9, Zenon
  <2>3. Numbers!Scale \div (2 * Numbers!Power(10, p)) = h
    BY ONLY <1>4, <1>7, <1>10, Zenon
  <2>4. QED
    BY ONLY <1>3, <1>4, <2>1, <2>2, <2>3, h \in Nat, q \in Nat, Zenon

LEMMA ScaleIs == Numbers!Scale \in Nat \ {0}
<1>1. PICK q \in Nat : q = Numbers!Power(10, MaxPlaces) /\ q >= 1
  BY NumbersAre, TenPower
<1>2. 2 * q \in Nat \ {0}
  BY <1>1
<1>3. QED
  BY ONLY <1>1, <1>2, Zenon DEF Numbers!Scale

\* After n decimals: their text, and what remains.
Remainders == [text : Seq(Digit), rest : 0 .. Numbers!Scale - 1]

NextPlace(x) ==
  [text |-> Append(x.text, Numbers!kDigits[((x.rest * 10) \div Numbers!Scale) + 1]),
   rest |-> (x.rest * 10) % Numbers!Scale]

LEMMA NextDecimal ==
  ASSUME NEW r \in 0 .. Numbers!Scale - 1
  PROVE  /\ (r * 10) \div Numbers!Scale \in 0 .. 9 /\ (r * 10) % Numbers!Scale \in 0 .. Numbers!Scale - 1
         /\ r * 10 = ((r * 10) \div Numbers!Scale) * Numbers!Scale + ((r * 10) % Numbers!Scale)
<1>1. PICK s1 \in Nat \ {0} : s1 = Numbers!Scale
  BY ScaleIs
<1>2. PICK x \in Nat : x = r * 10
  BY <1>1
<1>3. x < 10 * s1
  BY <1>1, <1>2
<1>4. x \div s1 \in Nat /\ x % s1 \in 0 .. s1 - 1 /\ x = s1 * (x \div s1) + (x % s1)
  <2>1. s1 >= 1
    OBVIOUS
  <2>2. x \div s1 \in Nat /\ x % s1 \in 0 .. s1 - 1
    BY <2>1
  <2>3. x % s1 = x - s1 * (x \div s1)
    BY <2>1
  <2>4. PICK a \in Nat, b \in Nat : a = x \div s1 /\ b = x % s1
    BY <2>2
  <2>5. b = x - s1 * a
    BY ONLY <2>3, <2>4, Zenon
  <2>6. x = s1 * a + b
    BY <2>5
  <2>7. x = s1 * (x \div s1) + (x % s1)
    BY ONLY <2>4, <2>6, Zenon
  <2>8. QED
    BY <2>2, <2>7
<1>5. PICK q \in Nat : q = x \div s1
  BY <1>4
<1>6. q < 10
  <2>1. s1 * q < s1 * 10
    <3>1. s1 * q <= x
      BY <1>4, <1>5
    <3>2. QED
      BY <1>3, <3>1
  <2>2. QED
    BY <2>1, Timed
<1>7. x = q * s1 + (x % s1)
  BY <1>4, <1>5
<1>8. QED
  BY <1>1, <1>2, <1>4, <1>5, <1>6, <1>7

LEMMA NextIs ==
  ASSUME NEW x \in Remainders
  PROVE  NextPlace(x) \in Remainders
<1>1. x.text \in Seq(Digit) /\ x.rest \in 0 .. Numbers!Scale - 1
  BY DEF Remainders
<1>2. PICK d \in 0 .. 9 : d = (x.rest * 10) \div Numbers!Scale
  BY <1>1, NextDecimal
<1>3. PICK c \in Digit : c = Numbers!kDigits[d + 1]
  <2>1. d + 1 \in 1 .. 16
    OBVIOUS
  <2>2. QED
    BY <2>1 DEF Digit
<1>4. PICK t \in Seq(Digit) : t = Append(x.text, c)
  BY <1>1, OneMore
<1>5. (x.rest * 10) % Numbers!Scale \in 0 .. Numbers!Scale - 1
  BY <1>1, NextDecimal
<1>6. NextPlace(x) = [text |-> t, rest |-> (x.rest * 10) % Numbers!Scale]
  BY ONLY <1>2, <1>3, <1>4, Zenon DEF NextPlace
<1>7. QED
  BY ONLY <1>5, <1>6, t \in Seq(Digit), SMT DEF Remainders

\* f has the decimals of v.
DecimalsOf(f, v) ==
  /\ f[0] = [text |-> << >>, rest |-> v % Numbers!Scale]
  /\ \A n \in Nat : f[n] \in Remainders /\ f[n + 1] = NextPlace(f[n])

LEMMA DecimalsAre ==
  ASSUME NEW v \in Nat
  PROVE  \E f : DecimalsOf(f, v) /\ \A n \in Nat : Numbers!Decimals(v, n) = f[n].text
<1> DEFINE Equation(f) ==
       f = [n \in Nat |->
              IF n = 0 THEN [text |-> << >>, rest |-> v % Numbers!Scale]
              ELSE [text |-> Append(f[n - 1].text, Numbers!kDigits[((f[n - 1].rest * 10) \div Numbers!Scale) + 1]),
                    rest |-> (f[n - 1].rest * 10) % Numbers!Scale]]
<1>1. PICK x0 : x0 = [text |-> << >>, rest |-> v % Numbers!Scale]
  OBVIOUS
<1>2. x0 \in Remainders
  <2>1. v % Numbers!Scale \in 0 .. Numbers!Scale - 1
    BY ScaleIs
  <2>2. << >> \in Seq(Digit)
    OBVIOUS
  <2>3. QED
    BY ONLY <1>1, <2>1, <2>2, SMT DEF Remainders
<1>3. PICK D : D = Remainders
  OBVIOUS
<1>4. PICK F : F = [x \in D |-> NextPlace(x)]
  OBVIOUS
<1>5. F \in [D -> D] /\ \A x \in D : F[x] = NextPlace(x)
  BY <1>3, <1>4, NextIs
<1>6. PICK g \in [Nat -> D] : g[0] = x0 /\ \A n \in Nat : n # 0 => g[n] = F[g[n - 1]]
  <2>1. x0 \in D
    BY <1>2, <1>3
  <2>2. QED
    BY <1>5, <2>1, Repeated
<1>7. ASSUME NEW n \in Nat
      PROVE  g[n] = IF n = 0 THEN [text |-> << >>, rest |-> v % Numbers!Scale]
              ELSE [text |-> Append(g[n - 1].text, Numbers!kDigits[((g[n - 1].rest * 10) \div Numbers!Scale) + 1]),
                    rest |-> (g[n - 1].rest * 10) % Numbers!Scale]
  <2>1. CASE n = 0
    BY ONLY <1>1, <1>6, <2>1, Zenon
  <2>2. CASE n # 0
    <3>1. n - 1 \in Nat
      BY <2>2
    <3>2. PICK y \in D : y = g[n - 1]
      BY <3>1
    <3>3. g[n] = NextPlace(y)
      BY ONLY <1>5, <1>6, <2>2, <3>2, n \in Nat, y \in D, Zenon
    <3>4. QED
      BY ONLY <2>2, <3>2, <3>3, Zenon DEF NextPlace
  <2>3. QED
    BY <2>1, <2>2
<1>8. Equation(g)
  <2>1. g = [n \in Nat |-> g[n]]
    OBVIOUS
  <2>2. QED
    BY ONLY <1>7, <2>1, Zenon
<1>9. PICK f : Equation(f) /\ \A n : Numbers!Decimals(v, n) = f[n].text
  <2>1. \A n : Numbers!Decimals(v, n) = (CHOOSE f : Equation(f))[n].text
    BY Zenon DEF Numbers!Decimals
  <2> HIDE DEF Equation
  <2>2. Equation(CHOOSE f : Equation(f))
    BY <1>8, Zenon
  <2>3. QED
    BY <2>1, <2>2, Zenon
<1>10. ASSUME NEW n \in Nat
       PROVE  f[n] = IF n = 0 THEN x0 ELSE NextPlace(f[n - 1])
  <2>1. f = [m \in Nat |->
              IF m = 0 THEN [text |-> << >>, rest |-> v % Numbers!Scale]
              ELSE [text |-> Append(f[m - 1].text, Numbers!kDigits[((f[m - 1].rest * 10) \div Numbers!Scale) + 1]),
                    rest |-> (f[m - 1].rest * 10) % Numbers!Scale]]
    BY <1>9
  <2> HIDE DEF Equation
  <2>2. f[n] = IF n = 0 THEN [text |-> << >>, rest |-> v % Numbers!Scale]
               ELSE [text |-> Append(f[n - 1].text, Numbers!kDigits[((f[n - 1].rest * 10) \div Numbers!Scale) + 1]),
                     rest |-> (f[n - 1].rest * 10) % Numbers!Scale]
    BY ONLY <2>1, n \in Nat, Zenon
  <2>3. QED
    BY ONLY <1>1, <2>2, Zenon DEF NextPlace
<1> HIDE DEF Equation
<1>11. ASSUME NEW n \in Nat PROVE f[n + 1] = NextPlace(f[n])
  <2>1. n + 1 \in Nat /\ n + 1 # 0 /\ (n + 1) - 1 = n
    OBVIOUS
  <2>2. f[n + 1] = NextPlace(f[(n + 1) - 1])
    BY ONLY <1>10, <2>1, Zenon
  <2>3. QED
    BY ONLY <2>1, <2>2, Zenon
<1>12. f[0] = x0
  BY <1>10
<1>13. \A n \in Nat : f[n] \in Remainders
  <2>1. PICK T : T = {n \in Nat : f[n] \in Remainders}
    OBVIOUS
  <2>2. 0 \in T
    BY ONLY <1>2, <1>12, <2>1, SMT
  <2>3. ASSUME NEW n \in T PROVE n + 1 \in T
    <3>1. n \in Nat /\ f[n] \in Remainders
      BY <2>1
    <3>2. n + 1 \in Nat /\ f[n + 1] = NextPlace(f[n])
      BY <1>11, <3>1
    <3>3. NextPlace(f[n]) \in Remainders
      BY ONLY <3>1, NextIs, Zenon
    <3>4. QED
      BY ONLY <2>1, <3>2, <3>3, Zenon
  <2>4. T = Nat
    <3>1. T \subseteq Nat
      BY <2>1
    <3>2. QED
      BY <2>2, <2>3, <3>1, StepByStep
  <2>5. QED
    BY <2>1, <2>4
<1>14. DecimalsOf(f, v)
  BY ONLY <1>1, <1>11, <1>12, <1>13, Zenon DEF DecimalsOf
<1>15. QED
  BY ONLY <1>9, <1>14, Zenon

\* The digits d and the remainder r are v, after as many decimals as p is a power for.
Exact(d, r, v, p) == Numbers!Reads(d, 10) * Numbers!Scale + r = v * p

\* One more decimal of a number that was read as R so far.
LEMMA OneMorePlace ==
  ASSUME NEW R \in Nat, NEW s1 \in Nat, NEW r \in Nat, NEW v \in Nat, NEW p \in Nat,
         NEW d \in Nat, NEW z \in Nat, R * s1 + r = v * p, r * 10 = d * s1 + z
  PROVE  (R * 10 + d) * s1 + z = v * (10 * p)
<1>1. PICK x \in Nat, y \in Nat, w \in Nat : x = R * s1 /\ y = v * p /\ w = d * s1
  OBVIOUS
<1>2. x + r = y /\ r * 10 = w + z
  BY ONLY R * s1 + r = v * p, r * 10 = d * s1 + z, <1>1, Zenon
<1>3. (R * 10 + d) * s1 = 10 * (R * s1) + d * s1
  OBVIOUS
<1>4. v * (10 * p) = 10 * (v * p)
  OBVIOUS
<1>5. (10 * x + w) + z = 10 * y
  BY <1>2
<1>6. QED
  BY ONLY <1>1, <1>3, <1>4, <1>5, Zenon

LEMMA JoinedOneMore ==
  ASSUME NEW S, NEW w \in Seq(S), NEW t \in Seq(S), NEW c \in S
  PROVE  w \o Append(t, c) = Append(w \o t, c)
<1>1. PICK x : x = w \o Append(t, c)
  OBVIOUS
<1>2. PICK y : y = Append(w \o t, c)
  OBVIOUS
<1>3. PICK n \in Nat, m \in Nat : n = Len(w) /\ m = Len(t)
  OBVIOUS
<1>4. PICK u \in Seq(S) : u = Append(t, c) /\ Len(u) = m + 1 /\ (\A i \in 1 .. m : u[i] = t[i]) /\ u[m + 1] = c
  BY <1>3, OneMore
<1>5. x \in Seq(S) /\ Len(x) = n + (m + 1) /\ (\A i \in 1 .. n : x[i] = w[i]) /\ \A i \in 1 .. m + 1 : x[n + i] = u[i]
  BY <1>1, <1>3, <1>4, JoinedIs
<1>6. PICK q \in Seq(S) : q = w \o t /\ Len(q) = n + m /\ (\A i \in 1 .. n : q[i] = w[i]) /\ \A i \in 1 .. m : q[n + i] = t[i]
  <2>1. PICK q : q = w \o t
    OBVIOUS
  <2>2. /\ q \in Seq(S) /\ Len(q) = Len(w) + Len(t) /\ \A i \in 1 .. Len(w) : q[i] = w[i]
        /\ \A i \in 1 .. Len(t) : q[Len(w) + i] = t[i]
    BY <2>1, JoinedIs
  <2>3. q \in Seq(S) /\ Len(q) = n + m /\ (\A i \in 1 .. n : q[i] = w[i]) /\ \A i \in 1 .. m : q[n + i] = t[i]
    BY ONLY <1>3, <2>2, Zenon
  <2>4. QED
    BY ONLY <2>1, <2>3, Zenon
<1>7. y \in Seq(S) /\ Len(y) = (n + m) + 1 /\ (\A i \in 1 .. n + m : y[i] = q[i]) /\ y[(n + m) + 1] = c
  BY <1>2, <1>6, OneMore
<1>8. ASSUME NEW i \in 1 .. n + (m + 1) PROVE x[i] = y[i]
  <2>1. CASE i \in 1 .. n
    <3>1. i \in 1 .. n + m
      BY <2>1
    <3>2. QED
      BY ONLY <1>5, <1>6, <1>7, <2>1, <3>1, Zenon
  <2>2. CASE i \notin 1 .. n
    <3>1. PICK j \in 1 .. m + 1 : i = n + j
      <4>1. i - n \in 1 .. m + 1 /\ i = n + (i - n)
        BY <2>2
      <4>2. QED
        BY <4>1
    <3>2. x[i] = u[j]
      BY <1>5, <3>1
    <3>3. CASE j = m + 1
      BY <1>4, <1>7, <3>1, <3>2, <3>3
    <3>4. CASE j # m + 1
      <4>1. j \in 1 .. m /\ n + j \in 1 .. n + m
        BY <3>4
      <4>2. QED
        BY <1>4, <1>6, <1>7, <3>1, <3>2, <4>1
    <3>5. QED
      BY <3>3, <3>4
  <2>3. QED
    BY <2>1, <2>2
<1>9. x = y
  BY <1>5, <1>7, <1>8
<1>10. QED
  BY ONLY <1>1, <1>2, <1>9, Zenon

LEMMA NothingJoined ==
  ASSUME NEW S, NEW w \in Seq(S)
  PROVE  w \o << >> = w /\ << >> \o w = w
<1>1. PICK e : e = << >>
  OBVIOUS
<1>2. PICK x : x = w \o e
  OBVIOUS
<1>3. PICK y : y = e \o w
  OBVIOUS
<1>4. x \in Seq(S) /\ Len(x) = Len(w) /\ \A i \in 1 .. Len(w) : x[i] = w[i]
  BY <1>1, <1>2
<1>5. y \in Seq(S) /\ Len(y) = Len(w) /\ \A i \in 1 .. Len(w) : y[i] = w[i]
  BY <1>1, <1>3
<1>6. x = w /\ y = w
  BY <1>4, <1>5
<1>7. QED
  BY ONLY <1>1, <1>2, <1>3, <1>6, Zenon

\* Digits stand for a number.
LEMMA ReadsNat ==
  ASSUME NEW t \in Seq(Digit)
  PROVE  Numbers!Reads(t, 10) \in Nat
<1>1. PICK n \in Nat : n = Len(t)
  OBVIOUS
<1>2. PICK r : Steps(r, t, 10) /\ Numbers!Reads(t, 10) = r[n]
  BY <1>1, ReadsIs
<1>3. r[0] = 0 /\ \A k \in 1 .. n : r[k] = More(r[k - 1], t[k], 10)
  BY ONLY <1>1, <1>2, Zenon DEF Steps
<1>4. ASSUME NEW c \in Digit PROVE Numbers!DigitValue(c) \in Nat
  <2>1. PICK i \in 1 .. 16 : c = Numbers!kDigits[i]
    BY DEF Digit
  <2>2. Numbers!DigitValue(c) = i - 1
    BY <2>1, ValueOfDigit
  <2>3. QED
    BY <2>2
<1>5. PICK T : T = {k \in Nat : k <= n => r[k] \in Nat}
  OBVIOUS
<1>6. 0 \in T
  BY <1>3, <1>5
<1>7. ASSUME NEW k \in T PROVE k + 1 \in T
  <2>1. k \in Nat /\ k + 1 \in Nat /\ (k + 1) - 1 = k
    BY <1>5
  <2>2. SUFFICES ASSUME k + 1 <= n PROVE r[k + 1] \in Nat
    BY <1>5, <2>1
  <2>3. k + 1 \in 1 .. n /\ k <= n
    BY <2>1, <2>2
  <2>4. PICK y \in Nat : y = r[k]
    BY <1>5, <2>3
  <2>5. PICK c \in Digit : c = t[k + 1]
    BY <1>1, <2>3
  <2>6. r[k + 1] = More(r[(k + 1) - 1], t[k + 1], 10)
    BY ONLY <1>3, <2>3, Zenon
  <2>7. r[k + 1] = y * 10 + Numbers!DigitValue(c)
    BY ONLY <2>1, <2>4, <2>5, <2>6, Zenon DEF More
  <2>8. Numbers!DigitValue(c) \in Nat
    BY <1>4
  <2>9. QED
    BY <2>7, <2>8
<1>8. T = Nat
  <2>1. T \subseteq Nat
    BY <1>5
  <2>2. QED
    BY <1>6, <1>7, <2>1, StepByStep
<1>9. r[n] \in Nat
  BY <1>5, <1>8
<1>10. QED
  BY <1>2, <1>9

\* However many decimals: the digits and what remains are the number.
LEMMA DecimalsExact ==
  ASSUME NEW v \in Nat, NEW f, DecimalsOf(f, v), NEW n \in Nat
  PROVE  /\ f[n] \in Remainders /\ Len(f[n].text) = n
         /\ Exact(Numbers!Digits(v \div Numbers!Scale, 10) \o f[n].text, f[n].rest, v, Numbers!Power(10, n))
<1>1. PICK s1 \in Nat \ {0} : s1 = Numbers!Scale
  BY ScaleIs
<1>2. v \div s1 \in Nat /\ v % s1 \in Nat /\ v = (v \div s1) * s1 + (v % s1)
  <2>1. v \div s1 \in Nat /\ v % s1 \in Nat
    OBVIOUS
  <2>2. PICK a \in Nat, b \in Nat : a = v \div s1 /\ b = v % s1
    BY <2>1
  <2>3. v % s1 = v - s1 * (v \div s1)
    OBVIOUS
  <2>4. b = v - s1 * a
    BY ONLY <2>2, <2>3, Zenon
  <2>5. v = a * s1 + b
    BY <2>4
  <2>6. QED
    BY ONLY <2>1, <2>2, <2>5, Zenon
<1>3. PICK a \in Nat : a = v \div Numbers!Scale
  BY <1>1, <1>2
<1>4. PICK w \in Seq(Digit) : w = Numbers!Digits(a, 10) /\ Numbers!Reads(w, 10) = a
  <2>1. Denotes(Numbers!Digits(a, 10), 10, a)
    BY TenIsABase, DigitsDenote
  <2>2. QED
    BY <2>1 DEF Denotes, Numbers!ReadsAs
<1> DEFINE Good(k) == Len(f[k].text) = k /\ Exact(w \o f[k].text, f[k].rest, v, Numbers!Power(10, k))
<1>5. PICK T : T = {k \in Nat : Good(k)}
  OBVIOUS
<1>6. 0 \in T
  <2>1. f[0] = [text |-> << >>, rest |-> v % Numbers!Scale]
    BY DEF DecimalsOf
  <2>2. f[0].text = << >> /\ f[0].rest = v % Numbers!Scale
    BY <2>1
  <2>3. w \o << >> = w
    BY NothingJoined
  <2>4. Numbers!Power(10, 0) = 1
    BY TenPower
  <2>5. a * s1 + (v % s1) = v * 1
    <3>1. v * 1 = v
      OBVIOUS
    <3>2. QED
      BY ONLY <1>1, <1>2, <1>3, <3>1, Zenon
  <2>6. Exact(w \o f[0].text, f[0].rest, v, Numbers!Power(10, 0))
    BY ONLY <1>1, <1>4, <2>2, <2>3, <2>4, <2>5, Zenon DEF Exact
  <2>7. Len(f[0].text) = 0
    BY <2>2
  <2>8. QED
    BY <1>5, <2>6, <2>7
<1>7. ASSUME NEW k \in T PROVE k + 1 \in T
  <2>1. k \in Nat /\ Len(f[k].text) = k /\ Exact(w \o f[k].text, f[k].rest, v, Numbers!Power(10, k))
    BY <1>5
  <2>2. f[k] \in Remainders /\ f[k + 1] = NextPlace(f[k])
    BY <2>1 DEF DecimalsOf
  <2>3. PICK t \in Seq(Digit), r \in 0 .. Numbers!Scale - 1 : t = f[k].text /\ r = f[k].rest
    BY <2>2 DEF Remainders
  <2>4. PICK d \in 0 .. 9, z \in 0 .. Numbers!Scale - 1 :
          /\ d = (r * 10) \div Numbers!Scale /\ z = (r * 10) % Numbers!Scale
          /\ r * 10 = d * Numbers!Scale + z
    BY NextDecimal
  <2>5. d + 1 \in 1 .. 16 /\ (d + 1) - 1 = d
    OBVIOUS
  <2>6. PICK c \in Digit : c = Numbers!kDigits[d + 1]
    BY <2>5 DEF Digit
  <2>7. f[k + 1].text = Append(t, c) /\ f[k + 1].rest = z
    <3>1. NextPlace(f[k]) = [text |-> Append(t, c), rest |-> z]
      BY ONLY <2>3, <2>4, <2>6, Zenon DEF NextPlace
    <3>2. QED
      BY <2>2, <3>1
  <2>8. Len(f[k + 1].text) = k + 1
    BY <2>1, <2>3, <2>7, OneMore
  <2>9. PICK x \in Seq(Digit) : x = w \o t
    BY JoinedIs
  <2>10. w \o Append(t, c) = Append(x, c)
    BY <2>9, JoinedOneMore
  <2>11. Numbers!Reads(Append(x, c), 10) = More(Numbers!Reads(x, 10), c, 10)
    BY ReadsOneMore
  <2>12. Numbers!DigitValue(c) = d
    BY <2>5, <2>6, ValueOfDigit
  <2>13. PICK p \in Nat : p = Numbers!Power(10, k)
    BY <2>1, TenPower
  <2>14. Numbers!Reads(x, 10) * s1 + r = v * p
    BY ONLY <1>1, <2>1, <2>3, <2>9, <2>13, Zenon DEF Exact
  <2>15. PICK R \in Nat : R = Numbers!Reads(x, 10)
    BY ReadsNat
  <2>16. R * s1 + r = v * p
    BY ONLY <2>14, <2>15, Zenon
  <2>17. r * 10 = d * s1 + z /\ r \in Nat /\ z \in Nat /\ d \in Nat
    BY <1>1, <2>4
  <2>18. (R * 10 + d) * s1 + z = v * (10 * p)
    BY <2>16, <2>17, OneMorePlace
  <2>19. Numbers!Power(10, k + 1) = 10 * p
    BY <2>1, <2>13, TenPower
  <2>20. Numbers!Reads(Append(x, c), 10) = R * 10 + d
    BY ONLY <2>11, <2>12, <2>15, Zenon DEF More
  <2>21. Exact(w \o f[k + 1].text, f[k + 1].rest, v, Numbers!Power(10, k + 1))
    BY ONLY <1>1, <2>7, <2>10, <2>18, <2>19, <2>20, Zenon DEF Exact
  <2>22. k + 1 \in Nat
    BY <2>1
  <2>23. QED
    BY <1>5, <2>8, <2>21, <2>22
<1>8. T = Nat
  <2>1. T \subseteq Nat
    BY <1>5
  <2>2. QED
    BY <1>6, <1>7, <2>1, StepByStep
<1>9. Good(n)
  BY <1>5, <1>8
<1>10. f[n] \in Remainders
  BY DEF DecimalsOf
<1> HIDE DEF Good
<1>11. QED
  BY ONLY <1>3, <1>4, <1>9, <1>10, Zenon DEF Good

-----------------------------------------------------------------------------
(* Doubles that are read *)

\* What is cut off after half a unit was added is at most half a unit off.
LEMMA HalfAUnit ==
  ASSUME NEW R \in Nat, NEW r \in Nat, NEW q \in Nat, NEW h \in Nat, NEW n \in Nat,
         q >= 1, r < q * (2 * h), R * (q * (2 * h)) + r = (n + h) * q
  PROVE  R * (2 * h) - n <= h /\ n - R * (2 * h) <= h
<1>1. PICK u \in Nat : u = 2 * h
  OBVIOUS
<1>2. PICK a \in Nat : a = R * u
  OBVIOUS
<1>3. PICK x \in Nat : x = q * a
  OBVIOUS
<1>4. R * (q * u) = x
  <2>1. R * (q * u) = q * (R * u)
    OBVIOUS
  <2>2. QED
    BY ONLY <1>2, <1>3, <2>1, Zenon
<1>5. PICK y \in Nat : y = q * (n + h)
  OBVIOUS
<1>6. x + r = y
  <2>1. (n + h) * q = q * (n + h)
    OBVIOUS
  <2>2. R * (q * u) + r = (n + h) * q
    BY ONLY R * (q * (2 * h)) + r = (n + h) * q, <1>1, Zenon
  <2>3. QED
    BY ONLY <1>4, <1>5, <2>1, <2>2, Zenon
<1>7. a <= n + h
  <2>1. SUFFICES ASSUME n + h < a PROVE FALSE
    BY <1>2
  <2>2. n + h + 1 \in Nat /\ n + h + 1 <= a
    BY <2>1
  <2>3. q * (n + h + 1) <= q * a
    BY <2>2, Timed
  <2>4. q * (n + h + 1) = q * (n + h) + q
    OBVIOUS
  <2>5. y + q <= x
    BY ONLY <1>3, <1>5, <2>3, <2>4, Zenon
  <2>6. QED
    BY <1>6, <2>5
<1>8. n + h < a + u
  <2>1. PICK b \in Nat : b = a + u
    OBVIOUS
  <2>2. q * b = q * a + q * u
    BY <2>1
  <2>3. PICK k \in Nat : k = q * u
    OBVIOUS
  <2>4. q * b = x + k
    BY ONLY <1>3, <2>2, <2>3, Zenon
  <2>5. r < k
    BY ONLY r < q * (2 * h), <1>1, <2>3, Zenon
  <2>6. y < q * b
    BY <1>6, <2>4, <2>5
  <2>7. q * (n + h) < q * b
    BY ONLY <1>5, <2>6, Zenon
  <2>8. n + h \in Nat
    OBVIOUS
  <2>9. n + h < b
    BY <2>7, <2>8, Timed
  <2>10. QED
    BY <2>1, <2>9
<1>9. R * (2 * h) = a
  BY ONLY <1>1, <1>2, Zenon
<1>10. a - n <= h /\ n - a <= h
  BY <1>1, <1>7, <1>8
<1>11. QED
  BY ONLY <1>9, <1>10, Zenon

\* The places that are kept.
Kept(places) == IF places > MaxPlaces THEN MaxPlaces ELSE places

Magnitude(ticks) == IF ticks < 0 THEN -ticks ELSE ticks

\* The whole part w and the decimals t, which are the number to half a unit.
Near(w, t, p, n, u) ==
  /\ Numbers!Reads(w \o t, 10) * u - n <= u \div 2
  /\ n - Numbers!Reads(w \o t, 10) * u <= u \div 2

LEMMA FloatParts ==
  ASSUME NEW ticks \in Int, NEW places \in Nat
  PROVE  \E w \in Seq(Digit), t \in Seq(Digit) :
           /\ Numbers!FloatDigits(ticks, places) =
                w \o (IF Kept(places) = 0 THEN << >> ELSE <<".">> \o t)
           /\ Len(t) = Kept(places) /\ w # << >> /\ Numbers!IsNumber(w, 10)
           /\ Near(w, t, Kept(places), Magnitude(ticks), Numbers!Scale \div Numbers!Power(10, Kept(places)))
<1>1. PICK p \in Nat : p = Kept(places) /\ p <= MaxPlaces
  BY NumbersAre DEF Kept
<1>2. PICK n \in Nat : n = Magnitude(ticks)
  BY DEF Magnitude
<1>3. PICK h \in Nat, q \in Nat :
        /\ h >= 1 /\ q >= 1 /\ q = Numbers!Power(10, p)
        /\ Numbers!Scale = q * (2 * h)
        /\ Numbers!Scale \div Numbers!Power(10, p) = 2 * h
        /\ Numbers!Scale \div (2 * Numbers!Power(10, p)) = h
  BY <1>1, UnitIs
<1>4. PICK v \in Nat : v = n + h
  OBVIOUS
<1>5. Numbers!Rounded(n, p) = v
  BY ONLY <1>3, <1>4, Zenon DEF Numbers!Rounded
<1>6. PICK f : DecimalsOf(f, v) /\ \A k \in Nat : Numbers!Decimals(v, k) = f[k].text
  BY DecimalsAre
<1>7. PICK w \in Seq(Digit) : w = Numbers!Digits(v \div Numbers!Scale, 10) /\ w # << >> /\ Numbers!IsNumber(w, 10)
  <2>1. v \div Numbers!Scale \in Nat
    BY ScaleIs
  <2>2. Denotes(Numbers!Digits(v \div Numbers!Scale, 10), 10, v \div Numbers!Scale)
    BY <2>1, TenIsABase, DigitsDenote
  <2>3. QED
    BY <2>2 DEF Denotes, Numbers!ReadsAs
<1>8. PICK t \in Seq(Digit), r \in 0 .. Numbers!Scale - 1 :
        t = f[p].text /\ r = f[p].rest /\ Len(t) = p /\ Exact(w \o t, r, v, q)
  <2>1. /\ f[p] \in Remainders /\ Len(f[p].text) = p
        /\ Exact(Numbers!Digits(v \div Numbers!Scale, 10) \o f[p].text, f[p].rest, v, Numbers!Power(10, p))
    BY <1>6, DecimalsExact
  <2>2. f[p].text \in Seq(Digit) /\ f[p].rest \in 0 .. Numbers!Scale - 1
    BY <2>1 DEF Remainders
  <2>3. Exact(w \o f[p].text, f[p].rest, v, q)
    BY ONLY <1>3, <1>7, <2>1, Zenon
  <2>4. QED
    BY <2>1, <2>2, <2>3
<1>9. Numbers!FloatDigits(ticks, places) = w \o (IF p = 0 THEN << >> ELSE <<".">> \o t)
  <2>1. Numbers!Decimals(v, p) = t
    BY ONLY <1>6, <1>8, p \in Nat, Zenon
  <2>2. Numbers!FloatDigits(ticks, places) =
          Numbers!Digits(v \div Numbers!Scale, 10) \o (IF p = 0 THEN << >> ELSE <<".">> \o Numbers!Decimals(v, p))
    BY ONLY <1>1, <1>2, <1>5, Zenon DEF Numbers!FloatDigits, Kept, Magnitude
  <2>3. QED
    BY ONLY <1>7, <2>1, <2>2, Zenon
<1>10. PICK R \in Nat : R = Numbers!Reads(w \o t, 10)
  <2>1. w \o t \in Seq(Digit)
    BY JoinedIs
  <2>2. QED
    BY <2>1, ReadsNat
<1>11. R * (q * (2 * h)) + r = (n + h) * q
  BY ONLY <1>3, <1>4, <1>8, <1>10, Zenon DEF Exact
<1>12. r \in Nat /\ r < q * (2 * h)
  <2>1. r \in Nat /\ r < Numbers!Scale
    BY ScaleIs
  <2>2. QED
    BY ONLY <1>3, <2>1, Zenon
<1>13. R * (2 * h) - n <= h /\ n - R * (2 * h) <= h
  BY <1>3, <1>11, <1>12, HalfAUnit
<1>14. (2 * h) \div 2 = h
  OBVIOUS
<1>15. Near(w, t, p, n, Numbers!Scale \div Numbers!Power(10, p))
  BY ONLY <1>3, <1>10, <1>13, <1>14, Zenon DEF Near
<1>16. QED
  BY ONLY <1>1, <1>2, <1>7, <1>8, <1>9, <1>15, w \in Seq(Digit), t \in Seq(Digit), Zenon

LEMMA SameMembers ==
  ASSUME NEW S, NEW x \in Seq(S), NEW y \in Seq(S), NEW n \in Nat, Len(x) = n, Len(y) = n,
         \A i \in 1 .. n : x[i] = y[i]
  PROVE  x = y
OBVIOUS

\* The two parts of a text with a point c in it, and p characters behind that.
Around(b, p, w, c, t) ==
  /\ b \in Seq(Characters) /\ Len(b) - p > 1 /\ b[Len(b) - p] = c
  /\ SubSeq(b, 1, (Len(b) - p) - 1) = w /\ SubSeq(b, (Len(b) - p) + 1, Len(b)) = t

LEMMA AroundThePoint ==
  ASSUME NEW w \in Seq(Characters), NEW t \in Seq(Characters), NEW c \in Characters,
         NEW b, b = w \o (<<c>> \o t), NEW p \in Nat, p = Len(t), w # << >>
  PROVE  Around(b, p, w, c, t)
<1>1. PICK m \in Nat : m = Len(w) /\ m >= 1
  OBVIOUS
<1>2. PICK d : d = <<c>> \o t
  OBVIOUS
<1>3. d \in Seq(Characters) /\ Len(d) = p + 1 /\ d[1] = c /\ \A i \in 1 .. p : d[i + 1] = t[i]
  <2>1. <<c>> \in Seq(Characters) /\ Len(<<c>>) = 1 /\ <<c>>[1] = c
    OBVIOUS
  <2>2. QED
    BY <1>2, <2>1
<1>4. b = w \o d
  BY <1>2
<1>5. b \in Seq(Characters) /\ Len(b) = m + (p + 1) /\ (\A i \in 1 .. m : b[i] = w[i]) /\ \A i \in 1 .. p + 1 : b[m + i] = d[i]
  <2>1. /\ b \in Seq(Characters) /\ Len(b) = Len(w) + Len(d) /\ (\A i \in 1 .. Len(w) : b[i] = w[i])
        /\ \A i \in 1 .. Len(d) : b[Len(w) + i] = d[i]
    BY <1>3, <1>4, JoinedIs
  <2>2. QED
    BY ONLY <1>1, <1>3, <2>1, Zenon
<1>6. Len(b) - p = m + 1 /\ (Len(b) - p) - 1 = m /\ (Len(b) - p) + 1 = (m + 1) + 1 /\ m + 1 > 1
  BY <1>1, <1>5
<1>7. b[m + 1] = c
  <2>1. 1 \in 1 .. p + 1
    OBVIOUS
  <2>2. QED
    BY <1>3, <1>5, <2>1
<1>8. SubSeq(b, 1, m) = w
  <2>1. PICK x : x = SubSeq(b, 0 + 1, m)
    OBVIOUS
  <2>2. x \in Seq(Characters) /\ Len(x) = m /\ \A i \in 1 .. m : x[i] = b[i]
    BY <1>5, <2>1
  <2>3. x = w
    <3>1. ASSUME NEW i \in 1 .. m PROVE x[i] = w[i]
      BY <1>5, <2>2
    <3>2. QED
      BY <1>1, <2>2, <3>1, SameMembers
  <2>4. 0 + 1 = 1
    OBVIOUS
  <2>5. QED
    BY ONLY <2>1, <2>3, <2>4, Zenon
<1>9. SubSeq(b, (m + 1) + 1, Len(b)) = t
  <2>1. PICK n \in Nat, l \in Nat : n = m + 1 /\ l = Len(b) /\ n <= l /\ l - n = p
    <3>1. m + 1 \in Nat /\ Len(b) \in Nat
      BY <1>5
    <3>2. m + 1 <= Len(b) /\ Len(b) - (m + 1) = p
      BY <1>5
    <3>3. QED
      BY ONLY <3>1, <3>2, Zenon
  <2>2. PICK x : x = SubSeq(b, n + 1, l)
    OBVIOUS
  <2>3. x \in Seq(Characters) /\ Len(x) = l - n /\ \A i \in 1 .. l - n : x[i] = b[n + i]
    <3>1. b \in Seq(Characters)
      BY <1>5
    <3>2. n <= l /\ l <= Len(b)
      BY <1>5, <2>1
    <3>3. /\ SubSeq(b, n + 1, l) \in Seq(Characters) /\ Len(SubSeq(b, n + 1, l)) = l - n
          /\ \A i \in 1 .. l - n : SubSeq(b, n + 1, l)[i] = b[n + i]
      BY ONLY <3>1, <3>2, PieceIs
    <3>4. QED
      BY ONLY <2>2, <3>3, Zenon
  <2>4. ASSUME NEW i \in 1 .. p PROVE x[i] = t[i]
    <3>1. i + 1 \in 1 .. p + 1 /\ m + (i + 1) = n + i
      BY <2>1
    <3>2. b[m + (i + 1)] = d[i + 1]
      BY <1>5, <3>1
    <3>3. d[i + 1] = t[i]
      BY <1>3
    <3>4. x[i] = b[n + i]
      BY <2>1, <2>3
    <3>5. QED
      BY ONLY <3>1, <3>2, <3>3, <3>4, Zenon
  <2>5. x = t
    BY <2>1, <2>3, <2>4
  <2>6. QED
    BY ONLY <2>1, <2>2, <2>5, Zenon
<1>10. QED
  BY ONLY <1>5, <1>6, <1>7, <1>8, <1>9, Zenon DEF Around

LEMMA NoDecimals ==
  ASSUME NEW t \in Seq(Digit), Len(t) = 0
  PROVE  t = << >>
OBVIOUS

\* Of a double: the body of its text is read as the number.
BodyReads(body, p, n) ==
  LET point  == Len(body) - p
      whole  == IF p = 0 THEN body ELSE SubSeq(body, 1, point - 1)
      unit   == Numbers!Scale \div Numbers!Power(10, p)
      actual == Numbers!Reads(IF p = 0 THEN body ELSE whole \o SubSeq(body, point + 1, Len(body)), 10) * unit
  IN  /\ p > 0 => point > 1 /\ body[point] = "."
      /\ Numbers!IsNumber(whole, 10)
      /\ actual - n <= unit \div 2 /\ n - actual <= unit \div 2

\* The digits of a magnitude, read around their point.
LEMMA BodyRead ==
  ASSUME NEW ticks \in Int, NEW places \in Nat
  PROVE  /\ Numbers!FloatDigits(ticks, places) \in Seq(Characters)
         /\ BodyReads(Numbers!FloatDigits(ticks, places), Kept(places), Magnitude(ticks))
<1>1. PICK p \in Nat : p = Kept(places)
  BY NumbersAre DEF Kept
<1>2. PICK w \in Seq(Digit), t \in Seq(Digit) :
        /\ Numbers!FloatDigits(ticks, places) =
             w \o (IF Kept(places) = 0 THEN << >> ELSE <<".">> \o t)
        /\ Len(t) = Kept(places) /\ w # << >> /\ Numbers!IsNumber(w, 10)
        /\ Near(w, t, Kept(places), Magnitude(ticks), Numbers!Scale \div Numbers!Power(10, Kept(places)))
  BY FloatParts
<1>3. PICK b : b = Numbers!FloatDigits(ticks, places)
  OBVIOUS
<1>4. PICK u : u = Numbers!Scale \div Numbers!Power(10, p)
  OBVIOUS
<1>5. PICK n : n = Magnitude(ticks)
  OBVIOUS
<1>6. /\ Numbers!Reads(w \o t, 10) * u - n <= u \div 2
      /\ n - Numbers!Reads(w \o t, 10) * u <= u \div 2
  BY ONLY <1>1, <1>2, <1>4, <1>5, Zenon DEF Near
<1>7. w \in Seq(Characters) /\ t \in Seq(Characters)
  BY DigitsAreChars
<1>8. CASE p = 0
  <2>1. b = w \o << >>
    BY ONLY <1>1, <1>2, <1>3, <1>8, Zenon
  <2>2. t = << >>
    BY <1>1, <1>2, <1>8, NoDecimals
  <2>3. w \o << >> = w
    BY NothingJoined
  <2>4. b = w /\ w \o t = w
    BY ONLY <2>1, <2>2, <2>3, Zenon
  <2>5. ~(p > 0)
    BY <1>8
  <2>6. BodyReads(b, p, n)
    BY ONLY <1>2, <1>4, <1>6, <1>8, <2>4, <2>5, Zenon DEF BodyReads
  <2>7. QED
    BY ONLY <1>1, <1>3, <1>5, <1>7, <2>4, <2>6, Zenon
<1>9. CASE p # 0
  <2>1. PICK c \in Characters : c = "."
    BY DEF Characters
  <2>2. b = w \o (<<c>> \o t)
    BY ONLY <1>1, <1>2, <1>3, <1>9, <2>1, Zenon
  <2>3. p = Len(t)
    BY ONLY <1>1, <1>2, Zenon
  <2>4. PICK point : point = Len(b) - p
    OBVIOUS
  <2>5. /\ b \in Seq(Characters) /\ point > 1 /\ b[point] = c
        /\ SubSeq(b, 1, point - 1) = w /\ SubSeq(b, point + 1, Len(b)) = t
    <3>1. w # << >>
      BY <1>2
    <3>2. Around(b, p, w, c, t)
      BY <1>7, <2>2, <2>3, <3>1, AroundThePoint
    <3>3. QED
      BY ONLY <2>4, <3>2, Zenon DEF Around
  <2>6. BodyReads(b, p, n)
    BY ONLY <1>2, <1>4, <1>6, <1>9, <2>1, <2>4, <2>5, Zenon DEF BodyReads
  <2>7. QED
    BY ONLY <1>1, <1>3, <1>5, <2>5, <2>6, Zenon
<1>10. QED
  BY <1>8, <1>9

\* The digits of a double with its sign, read to half a unit of the last place.
LEMMA FloatRead ==
  ASSUME NEW ticks \in Int, NEW places \in Nat
  PROVE  Numbers!FloatReadsAs((IF ticks < 0 THEN <<"-">> ELSE << >>) \o Numbers!FloatDigits(ticks, places),
                              places, ticks)
<1>1. PICK b \in Seq(Characters) : b = Numbers!FloatDigits(ticks, places)
  BY BodyRead
<1>2. BodyReads(b, Kept(places), Magnitude(ticks))
  BY <1>1, BodyRead
<1>3. PICK x : x = (IF ticks < 0 THEN <<"-">> ELSE << >>) \o b
  OBVIOUS
<1>4. ticks < 0 => x[1] = "-"
  <2>1. SUFFICES ASSUME ticks < 0 PROVE x[1] = "-"
    OBVIOUS
  <2>2. PICK c \in Characters : c = "-"
    BY DEF Characters
  <2>3. (<<c>> \o b)[1] = c
    BY Headed
  <2>4. QED
    BY ONLY <1>3, <2>1, <2>2, <2>3, Zenon
<1>5. PICK y : y = IF ticks < 0 THEN Tail(x) ELSE x
  OBVIOUS
<1>6. y = b
  <2>1. CASE ticks < 0
    <3>1. PICK c \in Characters : c = "-"
      BY DEF Characters
    <3>2. Tail(<<c>> \o b) = b
      BY Headed
    <3>3. QED
      BY ONLY <1>3, <1>5, <2>1, <3>1, <3>2, Zenon
  <2>2. CASE ~(ticks < 0)
    <3>1. << >> \o b = b
      BY NothingJoined
    <3>2. QED
      BY ONLY <1>3, <1>5, <2>2, <3>1, Zenon
  <2>3. QED
    BY <2>1, <2>2
<1>7. BodyReads(y, Kept(places), Magnitude(ticks))
  BY <1>2, <1>6
<1>8. Numbers!FloatReadsAs(x, places, ticks)
  BY ONLY <1>4, <1>5, <1>7, Zenon DEF Numbers!FloatReadsAs, BodyReads, Kept, Magnitude
<1>9. QED
  BY ONLY <1>1, <1>3, <1>8, Zenon

-----------------------------------------------------------------------------
(* The requests *)

\* The text of request r is t, as TextIsValue says it.
Answered(r, t) ==
  LET kind   == r.kind
      v      == r.value
      narrow == r.base % ByteMod
      base   == Numbers!UsedBase(narrow)
      end    == Len(t) - 2
      made(c) == Numbers!IntegerReadsAs(t, base, narrow = 10, v, c)
  IN  /\ kind = "none"             => t = << >>
      /\ kind = "print"            => PrintedIs(t, v, r.base, v % IntMod)
      /\ kind = "print long long"  => PrintedIs(t, v, r.base, v % LongLongMod)
      /\ kind = "String"           => made((v % LongLongMod) % Numbers!Power(base, SmallBuffer - 1))
      /\ kind = "String long long" => made(v % LongLongMod)
      /\ kind = "print double"     => Numbers!FloatReadsAs(t, narrow, v)
      /\ kind = "String double"    => Numbers!FloatReadsAs(t, r.base, v)
      /\ kind = "printf"           => Numbers!SignedReadsAs(t, v)
      /\ kind = "println"          => /\ SubSeq(t, end + 1, end + 2) = LineEnd
                                      /\ Numbers!SignedReadsAs(SubSeq(t, 1, end), v)

\* The count of o tells whether all of t was sent, for the kinds that count.
Counted(r, t, o) == r.kind \in {"println", "printf"} => Tells(o, t)

LEMMA AnsweredIs == (Numbers!TextIsValue <=> Answered(request, text))
BY Zenon DEF Numbers!TextIsValue, Answered, PrintedIs, LineEnd

LEMMA CountedIs == Numbers!CountTellsLoss <=> Counted(request, text, out)
BY Zenon DEF Numbers!CountTellsLoss, Counted, Tells

Request(r, kind, v, b) == r.kind = kind /\ r.value = v /\ r.base = b

LEMMA AskedIs ==
  ASSUME NEW r, NEW kind, NEW v, NEW b, r = [kind |-> kind, value |-> v, base |-> b]
  PROVE  Request(r, kind, v, b)
BY DEF Request

LEMMA NothingAnswered ==
  ASSUME NEW r, NEW o, r.kind = "none"
  PROVE  Answered(r, << >>) /\ Counted(r, << >>, o)
BY Zenon DEF Answered, Counted

LEMMA PrintAnswered ==
  ASSUME NEW v \in Numbers!Signed(IntMod), NEW b \in Int, NEW r, NEW o, Request(r, "print", v, b)
  PROVE  Answered(r, Numbers!PrintInt(v, b, IntMod)) /\ Counted(r, Numbers!PrintInt(v, b, IntMod), o)
<1>1. IntMod \in Nat \ {0} /\ IntMod % ByteMod = 0
  BY NumbersAre
<1>2. PrintedIs(Numbers!PrintInt(v, b, IntMod), v, b, v % IntMod)
  BY <1>1, IntegerPrinted
<1>3. QED
  BY ONLY <1>2, Request(r, "print", v, b), Zenon DEF Answered, Counted, Request

LEMMA PrintLongAnswered ==
  ASSUME NEW v \in Numbers!Signed(LongLongMod), NEW b \in Int, NEW r, NEW o,
         Request(r, "print long long", v, b)
  PROVE  /\ Answered(r, Numbers!PrintInt(v, b, LongLongMod))
         /\ Counted(r, Numbers!PrintInt(v, b, LongLongMod), o)
<1>1. LongLongMod \in Nat \ {0} /\ LongLongMod % ByteMod = 0
  BY NumbersAre
<1>2. PrintedIs(Numbers!PrintInt(v, b, LongLongMod), v, b, v % LongLongMod)
  BY <1>1, IntegerPrinted
<1>3. QED
  BY ONLY <1>2, Request(r, "print long long", v, b), Zenon DEF Answered, Counted, Request

LEMMA MadeAnswered ==
  ASSUME NEW v, NEW b, NEW r, NEW o, NEW t, Request(r, "String", v, b),
         MadeAs(t, v, b, (v % LongLongMod) % Numbers!Power(Numbers!UsedBase(b % ByteMod), SmallBuffer - 1))
  PROVE  Answered(r, t) /\ Counted(r, t, o)
BY Zenon DEF Answered, Counted, Request, MadeAs

LEMMA MadeLongAnswered ==
  ASSUME NEW v, NEW b, NEW r, NEW o, NEW t, Request(r, "String long long", v, b),
         MadeAs(t, v, b, v % LongLongMod)
  PROVE  Answered(r, t) /\ Counted(r, t, o)
BY Zenon DEF Answered, Counted, Request, MadeAs

LEMMA NarrowNat ==
  ASSUME NEW p \in Nat
  PROVE  p % ByteMod \in Nat
<1>1. p \in Int
  OBVIOUS
<1>2. QED
  BY <1>1, NarrowIs

LEMMA PrintFloatAnswered ==
  ASSUME NEW v \in Int, NEW p \in Nat, NEW r, NEW o, Request(r, "print double", v, p)
  PROVE  Answered(r, Numbers!PrintFloat(v, p)) /\ Counted(r, Numbers!PrintFloat(v, p), o)
<1>1. PICK n \in Nat : n = p % ByteMod
  BY NarrowNat
<1>2. Numbers!FloatReadsAs((IF v < 0 THEN <<"-">> ELSE << >>) \o Numbers!FloatDigits(v, n), n, v)
  BY FloatRead
<1>3. Numbers!FloatReadsAs(Numbers!PrintFloat(v, p), p % ByteMod, v)
  BY ONLY <1>1, <1>2, Zenon DEF Numbers!PrintFloat
<1>4. QED
  BY ONLY <1>3, Request(r, "print double", v, p), Zenon DEF Answered, Counted, Request

LEMMA MakeFloatAnswered ==
  ASSUME NEW v \in Int, NEW p \in Nat, NEW r, NEW o, Request(r, "String double", v, p)
  PROVE  Answered(r, Numbers!FormatFloat(v, p)) /\ Counted(r, Numbers!FormatFloat(v, p), o)
<1>1. Numbers!FloatReadsAs((IF v < 0 THEN <<"-">> ELSE << >>) \o Numbers!FloatDigits(v, p), p, v)
  BY FloatRead
<1>2. Numbers!FloatReadsAs(Numbers!FormatFloat(v, p), p, v)
  BY ONLY <1>1, Zenon DEF Numbers!FormatFloat
<1>3. QED
  BY ONLY <1>2, Request(r, "String double", v, p), Zenon DEF Answered, Counted, Request

\* printf() of an int.
LEMMA FormatAnswered ==
  ASSUME NEW v \in Numbers!Signed(IntMod), NEW r, NEW t, NEW o, NEW L, NEW a, NEW memory,
         Request(r, "printf", v, 10), t = Numbers!PrintInt(v, 10, IntMod),
         Takes(a, Numbers!FormattedPieces(t, memory), L),
         o = Numbers!Written(Numbers!FormattedPieces(t, memory), a)
  PROVE  Answered(r, t) /\ Counted(r, t, o)
<1>1. Takes(a, Numbers!FormattedPieces(Numbers!PrintInt(v, 10, IntMod), memory), L)
  OBVIOUS
<1>2. Tells(Numbers!Written(Numbers!FormattedPieces(Numbers!PrintInt(v, 10, IntMod), memory), a),
            Numbers!PrintInt(v, 10, IntMod))
  BY <1>1, FormatTold
<1>3. Tells(o, t) /\ Numbers!SignedReadsAs(t, v)
  BY <1>2, TenReads
<1>4. QED
  BY ONLY <1>3, Request(r, "printf", v, 10), Zenon DEF Answered, Counted, Request

\* A text and two characters behind it.
LEMMA EndOfLine ==
  ASSUME NEW w \in Seq(Characters), NEW e \in Seq(Characters), Len(e) = 2, NEW t, t = w \o e
  PROVE  SubSeq(t, 1, Len(t) - 2) = w /\ SubSeq(t, (Len(t) - 2) + 1, (Len(t) - 2) + 2) = e
<1>1. PICK n \in Nat : n = Len(w)
  OBVIOUS
<1>2. t \in Seq(Characters) /\ Len(t) = n + 2 /\ Len(t) - 2 = n
  <2>1. w \o e \in Seq(Characters) /\ Len(w \o e) = Len(w) + Len(e)
    BY JoinedBeginnings
  <2>2. QED
    BY <1>1, <2>1
<1>3. SubSeq(t, 1, n) = w
  BY <1>1, <1>2
<1>4. SubSeq(t, n + 1, n + 2) = e
  BY <1>1, <1>2
<1>5. QED
  BY ONLY <1>2, <1>3, <1>4, Zenon

\* println() of an int.
LEMMA LineAnswered ==
  ASSUME NEW v \in Numbers!Signed(IntMod), NEW r, NEW t, NEW o, NEW L, NEW a, NEW p,
         Request(r, "println", v, 10),
         p = Numbers!LinePieces(Numbers!PrintPieces(v, 10, IntMod)),
         t = Numbers!FlattenSeq(p), Takes(a, p, L), o = Numbers!Written(p, a)
  PROVE  Answered(r, t) /\ Counted(r, t, o)
<1>1. PICK w : w = Numbers!PrintInt(v, 10, IntMod)
  OBVIOUS
<1>2. Takes(a, Numbers!LinePieces(Numbers!PrintPieces(v, 10, IntMod)), L)
  OBVIOUS
<1>3. w \in Seq(Characters) /\ t = w \o LineEnd /\ Tells(o, t)
  <2>1. LET u == Numbers!PrintInt(v, 10, IntMod)
            q == Numbers!LinePieces(Numbers!PrintPieces(v, 10, IntMod))
        IN  /\ u \in Seq(Characters) /\ Numbers!FlattenSeq(q) = u \o LineEnd
            /\ Tells(Numbers!Written(q, a), u \o LineEnd)
    BY <1>2, LineTold
  <2>2. QED
    BY <1>1, <2>1, Zenon
<1>4. Numbers!SignedReadsAs(w, v)
  BY <1>1, TenReads
<1>5. /\ SubSeq(t, 1, Len(t) - 2) = w
      /\ SubSeq(t, (Len(t) - 2) + 1, (Len(t) - 2) + 2) = LineEnd
  BY <1>3, LineEndIs, EndOfLine
<1>6. QED
  BY ONLY <1>3, <1>4, <1>5, Request(r, "println", v, 10), Zenon DEF Answered, Counted, Request

LEMMA RequestsAre == Numbers!RequestAssumption
BY TextAssumption

\* What Print writes of a number, and what a String is made of it, is read as the
\* number, for every value, base and number of places; and println() and printf() count
\* the length of the text exactly when the device took all of it.
THEOREM NumbersPrintTruly == TextSpec => []PrintsTruly
<1> DEFINE Right == Answered(request, text) /\ Counted(request, text, out)
<1>1. TextInit => PrintsTruly
  <2>1. SUFFICES ASSUME TextInit PROVE PrintsTruly
    OBVIOUS
  <2>2. request.kind = "none" /\ text = << >>
    BY <2>1 DEF TextInit, Numbers!Init, Numbers!NoRequest
  <2>3. Right
    BY <2>2, NothingAnswered
  <2>4. QED
    BY <2>3, AnsweredIs, CountedIs DEF PrintsTruly, Numbers!PrintsTruly
<1>2. PrintsTruly /\ [StringNext \/ NumbersNext \/ StreamNext]_allVars => PrintsTruly'
  <2>1. SUFFICES ASSUME PrintsTruly, [StringNext \/ NumbersNext \/ StreamNext]_allVars
                 PROVE  PrintsTruly'
    OBVIOUS
  <2>2. Right' => PrintsTruly'
    <3>1. (Numbers!TextIsValue <=> Answered(request, text))'
      BY AnsweredIs, PTL
    <3>2. (Numbers!CountTellsLoss <=> Counted(request, text, out))'
      BY CountedIs, PTL
    <3>3. QED
      BY <3>1, <3>2 DEF PrintsTruly, Numbers!PrintsTruly
  <2>3. /\ \A b \in Bases : b \in Int
        /\ \A v \in Ticks : v \in Int
        /\ \A p \in Places : p \in Nat
    BY RequestsAre DEF Numbers!RequestAssumption
  <2>4. CASE NumbersNext
    <3>1. CASE Numbers!PrintsInt
      <4>1. PICK v \in Numbers!Signed(IntMod), b \in Bases :
               Numbers!Asked("print", v, b) /\ text' = Numbers!PrintInt(v, b, IntMod)
        BY <3>1 DEF Numbers!PrintsInt
      <4>2. Request(request', "print", v, b)
        BY <4>1, AskedIs DEF Numbers!Asked
      <4>3. QED
        BY <2>2, <2>3, <4>1, <4>2, PrintAnswered
    <3>2. CASE Numbers!MakesInt
      <4>1. PICK v \in Numbers!Signed(IntMod), b \in Bases :
               Numbers!Asked("String", v, b) /\ text' = Numbers!StringOfInt(v, b)
        BY <3>2 DEF Numbers!MakesInt
      <4>2. Request(request', "String", v, b)
        BY <4>1, AskedIs DEF Numbers!Asked
      <4>3. MadeAs(text', v, b,
                   (v % LongLongMod) % Numbers!Power(Numbers!UsedBase(b % ByteMod), SmallBuffer - 1))
        BY <2>3, <4>1, IntMade
      <4>4. QED
        BY <2>2, <4>2, <4>3, MadeAnswered
    <3>3. CASE Numbers!MakesUnsigned
      <4>1. PICK v \in 0 .. IntMod - 1, b \in Bases :
               Numbers!Asked("String", v, b) /\ text' = Numbers!StringOfUnsigned(v, b)
        BY <3>3 DEF Numbers!MakesUnsigned
      <4>2. Request(request', "String", v, b)
        BY <4>1, AskedIs DEF Numbers!Asked
      <4>3. MadeAs(text', v, b,
                   (v % LongLongMod) % Numbers!Power(Numbers!UsedBase(b % ByteMod), SmallBuffer - 1))
        BY <2>3, <4>1, UnsignedMade
      <4>4. QED
        BY <2>2, <4>2, <4>3, MadeAnswered
    <3>4. CASE Numbers!PrintsLong
      <4>1. PICK v \in Numbers!Signed(LongLongMod), b \in Bases :
               Numbers!Asked("print long long", v, b) /\ text' = Numbers!PrintInt(v, b, LongLongMod)
        BY <3>4 DEF Numbers!PrintsLong
      <4>2. Request(request', "print long long", v, b)
        BY <4>1, AskedIs DEF Numbers!Asked
      <4>3. QED
        BY <2>2, <2>3, <4>1, <4>2, PrintLongAnswered
    <3>5. CASE Numbers!MakesLong
      <4>1. PICK v \in Numbers!Signed(LongLongMod), b \in Bases :
               Numbers!Asked("String long long", v, b) /\ text' = Numbers!StringOfLongLong(v, b)
        BY <3>5 DEF Numbers!MakesLong
      <4>2. Request(request', "String long long", v, b)
        BY <4>1, AskedIs DEF Numbers!Asked
      <4>3. MadeAs(text', v, b, v % LongLongMod)
        BY <2>3, <4>1, LongLongMade
      <4>4. QED
        BY <2>2, <4>2, <4>3, MadeLongAnswered
    <3>6. CASE Numbers!PrintsFloat
      <4>1. PICK v \in Ticks, p \in Places :
               Numbers!Asked("print double", v, p) /\ text' = Numbers!PrintFloat(v, p)
        BY <3>6 DEF Numbers!PrintsFloat
      <4>2. Request(request', "print double", v, p)
        BY <4>1, AskedIs DEF Numbers!Asked
      <4>3. QED
        BY <2>2, <2>3, <4>1, <4>2, PrintFloatAnswered
    <3>7. CASE Numbers!MakesFloat
      <4>1. PICK v \in Ticks, p \in Places :
               Numbers!Asked("String double", v, p) /\ text' = Numbers!FormatFloat(v, p)
        BY <3>7 DEF Numbers!MakesFloat
      <4>2. Request(request', "String double", v, p)
        BY <4>1, AskedIs DEF Numbers!Asked
      <4>3. QED
        BY <2>2, <2>3, <4>1, <4>2, MakeFloatAnswered
    <3>8. CASE Numbers!PrintsLine
      <4>1. PICK v \in Numbers!Signed(IntMod) :
               LET pieces == Numbers!LinePieces(Numbers!PrintPieces(v, 10, IntMod))
               IN  /\ Numbers!Asked("println", v, 10) /\ text' = Numbers!FlattenSeq(pieces)
                   /\ Numbers!Sends(pieces)
        BY <3>8 DEF Numbers!PrintsLine
      <4>2. PICK p : p = Numbers!LinePieces(Numbers!PrintPieces(v, 10, IntMod))
        OBVIOUS
      <4>3. Request(request', "println", v, 10) /\ text' = Numbers!FlattenSeq(p) /\ Numbers!Sends(p)
        BY <4>1, <4>2, AskedIs DEF Numbers!Asked
      <4>4. PICK a : Takes(a, p, Len(text')) /\ out' = Numbers!Written(p, a)
        BY ONLY <4>3, Zenon DEF Numbers!Sends, Takes
      <4>5. QED
        BY <2>2, <4>2, <4>3, <4>4, LineAnswered
    <3>9. CASE Numbers!Formats
      <4>1. PICK v \in Numbers!Signed(IntMod), memory \in BOOLEAN :
               /\ Numbers!Asked("printf", v, 10) /\ text' = Numbers!PrintInt(v, 10, IntMod)
               /\ Numbers!Sends(Numbers!FormattedPieces(text', memory))
        BY <3>9 DEF Numbers!Formats
      <4>2. Request(request', "printf", v, 10)
        BY <4>1, AskedIs DEF Numbers!Asked
      <4>3. PICK a : /\ Takes(a, Numbers!FormattedPieces(text', memory), Len(text'))
                     /\ out' = Numbers!Written(Numbers!FormattedPieces(text', memory), a)
        BY ONLY <4>1, Zenon DEF Numbers!Sends, Takes
      <4>4. QED
        BY <2>2, <4>1, <4>2, <4>3, FormatAnswered
    <3>10. CASE Numbers!Forget
      <4>1. request'.kind = "none" /\ text' = << >>
        BY <3>10 DEF Numbers!Forget, Numbers!NoRequest
      <4>2. QED
        BY <2>2, <4>1, NothingAnswered
    <3>11. QED
      BY <2>4, <3>1, <3>2, <3>3, <3>4, <3>5, <3>6, <3>7, <3>8, <3>9, <3>10 DEF NumbersNext, Numbers!Next
  <2>5. CASE UNCHANGED numbersVars
    BY <2>1, <2>5 DEF numbersVars, PrintsTruly, Numbers!PrintsTruly, Numbers!TextIsValue,
                      Numbers!CountTellsLoss
  <2>6. QED
    BY <2>1, <2>4, <2>5 DEF StringNext, StreamNext, allVars
<1>3. QED
  BY <1>1, <1>2, PTL DEF TextSpec

=============================================================================
