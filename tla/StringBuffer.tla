----------------------------- MODULE StringBuffer -----------------------------
(***************************************************************************)
(* A String (WString.cpp): its buffer, what every call makes of it when    *)
(* memory is short, and what the calls that only look at it answer.  The   *)
(* other strings a call is given are texts.  A call on a temporary String  *)
(* is part of the call that makes it.                                      *)
(***************************************************************************)
EXTENDS Integers, Sequences, SequencesExt, FiniteSetsExt

CONSTANTS
  Texts,     \* texts a sketch passes, without NUL
  MaxLen,    \* longest text
  MaxFree    \* largest block malloc may have

NUL == "NUL"
Chars == {"a", "A", " ", NUL}

StringAssumption ==
  /\ MaxLen \in Nat /\ MaxFree \in Nat
  /\ \A t \in Texts : t \in Seq(Chars \ {NUL}) /\ Len(t) <= MaxLen

VARIABLES
  s,      \* the String: text, its length_ bytes, and cap, its capacity_; cap = 0 is no buffer
  free,   \* the largest block there is
  last    \* history: the last call, what it should make of the text, what it told

vars == <<s, free, last>>

Empty == [text |-> <<>>, cap |-> 0]

Bounded(t) == Len(t) <= MaxLen

-----------------------------------------------------------------------------
(* Memory *)

\* c_str() of a text, as far as the functions of C look at it.
CStr(text) ==
  LET nuls == {i \in DOMAIN text : text[i] = NUL}
  IN  IF nuls = {} THEN text ELSE SubSeq(text, 1, Min(nuls) - 1)

\* Mutant of Reserve: no byte for the NUL.
ReserveNoNul(o, size) ==
  IF size <= o.cap THEN [ok |-> TRUE, obj |-> o]
  ELSE [ok |-> size <= free, obj |-> IF size <= free THEN [o EXCEPT !.cap = size] ELSE o]

Reserve(o, size) ==
  IF size + 1 <= o.cap THEN [ok |-> TRUE, obj |-> o]
  ELSE IF size + 1 <= free THEN [ok |-> TRUE, obj |-> [o EXCEPT !.cap = size + 1]]
  ELSE [ok |-> FALSE, obj |-> o]

\* The text of o becomes text, if there is memory for it.
Become(o, text) ==
  LET r == Reserve(o, Len(text))
  IN  IF r.ok THEN [r EXCEPT !.obj.text = text] ELSE r

Assign(o, text) == Become(o, text)
Concat(o, text) == Become(o, o.text \o text)

\* A String made of a text, and one made of what a number prints as; they may be
\* empty for want of memory.
Made(text)    == Assign(Empty, CStr(text))
Number(text)  == Assign(Empty, text)

Init == s = Empty /\ free = MaxFree /\ last = [was |-> <<>>, want |-> <<>>, told |-> "nothing", starved |-> FALSE]

\* The call leaves result.obj and tells told; want is the text it is called for,
\* starved that a String it made for itself found no memory.
Done(obj, want, told, starved) ==
  /\ s' = obj
  /\ last' = [was |-> s.text, want |-> want, told |-> told, starved |-> starved]
  /\ UNCHANGED free

Told(r) == IF r.ok THEN "success" ELSE "failure"

\* Other tasks allocate and free.
MemoryChanges ==
  /\ free' \in 0 .. MaxFree
  /\ UNCHANGED <<s, last>>

-----------------------------------------------------------------------------
(* Calls that change the text *)

Reserves(size) ==
  LET r == Reserve(s, size) IN Done(r.obj, s.text, Told(r), FALSE)

\* A new String, or StringSumHelper, takes the place of the String, which is
\* destroyed.
Constructs(text) ==
  /\ s' = Made(text).obj
  /\ last' = [was |-> <<>>, want |-> CStr(text), told |-> "nothing", starved |-> FALSE]
  /\ UNCHANGED free

\* operator=, from a text or from another String, of which it takes c_str().
Assigns(text) ==
  LET r == Assign(s, CStr(text)) IN Done(r.obj, CStr(text), "nothing", FALSE)

\* concat of a text, of bytes or of a character; a NUL character is an empty text.
ConcatsText(text) ==
  LET r == Concat(s, text) IN Bounded(s.text \o text) /\ Done(r.obj, s.text \o text, Told(r), FALSE)

\* concat of a number makes a String of it first.
ConcatsNumber(text) ==
  LET t == Number(text)
      r == Concat(s, t.obj.text)
  IN  Bounded(s.text \o text) /\ Done(r.obj, s.text \o text, Told(r), ~t.ok)

\* operator+= of texts and numbers, which does not tell.
Appends(text) ==
  LET r == Concat(s, text) IN Bounded(s.text \o text) /\ Done(r.obj, s.text \o text, "nothing", FALSE)

AppendsNumber(text) ==
  LET t == Number(text)
      r == Concat(s, t.obj.text)
  IN  Bounded(s.text \o text) /\ Done(r.obj, s.text \o text, "nothing", ~t.ok)

\* s += s: the text is copied out of the buffer that reserve() has just replaced,
\* and freed, unless there was room.
ConcatsItself ==
  LET text == CStr(s.text)
      room == Len(s.text \o text) + 1 <= s.cap
      r(copied) == Concat(s, copied)
  IN  /\ Bounded(s.text \o text)
      /\ \E copied \in IF room THEN {text} ELSE {text} \cup [1 .. Len(text) -> {"a"}] :
           Done(r(copied).obj, s.text \o text, Told(r(copied)), ~room)

\* s = s + text, and s = s + number: a copy of s, to which the right side is added.
Adds(text) ==
  LET copy == Made(s.text)
      sum  == Concat(copy.obj, text)
      r    == Assign(s, sum.obj.text)
  IN  Bounded(s.text \o text) /\ Done(r.obj, CStr(s.text) \o text, "nothing", ~copy.ok \/ ~sum.ok)

AddsNumber(text) ==
  LET copy == Made(s.text)
      t    == Number(text)
      sum  == Concat(copy.obj, t.obj.text)
      r    == Assign(s, sum.obj.text)
  IN  /\ Bounded(s.text \o text)
      /\ Done(r.obj, CStr(s.text) \o text, "nothing", ~copy.ok \/ ~t.ok \/ ~sum.ok)

RemovesFrom(index) ==
  /\ index < Len(s.text)
  /\ Done([s EXCEPT !.text = SubSeq(s.text, 1, index)], SubSeq(s.text, 1, index), "success", FALSE)

\* Mutant of Cut: the character behind the removed ones goes, too.
CutOneMore(text, index, count) ==
  IF index >= Len(text) \/ count = 0 THEN text
  ELSE SubSeq(text, 1, index) \o SubSeq(text, index + count + 2, Len(text))

\* remove(index, count), for an index + count that does not wrap.
Cut(text, index, count) ==
  IF index >= Len(text) \/ count = 0 THEN text
  ELSE IF index + count >= Len(text) THEN SubSeq(text, 1, index)
  ELSE SubSeq(text, 1, index) \o SubSeq(text, index + count + 1, Len(text))

Removes(index, count) ==
  LET gone == Max({0, Min({count, Len(s.text) - index})})
      kept == [i \in 1 .. Len(s.text) - gone |-> IF i <= index THEN s.text[i] ELSE s.text[i + gone]]
  IN  Done([s EXCEPT !.text = Cut(s.text, index, count)], kept, "success", FALSE)

\* setCharAt and a character stored through operator[].
SetsChar(index, c) ==
  LET text == IF index < Len(s.text) THEN [s.text EXCEPT ![index + 1] = c] ELSE s.text
  IN  Done([s EXCEPT !.text = text], text, "success", FALSE)

ReplacesChar(find, by) ==
  LET text == [i \in DOMAIN s.text |-> IF s.text[i] = find THEN by ELSE s.text[i]]
  IN  Done([s EXCEPT !.text = text], text, "success", FALSE)

Lower(c) == IF c = "A" THEN "a" ELSE c
Upper(c) == IF c = "a" THEN "A" ELSE c

ChangesCase ==
  \E text \in {[i \in DOMAIN s.text |-> Lower(s.text[i])], [i \in DOMAIN s.text |-> Upper(s.text[i])]} :
    Done([s EXCEPT !.text = text], text, "success", FALSE)

\* trim: from the first character that is not a space to the last one.
Trim(text) ==
  LET start == Min({i \in 1 .. Len(text) + 1 : i > Len(text) \/ text[i] # " "})
      end   == Max({i \in start - 1 .. Len(text) : i = start - 1 \/ text[i] # " "})
  IN  SubSeq(text, start, end)

Trims ==
  /\ s.cap > 0
  /\ Done([s EXCEPT !.text = Trim(s.text)], Trim(s.text), "success", FALSE)

\* indexOf(String, from), which stops at a NUL.
IndexOf(text, value, from) ==
  IF from > Len(text) THEN -1
  ELSE LET rest  == CStr(SubSeq(text, from + 1, Len(text)))
           found == {i \in 0 .. Len(rest) - Len(value) : IsPrefix(value, SubSeq(rest, i + 1, Len(rest)))}
       IN  IF found = {} THEN -1 ELSE from + Min(found)

\* One round of the loop of replace(String, String), from a cursor on: the chunk up
\* to the next match and the replacement, or all that is left, are added to a result
\* of its own.  A chunk there is no memory for is left out, and the loop goes on.
ReplaceRound(text, find, by, r) ==
  LET match == IndexOf(text, find, r.cursor)
      chunk == IF match < 0 THEN CStr(SubSeq(text, r.cursor + 1, Len(text))) ELSE SubSeq(text, r.cursor + 1, match)
      first == Concat(r.obj, chunk)
      next  == Concat(first.obj, by)
  IN  IF r.cursor >= Len(text) THEN r
      ELSE IF match < 0 THEN [cursor |-> Len(text), obj |-> first.obj, starved |-> r.starved \/ ~first.ok]
      ELSE [cursor |-> match + Len(find), obj |-> next.obj, starved |-> r.starved \/ ~first.ok \/ ~next.ok]

\* No text takes more rounds than it has characters.
ReplaceLoop(text, find, by) ==
  LET after[n \in 0 .. Len(text)] ==
        IF n = 0 THEN [cursor |-> 0, obj |-> Empty, starved |-> FALSE]
        ELSE ReplaceRound(text, find, by, after[n - 1])
  IN  after[Len(text)]

\* The text with every occurrence replaced, from left to right, that a reader of
\* the text expects: what its last n characters become.
Replaced(text, find, by) ==
  LET become[n \in 0 .. Len(text)] ==
        LET rest == SubSeq(text, Len(text) - n + 1, Len(text))
        IN  IF n = 0 THEN <<>>
            ELSE IF IsPrefix(find, rest) THEN by \o become[n - Len(find)]
            ELSE <<rest[1]>> \o become[n - 1]
  IN  become[Len(text)]

\* *this = result comes last, whatever the result is.
Replaces(find, by) ==
  LET result == ReplaceLoop(s.text, find, by)
      want   == Replaced(CStr(s.text), find, by)
      r      == Assign(s, result.obj.text)
  IN  /\ find # <<>> /\ s.cap > 0
      /\ Bounded(want)
      /\ Done(r.obj, want, "nothing", result.starved \/ CStr(s.text) # s.text)

\* substring(b, e), the bounds in either order.
Between(text, b, e) ==
  LET from == IF b > e THEN e ELSE b
      to   == IF b > e THEN b ELSE e
  IN  IF from >= Len(text) THEN <<>>
      ELSE SubSeq(text, from + 1, IF to > Len(text) THEN Len(text) ELSE to)

\* s = s.substring(b, e).
TakesSubstring(b, e) ==
  LET t == Assign(Empty, Between(s.text, b, e))
      r == Assign(s, CStr(t.obj.text))
  IN  Done(r.obj, CStr(Between(s.text, b, e)), "nothing", ~t.ok)

-----------------------------------------------------------------------------
(* Calls that look at the text *)

\* indexOf(char, from); strchr finds the NUL at the end, too.
IndexOfChar(text, c, from) ==
  LET rest == CStr(SubSeq(text, from + 1, Len(text))) \o <<NUL>>
  IN  IF from >= Len(text) \/ \A i \in DOMAIN rest : rest[i] # c THEN -1
      ELSE from + Min({i \in DOMAIN rest : rest[i] = c}) - 1

LastIndexOfChar(text, c, from) ==
  LET found == {i \in 0 .. Len(text) - 1 : i <= from /\ text[i + 1] = c}
  IN  IF found = {} THEN -1 ELSE Max(found)

\* Mutant of LastIndexOf: from counts where the value ends.
LastIndexOfEnd(text, value, from) ==
  LET found == {i \in 0 .. Len(text) - Len(value) : i + Len(value) <= from /\ CStr(SubSeq(text, i + 1, i + Len(value))) = value}
  IN  IF value = <<>> THEN (IF from < Len(text) THEN from ELSE Len(text))
      ELSE IF found = {} THEN -1 ELSE Max(found)

\* lastIndexOf(String, from): from is where the last match may start; strncmp
\* compares.
LastIndexOf(text, value, from) ==
  LET found == {i \in 0 .. Len(text) - Len(value) : i <= from /\ CStr(SubSeq(text, i + 1, i + Len(value))) = value}
  IN  IF value = <<>> THEN (IF from < Len(text) THEN from ELSE Len(text))
      ELSE IF found = {} THEN -1 ELSE Max(found)

StartsWith(text, prefix, offset) ==
  /\ offset <= Len(text) /\ Len(prefix) <= Len(text) - offset
  /\ CStr(SubSeq(text, offset + 1, offset + Len(prefix))) = prefix

EndsWith(text, suffix) ==
  /\ Len(suffix) <= Len(text)
  /\ CStr(SubSeq(text, Len(text) - Len(suffix) + 1, Len(text))) = suffix

Code(c) == CASE c = NUL -> 0 [] c = " " -> 32 [] c = "A" -> 65 [] c = "a" -> 97

\* The character that charAt() and the functions of C see: a NUL beyond the end.
At(text, i) == IF i <= Len(text) THEN text[i] ELSE NUL

\* strcmp, and compareTo with it: the difference at the first place that differs.
Compare(left, right) ==
  LET l == CStr(left)
      r == CStr(right)
      differ == {i \in 1 .. Max({Len(l), Len(r)}) : At(l, i) # At(r, i)}
  IN  IF differ = {} THEN 0 ELSE Code(At(l, Min(differ))) - Code(At(r, Min(differ)))

Equal(left, right) == Compare(left, right) = 0
Less(left, right)  == Compare(left, right) < 0

EqualsIgnoreCase(left, right) ==
  Compare([i \in DOMAIN CStr(left) |-> Lower(left[i])], [i \in DOMAIN CStr(right) |-> Lower(right[i])]) = 0

\* All bytes are looked at, and the lengths, of which the difference is kept as a
\* byte.
EqualsConstantTime(left, right) ==
  /\ Len(left) % 256 = Len(right) % 256
  /\ \A i \in 1 .. Max({Len(left), Len(right)}) : At(left, i) = At(right, i)

\* getBytes and toCharArray: what a buffer of size bytes holds up to its NUL.
GetBytes(text, size, index) ==
  IF size = 0 THEN <<>>
  ELSE IF index >= Len(text) THEN <<NUL>>
  ELSE Append(SubSeq(text, index + 1, IF Len(text) - index < size - 1 THEN Len(text) ELSE index + size - 1), NUL)

-----------------------------------------------------------------------------

Indexes == 0 .. MaxLen + 1

Next ==
  \/ MemoryChanges \/ ConcatsItself \/ Trims
  \/ ChangesCase
  \/ \E t \in Texts : \/ Constructs(t) \/ Assigns(t)
                      \/ ConcatsText(t) \/ Appends(t) \/ Adds(t)
                      \/ ConcatsNumber(t) \/ AppendsNumber(t) \/ AddsNumber(t)
  \/ \E c \in Chars : ConcatsText(<<c>>) \/ ConcatsText(CStr(<<c>>))
  \/ \E size \in 0 .. MaxFree : Reserves(size)
  \/ \E i \in Indexes : \/ RemovesFrom(i)
                        \/ \E n \in Indexes : Removes(i, n) \/ TakesSubstring(i, n)
                        \/ \E c \in Chars : SetsChar(i, c)
  \/ \E find, by \in Chars : ReplacesChar(find, by)
  \/ \E find, by \in Texts : Replaces(find, by)

Spec == Init /\ [][Next]_vars

-----------------------------------------------------------------------------
(* Properties *)

\* Every variable has the values its declaration promises.
TypeOK ==
  /\ s.text \in Seq(Chars) /\ Len(s.text) <= MaxLen /\ s.cap \in Nat
  /\ free \in 0 .. MaxFree

\* A buffer has room for the text and the NUL behind it, and a String without one
\* is empty, after any calls and any failures of malloc.
BufferHoldsText == s.text = <<>> \/ Len(s.text) < s.cap

\* A call that reports success has made the text it is called for, one that reports
\* failure has kept the text, and one that reports nothing has done one or the
\* other: no part of a text is lost or added, also when malloc fails.  It takes
\* that a call that makes Strings of its own has the memory for them; a replace()
\* that has not loses what it cannot copy.
AllOrNothing ==
  ~last.starved =>
    CASE last.told = "nothing" -> s.text \in {last.want, last.was}
      [] last.told = "success" -> s.text = last.want
      [] last.told = "failure" -> s.text = last.was

\* The buffer and its text are sound, and every variable has the values its
\* declaration promises.
StringInv == TypeOK /\ BufferHoldsText /\ AllOrNothing

\* What the calls answer about a text without NUL fits together: a position that
\* is found is where the substring is the value, and the first or the last such;
\* beginnings, ends, comparisons and copies agree with substrings.
AnswersAgree ==
  LET text == s.text
      Is(v, i) == i + Len(v) <= Len(text) /\ Between(text, i, i + Len(v)) = v
      Occurrences(v) == {i \in 0 .. Len(text) : Is(v, i)}
  IN  text = CStr(text) =>
        \A v \in Texts :
          /\ Equal(text, v) = (text = v)
          /\ Less(text, v) <=> ~Less(v, text) /\ text # v
          /\ EqualsConstantTime(text, v) = (text = v)
          /\ text = v => EqualsIgnoreCase(text, v)
          /\ EndsWith(text, v) = (Len(v) <= Len(text) /\ Is(v, Len(text) - Len(v)))
          /\ \A from \in Indexes :
               LET after  == {i \in Occurrences(v) : i >= from}
                   before == {i \in Occurrences(v) : i <= from}
               IN  /\ StartsWith(text, v, from) = (from \in Occurrences(v))
                   /\ IndexOf(text, v, from) = IF after = {} THEN -1 ELSE Min(after)
                   /\ LastIndexOf(text, v, from) = IF before = {} THEN -1 ELSE Max(before)
                   /\ Len(v) = 1 /\ from < Len(text) => IndexOfChar(text, v[1], from) = IndexOf(text, v, from)
                   /\ Len(v) = 1 => LastIndexOfChar(text, v[1], from) = LastIndexOf(text, v, from)
                   /\ Between(text, from, from + 1) = (IF from < Len(text) THEN <<text[from + 1]>> ELSE <<>>)
                   /\ GetBytes(text, from + 1, 0) = Append(Between(text, 0, from), NUL)

=============================================================================
