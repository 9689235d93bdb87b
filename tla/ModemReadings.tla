----------------------------- MODULE ModemReadings -----------------------------
(***************************************************************************)
(* The APN settings and the decoders of signal, cell and identity of       *)
(* arduino_modem_io.c.                                                     *)
(***************************************************************************)
EXTENDS Integers, Sequences, SequencesExt

CONSTANTS
  Cids,        \* context ids that setAPN and getAPN are called with
  MaxCid,      \* the largest valid one, 15
  MaxApn,      \* CMI_PS_MAX_APN_LEN
  MaxText,     \* the longest text the modem reports
  BufferSizes, \* sizes of the buffers a sketch passes
  RsrpRaws, RsrqRaws, Csqs,  \* raw values of a signal report
  Codes        \* country and network codes

ReadingsAssumption ==
  /\ {MaxCid, MaxApn, MaxText} \subseteq Nat /\ Cids \subseteq Nat /\ BufferSizes \subseteq Nat
  /\ Codes \subseteq 0 .. 999 /\ Csqs \subseteq 0 .. 255
  /\ RsrpRaws \subseteq -128 .. 127 /\ RsrqRaws \subseteq -128 .. 127

VARIABLES
  apns,    \* the APN of each context, a sequence of characters
  set,     \* history: what the sketch last set of each context, in a set
  reading  \* the last value decoded for the sketch

vars == <<apns, set, reading>>

\* Characters: one that an APN may have, another printable one, a control one.
Chars == {"a", "#", "^"}
Texts(n) == UNION {[1 .. k -> Chars] : k \in 0 .. n}

-----------------------------------------------------------------------------
(* Decoders *)

\* Division of C, which rounds towards zero.
Quotient(a, b) == IF a >= 0 THEN a \div b ELSE -((-a) \div b)

\* The digit at a place of a code: 1, 16 or 256.
Nibble(n, place) == (n \div place) % 16
Bcd3ToNumber(n)  == Nibble(n, 256) * 100 + Nibble(n, 16) * 10 + Nibble(n, 1)
\* A code of two digits is marked as such beside its digits.
BcdMncToNumber(n, two) ==
  IF two THEN [mnc |-> Nibble(n, 16) * 10 + Nibble(n, 1), digits |-> 2]
         ELSE [mnc |-> Bcd3ToNumber(n), digits |-> 3]

RsrpRawIsValid(raw) == raw >= -17 /\ raw <= 97
RsrqRawIsValid(raw) == raw > -30 /\ raw <= 46
CsqRssiIsValid(csq) == csq <= 31
RsrpRawToDbm(raw)   == raw - 141
RsrqRawToDb(raw)    == Quotient(IF raw <= 34 THEN raw - 40 ELSE raw - 41, 2)
CsqToRssiDbm(csq)   == IF csq = 0 THEN -113 ELSE IF csq >= 31 THEN -51 ELSE -113 + 2 * csq

Printable(c) == c # "^"

\* Mutant of CopyBounded: no room is left for the terminator.
CopyBoundedFull(size, text) ==
  LET room == SubSeq(text, 1, IF size < Len(text) THEN size ELSE Len(text))
      bad  == SelectInSeq(room, LAMBDA c : ~Printable(c))
  IN  IF bad = 0 THEN room ELSE SubSeq(room, 1, bad - 1)

\* arduinoModemCopyBoundedString: what fits, up to the first character that does
\* not print.
CopyBounded(size, text) ==
  LET room == SubSeq(text, 1, IF size - 1 < Len(text) THEN size - 1 ELSE Len(text))
      bad  == SelectInSeq(room, LAMBDA c : ~Printable(c))
  IN  IF bad = 0 THEN room ELSE SubSeq(room, 1, bad - 1)

\* An APN may be empty; the length is that of the SDK's field.
ValidateApn(text) == Len(text) <= MaxApn /\ \A i \in DOMAIN text : text[i] = "a"

-----------------------------------------------------------------------------
(* Operations *)

Init ==
  /\ apns = [c \in 0 .. MaxCid |-> <<>>] /\ set = [c \in 0 .. MaxCid |-> {}]
  /\ reading = [kind |-> "none"]

\* setAPN: contexts and characters are checked; the modem may refuse.
SetAPN(cid, text) ==
  /\ \/ /\ cid <= MaxCid /\ ValidateApn(text)
        /\ apns' = [apns EXCEPT ![cid] = text]
        /\ set' = [set EXCEPT ![cid] = {text}]
        /\ reading' = [kind |-> "set", ok |-> TRUE]
     \/ UNCHANGED <<apns, set>> /\ reading' = [kind |-> "set", ok |-> FALSE]

GetAPN(cid, size) ==
  /\ reading' =
       IF size > 0 /\ cid <= MaxCid
       THEN [kind |-> "apn", cid |-> cid, size |-> size, text |-> CopyBounded(size, apns[cid])]
       ELSE [kind |-> "none"]
  /\ UNCHANGED <<apns, set>>

\* A number of the identity: it counts as valid if a character is left of it.
GetIdentity(text, size) ==
  /\ size > 0
  /\ LET copy == CopyBounded(size, text)
     IN  reading' = [kind |-> "identity", of |-> text, size |-> size, text |-> copy, valid |-> copy # <<>>]
  /\ UNCHANGED <<apns, set>>

GetSignal(csq, rsrp, rsrq) ==
  /\ reading' =
       [kind |-> "signal",
        rssi |-> IF CsqRssiIsValid(csq) THEN {CsqToRssiDbm(csq)} ELSE {},
        rsrp |-> IF RsrpRawIsValid(rsrp) THEN {RsrpRawToDbm(rsrp)} ELSE {},
        rsrq |-> IF RsrqRawIsValid(rsrq) THEN {RsrqRawToDb(rsrq)} ELSE {},
        raw |-> <<csq, rsrp, rsrq>>]
  /\ UNCHANGED <<apns, set>>

\* The modem writes codes digit by digit.
Bcd(n) == (n \div 100) * 256 + ((n \div 10) % 10) * 16 + (n % 10)

GetCellInfo(mcc, mnc, two) ==
  /\ two => mnc < 100
  /\ reading' =
       [kind |-> "cell", mcc |-> Bcd3ToNumber(Bcd(mcc)), mnc |-> BcdMncToNumber(Bcd(mnc), two),
        of |-> <<mcc, mnc, two>>]
  /\ UNCHANGED <<apns, set>>

Next ==
  \/ \E cid \in Cids :
       \/ \E size \in BufferSizes : GetAPN(cid, size)
       \/ \E text \in Texts(MaxApn + 1) : SetAPN(cid, text)
  \/ \E text \in Texts(MaxText), size \in BufferSizes : GetIdentity(text, size)
  \/ \E csq \in Csqs, rsrp \in RsrpRaws, rsrq \in RsrqRaws : GetSignal(csq, rsrp, rsrq)
  \/ \E mcc \in Codes, mnc \in Codes, two \in BOOLEAN : GetCellInfo(mcc, mnc, two)

Spec == Init /\ [][Next]_vars
-----------------------------------------------------------------------------
(* Properties *)

\* The text is the longest that fits and prints.
CopyIsLongest(text, copy, size) ==
  /\ IsPrefix(copy, text) /\ Len(copy) < size /\ \A i \in DOMAIN copy : Printable(copy[i])
  /\ Len(copy) < Len(text) /\ Len(copy) < size - 1 => ~Printable(text[Len(copy) + 1])

\* Levels rise with their raw values, in steps that leave no gap at the borders
\* of the formulas, and stay in the range of the standard.
SignalSound ==
  LET raw == reading.raw IN
  /\ reading.rssi = {} \/ (\E v \in reading.rssi : v \in -113 .. -51 /\ v - CsqToRssiDbm(raw[1] + 1) \in {0, -2})
  /\ \A v \in reading.rsrp : v \in -158 .. -44
  /\ \A v \in reading.rsrq : v \in -34 .. 2 /\ RsrqRawToDb(raw[3] + 1) - v \in {0, 1}

\* An APN reads back as it was set and every identity as long as it prints; codes
\* and levels mean what the modem meant.
ReadingSound ==
  CASE reading.kind = "apn" ->
         \A text \in set[reading.cid] : CopyIsLongest(text, reading.text, reading.size)
    [] reading.kind = "identity" ->
         /\ CopyIsLongest(reading.of, reading.text, reading.size)
         /\ reading.valid <=> reading.size > 1 /\ reading.of # <<>> /\ Printable(reading.of[1])
    [] reading.kind = "signal" -> SignalSound
    [] reading.kind = "cell" ->
         /\ reading.mcc = reading.of[1] /\ reading.mnc.mnc = reading.of[2]
         /\ (reading.mnc.digits = 2) = reading.of[3]
    [] OTHER -> TRUE

=============================================================================
