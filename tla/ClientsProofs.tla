---------------------------- MODULE ClientsProofs ----------------------------
(***************************************************************************)
(* Each client of the network on its own, for every value of its           *)
(* constants, and all of them as MCClients runs them: UdpSocket keeps      *)
(* packets apart in both directions; TcpClient keeps one socket and        *)
(* implements ByteStream; so does TlsClient, over every split into         *)
(* records, and it reads from no server the sketch did not accept.         *)
(***************************************************************************)
EXTENDS MCClients, SequenceTheorems, FiniteSetTheorems, TLAPS


-----------------------------------------------------------------------------
(* The inductive invariant of the UDP socket *)

Text     == Seq(Nat)
Datagram == [from : Hosts \cup {NoHost}, bytes : Text]

\* What read() has returned is the front of the datagram that is being read, as
\* far as it fits the buffer.
ReadSoFar ==
  /\ current \in Datagram /\ rx \in Datagram /\ queue \in Seq(Datagram) /\ Len(queue) <= MaxQueue
  /\ rx.from = current.from /\ rx.bytes = Cut(current.bytes, MaxPacketSize)
  /\ offset \in 0 .. Len(rx.bytes)
  /\ taken = SubSeq(rx.bytes, 1, offset)

\* An open packet holds what was written since its beginPacket().
WrittenSoFar ==
  /\ tx \in [open : BOOLEAN, to : Hosts \cup {NoHost}, bytes : Text] /\ Len(tx.bytes) <= MaxPacketSize
  /\ tx.open => open /\ tx.to = named /\ tx.bytes = written

PortInv == open \in BOOLEAN /\ localPort \in Ports \cup {0}

IInv == PortInv /\ ReadSoFar /\ WrittenSoFar

-----------------------------------------------------------------------------
(* Pieces of sequences *)

\* A piece of a sequence holds the members between its bounds.
LEMMA PieceIs ==
  ASSUME NEW s \in Text, NEW m \in Nat \ {0}, NEW n \in 0 .. Len(s), m <= n + 1
  PROVE  /\ SubSeq(s, m, n) \in Text /\ Len(SubSeq(s, m, n)) = n - m + 1
         /\ \A k \in 1 .. n - m + 1 : SubSeq(s, m, n)[k] = s[m + k - 1]
  BY DEF Text

\* A sequence put behind another.
LEMMA JoinedIs ==
  ASSUME NEW s \in Seq(Nat), NEW t \in Seq(Nat)
  PROVE  /\ s \o t \in Seq(Nat) /\ Len(s \o t) = Len(s) + Len(t)
         /\ \A k \in 1 .. Len(s) + Len(t) : (s \o t)[k] = IF k <= Len(s) THEN s[k] ELSE t[k - Len(s)]
  OBVIOUS

\* The pieces before and after a cut make up the whole.
LEMMA PiecesJoin ==
  ASSUME NEW s \in Text, NEW n \in 0 .. Len(s), NEW m \in 0 .. n
  PROVE  SubSeq(s, 1, m) \o SubSeq(s, m + 1, n) = SubSeq(s, 1, n)
<1> DEFINE a == SubSeq(s, 1, m)
           b == SubSeq(s, m + 1, n)
           c == SubSeq(s, 1, n)
<1>0. Len(s) \in Nat /\ n \in Nat /\ m \in Nat /\ m \in 0 .. Len(s) /\ m + 1 \in Nat \ {0} /\ m + 1 <= n + 1
  BY DEF Text
<1>1. a \in Text /\ Len(a) = m /\ \A k \in 1 .. m : a[k] = s[k]
  BY <1>0, PieceIs
<1>2. b \in Text /\ Len(b) = n - m /\ \A k \in 1 .. n - m : b[k] = s[m + k]
  BY <1>0, PieceIs
<1>3. c \in Text /\ Len(c) = n /\ \A k \in 1 .. n : c[k] = s[k]
  BY <1>0, PieceIs
<1> HIDE DEF a, b, c
<1>4. a \o b \in Seq(Nat) /\ Len(a \o b) = m + (n - m)
      /\ \A k \in 1 .. m + (n - m) : (a \o b)[k] = IF k <= m THEN a[k] ELSE b[k - m]
  <2>1. a \in Seq(Nat) /\ b \in Seq(Nat)
    BY <1>1, <1>2 DEF Text
  <2>2. /\ a \o b \in Seq(Nat) /\ Len(a \o b) = Len(a) + Len(b)
        /\ \A k \in 1 .. Len(a) + Len(b) : (a \o b)[k] = IF k <= Len(a) THEN a[k] ELSE b[k - Len(a)]
    BY <2>1, JoinedIs, Zenon
  <2>3. QED
    BY <1>1, <1>2, <2>2, Zenon
<1>5. m + (n - m) = n /\ \A k \in 1 .. n : k > m => k - m \in 1 .. n - m /\ m + (k - m) = k
  BY <1>0
<1>6. \A k \in 1 .. n : (a \o b)[k] = c[k]
  <2> SUFFICES ASSUME NEW k \in 1 .. n PROVE (a \o b)[k] = c[k]
    OBVIOUS
  <2>1. (a \o b)[k] = (IF k <= m THEN a[k] ELSE b[k - m])
    BY <1>4, <1>5
  <2>2. CASE k <= m
    BY <1>0, <1>1, <1>3, <2>1, <2>2
  <2>3. CASE k > m
    <3>1. b[k - m] = s[k]
      BY <1>2, <1>5, <2>3
    <3>2. (a \o b)[k] = b[k - m]
      BY <1>0, <2>1, <2>3
    <3>3. QED
      BY <1>3, <3>1, <3>2
  <2>4. k <= m \/ k > m
    BY <1>0
  <2>5. QED
    BY <2>2, <2>3, <2>4, Zenon
<1>7. Len(a \o b) = Len(c)
  BY <1>3, <1>4, <1>5
<1>8. a \o b = c
  BY <1>3, <1>4, <1>5, <1>6, <1>7, SeqEqual, Zenon DEF Text
<1>9. QED
  BY <1>8 DEF a, b, c

\* The piece up to the end is the whole.
LEMMA WholePiece ==
  ASSUME NEW s \in Text
  PROVE  SubSeq(s, 1, Len(s)) = s /\ SubSeq(s, 1, 0) = <<>>
  BY SubSeqFull DEF Text

\* What is cut off the front is no longer than the whole and than asked for.
LEMMA CutIs ==
  ASSUME NEW s \in Text, NEW n \in Nat
  PROVE  Cut(s, n) \in Text /\ Len(Cut(s, n)) <= n
<1>1. Len(s) \in Nat
  BY DEF Text
<1>2. CASE Len(s) < n
  <2>1. Cut(s, n) = SubSeq(s, 1, Len(s))
    BY <1>2 DEF Cut
  <2>2. SubSeq(s, 1, Len(s)) = s
    BY WholePiece
  <2>3. Len(s) <= n
    BY <1>1, <1>2
  <2>4. QED
    BY <2>1, <2>2, <2>3, Zenon
<1>3. CASE ~(Len(s) < n)
  BY <1>1, <1>3, PieceIs DEF Cut
<1>4. QED
  BY <1>2, <1>3

\* A packet that is shut is empty and keeps its destination.
LEMMA PacketShut ==
  ASSUME NEW p \in [open : BOOLEAN, to : Hosts \cup {NoHost}, bytes : Text]
  PROVE  LET q == [p EXCEPT !.open = FALSE, !.bytes = <<>>]
         IN  q \in [open : BOOLEAN, to : Hosts \cup {NoHost}, bytes : Text] /\ q.open = FALSE /\ q.bytes = <<>>
<1>1. <<>> \in Text
  BY DEF Text
<1> DEFINE half == [p EXCEPT !.open = FALSE]
           q    == [half EXCEPT !.bytes = <<>>]
<1>2. half \in [open : BOOLEAN, to : Hosts \cup {NoHost}, bytes : Text] /\ half.open = FALSE
  OBVIOUS
<1> HIDE DEF half
<1>3. q \in [open : BOOLEAN, to : Hosts \cup {NoHost}, bytes : Text] /\ q.open = FALSE /\ q.bytes = <<>>
  BY <1>1, <1>2
<1>4. q = [p EXCEPT !.open = FALSE, !.bytes = <<>>]
  BY DEF half
<1>5. QED
  BY <1>3, <1>4

\* The assumptions on the constants.
LEMMA Constants == UdpAssumption => /\ MaxPacketSize \in Nat \ {0} /\ MaxQueue \in Nat
                                    /\ Payloads \subseteq Text /\ Chunks \subseteq Text
  BY DEF UdpAssumption, Text

\* No packet is one without bytes.
LEMMA NoPacketIs == NoPacket \in Datagram /\ NoPacket.from = NoHost /\ NoPacket.bytes = <<>>
  BY DEF NoPacket, Datagram, Text

-----------------------------------------------------------------------------
(* Every action preserves it *)

\* A new datagram starts with nothing read of it.
LEMMA InvReading ==
  ASSUME UdpAssumption, NEW p \in Datagram, Reading(p),
         queue' \in Seq(Datagram), Len(queue') <= MaxQueue
  PROVE  ReadSoFar'
<1>1. p.bytes \in Text /\ MaxPacketSize \in Nat
  BY Constants DEF Datagram
<1>2. rx' = [from |-> p.from, bytes |-> Cut(p.bytes, MaxPacketSize)] /\ offset' = 0 /\ current' = p /\ taken' = <<>>
  BY DEF Reading, Datagram
<1>3. Cut(p.bytes, MaxPacketSize) \in Text
  BY <1>1, CutIs
<1>4. rx' \in Datagram /\ rx'.from = p.from /\ rx'.bytes = Cut(p.bytes, MaxPacketSize)
  BY <1>2, <1>3 DEF Datagram
<1>5. SubSeq(rx'.bytes, 1, 0) = <<>>
  BY <1>3, <1>4, WholePiece
<1>6. offset' \in 0 .. Len(rx'.bytes)
  BY <1>2, <1>3, <1>4 DEF Text
<1>7. QED
  BY <1>2, <1>4, <1>5, <1>6 DEF ReadSoFar

\* stop() and the start of begin() leave neither packet.
LEMMA InvClosed ==
  ASSUME UdpAssumption, IInv, Closed
  PROVE  ReadSoFar' /\ WrittenSoFar'
<1>1. queue' = <<>> /\ Reading(NoPacket)
  BY DEF Closed
<1>2. queue' \in Seq(Datagram) /\ Len(queue') <= MaxQueue
  BY <1>1, Constants
<1>3. ReadSoFar'
  BY <1>1, <1>2, NoPacketIs, InvReading
<1>4. /\ tx \in [open : BOOLEAN, to : Hosts \cup {NoHost}, bytes : Text]
      /\ tx' = [tx EXCEPT !.open = FALSE, !.bytes = <<>>]
  BY DEF Closed, IInv, WrittenSoFar
<1>5. tx' \in [open : BOOLEAN, to : Hosts \cup {NoHost}, bytes : Text] /\ tx'.open = FALSE /\ tx'.bytes = <<>>
  BY <1>4, PacketShut
<1>6. WrittenSoFar'
  BY <1>5, Constants DEF WrittenSoFar
<1>7. QED
  BY <1>3, <1>6

\* beginPacket() names a destination and starts with nothing written.
LEMMA InvBeginPacket ==
  ASSUME UdpAssumption, IInv, NEW host \in Hosts, BeginPacket(host)
  PROVE  IInv'
<1>1. tx' = [open |-> TRUE, to |-> host, bytes |-> <<>>] /\ named' = host /\ written' = <<>>
  BY DEF BeginPacket
<1>2. open' /\ PortInv' /\ ReadSoFar'
  <2>1. CASE open /\ UNCHANGED <<open, localPort>> /\ UNCHANGED Receiving
    BY <2>1 DEF IInv, PortInv, ReadSoFar, Receiving
  <2>2. CASE ~open /\ open' = TRUE /\ localPort' = 0 /\ queue' = <<>> /\ Reading(NoPacket)
    <3>1. queue' \in Seq(Datagram) /\ Len(queue') <= MaxQueue
      BY <2>2, Constants
    <3>2. QED
      BY <2>2, <3>1, NoPacketIs, InvReading DEF PortInv
  <2>3. QED
    BY <2>1, <2>2 DEF BeginPacket
<1>3. tx' \in [open : BOOLEAN, to : Hosts \cup {NoHost}, bytes : Text] /\ Len(tx'.bytes) <= MaxPacketSize
  BY <1>1, Constants DEF Text
<1>4. WrittenSoFar'
  BY <1>1, <1>2, <1>3 DEF WrittenSoFar
<1>5. QED
  BY <1>2, <1>4 DEF IInv

\* write() puts the same bytes into the buffer and into what it reports.
LEMMA InvWrite ==
  ASSUME UdpAssumption, IInv, NEW chunk \in Chunks, Write(chunk)
  PROVE  IInv'
<1> DEFINE fits == Cut(chunk, MaxPacketSize - Len(tx.bytes))
<1>1. /\ tx.open /\ tx' = [tx EXCEPT !.bytes = @ \o fits] /\ written' = written \o fits
      /\ UNCHANGED <<open, localPort, named>> /\ UNCHANGED Receiving
  BY DEF Write
<1>2. /\ tx \in [open : BOOLEAN, to : Hosts \cup {NoHost}, bytes : Text] /\ Len(tx.bytes) <= MaxPacketSize
      /\ open /\ tx.to = named /\ tx.bytes = written
  BY <1>1 DEF IInv, WrittenSoFar
<1>3. Len(tx.bytes) \in Nat /\ MaxPacketSize - Len(tx.bytes) \in Nat /\ chunk \in Text
  BY <1>2, Constants DEF Text
<1>4. fits \in Text /\ Len(fits) <= MaxPacketSize - Len(tx.bytes)
  BY <1>3, CutIs
<1> HIDE DEF fits
<1>5. tx.bytes \o fits \in Text /\ Len(tx.bytes \o fits) = Len(tx.bytes) + Len(fits) /\ Len(fits) \in Nat
  BY <1>2, <1>4 DEF Text
<1>6. /\ tx' \in [open : BOOLEAN, to : Hosts \cup {NoHost}, bytes : Text]
      /\ tx'.open = tx.open /\ tx'.to = tx.to /\ tx'.bytes = tx.bytes \o fits
  BY <1>1, <1>2, <1>5
<1>7. Len(tx'.bytes) <= MaxPacketSize
  BY <1>3, <1>4, <1>5, <1>6, Constants
<1>8. tx'.open => open' /\ tx'.to = named' /\ tx'.bytes = written'
  BY <1>1, <1>2, <1>6
<1>9. PortInv' /\ ReadSoFar'
  BY <1>1 DEF IInv, PortInv, ReadSoFar, Receiving
<1>10. QED
  BY <1>6, <1>7, <1>8, <1>9 DEF IInv, WrittenSoFar

\* endPacket() leaves no packet open.
LEMMA InvEndPacket ==
  ASSUME UdpAssumption, IInv, EndPacket
  PROVE  IInv'
<1>1. /\ tx \in [open : BOOLEAN, to : Hosts \cup {NoHost}, bytes : Text]
      /\ tx' = [tx EXCEPT !.open = FALSE, !.bytes = <<>>]
      /\ UNCHANGED <<open, localPort>> /\ UNCHANGED Receiving
  BY DEF EndPacket, IInv, WrittenSoFar
<1>2. tx' \in [open : BOOLEAN, to : Hosts \cup {NoHost}, bytes : Text] /\ tx'.open = FALSE /\ tx'.bytes = <<>>
  BY <1>1, PacketShut
<1>3. WrittenSoFar'
  BY <1>2, Constants DEF WrittenSoFar
<1>4. PortInv' /\ ReadSoFar'
  BY <1>1 DEF IInv, PortInv, ReadSoFar, Receiving
<1>5. QED
  BY <1>3, <1>4 DEF IInv

\* What the sending side keeps when only the receiving side moves.
LEMMA InvSending ==
  ASSUME IInv, UNCHANGED <<open, localPort, tx>>, UNCHANGED Sending
  PROVE  PortInv' /\ WrittenSoFar'
  BY DEF IInv, PortInv, WrittenSoFar, Sending

\* The rest of a queue that is not empty.
LEMMA QueueShrinks ==
  ASSUME IInv, queue # <<>>, UdpAssumption
  PROVE  Head(queue) \in Datagram /\ Tail(queue) \in Seq(Datagram) /\ Len(Tail(queue)) <= MaxQueue
  BY Constants DEF IInv, ReadSoFar

\* parsePacket() takes the oldest datagram, or none.
LEMMA InvParsePacket ==
  ASSUME UdpAssumption, IInv, ParsePacket
  PROVE  IInv'
<1>1. PortInv' /\ WrittenSoFar'
  BY InvSending DEF ParsePacket
<1>2. CASE queue # <<>> /\ queue' = Tail(queue)
           /\ Reading(IF Head(queue).bytes = <<>> THEN NoPacket ELSE Head(queue))
  BY <1>1, <1>2, QueueShrinks, NoPacketIs, InvReading DEF IInv
<1>3. CASE Reading(NoPacket) /\ UNCHANGED queue
  <2>1. queue' \in Seq(Datagram) /\ Len(queue') <= MaxQueue
    BY <1>3 DEF IInv, ReadSoFar
  <2>2. QED
    BY <1>1, <1>3, <2>1, NoPacketIs, InvReading DEF IInv
<1>4. QED
  BY <1>2, <1>3 DEF ParsePacket

\* read() goes on where the last one stopped.
LEMMA InvRead ==
  ASSUME UdpAssumption, IInv, NEW size \in 1 .. MaxPacketSize, Read(size)
  PROVE  IInv'
<1>1. PortInv' /\ WrittenSoFar'
  BY InvSending DEF Read
<1>2. /\ available > 0 /\ offset' = offset + (IF size < available THEN size ELSE available)
      /\ taken' = taken \o SubSeq(rx.bytes, offset + 1, offset')
      /\ UNCHANGED <<rx, queue, current>>
  BY DEF Read
<1>3. rx.bytes \in Text /\ offset \in 0 .. Len(rx.bytes) /\ taken = SubSeq(rx.bytes, 1, offset)
  BY DEF IInv, ReadSoFar, Datagram
<1>4. Len(rx.bytes) \in Nat /\ MaxPacketSize \in Nat
  BY <1>3, Constants DEF Text
<1>5. offset' \in 0 .. Len(rx.bytes) /\ offset \in 0 .. offset'
  BY <1>2, <1>3, <1>4 DEF available
<1>6. taken' = SubSeq(rx.bytes, 1, offset')
  BY <1>2, <1>3, <1>5, PiecesJoin
<1>7. ReadSoFar'
  BY <1>2, <1>5, <1>6 DEF IInv, ReadSoFar
<1>8. QED
  BY <1>1, <1>7 DEF IInv

\* A datagram that arrives waits behind the others.
LEMMA InvArrive ==
  ASSUME UdpAssumption, IInv, NEW host \in Hosts, NEW payload \in Payloads, Arrive(host, payload)
  PROVE  IInv'
<1>1. PortInv' /\ WrittenSoFar'
  BY InvSending DEF Arrive
<1>2. [from |-> host, bytes |-> payload] \in Datagram
  BY Constants DEF Datagram
<1>3. queue \in Seq(Datagram) /\ Len(queue) < MaxQueue
      /\ queue' = Append(queue, [from |-> host, bytes |-> payload]) /\ UNCHANGED <<rx, offset, current, taken>>
  BY DEF Arrive, IInv, ReadSoFar
<1>4. queue' \in Seq(Datagram) /\ Len(queue') <= MaxQueue
  BY <1>2, <1>3, Constants
<1>5. ReadSoFar'
  BY <1>3, <1>4 DEF IInv, ReadSoFar
<1>6. QED
  BY <1>1, <1>5 DEF IInv

\* A new object has no socket and no packets.
LEMMA InvInit == UdpAssumption /\ Init => IInv
<1> SUFFICES ASSUME UdpAssumption, Init PROVE IInv
  OBVIOUS
<1>1. PortInv
  BY DEF Init, PortInv
<1>2. tx = [open |-> FALSE, to |-> NoHost, bytes |-> <<>>]
  BY DEF Init, Idle
<1>3. WrittenSoFar
  BY <1>2, Constants DEF WrittenSoFar, Text
<1>4. rx = NoPacket /\ current = NoPacket /\ offset = 0 /\ taken = <<>> /\ queue = <<>>
  BY DEF Init
<1>5. <<>> \in Text /\ Len(<<>>) = 0 /\ <<>> \in Seq(Datagram)
  BY DEF Text
<1>6. Cut(<<>>, MaxPacketSize) = <<>> /\ SubSeq(<<>>, 1, 0) = <<>>
  BY <1>5, Constants, WholePiece DEF Cut
<1>7. ReadSoFar
  BY <1>4, <1>5, <1>6, NoPacketIs, Constants DEF ReadSoFar
<1>8. QED
  BY <1>1, <1>3, <1>7 DEF IInv

\* Every step preserves the invariant.
LEMMA InvNext == UdpAssumption /\ IInv /\ [Next]_vars => IInv'
<1> SUFFICES ASSUME UdpAssumption, IInv, [Next]_vars PROVE IInv'
  OBVIOUS
<1>1. CASE Stop
  BY <1>1, InvClosed DEF Stop, IInv, PortInv
<1>2. ASSUME NEW port \in Ports, Begin(port) PROVE IInv'
  BY <1>2, InvClosed DEF Begin, IInv, PortInv
<1>3. CASE \E host \in Hosts : BeginPacket(host) \/ \E payload \in Payloads : Arrive(host, payload)
  BY <1>3, InvBeginPacket, InvArrive
<1>4. CASE \E chunk \in Chunks : Write(chunk)
  BY <1>4, InvWrite
<1>5. CASE EndPacket \/ ParsePacket
  BY <1>5, InvEndPacket, InvParsePacket
<1>6. CASE Flush
  <2>1. PortInv' /\ WrittenSoFar'
    BY <1>6, InvSending DEF Flush
  <2>2. Reading(NoPacket) /\ queue' \in Seq(Datagram) /\ Len(queue') <= MaxQueue
    BY <1>6 DEF Flush, IInv, ReadSoFar
  <2>3. QED
    BY <2>1, <2>2, NoPacketIs, InvReading DEF IInv
<1>7. CASE \E size \in 1 .. MaxPacketSize : Read(size)
  BY <1>7, InvRead
<1>8. CASE UNCHANGED vars
  BY <1>8 DEF vars, IInv, PortInv, ReadSoFar, WrittenSoFar
<1>9. QED
  BY <1>1, <1>2, <1>3, <1>4, <1>5, <1>6, <1>7, <1>8 DEF Next

-----------------------------------------------------------------------------
(* The theorems *)

\* The invariant is stronger than the one the run checks.
LEMMA InvImplies == UdpAssumption /\ IInv => SocketInv
<1> SUFFICES ASSUME UdpAssumption, IInv PROVE SocketInv
  OBVIOUS
<1>1. rx.bytes \in Text /\ offset \in 0 .. Len(rx.bytes) /\ taken = SubSeq(rx.bytes, 1, offset)
  BY DEF IInv, ReadSoFar, Datagram
<1>2. Len(rx.bytes) \in 0 .. Len(rx.bytes)
  BY <1>1 DEF Text
<1>3. taken \o SubSeq(rx.bytes, offset + 1, Len(rx.bytes)) = rx.bytes
  BY <1>1, <1>2, PiecesJoin, WholePiece
<1>4. DatagramsNotMixed
  BY <1>3 DEF DatagramsNotMixed, IInv, ReadSoFar
<1>5. Len(rx.bytes) <= MaxPacketSize
  BY CutIs, Constants DEF IInv, ReadSoFar, Datagram
<1>6. rx.from \in Hosts \cup {NoHost}
  BY DEF IInv, ReadSoFar, Datagram
<1>7. tx.open \in BOOLEAN /\ tx.to \in Hosts \cup {NoHost}
  BY DEF IInv, WrittenSoFar
<1>8. TypeOK
  BY <1>1, <1>5, <1>6, <1>7 DEF TypeOK, IInv, PortInv, ReadSoFar, WrittenSoFar
<1>9. QED
  BY <1>4, <1>8 DEF SocketInv

\* Only endPacket() sends, and what it sends is the packet that is open.
LEMMA StepSends == IInv /\ [Next]_vars => SentAsWritten
<1> SUFFICES ASSUME IInv, [Next]_vars, net' # net PROVE net' = [to |-> named, bytes |-> written]
  BY DEF SentAsWritten
<1>1. EndPacket
  BY DEF Next, vars, Sending, Stop, Begin, BeginPacket, Write, ParsePacket, Read, Flush, Arrive
<1>2. net' = [to |-> tx.to, bytes |-> tx.bytes] /\ tx.open
  BY <1>1 DEF EndPacket, SendToIPv4
<1>3. QED
  BY <1>2 DEF IInv, WrittenSoFar

\* Only parsePacket() takes a datagram, after the last one was read.
LEMMA StepReplaces == IInv /\ [Next]_vars => UnreadNotReplaced
<1> SUFFICES ASSUME IInv, [Next]_vars, current' # current, current' # NoPacket
             PROVE  available = 0 /\ current' = Head(queue)
  BY DEF UnreadNotReplaced
<1>1. ~UNCHANGED Receiving /\ ~Reading(NoPacket) /\ ~UNCHANGED current
  BY DEF Receiving, Reading
<1>2. ParsePacket
  BY <1>1 DEF Next, vars, Stop, Begin, Closed, BeginPacket, Write, EndPacket, Read, Flush, Arrive
<1>3. available = 0 /\ Reading(Head(queue))
  BY <1>1, <1>2 DEF ParsePacket
<1>4. QED
  BY <1>3 DEF Reading

\* In every order of begins, packets, writes, reads and arrivals the reads return
\* the front of one datagram in order, and remoteIP() is where it came from
\* (AIR780EPMUDP::read, parsePacket).
THEOREM SocketSafe == UdpAssumption => (Spec => []SocketInv)
<1>1. SUFFICES ASSUME UdpAssumption PROVE Spec => []SocketInv
  OBVIOUS
<1>2. Init => IInv
  BY <1>1, InvInit
<1>3. IInv /\ [Next]_vars => IInv'
  BY <1>1, InvNext
<1>4. IInv => SocketInv
  BY <1>1, InvImplies
<1>5. QED
  BY <1>2, <1>3, <1>4, PTL DEF Spec

\* What is sent is what was written to the destination named last, and a datagram
\* is replaced, by the oldest that waits, only once it is read to its end
\* (AIR780EPMUDP::endPacket, parsePacket).
THEOREM PacketsApart == UdpAssumption => (Spec => PacketsKeptApart)
<1>1. SUFFICES ASSUME UdpAssumption PROVE Spec => PacketsKeptApart
  OBVIOUS
<1>2. Init => IInv
  BY <1>1, InvInit
<1>3. IInv /\ [Next]_vars => IInv'
  BY <1>1, InvNext
<1>4. IInv /\ [Next]_vars => [SentAsWritten /\ UnreadNotReplaced]_vars
  BY StepSends, StepReplaces
<1>5. QED
  BY <1>2, <1>3, <1>4, PTL DEF Spec, PacketsKeptApart

-----------------------------------------------------------------------------
(* The inductive invariant of the TCP client *)

TcpIdle == sent = 0 /\ offered = 0 /\ got = <<>> /\ inbound = <<>> /\ wire = <<>>

\* The client is open as long as there is a connection.
TcpLinked == connected \in BOOLEAN /\ (connected <=> peer # "none")

\* The call in progress, the connection and its socket go together; a client
\* without a connection remembers nothing of the last one.
TcpControl ==
  /\ trying \in 0 .. MaxAddresses
  /\ peer \in {"none", "open", "closed", "broken"}
  /\ stopped \in {"none", "stop", "look", "read", "write"}
  /\ peer # "none" => sockets = 1 /\ trying = 0 /\ stopped = "none"
  /\ peer = "none" => sockets = 0 /\ TcpIdle
  /\ trying > 0 => stopped = "none"
  /\ sent \in 0 .. TcpBytes /\ offered \in 0 .. TcpBytes

\* What waits in the socket goes on where the sketch has stopped reading.
TcpUnread ==
  /\ got \in Seq(Int) /\ inbound \in Seq(Int)
  /\ Len(got) + Len(inbound) <= sent
  /\ \A n \in 1 .. Len(inbound) : inbound[n] = Len(got) + n
  /\ peer \in {"open", "closed"} => Len(got) + Len(inbound) = sent

TcpIInv == TcpLinked /\ TcpControl /\ TcpUnread

-----------------------------------------------------------------------------
(* Sequences of consecutive numbers *)

\* There are n numbers from 1 to n.
LEMMA TcpNumbersFromOne ==
  ASSUME NEW n \in Nat
  PROVE  Tcp!Numbers(1, n) \in Seq(Int) /\ Len(Tcp!Numbers(1, n)) = n
  BY DEF Tcp!Numbers

\* The length and the members of a run of numbers.
LEMMA TcpNumbersAre ==
  ASSUME NEW i \in Int, NEW j \in Int, j - i + 1 \in Nat
  PROVE  /\ Tcp!Numbers(i, j) \in Seq(Int) /\ Len(Tcp!Numbers(i, j)) = j - i + 1
         /\ \A n \in 1 .. j - i + 1 : Tcp!Numbers(i, j)[n] = i + n - 1
  BY DEF Tcp!Numbers

\* A piece of a sequence holds the members between its bounds.
LEMMA TcpPieceIs ==
  ASSUME NEW s \in Seq(Int), NEW m \in Nat \ {0}, NEW n \in 0 .. Len(s), m <= n + 1
  PROVE  /\ SubSeq(s, m, n) \in Seq(Int) /\ Len(SubSeq(s, m, n)) = n - m + 1
         /\ \A k \in 1 .. n - m + 1 : SubSeq(s, m, n)[k] = s[m + k - 1]
  OBVIOUS

\* A piece of consecutive numbers is given by its bounds.
LEMMA TcpPieceOfNumbers ==
  ASSUME NEW i \in Int, NEW j \in Int, j - i + 1 \in Nat,
         NEW m \in Nat \ {0}, NEW n \in Nat, n <= j - i + 1, m <= n + 1
  PROVE  SubSeq(Tcp!Numbers(i, j), m, n) = Tcp!Numbers(i + m - 1, i + n - 1)
<1> DEFINE s == Tcp!Numbers(i, j)
           a == SubSeq(s, m, n)
           b == Tcp!Numbers(i + m - 1, i + n - 1)
<1>1. s \in Seq(Int) /\ Len(s) = j - i + 1 /\ \A k \in 1 .. j - i + 1 : s[k] = i + k - 1
  BY TcpNumbersAre
<1>2. n \in 0 .. Len(s)
  BY <1>1
<1>3. /\ b \in Seq(Int) /\ Len(b) = (i + n - 1) - (i + m - 1) + 1
      /\ \A k \in 1 .. (i + n - 1) - (i + m - 1) + 1 : b[k] = (i + m - 1) + k - 1
  <2>1. i + m - 1 \in Int /\ i + n - 1 \in Int /\ (i + n - 1) - (i + m - 1) + 1 \in Nat
    OBVIOUS
  <2>2. QED
    BY <2>1, TcpNumbersAre, Zenon
<1> HIDE DEF s, b
<1>4. a \in Seq(Int) /\ Len(a) = n - m + 1 /\ \A k \in 1 .. n - m + 1 : a[k] = s[m + k - 1]
  BY <1>1, <1>2, TcpPieceIs
<1> HIDE DEF a
<1>5. \A k \in 1 .. Len(a) : a[k] = b[k]
  BY <1>1, <1>3, <1>4
<1>6. Len(a) = Len(b)
  BY <1>3, <1>4
<1>7. a = b
  BY <1>3, <1>4, <1>5, <1>6, SeqEqual, Zenon
<1>8. QED
  BY <1>7 DEF a, b, s

\* A piece of the numbers from 1 is a run of numbers.
LEMMA TcpPieceFromOne ==
  ASSUME NEW j \in Nat, NEW m \in Nat \ {0}, NEW n \in Nat, n <= j, m <= n + 1
  PROVE  SubSeq(Tcp!Numbers(1, j), m, n) = Tcp!Numbers(m, n)
<1>1. /\ 1 \in Int /\ j \in Int /\ j - 1 + 1 \in Nat /\ n <= j - 1 + 1
      /\ 1 + m - 1 = m /\ 1 + n - 1 = n
  OBVIOUS
<1>2. SubSeq(Tcp!Numbers(1, j), m, n) = Tcp!Numbers(1 + m - 1, 1 + n - 1)
  BY <1>1, TcpPieceOfNumbers, Zenon
<1>3. QED
  BY <1>1, <1>2, Zenon

-----------------------------------------------------------------------------
(* The invariant is preserved *)

\* A client without bytes keeps none.
LEMMA TcpIdleBytes == TcpIdle /\ peer = "none" => TcpUnread
<1>1. <<>> \in Seq(Int) /\ Len(<<>>) = 0
  BY EmptySeq
<1>2. QED
  BY <1>1 DEF TcpIdle, TcpUnread

\* Nor does one that loses them.
LEMMA TcpIdleBytesNext == TcpIdle' /\ peer' = "none" => TcpUnread'
<1>1. <<>> \in Seq(Int) /\ Len(<<>>) = 0
  BY EmptySeq
<1>2. QED
  BY <1>1 DEF TcpIdle, TcpUnread

\* The bounds are numbers.
LEMMA TcpBounds == Tcp!TcpAssumption => MaxAddresses \in Nat /\ TcpBytes \in Nat /\ TcpSize \in Nat \ {0}
  BY DEF Tcp!TcpAssumption

\* A new client has no connection, no socket and no bytes.
LEMMA TcpInvInit == Tcp!TcpAssumption /\ Tcp!Init => TcpIInv
<1> SUFFICES ASSUME Tcp!TcpAssumption, Tcp!Init PROVE TcpIInv
  OBVIOUS
<1>1. connected = FALSE /\ peer = "none"
  BY DEF Tcp!Init
<1>2. TcpLinked
  BY <1>1 DEF TcpLinked
<1>3. TcpControl /\ TcpIdle
  BY TcpBounds, <1>1 DEF Tcp!Init, TcpControl, TcpIdle
<1>4. QED
  BY <1>1, <1>2, <1>3, TcpIdleBytes, Zenon DEF TcpIInv

\* Without the socket of the connection there is none.
LEMMA TcpNoneLeft == TcpIInv => Tcp!SocketsWithout = 0
<1>1. CASE connected
  BY <1>1 DEF TcpIInv, TcpLinked, TcpControl, Tcp!SocketsWithout
<1>2. CASE ~connected
  BY <1>2 DEF TcpIInv, TcpLinked, TcpControl, Tcp!SocketsWithout
<1>3. QED
  BY <1>1, <1>2

\* Closing leaves no connection, no socket and no bytes.
LEMMA TcpInvClose ==
  ASSUME NEW caller \in {"stop", "look", "read", "write"}, Tcp!TcpAssumption, TcpIInv, connected, Tcp!Close(caller)
  PROVE  TcpIInv'
<1>1. connected' = FALSE /\ peer' = "none" /\ TcpIdle' /\ sockets' = 0 /\ trying' = trying /\ stopped' = caller
  BY TcpNoneLeft DEF Tcp!Close, Tcp!NewTraffic, TcpIdle
<1>2. TcpLinked'
  BY <1>1 DEF TcpLinked
<1>3. trying = 0
  BY DEF TcpIInv, TcpLinked, TcpControl
<1>4. TcpControl'
  BY <1>1, <1>3, TcpBounds DEF TcpControl, TcpIdle
<1>5. QED
  BY <1>1, <1>2, <1>4, TcpIdleBytesNext, Zenon DEF TcpIInv

\* connect() closes the old connection before it tries an address.
LEMMA TcpInvConnect ==
  ASSUME Tcp!TcpAssumption, TcpIInv, NEW n \in 0 .. MaxAddresses, Tcp!Connect(n)
  PROVE  TcpIInv'
<1>1. connected' = FALSE /\ peer' = "none" /\ TcpIdle' /\ sockets' = 0 /\ trying' = n /\ stopped' = "none"
  BY TcpNoneLeft DEF Tcp!Connect, Tcp!NewTraffic, TcpIdle
<1>2. TcpLinked'
  BY <1>1 DEF TcpLinked
<1>3. TcpControl'
  BY <1>1, TcpBounds DEF TcpControl, TcpIdle
<1>4. QED
  BY <1>1, <1>2, <1>3, TcpIdleBytesNext, Zenon DEF TcpIInv

\* While connect() tries its addresses there is no connection.
LEMMA TcpTryingAlone == TcpIInv /\ trying > 0 => ~connected /\ peer = "none" /\ sockets = 0 /\ TcpIdle /\ stopped = "none"
<1>1. TcpIInv /\ trying > 0 => peer = "none" /\ sockets = 0 /\ TcpIdle /\ stopped = "none"
  BY DEF TcpIInv, TcpControl
<1>2. QED
  BY <1>1 DEF TcpIInv, TcpLinked

\* Every address that fails leaves no socket, and the one that works leaves one.
LEMMA TcpInvConnects ==
  ASSUME Tcp!TcpAssumption, TcpIInv, NEW outcome \in Tcp!Outcomes, Tcp!TryNext(outcome) \/ Tcp!ConnectHost(outcome)
  PROVE  TcpIInv'
<1>1. ~connected /\ peer = "none" /\ sockets = 0 /\ TcpIdle /\ stopped = "none"
  BY TcpTryingAlone, Zenon DEF Tcp!TryNext, Tcp!ConnectHost
<1>2. trying \in 0 .. MaxAddresses /\ trying > 0 /\ trying - 1 \in 0 .. MaxAddresses
  <2>1. trying \in 0 .. MaxAddresses /\ trying > 0
    BY Zenon DEF TcpIInv, TcpControl, Tcp!TryNext, Tcp!ConnectHost
  <2>2. QED
    BY <2>1, TcpBounds
<1>3. CASE Tcp!TryNext(outcome)
  <2>1. TcpLinked'
    BY <1>3, Zenon DEF TcpIInv, TcpLinked, Tcp!TryNext
  <2>2. TcpControl' /\ TcpIdle' /\ peer' = "none"
    BY <1>1, <1>2, <1>3, TcpBounds DEF TcpIInv, TcpControl, TcpIdle, Tcp!TryNext
  <2>3. QED
    BY <2>1, <2>2, TcpIdleBytesNext, Zenon DEF TcpIInv
<1>4. CASE Tcp!ConnectHost(outcome)
  <2>1. connected' = TRUE /\ peer' \in {"open", "broken"}
    BY <1>4 DEF Tcp!ConnectHost
  <2>2. TcpLinked'
    BY <2>1 DEF TcpLinked
  <2>3. TcpControl'
    <3>1. sockets' = 1 /\ trying' = 0 /\ UNCHANGED <<sent, offered, stopped>>
      <4>1. sockets = 0 /\ sockets' = sockets + 1 /\ trying' = 0 /\ UNCHANGED <<sent, offered, stopped>>
        BY <1>1, <1>4, Zenon DEF Tcp!ConnectHost
      <4>2. QED
        BY <4>1
    <3>2. sent \in 0 .. TcpBytes /\ offered \in 0 .. TcpBytes
      BY DEF TcpIInv, TcpControl
    <3>3. QED
      BY <1>1, <2>1, <3>1, <3>2, TcpBounds DEF TcpControl
  <2>4. got' = <<>> /\ inbound' = <<>> /\ sent' = 0
    BY <1>1, <1>4 DEF TcpIdle, Tcp!ConnectHost
  <2>5. <<>> \in Seq(Int) /\ Len(<<>>) = 0
    BY EmptySeq
  <2>6. TcpUnread'
    BY <2>4, <2>5 DEF TcpUnread
  <2>7. QED
    BY <2>2, <2>3, <2>6 DEF TcpIInv
<1>5. QED
  BY <1>3, <1>4

\* What read() takes off the front of inbound goes to the end of got.
LEMMA TcpInvRead ==
  ASSUME Tcp!TcpAssumption, TcpIInv, NEW size \in 1 .. TcpSize, Tcp!Read(size)
  PROVE  TcpIInv'
<1>1. CASE Tcp!Close("read")
  BY <1>1, TcpInvClose DEF Tcp!Read
<1>2. CASE ~Tcp!Close("read")
  <2> DEFINE n     == Tcp!Shorter(size, Len(inbound))
             bytes == SubSeq(inbound, 1, n)
             left  == SubSeq(inbound, n + 1, Len(inbound))
  <2>1. /\ got' = got \o bytes /\ inbound' = left
        /\ UNCHANGED <<trying, connected, sockets, peer, wire, sent, offered, stopped>> /\ connected
    BY <1>2 DEF Tcp!Read
  <2>2. got \in Seq(Int) /\ inbound \in Seq(Int) /\ Len(got) \in Nat /\ Len(inbound) \in Nat
    BY LenProperties DEF TcpIInv, TcpUnread
  <2>3. n \in 0 .. Len(inbound)
    BY <2>2, TcpBounds DEF Tcp!Shorter
  <2> HIDE DEF n
  <2>4. \A m \in 1 .. Len(inbound) : inbound[m] \in Int /\ inbound[m] = Len(got) + m
    BY <2>2, LenProperties DEF TcpIInv, TcpUnread
  <2>5. bytes \in Seq(Int) /\ Len(bytes) = n
    BY <2>2, <2>3, TcpPieceIs
  <2>6. /\ left \in Seq(Int) /\ Len(left) = Len(inbound) - n
        /\ \A m \in 1 .. Len(inbound) - n : left[m] = inbound[n + m]
    <3>1. n + 1 \in Nat \ {0} /\ Len(inbound) \in 0 .. Len(inbound) /\ n + 1 <= Len(inbound) + 1
      BY <2>2, <2>3
    <3>2. /\ left \in Seq(Int) /\ Len(left) = Len(inbound) - (n + 1) + 1
          /\ \A m \in 1 .. Len(inbound) - (n + 1) + 1 : left[m] = inbound[n + 1 + m - 1]
      BY <2>2, <3>1, TcpPieceIs
    <3> HIDE DEF left
    <3>3. QED
      BY <2>2, <2>3, <3>2
  <2> HIDE DEF bytes, left
  <2>7. got \o bytes \in Seq(Int) /\ Len(got \o bytes) = Len(got) + n
    BY <2>2, <2>5, ConcatProperties
  <2>8. TcpUnread'
    <3>1. sent' = sent /\ peer' = peer
      BY <2>1
    <3>2. /\ Len(got) + Len(inbound) <= sent
          /\ peer \in {"open", "closed"} => Len(got) + Len(inbound) = sent
      BY DEF TcpIInv, TcpUnread
    <3>3. Len(got') + Len(inbound') = Len(got) + Len(inbound)
      BY <2>1, <2>2, <2>3, <2>6, <2>7
    <3>4. \A m \in 1 .. Len(inbound') : inbound'[m] = Len(got') + m
      BY <2>1, <2>2, <2>3, <2>4, <2>6, <2>7
    <3>5. QED
      BY <2>1, <2>6, <2>7, <3>1, <3>2, <3>3, <3>4 DEF TcpUnread
  <2>9. TcpControl'
    <3>1. peer # "none" /\ peer' = peer
      BY <2>1 DEF TcpIInv, TcpLinked
    <3>2. QED
      BY <2>1, <3>1 DEF TcpIInv, TcpControl
  <2>10. TcpLinked'
    BY <2>1, Zenon DEF TcpIInv, TcpLinked
  <2>11. QED
    BY <2>8, <2>9, <2>10 DEF TcpIInv
<1>3. QED
  BY <1>1, <1>2

\* A socket that breaks loses what waits in it, and no other bytes move.
LEMMA TcpBytesKept ==
  ASSUME TcpIInv, UNCHANGED <<sent, got>>,
         (inbound' = inbound /\ peer' = peer) \/ (inbound' = <<>> /\ peer' = "broken")
  PROVE  TcpUnread'
<1>1. CASE inbound' = inbound /\ peer' = peer
  BY <1>1 DEF TcpIInv, TcpUnread
<1>2. CASE inbound' = <<>> /\ peer' = "broken"
  <2>1. inbound' \in Seq(Int) /\ Len(inbound') = 0
    BY <1>2, EmptySeq
  <2>2. got \in Seq(Int) /\ Len(got) \in Nat /\ Len(inbound) \in Nat /\ Len(got) + Len(inbound) <= sent
    BY LenProperties DEF TcpIInv, TcpUnread
  <2>3. sent \in Int
    BY DEF TcpIInv, TcpControl
  <2>4. QED
    BY <1>2, <2>1, <2>2, <2>3 DEF TcpUnread
<1>3. QED
  BY <1>1, <1>2

\* write() counts what the socket takes over, and may find the connection broken.
LEMMA TcpInvWrite ==
  ASSUME Tcp!TcpAssumption, TcpIInv, NEW n \in 1 .. TcpSize, NEW k \in 0 .. TcpSize, Tcp!Write(n, k)
  PROVE  TcpIInv'
<1>1. CASE Tcp!Close("write")
  BY <1>1, TcpInvClose DEF Tcp!Write
<1>2. CASE ~Tcp!Close("write")
  <2>1. /\ connected /\ offered + n <= TcpBytes /\ k <= n /\ offered' = offered + k
        /\ peer' \in {peer, "broken"} /\ UNCHANGED <<trying, connected, sockets, sent, got, stopped>>
        /\ inbound' = IF peer' = "broken" THEN <<>> ELSE inbound
    BY <1>2 DEF Tcp!Write
  <2>2. offered + k \in 0 .. TcpBytes
    BY <2>1, TcpBounds DEF TcpIInv, TcpControl
  <2>3. TcpControl'
    <3>1. peer # "none" /\ peer' # "none"
      BY <2>1 DEF TcpIInv, TcpLinked
    <3>2. peer' \in {"none", "open", "closed", "broken"}
      BY <2>1 DEF TcpIInv, TcpControl
    <3>3. QED
      BY <2>1, <2>2, <3>1, <3>2 DEF TcpIInv, TcpControl
  <2>4. TcpLinked'
    BY <2>1 DEF TcpIInv, TcpLinked
  <2>5. (inbound' = inbound /\ peer' = peer) \/ (inbound' = <<>> /\ peer' = "broken")
    <3>1. peer' \in {peer, "broken"} /\ inbound' = IF peer' = "broken" THEN <<>> ELSE inbound
      BY <2>1
    <3>2. CASE peer' = "broken"
      BY <3>1, <3>2
    <3>3. CASE peer' # "broken"
      BY <3>1, <3>3
    <3>4. QED
      BY <3>2, <3>3
  <2>6. TcpUnread'
    BY <2>1, <2>5, TcpBytesKept
  <2>7. QED
    BY <2>3, <2>4, <2>6 DEF TcpIInv
<1>3. QED
  BY <1>1, <1>2

\* The byte that arrives is the next one.
LEMMA TcpInvPeer ==
  ASSUME Tcp!TcpAssumption, TcpIInv, Tcp!PeerSends \/ Tcp!PeerCloses \/ Tcp!ConnectionBreaks
  PROVE  TcpIInv'
<1>1. CASE Tcp!PeerSends
  <2>1. sent \in Nat /\ sent + 1 \in 0 .. TcpBytes /\ sent' = sent + 1
    BY <1>1, TcpBounds DEF TcpIInv, TcpControl, Tcp!PeerSends
  <2>2. TcpControl'
    BY <1>1, <2>1 DEF TcpIInv, TcpControl, Tcp!PeerSends
  <2>3. /\ inbound \in Seq(Int) /\ got \in Seq(Int) /\ Len(got) \in Nat /\ Len(inbound) \in Nat
        /\ sent = Len(got) + Len(inbound)
        /\ \A m \in 1 .. Len(inbound) : inbound[m] = Len(got) + m
    BY <1>1, LenProperties DEF TcpIInv, TcpUnread, Tcp!PeerSends
  <2>4. inbound' = Append(inbound, sent + 1) /\ got' = got /\ peer' = peer
    BY <1>1 DEF Tcp!PeerSends
  <2>5. /\ inbound' \in Seq(Int) /\ Len(inbound') = Len(inbound) + 1
        /\ \A m \in 1 .. Len(inbound) : inbound'[m] = inbound[m]
        /\ inbound'[Len(inbound) + 1] = sent + 1
    BY <2>1, <2>3, <2>4, AppendProperties
  <2>6. \A m \in 1 .. Len(inbound') : inbound'[m] = Len(got) + m
    <3> SUFFICES ASSUME NEW m \in 1 .. Len(inbound') PROVE inbound'[m] = Len(got) + m
      OBVIOUS
    <3>1. m \in 1 .. Len(inbound) \/ m = Len(inbound) + 1
      BY <2>3, <2>5
    <3>2. CASE m \in 1 .. Len(inbound)
      BY <2>3, <2>5, <3>2
    <3>3. CASE m = Len(inbound) + 1
      <4>1. inbound'[m] = sent + 1
        BY <2>5, <3>3
      <4>2. QED
        BY <2>3, <3>3, <4>1
    <3>4. QED
      BY <3>1, <3>2, <3>3
  <2>7. TcpUnread'
    BY <2>1, <2>3, <2>4, <2>5, <2>6 DEF TcpUnread
  <2>8. TcpLinked'
    BY <1>1, Zenon DEF TcpIInv, TcpLinked, Tcp!PeerSends
  <2>9. QED
    BY <2>2, <2>7, <2>8 DEF TcpIInv
<1>2. CASE Tcp!PeerCloses
  <2>1. TcpControl' /\ TcpUnread'
    BY <1>2 DEF Tcp!PeerCloses, TcpIInv, TcpControl, TcpUnread
  <2>2. TcpLinked'
    BY <1>2 DEF Tcp!PeerCloses, TcpIInv, TcpLinked
  <2>3. QED
    BY <2>1, <2>2 DEF TcpIInv
<1>3. CASE Tcp!ConnectionBreaks
  <2>1. TcpControl'
    BY <1>3 DEF Tcp!ConnectionBreaks, TcpIInv, TcpControl
  <2>2. TcpLinked'
    BY <1>3 DEF Tcp!ConnectionBreaks, TcpIInv, TcpLinked
  <2>3. QED
    BY <1>3, <2>1, <2>2, TcpBytesKept DEF Tcp!ConnectionBreaks, TcpIInv
<1>4. QED
  BY <1>1, <1>2, <1>3

\* No step breaks the invariant.
LEMMA TcpInvNext == Tcp!TcpAssumption /\ TcpIInv /\ [Tcp!Next]_Tcp!vars => TcpIInv'
<1> SUFFICES ASSUME Tcp!TcpAssumption, TcpIInv, [Tcp!Next]_Tcp!vars PROVE TcpIInv'
  OBVIOUS
<1>1. CASE \E n \in 0 .. MaxAddresses : Tcp!Connect(n)
  BY <1>1, TcpInvConnect
<1>2. CASE \E outcome \in Tcp!Outcomes : Tcp!TryNext(outcome) \/ Tcp!ConnectHost(outcome)
  BY <1>2, TcpInvConnects
<1>3. CASE Tcp!Stop \/ Tcp!Look
  BY <1>3, TcpInvClose DEF Tcp!Stop, Tcp!Look
<1>4. CASE \E size \in 1 .. TcpSize : Tcp!Read(size)
  BY <1>4, TcpInvRead
<1>5. CASE \E n \in 1 .. TcpSize, k \in 0 .. TcpSize : Tcp!Write(n, k)
  BY <1>5, TcpInvWrite
<1>6. CASE Tcp!PeerSends \/ Tcp!PeerCloses \/ Tcp!ConnectionBreaks
  BY <1>6, TcpInvPeer
<1>7. CASE UNCHANGED Tcp!vars
  BY <1>7 DEF Tcp!vars, TcpIInv, TcpLinked, TcpControl, TcpIdle, TcpUnread
<1>8. QED
  BY <1>1, <1>2, <1>3, <1>4, <1>5, <1>6, <1>7 DEF Tcp!Next

\* ClientInv holds in every state: one socket while the client is connected, none
\* otherwise, whatever connects, fails and breaks.
THEOREM TcpClientSafe == Tcp!TcpAssumption => (Tcp!Spec => []Tcp!ClientInv)
<1> SUFFICES ASSUME Tcp!TcpAssumption PROVE Tcp!Spec => []Tcp!ClientInv
  OBVIOUS
<1>1. Tcp!Init => TcpIInv
  BY TcpInvInit
<1>2. TcpIInv /\ [Tcp!Next]_Tcp!vars => TcpIInv'
  BY TcpInvNext
<1>3. TcpIInv => Tcp!ClientInv
  BY DEF TcpIInv, TcpLinked, TcpControl, Tcp!ClientInv, Tcp!TypeOK, Tcp!SocketsOwned
<1>4. QED
  BY <1>1, <1>2, <1>3, PTL DEF Tcp!Spec

-----------------------------------------------------------------------------
(* TcpClient implements ByteStream *)

\* Nothing was written yet.
LEMMA TcpNoNumbers == Tcp!Numbers(1, 0) = <<>>
<1>1. Tcp!Numbers(1, 0) \in Seq(Int) /\ Len(Tcp!Numbers(1, 0)) = 0
  BY TcpNumbersAre
<1>2. QED
  BY <1>1, EmptySeq

\* A client without bytes is a stream without bytes.
LEMMA TcpNothingMoved == TcpIdle => Tcp!Stream!Nothing
  BY TcpNoNumbers DEF TcpIdle, Tcp!Stream!Nothing

\* After the step too.
LEMMA TcpNothingMovedNext == TcpIdle' => Tcp!Stream!Nothing'
  BY TcpNoNumbers DEF TcpIdle, Tcp!Stream!Nothing

\* A new client is a new stream.
LEMMA TcpRefineInit == Tcp!Init => Tcp!Stream!Init
<1> SUFFICES ASSUME Tcp!Init PROVE Tcp!Stream!Init
  OBVIOUS
<1>1. TcpIdle /\ peer = "none" /\ sockets = 0 /\ stopped = "none"
  BY DEF Tcp!Init, TcpIdle
<1>2. QED
  BY <1>1, TcpNothingMoved DEF Tcp!Stream!Init

\* Each way to close the client is one of the stream's.
LEMMA TcpRefineClose ==
  ASSUME Tcp!TcpAssumption, TcpIInv, Tcp!Stop \/ Tcp!Look \/ (\E size \in 1 .. TcpSize : Tcp!Read(size) /\ Tcp!Close("read"))
           \/ (\E n \in 1 .. TcpSize, k \in 0 .. TcpSize : Tcp!Write(n, k) /\ Tcp!Close("write"))
  PROVE  Tcp!Stream!Next
<1>1. connected /\ peer # "none"
  BY DEF Tcp!Stop, Tcp!Look, Tcp!Read, Tcp!Write, TcpIInv, TcpLinked
<1>2. ASSUME NEW caller, Tcp!Close(caller)
      PROVE  Tcp!Stream!Restart("none") /\ stopped' = caller
  <2>1. TcpIdle' /\ peer' = "none" /\ sockets' = 0 /\ stopped' = caller
    BY <1>2, TcpNoneLeft DEF Tcp!Close, Tcp!NewTraffic, TcpIdle
  <2>2. QED
    BY <2>1, TcpNothingMovedNext DEF Tcp!Stream!Restart
<1>3. CASE Tcp!Stop
  <2>1. Tcp!Stream!Restart("none") /\ stopped' = "stop"
    BY <1>2, <1>3 DEF Tcp!Stop
  <2>2. Tcp!Stream!Close
    BY <1>1, <2>1 DEF Tcp!Stream!Close
  <2>3. QED
    BY <2>2 DEF Tcp!Stream!Next
<1>4. CASE peer = "broken" /\ (Tcp!Close("look") \/ Tcp!Close("read"))
  <2>1. Tcp!Stream!Restart("none") /\ stopped' \in {"look", "read"}
    BY <1>2, <1>4
  <2>2. Tcp!Stream!CloseByReader
    BY <1>4, <2>1 DEF Tcp!Stream!CloseByReader
  <2>3. QED
    BY <2>2 DEF Tcp!Stream!Next
<1>5. CASE Tcp!Close("write")
  <2>1. Tcp!Stream!Restart("none") /\ stopped' = "write"
    BY <1>2, <1>5
  <2>2. Tcp!Stream!CloseByWriter
    BY <1>1, <2>1 DEF Tcp!Stream!CloseByWriter
  <2>3. QED
    BY <2>2 DEF Tcp!Stream!Next
<1>6. CASE Tcp!Look
  BY <1>4, <1>6 DEF Tcp!Look
<1>7. CASE \E size \in 1 .. TcpSize : Tcp!Read(size) /\ Tcp!Close("read")
  <2>1. stopped' = "read"
    BY <1>7, <1>2
  <2>2. PICK size \in 1 .. TcpSize : Tcp!Read(size)
    BY <1>7
  <2>3. peer = "broken" /\ Tcp!Close("read")
    <3>1. stopped = "none"
      BY <1>1 DEF TcpIInv, TcpControl
    <3>2. QED
      BY <2>1, <2>2, <3>1 DEF Tcp!Read
  <2>4. QED
    BY <1>4, <2>3
<1>8. QED
  BY <1>3, <1>5, <1>6, <1>7

\* connect() closes the old connection first; a name that does not resolve leaves it so.
LEMMA TcpRefineConnect ==
  ASSUME TcpIInv, NEW n \in 0 .. MaxAddresses, Tcp!Connect(n)
  PROVE  Tcp!Stream!Next
<1>1. TcpIdle' /\ peer' = "none" /\ sockets' = 0 /\ stopped' = "none"
  BY TcpNoneLeft DEF Tcp!Connect, Tcp!NewTraffic, TcpIdle
<1>2. Tcp!Stream!Restart("none")
  BY <1>1, TcpNothingMovedNext DEF Tcp!Stream!Restart
<1>3. Tcp!Stream!Connect
  BY <1>1, <1>2 DEF Tcp!Stream!Connect
<1>4. QED
  BY <1>3 DEF Tcp!Stream!Next

\* The address that works connects, and one that fails shows nothing.
LEMMA TcpRefineConnects ==
  ASSUME TcpIInv, NEW outcome \in Tcp!Outcomes
  PROVE  /\ Tcp!ConnectHost(outcome) => Tcp!Stream!Next
         /\ Tcp!TryNext(outcome) => UNCHANGED Tcp!Stream!vars
<1>1. ASSUME Tcp!ConnectHost(outcome) PROVE Tcp!Stream!Next
  <2>1. TcpIdle /\ sockets = 0 /\ stopped = "none"
    BY <1>1, TcpTryingAlone DEF Tcp!ConnectHost
  <2>2. /\ sockets' = sockets + 1 /\ peer' \in {"open", "broken"}
        /\ UNCHANGED <<inbound, wire, sent, got, offered, stopped>>
    BY <1>1, Zenon DEF Tcp!ConnectHost
  <2>3. TcpIdle' /\ sockets' = 1 /\ stopped' = "none"
    BY <2>1, <2>2 DEF TcpIdle
  <2>4. Tcp!Stream!Restart(peer')
    BY <2>2, <2>3, TcpNothingMovedNext DEF Tcp!Stream!Restart
  <2>5. Tcp!Stream!Connect
    BY <2>2, <2>3, <2>4 DEF Tcp!Stream!Connect
  <2>6. QED
    BY <2>5 DEF Tcp!Stream!Next
<1>2. ASSUME Tcp!TryNext(outcome) PROVE UNCHANGED Tcp!Stream!vars
  BY <1>2 DEF Tcp!TryNext, Tcp!Stream!vars
<1>3. QED
  BY <1>1, <1>2

\* What read() returns is the next piece of what has arrived.
LEMMA TcpRefineRead ==
  ASSUME Tcp!TcpAssumption, TcpIInv, NEW size \in 1 .. TcpSize, Tcp!Read(size), ~Tcp!Close("read")
  PROVE  Tcp!Stream!Next
<1> DEFINE n     == Tcp!Shorter(size, Len(inbound))
           bytes == SubSeq(inbound, 1, n)
           run   == [i \in 1 .. (Len(got) + n) - Len(got) |-> Len(got) + i]
<1>1. /\ got' = got \o bytes /\ inbound # <<>> /\ connected
      /\ UNCHANGED <<peer, wire, sent, offered, stopped, sockets>>
  BY DEF Tcp!Read
<1>2. /\ inbound \in Seq(Int) /\ Len(got) \in Nat /\ Len(inbound) \in Nat \ {0}
      /\ Len(got) + Len(inbound) <= sent /\ sent \in Int
      /\ \A m \in 1 .. Len(inbound) : inbound[m] = Len(got) + m
  BY <1>1, LenProperties, EmptySeq DEF TcpIInv, TcpUnread, TcpControl
<1>3. n \in 1 .. Len(inbound)
  BY <1>2, TcpBounds DEF Tcp!Shorter
<1> HIDE DEF n
<1>4. bytes \in Seq(Int) /\ Len(bytes) = n /\ \A m \in 1 .. n : bytes[m] = inbound[m]
  BY <1>2, <1>3, TcpPieceIs
<1>5. run \in Seq(Int) /\ Len(run) = n /\ \A m \in 1 .. n : run[m] = Len(got) + m
  BY <1>2, <1>3
<1> HIDE DEF bytes, run
<1>6. \A m \in 1 .. Len(bytes) : bytes[m] = run[m]
  <2> SUFFICES ASSUME NEW m \in 1 .. n PROVE bytes[m] = run[m]
    BY <1>4
  <2>1. m \in 1 .. Len(inbound)
    BY <1>2, <1>3
  <2>2. QED
    BY <1>2, <1>4, <1>5, <2>1
<1>7. bytes = run
  BY <1>4, <1>5, <1>6, SeqEqual, Zenon
<1>8. Len(got) + n \in Len(got) + 1 .. sent
  BY <1>2, <1>3
<1>9. \E m \in Len(got) + 1 .. sent : got' = got \o [i \in 1 .. m - Len(got) |-> Len(got) + i]
  BY <1>1, <1>7, <1>8 DEF run
<1>10. peer # "none"
  BY <1>1 DEF TcpIInv, TcpLinked
<1>11. Tcp!Stream!Read
  BY <1>1, <1>9, <1>10 DEF Tcp!Stream!Read
<1>12. QED
  BY <1>11 DEF Tcp!Stream!Next

\* What write() reports is what the socket has taken over.
LEMMA TcpRefineWrite ==
  ASSUME Tcp!TcpAssumption, TcpIInv, NEW n \in 1 .. TcpSize, NEW k \in 0 .. TcpSize, Tcp!Write(n, k), ~Tcp!Close("write")
  PROVE  Tcp!Stream!Next
<1>1. /\ connected /\ k > 0 /\ k <= n /\ offered' = offered + k
      /\ wire' = wire \o SubSeq(Tcp!Numbers(offered + 1, offered + n), 1, k)
      /\ peer' \in {peer, "broken"} /\ UNCHANGED <<sockets, sent, got, stopped>>
  BY DEF Tcp!Write
<1>2. offered \in Nat /\ n \in Nat /\ k \in Nat \ {0}
  BY <1>1, TcpBounds DEF TcpIInv, TcpControl
<1>3. /\ Tcp!Numbers(1, offered) \in Seq(Int) /\ Len(Tcp!Numbers(1, offered)) = offered
      /\ Tcp!Numbers(1, offered + k) \in Seq(Int) /\ Len(Tcp!Numbers(1, offered + k)) = offered + k
  <2>1. offered + k \in Nat
    BY <1>2
  <2>2. QED
    BY <1>2, <2>1, TcpNumbersFromOne
<1>4. Tcp!Numbers(1, offered) # Tcp!Numbers(1, offered + k)
  BY <1>2, <1>3
<1>5. SubSeq(Tcp!Numbers(1, offered), 1, offered) = Tcp!Numbers(1, offered)
  BY <1>3, SubSeqFull
<1>6. SubSeq(Tcp!Numbers(1, offered + k), 1, offered) = Tcp!Numbers(1, offered)
  <2>1. offered + k \in Nat /\ offered <= offered + k /\ 1 \in Nat \ {0} /\ 1 <= offered + 1
    BY <1>2
  <2>2. QED
    BY <1>2, <2>1, TcpPieceFromOne, Zenon
<1>7. SubSeq(Tcp!Numbers(1, offered + k), offered + 1, offered + k) = Tcp!Numbers(offered + 1, offered + k)
  <2>1. /\ offered + k \in Nat /\ offered + k <= offered + k
        /\ offered + 1 \in Nat \ {0} /\ offered + 1 <= offered + k + 1
    BY <1>2
  <2>2. QED
    BY <2>1, TcpPieceFromOne, Zenon
<1>8. SubSeq(Tcp!Numbers(offered + 1, offered + n), 1, k) = Tcp!Numbers(offered + 1, offered + k)
  <2>1. /\ offered + 1 \in Int /\ offered + n \in Int /\ (offered + n) - (offered + 1) + 1 \in Nat
        /\ k <= (offered + n) - (offered + 1) + 1 /\ 1 \in Nat \ {0} /\ k \in Nat /\ 1 <= k + 1
        /\ (offered + 1) + 1 - 1 = offered + 1 /\ (offered + 1) + k - 1 = offered + k
    BY <1>1, <1>2
  <2>2. SubSeq(Tcp!Numbers(offered + 1, offered + n), 1, k)
          = Tcp!Numbers((offered + 1) + 1 - 1, (offered + 1) + k - 1)
    BY <2>1, TcpPieceOfNumbers, Zenon
  <2>3. QED
    BY <2>1, <2>2, Zenon
<1>9. peer # "none"
  BY <1>1 DEF TcpIInv, TcpLinked
<1>10. Tcp!Stream!IsPrefix(Tcp!Numbers(1, offered), Tcp!Numbers(1, offered'))
  BY <1>1, <1>2, <1>3, <1>5, <1>6 DEF Tcp!Stream!IsPrefix
<1>11. wire' = wire \o SubSeq(Tcp!Numbers(1, offered'), Len(Tcp!Numbers(1, offered)) + 1, Len(Tcp!Numbers(1, offered')))
  BY <1>1, <1>3, <1>7, <1>8
<1>12. Tcp!Stream!Write
  BY <1>1, <1>4, <1>9, <1>10, <1>11 DEF Tcp!Stream!Write
<1>13. QED
  BY <1>12 DEF Tcp!Stream!Next

\* The peer acts for the stream as it acts for the socket.
LEMMA TcpRefinePeer ==
  ASSUME TcpIInv, Tcp!PeerSends \/ Tcp!PeerCloses \/ Tcp!ConnectionBreaks
  PROVE  Tcp!Stream!Next
<1>1. CASE Tcp!PeerSends
  <2>1. sent \in Int /\ sent' = sent + 1
    BY <1>1 DEF Tcp!PeerSends, TcpIInv, TcpControl
  <2>2. Tcp!Stream!Arrive
    BY <1>1, <2>1 DEF Tcp!PeerSends, Tcp!Stream!Arrive
  <2>3. QED
    BY <2>2 DEF Tcp!Stream!Next
<1>2. CASE Tcp!PeerCloses \/ Tcp!ConnectionBreaks
  <2>1. Tcp!Stream!PeerActs
    BY <1>2 DEF Tcp!PeerCloses, Tcp!ConnectionBreaks, Tcp!Stream!PeerActs
  <2>2. QED
    BY <2>1 DEF Tcp!Stream!Next
<1>3. QED
  BY <1>1, <1>2

\* Every step of the client is a step of the stream, or none.
LEMMA TcpRefineNext == Tcp!TcpAssumption /\ TcpIInv /\ [Tcp!Next]_Tcp!vars => [Tcp!Stream!Next]_Tcp!Stream!vars
<1> SUFFICES ASSUME Tcp!TcpAssumption, TcpIInv, [Tcp!Next]_Tcp!vars PROVE Tcp!Stream!Next \/ UNCHANGED Tcp!Stream!vars
  OBVIOUS
<1>1. CASE \E n \in 0 .. MaxAddresses : Tcp!Connect(n)
  BY <1>1, TcpRefineConnect
<1>2. CASE \E outcome \in Tcp!Outcomes : Tcp!TryNext(outcome) \/ Tcp!ConnectHost(outcome)
  BY <1>2, TcpRefineConnects
<1>3. CASE Tcp!Stop \/ Tcp!Look
  BY <1>3, TcpRefineClose
<1>4. CASE \E size \in 1 .. TcpSize : Tcp!Read(size)
  BY <1>4, TcpRefineRead, TcpRefineClose
<1>5. CASE \E n \in 1 .. TcpSize, k \in 0 .. TcpSize : Tcp!Write(n, k)
  BY <1>5, TcpRefineWrite, TcpRefineClose
<1>6. CASE Tcp!PeerSends \/ Tcp!PeerCloses \/ Tcp!ConnectionBreaks
  BY <1>6, TcpRefinePeer
<1>7. CASE UNCHANGED Tcp!vars
  BY <1>7 DEF Tcp!vars, Tcp!Stream!vars
<1>8. QED
  BY <1>1, <1>2, <1>3, <1>4, <1>5, <1>6, <1>7 DEF Tcp!Next

\* The TCP client is a stream of bytes for every number of addresses and of bytes:
\* what read() returns is what the peer has sent, in order and each byte once, what
\* write() reports is what the socket took over, and only a call that the contract
\* names closes the connection (AIR780EPMClient over arduino_tcp_io.c).
THEOREM TcpImplements == Tcp!TcpAssumption => (Tcp!Spec => Tcp!ImplementsByteStream)
<1> SUFFICES ASSUME Tcp!TcpAssumption PROVE Tcp!Spec => Tcp!ImplementsByteStream
  OBVIOUS
<1>1. Tcp!Init => TcpIInv
  BY TcpInvInit
<1>2. TcpIInv /\ [Tcp!Next]_Tcp!vars => TcpIInv'
  BY TcpInvNext
<1>3. Tcp!Init => Tcp!Stream!Init
  BY TcpRefineInit
<1>4. TcpIInv /\ [Tcp!Next]_Tcp!vars => [Tcp!Stream!Next]_Tcp!Stream!vars
  BY TcpRefineNext
<1>5. QED
  BY <1>1, <1>2, <1>3, <1>4, PTL DEF Tcp!Spec, Tcp!ImplementsByteStream, Tcp!Stream!Spec

-----------------------------------------------------------------------------
(* The inductive invariant of the TLS client *)

\* s holds the bytes that follow the first `base' ones.
TlsFollows(base, s) == s \in Seq(Int) /\ \A j \in 1 .. Len(s) : s[j] = base + j

\* The last byte of record r, of which there is at least one.
TlsLastOf(r) == r[1] - 1 + Len(r)

\* The records of q follow the first `base' bytes and each other, up to `last'.
TlsQueued(base, q, last) ==
  /\ q \in Seq(Seq(Int)) /\ base <= last
  /\ \A i \in 1 .. Len(q) : Len(q[i]) > 0 /\ TlsFollows(q[i][1] - 1, q[i]) /\ TlsLastOf(q[i]) <= last
  /\ \A i \in 1 .. Len(q) - 1 : q[i + 1][1] = TlsLastOf(q[i]) + 1
  /\ Len(q) > 0 => q[1][1] = base + 1

\* The bytes up to `last' are all there.
TlsComplete(base, q, last) == IF Len(q) = 0 THEN base = last ELSE TlsLastOf(q[Len(q)]) = last

TlsTyped ==
  /\ trust \in [cert : BOOLEAN, insecure : BOOLEAN]
  /\ handle \in [open : BOOLEAN, connected : BOOLEAN, peeked : Seq(Int), plain : Seq(Int), unsent : Seq(Int)]
  /\ server \in [state : {"none", "open", "closed", "reset"}, trusted : BOOLEAN,
                 accepted : {"none", "insecure", "certificate"}]
  /\ tlsSent \in 0 .. TlsBytes /\ tlsGot \in Seq(Int) /\ tlsWire \in Seq(Int)
  /\ out \in [offered : 0 .. TlsBytes, reported : Seq(Int), rest : Seq(Int), strayed : BOOLEAN]
  /\ asked \in {"none", "insecure", "certificate"}
  /\ freedBy \in {"none", "stop", "connected", "read", "write"}

TlsIdle == records = <<>> /\ tlsWire = <<>> /\ tlsSent = 0 /\ tlsGot = <<>> /\ out = Tls!NoOutput

\* The handle, its socket and the connection go together; without them nothing
\* of the last connection is left.
TlsLinked ==
  /\ handle.open => server.state # "none" /\ tlsSockets = 1 /\ freedBy = "none"
  /\ ~handle.open => handle = Tls!NoHandle /\ server = Tls!NoServer /\ tlsSockets = 0 /\ TlsIdle

\* Insecure mode and a certificate are what the sketch asked for last.
TlsTrusting ==
  /\ trust.insecure => asked = "insecure" /\ ~trust.cert
  /\ handle.open /\ ~server.trusted => server.accepted = "insecure"

\* What was peeked, what is decrypted and the records that wait go on where the
\* sketch has stopped reading.
TlsHeld == Len(tlsGot) + Len(handle.peeked) + Len(handle.plain)
TlsUnread ==
  /\ Len(handle.peeked) <= 1
  /\ TlsFollows(Len(tlsGot), handle.peeked)
  /\ TlsFollows(Len(tlsGot) + Len(handle.peeked), handle.plain)
  /\ TlsQueued(TlsHeld, records, tlsSent)
  /\ server.state \in {"open", "closed"} => TlsComplete(TlsHeld, records, tlsSent)
  /\ server.state = "reset" => records = <<>>

\* The record that is still unsent holds the first byte that was not reported,
\* and what was reported is on the wire, unless the sketch has strayed.
TlsOutput ==
  /\ Len(handle.unsent) <= 1
  /\ Len(handle.unsent) = 1 => Len(out.rest) > 0 /\ handle.unsent[1] = out.rest[1]
  /\ ~out.strayed => tlsWire = out.reported

TlsIInv == TlsTyped /\ TlsLinked /\ TlsTrusting /\ TlsUnread /\ TlsOutput

-----------------------------------------------------------------------------
(* Bytes in a row *)

\* The bounds are numbers.
LEMMA TlsBounds == Tls!TlsAssumption => MaxAddresses \in Nat /\ TlsBytes \in Nat /\ TlsSize \in Nat \ {0}
  BY DEF Tls!TlsAssumption

\* Bytes in a row are given by the first and their number.
LEMMA TlsRunIs ==
  ASSUME NEW base \in Int, NEW s, TlsFollows(base, s)
  PROVE  s = [i \in 1 .. Len(s) |-> base + i]
<1> DEFINE r == [i \in 1 .. Len(s) |-> base + i]
<1>1. s \in Seq(Int) /\ Len(s) \in Nat /\ \A j \in 1 .. Len(s) : s[j] = base + j
  BY LenProperties DEF TlsFollows
<1>2. r \in Seq(Int) /\ Len(r) = Len(s) /\ \A j \in 1 .. Len(s) : r[j] = base + j
  BY <1>1
<1> HIDE DEF r
<1>3. s = r
  BY <1>1, <1>2, SeqEqual
<1>4. QED
  BY <1>3 DEF r

\* Nothing is a row of bytes.
LEMMA TlsEmptyRun == \A base : TlsFollows(base, <<>>)
  BY EmptySeq DEF TlsFollows

\* The front and the rest of bytes in a row.
LEMMA TlsRunSplit ==
  ASSUME NEW base \in Int, NEW s, TlsFollows(base, s), NEW n \in 0 .. Len(s)
  PROVE  /\ TlsFollows(base, SubSeq(s, 1, n)) /\ Len(SubSeq(s, 1, n)) = n
         /\ TlsFollows(base + n, SubSeq(s, n + 1, Len(s))) /\ Len(SubSeq(s, n + 1, Len(s))) = Len(s) - n
<1> DEFINE a == SubSeq(s, 1, n)
           b == SubSeq(s, n + 1, Len(s))
<1>1. s \in Seq(Int) /\ Len(s) \in Nat /\ \A j \in 1 .. Len(s) : s[j] = base + j
  BY LenProperties DEF TlsFollows
<1>2. a \in Seq(Int) /\ Len(a) = n /\ \A k \in 1 .. n : a[k] = s[k]
  BY <1>1
<1>3. b \in Seq(Int) /\ Len(b) = Len(s) - n /\ \A k \in 1 .. Len(s) - n : b[k] = s[n + k]
  BY <1>1
<1> HIDE DEF a, b
<1>4. \A k \in 1 .. Len(a) : a[k] = base + k
  <2> SUFFICES ASSUME NEW k \in 1 .. n PROVE a[k] = base + k
    BY <1>2
  <2>1. k \in 1 .. Len(s)
    BY <1>1
  <2>2. QED
    BY <1>1, <1>2, <2>1
<1>5. \A k \in 1 .. Len(b) : b[k] = base + n + k
  BY <1>1, <1>3
<1>6. TlsFollows(base, a) /\ TlsFollows(base + n, b)
  BY <1>2, <1>3, <1>4, <1>5 DEF TlsFollows
<1>7. QED
  BY <1>2, <1>3, <1>6 DEF a, b

\* New bytes of the server are in a row.
LEMMA TlsNumbersRun ==
  ASSUME NEW i \in Nat, NEW n \in Nat
  PROVE  TlsFollows(i, Tls!Numbers(i + 1, i + n)) /\ Len(Tls!Numbers(i + 1, i + n)) = n
<1>1. (i + n) - (i + 1) + 1 = n
  OBVIOUS
<1>2. Tls!Numbers(i + 1, i + n) = [k \in 1 .. n |-> i + 1 + k - 1]
  BY <1>1 DEF Tls!Numbers
<1>3. QED
  BY <1>2 DEF TlsFollows

\* The first record follows what came before it, and the others follow it.
LEMMA TlsTakeRecord ==
  ASSUME NEW base \in Nat, NEW last \in Int, NEW q, TlsQueued(base, q, last), q # <<>>
  PROVE  /\ TlsFollows(base, Head(q)) /\ Len(Head(q)) > 0
         /\ TlsQueued(base + Len(Head(q)), Tail(q), last)
         /\ TlsComplete(base, q, last) => TlsComplete(base + Len(Head(q)), Tail(q), last)
<1> DEFINE r == Head(q)
           t == Tail(q)
<1>1. q \in Seq(Seq(Int)) /\ Len(q) \in Nat /\ Len(q) > 0
  BY EmptySeq, LenProperties DEF TlsQueued
<1>2. r = q[1] /\ t \in Seq(Seq(Int)) /\ Len(t) = Len(q) - 1 /\ \A i \in 1 .. Len(q) - 1 : t[i] = q[i + 1]
  BY <1>1
<1> HIDE DEF r, t
<1>3. \A i \in 1 .. Len(q) : q[i] \in Seq(Int) /\ Len(q[i]) \in Nat /\ q[i][1] \in Int
  <2> SUFFICES ASSUME NEW i \in 1 .. Len(q) PROVE q[i] \in Seq(Int) /\ Len(q[i]) \in Nat /\ q[i][1] \in Int
    OBVIOUS
  <2>1. q[i] \in Seq(Int) /\ Len(q[i]) > 0
    BY <1>1 DEF TlsQueued
  <2>2. Len(q[i]) \in Nat
    BY <2>1, LenProperties
  <2>3. QED
    BY <2>1, <2>2, ElementOfSeq
<1>4. 1 \in 1 .. Len(q)
  BY <1>1
<1>5. q[1][1] = base + 1 /\ Len(q[1]) > 0 /\ TlsFollows(q[1][1] - 1, q[1]) /\ TlsLastOf(q[1]) <= last
  BY <1>1, <1>4 DEF TlsQueued
<1>6. TlsFollows(base, r) /\ Len(r) > 0 /\ Len(r) \in Nat /\ TlsLastOf(r) = base + Len(r)
  <2>1. q[1][1] - 1 = base
    BY <1>5
  <2>2. QED
    BY <1>2, <1>3, <1>4, <1>5, <2>1 DEF TlsLastOf
<1>7. base + Len(r) <= last
  BY <1>2, <1>5, <1>6
<1>8. \A i \in 1 .. Len(t) : Len(t[i]) > 0 /\ TlsFollows(t[i][1] - 1, t[i]) /\ TlsLastOf(t[i]) <= last
  <2> SUFFICES ASSUME NEW i \in 1 .. Len(t)
               PROVE  Len(t[i]) > 0 /\ TlsFollows(t[i][1] - 1, t[i]) /\ TlsLastOf(t[i]) <= last
    OBVIOUS
  <2>1. i + 1 \in 1 .. Len(q) /\ t[i] = q[i + 1]
    BY <1>1, <1>2
  <2>2. QED
    BY <2>1 DEF TlsQueued
<1>9. \A i \in 1 .. Len(t) - 1 : t[i + 1][1] = TlsLastOf(t[i]) + 1
  <2> SUFFICES ASSUME NEW i \in 1 .. Len(t) - 1 PROVE t[i + 1][1] = TlsLastOf(t[i]) + 1
    OBVIOUS
  <2>1. i \in 1 .. Len(q) - 1 /\ i + 1 \in 1 .. Len(q) - 1
    BY <1>1, <1>2
  <2>2. t[i] = q[i + 1] /\ t[i + 1] = q[(i + 1) + 1]
    BY <1>2, <2>1
  <2>3. QED
    BY <2>1, <2>2 DEF TlsQueued
<1>10. Len(t) > 0 => t[1][1] = base + Len(r) + 1
  <2> SUFFICES ASSUME Len(t) > 0 PROVE t[1][1] = base + Len(r) + 1
    OBVIOUS
  <2>1. 1 \in 1 .. Len(q) - 1 /\ t[1] = q[1 + 1]
    BY <1>1, <1>2
  <2>2. q[1 + 1][1] = TlsLastOf(q[1]) + 1
    BY <2>1 DEF TlsQueued
  <2>3. QED
    BY <1>2, <1>6, <2>1, <2>2
<1>11. TlsQueued(base + Len(r), t, last)
  BY <1>2, <1>7, <1>8, <1>9, <1>10 DEF TlsQueued
<1>12. TlsComplete(base, q, last) => TlsComplete(base + Len(r), t, last)
  <2> SUFFICES ASSUME TlsComplete(base, q, last) PROVE TlsComplete(base + Len(r), t, last)
    OBVIOUS
  <2>1. TlsLastOf(q[Len(q)]) = last
    BY <1>1 DEF TlsComplete
  <2>2. CASE Len(q) = 1
    BY <1>2, <1>6, <2>1, <2>2 DEF TlsComplete
  <2>3. CASE Len(q) # 1
    <3>1. Len(t) \in 1 .. Len(q) - 1 /\ Len(t) + 1 = Len(q)
      BY <1>1, <1>2, <2>3
    <3>2. t[Len(t)] = q[Len(q)]
      BY <1>2, <3>1
    <3>3. QED
      BY <2>1, <3>1, <3>2 DEF TlsComplete
  <2>4. QED
    BY <2>2, <2>3
<1>13. QED
  BY <1>6, <1>11, <1>12 DEF r, t

\* A record of the next bytes goes to the end.
LEMMA TlsAddRecord ==
  ASSUME NEW base \in Nat, NEW last \in Nat, NEW q, TlsQueued(base, q, last), TlsComplete(base, q, last),
         NEW r, NEW n \in Nat \ {0}, TlsFollows(last, r), Len(r) = n
  PROVE  TlsQueued(base, Append(q, r), last + n) /\ TlsComplete(base, Append(q, r), last + n)
<1> DEFINE a == Append(q, r)
<1>1. q \in Seq(Seq(Int)) /\ Len(q) \in Nat /\ r \in Seq(Int)
  BY LenProperties DEF TlsQueued, TlsFollows
<1>2. /\ a \in Seq(Seq(Int)) /\ Len(a) = Len(q) + 1
      /\ \A i \in 1 .. Len(q) : a[i] = q[i]
      /\ a[Len(q) + 1] = r
  BY <1>1
<1> HIDE DEF a
<1>3. r[1] = last + 1 /\ TlsLastOf(r) = last + n
  BY DEF TlsFollows, TlsLastOf
<1>4. \A i \in 1 .. Len(q) : TlsLastOf(q[i]) <= last /\ TlsLastOf(q[i]) \in Int
  <2> SUFFICES ASSUME NEW i \in 1 .. Len(q) PROVE TlsLastOf(q[i]) <= last /\ TlsLastOf(q[i]) \in Int
    OBVIOUS
  <2>1. q[i] \in Seq(Int) /\ Len(q[i]) > 0 /\ TlsLastOf(q[i]) <= last
    BY <1>1 DEF TlsQueued
  <2>2. Len(q[i]) \in Nat
    BY <2>1, LenProperties
  <2>3. q[i][1] \in Int
    BY <2>1, <2>2, ElementOfSeq
  <2>4. QED
    BY <2>1, <2>2, <2>3 DEF TlsLastOf
<1>5. \A i \in 1 .. Len(a) : Len(a[i]) > 0 /\ TlsFollows(a[i][1] - 1, a[i]) /\ TlsLastOf(a[i]) <= last + n
  <2> SUFFICES ASSUME NEW i \in 1 .. Len(a)
               PROVE  Len(a[i]) > 0 /\ TlsFollows(a[i][1] - 1, a[i]) /\ TlsLastOf(a[i]) <= last + n
    OBVIOUS
  <2>1. i \in 1 .. Len(q) \/ i = Len(q) + 1
    BY <1>1, <1>2
  <2>2. CASE i \in 1 .. Len(q)
    <3>1. Len(q[i]) > 0 /\ TlsFollows(q[i][1] - 1, q[i])
      BY <2>2 DEF TlsQueued
    <3>2. TlsLastOf(q[i]) <= last + n
      BY <1>4, <2>2
    <3>3. QED
      BY <1>2, <2>2, <3>1, <3>2
  <2>3. CASE i = Len(q) + 1
    <3>1. r[1] - 1 = last
      BY <1>3
    <3>2. QED
      BY <1>2, <1>3, <2>3, <3>1
  <2>4. QED
    BY <2>1, <2>2, <2>3
<1>6. \A i \in 1 .. Len(a) - 1 : a[i + 1][1] = TlsLastOf(a[i]) + 1
  <2> SUFFICES ASSUME NEW i \in 1 .. Len(a) - 1 PROVE a[i + 1][1] = TlsLastOf(a[i]) + 1
    OBVIOUS
  <2>1. i \in 1 .. Len(q) /\ a[i] = q[i]
    BY <1>1, <1>2
  <2>2. CASE i = Len(q)
    <3>1. TlsLastOf(q[i]) = last /\ a[i + 1] = r
      BY <1>1, <1>2, <2>1, <2>2 DEF TlsComplete
    <3>2. QED
      BY <1>3, <2>1, <3>1
  <2>3. CASE i # Len(q)
    <3>1. i \in 1 .. Len(q) - 1 /\ i + 1 \in 1 .. Len(q)
      BY <1>1, <2>1, <2>3
    <3>2. q[i + 1][1] = TlsLastOf(q[i]) + 1
      BY <3>1 DEF TlsQueued
    <3>3. QED
      BY <1>2, <2>1, <3>1, <3>2
  <2>4. QED
    BY <2>2, <2>3
<1>7. a[1][1] = base + 1
  <2>1. CASE Len(q) = 0
    BY <1>2, <1>3, <2>1 DEF TlsComplete
  <2>2. CASE Len(q) > 0
    <3>1. 1 \in 1 .. Len(q) /\ q[1][1] = base + 1
      BY <1>1, <2>2 DEF TlsQueued
    <3>2. QED
      BY <1>2, <3>1
  <2>3. QED
    BY <1>1, <2>1, <2>2
<1>8. base <= last + n
  BY DEF TlsQueued
<1>9. TlsQueued(base, a, last + n)
  BY <1>2, <1>5, <1>6, <1>7, <1>8 DEF TlsQueued
<1>10. TlsComplete(base, a, last + n)
  BY <1>1, <1>2, <1>3 DEF TlsComplete
<1>11. QED
  BY <1>9, <1>10 DEF a

\* A connection that has lost its records keeps what was taken out of them.
LEMMA TlsNoRecords == \A base, last \in Int : base <= last => TlsQueued(base, <<>>, last)
<1>1. <<>> \in Seq(Seq(Int)) /\ Len(<<>>) = 0
  BY EmptySeq
<1>2. QED
  BY <1>1 DEF TlsQueued

-----------------------------------------------------------------------------
(* The invariant is preserved *)

\* A connection that has just begun or ended has no bytes.
LEMMA TlsIdleInv ==
  /\ TlsIdle /\ handle.peeked = <<>> /\ handle.plain = <<>> /\ handle.unsent = <<>> => TlsUnread /\ TlsOutput
<1> SUFFICES ASSUME TlsIdle, handle.peeked = <<>>, handle.plain = <<>>, handle.unsent = <<>> PROVE TlsUnread /\ TlsOutput
  OBVIOUS
<1>1. Len(<<>>) = 0
  BY EmptySeq
<1>2. Len(tlsGot) = 0 /\ Len(handle.peeked) = 0 /\ Len(handle.plain) = 0 /\ Len(handle.unsent) = 0
  BY <1>1 DEF TlsIdle
<1>3. TlsHeld = 0 /\ tlsSent = 0 /\ records = <<>>
  BY <1>2 DEF TlsHeld, TlsIdle
<1>4. TlsQueued(TlsHeld, records, tlsSent) /\ TlsComplete(TlsHeld, records, tlsSent)
  BY <1>1, <1>3, TlsNoRecords DEF TlsComplete
<1>5. TlsUnread
  BY <1>2, <1>3, <1>4, TlsEmptyRun DEF TlsUnread
<1>6. TlsOutput
  BY <1>2 DEF TlsOutput, TlsIdle, Tls!NoOutput
<1>7. QED
  BY <1>5, <1>6

\* After the step too.
LEMMA TlsIdleInvNext ==
  (TlsIdle /\ handle.peeked = <<>> /\ handle.plain = <<>> /\ handle.unsent = <<>>)' => TlsUnread' /\ TlsOutput'
BY TlsIdleInv, PTL

\* The values of a client without bytes are of their types.
LEMMA TlsIdleTyped ==
  Tls!TlsAssumption => /\ 0 \in 0 .. TlsBytes /\ <<>> \in Seq(Int)
                   /\ Tls!NoOutput \in [offered : 0 .. TlsBytes, reported : Seq(Int), rest : Seq(Int), strayed : BOOLEAN]
<1> SUFFICES ASSUME Tls!TlsAssumption
             PROVE  /\ 0 \in 0 .. TlsBytes /\ <<>> \in Seq(Int)
                    /\ Tls!NoOutput \in [offered : 0 .. TlsBytes, reported : Seq(Int), rest : Seq(Int), strayed : BOOLEAN]
  OBVIOUS
<1>1. 0 \in 0 .. TlsBytes
  BY TlsBounds
<1>2. <<>> \in Seq(Int)
  BY EmptySeq
<1>3. QED
  BY <1>1, <1>2 DEF Tls!NoOutput

\* A client that nobody has connected.
LEMMA TlsInvInit == Tls!TlsAssumption /\ Tls!Init => TlsIInv
<1> SUFFICES ASSUME Tls!TlsAssumption, Tls!Init PROVE TlsIInv
  OBVIOUS
<1>1. handle = Tls!NoHandle /\ server = Tls!NoServer /\ TlsIdle /\ tlsSockets = 0
  BY DEF Tls!Init, TlsIdle
<1>2. TlsTyped
  BY <1>1, TlsIdleTyped DEF TlsTyped, Tls!Init, Tls!NoHandle, Tls!NoServer, TlsIdle
<1>3. TlsLinked /\ TlsTrusting
  BY <1>1 DEF TlsLinked, TlsTrusting, Tls!Init, Tls!NoHandle
<1>4. TlsUnread /\ TlsOutput
  BY <1>1, TlsIdleInv DEF Tls!NoHandle
<1>5. QED
  BY <1>2, <1>3, <1>4 DEF TlsIInv

\* Without the socket of the handle there is none.
LEMMA TlsNoneLeft == TlsIInv => Tls!SocketsWithout = 0
<1>1. CASE handle.open
  BY <1>1 DEF TlsIInv, TlsLinked, Tls!SocketsWithout
<1>2. CASE ~handle.open
  BY <1>2 DEF TlsIInv, TlsLinked, Tls!SocketsWithout
<1>3. QED
  BY <1>1, <1>2

\* No socket is lost among the addresses that fail: they are closed.
LEMMA TlsNoneLost == \A outcomes \in Tls!Attempts : Tls!LostSockets(outcomes) = 0
<1> SUFFICES ASSUME NEW outcomes \in Tls!Attempts PROVE Tls!LostSockets(outcomes) = 0
  OBVIOUS
<1> DEFINE lost == {i \in Tls!Tried(outcomes) : Tls!LeavesSocket(outcomes[i]) /\ i + 1 \in Tls!Tried(outcomes)}
<1>1. ASSUME NEW i \in lost PROVE FALSE
  <2>1. outcomes[i] = "connected" /\ \A j \in 1 .. (i + 1) - 1 : outcomes[j] # "connected"
    BY <1>1 DEF Tls!LeavesSocket, Tls!Tried
  <2>2. PICK n \in 1 .. MaxAddresses : DOMAIN outcomes = 1 .. n
    BY DEF Tls!Attempts
  <2>3. i \in 1 .. n /\ n \in Int
    BY <1>1, <2>2 DEF Tls!Tried
  <2>4. i \in 1 .. (i + 1) - 1
    BY <2>3
  <2>5. QED
    BY <2>1, <2>4
<1>2. lost = {}
  BY <1>1
<1> HIDE DEF lost
<1>3. Tls!Cardinality(lost) = Cardinality(lost)
  BY Zenon DEF Tls!Cardinality, Cardinality
<1>4. Tls!Cardinality(lost) = 0
  BY <1>2, <1>3, FS_EmptySet
<1>5. QED
  BY <1>4 DEF lost, Tls!LostSockets

\* Closing leaves no handle, no socket and no bytes.
LEMMA TlsInvFree ==
  ASSUME Tls!TlsAssumption, TlsIInv, Tls!KeepSetup,
         NEW caller \in {"stop", "connected", "read", "write"}, Tls!FreeHandle(caller)
  PROVE  TlsIInv'
<1>1. /\ handle' = Tls!NoHandle /\ server' = Tls!NoServer /\ tlsSockets' = 0 /\ TlsIdle'
      /\ freedBy' = caller /\ trust' = trust /\ asked' = asked
  BY TlsNoneLeft DEF Tls!FreeHandle, Tls!NewTraffic, TlsIdle, Tls!KeepSetup
<1>2. TlsTyped'
  BY <1>1, TlsIdleTyped DEF TlsIInv, TlsTyped, Tls!NoHandle, Tls!NoServer, TlsIdle
<1>3. TlsLinked' /\ TlsTrusting'
  BY <1>1 DEF TlsIInv, TlsLinked, TlsTrusting, Tls!NoHandle
<1>4. TlsUnread' /\ TlsOutput'
  BY <1>1, TlsIdleInvNext DEF Tls!NoHandle
<1>5. QED
  BY <1>2, <1>3, <1>4 DEF TlsIInv

\* connect() frees the handle of before, and makes a new one only of a server that
\* is verified or need not be.
LEMMA TlsInvConnect ==
  ASSUME Tls!TlsAssumption, TlsIInv, NEW outcomes \in Tls!Attempts, NEW trusted \in BOOLEAN, NEW succeeds \in BOOLEAN,
         Tls!Connect(outcomes, trusted, succeeds)
  PROVE  TlsIInv'
<1>1. TlsIdle' /\ freedBy' = "none" /\ trust' = trust /\ asked' = asked
  BY DEF Tls!Connect, Tls!NewTraffic, TlsIdle
<1>2. Tls!LostSockets(outcomes) = 0 /\ Tls!SocketsWithout = 0
  BY TlsNoneLost, TlsNoneLeft
<1>3. CASE handle' = Tls!NoHandle /\ server' = Tls!NoServer /\ tlsSockets' = 0
  <2>1. TlsTyped'
    BY <1>1, <1>3, TlsIdleTyped DEF TlsIInv, TlsTyped, Tls!NoHandle, Tls!NoServer, TlsIdle
  <2>2. TlsLinked' /\ TlsTrusting'
    BY <1>1, <1>3 DEF TlsIInv, TlsLinked, TlsTrusting, Tls!NoHandle
  <2>3. TlsUnread' /\ TlsOutput'
    BY <1>1, <1>3, TlsIdleInvNext DEF Tls!NoHandle
  <2>4. QED
    BY <2>1, <2>2, <2>3 DEF TlsIInv
<1>4. CASE /\ trusted \/ trust.insecure
           /\ handle' = [Tls!NoHandle EXCEPT !.open = TRUE, !.connected = TRUE]
           /\ server' = [state |-> "open", trusted |-> trusted, accepted |-> asked]
           /\ tlsSockets' = 1
  <2>1. handle' = [open |-> TRUE, connected |-> TRUE, peeked |-> <<>>, plain |-> <<>>, unsent |-> <<>>]
    BY <1>4 DEF Tls!NoHandle
  <2>2. TlsTyped'
    <3>1. handle' \in [open : BOOLEAN, connected : BOOLEAN, peeked : Seq(Int), plain : Seq(Int), unsent : Seq(Int)]
      BY <2>1, TlsIdleTyped
    <3>2. server' \in [state : {"none", "open", "closed", "reset"}, trusted : BOOLEAN,
                       accepted : {"none", "insecure", "certificate"}]
      BY <1>4 DEF TlsIInv, TlsTyped
    <3>3. QED
      BY <1>1, <3>1, <3>2, TlsIdleTyped DEF TlsIInv, TlsTyped, TlsIdle
  <2>3. TlsLinked'
    BY <1>1, <1>4, <2>1 DEF TlsLinked
  <2>4. TlsTrusting'
    BY <1>1, <1>4, <2>1 DEF TlsIInv, TlsTrusting
  <2>5. TlsUnread' /\ TlsOutput'
    BY <1>1, <2>1, TlsIdleInvNext
  <2>6. QED
    BY <2>2, <2>3, <2>4, <2>5 DEF TlsIInv
<1>5. QED
  BY <1>2, <1>3, <1>4 DEF Tls!Connect

\* Trust is what the sketch says; a connection keeps what it was accepted with.
LEMMA TlsInvTrust ==
  ASSUME TlsIInv, Tls!SetInsecure \/ \E given \in BOOLEAN : Tls!SetCACert(given)
  PROVE  TlsIInv'
<1>1. UNCHANGED <<handle, tlsSockets, server, freedBy, records, tlsWire, tlsSent, tlsGot, out>>
  BY DEF Tls!SetInsecure, Tls!SetCACert, Tls!KeepHandle
<1>2. /\ trust' \in [cert : BOOLEAN, insecure : BOOLEAN]
      /\ asked' \in {"insecure", "certificate"}
      /\ trust'.insecure => asked' = "insecure" /\ ~trust'.cert
  <2>1. CASE Tls!SetInsecure
    BY <2>1 DEF Tls!SetInsecure
  <2>2. ASSUME NEW given \in BOOLEAN, Tls!SetCACert(given)
        PROVE  /\ trust' \in [cert : BOOLEAN, insecure : BOOLEAN]
               /\ asked' \in {"insecure", "certificate"}
               /\ ~trust'.insecure
    BY <2>2 DEF Tls!SetCACert
  <2>3. QED
    BY <2>1, <2>2
<1>3. TlsTyped'
  BY <1>1, <1>2 DEF TlsIInv, TlsTyped
<1>4. TlsLinked' /\ TlsTrusting'
  BY <1>1, <1>2 DEF TlsIInv, TlsLinked, TlsIdle, TlsTrusting
<1>5. TlsUnread' /\ TlsOutput'
  BY <1>1 DEF TlsIInv, TlsUnread, TlsHeld, TlsOutput
<1>6. QED
  BY <1>3, <1>4, <1>5 DEF TlsIInv

\* The types of the handle's sequences.
LEMMA TlsHandleTypes ==
  ASSUME TlsTyped
  PROVE  /\ handle.peeked \in Seq(Int) /\ handle.plain \in Seq(Int) /\ handle.unsent \in Seq(Int)
         /\ Len(handle.peeked) \in Nat /\ Len(handle.plain) \in Nat /\ Len(tlsGot) \in Nat
<1>1. handle.peeked \in Seq(Int) /\ handle.plain \in Seq(Int) /\ handle.unsent \in Seq(Int) /\ tlsGot \in Seq(Int)
  BY DEF TlsTyped
<1>2. QED
  BY <1>1, LenProperties

\* What the session hands over next follows what was read, and the records that
\* wait follow it.
LEMMA TlsNextBytes ==
  ASSUME TlsIInv, Len(handle.peeked) = 0
  PROVE  /\ TlsFollows(Len(tlsGot), Tls!Current) /\ Len(Tls!Current) \in Nat
         /\ TlsQueued(Len(tlsGot) + Len(Tls!Current), Tls!Waiting, tlsSent)
         /\ server.state \in {"open", "closed"} => TlsComplete(Len(tlsGot) + Len(Tls!Current), Tls!Waiting, tlsSent)
         /\ server.state = "reset" => Tls!Waiting = <<>>
         /\ Len(Tls!Current) = 0 => records = <<>> /\ Len(handle.plain) = 0
<1>1. Len(tlsGot) \in Nat /\ Len(handle.plain) \in Nat /\ handle.plain \in Seq(Int) /\ tlsSent \in Int
  BY TlsHandleTypes DEF TlsIInv, TlsTyped
<1>2. /\ TlsFollows(Len(tlsGot), handle.plain)
      /\ TlsQueued(Len(tlsGot) + Len(handle.plain), records, tlsSent)
      /\ server.state \in {"open", "closed"} => TlsComplete(Len(tlsGot) + Len(handle.plain), records, tlsSent)
      /\ server.state = "reset" => records = <<>>
  <2>1. Len(tlsGot) + Len(handle.peeked) = Len(tlsGot) /\ TlsHeld = Len(tlsGot) + Len(handle.plain)
    BY <1>1 DEF TlsHeld
  <2>2. QED
    BY <2>1 DEF TlsIInv, TlsUnread
<1>3. CASE handle.plain = <<>> /\ records # <<>>
  <2>1. Tls!Current = Head(records) /\ Tls!Waiting = Tail(records)
    BY <1>3 DEF Tls!Current, Tls!Waiting
  <2>2. Len(handle.plain) = 0
    BY <1>3, EmptySeq
  <2>3. /\ TlsFollows(Len(tlsGot), Tls!Current) /\ Len(Tls!Current) > 0
        /\ TlsQueued(Len(tlsGot) + Len(Tls!Current), Tls!Waiting, tlsSent)
        /\ TlsComplete(Len(tlsGot), records, tlsSent) => TlsComplete(Len(tlsGot) + Len(Tls!Current), Tls!Waiting, tlsSent)
    <3>1. TlsQueued(Len(tlsGot), records, tlsSent)
      BY <1>1, <1>2, <2>2
    <3>2. QED
      BY <1>1, <1>3, <2>1, <3>1, TlsTakeRecord
  <2>4. Len(Tls!Current) \in Nat
    BY <2>3, LenProperties DEF TlsFollows
  <2>5. server.state # "reset"
    BY <1>2, <1>3
  <2>6. server.state \in {"open", "closed"} => TlsComplete(Len(tlsGot) + Len(Tls!Current), Tls!Waiting, tlsSent)
    BY <1>1, <1>2, <2>2, <2>3
  <2>7. QED
    BY <2>3, <2>4, <2>5, <2>6
<1>4. CASE ~(handle.plain = <<>> /\ records # <<>>)
  <2>1. Tls!Current = handle.plain /\ Tls!Waiting = records
    BY <1>4 DEF Tls!Current, Tls!Waiting
  <2>2. Len(handle.plain) = 0 => handle.plain = <<>>
    BY <1>1, EmptySeq
  <2>3. QED
    BY <1>1, <1>2, <1>4, <2>1, <2>2
<1>5. QED
  BY <1>3, <1>4

-----------------------------------------------------------------------------
(* Reading preserves it *)

\* The values of the handle.
TlsHandles == [open : BOOLEAN, connected : BOOLEAN, peeked : Seq(Int), plain : Seq(Int), unsent : Seq(Int)]

\* Bytes that move from the records to the handle, or from it to the sketch.
TlsMoved ==
  LET front == Len(tlsGot') + Len(handle'.peeked)
      held  == front + Len(handle'.plain)
  IN  /\ handle.open /\ handle' \in TlsHandles /\ handle'.open = TRUE /\ handle'.unsent = handle.unsent
      /\ tlsGot' \in Seq(Int) /\ Len(handle'.peeked) <= 1
      /\ TlsFollows(Len(tlsGot'), handle'.peeked) /\ TlsFollows(front, handle'.plain)
      /\ TlsQueued(held, records', tlsSent)
      /\ server.state \in {"open", "closed"} => TlsComplete(held, records', tlsSent)
      /\ server.state = "reset" => records' = <<>>
      /\ UNCHANGED <<trust, asked, tlsSockets, server, freedBy, tlsWire, tlsSent, out>>

\* They stay in a row.
LEMMA TlsInvMove ==
  ASSUME Tls!TlsAssumption, TlsIInv, TlsMoved
  PROVE  TlsIInv'
<1> USE DEF TlsMoved
<1>1. TlsTyped'
  BY DEF TlsIInv, TlsTyped, TlsHandles
<1>2. TlsLinked'
  BY DEF TlsIInv, TlsLinked
<1>3. TlsTrusting'
  BY DEF TlsIInv, TlsTrusting
<1>4. TlsUnread'
  BY DEF TlsUnread, TlsHeld
<1>5. TlsOutput'
  BY DEF TlsIInv, TlsOutput
<1>6. QED
  BY <1>1, <1>2, <1>3, <1>4, <1>5 DEF TlsIInv

\* read() returns the byte that was peeked, or the front of what is decrypted.
LEMMA TlsInvRead ==
  ASSUME Tls!TlsAssumption, TlsIInv, NEW size \in 1 .. TlsSize, Tls!Read(size)
  PROVE  TlsIInv'
<1>0. /\ handle.open /\ handle \in TlsHandles /\ tlsGot \in Seq(Int) /\ tlsSent \in Int
      /\ Len(tlsGot) \in Nat /\ Len(handle.peeked) \in Nat /\ Len(handle.plain) \in Nat
      /\ handle.peeked \in Seq(Int) /\ handle.plain \in Seq(Int)
  BY TlsHandleTypes DEF Tls!Read, TlsIInv, TlsTyped, TlsHandles
<1>1. CASE /\ handle.peeked # <<>> /\ tlsGot' = tlsGot \o handle.peeked
           /\ handle' = [handle EXCEPT !.peeked = <<>>]
           /\ Tls!KeepHandle /\ UNCHANGED <<records, tlsWire, tlsSent, out>> /\ Tls!KeepSetup
  <2>1. /\ handle' \in TlsHandles /\ handle'.open = TRUE /\ handle'.unsent = handle.unsent
        /\ handle'.peeked = <<>> /\ handle'.plain = handle.plain
    <3>1. <<>> \in Seq(Int)
      BY EmptySeq
    <3>2. QED
      BY <1>0, <1>1, <3>1 DEF TlsHandles
  <2>2. Len(handle'.peeked) = 0
    BY <2>1, EmptySeq
  <2>3. tlsGot' \in Seq(Int) /\ Len(tlsGot') = Len(tlsGot) + Len(handle.peeked)
    BY <1>0, <1>1, ConcatProperties
  <2>4. /\ TlsFollows(Len(tlsGot'), handle'.peeked) /\ TlsFollows(Len(tlsGot') + Len(handle'.peeked), handle'.plain)
    <3>1. Len(tlsGot') + Len(handle'.peeked) = Len(tlsGot) + Len(handle.peeked)
      BY <1>0, <2>2, <2>3
    <3>2. QED
      BY <2>1, <3>1, TlsEmptyRun DEF TlsIInv, TlsUnread
  <2>5. Len(tlsGot') + Len(handle'.peeked) + Len(handle'.plain) = TlsHeld
    BY <1>0, <2>1, <2>2, <2>3 DEF TlsHeld
  <2>6. /\ TlsQueued(TlsHeld, records, tlsSent)
        /\ server.state \in {"open", "closed"} => TlsComplete(TlsHeld, records, tlsSent)
        /\ server.state = "reset" => records = <<>>
    BY DEF TlsIInv, TlsUnread
  <2>7. UNCHANGED <<trust, asked, tlsSockets, server, freedBy, records, tlsWire, tlsSent, out>>
    BY <1>1 DEF Tls!KeepHandle, Tls!KeepSetup
  <2>8. TlsMoved
    <3>1. /\ TlsQueued(Len(tlsGot') + Len(handle'.peeked) + Len(handle'.plain), records', tlsSent)
          /\ server.state \in {"open", "closed"} =>
               TlsComplete(Len(tlsGot') + Len(handle'.peeked) + Len(handle'.plain), records', tlsSent)
          /\ server.state = "reset" => records' = <<>>
      BY <1>1, <2>5, <2>6, Zenon
    <3>2. Len(handle'.peeked) <= 1
      BY <2>2
    <3>3. QED
      BY <1>0, <2>1, <2>3, <2>4, <2>7, <3>1, <3>2, Zenon DEF TlsMoved
  <2>9. QED
    BY <2>8, TlsInvMove
<1>2. CASE /\ handle.peeked = <<>> /\ Tls!Current # <<>>
           /\ tlsGot' = tlsGot \o SubSeq(Tls!Current, 1, Tls!Shorter(size, Len(Tls!Current)))
           /\ handle' = [handle EXCEPT !.plain = SubSeq(Tls!Current, Tls!Shorter(size, Len(Tls!Current)) + 1, Len(Tls!Current))]
           /\ records' = Tls!Waiting
           /\ Tls!KeepHandle /\ UNCHANGED <<tlsWire, tlsSent, out>> /\ Tls!KeepSetup
  <2>1. Len(handle.peeked) = 0
    BY <1>2, EmptySeq
  <2>2. /\ TlsFollows(Len(tlsGot), Tls!Current) /\ Len(Tls!Current) \in Nat
        /\ TlsQueued(Len(tlsGot) + Len(Tls!Current), Tls!Waiting, tlsSent)
        /\ server.state \in {"open", "closed"} => TlsComplete(Len(tlsGot) + Len(Tls!Current), Tls!Waiting, tlsSent)
        /\ server.state = "reset" => Tls!Waiting = <<>>
    BY <2>1, TlsNextBytes
  <2>3. PICK n \in 0 .. Len(Tls!Current) : n = Tls!Shorter(size, Len(Tls!Current))
    BY <2>2, TlsBounds DEF Tls!Shorter
  <2> DEFINE bytes == SubSeq(Tls!Current, 1, n)
             left  == SubSeq(Tls!Current, n + 1, Len(Tls!Current))
  <2>4. /\ TlsFollows(Len(tlsGot), bytes) /\ Len(bytes) = n
        /\ TlsFollows(Len(tlsGot) + n, left) /\ Len(left) = Len(Tls!Current) - n
    BY <1>0, <2>2, TlsRunSplit
  <2>5. tlsGot' = tlsGot \o bytes /\ handle' = [handle EXCEPT !.plain = left]
    BY <1>2, <2>3
  <2> HIDE DEF bytes, left
  <2>6. bytes \in Seq(Int) /\ left \in Seq(Int)
    BY <2>4 DEF TlsFollows
  <2>7. /\ handle' \in TlsHandles /\ handle'.open = TRUE /\ handle'.unsent = handle.unsent
        /\ handle'.peeked = <<>> /\ handle'.plain = left
    BY <1>0, <1>2, <2>5, <2>6 DEF TlsHandles
  <2>8. Len(handle'.peeked) = 0
    BY <2>7, EmptySeq
  <2>9. tlsGot' \in Seq(Int) /\ Len(tlsGot') = Len(tlsGot) + n
    BY <1>0, <2>4, <2>5, <2>6, ConcatProperties
  <2>10. Len(tlsGot') + Len(handle'.peeked) = Len(tlsGot) + n
    BY <1>0, <2>8, <2>9
  <2>11. Len(tlsGot') + Len(handle'.peeked) + Len(handle'.plain) = Len(tlsGot) + Len(Tls!Current)
    <3>1. Len(handle'.plain) = Len(Tls!Current) - n
      BY <2>4, <2>7
    <3>2. QED
      BY <1>0, <2>2, <2>3, <2>10, <3>1
  <2>12. TlsFollows(Len(tlsGot'), handle'.peeked) /\ TlsFollows(Len(tlsGot') + Len(handle'.peeked), handle'.plain)
    BY <2>4, <2>7, <2>10, TlsEmptyRun
  <2>13. UNCHANGED <<trust, asked, tlsSockets, server, freedBy, tlsWire, tlsSent, out>>
    BY <1>2 DEF Tls!KeepHandle, Tls!KeepSetup
  <2>14. TlsMoved
    <3>1. /\ TlsQueued(Len(tlsGot') + Len(handle'.peeked) + Len(handle'.plain), records', tlsSent)
          /\ server.state \in {"open", "closed"} =>
               TlsComplete(Len(tlsGot') + Len(handle'.peeked) + Len(handle'.plain), records', tlsSent)
          /\ server.state = "reset" => records' = <<>>
      BY <1>2, <2>2, <2>11, Zenon
    <3>2. Len(handle'.peeked) <= 1
      BY <2>8
    <3>3. QED
      BY <1>0, <2>7, <2>9, <2>12, <2>13, <3>1, <3>2, Zenon DEF TlsMoved
  <2>15. QED
    BY <2>14, TlsInvMove
<1>3. CASE Tls!FreeHandle("read") /\ Tls!KeepSetup
  BY <1>3, TlsInvFree
<1>4. QED
  BY <1>1, <1>2, <1>3 DEF Tls!Read

\* peek() moves one byte from what is decrypted to the byte put aside.
LEMMA TlsInvPeek ==
  ASSUME Tls!TlsAssumption, TlsIInv, Tls!Peek
  PROVE  TlsIInv'
<1>0. /\ handle.open /\ handle \in TlsHandles /\ tlsGot \in Seq(Int) /\ Len(tlsGot) \in Nat
      /\ handle.peeked = <<>>
  BY TlsHandleTypes DEF Tls!Peek, TlsIInv, TlsTyped, TlsHandles
<1>1. CASE /\ Tls!Current # <<>>
           /\ handle' = [handle EXCEPT !.peeked = <<Head(Tls!Current)>>, !.plain = Tail(Tls!Current)]
           /\ records' = Tls!Waiting
           /\ Tls!KeepHandle /\ UNCHANGED <<tlsWire, tlsSent, tlsGot, out>> /\ Tls!KeepSetup
  <2>1. Len(handle.peeked) = 0
    BY <1>0, EmptySeq
  <2>2. /\ TlsFollows(Len(tlsGot), Tls!Current) /\ Len(Tls!Current) \in Nat
        /\ TlsQueued(Len(tlsGot) + Len(Tls!Current), Tls!Waiting, tlsSent)
        /\ server.state \in {"open", "closed"} => TlsComplete(Len(tlsGot) + Len(Tls!Current), Tls!Waiting, tlsSent)
        /\ server.state = "reset" => Tls!Waiting = <<>>
    BY <2>1, TlsNextBytes
  <2>3. Tls!Current \in Seq(Int) /\ Len(Tls!Current) > 0
    BY <1>1, <2>2, EmptySeq DEF TlsFollows
  <2>4. PICK first, rest : first = <<Head(Tls!Current)>> /\ rest = Tail(Tls!Current)
    OBVIOUS
  <2>5. /\ first \in Seq(Int) /\ Len(first) = 1 /\ first[1] = Len(tlsGot) + 1
        /\ rest \in Seq(Int) /\ Len(rest) = Len(Tls!Current) - 1
        /\ \A j \in 1 .. Len(Tls!Current) - 1 : rest[j] = Len(tlsGot) + 1 + j
    <3>1. Head(Tls!Current) = Tls!Current[1] /\ Tls!Current[1] = Len(tlsGot) + 1
      BY <2>2, <2>3 DEF TlsFollows
    <3>2. /\ rest \in Seq(Int) /\ Len(rest) = Len(Tls!Current) - 1
          /\ \A j \in 1 .. Len(Tls!Current) - 1 : rest[j] = Tls!Current[j + 1]
      BY <2>3, <2>4
    <3>3. \A j \in 1 .. Len(Tls!Current) - 1 : Tls!Current[j + 1] = Len(tlsGot) + 1 + j
      <4> SUFFICES ASSUME NEW j \in 1 .. Len(Tls!Current) - 1 PROVE Tls!Current[j + 1] = Len(tlsGot) + 1 + j
        OBVIOUS
      <4>1. j + 1 \in 1 .. Len(Tls!Current)
        BY <2>2
      <4>2. Tls!Current[j + 1] = Len(tlsGot) + (j + 1)
        BY <2>2, <4>1 DEF TlsFollows
      <4>3. QED
        BY <1>0, <4>2
    <3>4. Head(Tls!Current) \in Int
      BY <1>0, <3>1
    <3>5. first \in Seq(Int) /\ Len(first) = 1 /\ first[1] = Head(Tls!Current)
      BY <2>4, <3>4
    <3>6. first[1] = Len(tlsGot) + 1
      BY <3>1, <3>5
    <3>7. \A j \in 1 .. Len(Tls!Current) - 1 : rest[j] = Len(tlsGot) + 1 + j
      BY <3>2, <3>3
    <3>8. QED
      BY <3>2, <3>5, <3>6, <3>7
  <2>6. TlsFollows(Len(tlsGot), first) /\ TlsFollows(Len(tlsGot) + 1, rest)
    BY <2>5 DEF TlsFollows
  <2>7. /\ handle' \in TlsHandles /\ handle'.open = TRUE /\ handle'.unsent = handle.unsent
        /\ handle'.peeked = first /\ handle'.plain = rest
    BY <1>0, <1>1, <2>4, <2>5 DEF TlsHandles
  <2>8. Len(tlsGot) + Len(handle'.peeked) + Len(handle'.plain) = Len(tlsGot) + Len(Tls!Current)
    <3>1. Len(handle'.peeked) = 1 /\ Len(handle'.plain) = Len(Tls!Current) - 1
      BY <2>5, <2>7
    <3>2. QED
      BY <1>0, <2>2, <3>1
  <2>9. UNCHANGED <<trust, asked, tlsSockets, server, freedBy, tlsWire, tlsSent, tlsGot, out>>
    BY <1>1 DEF Tls!KeepHandle, Tls!KeepSetup
  <2>10. tlsGot' = tlsGot /\ Len(handle'.peeked) = 1
    BY <1>1, <2>5, <2>7
  <2>11. TlsMoved
    <3>1. /\ TlsQueued(Len(tlsGot') + Len(handle'.peeked) + Len(handle'.plain), records', tlsSent)
          /\ server.state \in {"open", "closed"} =>
               TlsComplete(Len(tlsGot') + Len(handle'.peeked) + Len(handle'.plain), records', tlsSent)
          /\ server.state = "reset" => records' = <<>>
      BY <1>1, <2>2, <2>8, <2>10, Zenon
    <3>2. Len(handle'.peeked) <= 1
      BY <2>10
    <3>3. QED
      BY <1>0, <2>6, <2>7, <2>9, <2>10, <3>1, <3>2, Zenon DEF TlsMoved
  <2>12. QED
    BY <2>11, TlsInvMove
<1>2. CASE Tls!FreeHandle("read") /\ Tls!KeepSetup
  BY <1>2, TlsInvFree
<1>3. QED
  BY <1>1, <1>2 DEF Tls!Peek

-----------------------------------------------------------------------------
(* So do the server and the network *)

\* The server's bytes go to the end of what waits, and a reset takes what waits.
LEMMA TlsInvNetwork ==
  ASSUME Tls!TlsAssumption, TlsIInv, Tls!Network
  PROVE  TlsIInv'
<1>0. /\ handle \in TlsHandles /\ Len(tlsGot) \in Nat /\ Len(handle.peeked) \in Nat /\ Len(handle.plain) \in Nat
      /\ tlsSent \in Nat /\ TlsHeld \in Nat
  BY TlsHandleTypes, TlsBounds DEF TlsIInv, TlsTyped, TlsHandles, TlsHeld
<1>1. ASSUME NEW n \in 1 .. 2, Tls!ServerSends(n) PROVE TlsIInv'
  <2>1. /\ server.state = "open" /\ tlsSent + n <= TlsBytes
        /\ records' = Append(records, Tls!Numbers(tlsSent + 1, tlsSent + n)) /\ tlsSent' = tlsSent + n
        /\ UNCHANGED <<trust, asked, handle, tlsSockets, server, freedBy, tlsWire, tlsGot, out>>
    BY <1>1 DEF Tls!ServerSends, Tls!KeepHandle, Tls!KeepSetup
  <2>2. TlsFollows(tlsSent, Tls!Numbers(tlsSent + 1, tlsSent + n)) /\ Len(Tls!Numbers(tlsSent + 1, tlsSent + n)) = n
    <3>1. n \in Nat
      OBVIOUS
    <3>2. QED
      BY <1>0, <3>1, TlsNumbersRun
  <2>3. TlsQueued(TlsHeld, records', tlsSent') /\ TlsComplete(TlsHeld, records', tlsSent')
    BY <1>0, <2>1, <2>2, TlsAddRecord DEF TlsIInv, TlsUnread
  <2>4. TlsUnread'
    BY <2>1, <2>3 DEF TlsIInv, TlsUnread, TlsHeld
  <2>5. TlsTyped'
    BY <1>0, <2>1, TlsBounds DEF TlsIInv, TlsTyped
  <2>6. handle.open
    BY <2>1 DEF TlsIInv, TlsLinked, Tls!NoServer
  <2>7. TlsLinked' /\ TlsTrusting' /\ TlsOutput'
    BY <2>1, <2>6 DEF TlsIInv, TlsLinked, TlsTrusting, TlsOutput
  <2>8. QED
    BY <2>4, <2>5, <2>7 DEF TlsIInv
<1>2. ASSUME \/ server.state = "open" /\ server' = [server EXCEPT !.state = "closed"] /\ UNCHANGED records
             \/ server' = [server EXCEPT !.state = "reset"] /\ records' = <<>>,
             server.state \in {"open", "closed"},
             UNCHANGED <<trust, asked, handle, tlsSockets, freedBy, tlsWire, tlsSent, tlsGot, out>>
      PROVE  TlsIInv'
  <2>1. handle.open
    BY <1>2 DEF TlsIInv, TlsLinked, Tls!NoServer
  <2>2. /\ server' \in [state : {"none", "open", "closed", "reset"}, trusted : BOOLEAN,
                       accepted : {"none", "insecure", "certificate"}]
        /\ server'.trusted = server.trusted /\ server'.accepted = server.accepted
        /\ server'.state \in {"closed", "reset"}
    BY <1>2 DEF TlsIInv, TlsTyped
  <2>3. TlsTyped'
    BY <1>2, <2>2 DEF TlsIInv, TlsTyped
  <2>4. TlsLinked' /\ TlsTrusting' /\ TlsOutput'
    BY <1>2, <2>1, <2>2 DEF TlsIInv, TlsLinked, TlsTrusting, TlsOutput
  <2>5. CASE server'.state = "closed" /\ server.state = "open" /\ UNCHANGED records
    <3>1. TlsUnread'
      BY <1>2, <2>5 DEF TlsIInv, TlsUnread, TlsHeld
    <3>2. QED
      BY <2>3, <2>4, <3>1 DEF TlsIInv
  <2>6. CASE server'.state = "reset" /\ records' = <<>>
    <3>1. TlsHeld <= tlsSent
      BY DEF TlsIInv, TlsUnread, TlsQueued
    <3>2. TlsQueued(TlsHeld, records', tlsSent)
      BY <1>0, <2>6, <3>1, TlsNoRecords
    <3>3. TlsUnread'
      BY <1>2, <2>6, <3>2 DEF TlsIInv, TlsUnread, TlsHeld
    <3>4. QED
      BY <2>3, <2>4, <3>3 DEF TlsIInv
  <2>7. QED
    BY <1>2, <2>5, <2>6 DEF TlsIInv, TlsTyped
<1>3. CASE Tls!ServerCloses
  BY <1>2, <1>3 DEF Tls!ServerCloses, Tls!KeepSetup
<1>4. CASE Tls!ConnectionResets
  BY <1>2, <1>4 DEF Tls!ConnectionResets, Tls!KeepSetup
<1>5. QED
  BY <1>1, <1>3, <1>4 DEF Tls!Network

-----------------------------------------------------------------------------
(* So does writing *)

\* There is one byte in the record that is unsent, or none.
LEMMA TlsUnsentByte ==
  ASSUME TlsIInv
  PROVE  handle.unsent \in Seq(Int) /\ (Len(handle.unsent) = 0 \/ Len(handle.unsent) = 1)
<1>1. handle.unsent \in Seq(Int) /\ Len(handle.unsent) <= 1
  BY DEF TlsIInv, TlsTyped, TlsOutput
<1>2. PICK n \in Nat : n = Len(handle.unsent)
  BY <1>1, LenProperties
<1>3. n <= 1
  BY <1>1, <1>2
<1>4. n = 0 \/ n = 1
  BY <1>3
<1>5. QED
  BY <1>1, <1>2, <1>4, Zenon

\* A sequence of one byte is given by that byte.
LEMMA TlsOneByte ==
  ASSUME NEW s \in Seq(Int), Len(s) = 1
  PROVE  s = <<s[1]>>
<1>1. s[1] \in Int
  BY ElementOfSeq
<1>2. <<s[1]>> \in Seq(Int) /\ Len(<<s[1]>>) = 1 /\ <<s[1]>>[1] = s[1]
  BY <1>1
<1>3. \A j \in 1 .. Len(s) : s[j] = <<s[1]>>[j]
  BY <1>2
<1>4. QED
  BY <1>2, <1>3, SeqEqual

\* The first byte and those that follow it.
LEMMA TlsFrontIs ==
  ASSUME NEW bs \in Seq(Int), NEW k \in 1 .. Len(bs)
  PROVE  <<bs[1]>> \o SubSeq(bs, 2, k) = SubSeq(bs, 1, k) /\ SubSeq(bs, 1, 1) = <<bs[1]>>
<1>1. Len(bs) \in Nat /\ bs[1] \in Int
  BY LenProperties, ElementOfSeq
<1>2. PICK a : a = SubSeq(bs, 2, k)
  OBVIOUS
<1>3. PICK b : b = SubSeq(bs, 1, k)
  OBVIOUS
<1>4. a \in Seq(Int) /\ Len(a) = k - 1 /\ \A j \in 1 .. k - 1 : a[j] = bs[j + 1]
  BY <1>1, <1>2
<1>5. b \in Seq(Int) /\ Len(b) = k /\ \A j \in 1 .. k : b[j] = bs[j]
  BY <1>1, <1>3
<1>6. PICK c : c = <<bs[1]>> \o a
  OBVIOUS
<1>7. c \in Seq(Int) /\ Len(c) = k /\ c[1] = bs[1] /\ \A j \in 2 .. k : c[j] = a[j - 1]
  <2>1. <<bs[1]>> \in Seq(Int) /\ Len(<<bs[1]>>) = 1
    BY <1>1
  <2>2. c \in Seq(Int) /\ Len(c) = 1 + (k - 1)
    BY <1>4, <1>6, <2>1, ConcatProperties
  <2>3. \A j \in 1 .. 1 + (k - 1) : c[j] = IF j <= 1 THEN bs[1] ELSE a[j - 1]
    BY <1>4, <1>6, <2>1, ConcatProperties
  <2>4. QED
    BY <1>1, <2>2, <2>3, SMTT(30)
<1>8. \A j \in 1 .. k : c[j] = b[j]
  <2> SUFFICES ASSUME NEW j \in 1 .. k PROVE c[j] = b[j]
    OBVIOUS
  <2>1. CASE j = 1
    BY <1>5, <1>7, <2>1
  <2>2. CASE j # 1
    <3>1. j \in 2 .. k /\ j - 1 \in 1 .. k - 1 /\ (j - 1) + 1 = j
      BY <1>1, <2>2
    <3>2. QED
      BY <1>4, <1>5, <1>7, <3>1
  <2>3. QED
    BY <2>1, <2>2
<1>9. c = b
  BY <1>5, <1>7, <1>8, SeqEqual
<1>10. SubSeq(bs, 1, 1) = <<bs[1]>>
  <2>1. SubSeq(bs, 1, 1) \in Seq(Int) /\ Len(SubSeq(bs, 1, 1)) = 1 /\ SubSeq(bs, 1, 1)[1] = bs[1]
    BY <1>1
  <2>2. QED
    BY <2>1, TlsOneByte
<1>11. QED
  BY <1>2, <1>3, <1>6, <1>9, <1>10

\* What the loop takes from: the bytes, and how they go on from the last write.
TlsTaken(bs, strays) ==
  strays \/ Len(handle.unsent) = 0 \/ (Len(bs) > 0 /\ handle.unsent[1] = bs[1])

\* A write that reports something has put it on the wire, unless it strays.
TlsSends(bs, k) ==
  /\ k \in 1 .. Len(bs) /\ handle.open /\ server.state \in {"open", "closed"}
  /\ tlsWire' \in Seq(Int)
  /\ out'.reported = out.reported \o SubSeq(bs, 1, k)
  /\ out'.rest = SubSeq(bs, k + 1, Len(bs))
  /\ ~out'.strayed => ~out.strayed /\ tlsWire' = tlsWire \o SubSeq(bs, 1, k)
  /\ server'.state \in {server.state, "reset"}
  /\ server' = [server EXCEPT !.state = server'.state]
  /\ records' = IF server'.state = "reset" THEN <<>> ELSE records
  /\ UNCHANGED <<tlsSockets, freedBy, tlsSent, tlsGot>>

\* The record that could not be sent before is the first of the bytes.
LEMMA TlsWriteSends ==
  ASSUME TlsIInv, NEW bs \in Seq(Int), NEW k \in Nat, NEW ending \in Tls!Endings,
         NEW upTo, NEW strays \in BOOLEAN, TlsTaken(bs, strays), k > 0,
         Tls!WriteLoop(bs, k, ending), Tls!Reported(bs, k, upTo, strays)
  PROVE  TlsSends(bs, k)
<1>0. Len(bs) \in Nat /\ k # 0
  BY LenProperties
<1>1. k \in 1 .. Len(bs) /\ handle.open /\ server.state \in {"open", "closed"}
  <2>1. handle.open /\ server.state # "reset" /\ IF ending = "done" THEN k = Len(bs) ELSE k < Len(bs)
    BY DEF Tls!WriteLoop
  <2>2. server.state # "none"
    BY <2>1 DEF TlsIInv, TlsLinked
  <2>3. QED
    BY <1>0, <2>1, <2>2 DEF TlsIInv, TlsTyped
<1>2. /\ handle.unsent \in Seq(Int) /\ Len(handle.unsent) \in {0, 1}
      /\ bs[1] \in Int /\ tlsWire \in Seq(Int)
  <2>3. 1 \in 1 .. Len(bs)
    BY <1>0, <1>1
  <2>4. bs[1] \in Int
    BY <2>3, ElementOfSeq
  <2>5. QED
    BY <2>4, TlsUnsentByte DEF TlsIInv, TlsTyped
<1>3. PICK first : first = IF handle.unsent # <<>> THEN handle.unsent ELSE SubSeq(bs, 1, 1)
  OBVIOUS
<1>4. first \in Seq(Int) /\ (~strays => first = <<bs[1]>>)
  <2>1. CASE Len(handle.unsent) = 0
    BY <1>1, <1>2, <1>3, <2>1, EmptySeq, TlsFrontIs
  <2>2. CASE Len(handle.unsent) = 1
    <3>1. handle.unsent # <<>> /\ handle.unsent = <<handle.unsent[1]>>
      BY <1>2, <2>2, EmptySeq, TlsOneByte
    <3>2. QED
      BY <1>2, <1>3, <2>2, <3>1 DEF TlsTaken
  <2>3. QED
    BY <1>2, <2>1, <2>2
<1>5. tlsWire' = tlsWire \o (first \o SubSeq(bs, 2, k))
  BY <1>0, <1>3, Zenon DEF Tls!WriteLoop
<1>6. SubSeq(bs, 2, k) \in Seq(Int)
  BY <1>0, <1>1
<1>7. tlsWire' \in Seq(Int) /\ (~strays => tlsWire' = tlsWire \o SubSeq(bs, 1, k))
  BY <1>1, <1>2, <1>4, <1>5, <1>6, TlsFrontIs, ConcatProperties
<1>8. /\ out'.reported = out.reported \o SubSeq(bs, 1, k)
      /\ out'.rest = SubSeq(bs, k + 1, Len(bs))
      /\ out'.strayed = (out.strayed \/ strays)
  <2>1. out' = [offered |-> upTo, reported |-> out.reported \o SubSeq(bs, 1, k),
                rest |-> SubSeq(bs, k + 1, Len(bs)), strayed |-> out.strayed \/ strays]
    BY <1>0, Zenon DEF Tls!Reported
  <2>2. QED
    BY <2>1, Zenon
<1>9. server' = [server EXCEPT !.state = IF ending = "failed" THEN "reset" ELSE @]
  BY <1>0, Zenon DEF Tls!WriteLoop
<1>10. /\ server'.state = IF ending = "failed" THEN "reset" ELSE server.state
       /\ server' = [server EXCEPT !.state = server'.state]
  BY <1>9 DEF TlsIInv, TlsTyped
<1>11. /\ records' = IF ending = "failed" THEN <<>> ELSE records
       /\ UNCHANGED <<tlsSockets, freedBy, tlsSent, tlsGot>>
  BY <1>0, Zenon DEF Tls!WriteLoop
<1>12. records' = IF server'.state = "reset" THEN <<>> ELSE records
  BY <1>1, <1>10, <1>11
<1>13. server'.state \in {server.state, "reset"}
  BY <1>10
<1>14. ~out'.strayed => ~out.strayed /\ ~strays
  BY <1>8
<1>15. QED
  BY <1>1, <1>7, <1>8, <1>10, <1>11, <1>12, <1>13, <1>14, Zenon DEF TlsSends

\* The byte that is still unsent is the first that was not reported.
LEMMA TlsInvWrite ==
  ASSUME Tls!TlsAssumption, TlsIInv, NEW bs \in Seq(Int), NEW k \in Nat, NEW ending \in Tls!Endings,
         NEW upTo \in 0 .. TlsBytes, NEW strays \in BOOLEAN, TlsTaken(bs, strays),
         Tls!WriteLoop(bs, k, ending), Tls!Reported(bs, k, upTo, strays)
  PROVE  TlsIInv'
<1>1. CASE k = 0
  <2>1. Tls!FreeHandle("write") /\ Tls!KeepSetup
    BY <1>1 DEF Tls!WriteLoop
  <2>2. QED
    BY <2>1, TlsInvFree
<1>2. CASE k > 0
  <2>1. TlsSends(bs, k)
    BY <1>2, TlsWriteSends
  <2>2. Len(bs) \in Nat /\ k \in 1 .. Len(bs) /\ handle.open /\ tlsSent \in Nat
    BY <2>1, LenProperties, TlsBounds DEF TlsSends, TlsIInv, TlsTyped
  <2>3. PICK left : left = IF ending = "timeout" THEN <<bs[k + 1]>> ELSE <<>>
    OBVIOUS
  <2>4. /\ handle' = [handle EXCEPT !.unsent = left, !.connected = @ /\ ending # "failed"]
        /\ UNCHANGED <<trust, asked>>
    <3>1. k # 0
      BY <1>2
    <3>2. QED
      BY <2>3, <3>1, Zenon DEF Tls!WriteLoop, Tls!KeepSetup
  <2>5. ending = "timeout" => k < Len(bs)
    BY DEF Tls!WriteLoop
  <2>6. left \in Seq(Int) /\ Len(left) <= 1 /\ (Len(left) = 1 => ending = "timeout" /\ left[1] = bs[k + 1])
    <3>1. CASE ending = "timeout"
      <4>1. bs[k + 1] \in Int
        <5>1. k + 1 \in 1 .. Len(bs)
          BY <2>2, <2>5, <3>1
        <5>2. QED
          BY <5>1, ElementOfSeq
      <4>2. QED
        BY <2>3, <3>1, <4>1
    <3>2. CASE ending # "timeout"
      BY <2>3, <3>2, EmptySeq
    <3>3. QED
      BY <3>1, <3>2
  <2>7. /\ handle' \in TlsHandles /\ handle'.open = TRUE /\ handle'.unsent = left
        /\ handle'.peeked = handle.peeked /\ handle'.plain = handle.plain
    <3>1. handle \in TlsHandles
      BY DEF TlsIInv, TlsTyped, TlsHandles
    <3>2. (handle.connected /\ ending # "failed") \in BOOLEAN
      OBVIOUS
    <3>3. PICK still \in BOOLEAN : still = (handle.connected /\ ending # "failed")
      BY <3>2
    <3>4. handle' = [handle EXCEPT !.unsent = left, !.connected = still]
      BY <2>4, <3>3
    <3>5. QED
      BY <2>2, <2>6, <3>1, <3>4 DEF TlsHandles
  <2>8. /\ SubSeq(bs, 1, k) \in Seq(Int)
        /\ SubSeq(bs, k + 1, Len(bs)) \in Seq(Int) /\ Len(SubSeq(bs, k + 1, Len(bs))) = Len(bs) - k
        /\ k < Len(bs) => SubSeq(bs, k + 1, Len(bs))[1] = bs[k + 1]
    BY <2>2
  <2>9. out' \in [offered : 0 .. TlsBytes, reported : Seq(Int), rest : Seq(Int), strayed : BOOLEAN]
    <3>1. out'= [offered |-> upTo, reported |-> out.reported \o SubSeq(bs, 1, k),
                 rest |-> SubSeq(bs, k + 1, Len(bs)), strayed |-> out.strayed \/ strays]
      <4>1. k # 0
        BY <1>2
      <4>2. QED
        BY <4>1, Zenon DEF Tls!Reported
    <3>2. out.reported \o SubSeq(bs, 1, k) \in Seq(Int)
      BY <2>8, ConcatProperties DEF TlsIInv, TlsTyped
    <3>3. (out.strayed \/ strays) \in BOOLEAN
      OBVIOUS
    <3>4. QED
      BY <2>8, <3>1, <3>2, <3>3, Zenon
  <2>10. /\ server' \in [state : {"none", "open", "closed", "reset"}, trusted : BOOLEAN,
                         accepted : {"none", "insecure", "certificate"}]
         /\ server'.state # "none" /\ server'.trusted = server.trusted /\ server'.accepted = server.accepted
    <3>1. PICK s : s = server'.state
      OBVIOUS
    <3>2. server' = [server EXCEPT !.state = s] /\ s \in {"open", "closed", "reset"}
      BY <2>1, <3>1 DEF TlsSends
    <3>3. QED
      BY <3>2 DEF TlsIInv, TlsTyped
  <2>11. TlsTyped'
    BY <2>1, <2>4, <2>7, <2>9, <2>10 DEF TlsIInv, TlsTyped, TlsSends, TlsHandles
  <2>12. TlsLinked'
    BY <2>1, <2>2, <2>7, <2>10 DEF TlsIInv, TlsLinked, TlsSends
  <2>13. TlsTrusting'
    BY <2>2, <2>4, <2>7, <2>10 DEF TlsIInv, TlsTrusting
  <2>14. TlsUnread'
    <3>1. TlsHeld \in Nat /\ TlsHeld <= tlsSent
      <4>1. TlsHeld <= tlsSent
        BY DEF TlsIInv, TlsUnread, TlsQueued
      <4>2. Len(tlsGot) \in Nat /\ Len(handle.peeked) \in Nat /\ Len(handle.plain) \in Nat
        BY TlsHandleTypes DEF TlsIInv
      <4>3. PICK a, b, c \in Nat : a = Len(tlsGot) /\ b = Len(handle.peeked) /\ c = Len(handle.plain)
        BY <4>2
      <4>4. a + b + c \in Nat
        OBVIOUS
      <4>5. QED
        BY <4>1, <4>3, <4>4, Zenon DEF TlsHeld
    <3>2. CASE server'.state = "reset"
      <4>1. records' = <<>> /\ tlsSent' = tlsSent /\ tlsGot' = tlsGot
        BY <2>1, <3>2 DEF TlsSends
      <4>2. TlsQueued(TlsHeld, records', tlsSent)
        BY <2>2, <3>1, <4>1, TlsNoRecords
      <4>3. QED
        BY <2>7, <3>2, <4>1, <4>2 DEF TlsIInv, TlsUnread, TlsHeld
    <3>3. CASE server'.state # "reset"
      <4>1. records' = records /\ tlsSent' = tlsSent /\ tlsGot' = tlsGot /\ server'.state = server.state
        BY <2>1, <3>3 DEF TlsSends
      <4>2. QED
        BY <2>7, <4>1 DEF TlsIInv, TlsUnread, TlsHeld
    <3>4. QED
      BY <3>2, <3>3
  <2>15. TlsOutput'
    <3>1. ~out'.strayed => tlsWire' = out'.reported
      BY <2>1 DEF TlsSends, TlsIInv, TlsOutput
    <3>2. out'.rest = SubSeq(bs, k + 1, Len(bs))
      BY <2>1 DEF TlsSends
    <3>3. Len(left) = 1 => Len(out'.rest) > 0 /\ left[1] = out'.rest[1]
      BY <2>2, <2>5, <2>6, <2>8, <3>2
    <3>4. QED
      BY <2>6, <2>7, <3>1, <3>3 DEF TlsOutput
  <2>16. QED
    BY <2>11, <2>12, <2>13, <2>14, <2>15 DEF TlsIInv
<1>3. QED
  BY <1>1, <1>2

\* Both ways to write are the loop over some bytes.
LEMMA TlsWriteIsLoop ==
  ASSUME Tls!TlsAssumption, TlsIInv, NEW k \in 0 .. TlsSize, NEW ending \in Tls!Endings,
         Tls!WriteRest(k, ending) \/ \E n \in 1 .. TlsSize : Tls!WriteNew(n, k, ending)
  PROVE  \E bs \in Seq(Int), upTo \in 0 .. TlsBytes, strays \in BOOLEAN :
           TlsTaken(bs, strays) /\ Tls!WriteLoop(bs, k, ending) /\ Tls!Reported(bs, k, upTo, strays)
<1>0. out.offered \in 0 .. TlsBytes /\ TlsBytes \in Nat /\ out.rest \in Seq(Int)
  BY TlsBounds DEF TlsIInv, TlsTyped
<1>1. CASE Tls!WriteRest(k, ending)
  <2>1. Tls!WriteLoop(out.rest, k, ending) /\ Tls!Reported(out.rest, k, out.offered, FALSE)
    BY <1>1 DEF Tls!WriteRest
  <2>4. TlsTaken(out.rest, FALSE)
    BY TlsUnsentByte DEF TlsIInv, TlsOutput, TlsTaken
  <2>5. QED
    BY <1>0, <2>1, <2>4
<1>2. ASSUME NEW n \in 1 .. TlsSize, Tls!WriteNew(n, k, ending)
      PROVE  \E bs \in Seq(Int), upTo \in 0 .. TlsBytes, strays \in BOOLEAN :
               TlsTaken(bs, strays) /\ Tls!WriteLoop(bs, k, ending) /\ Tls!Reported(bs, k, upTo, strays)
  <2>1. PICK bs : bs = Tls!Numbers(out.offered + 1, out.offered + n)
    OBVIOUS
  <2>2. PICK strays \in BOOLEAN : strays = (handle.unsent # <<>>)
    OBVIOUS
  <2>3. /\ out.offered + n <= TlsBytes
        /\ Tls!WriteLoop(bs, k, ending) /\ Tls!Reported(bs, k, out.offered + n, strays)
    BY <1>2, <2>1, <2>2 DEF Tls!WriteNew
  <2>4. n \in Nat /\ out.offered \in Nat /\ out.offered + n \in 0 .. TlsBytes
    BY <1>0, <2>3, TlsBounds
  <2>5. bs \in Seq(Int)
    BY <2>1, <2>4, TlsNumbersRun DEF TlsFollows
  <2>6. TlsTaken(bs, strays)
    BY <2>2, EmptySeq DEF TlsTaken
  <2>7. QED
    BY <2>3, <2>4, <2>5, <2>6
<1>3. QED
  BY <1>1, <1>2

\* No step breaks the invariant.
LEMMA TlsInvNext == Tls!TlsAssumption /\ TlsIInv /\ [Tls!Next]_Tls!vars => TlsIInv'
<1> SUFFICES ASSUME Tls!TlsAssumption, TlsIInv, [Tls!Next]_Tls!vars PROVE TlsIInv'
  OBVIOUS
<1>1. CASE Tls!SetInsecure \/ \E given \in BOOLEAN : Tls!SetCACert(given)
  BY <1>1, TlsInvTrust
<1>2. CASE \E outcomes \in Tls!Attempts, trusted, succeeds \in BOOLEAN : Tls!Connect(outcomes, trusted, succeeds)
  BY <1>2, TlsInvConnect
<1>3. CASE Tls!Stop \/ Tls!Connected
  BY <1>3, TlsInvFree DEF Tls!Stop, Tls!Connected
<1>4. CASE Tls!Peek
  BY <1>4, TlsInvPeek
<1>5. CASE \E size \in 1 .. TlsSize : Tls!Read(size)
  BY <1>5, TlsInvRead
<1>6. ASSUME NEW k \in 0 .. TlsSize, NEW ending \in Tls!Endings,
             Tls!WriteRest(k, ending) \/ \E n \in 1 .. TlsSize : Tls!WriteNew(n, k, ending)
      PROVE  TlsIInv'
  <2>1. k \in Nat
    BY TlsBounds
  <2>2. QED
    BY <1>6, <2>1, TlsWriteIsLoop, TlsInvWrite
<1>7. CASE Tls!Network
  BY <1>7, TlsInvNetwork
<1>8. CASE UNCHANGED Tls!vars
  BY <1>8 DEF Tls!vars, TlsIInv, TlsTyped, TlsLinked, TlsIdle, TlsTrusting, TlsUnread, TlsHeld, TlsOutput
<1>9. QED
  BY <1>1, <1>2, <1>3, <1>4, <1>5, <1>6, <1>7, <1>8 DEF Tls!Next, Tls!Sketch

-----------------------------------------------------------------------------
(* The invariant of the run *)

\* available() hides nothing: without a byte at hand all have been read.
LEMMA TlsAllSeen == TlsIInv => Tls!AvailableSeesAll
<1> SUFFICES ASSUME TlsIInv, handle.open, Len(tlsGot) < tlsSent, server.state # "reset" PROVE Tls!Available > 0
  BY DEF Tls!AvailableSeesAll
<1>1. Len(tlsGot) \in Nat /\ handle.plain \in Seq(Int) /\ Len(handle.plain) \in Nat
  BY TlsHandleTypes DEF TlsIInv
<1>2. CASE handle.peeked # <<>>
  BY <1>2 DEF Tls!Available
<1>3. CASE handle.peeked = <<>> /\ handle.plain # <<>>
  <2>1. Len(handle.plain) # 0
    BY <1>1, <1>3, EmptySeq
  <2>2. QED
    BY <1>1, <1>3, <2>1 DEF Tls!Available
<1>4. CASE handle.peeked = <<>> /\ handle.plain = <<>>
  <2>1. Len(handle.peeked) = 0 /\ Len(handle.plain) = 0
    BY <1>4, EmptySeq
  <2>2. TlsHeld = Len(tlsGot)
    BY <1>1, <2>1 DEF TlsHeld
  <2>3. CASE server.state = "open"
    <3>1. TlsComplete(Len(tlsGot), records, tlsSent)
      BY <2>2, <2>3 DEF TlsIInv, TlsUnread
    <3>2. Len(records) # 0
      BY <3>1 DEF TlsComplete
    <3>3. records # <<>>
      BY <3>2, EmptySeq
    <3>4. QED
      BY <1>4, <3>3 DEF Tls!Available
  <2>4. CASE server.state # "open"
    BY <1>4, <2>4 DEF Tls!Available
  <2>5. QED
    BY <2>3, <2>4
<1>5. QED
  BY <1>2, <1>3, <1>4

\* ClientInv holds in every state, for every number of addresses, bytes and records:
\* no attempt, handshake or error leaves a socket behind, a server that was not
\* verified is connected to only after setInsecure() was the sketch's last word, and
\* available() hides no byte that has arrived (AIR780EPMTLSClient, arduino_tls_io.c).
THEOREM TlsClientSafe == Tls!TlsAssumption => (Tls!Spec => []Tls!ClientInv)
<1> SUFFICES ASSUME Tls!TlsAssumption PROVE Tls!Spec => []Tls!ClientInv
  OBVIOUS
<1>1. Tls!Init => TlsIInv
  BY TlsInvInit
<1>2. TlsIInv /\ [Tls!Next]_Tls!vars => TlsIInv'
  BY TlsInvNext
<1>3. TlsIInv => Tls!ClientInv
  <2> SUFFICES ASSUME TlsIInv PROVE Tls!ClientInv
    OBVIOUS
  <2>1. tlsSockets = IF handle.open THEN 1 ELSE 0
    BY DEF TlsIInv, TlsLinked
  <2>2. Tls!TypeOK
    BY <2>1 DEF TlsIInv, TlsTyped, TlsTrusting, TlsUnread, TlsOutput, Tls!TypeOK
  <2>3. Tls!SocketsOwned /\ Tls!VerifiedUnlessAsked
    BY <2>1 DEF TlsIInv, TlsTrusting, Tls!SocketsOwned, Tls!VerifiedUnlessAsked
  <2>4. QED
    BY <2>2, <2>3, TlsAllSeen DEF Tls!ClientInv
<1>4. QED
  BY <1>1, <1>2, <1>3, PTL DEF Tls!Spec

-----------------------------------------------------------------------------
(* TlsClient implements ByteStream *)

\* The two parts of a sequence.
LEMMA TlsConcatPieces ==
  ASSUME NEW s \in Seq(Int), NEW t \in Seq(Int)
  PROVE  /\ SubSeq(s, 1, Len(s)) = s
         /\ SubSeq(s \o t, 1, Len(s)) = s
         /\ SubSeq(s \o t, Len(s) + 1, Len(s \o t)) = t
         /\ Len(s \o t) = Len(s) + Len(t)
<1>1. PICK m, n \in Nat : m = Len(s) /\ n = Len(t)
  BY LenProperties
<1>2. PICK c : c = s \o t
  OBVIOUS
<1>3. /\ c \in Seq(Int) /\ Len(c) = m + n
      /\ \A j \in 1 .. m + n : c[j] = IF j <= m THEN s[j] ELSE t[j - m]
  BY <1>1, <1>2, ConcatProperties
<1>4. PICK a : a = SubSeq(c, 1, m)
  OBVIOUS
<1>5. PICK b : b = SubSeq(c, m + 1, m + n)
  OBVIOUS
<1>6. a \in Seq(Int) /\ Len(a) = m /\ \A j \in 1 .. m : a[j] = c[j]
  BY <1>3, <1>4
<1>7. b \in Seq(Int) /\ Len(b) = n /\ \A j \in 1 .. n : b[j] = c[m + j]
  BY <1>3, <1>5
<1>8. \A j \in 1 .. m : a[j] = s[j]
  BY <1>3, <1>6
<1>9. \A j \in 1 .. n : b[j] = t[j]
  <2> SUFFICES ASSUME NEW j \in 1 .. n PROVE b[j] = t[j]
    OBVIOUS
  <2>1. m + j \in 1 .. m + n /\ ~(m + j <= m) /\ (m + j) - m = j
    OBVIOUS
  <2>2. QED
    BY <1>3, <1>7, <2>1
<1>10. a = s /\ b = t
  BY <1>1, <1>6, <1>7, <1>8, <1>9, SeqEqual
<1>11. SubSeq(s, 1, Len(s)) = s
  BY SubSeqFull
<1>12. QED
  BY <1>1, <1>2, <1>3, <1>4, <1>5, <1>10, <1>11, Zenon

\* A client without bytes is a stream without bytes.
LEMMA TlsNothingMoved == TlsIdle => Tls!Stream!Nothing
  BY DEF TlsIdle, Tls!NoOutput, Tls!Stream!Nothing

\* After the step too.
LEMMA TlsNothingMovedNext == TlsIdle' => Tls!Stream!Nothing'
  BY DEF TlsIdle, Tls!NoOutput, Tls!Stream!Nothing

\* A new client is a new stream.
LEMMA TlsRefineInit == Tls!Init => Tls!Stream!Init
<1> SUFFICES ASSUME Tls!Init PROVE Tls!Stream!Init
  OBVIOUS
<1>1. TlsIdle /\ server.state = "none" /\ tlsSockets = 0 /\ freedBy = "none"
  BY DEF Tls!Init, TlsIdle, Tls!NoServer
<1>2. Tls!Stream!Nothing
  BY <1>1, TlsNothingMoved
<1>3. QED
  BY <1>1, <1>2 DEF Tls!Stream!Init

\* A freed handle is a stream that is closed.
LEMMA TlsFreeRestarts ==
  ASSUME TlsIInv, NEW caller, Tls!FreeHandle(caller)
  PROVE  Tls!Stream!Restart("none") /\ freedBy' = caller
<1>1. server'.state = "none" /\ tlsSockets' = 0 /\ TlsIdle' /\ freedBy' = caller
  BY TlsNoneLeft DEF Tls!FreeHandle, Tls!NewTraffic, TlsIdle, Tls!NoServer
<1>2. Tls!Stream!Nothing'
  BY <1>1, TlsNothingMovedNext
<1>3. QED
  BY <1>1, <1>2 DEF Tls!Stream!Restart

\* The sketch closes it, or a write that fails, at once or when connected() sees it.
LEMMA TlsRefineFree ==
  ASSUME TlsIInv, handle.open, NEW caller \in {"stop", "connected", "write"}, Tls!FreeHandle(caller)
  PROVE  Tls!Stream!Next
<1>1. Tls!Stream!Restart("none") /\ freedBy' = caller
  BY TlsFreeRestarts
<1>2. server.state \in {"open", "closed", "reset"}
  BY DEF TlsIInv, TlsTyped, TlsLinked
<1>3. CASE caller = "stop"
  <2>1. Tls!Stream!Close
    BY <1>1, <1>2, <1>3 DEF Tls!Stream!Close
  <2>2. QED
    BY <2>1 DEF Tls!Stream!Next
<1>4. CASE caller \in {"connected", "write"}
  <2>1. Tls!Stream!CloseByWriter
    BY <1>1, <1>2, <1>4 DEF Tls!Stream!CloseByWriter
  <2>2. QED
    BY <2>1 DEF Tls!Stream!Next
<1>5. QED
  BY <1>3, <1>4

\* A reader closes it only when it has read all of a connection that was not reset.
LEMMA TlsRefineEnd ==
  ASSUME TlsIInv, handle.open, handle.peeked = <<>>, Tls!Current = <<>>, server.state # "open", Tls!FreeHandle("read")
  PROVE  Tls!Stream!Next
<1>1. Tls!Stream!Restart("none") /\ freedBy' = "read"
  BY TlsFreeRestarts
<1>2. server.state \in {"closed", "reset"}
  BY DEF TlsIInv, TlsTyped, TlsLinked
<1>3. CASE server.state = "closed"
  <2>1. Len(handle.peeked) = 0 /\ Len(Tls!Current) = 0
    BY EmptySeq
  <2>2. records = <<>> /\ TlsComplete(Len(tlsGot) + Len(Tls!Current), Tls!Waiting, tlsSent)
    BY <1>3, <2>1, TlsNextBytes
  <2>3. Tls!Waiting = <<>> /\ Len(Tls!Waiting) = 0
    BY <2>2, EmptySeq DEF Tls!Waiting
  <2>4. Len(tlsGot) + 0 = tlsSent
    BY <2>1, <2>2, <2>3 DEF TlsComplete
  <2>5. Len(tlsGot) \in Nat
    BY TlsHandleTypes DEF TlsIInv
  <2>6. Len(tlsGot) = tlsSent
    BY <2>4, <2>5
  <2>7. Tls!Stream!CloseByReader
    BY <1>1, <1>3, <2>6 DEF Tls!Stream!CloseByReader
  <2>8. QED
    BY <2>7 DEF Tls!Stream!Next
<1>4. CASE server.state = "reset"
  <2>1. Tls!Stream!CloseByReader
    BY <1>1, <1>4 DEF Tls!Stream!CloseByReader
  <2>2. QED
    BY <2>1 DEF Tls!Stream!Next
<1>5. QED
  BY <1>2, <1>3, <1>4

\* connect() is a restart, with a connection or without.
LEMMA TlsRefineConnect ==
  ASSUME TlsIInv, NEW outcomes \in Tls!Attempts, NEW trusted \in BOOLEAN, NEW succeeds \in BOOLEAN,
         Tls!Connect(outcomes, trusted, succeeds)
  PROVE  Tls!Stream!Next
<1>1. TlsIdle' /\ freedBy' = "none"
  BY DEF Tls!Connect, Tls!NewTraffic, TlsIdle
<1>2. Tls!LostSockets(outcomes) = 0 /\ Tls!SocketsWithout = 0
  BY TlsNoneLost, TlsNoneLeft
<1>3. (server' = Tls!NoServer /\ tlsSockets' = 0)
      \/ (server' = [state |-> "open", trusted |-> trusted, accepted |-> asked] /\ tlsSockets' = 1)
  BY <1>2 DEF Tls!Connect
<1>4. (server'.state = "none" /\ tlsSockets' = 0) \/ (server'.state = "open" /\ tlsSockets' = 1)
  BY <1>3 DEF Tls!NoServer
<1>5. Tls!Stream!Nothing'
  BY <1>1, TlsNothingMovedNext
<1>6. Tls!Stream!Restart("none") \/ Tls!Stream!Restart("open")
  BY <1>4, <1>5 DEF Tls!Stream!Restart
<1>7. Tls!Stream!Connect
  BY <1>1, <1>6 DEF Tls!Stream!Connect
<1>8. QED
  BY <1>7 DEF Tls!Stream!Next

\* What follows the bytes that were read is read next.
LEMMA TlsRefineTake ==
  ASSUME TlsIInv, handle.open, NEW t, TlsFollows(Len(tlsGot), t), Len(t) > 0, Len(tlsGot) + Len(t) <= tlsSent,
         tlsGot' = tlsGot \o t, UNCHANGED <<tlsSockets, server, freedBy, tlsSent, out, tlsWire>>
  PROVE  Tls!Stream!Next
<1>1. PICK g, n \in Nat : g = Len(tlsGot) /\ n = Len(t)
  BY TlsHandleTypes, LenProperties DEF TlsIInv, TlsFollows
<1>2. n > 0 /\ g + n <= tlsSent /\ tlsSent \in Int
  BY <1>1 DEF TlsIInv, TlsTyped
<1>3. t = [i \in 1 .. n |-> g + i]
  <2>1. t = [i \in 1 .. Len(t) |-> Len(tlsGot) + i]
    <3>1. Len(tlsGot) \in Int
      BY <1>1
    <3>2. QED
      BY <3>1, TlsRunIs
  <2>2. QED
    BY <1>1, <2>1
<1>4. g + n \in g + 1 .. tlsSent /\ (g + n) - g = n
  BY <1>1, <1>2
<1>5. \E m \in g + 1 .. tlsSent : tlsGot' = tlsGot \o [i \in 1 .. m - g |-> g + i]
  BY <1>3, <1>4
<1>6. server.state \in {"open", "closed", "reset"}
  BY DEF TlsIInv, TlsTyped, TlsLinked
<1>7. Tls!Stream!Read
  BY <1>1, <1>5, <1>6 DEF Tls!Stream!Read
<1>8. QED
  BY <1>7 DEF Tls!Stream!Next

\* read() takes what was peeked, or some of what is decrypted, or ends the stream.
LEMMA TlsRefineRead ==
  ASSUME Tls!TlsAssumption, TlsIInv, NEW size \in 1 .. TlsSize, Tls!Read(size)
  PROVE  Tls!Stream!Next
<1>0. /\ handle.open /\ tlsSent \in Int
      /\ Len(tlsGot) \in Nat /\ Len(handle.peeked) \in Nat /\ Len(handle.plain) \in Nat
      /\ handle.peeked \in Seq(Int)
  BY TlsHandleTypes DEF Tls!Read, TlsIInv, TlsTyped
<1>1. CASE /\ handle.peeked # <<>> /\ tlsGot' = tlsGot \o handle.peeked
           /\ Tls!KeepHandle /\ UNCHANGED <<records, tlsWire, tlsSent, out>>
  <2>1. TlsFollows(Len(tlsGot), handle.peeked) /\ TlsHeld <= tlsSent
    BY DEF TlsIInv, TlsUnread, TlsQueued
  <2>2. PICK g, p, q \in Nat : g = Len(tlsGot) /\ p = Len(handle.peeked) /\ q = Len(handle.plain)
    BY <1>0
  <2>3. g + p + q <= tlsSent
    BY <2>1, <2>2, Zenon DEF TlsHeld
  <2>4. p # 0
    BY <1>0, <1>1, <2>2, EmptySeq
  <2>5. p > 0 /\ g + p <= tlsSent
    BY <1>0, <2>3, <2>4
  <2>6. Len(handle.peeked) > 0 /\ Len(tlsGot) + Len(handle.peeked) <= tlsSent
    BY <2>2, <2>5
  <2>7. QED
    BY <1>0, <1>1, <2>1, <2>6, TlsRefineTake DEF Tls!KeepHandle
<1>2. CASE /\ handle.peeked = <<>> /\ Tls!Current # <<>>
           /\ tlsGot' = tlsGot \o SubSeq(Tls!Current, 1, Tls!Shorter(size, Len(Tls!Current)))
           /\ Tls!KeepHandle /\ UNCHANGED <<tlsWire, tlsSent, out>>
  <2>1. Len(handle.peeked) = 0
    BY <1>2, EmptySeq
  <2>2. /\ TlsFollows(Len(tlsGot), Tls!Current) /\ Len(Tls!Current) \in Nat /\ Len(tlsGot) + Len(Tls!Current) <= tlsSent
    BY <2>1, TlsNextBytes DEF TlsQueued
  <2>3. Len(Tls!Current) > 0
    BY <1>2, <2>2, EmptySeq DEF TlsFollows
  <2>4. PICK n \in 1 .. Len(Tls!Current) : n = Tls!Shorter(size, Len(Tls!Current))
    BY <2>2, <2>3, TlsBounds DEF Tls!Shorter
  <2>5. PICK bytes : bytes = SubSeq(Tls!Current, 1, n)
    OBVIOUS
  <2>6. TlsFollows(Len(tlsGot), bytes) /\ Len(bytes) = n
    <3>1. n \in 0 .. Len(Tls!Current) /\ Len(tlsGot) \in Int
      BY <1>0, <2>2, <2>4
    <3>2. QED
      BY <2>2, <2>5, <3>1, TlsRunSplit
  <2>7. Len(bytes) > 0 /\ Len(tlsGot) + Len(bytes) <= tlsSent
    BY <1>0, <2>2, <2>4, <2>6
  <2>8. tlsGot' = tlsGot \o bytes
    BY <1>2, <2>4, <2>5
  <2>9. QED
    BY <1>0, <1>2, <2>6, <2>7, <2>8, TlsRefineTake DEF Tls!KeepHandle
<1>3. CASE handle.peeked = <<>> /\ Tls!Current = <<>> /\ server.state # "open" /\ Tls!FreeHandle("read")
  BY <1>0, <1>3, TlsRefineEnd
<1>4. QED
  BY <1>1, <1>2, <1>3 DEF Tls!Read

\* peek() moves no byte of the stream.
LEMMA TlsRefinePeek ==
  ASSUME TlsIInv, Tls!Peek
  PROVE  Tls!Stream!Next \/ UNCHANGED Tls!Stream!vars
<1>1. CASE Tls!Current = <<>> /\ server.state # "open" /\ Tls!FreeHandle("read")
  BY <1>1, TlsRefineEnd DEF Tls!Peek
<1>2. CASE Tls!KeepHandle /\ UNCHANGED <<tlsWire, tlsSent, tlsGot, out>>
  BY <1>2 DEF Tls!KeepHandle, Tls!Stream!vars
<1>3. QED
  BY <1>1, <1>2 DEF Tls!Peek

\* What is reported goes on the wire; a sketch that strayed is promised no more.
LEMMA TlsRefineSend ==
  ASSUME TlsIInv, NEW bs \in Seq(Int), NEW k \in Nat, TlsSends(bs, k)
  PROVE  Tls!Stream!Next
<1>1. PICK piece : piece = SubSeq(bs, 1, k)
  OBVIOUS
<1>2. /\ k \in 1 .. Len(bs) /\ server.state \in {"open", "closed"}
      /\ out'.reported = out.reported \o piece
      /\ ~out'.strayed => ~out.strayed /\ tlsWire' = tlsWire \o piece
      /\ server'.state \in {server.state, "reset"}
      /\ UNCHANGED <<tlsSockets, freedBy, tlsSent, tlsGot>>
  BY <1>1 DEF TlsSends
<1>3. piece \in Seq(Int) /\ Len(piece) = k
  BY <1>1, <1>2
<1>4. out.reported \in Seq(Int) /\ tlsWire \in Seq(Int) /\ (~out.strayed => tlsWire = out.reported)
  BY DEF TlsIInv, TlsTyped, TlsOutput
<1>5. PICK old, new : old = out.reported /\ new = old \o piece
  OBVIOUS
<1>6. /\ SubSeq(old, 1, Len(old)) = old /\ SubSeq(new, 1, Len(old)) = old
      /\ SubSeq(new, Len(old) + 1, Len(new)) = piece
      /\ Len(new) = Len(old) + Len(piece) /\ Len(old) \in Nat
  BY <1>3, <1>4, <1>5, TlsConcatPieces, LenProperties
<1>7. Len(old) <= Len(new) /\ old # new
  <2>1. k > 0
    BY <1>2
  <2>2. Len(new) = Len(old) + k
    BY <1>3, <1>6
  <2>3. Len(old) < Len(new)
    BY <1>6, <2>1, <2>2
  <2>4. QED
    BY <1>6, <2>3
<1>8. Tls!Stream!IsPrefix(old, new)
  BY <1>6, <1>7 DEF Tls!Stream!IsPrefix
<1>9. PICK was, is : /\ was = IF out.strayed THEN out.reported ELSE tlsWire
                     /\ is = IF out'.strayed THEN out'.reported ELSE tlsWire'
  OBVIOUS
<1>10. was = old
  BY <1>4, <1>5, <1>9
<1>11. is = new
  <2>1. CASE out'.strayed
    BY <1>2, <1>5, <1>9, <2>1
  <2>2. CASE ~out'.strayed
    BY <1>2, <1>4, <1>5, <1>9, <2>2
  <2>3. QED
    BY <2>1, <2>2
<1>12. is = was \o SubSeq(new, Len(old) + 1, Len(new))
  BY <1>5, <1>6, <1>10, <1>11
<1>13. Tls!Stream!Write
  BY <1>2, <1>5, <1>7, <1>8, <1>9, <1>12 DEF Tls!Stream!Write
<1>14. QED
  BY <1>13 DEF Tls!Stream!Next

\* A write that reports nothing has closed the connection.
LEMMA TlsRefineWrite ==
  ASSUME Tls!TlsAssumption, TlsIInv, NEW k \in 0 .. TlsSize, NEW ending \in Tls!Endings,
         Tls!WriteRest(k, ending) \/ \E n \in 1 .. TlsSize : Tls!WriteNew(n, k, ending)
  PROVE  Tls!Stream!Next
<1>1. PICK bs \in Seq(Int), upTo \in 0 .. TlsBytes, strays \in BOOLEAN :
        TlsTaken(bs, strays) /\ Tls!WriteLoop(bs, k, ending) /\ Tls!Reported(bs, k, upTo, strays)
  BY TlsWriteIsLoop
<1>2. k \in Nat
  BY TlsBounds
<1>3. CASE k = 0
  BY <1>1, <1>3, TlsRefineFree DEF Tls!WriteLoop
<1>4. CASE k # 0
  <2>1. k > 0
    BY <1>2, <1>4
  <2>2. TlsSends(bs, k)
    BY <1>1, <1>2, <2>1, TlsWriteSends
  <2>3. QED
    BY <1>2, <2>2, TlsRefineSend
<1>5. QED
  BY <1>3, <1>4

\* The server acts for the stream as it acts for the socket.
LEMMA TlsRefineNetwork ==
  ASSUME Tls!TlsAssumption, TlsIInv, Tls!Network
  PROVE  Tls!Stream!Next
<1>1. ASSUME NEW n \in 1 .. 2, Tls!ServerSends(n) PROVE Tls!Stream!Next
  <2>1. tlsSent \in Int /\ tlsSent' = tlsSent + n /\ n > 0
    BY <1>1 DEF Tls!ServerSends, TlsIInv, TlsTyped
  <2>2. tlsSent' > tlsSent
    BY <2>1
  <2>3. Tls!Stream!Arrive
    BY <1>1, <2>2 DEF Tls!ServerSends, Tls!KeepHandle, Tls!Stream!Arrive
  <2>4. QED
    BY <2>3 DEF Tls!Stream!Next
<1>2. ASSUME server.state = "open", server'.state = "closed" \/ server'.state = "reset",
             UNCHANGED <<tlsSockets, freedBy, tlsWire, tlsSent, tlsGot, out>>
      PROVE  Tls!Stream!PeerActs
  BY <1>2 DEF Tls!Stream!PeerActs
<1>3. CASE Tls!ServerCloses
  <2>1. server'.state = "closed"
    BY <1>3 DEF Tls!ServerCloses, TlsIInv, TlsTyped
  <2>2. QED
    BY <1>2, <1>3, <2>1 DEF Tls!ServerCloses, Tls!Stream!Next
<1>4. CASE Tls!ConnectionResets
  <2>1. server'.state = "reset" /\ server.state \in {"open", "closed"}
    BY <1>4 DEF Tls!ConnectionResets, TlsIInv, TlsTyped
  <2>2. Tls!Stream!PeerActs
    BY <1>4, <2>1 DEF Tls!ConnectionResets, Tls!Stream!PeerActs
  <2>3. QED
    BY <2>2 DEF Tls!Stream!Next
<1>5. QED
  BY <1>1, <1>3, <1>4 DEF Tls!Network

\* Every step of the client is a step of the stream, or none.
LEMMA TlsRefineNext == Tls!TlsAssumption /\ TlsIInv /\ [Tls!Next]_Tls!vars => [Tls!Stream!Next]_Tls!Stream!vars
<1> SUFFICES ASSUME Tls!TlsAssumption, TlsIInv, [Tls!Next]_Tls!vars PROVE Tls!Stream!Next \/ UNCHANGED Tls!Stream!vars
  OBVIOUS
<1>1. CASE Tls!SetInsecure \/ \E given \in BOOLEAN : Tls!SetCACert(given)
  BY <1>1 DEF Tls!SetInsecure, Tls!SetCACert, Tls!KeepHandle, Tls!Stream!vars
<1>2. CASE \E outcomes \in Tls!Attempts, trusted, succeeds \in BOOLEAN : Tls!Connect(outcomes, trusted, succeeds)
  BY <1>2, TlsRefineConnect
<1>3. CASE Tls!Stop \/ Tls!Connected
  BY <1>3, TlsRefineFree DEF Tls!Stop, Tls!Connected
<1>4. CASE Tls!Peek
  BY <1>4, TlsRefinePeek
<1>5. CASE \E size \in 1 .. TlsSize : Tls!Read(size)
  BY <1>5, TlsRefineRead
<1>6. CASE \E k \in 0 .. TlsSize, ending \in Tls!Endings :
             Tls!WriteRest(k, ending) \/ \E n \in 1 .. TlsSize : Tls!WriteNew(n, k, ending)
  BY <1>6, TlsRefineWrite
<1>7. CASE Tls!Network
  BY <1>7, TlsRefineNetwork
<1>8. CASE UNCHANGED Tls!vars
  BY <1>8 DEF Tls!vars, Tls!Stream!vars
<1>9. QED
  BY <1>1, <1>2, <1>3, <1>4, <1>5, <1>6, <1>7, <1>8 DEF Tls!Next, Tls!Sketch

\* The TLS client is a stream of bytes for every number of addresses and bytes and
\* every split into records: what read() returns is what the server has sent, in
\* order and each byte once, over any mixture with peek(), what write() reports is
\* on the wire unless the sketch wrote something else than the rest of a write that
\* was cut short, and a reader closes an intact connection only when all is read
\* (AIR780EPMTLSClient over arduino_tls_io.c).
THEOREM TlsImplements == Tls!TlsAssumption => (Tls!Spec => Tls!ImplementsByteStream)
<1> SUFFICES ASSUME Tls!TlsAssumption PROVE Tls!Spec => Tls!ImplementsByteStream
  OBVIOUS
<1>1. Tls!Init => TlsIInv
  BY TlsInvInit
<1>2. TlsIInv /\ [Tls!Next]_Tls!vars => TlsIInv'
  BY TlsInvNext
<1>3. Tls!Init => Tls!Stream!Init
  BY TlsRefineInit
<1>4. TlsIInv /\ [Tls!Next]_Tls!vars => [Tls!Stream!Next]_Tls!Stream!vars
  BY TlsRefineNext
<1>5. QED
  BY <1>1, <1>2, <1>3, <1>4, PTL DEF Tls!Spec, Tls!ImplementsByteStream, Tls!Stream!Spec

-----------------------------------------------------------------------------
(* The clients side by side: each one's steps are steps or stutters of it *)

\* The other clients leave the UDP socket alone.
LEMMA UdpRuns == ClientsSpec => Spec
<1>1. ClientsInit => Init
  BY DEF ClientsInit
<1>2. [UdpNext \/ TcpNext \/ TlsNext]_allVars => [Next]_vars
  BY DEF UdpNext, TcpNext, TlsNext, allVars
<1>3. QED
  BY <1>1, <1>2, PTL DEF ClientsSpec, Spec

\* They leave the TCP client alone.
LEMMA TcpRuns == ClientsSpec => Tcp!Spec
<1>1. ClientsInit => Tcp!Init
  BY DEF ClientsInit
<1>2. [UdpNext \/ TcpNext \/ TlsNext]_allVars => [Tcp!Next]_Tcp!vars
  BY DEF UdpNext, TcpNext, TlsNext, allVars, tcpVars, Tcp!vars
<1>3. QED
  BY <1>1, <1>2, PTL DEF ClientsSpec, Tcp!Spec

\* They leave the TLS client alone.
LEMMA TlsRuns == ClientsSpec => Tls!Spec
<1>1. ClientsInit => Tls!Init
  BY DEF ClientsInit
<1>2. [UdpNext \/ TcpNext \/ TlsNext]_allVars => [Tls!Next]_Tls!vars
  BY DEF UdpNext, TcpNext, TlsNext, allVars, tlsVars, Tls!vars
<1>3. QED
  BY <1>1, <1>2, PTL DEF ClientsSpec, Tls!Spec

\* Reads of a UDP packet return the front of one datagram in order.
THEOREM ClientsSocket == ClientsSpec => []SocketInv
<1>1. Spec => []SocketInv
  BY SocketSafe, ClientsAssumption
<1>2. QED
  BY <1>1, UdpRuns, PTL

\* UDP sends what was written, to the destination named last.
THEOREM ClientsPackets == ClientsSpec => PacketsKeptApart
<1>1. Spec => PacketsKeptApart
  BY PacketsApart, ClientsAssumption
<1>2. QED
  BY <1>1, UdpRuns, PTL

\* The TCP client has one socket while it is connected, and none otherwise.
THEOREM ClientsTcp == ClientsSpec => []TcpInv
<1>1. Tcp!Spec => []Tcp!ClientInv
  BY TcpClientSafe, ClientsAssumption
<1>2. QED
  BY <1>1, TcpRuns, PTL DEF TcpInv

\* The TCP client is a pipe of bytes that a peer's close does not cut.
THEOREM ClientsTcpStream == ClientsSpec => TcpIsByteStream
<1>1. Tcp!Spec => Tcp!ImplementsByteStream
  BY TcpImplements, ClientsAssumption
<1>2. QED
  BY <1>1, TcpRuns, PTL DEF TcpIsByteStream

\* The TLS client owns its socket, reads from no server that the sketch did not
\* accept and hides no byte from available().
THEOREM ClientsTls == ClientsSpec => []TlsInv
<1>1. Tls!Spec => []Tls!ClientInv
  BY TlsClientSafe, ClientsAssumption
<1>2. QED
  BY <1>1, TlsRuns, PTL DEF TlsInv

\* The TLS client is a pipe of bytes over any split into records.
THEOREM ClientsTlsStream == ClientsSpec => TlsIsByteStream
<1>1. Tls!Spec => Tls!ImplementsByteStream
  BY TlsImplements, ClientsAssumption
<1>2. QED
  BY <1>1, TlsRuns, PTL DEF TlsIsByteStream

=============================================================================
