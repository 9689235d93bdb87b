------------------------------ MODULE UdpSocket ------------------------------
(***************************************************************************)
(* AIR780EPMUDP over arduino_udp_io.c: one packet that is being written,   *)
(* one that is being read, and the datagrams that wait in the socket.      *)
(***************************************************************************)
EXTENDS Integers, Sequences

CONSTANTS
  Hosts,          \* remote addresses and ports
  NoHost,         \* the address 0.0.0.0 of an empty IPAddress
  Ports,          \* local ports given to begin
  Payloads,       \* contents of the datagrams that arrive
  Chunks,         \* what a sketch writes at a time
  MaxPacketSize,  \* kMaxPacketSize
  MaxQueue        \* datagrams the socket holds; further ones are lost

UdpAssumption ==
  /\ NoHost \notin Hosts /\ 0 \notin Ports /\ Ports \subseteq Nat
  /\ MaxPacketSize \in Nat \ {0} /\ MaxQueue \in Nat
  /\ \A p \in Payloads \cup Chunks : p \in Seq(Nat)

VARIABLES
  open,        \* socket_ >= 0
  localPort,   \* localPort_
  tx,          \* packetOpen_, txRemoteIp_ with txRemotePort_, and txBuffer_
  rx,          \* rxRemoteIp_ with rxRemotePort_, and rxBuffer_ up to rxLength_
  offset,      \* rxOffset_
  queue,       \* datagrams in the socket
  net,         \* the datagram sent last
  named,       \* history: destination of the last beginPacket that succeeded
  written,     \* history: bytes write() has reported since
  current,     \* history: the datagram that is being read
  taken        \* history: bytes read() has returned of it

vars == <<open, localPort, tx, rx, offset, queue, net, named, written, current, taken>>

\* At most n bytes from the front.
Cut(bytes, n) == SubSeq(bytes, 1, IF Len(bytes) < n THEN Len(bytes) ELSE n)

NoPacket == [from |-> NoHost, bytes |-> <<>>]
Nothing  == [to |-> NoHost, bytes |-> <<>>]
Idle     == [open |-> FALSE, to |-> NoHost, bytes |-> <<>>]

Init ==
  /\ open = FALSE /\ localPort = 0 /\ tx = Idle /\ rx = NoPacket /\ offset = 0
  /\ queue = <<>> /\ net = Nothing
  /\ named = NoHost /\ written = <<>> /\ current = NoPacket /\ taken = <<>>

Sending   == <<net, named, written>>
Receiving == <<rx, offset, queue, current, taken>>

\* The packet that is being read becomes p, cut off behind rxBuffer_; with
\* NoPacket this is clearRxPacket.
Reading(p) ==
  /\ rx' = [p EXCEPT !.bytes = Cut(@, MaxPacketSize)] /\ offset' = 0
  /\ current' = p /\ taken' = <<>>

-----------------------------------------------------------------------------
(* begin and stop *)

\* stop() closes the socket, and what waits in it is lost.  The destination of
\* an abandoned packet stays.
Closed == /\ queue' = <<>>
          /\ tx' = [tx EXCEPT !.open = FALSE, !.bytes = <<>>]
          /\ Reading(NoPacket)

Stop ==
  /\ open' = FALSE /\ localPort' = 0
  /\ Closed
  /\ UNCHANGED Sending

\* begin(port) stops first; no socket may be left, or bind may fail.
Begin(port) ==
  /\ Closed
  /\ \/ open' = TRUE /\ localPort' = port
     \/ open' = FALSE /\ localPort' = 0
  /\ UNCHANGED Sending

-----------------------------------------------------------------------------
(* Sending *)

\* Mutant of BeginPacket: what was written before is not dropped.
BeginPacketKeepsBytes(host) ==
  /\ open
  /\ tx' = [tx EXCEPT !.open = TRUE, !.to = host]
  /\ named' = host /\ written' = <<>>
  /\ UNCHANGED <<open, localPort, net>> /\ UNCHANGED Receiving

\* beginPacket(host): an unresolved name changes nothing and leaves an older
\* packet open; a socket is opened on a free port if there is none.
BeginPacket(host) ==
  /\ \/ open /\ UNCHANGED <<open, localPort>> /\ UNCHANGED Receiving
     \/ ~open /\ open' = TRUE /\ localPort' = 0 /\ queue' = <<>> /\ Reading(NoPacket)
  /\ tx' = [open |-> TRUE, to |-> host, bytes |-> <<>>]
  /\ named' = host /\ written' = <<>>
  /\ UNCHANGED net

\* write() takes what fits into txBuffer_ and reports that much.
Write(chunk) ==
  LET fits == Cut(chunk, MaxPacketSize - Len(tx.bytes))
  IN  /\ tx.open /\ fits # <<>>
      /\ tx' = [tx EXCEPT !.bytes = @ \o fits]
      /\ written' = written \o fits
      /\ UNCHANGED <<open, localPort, net, named>> /\ UNCHANGED Receiving

\* sendto takes the whole datagram or fails.
SendToIPv4(datagram) == net' \in {net, datagram}

\* endPacket() closes the packet whether sending it succeeds or not.
EndPacket ==
  /\ open /\ tx.open
  /\ SendToIPv4([to |-> tx.to, bytes |-> tx.bytes])
  /\ tx' = [tx EXCEPT !.open = FALSE, !.bytes = <<>>]
  /\ UNCHANGED <<open, localPort, named, written>> /\ UNCHANGED Receiving

-----------------------------------------------------------------------------
(* Receiving *)

available == Len(rx.bytes) - offset

\* Mutant of ParsePacket: the next datagram replaces one that is not read yet.
ParsePacketDropsRest ==
  /\ open /\ queue # <<>>
  /\ queue' = Tail(queue)
  /\ Reading(Head(queue))
  /\ UNCHANGED <<open, localPort, tx>> /\ UNCHANGED Sending

\* parsePacket() goes on with a packet that is not read to its end.  Else the
\* last one is forgotten and the next is taken, cut off behind rxBuffer_; one
\* without bytes is taken too but not reported.  recvfrom may fail.
ParsePacket ==
  /\ open /\ available = 0
  /\ \/ /\ queue # <<>>
        /\ queue' = Tail(queue)
        /\ Reading(IF Head(queue).bytes = <<>> THEN NoPacket ELSE Head(queue))
     \/ Reading(NoPacket) /\ UNCHANGED queue
  /\ UNCHANGED <<open, localPort, tx>> /\ UNCHANGED Sending

\* Mutant of Read: a read across the end goes on in the buffer.
ReadWraps(size) ==
  /\ available > 0
  /\ offset' = (offset + size) % MaxPacketSize
  /\ taken' = taken \o [i \in 1 .. size |-> rx.bytes[((offset + i - 1) % Len(rx.bytes)) + 1]]
  /\ UNCHANGED <<open, localPort, tx, rx, queue, current>> /\ UNCHANGED Sending

Read(size) ==
  /\ available > 0
  /\ offset' = offset + IF size < available THEN size ELSE available
  /\ taken' = taken \o SubSeq(rx.bytes, offset + 1, offset')
  /\ UNCHANGED <<open, localPort, tx, rx, queue, current>> /\ UNCHANGED Sending

\* flush() drops the packet that is being read.
Flush ==
  /\ Reading(NoPacket)
  /\ UNCHANGED <<open, localPort, tx, queue>> /\ UNCHANGED Sending

\* The network delivers a datagram to the socket, or loses it.
Arrive(host, payload) ==
  /\ open /\ Len(queue) < MaxQueue
  /\ queue' = Append(queue, [from |-> host, bytes |-> payload])
  /\ UNCHANGED <<open, localPort, tx, rx, offset, current, taken>> /\ UNCHANGED Sending

Next ==
  \/ Stop \/ \E port \in Ports : Begin(port)
  \/ \E host \in Hosts : BeginPacket(host) \/ \E payload \in Payloads : Arrive(host, payload)
  \/ \E chunk \in Chunks : Write(chunk)
  \/ EndPacket \/ ParsePacket \/ Flush
  \/ \E size \in 1 .. MaxPacketSize : Read(size)

Spec == Init /\ [][Next]_vars
-----------------------------------------------------------------------------
(* Properties *)

\* Every variable has the values its declaration promises, within the buffers.
TypeOK ==
  /\ open \in BOOLEAN /\ localPort \in Ports \cup {0}
  /\ tx.open \in BOOLEAN /\ tx.to \in Hosts \cup {NoHost} /\ Len(tx.bytes) <= MaxPacketSize
  /\ rx.from \in Hosts \cup {NoHost} /\ Len(rx.bytes) <= MaxPacketSize
  /\ offset \in 0 .. Len(rx.bytes) /\ Len(queue) <= MaxQueue
  /\ tx.open => open

\* What is sent are the bytes that write() reported since the beginPacket()
\* that named the destination: nothing of a packet that was abandoned, refused
\* or failed before, and nothing twice.
SentAsWritten == net' # net => net' = [to |-> named, bytes |-> written]

\* Reads of any size return the bytes of one datagram in order, as long as they
\* fit rxBuffer_, and remoteIP() is where it came from until it is replaced.
DatagramsNotMixed ==
  /\ taken \o SubSeq(rx.bytes, offset + 1, Len(rx.bytes)) = Cut(current.bytes, MaxPacketSize)
  /\ rx.from = current.from

\* One datagram at a time, and every variable has the values
\* its declaration promises: what the other properties take for granted.
SocketInv == TypeOK /\ DatagramsNotMixed

\* The next datagram is taken in the order of arrival, and only after the last
\* one was read to its end: a sketch that calls parsePacket() too early misses
\* nothing.
UnreadNotReplaced ==
  current' # current /\ current' # NoPacket => available = 0 /\ current' = Head(queue)

\* Packets are kept apart in both directions: every step sends what was written
\* for it, and replaces no datagram that is not read to its end.
PacketsKeptApart == [][SentAsWritten /\ UnreadNotReplaced]_vars

=============================================================================
