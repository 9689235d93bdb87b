------------------------------ MODULE TcpClient ------------------------------
(***************************************************************************)
(* AIR780EPMClient over arduino_tcp_io.c.  The client owns at most one     *)
(* socket; the peer and the network act between the calls of the sketch.   *)
(* Bytes are numbered in the order they are sent.  Any wait may time out.  *)
(***************************************************************************)
EXTENDS Integers, Sequences

CONSTANTS
  MaxAddresses,  \* addresses a host name resolves to
  MaxIn,         \* bytes the peer sends on a connection
  MaxOut,        \* bytes the sketch offers on a connection
  MaxSize        \* bytes of one read or write

TcpAssumption ==
  /\ {MaxAddresses, MaxIn, MaxOut} \subseteq Nat
  /\ MaxSize \in Nat \ {0}

VARIABLES
  trying,    \* addresses that connect() has left to try, 0 when it is not running
  open,      \* socket_ >= 0
  sockets,   \* number of sockets the bridge has open
  peer,      \* the connection: "none", "open", "closed" by the peer, "broken"
  inbound,   \* bytes that wait in the socket
  wire,      \* bytes the socket has taken over
  sent,      \* history: number of bytes the peer has sent
  got,       \* history: bytes read() has returned
  offered,   \* history: number of bytes given to write() and reported
  stopped    \* history: the call that closed the last socket

vars == <<trying, open, sockets, peer, inbound, wire, sent, got, offered, stopped>>

Numbers(i, j) == [n \in 1 .. j - i + 1 |-> i + n - 1]

Init ==
  /\ trying = 0 /\ open = FALSE /\ sockets = 0 /\ peer = "none"
  /\ inbound = <<>> /\ wire = <<>> /\ sent = 0 /\ got = <<>> /\ offered = 0
  /\ stopped = "none"

NewTraffic == inbound' = <<>> /\ wire' = <<>> /\ sent' = 0 /\ got' = <<>> /\ offered' = 0

-----------------------------------------------------------------------------
(* connect and stop *)

SocketsWithout == IF open THEN sockets - 1 ELSE sockets

Close(caller) ==
  /\ open' = FALSE /\ sockets' = SocketsWithout /\ peer' = "none"
  /\ stopped' = caller
  /\ NewTraffic /\ UNCHANGED trying

Stop == open /\ Close("stop")

\* arduinoTcpWaitWritable after EINPROGRESS: ready is what select reports.  An
\* error without an errno counts as writable.
WaitWritable(ready) == ready \in {"writable", "error without errno"}

Connects(outcome) == outcome = "immediate" \/ WaitWritable(outcome)

Outcomes == {"no socket", "refused", "immediate", "writable", "timeout", "error", "error without errno"}

\* connect() and the name it is given: it stops first, and finds n addresses, none
\* if the name does not resolve.
Connect(n) ==
  /\ trying = 0 /\ trying' = n
  /\ open' = FALSE /\ sockets' = SocketsWithout /\ peer' = "none"
  /\ stopped' = "none"
  /\ NewTraffic

\* Mutant of TryNext: a socket that does not connect is not closed.
TryNextLeaks(outcome) ==
  /\ trying > 0 /\ ~Connects(outcome)
  /\ trying' = trying - 1
  /\ sockets' = IF outcome = "no socket" THEN sockets ELSE sockets + 1
  /\ UNCHANGED <<open, peer, inbound, wire, sent, got, offered, stopped>>

\* arduinoTcpConnectAddress of the next address: its socket is closed again when it
\* cannot be made non-blocking or does not connect.
TryNext(outcome) ==
  /\ trying > 0 /\ ~Connects(outcome)
  /\ trying' = trying - 1
  /\ UNCHANGED <<open, sockets, peer, inbound, wire, sent, got, offered, stopped>>

\* arduinoCoreTcpConnectHost takes the first address that works.
ConnectHost(outcome) ==
  /\ trying > 0 /\ Connects(outcome)
  /\ trying' = 0
  /\ open' = TRUE /\ sockets' = sockets + 1
  /\ peer' \in IF outcome = "error without errno" THEN {"open", "broken"} ELSE {"open"}
  /\ UNCHANGED <<inbound, wire, sent, got, offered, stopped>>

-----------------------------------------------------------------------------
(* Reading *)

Shorter(m, n) == IF m < n THEN m ELSE n

\* Mutant of Read: the end of the stream stops the client like an error.
ReadStopsAtEnd(size) ==
  /\ open /\ peer # "open"
  /\ Close("read")

\* recv takes what there is.  Without data read() returns 0, at the end of the
\* stream too, and a client whose connection is broken stops.
Read(size) ==
  LET n == Shorter(size, Len(inbound))
  IN  /\ open
      /\ \/ /\ inbound # <<>>
            /\ got' = got \o SubSeq(inbound, 1, n)
            /\ inbound' = SubSeq(inbound, n + 1, Len(inbound))
            /\ UNCHANGED <<trying, open, sockets, peer, wire, sent, offered, stopped>>
         \/ peer = "broken" /\ Close("read")

\* peek, available and connected look at the socket without taking bytes from
\* it, and stop a client whose connection is broken.  A peer that has closed the
\* connection is not noticed: recv returns 0, which connected() takes for 1.
\* connected() also keeps a socket whose error is not fatal.
Look ==
  /\ open /\ peer = "broken"
  /\ Close("look")

-----------------------------------------------------------------------------
(* Writing *)

\* Mutant of Write: a time-out loses the count of what was sent.
WriteForgetsPartial(n, k) ==
  LET bs == Numbers(offered + 1, offered + n)
  IN  /\ open /\ offered + n <= MaxOut /\ k <= n
      /\ k > 0 \/ n = 0
      /\ wire' = wire \o SubSeq(bs, 1, k)
      /\ offered' = IF k = n THEN offered + n ELSE offered
      /\ UNCHANGED <<trying, open, sockets, peer, inbound, sent, got, stopped>>

\* The loop of arduinoCoreTcpWrite sends piece by piece and ends early when
\* the socket takes no more for 5 s, when it fails or when send returns 0.  The
\* k bytes taken over are reported; none at all, except for a send of 0, is an
\* error that stops the client.
Write(n, k) ==
  LET bs == Numbers(offered + 1, offered + n)
  IN  /\ open /\ offered + n <= MaxOut /\ k <= n
      /\ peer = "broken" => k = 0
      /\ \/ /\ k > 0
            /\ wire' = wire \o SubSeq(bs, 1, k)
            /\ offered' = offered + k
            /\ peer' \in IF k < n THEN {peer, "broken"} ELSE {peer}
            /\ inbound' = IF peer' = "broken" THEN <<>> ELSE inbound
            /\ UNCHANGED <<trying, open, sockets, sent, got, stopped>>
         \/ k = 0 /\ Close("write")

-----------------------------------------------------------------------------
(* The peer and the network *)

PeerSends ==
  /\ peer = "open" /\ sent < MaxIn
  /\ inbound' = Append(inbound, sent + 1)
  /\ sent' = sent + 1
  /\ UNCHANGED <<trying, open, sockets, peer, wire, got, offered, stopped>>

PeerCloses ==
  /\ peer = "open"
  /\ peer' = "closed"
  /\ UNCHANGED <<trying, open, sockets, inbound, wire, sent, got, offered, stopped>>

ConnectionBreaks ==
  /\ peer \in {"open", "closed"}
  /\ peer' = "broken"
  /\ inbound' = <<>>
  /\ UNCHANGED <<trying, open, sockets, wire, sent, got, offered, stopped>>

Next ==
  \/ \E n \in 0 .. MaxAddresses : Connect(n)
  \/ \E outcome \in Outcomes : TryNext(outcome) \/ ConnectHost(outcome)
  \/ Stop \/ Look
  \/ \E size \in 1 .. MaxSize : Read(size)
  \/ \E n \in 1 .. MaxSize, k \in 0 .. MaxSize : Write(n, k)
  \/ PeerSends \/ PeerCloses \/ ConnectionBreaks

Spec == Init /\ [][Next]_vars

-----------------------------------------------------------------------------
(* Properties *)

\* Every variable has the values its declaration promises.
TypeOK ==
  /\ trying \in 0 .. MaxAddresses /\ open \in BOOLEAN /\ sockets \in Nat
  /\ peer \in {"none", "open", "closed", "broken"}
  /\ sent \in 0 .. MaxIn /\ offered \in 0 .. MaxOut
  /\ stopped \in {"none", "stop", "look", "read", "write"}

\* The client has one socket while it is connected, and no address that failed,
\* no reconnection and no error leaves another one open.
SocketsOwned == sockets = IF open THEN 1 ELSE 0

\* The sockets are the client's, and every variable has the values
\* its declaration promises: what the other properties take for granted.
ClientInv == TypeOK /\ SocketsOwned

\* The client is a pipe of bytes: read() returns the bytes of the peer in order,
\* each once; what write() reports is what the socket has taken over, also when
\* the write was cut short; reading and looking close a broken connection only,
\* so that a peer that closes its side cuts off neither the bytes it sent before
\* nor the sketch's answer; and no call leaves a second socket open.
Stream == INSTANCE ByteStream WITH
  EndsWithPeer <- FALSE,
  link <- IF peer = "closed" THEN "finished" ELSE peer,
  transports <- sockets,
  arrived <- sent,
  reported <- Numbers(1, offered),
  closedBy <- CASE stopped = "stop" -> "sketch"
                [] stopped \in {"look", "read"} -> "reader"
                [] stopped = "write" -> "writer"
                [] OTHER -> "none"

ImplementsByteStream == Stream!Spec

=============================================================================
