------------------------------ MODULE TlsClient ------------------------------
(***************************************************************************)
(* AIR780EPMTLSClient over arduino_tls_io.c.  The client owns at most one  *)
(* handle: a socket, an mbedtls session and one byte put aside by peek().  *)
(* The server and the network act between the calls of the sketch.  Bytes  *)
(* are numbered in the order they are offered; a record holds one byte of  *)
(* output, and one or two of input.  lwIP and mbedtls do what the bridge   *)
(* relies on; time is left out, so every wait may also time out.           *)
(***************************************************************************)
EXTENDS Integers, Sequences, FiniteSets

CONSTANTS
  MaxAddresses,  \* addresses a host name resolves to
  MaxIn,         \* bytes the server sends on a connection
  MaxOut,        \* bytes the sketch offers on a connection
  MaxSize        \* bytes of one read or write

TlsAssumption ==
  /\ {MaxAddresses, MaxIn, MaxOut} \subseteq Nat
  /\ MaxSize \in Nat \ {0}

VARIABLES
  trust,     \* caCert_ # 0, and insecure_
  handle,    \* handle_, with what mbedtls holds for it
  sockets,   \* number of sockets the bridge has open
  server,    \* the other end of the connection
  inbound,   \* records that wait in the socket
  wire,      \* bytes of the records that were sent
  sent,      \* history: number of bytes the server has sent
  got,       \* history: bytes read() has returned
  out,       \* history: what write() was given and what it reported
  asked,     \* history: the last trust call of the sketch
  freedBy    \* history: the call that freed the last handle

vars == <<trust, handle, sockets, server, inbound, wire, sent, got, out, asked, freedBy>>

Numbers(i, j) == [n \in 1 .. j - i + 1 |-> i + n - 1]

\* peeked is peekByte when hasPeek is set; plain is what mbedtls has decrypted
\* and not handed over, unsent the record it has encrypted and not sent.
NoHandle == [open |-> FALSE, connected |-> FALSE, peeked |-> <<>>, plain |-> <<>>, unsent |-> <<>>]
NoServer == [state |-> "none", trusted |-> FALSE, accepted |-> "none"]
NoOutput == [offered |-> 0, reported |-> <<>>, rest |-> <<>>, strayed |-> FALSE]

Init ==
  /\ trust = [cert |-> FALSE, insecure |-> FALSE]
  /\ handle = NoHandle /\ sockets = 0 /\ server = NoServer
  /\ inbound = <<>> /\ wire = <<>>
  /\ sent = 0 /\ got = <<>> /\ out = NoOutput
  /\ asked = "none" /\ freedBy = "none"

NewTraffic == inbound' = <<>> /\ wire' = <<>> /\ sent' = 0 /\ got' = <<>> /\ out' = NoOutput
KeepSetup  == UNCHANGED <<trust, asked>>
KeepHandle == UNCHANGED <<sockets, server, freedBy>>

-----------------------------------------------------------------------------
(* Trust *)

SetInsecure ==
  /\ trust' = [cert |-> FALSE, insecure |-> TRUE]
  /\ asked' = "insecure"
  /\ KeepHandle /\ UNCHANGED <<handle, inbound, wire, sent, got, out>>

\* Mutant of SetCACert: a certificate does not end insecure mode.
SetCACertStaysInsecure(given) ==
  /\ trust' = [trust EXCEPT !.cert = given]
  /\ asked' = "certificate"
  /\ KeepHandle /\ UNCHANGED <<handle, inbound, wire, sent, got, out>>

\* setCACert(rootCA), or setCACert(NULL).
SetCACert(given) ==
  /\ trust' = [cert |-> given, insecure |-> FALSE]
  /\ asked' = "certificate"
  /\ KeepHandle /\ UNCHANGED <<handle, inbound, wire, sent, got, out>>

-----------------------------------------------------------------------------
(* Opening and closing *)

SocketsWithout == IF handle.open THEN sockets - 1 ELSE sockets

\* stop() and arduinoTlsFree: the session with all it holds, and its socket.  A
\* record that waits may still go out before the close_notify; nobody sees it.
FreeHandle(caller) ==
  /\ handle' = NoHandle /\ server' = NoServer
  /\ freedBy' = caller
  /\ sockets' = SocketsWithout
  /\ NewTraffic

Stop ==
  /\ handle.open
  /\ FreeHandle("stop")
  /\ KeepSetup

\* Mutant of LeavesSocket: the socket of a failed address is not closed.
LeavesSocketOfFailed(outcome) == outcome # "noSocket"

\* arduinoTlsNetConnect closes the socket of an address again when it cannot be
\* set up or does not become writable.
LeavesSocket(outcome) == outcome = "connected"

\* The addresses are tried in order until one connects; a socket that is left in
\* context->fd is lost when the next address is tried.
Tried(outcomes) == {i \in DOMAIN outcomes : \A j \in 1 .. i - 1 : outcomes[j] # "connected"}
LostSockets(outcomes) ==
  Cardinality({i \in Tried(outcomes) : LeavesSocket(outcomes[i]) /\ i + 1 \in Tried(outcomes)})
Connects(outcomes) == \E i \in DOMAIN outcomes : outcomes[i] = "connected"

Attempts == UNION {[1 .. n -> {"noSocket", "failed", "connected"}] : n \in 1 .. MaxAddresses}

\* arduinoCoreTlsConnectHost after stop().  Without trust nothing is opened.
\* The name may not resolve, memory or the configuration may fail, and so may
\* the handshake, which a server that is not trusted passes in insecure mode
\* only.  A failure frees the handle and with it the socket it holds.
Connect(outcomes, trusted, succeeds) ==
  /\ NewTraffic
  /\ freedBy' = "none"
  /\ \/ /\ ~succeeds
        /\ handle' = NoHandle /\ server' = NoServer
        /\ \/ sockets' = SocketsWithout
           \/ /\ trust.insecure \/ trust.cert
              /\ sockets' = SocketsWithout + LostSockets(outcomes)
     \/ /\ succeeds
        /\ trust.insecure \/ trust.cert
        /\ Connects(outcomes)
        /\ trusted \/ trust.insecure
        /\ handle' = [NoHandle EXCEPT !.open = TRUE, !.connected = TRUE]
        /\ server' = [state |-> "open", trusted |-> trusted, accepted |-> asked]
        /\ sockets' = SocketsWithout + LostSockets(outcomes) + 1
  /\ UNCHANGED <<trust, asked>>

\* connected() frees a handle that a failing write has marked.
Connected ==
  /\ handle.open /\ ~handle.connected
  /\ FreeHandle("connected")
  /\ KeepSetup

-----------------------------------------------------------------------------
(* Reading *)

\* mbedtls_ssl_read hands over bytes of the current record, of the next one
\* when there is none.
Current == IF handle.plain = <<>> /\ inbound # <<>> THEN Head(inbound) ELSE handle.plain
Waiting == IF handle.plain = <<>> /\ inbound # <<>> THEN Tail(inbound) ELSE inbound

Shorter(m, n) == IF m < n THEN m ELSE n

\* Mutants of Read: the byte that was peeked stays behind; the end of the
\* stream is noticed before the bytes that came before it.
ReadSkipsPeeked(size) ==
  LET n == Shorter(size, Len(Current))
  IN  /\ handle.open /\ Current # <<>>
      /\ got' = got \o SubSeq(Current, 1, n)
      /\ handle' = [handle EXCEPT !.plain = SubSeq(Current, n + 1, Len(Current))]
      /\ inbound' = Waiting
      /\ KeepHandle /\ UNCHANGED <<wire, sent, out>> /\ KeepSetup

ReadEndsEarly(size) ==
  /\ handle.open /\ server.state # "open"
  /\ FreeHandle("read")
  /\ KeepSetup

\* read() of up to size bytes.  A byte that was peeked is all that is returned.
\* At the end of the stream, or when receiving fails, the client stops.
Read(size) ==
  LET n == Shorter(size, Len(Current))
  IN  /\ handle.open
      /\ \/ /\ handle.peeked # <<>>
            /\ got' = got \o handle.peeked
            /\ handle' = [handle EXCEPT !.peeked = <<>>]
            /\ KeepHandle /\ UNCHANGED <<inbound, wire, sent, out>>
         \/ /\ handle.peeked = <<>> /\ Current # <<>>
            /\ got' = got \o SubSeq(Current, 1, n)
            /\ handle' = [handle EXCEPT !.plain = SubSeq(Current, n + 1, Len(Current))]
            /\ inbound' = Waiting
            /\ KeepHandle /\ UNCHANGED <<wire, sent, out>>
         \/ /\ handle.peeked = <<>> /\ Current = <<>> /\ server.state # "open"
            /\ FreeHandle("read")
      /\ KeepSetup

\* peek() takes one byte out of the session and keeps it.
Peek ==
  /\ handle.open /\ handle.peeked = <<>>
  /\ \/ /\ Current # <<>>
        /\ handle' = [handle EXCEPT !.peeked = <<Head(Current)>>, !.plain = Tail(Current)]
        /\ inbound' = Waiting
        /\ KeepHandle /\ UNCHANGED <<wire, sent, got, out>>
     \/ Current = <<>> /\ server.state # "open" /\ FreeHandle("read")
  /\ KeepSetup

\* Mutant of Available: only the socket is asked.
AvailableInSocket == IF inbound # <<>> \/ server.state # "open" THEN 1 ELSE 0

\* What available() returns; it changes nothing.  A peeked byte hides the ones
\* behind it.  The socket polls readable at the end of the stream, too, and the
\* error codes of arduinoTlsNetPoll (-0x47, -0x45) are odd, so that their
\* READ bit is set and a failing poll also counts as readable.
Available ==
  IF handle.peeked # <<>> THEN 1
  ELSE IF handle.plain # <<>> THEN Len(handle.plain)
  ELSE IF inbound # <<>> \/ server.state # "open" THEN 1 ELSE 0

-----------------------------------------------------------------------------
(* Writing *)

\* Mutant of WriteLoop: every round starts at the first byte again.
WriteLoopRestarts(bs, k, ending) ==
  /\ handle.open
  /\ IF ending = "done" THEN k = Len(bs) ELSE k < Len(bs)
  /\ server.state = "reset" => k = 0 /\ ending = "failed"
  /\ \/ k = 0 /\ FreeHandle("write")
     \/ /\ k > 0
        /\ wire' = wire \o [i \in 1 .. k |-> bs[1]]
        /\ UNCHANGED <<handle, sockets, server, freedBy, inbound, sent, got>>
  /\ KeepSetup

\* The loop of arduinoCoreTlsWrite over bs: k bytes are reported.  mbedtls makes
\* a record of one byte at a time; a record it could not send before goes out in
\* place of the first.  The call ends when all is sent, when the socket takes
\* no more until the time is up, or when sending fails.  An end without
\* a single byte makes the client stop.
WriteLoop(bs, k, ending) ==
  LET first   == IF handle.unsent # <<>> THEN handle.unsent ELSE SubSeq(bs, 1, 1)
      records == IF k = 0 THEN <<>> ELSE first \o SubSeq(bs, 2, k)
  IN  /\ handle.open
      /\ IF ending = "done" THEN k = Len(bs) ELSE k < Len(bs)
      /\ server.state = "reset" => k = 0 /\ ending = "failed"
      /\ \/ k = 0 /\ FreeHandle("write")
         \/ /\ k > 0
            /\ wire' = wire \o records
            /\ handle' = [handle EXCEPT
                 !.unsent = IF ending = "timeout" THEN <<bs[k + 1]>> ELSE <<>>,
                 !.connected = @ /\ ending # "failed"]
            /\ server' = [server EXCEPT !.state = IF ending = "failed" THEN "reset" ELSE @]
            /\ inbound' = IF ending = "failed" THEN <<>> ELSE inbound
            /\ UNCHANGED <<sockets, freedBy, sent, got>>
      /\ KeepSetup

Endings == {"done", "timeout", "failed"}

Reported(bs, k, offered, strays) ==
  IF k = 0 THEN out' = NoOutput
  ELSE out' = [offered |-> offered, reported |-> out.reported \o SubSeq(bs, 1, k),
               rest |-> SubSeq(bs, k + 1, Len(bs)), strayed |-> out.strayed \/ strays]

\* The sketch writes new bytes, although some may be left of the last write.
WriteNew(n, k, ending) ==
  LET bs == Numbers(out.offered + 1, out.offered + n)
  IN  /\ out.offered + n <= MaxOut
      /\ WriteLoop(bs, k, ending)
      /\ Reported(bs, k, out.offered + n, handle.unsent # <<>>)

\* The sketch writes what the last write did not report.
WriteRest(k, ending) ==
  /\ out.rest # <<>>
  /\ WriteLoop(out.rest, k, ending)
  /\ Reported(out.rest, k, out.offered, FALSE)

-----------------------------------------------------------------------------
(* The server and the network *)

ServerSends(n) ==
  /\ server.state = "open" /\ sent + n <= MaxIn
  /\ inbound' = Append(inbound, Numbers(sent + 1, sent + n))
  /\ sent' = sent + n
  /\ KeepHandle /\ KeepSetup /\ UNCHANGED <<handle, wire, got, out>>

\* close_notify is the last record.
ServerCloses ==
  /\ server.state = "open"
  /\ server' = [server EXCEPT !.state = "closed"]
  /\ KeepSetup /\ UNCHANGED <<handle, sockets, freedBy, inbound, wire, sent, got, out>>

\* The connection breaks; what was not received is gone.
ConnectionResets ==
  /\ server.state \in {"open", "closed"}
  /\ server' = [server EXCEPT !.state = "reset"]
  /\ inbound' = <<>>
  /\ KeepSetup /\ UNCHANGED <<handle, sockets, freedBy, wire, sent, got, out>>

Sketch ==
  \/ SetInsecure \/ (\E given \in BOOLEAN : SetCACert(given))
  \/ \E outcomes \in Attempts, trusted, succeeds \in BOOLEAN : Connect(outcomes, trusted, succeeds)
  \/ Stop \/ Connected \/ Peek
  \/ \E size \in 1 .. MaxSize : Read(size)
  \/ \E k \in 0 .. MaxSize, ending \in Endings :
       WriteRest(k, ending) \/ \E n \in 1 .. MaxSize : WriteNew(n, k, ending)

Network ==
  \/ \E n \in 1 .. 2 : ServerSends(n)
  \/ ServerCloses \/ ConnectionResets

Next == Sketch \/ Network

Spec == Init /\ [][Next]_vars

-----------------------------------------------------------------------------
(* Properties *)

\* Every variable has the values its declaration promises.
TypeOK ==
  /\ trust \in [cert : BOOLEAN, insecure : BOOLEAN]
  /\ ~(trust.cert /\ trust.insecure)
  /\ handle.open \in BOOLEAN /\ handle.connected \in BOOLEAN
  /\ Len(handle.peeked) <= 1 /\ Len(handle.unsent) <= 1
  /\ sockets \in Nat /\ sent \in 0 .. MaxIn /\ out.offered \in 0 .. MaxOut
  /\ server.state \in {"none", "open", "closed", "reset"}
  /\ asked \in {"none", "insecure", "certificate"}
  /\ freedBy \in {"none", "stop", "connected", "read", "write"}

\* The sockets that are open are those of the handle: no address that failed,
\* no failed handshake, no reconnection and no error leaves one behind.
SocketsOwned == sockets = IF handle.open THEN 1 ELSE 0

\* A server that was not verified is connected to only after setInsecure() was
\* the sketch's last word, whatever certificates it set before.
VerifiedUnlessAsked == handle.open /\ ~server.trusted => server.accepted = "insecure"

\* available() is not 0 while a byte the server sent waits to be read: a sketch
\* that reads when available() says so misses none.
AvailableSeesAll == handle.open /\ Len(got) < sent /\ server.state # "reset" => Available > 0

\* What the other properties take for granted: every variable has the values its
\* declaration promises, the sockets are the handle's, nothing is read from a
\* server the sketch did not accept, and available() hides no byte.
ClientInv == TypeOK /\ SocketsOwned /\ VerifiedUnlessAsked /\ AvailableSeesAll

\* The client is a pipe of bytes.  read() returns the bytes of the server in
\* order, each once, over any mixture of peek() and reads of any size, and it and
\* peek() end an intact connection only when all of them have been returned.  A
\* sketch that goes on with the rest of a write that was cut short gets every
\* reported byte sent, once and in order; one that writes something else
\* instead has the old record sent in place of its first byte, from where on
\* nothing is promised about what is on the wire.
Stream == INSTANCE ByteStream WITH
  EndsWithPeer <- TRUE,
  link <- CASE server.state = "closed" -> "finished"
            [] server.state = "reset" -> "broken"
            [] OTHER -> server.state,
  transports <- sockets,
  arrived <- sent,
  reported <- out.reported,
  wire <- IF out.strayed THEN out.reported ELSE wire,
  closedBy <- CASE freedBy = "stop" -> "sketch"
                [] freedBy = "read" -> "reader"
                [] freedBy \in {"write", "connected"} -> "writer"
                [] OTHER -> "none"

ImplementsByteStream == Stream!Spec

=============================================================================
