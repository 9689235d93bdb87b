------------------------------ MODULE MCClients ------------------------------
(***************************************************************************)
(* The three clients of the network.  Each has a socket of its own and     *)
(* shares nothing with the others, so that a behaviour is about one.       *)
(***************************************************************************)
EXTENDS UdpSocket

CONSTANTS
  MaxAddresses,           \* of TcpClient and TlsClient
  TcpBytes, TcpSize,      \* bytes each way and in one call, of TcpClient
  TlsBytes, TlsSize       \* and of TlsClient

VARIABLES
  client,  \* "udp", "tcp" or "tls"
  trying, connected, sockets, peer, inbound, wire, sent, got, offered, stopped,                \* of TcpClient
  trust, handle, tlsSockets, server, records, tlsWire, tlsSent, tlsGot, out, asked, freedBy    \* of TlsClient

tcpVars == <<trying, connected, sockets, peer, inbound, wire, sent, got, offered, stopped>>
tlsVars == <<trust, handle, tlsSockets, server, records, tlsWire, tlsSent, tlsGot, out, asked, freedBy>>
allVars == <<client, vars, tcpVars, tlsVars>>

\* An empty datagram, one that fits and one that does not; writes that fill the
\* buffer and go beyond it.
MCPayloads == {<<>>, <<1, 2>>, <<3, 4, 5, 6>>}
MCChunks   == {<<7>>, <<8, 9>>}

Tcp == INSTANCE TcpClient WITH
         MaxIn <- TcpBytes, MaxOut <- TcpBytes, MaxSize <- TcpSize, open <- connected
Tls == INSTANCE TlsClient WITH
         MaxIn <- TlsBytes, MaxOut <- TlsBytes, MaxSize <- TlsSize,
         sockets <- tlsSockets, inbound <- records, wire <- tlsWire, sent <- tlsSent, got <- tlsGot

ASSUME ClientsAssumption == UdpAssumption /\ Tcp!TcpAssumption /\ Tls!TlsAssumption

ClientsInit == client \in {"udp", "tcp", "tls"} /\ Init /\ Tcp!Init /\ Tls!Init

UdpNext == client = "udp" /\ Next /\ UNCHANGED <<client, tcpVars, tlsVars>>
TcpNext == client = "tcp" /\ Tcp!Next /\ UNCHANGED <<client, vars, tlsVars>>
TlsNext == client = "tls" /\ Tls!Next /\ UNCHANGED <<client, vars, tcpVars>>

ClientsSpec == ClientsInit /\ [][UdpNext \/ TcpNext \/ TlsNext]_allVars

-----------------------------------------------------------------------------
\* The socket that is open is the client's, in every state of TcpClient.
TcpInv == Tcp!ClientInv

\* The socket that is open is the handle's, no server is read from that the sketch
\* did not accept, and available() hides no byte: see TlsClient.
TlsInv == Tls!ClientInv

\* AIR780EPMClient is a pipe of bytes that a peer's close does not cut: see TcpClient.
TcpIsByteStream == Tcp!ImplementsByteStream

\* AIR780EPMTLSClient is a pipe of bytes over any split into records: see TlsClient.
TlsIsByteStream == Tls!ImplementsByteStream

=============================================================================
