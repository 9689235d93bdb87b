\* UDP: two remote hosts, packets of up to three bytes, two datagrams in the socket.
\* Names with up to two addresses; eight bytes each way over TCP, four over TLS.
CONSTANTS
  Hosts = {a, b}
  NoHost = NoHost
  Ports = {123}
  Payloads <- MCPayloads
  Chunks <- MCChunks
  MaxPacketSize = 3
  MaxQueue = 2
  MaxAddresses = 2
  TcpBytes = 8
  TcpSize = 3
  TlsBytes = 4
  TlsSize = 2
SPECIFICATION ClientsSpec
INVARIANTS
  SocketInv
  TcpInv
  TlsInv
PROPERTIES
  PacketsKeptApart
  TcpIsByteStream
  TlsIsByteStream
