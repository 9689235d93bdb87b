------------------------------ MODULE ByteStream ------------------------------
(***************************************************************************)
(* What a connected Client promises a sketch, whichever transport is under *)
(* it: a pipe of bytes each way.  Bytes that arrive are numbered from 1;   *)
(* bytes the sketch writes are whatever it wrote.  TcpClient and TlsClient *)
(* implement it.                                                           *)
(***************************************************************************)
EXTENDS Integers, Sequences, SequencesExt

CONSTANT EndsWithPeer  \* a reader closes the client at the end of the stream

VARIABLES
  link,        \* "none", "open", "finished" by the peer, "broken"
  transports,  \* connections that are open underneath
  arrived,     \* number of bytes the peer has sent
  got,         \* bytes the sketch has read
  reported,    \* bytes the client said it has written
  wire,        \* bytes that were handed to the transport
  closedBy     \* who closed the last connection: "none", "sketch", "reader", "writer"

vars == <<link, transports, arrived, got, reported, wire, closedBy>>

Nothing == arrived = 0 /\ got = <<>> /\ reported = <<>> /\ wire = <<>>

Init == link = "none" /\ transports = 0 /\ Nothing /\ closedBy = "none"

\* A connection that is replaced or closed takes its transport and its bytes with it.
Restart(up) ==
  /\ link' = up /\ transports' = IF up = "none" THEN 0 ELSE 1
  /\ Nothing'

Connect == closedBy' = "none" /\ \E up \in {"none", "open", "broken"} : Restart(up)

Close == link # "none" /\ closedBy' = "sketch" /\ Restart("none")

\* Reading closes a broken connection, and where the transport says so one that
\* has ended and was read to its end.
CloseByReader ==
  /\ \/ link = "broken"
     \/ EndsWithPeer /\ link = "finished" /\ Len(got) = arrived
  /\ closedBy' = "reader" /\ Restart("none")

CloseByWriter == link # "none" /\ closedBy' = "writer" /\ Restart("none")

Read ==
  /\ link # "none"
  /\ \E n \in Len(got) + 1 .. arrived : got' = got \o [i \in 1 .. n - Len(got) |-> Len(got) + i]
  /\ UNCHANGED <<link, transports, arrived, reported, wire, closedBy>>

\* What is reported goes out, and nothing else.  A write may find out that the
\* connection is broken.
Write ==
  /\ link # "none"
  /\ reported # reported' /\ IsPrefix(reported, reported')
  /\ wire' = wire \o SubSeq(reported', Len(reported) + 1, Len(reported'))
  /\ link' \in {link, "broken"}
  /\ UNCHANGED <<transports, arrived, got, closedBy>>

Arrive ==
  /\ link = "open"
  /\ arrived' > arrived
  /\ UNCHANGED <<link, transports, got, reported, wire, closedBy>>

PeerActs ==
  /\ \/ link = "open" /\ link' = "finished"
     \/ link \in {"open", "finished"} /\ link' = "broken"
  /\ UNCHANGED <<transports, arrived, got, reported, wire, closedBy>>

Next ==
  \/ Connect \/ Close \/ CloseByReader \/ CloseByWriter
  \/ Read \/ Write \/ Arrive \/ PeerActs

Spec == Init /\ [][Next]_vars
=============================================================================
