------------------------------ MODULE ModemStatus ------------------------------
(***************************************************************************)
(* Modem.getStatus: arduino_modem_io.c reads the modem in three calls      *)
(* while the modem goes on, and AIR780EPMModem.cpp copies the result into  *)
(* an object that the sketch uses again.                                   *)
(***************************************************************************)
EXTENDS Integers, Sequences, FiniteSets, SequencesExt

CONSTANTS
  Infos,     \* what NetMgrGetNetInfo may find: see StatusAssumption
  NoInfo,    \* it finds no network
  MaxStates  \* bound: states the modem goes through during a call

StatusAssumption ==
  /\ NoInfo \notin Infos /\ MaxStates \in Nat
  /\ \A info \in Infos : info \in [active : BOOLEAN, v4 : BOOLEAN, cid : BOOLEAN,
                                   addr : Nat \ {0}, dns : Seq(Nat \ {0})]

VARIABLES
  modem,   \* the modem: packet service ready, CEREG state, network
  pc,      \* how far getStatus has got
  native,  \* ArduinoCoreModemStatus, filled in by getStatus
  status,  \* the sketch's AIR780EPMModemStatus
  during   \* history: the states of the modem since getStatus was called

vars == <<modem, pc, native, status, during>>

CeregStates == {"searching", "home", "roaming"}
Modems == [ps : BOOLEAN, cereg : CeregStates, info : Infos \cup {NoInfo}]

Registered(cereg) == cereg \in {"home", "roaming"}

HasIpv4(info) == info.active /\ info.v4 /\ info.cid

NativeZero ==
  [ps |-> FALSE, registered |-> FALSE, valid |-> FALSE, ready |-> FALSE,
   hasIPv4 |-> FALSE, addr |-> 0, dns |-> <<>>]

\* A status in which the first of the two name servers are those that were found.
Copied(dns) ==
  [ps |-> native.ps, registered |-> native.registered, valid |-> native.valid, ready |-> native.ready,
   hasIPv4 |-> native.hasIPv4, addr |-> native.addr, dns |-> dns, dnsCount |-> Len(native.dns)]

Init ==
  /\ modem \in Modems
  /\ pc = "idle" /\ native = NativeZero
  /\ status = Copied(<<0, 0>>)
  /\ during = {}

\* The modem goes on while getStatus reads its state.
ModemStep ==
  /\ pc # "idle" /\ modem' \in Modems
  /\ during' = during \cup {modem'} /\ Cardinality(during') <= MaxStates
  /\ UNCHANGED <<pc, native, status>>

\* Whatever the modem went through since the last call, it is in some state now.
GetStatus ==
  /\ pc = "idle" /\ pc' = "ps" /\ modem' \in Modems
  /\ native' = NativeZero /\ during' = {modem'}
  /\ UNCHANGED status

ReadPs ==
  /\ pc = "ps" /\ pc' = "cereg"
  /\ native' = [native EXCEPT !.ps = modem.ps]
  /\ UNCHANGED <<modem, status, during>>

ReadCereg ==
  /\ pc = "cereg" /\ pc' = "net"
  /\ native' = [native EXCEPT !.registered = Registered(modem.cereg)]
  /\ UNCHANGED <<modem, status, during>>

\* Without a network the rest of the status stays zero.
ReadNet ==
  /\ pc = "net" /\ pc' = "copy"
  /\ native' =
       IF modem.info = NoInfo THEN native
       ELSE LET info == modem.info
                has  == HasIpv4(info)
            IN  [native EXCEPT
                   !.valid = TRUE, !.ready = info.active, !.hasIPv4 = has,
                   !.addr = IF has THEN info.addr ELSE 0,
                   !.dns = IF has THEN SubSeq(info.dns, 1, IF Len(info.dns) > 2 THEN 2 ELSE Len(info.dns))
                           ELSE <<>>]
  /\ UNCHANGED <<modem, status, during>>

\* Mutant of CopyStatus: the servers are copied only when there are two.
CopyStatusKeepsDns ==
  /\ pc = "copy" /\ pc' = "idle"
  /\ status' = Copied(IF Len(native.dns) = 2 THEN native.dns ELSE status.dns)
  /\ native' = NativeZero /\ UNCHANGED <<modem, during>>

\* The facade copies into an object that the sketch uses again: the name servers
\* beyond the count keep what they were.
CopyStatus ==
  /\ pc = "copy" /\ pc' = "idle"
  /\ status' = Copied([i \in 1 .. 2 |-> IF i <= Len(native.dns) THEN native.dns[i] ELSE status.dns[i]])
  /\ native' = NativeZero /\ UNCHANGED <<modem, during>>

Next == ModemStep \/ GetStatus \/ ReadPs \/ ReadCereg \/ ReadNet \/ CopyStatus

Spec == Init /\ [][Next]_vars
-----------------------------------------------------------------------------
(* Properties *)

\* Every variable has the values its declaration promises.
TypeOK ==
  /\ modem \in Modems /\ pc \in {"idle", "ps", "cereg", "net", "copy"}
  /\ status.dnsCount \in 0 .. 2 /\ Len(status.dns) = 2 /\ Len(native.dns) <= 2

\* Every value is typed, and whatever the modem does meanwhile, what getStatus says of the registration
\* was so during the call, and all it says of the network was so at one moment
\* of it; nothing of an earlier call shows, but for name servers beyond the count.
StatusWasTrue ==
  /\ TypeOK
  /\ pc = "idle" /\ during # {} =>
       /\ \E m \in during : status.ps = m.ps
       /\ \E m \in during : status.registered = Registered(m.cereg)
       /\ \E m \in during :
            IF m.info = NoInfo THEN ~status.valid /\ ~status.ready /\ ~status.hasIPv4
            ELSE /\ status.valid /\ status.ready = m.info.active
                 /\ status.hasIPv4 = HasIpv4(m.info)
                 /\ status.hasIPv4 => status.addr = m.info.addr
                 /\ IsPrefix(SubSeq(status.dns, 1, status.dnsCount), m.info.dns)

=============================================================================
