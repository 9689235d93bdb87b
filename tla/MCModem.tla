------------------------------- MODULE MCModem -------------------------------
(***************************************************************************)
(* What a sketch asks of Modem: the time, the status, APNs and readings.   *)
(* The three share no state, so that a behaviour is about one of them.     *)
(***************************************************************************)
EXTENDS NetworkTime, Sequences

CONSTANTS
  Infos, NoInfo, MaxStates,                     \* of ModemStatus
  Cids, MaxCid, MaxApn, MaxText, BufferSizes,   \* of ModemReadings
  RsrpRaws, RsrqRaws, Csqs, Codes

VARIABLES
  part,                                \* "time", "status" or "readings"
  modem, at, native, status, during,   \* of ModemStatus
  apns, set, reading                   \* of ModemReadings

statusVars   == <<modem, at, native, status, during>>
readingsVars == <<apns, set, reading>>
allVars      == <<part, vars, statusVars, readingsVars>>

\* A network that is down, one without a context, and two that are up, with one
\* and with three servers.
Info(active, v4, cid, addr, dns) == [active |-> active, v4 |-> v4, cid |-> cid, addr |-> addr, dns |-> dns]
SomeInfos ==
  {Info(FALSE, TRUE, TRUE, 1, <<7>>), Info(TRUE, TRUE, FALSE, 1, <<7>>),
   Info(TRUE, TRUE, TRUE, 1, <<7>>), Info(TRUE, TRUE, TRUE, 2, <<8, 9, 7>>)}

\* Raw values at every border of the formulas.
SomeCsqs  == {0, 1, 30, 31, 32}
SomeRsrp  == {-18, -17, 97, 98}
SomeRsrq  == {-30, -29, -1, 0, 33, 34, 35, 36, 39, 40, 41, 42, 46, 47, 127}
SomeCodes == {0, 46, 99, 100, 999}

Status   == INSTANCE ModemStatus WITH pc <- at
Readings == INSTANCE ModemReadings

ASSUME ModemAssumption == TimeAssumption /\ Status!StatusAssumption /\ Readings!ReadingsAssumption

\* A part that does not move starts in one of its initial states only.
ModemInit ==
  /\ part \in {"time", "status", "readings"}
  /\ Init /\ Status!Init /\ Readings!Init
  /\ part # "time" => now = 0 /\ clock = "unset"
  /\ part # "status" => modem = CHOOSE m \in Status!Modems : TRUE

TimeNext     == part = "time" /\ Next /\ UNCHANGED <<part, statusVars, readingsVars>>
StatusNext   == part = "status" /\ Status!Next /\ UNCHANGED <<part, vars, readingsVars>>
ReadingsNext == part = "readings" /\ Readings!Next /\ UNCHANGED <<part, vars, statusVars>>

\* The firmware goes on with a call about the time: see FairSpec of NetworkTime.
ModemSpec ==
  /\ ModemInit /\ [][TimeNext \/ StatusNext \/ ReadingsNext]_allVars
  /\ WF_allVars(TimeNext /\ Step)

-----------------------------------------------------------------------------
\* What getStatus says was so during the call: see ModemStatus.
StatusWasTrue == Status!StatusWasTrue

\* What is decoded is what the modem meant: see ModemReadings.
ReadingSound == Readings!ReadingSound

=============================================================================
