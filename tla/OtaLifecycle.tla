---------------------------- MODULE OtaLifecycle ----------------------------
(***************************************************************************)
(* What AIR780EPMOTA promises the sketch about one update after another,   *)
(* in the three values it can read: the state, how many sessions have      *)
(* begun, and the last error.  No queue, no threads, no HTTP.              *)
(***************************************************************************)
EXTENDS Naturals

CONSTANT MaxSessions   \* bound: sessions begun since boot

VARIABLES phase, begun, error

life == <<phase, begun, error>>

\* Reasons a session can end with before its package is being verified.
SessionErrors == {"DOWNLOAD_FAILED", "VERIFY_FAILED", "HTTP_STATUS_ERROR", "INTERNAL"}

\* Reasons a call is refused with; the running session is not touched.
RefusalErrors == {"INVALID_ARGUMENT", "INVALID_STATE", "NETWORK_NOT_READY", "INTERNAL"}

Init == phase = "IDLE" /\ begun = 0 /\ error = "NONE"

Begin ==
  /\ phase \in {"IDLE", "ERROR"} /\ begun < MaxSessions
  /\ phase' = "STARTING" /\ begun' = begun + 1 /\ error' = "NONE"

\* begin, clear or apply refused.
Refuse ==
  /\ error' \in RefusalErrors
  /\ UNCHANGED <<phase, begun>>

\* A good header, the first or that of a resumed download.
Download ==
  /\ phase \in {"STARTING", "DOWNLOADING"}
  /\ phase' = "DOWNLOADING" /\ error' = "NONE" /\ UNCHANGED begun

Verify ==
  /\ phase = "DOWNLOADING"
  /\ phase' = "VERIFYING" /\ UNCHANGED <<begun, error>>

Stage ==
  /\ phase = "VERIFYING"
  /\ phase' = "STAGED" /\ error' = "NONE" /\ UNCHANGED begun

Reject ==
  /\ phase = "VERIFYING"
  /\ phase' = "ERROR" /\ error' = "VERIFY_FAILED" /\ UNCHANGED begun

\* The download fails, or a second failure of a session that has already
\* failed is recorded: even after clear(), which begins no new session.
Fail ==
  /\ phase \in {"STARTING", "DOWNLOADING", "ERROR", "IDLE"} /\ begun > 0
  /\ phase' = "ERROR" /\ error' \in SessionErrors /\ UNCHANGED begun

Clear ==
  /\ phase \in {"IDLE", "ERROR"}
  /\ phase' = "IDLE" /\ error' = "NONE" /\ UNCHANGED begun

Apply ==
  /\ phase = "STAGED"
  /\ phase' = "APPLYING" /\ UNCHANGED <<begun, error>>

Reboot ==
  /\ phase = "APPLYING"
  /\ phase' = "IDLE" /\ begun' = 0 /\ error' = "NONE"

Next == \/ Begin \/ Refuse \/ Download \/ Verify \/ Stage \/ Reject
        \/ Fail \/ Clear \/ Apply \/ Reboot

Spec == Init /\ [][Next]_life

\* A session that failed always says why.
ErrorHasCause == phase = "ERROR" => error # "NONE"

=============================================================================
