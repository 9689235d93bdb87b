------------------------------- MODULE MCSleep -------------------------------
(***************************************************************************)
(* SleepControl beside NetworkTime, which shares nothing with it: what     *)
(* both call by one name is renamed.                                       *)
(***************************************************************************)
EXTENDS Integers

CONSTANTS Timers, BadTimer, Pads, MaxTime   \* of SleepControl

VARIABLES
  radio, slp2, timers, votes, pads, power, wake, req, refused,   \* of SleepControl
  stage, answer                                                  \* its pc and result

Sleep == INSTANCE SleepControl WITH pc <- stage, result <- answer

ASSUME SleepAssumption == Sleep!SleepAssumption

\* The chip does what it was forced to and its RTC runs: see FairSpec.
SleepSpec == Sleep!FairSpec

-----------------------------------------------------------------------------
\* A chip that goes to sleep is prepared for it: see SleepControl.
SleepInv == Sleep!SleepInv

\* What a deepSleep that fails leaves behind: see SleepControl.
FailedSleepEffects == Sleep!FailedSleepEffects

\* A chip that sleeps wakes up: see SleepControl.
WakesUp == Sleep!WakesUp

=============================================================================
