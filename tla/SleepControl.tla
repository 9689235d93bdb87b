----------------------------- MODULE SleepControl -----------------------------
(***************************************************************************)
(* AIR780EPMSleep over arduino_sleep_io.c: light sleep as a vote, deep     *)
(* sleep as a sequence of SDK calls each of which may fail, wake-up pads.  *)
(* Time counts in units in which the chip, once forced, falls asleep.      *)
(***************************************************************************)
EXTENDS Integers, FiniteSets

CONSTANTS
  Timers,     \* valid deep-sleep timers, 0 .. kDeepSleepTimerMax
  BadTimer,   \* a timer id beyond them
  Pads,       \* valid wake-up pads, 0 .. kWakeupPadMax
  MaxTime     \* longest time a sketch asks for

SleepAssumption ==
  /\ IsFiniteSet(Timers) /\ BadTimer \notin Timers
  /\ MaxTime \in Nat \ {0}

VARIABLES
  radio,   \* the modem's CFUN is not 0
  slp2,    \* slpManSetPmuSleepMode has allowed SLP2
  timers,  \* time left on each deep-sleep timer, 0 when it does not run
  votes,   \* light-sleep mode has been requested
  pads,    \* slpman's settings of each wake-up pad
  power,   \* "awake", "forced" into deep sleep, "asleep"
  wake,    \* what the chip was woken by last
  pc,      \* where the sketch is: "loop", "light", "settle", "arm", "force"
  req,     \* the timer and the time deepSleep was called with
  result,  \* history: the last call that returned, whether it succeeded, and
           \* whether an SDK call failed in it
  refused  \* history: a deepSleep called of a chip already forced has failed

vars == <<radio, slp2, timers, votes, pads, power, wake, pc, req, result, refused>>

chip == <<radio, slp2, timers, power, wake>>

NoEdge   == "none"
Edges    == {"rising", "falling", "both"}
Pulls    == {"none", "up", "down", "up and down"}

\* Mutant of PosEdge: a pad for both edges reads back as one for falling only.
PosEdgeRisingOnly(edge) == edge = "rising"

\* arduinoSleepMakePadSettings: the edges and pulls slpman reports of a pad.
PosEdge(edge) == edge \in {"rising", "both"}
NegEdge(edge) == edge \in {"falling", "both"}
PadSettings(edge, pull) ==
  [pos |-> PosEdge(edge), neg |-> NegEdge(edge), up |-> pull = "up", down |-> pull = "down"]
NoSettings == PadSettings(NoEdge, "none")

\* arduinoSleepToLuatIrqType: the same edges as the GPIO driver names them.
IrqType(edge) ==
  CASE edge = "rising" -> "RISING" [] edge = "falling" -> "FALLING"
    [] edge = "both" -> "BOTH" [] OTHER -> "NO_IRQ"

\* The driver sets a pad up as it was asked to.
PadOf(irq, pull) ==
  [pos |-> irq \in {"RISING", "BOTH"}, neg |-> irq \in {"FALLING", "BOTH"},
   up |-> pull = "up", down |-> pull = "down"]

Init ==
  /\ radio = TRUE /\ slp2 = FALSE /\ timers = [t \in Timers |-> 0]
  /\ votes = FALSE /\ pads = [p \in Pads |-> [enabled |-> FALSE, set |-> NoSettings]]
  /\ power = "awake" /\ wake = "POR" /\ pc = "loop"
  /\ req = [timer |-> BadTimer, time |-> 0]
  /\ result = [call |-> "none", ok |-> TRUE, failed |-> FALSE]
  /\ refused = FALSE

Return(call, ok, failed) ==
  /\ pc' = "loop"
  /\ result' = [call |-> call, ok |-> ok, failed |-> failed]

running == {t \in Timers : timers[t] > 0}

\* The sketch runs until the chip is asleep.
InLoop == pc = "loop" /\ power # "asleep"
-----------------------------------------------------------------------------
(* Light sleep *)

LightSleep(time) ==
  /\ InLoop
  /\ \/ /\ time > 0
        /\ votes' = TRUE /\ pc' = "light" /\ UNCHANGED result
     \/ UNCHANGED votes /\ Return("light", FALSE, time > 0)
  /\ UNCHANGED <<chip, pads, req, refused>>

\* After the delay the mode is released; that it fails is ignored.
EndLightSleep ==
  /\ pc = "light" /\ power # "asleep"
  /\ votes' \in BOOLEAN
  /\ Return("light", TRUE, votes')
  /\ UNCHANGED <<chip, pads, req, refused>>

-----------------------------------------------------------------------------
(* Deep sleep *)

ValidSleep(timer, time) == time > 0 /\ timer \in Timers

\* Bad arguments return at once; so does a modem that does not tell its CFUN or
\* does not turn its radio off.  A radio that was on gets time to settle.
DeepSleep(timer, time) ==
  /\ InLoop
  /\ \/ /\ ValidSleep(timer, time)
        /\ radio' = FALSE
        /\ pc' = IF radio THEN "settle" ELSE "arm"
        /\ req' = [timer |-> timer, time |-> time]
        /\ UNCHANGED result
     \/ /\ Return("deep", FALSE, ValidSleep(timer, time))
        /\ UNCHANGED <<radio, req>>
  /\ UNCHANGED <<slp2, timers, votes, pads, power, wake, refused>>

Settled ==
  /\ pc = "settle" /\ power # "asleep"
  /\ pc' = "arm"
  /\ UNCHANGED <<chip, votes, pads, req, result, refused>>

\* Mutant of ArmedTimers: the timers are cleared last.
ArmedTimersClearedLast(left) == [t \in Timers |-> 0]

\* arduinoSleepClearOtherDeepSleepTimers, and the timer that is asked for.
ArmedTimers(left) == [t \in Timers |-> IF t = req.timer THEN left ELSE 0]

Refuse == refused' = (refused \/ power = "forced")

\* SLP2 is allowed, all timers are deleted and the one asked for is started; a
\* timer that did not start or runs out meanwhile, or cannot be read, ends the
\* call.
Arm ==
  /\ pc = "arm" /\ power # "asleep"
  /\ slp2' = TRUE
  /\ \E left \in {0, req.time}, readable \in BOOLEAN :
       /\ timers' = ArmedTimers(left)
       /\ IF left = 0 \/ ~readable THEN Return("deep", FALSE, TRUE) /\ Refuse
          ELSE pc' = "force" /\ UNCHANGED <<result, refused>>
  /\ UNCHANGED <<radio, votes, pads, power, wake, req>>

\* Mutant of ForceDown: a chip that refuses leaves the timer running.
ForceDownKeepsTimer ==
  /\ pc = "force" /\ power # "asleep"
  /\ \/ power' = "forced" /\ Return("deep", TRUE, FALSE) /\ UNCHANGED refused
     \/ power' = power /\ Return("deep", FALSE, TRUE) /\ Refuse
  /\ UNCHANGED <<radio, slp2, timers, wake, votes, pads, req>>

\* luat_pm_force; if it fails the timer is deleted again.  The chip sleeps when
\* the sketch waits, and the call and what follows it may still run.
ForceDown ==
  /\ pc = "force" /\ power # "asleep"
  /\ \/ power' = "forced" /\ UNCHANGED <<timers, refused>> /\ Return("deep", TRUE, FALSE)
     \/ /\ timers' = [timers EXCEPT ![req.timer] = 0] /\ UNCHANGED power
        /\ Return("deep", FALSE, TRUE) /\ Refuse
  /\ UNCHANGED <<radio, slp2, wake, votes, pads, req>>

-----------------------------------------------------------------------------
(* Wake-up pads *)

ValidWakeup(pad, edge, pull) == pad \in Pads /\ edge # NoEdge /\ pull # "up and down"

\* setWakeupPad sets the pad up as a GPIO interrupt and compares what slpman
\* then reports with what was asked for.
SetWakeupPad(pad, edge, pull) ==
  /\ InLoop
  /\ \/ /\ ValidWakeup(pad, edge, pull)
        /\ \/ /\ pads' = [pads EXCEPT ![pad] = [enabled |-> TRUE, set |-> PadOf(IrqType(edge), pull)]]
              /\ Return("pad", pads'[pad].set = PadSettings(edge, pull), FALSE)
           \/ UNCHANGED pads /\ Return("pad", FALSE, TRUE)
     \/ /\ ~ValidWakeup(pad, edge, pull)
        /\ UNCHANGED pads
        /\ Return("bad pad", FALSE, FALSE)
  /\ UNCHANGED <<chip, votes, req, refused>>

\* clearWakeupPad closes the GPIO and looks whether the pad is off.
ClearWakeupPad(pad) ==
  /\ InLoop /\ pad \in Pads
  /\ \/ /\ pads' = [pads EXCEPT ![pad] = [enabled |-> FALSE, set |-> NoSettings]]
        /\ Return("pad", TRUE, FALSE)
     \/ UNCHANGED pads /\ Return("pad", ~pads[pad].enabled, TRUE)
  /\ UNCHANGED <<chip, votes, req, refused>>

-----------------------------------------------------------------------------
(* The chip *)

FallAsleep ==
  /\ power = "forced"
  /\ power' = "asleep"
  /\ UNCHANGED <<radio, slp2, timers, wake, votes, pads, pc, req, result, refused>>

\* Waking from SLP2 starts the firmware anew; the timers go on in the RTC.
Boot(reason) ==
  /\ power' = "awake" /\ wake' = reason
  /\ radio' = TRUE /\ slp2' = FALSE /\ votes' = FALSE
  /\ pads' = [p \in Pads |-> [enabled |-> FALSE, set |-> NoSettings]]
  /\ pc' = "loop" /\ req' = [timer |-> BadTimer, time |-> 0]
  /\ result' = [call |-> "none", ok |-> TRUE, failed |-> FALSE] /\ refused' = FALSE

\* Time passes for the timers; one that runs out wakes the chip.
Tick ==
  /\ running # {}
  /\ power = "asleep" \/ (power = "awake" /\ pc \notin {"arm", "force"})
  /\ timers' = [t \in Timers |-> IF timers[t] > 0 THEN timers[t] - 1 ELSE 0]
  /\ IF power = "asleep" /\ \E t \in running : timers'[t] = 0
     THEN Boot("RTC")
     ELSE UNCHANGED <<radio, slp2, votes, pads, power, wake, pc, req, result, refused>>

PadEdge(pad) ==
  /\ power = "asleep" /\ pads[pad].enabled
  /\ Boot("PAD") /\ UNCHANGED timers

\* AIR780EPMSleep.wakeupReason().
WakeupReason == IF wake \in {"POR", "RTC", "PAD"} THEN wake ELSE "UNKNOWN"

Next ==
  \/ \E time \in 0 .. MaxTime :
       LightSleep(time) \/ \E t \in Timers \cup {BadTimer} : DeepSleep(t, time)
  \/ EndLightSleep \/ Settled \/ Arm \/ ForceDown
  \/ \E p \in Pads : ClearWakeupPad(p) \/ PadEdge(p)
                     \/ \E e \in Edges \cup {NoEdge}, u \in Pulls : SetWakeupPad(p, e, u)
  \/ FallAsleep \/ Tick

Spec == Init /\ [][Next]_vars

\* The chip does what it was forced to and its RTC runs.
FairSpec == Spec /\ WF_vars(FallAsleep) /\ WF_vars(Tick)
-----------------------------------------------------------------------------
(* Properties *)

\* Every variable has the values its declaration promises.
TypeOK ==
  /\ {radio, slp2, votes} \subseteq BOOLEAN
  /\ timers \in [Timers -> 0 .. MaxTime]
  /\ power \in {"awake", "forced", "asleep"}
  /\ wake \in {"POR", "RTC", "PAD"} /\ WakeupReason = wake
  /\ pc \in {"loop", "light", "settle", "arm", "force"}
  /\ req \in [timer : Timers \cup {BadTimer}, time : 0 .. MaxTime]

\* The chip is not put to sleep with its radio on, nor without the SLP2 mode,
\* and exactly one timer is armed then: no timer of an earlier call, failed or
\* not, wakes it early.  Only a deepSleep that fails after one that succeeded
\* lets it sleep with none.
SleepsPrepared ==
  /\ power # "awake" => ~radio /\ slp2
  /\ power # "awake" /\ ~refused => Cardinality(running) = 1
  /\ Cardinality(running) <= 1

\* The edge a pad is set up for and the one it is read back for are encoded
\* separately: setWakeupPad fails only if the SDK does.
PadsReadBack == result.call = "pad" /\ ~result.ok => result.failed

\* Radio, SLP2 mode, timers and pads are as a chip that is about to sleep needs
\* them: at most one timer, a radio that is off, pads that read back.
SleepInv ==
  /\ TypeOK /\ SleepsPrepared /\ PadsReadBack

\* A deepSleep that fails before it arms the timer leaves the older one alone;
\* one that fails later leaves its own only if it could not read it, and never
\* a radio that was off on, nor the chip forced.
FailedSleepEffects ==
  [][result' # result /\ result'.call = "deep" /\ ~result'.ok =>
       /\ power' = power
       /\ pc = "loop" => timers' = timers /\ radio' = radio
       /\ pc = "arm" => timers' \in {ArmedTimers(0), ArmedTimers(req.time)}
       /\ pc = "force" => timers' = ArmedTimers(0)]_vars

\* A chip that sleeps wakes up, unless a deepSleep that failed disarmed it.
WakesUp == power = "asleep" /\ ~refused ~> power = "awake"

=============================================================================
