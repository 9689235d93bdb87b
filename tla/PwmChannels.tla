----------------------------- MODULE PwmChannels -----------------------------
(***************************************************************************)
(* The PWM channels of arduino_pin_io.c, shared by analogWrite, the digital *)
(* pin calls and the Servo objects of Servo.cpp.  g_pwm_state records what  *)
(* the driver was last told and which of the two users told it; the PWM     *)
(* hardware behind luat_pwm_setup and luat_pwm_close is modelled beside it. *)
(***************************************************************************)
EXTENDS Integers

CONSTANTS
  Pins,          \* pin numbers a sketch passes
  Servos,        \* Servo objects
  NoServo,       \* no Servo has set up the channel yet
  Values,        \* arguments of analogWrite
  Resolutions,   \* arguments of analogWriteResolution
  Frequencies,   \* arguments of analogWriteFrequency
  PulseRanges,   \* <<min, max>> arguments of Servo::attach
  ServoArgs      \* arguments of Servo::write and writeMicroseconds

ASSUME PwmAssumption ==
  /\ Pins \subseteq Int /\ Values \subseteq Int /\ ServoArgs \subseteq Int
  /\ Resolutions \subseteq Int /\ Frequencies \subseteq Nat
  /\ PulseRanges \subseteq Int \X Int
  /\ NoServo \notin Servos

DefaultFrequency == 1000       \* k_default_pwm_frequency
MaxFrequency     == 13000000   \* k_max_pwm_frequency
ServoPeriod      == 20000      \* REFRESH_INTERVAL, in microseconds
ServoFrequency   == 1000000 \div ServoPeriod
MinPulse == 544                \* MIN_PULSE_WIDTH
MaxPulse == 2400               \* MAX_PULSE_WIDTH

NoChannel == -1
NoPin     == -1                \* kInvalidServoPin

\* Every pin number is narrowed to uint8_t before it is looked up.
ChannelOf(pin) ==
  LET p == pin % 256
  IN  CASE p = 1 -> 0 [] p = 24 -> 1 [] p = 31 -> 2 [] p = 33 -> 4 [] OTHER -> NoChannel

Channels == {ChannelOf(pin) : pin \in Pins} \ {NoChannel}

VARIABLES
  pwm,       \* g_pwm_state
  bits,      \* g_analog_write_resolution_bits
  servo,     \* the Servo objects; attached_ is pin # NoPin
  hw,        \* the PWM hardware: what it outputs on each channel
  unsure,    \* history: channels whose last luat_pwm_setup failed
  scale,     \* history: resolution in force when a channel was last set up
  tenant     \* history: Servo that last configured a channel

vars == <<pwm, bits, servo, hw, unsure, scale, tenant>>

Clamp(v, lo, hi) == IF v < lo THEN lo ELSE IF v > hi THEN hi ELSE v

analog_write_max_value == 2 ^ bits - 1

\* value_to_pulse, in thousandths of the period.
ValueToPulse(value) ==
  LET top == analog_write_max_value
  IN  IF value <= 0 THEN 0
      ELSE IF value >= top THEN 1000
      ELSE (value * 1000 + top \div 2) \div top

\* pulse_us_to_permille for the only period that is used.
ServoPermille(us) ==
  IF us >= ServoPeriod THEN 1000 ELSE (us * 1000 + ServoPeriod \div 2) \div ServoPeriod

Off == [on |-> FALSE, frequency |-> 0, pulse |-> 0]

Init ==
  /\ pwm = [c \in Channels |-> [frequency |-> DefaultFrequency, value |-> 0,
                                active |-> FALSE, owner |-> "NONE"]]
  /\ bits = 8
  /\ servo = [s \in Servos |-> [pin |-> NoPin, min |-> MinPulse, max |-> MaxPulse, pulse |-> 1500]]
  /\ hw = [c \in Channels |-> Off]
  /\ unsure = {}
  /\ scale = [c \in Channels |-> 8]
  /\ tenant = [c \in Channels |-> NoServo]

-----------------------------------------------------------------------------
(* The driver *)

\* configure_pwm(c, frequency, pulse, value, owner) succeeds, or luat_pwm_setup
\* fails: then only active is cleared, and the channel goes on as it was.
Configured(c, frequency, pulse, value, owner) ==
  /\ hw' = [hw EXCEPT ![c] = [on |-> TRUE, frequency |-> frequency, pulse |-> pulse]]
  /\ pwm' = [pwm EXCEPT ![c] = [frequency |-> frequency, value |-> value,
                                active |-> TRUE, owner |-> owner]]
  /\ unsure' = unsure \ {c}
  /\ scale' = [scale EXCEPT ![c] = bits]

ConfigureFailed(c, frequency) ==
  /\ pwm' = [pwm EXCEPT ![c].frequency = frequency, ![c].active = FALSE]
  /\ unsure' = unsure \cup {c}
  /\ UNCHANGED <<hw, scale>>

\* Mutant of PwmDetach: the channel is released but not closed.
PwmDetachKeepsOutput(c) ==
  /\ pwm' = [pwm EXCEPT ![c].active = FALSE, ![c].owner = "NONE"]
  /\ UNCHANGED <<hw, unsure, scale>>

\* arduino_pwm_detach_pin of a pin with channel c: nothing when it is inactive.
PwmDetach(c) ==
  IF c # NoChannel /\ pwm[c].active
  THEN /\ hw' = [hw EXCEPT ![c] = Off]
       /\ pwm' = [pwm EXCEPT ![c].active = FALSE, ![c].owner = "NONE"]
       /\ UNCHANGED <<unsure, scale>>
  ELSE UNCHANGED <<hw, pwm, unsure, scale>>

-----------------------------------------------------------------------------
(* Generic pin calls *)

\* arduino_pin_mode and arduino_pin_write take the pin away from PWM.
PinModeOrWrite(pin) ==
  /\ PwmDetach(ChannelOf(pin))
  /\ UNCHANGED <<bits, servo, tenant>>

\* Zero and full scale become a digital level, which detaches the channel; a
\* pin without a channel is driven as a digital one.
AnalogWrite(pin, value) ==
  LET c == ChannelOf(pin)
  IN  /\ IF c = NoChannel \/ value <= 0 \/ value >= analog_write_max_value
         THEN PwmDetach(c)
         ELSE \/ Configured(c, pwm[c].frequency, ValueToPulse(value), value, "ANALOG_WRITE")
              \/ ConfigureFailed(c, pwm[c].frequency)
      /\ UNCHANGED <<bits, servo, tenant>>

AnalogWriteResolution(b) ==
  /\ bits' = Clamp(b, 1, 16)
  /\ UNCHANGED <<pwm, servo, hw, unsure, scale, tenant>>

ValidFrequency(f) == f # 0 /\ f <= MaxFrequency

\* arduino_analog_write_frequency_pin, which refuses a servo's channel.  The
\* value is scaled again, with the resolution of now.
AnalogWriteFrequencyPin(pin, f) ==
  LET c == ChannelOf(pin)
  IN  /\ ValidFrequency(f) /\ c # NoChannel /\ pwm[c].owner # "SERVO"
      /\ IF pwm[c].active
         THEN \/ Configured(c, f, ValueToPulse(pwm[c].value), pwm[c].value, "ANALOG_WRITE")
              \/ ConfigureFailed(c, f)
         ELSE pwm' = [pwm EXCEPT ![c].frequency = f] /\ UNCHANGED <<hw, unsure, scale>>
      /\ UNCHANGED <<bits, servo, tenant>>

\* Mutant of AnalogWriteFrequencyAll: the running channels are set up again
\* with the value itself instead of its pulse.
FrequencyAllUnscaled(f) ==
  LET open    == {c \in Channels : pwm[c].owner # "SERVO"}
      running == {c \in Channels : pwm[c].active /\ pwm[c].owner = "ANALOG_WRITE"}
  IN  /\ ValidFrequency(f)
      /\ pwm' = [c \in Channels |-> IF c \in open THEN [pwm[c] EXCEPT !.frequency = f] ELSE pwm[c]]
      /\ hw' = [c \in Channels |->
           IF c \in running THEN [on |-> TRUE, frequency |-> f, pulse |-> pwm[c].value] ELSE hw[c]]
      /\ unsure' = unsure \ running
      /\ scale' = [c \in Channels |-> IF c \in running THEN bits ELSE scale[c]]
      /\ UNCHANGED <<bits, servo, tenant>>

\* arduino_analog_write_frequency_all: every set-up may fail on its own.
AnalogWriteFrequencyAll(f) ==
  LET open    == {c \in Channels : pwm[c].owner # "SERVO"}
      running == {c \in Channels : pwm[c].active /\ pwm[c].owner = "ANALOG_WRITE"}
  IN  /\ ValidFrequency(f)
      /\ \E failed \in SUBSET running :
           /\ pwm' = [c \in Channels |->
                IF c \in open
                THEN [pwm[c] EXCEPT !.frequency = f, !.active = @ /\ c \notin failed]
                ELSE pwm[c]]
           /\ hw' = [c \in Channels |->
                IF c \in running \ failed
                THEN [on |-> TRUE, frequency |-> f, pulse |-> ValueToPulse(pwm[c].value)]
                ELSE hw[c]]
           /\ unsure' = (unsure \ running) \cup failed
           /\ scale' = [c \in Channels |-> IF c \in running \ failed THEN bits ELSE scale[c]]
      /\ UNCHANGED <<bits, servo, tenant>>

-----------------------------------------------------------------------------
(* Servo *)

Unattached(s) == servo' = [servo EXCEPT ![s].pin = NoPin]

\* Mutant of ServoAttach: the pulse is not clamped to the new range.
ServoAttachUnclamped(s, pin, range) ==
  LET min == IF range[1] <= 0 THEN MinPulse ELSE range[1]
      max == IF range[2] <= min THEN MaxPulse ELSE range[2]
      c   == ChannelOf(pin)
  IN  /\ pin >= 0 /\ c # NoChannel
      /\ Configured(c, ServoFrequency, ServoPermille(servo[s].pulse), servo[s].pulse, "SERVO")
      /\ servo' = [servo EXCEPT ![s] = [pin |-> pin, min |-> min, max |-> max, pulse |-> @.pulse]]
      /\ tenant' = [tenant EXCEPT ![c] = s]
      /\ UNCHANGED bits

\* attach(pin, min, max).  A pin the object was attached to before keeps its
\* channel; a negative pin or one without PWM, or a failing set-up, leaves the
\* object unattached, with the new range unless the pin is negative.
ServoAttach(s, pin, range) ==
  LET min   == IF range[1] <= 0 THEN MinPulse ELSE range[1]
      max   == IF range[2] <= min THEN MaxPulse ELSE range[2]
      pulse == Clamp(servo[s].pulse, min, max)
      c     == ChannelOf(pin)
      Set(p) == servo' = [servo EXCEPT ![s] = [pin |-> p, min |-> min, max |-> max, pulse |-> pulse]]
  IN  /\ \/ pin < 0 /\ Unattached(s) /\ UNCHANGED <<pwm, hw, unsure, scale, tenant>>
         \/ pin >= 0 /\ c = NoChannel /\ Set(NoPin) /\ UNCHANGED <<pwm, hw, unsure, scale, tenant>>
         \/ /\ pin >= 0 /\ c # NoChannel
            /\ \/ /\ Configured(c, ServoFrequency, ServoPermille(pulse), pulse, "SERVO")
                  /\ Set(pin)
                  /\ tenant' = [tenant EXCEPT ![c] = s]
               \/ ConfigureFailed(c, pwm[c].frequency) /\ Set(NoPin) /\ UNCHANGED tenant
      /\ UNCHANGED bits

\* The channel is detached whoever owns it by now.
ServoDetach(s) ==
  /\ servo[s].pin # NoPin
  /\ PwmDetach(ChannelOf(servo[s].pin))
  /\ Unattached(s)
  /\ UNCHANGED <<bits, tenant>>

\* write() takes a small argument for an angle, anything else for a pulse.
AngleToPulse(angle, min, max) == min + ((max - min) * Clamp(angle, 0, 180) + 90) \div 180

\* Mutant of ServoWrite: a channel that analogWrite took over is taken back.
ServoWriteAnyOwner(s, arg) ==
  LET me    == servo[s]
      us    == IF arg < MinPulse THEN AngleToPulse(arg, me.min, me.max) ELSE arg
      pulse == Clamp(us, me.min, me.max)
      c     == ChannelOf(me.pin)
  IN  /\ me.pin # NoPin
      /\ Configured(c, ServoFrequency, ServoPermille(pulse), pulse, "SERVO")
      /\ servo' = [servo EXCEPT ![s].pulse = pulse]
      /\ UNCHANGED <<bits, tenant>>

\* writeMicroseconds gives up the pin when the channel is not a servo's any
\* more (not necessarily this servo's), or when the set-up fails.
ServoWrite(s, arg) ==
  LET me    == servo[s]
      us    == IF arg < MinPulse THEN AngleToPulse(arg, me.min, me.max) ELSE arg
      pulse == Clamp(us, me.min, me.max)
      c     == ChannelOf(me.pin)
      Set(p) == servo' = [servo EXCEPT ![s].pulse = pulse, ![s].pin = p]
  IN  /\ me.pin # NoPin
      /\ IF pwm[c].owner # "SERVO"
         THEN Set(NoPin) /\ UNCHANGED <<pwm, hw, unsure, scale, tenant>>
         ELSE \/ /\ Configured(c, ServoFrequency, ServoPermille(pulse), pulse, "SERVO")
                 /\ Set(me.pin)
                 /\ tenant' = [tenant EXCEPT ![c] = s]
              \/ ConfigureFailed(c, pwm[c].frequency) /\ Set(NoPin) /\ UNCHANGED tenant
      /\ UNCHANGED bits

\* Servo::attached.
Attached(s) == /\ servo[s].pin # NoPin
               /\ pwm[ChannelOf(servo[s].pin)].active
               /\ pwm[ChannelOf(servo[s].pin)].owner = "SERVO"

FrequencyChange == \E f \in Frequencies :
  AnalogWriteFrequencyAll(f) \/ \E pin \in Pins : AnalogWriteFrequencyPin(pin, f)

GenericCall ==
  \/ FrequencyChange
  \/ \E b \in Resolutions : AnalogWriteResolution(b)
  \/ \E pin \in Pins : PinModeOrWrite(pin) \/ \E v \in Values : AnalogWrite(pin, v)

ServoCall == \E s \in Servos :
  \/ \E pin \in Pins, range \in PulseRanges : ServoAttach(s, pin, range)
  \/ ServoDetach(s)
  \/ \E arg \in ServoArgs : ServoWrite(s, arg)

Next == GenericCall \/ ServoCall

Spec == Init /\ [][Next]_vars

-----------------------------------------------------------------------------
(* Properties *)

\* Every variable has the values its declaration promises.
TypeOK ==
  /\ pwm \in [Channels -> [frequency : 1 .. MaxFrequency, value : Int, active : BOOLEAN,
                           owner : {"NONE", "ANALOG_WRITE", "SERVO"}]]
  /\ bits \in 1 .. 16 /\ scale \in [Channels -> 1 .. 16]
  /\ servo \in [Servos -> [pin : Int, min : Int, max : Int, pulse : Int]]
  /\ hw \in [Channels -> [on : BOOLEAN, frequency : 0 .. MaxFrequency, pulse : 0 .. 1000]]
  /\ unsure \subseteq Channels
  /\ tenant \in [Channels -> Servos \cup {NoServo}]

\* A channel recorded as active has an owner and outputs the recorded frequency;
\* a channel that still outputs something is recorded as active, unless setting
\* it up failed: only then does a later digital call not switch it off.
RecordMatchesHardware ==
  \A c \in Channels :
    /\ pwm[c].active => /\ pwm[c].owner # "NONE"
                        /\ hw[c].on /\ hw[c].frequency = pwm[c].frequency
    /\ hw[c].on => pwm[c].active \/ c \in unsure

\* A Servo whose attached() is true, and that was the last Servo to set up its
\* channel, sees its own pulse on the pin, at 50 Hz, whatever analogWrite calls
\* and other Servos did to the channel meanwhile.  The pulse is within the range
\* of the Servo, unless that is empty: attach() replaces a maximum that is not
\* above the minimum by MAX_PULSE_WIDTH, which may be below the minimum, too.
AttachedServoDrives ==
  \A s \in Servos :
    LET c == ChannelOf(servo[s].pin)
    IN  Attached(s) /\ tenant[c] = s =>
          /\ hw[c] = [on |-> TRUE, frequency |-> ServoFrequency,
                      pulse |-> ServoPermille(servo[s].pulse)]
          /\ servo[s].min <= servo[s].max =>
               servo[s].min <= servo[s].pulse /\ servo[s].pulse <= servo[s].max

\* Records, hardware and servos agree, and every variable has the values its
\* declaration promises.
ChannelInv == TypeOK /\ RecordMatchesHardware /\ AttachedServoDrives

\* Changing the frequency keeps the duty cycle that is output, as long as the
\* resolution is the one in force when the channel was last set up: the recorded
\* value is scaled again with the resolution of now.
FrequencyKeepsDuty ==
  [][FrequencyChange =>
       \A c \in Channels : hw[c].on /\ scale[c] = bits => hw'[c].pulse = hw[c].pulse]_vars

\* A Servo takes over a channel by attach() only: what analogWrite runs on a
\* pin is not disturbed by a Servo that was attached to it before.
ServoRespectsTakeover ==
  [][\A c \in Channels : pwm[c].active /\ pwm[c].owner = "ANALOG_WRITE" /\ pwm'[c].owner = "SERVO" =>
       \E s \in Servos, pin \in Pins, range \in PulseRanges :
         ChannelOf(pin) = c /\ ServoAttach(s, pin, range)]_vars

\* The documentation of analogWriteFrequency(pin, hz): it sets the frequency of
\* a PWM channel before or during output.  It is refused where a servo runs, so
\* a channel on which nothing is active must not belong to a servo.
FrequencyCanBeSet ==
  \A c \in Channels : pwm[c].owner = "SERVO" => pwm[c].active

=============================================================================
