-------------------------- MODULE PwmChannelsProofs --------------------------
(***************************************************************************)
(* Theorems about PwmChannels, for all pins, servos and arguments.         *)
(***************************************************************************)
EXTENDS PwmChannels, TLAPS

-----------------------------------------------------------------------------
(* The formulas *)

\* The pulse of a value at a resolution of b bits: ValueToPulse, at any time.
PulseAt(value, b) ==
  LET top == 2 ^ b - 1
  IN  IF value <= 0 THEN 0
      ELSE IF value >= top THEN 1000
      ELSE (value * 1000 + top \div 2) \div top

\* Full scale is a positive number at every resolution.
LEMMA FullScale ==
  ASSUME NEW b \in 1 .. 16
  PROVE  2 ^ b - 1 \in Nat /\ 2 ^ b - 1 > 0
<1>1. /\ 2 ^ 1 = 2 /\ 2 ^ 2 = 4 /\ 2 ^ 3 = 8 /\ 2 ^ 4 = 16 /\ 2 ^ 5 = 32 /\ 2 ^ 6 = 64 /\ 2 ^ 7 = 128
      /\ 2 ^ 8 = 256 /\ 2 ^ 9 = 512 /\ 2 ^ 10 = 1024 /\ 2 ^ 11 = 2048 /\ 2 ^ 12 = 4096
      /\ 2 ^ 13 = 8192 /\ 2 ^ 14 = 16384 /\ 2 ^ 15 = 32768 /\ 2 ^ 16 = 65536
  BY SMT
<1>2. \/ b = 1 \/ b = 2 \/ b = 3 \/ b = 4 \/ b = 5 \/ b = 6 \/ b = 7 \/ b = 8 \/ b = 9
      \/ b = 10 \/ b = 11 \/ b = 12 \/ b = 13 \/ b = 14 \/ b = 15 \/ b = 16
  OBVIOUS
<1>3. CASE b = 1
  BY <1>1, <1>3
<1>4. CASE b = 2
  BY <1>1, <1>4
<1>5. CASE b = 3
  BY <1>1, <1>5
<1>6. CASE b = 4
  BY <1>1, <1>6
<1>7. CASE b = 5
  BY <1>1, <1>7
<1>8. CASE b = 6
  BY <1>1, <1>8
<1>9. CASE b = 7
  BY <1>1, <1>9
<1>10. CASE b = 8
  BY <1>1, <1>10
<1>11. CASE b = 9
  BY <1>1, <1>11
<1>12. CASE b = 10
  BY <1>1, <1>12
<1>13. CASE b = 11
  BY <1>1, <1>13
<1>14. CASE b = 12
  BY <1>1, <1>14
<1>15. CASE b = 13
  BY <1>1, <1>15
<1>16. CASE b = 14
  BY <1>1, <1>16
<1>17. CASE b = 15
  BY <1>1, <1>17
<1>18. CASE b = 16
  BY <1>1, <1>18
<1>19. QED
  BY <1>2, <1>3, <1>4, <1>5, <1>6, <1>7, <1>8, <1>9, <1>10, <1>11, <1>12, <1>13, <1>14, <1>15, <1>16, <1>17, <1>18

\* A rounded share of a whole, in thousandths.
LEMMA Permille ==
  ASSUME NEW part \in Int, NEW whole \in Nat, whole > 0, part > 0, part < whole
  PROVE  (part * 1000 + whole \div 2) \div whole \in 0 .. 1000
BY SMT

\* A pulse is a number of thousandths.
LEMMA PulseIsPermille ==
  ASSUME NEW value \in Int, NEW b \in 1 .. 16
  PROVE  PulseAt(value, b) \in 0 .. 1000
<1>1. PICK top \in Nat : top = 2 ^ b - 1 /\ top > 0
  BY FullScale
<1>2. CASE value <= 0
  BY <1>2 DEF PulseAt
<1>3. CASE value > 0 /\ value >= top
  BY <1>1, <1>3 DEF PulseAt
<1>4. CASE value > 0 /\ value < top
  <2>1. (value * 1000 + top \div 2) \div top \in 0 .. 1000
    BY <1>1, <1>4, Permille
  <2>2. PulseAt(value, b) = (value * 1000 + top \div 2) \div top
    BY <1>1, <1>4 DEF PulseAt
  <2>3. QED
    BY <2>1, <2>2
<1>5. QED
  BY <1>1, <1>2, <1>3, <1>4

\* The pulse of a value is the one its resolution of now gives it.
LEMMA PulseOfNow == \A value : ValueToPulse(value) = PulseAt(value, bits)
BY DEF ValueToPulse, PulseAt, analog_write_max_value

\* So is the share a pulse width has of the period, which has 50 to a second.
LEMMA ServoIsPermille == \A us \in Int : us > 0 => ServoPermille(us) \in 0 .. 1000
<1>2. ASSUME NEW us \in Int, us > 0 PROVE ServoPermille(us) \in 0 .. 1000
  <2>1. CASE us >= ServoPeriod
    BY <2>1 DEF ServoPermille
  <2>2. CASE us < 20000
    <3>1. (us * 1000 + 20000 \div 2) \div 20000 \in 0 .. 1000
      BY <1>2, <2>2, Permille
    <3>2. QED
      BY <2>2, <3>1 DEF ServoPermille, ServoPeriod
  <2>3. QED
    BY <2>1, <2>2 DEF ServoPeriod
<1>3. QED
  BY <1>2

\* The frequencies the code itself chooses are valid.
LEMMA FrequenciesValid ==
  /\ MaxFrequency \in Nat /\ 0 \in 0 .. MaxFrequency
  /\ DefaultFrequency \in 1 .. MaxFrequency /\ ServoFrequency \in 1 .. MaxFrequency
<1>1. 1000000 \div 20000 = 50
  BY SMT
<1>2. ServoFrequency = 50 /\ DefaultFrequency = 1000
  BY <1>1, SMT DEF ServoFrequency, ServoPeriod, DefaultFrequency
<1>3. MaxFrequency \in Nat /\ 1000 <= MaxFrequency
  BY SMT DEF MaxFrequency
<1>4. QED
  BY <1>2, <1>3

\* A clamped value is one of the three, and within the range unless that is empty.
LEMMA Clamped ==
  ASSUME NEW v \in Int, NEW lo \in Int, NEW hi \in Int
  PROVE  /\ Clamp(v, lo, hi) \in {v, lo, hi} /\ Clamp(v, lo, hi) \in Int
         /\ lo > 0 /\ hi > 0 => Clamp(v, lo, hi) > 0
         /\ lo <= hi => lo <= Clamp(v, lo, hi) /\ Clamp(v, lo, hi) <= hi
BY DEF Clamp

-----------------------------------------------------------------------------
(* The inductive invariant *)

\* A Servo has a pulse that is positive and, unless the range is empty, within it;
\* one that has a pin has one with a channel.
ServoSound(s) ==
  /\ servo[s].min > 0 /\ servo[s].max > 0 /\ servo[s].pulse > 0
  /\ servo[s].min <= servo[s].max => servo[s].min <= servo[s].pulse /\ servo[s].pulse <= servo[s].max
  /\ servo[s].pin # NoPin => servo[s].pin \in Pins /\ ChannelOf(servo[s].pin) # NoChannel

\* What analogWrite runs is the recorded value, at the resolution of its set-up.
DutyRecorded(c) ==
  pwm[c].active /\ pwm[c].owner = "ANALOG_WRITE" => hw[c].pulse = PulseAt(pwm[c].value, scale[c])

\* RecordMatchesHardware for one channel, and AttachedServoDrives for one Servo.
Matches(c) ==
  /\ pwm[c].active => pwm[c].owner # "NONE" /\ hw[c].on /\ hw[c].frequency = pwm[c].frequency
  /\ hw[c].on => pwm[c].active \/ c \in unsure
Drives(s, c) ==
  pwm[c].active /\ pwm[c].owner = "SERVO" /\ tenant[c] = s =>
    hw[c] = [on |-> TRUE, frequency |-> ServoFrequency, pulse |-> ServoPermille(servo[s].pulse)]

\* The types of the driver's part of the state.
DriverTyped ==
  /\ pwm \in [Channels -> [frequency : 1 .. MaxFrequency, value : Int, active : BOOLEAN,
                           owner : {"NONE", "ANALOG_WRITE", "SERVO"}]]
  /\ hw \in [Channels -> [on : BOOLEAN, frequency : 0 .. MaxFrequency, pulse : 0 .. 1000]]
  /\ scale \in [Channels -> 1 .. 16] /\ unsure \subseteq Channels

PwmInv ==
  /\ TypeOK
  /\ \A c \in Channels : Matches(c) /\ DutyRecorded(c)
  /\ \A s \in Servos : ServoSound(s)
  /\ \A s \in Servos, c \in Channels : servo[s].pin # NoPin /\ c = ChannelOf(servo[s].pin) => Drives(s, c)

\* The channel of a pin of the sketch is one of the channels, if it has one.
LEMMA ChannelOfPin ==
  ASSUME NEW pin \in Pins
  PROVE  ChannelOf(pin) = NoChannel \/ ChannelOf(pin) \in Channels
BY DEF Channels

\* It holds of a board whose pins nobody has used.
LEMMA PwmInit == Init => PwmInv
<1> SUFFICES ASSUME Init PROVE PwmInv
  OBVIOUS
<1>1. TypeOK
  <2>1. 8 \in 1 .. 16 /\ DefaultFrequency \in 1 .. MaxFrequency /\ 0 \in 0 .. MaxFrequency /\ 0 \in 0 .. 1000
    BY FrequenciesValid
  <2>2. Off \in [on : BOOLEAN, frequency : 0 .. MaxFrequency, pulse : 0 .. 1000]
    BY <2>1 DEF Off
  <2>3. NoPin \in Int /\ MinPulse \in Int /\ MaxPulse \in Int /\ 1500 \in Int /\ 0 \in Int
    BY DEF NoPin, MinPulse, MaxPulse
  <2>4. pwm \in [Channels -> [frequency : 1 .. MaxFrequency, value : Int, active : BOOLEAN,
                              owner : {"NONE", "ANALOG_WRITE", "SERVO"}]]
    BY <2>1, <2>3 DEF Init
  <2>5. servo \in [Servos -> [pin : Int, min : Int, max : Int, pulse : Int]]
    BY <2>3 DEF Init
  <2>6. hw \in [Channels -> [on : BOOLEAN, frequency : 0 .. MaxFrequency, pulse : 0 .. 1000]]
    BY <2>2 DEF Init
  <2>7. QED
    BY <2>1, <2>4, <2>5, <2>6 DEF Init, TypeOK
<1>2. \A c \in Channels : ~pwm[c].active /\ ~hw[c].on
  BY DEF Init, Off
<1>3. \A s \in Servos : servo[s] = [pin |-> NoPin, min |-> MinPulse, max |-> MaxPulse, pulse |-> 1500]
  BY DEF Init
<1>4. \A s \in Servos : ServoSound(s) /\ servo[s].pin = NoPin
  BY <1>3 DEF ServoSound, MinPulse, MaxPulse
<1>5. QED
  BY <1>1, <1>2, <1>4 DEF PwmInv, Matches, DutyRecorded

-----------------------------------------------------------------------------
(* What a step may leave alone *)

\* A channel that a step does not touch.
Same(d) == /\ pwm'[d] = pwm[d] /\ hw'[d] = hw[d] /\ scale'[d] = scale[d]
           /\ (d \in unsure' <=> d \in unsure)

\* Channels and Servos that a step leaves alone stay sound; the others are its
\* own concern.
LEMMA StepSound ==
  ASSUME PwmInv, DriverTyped', bits' \in 1 .. 16,
         servo' \in [Servos -> [pin : Int, min : Int, max : Int, pulse : Int]],
         tenant' \in [Channels -> Servos \cup {NoServo}],
         \A d \in Channels : Same(d) \/ (Matches(d)' /\ DutyRecorded(d)'),
         \A t \in Servos : ServoSound(t)',
         \A t \in Servos, d \in Channels :
           servo'[t].pin # NoPin /\ d = ChannelOf(servo'[t].pin) =>
             \/ servo'[t] = servo[t] /\ Same(d) /\ tenant'[d] = tenant[d]
             \/ Drives(t, d)'
  PROVE  PwmInv'
<1>1. TypeOK'
  BY DEF TypeOK, DriverTyped
<1>2. ASSUME NEW d \in Channels PROVE Matches(d)' /\ DutyRecorded(d)'
  <2>1. Matches(d) /\ DutyRecorded(d)
    BY DEF PwmInv
  <2>2. CASE Same(d)
    BY <2>1, <2>2 DEF Same, Matches, DutyRecorded
  <2>3. QED
    BY <2>2
<1>3. ASSUME NEW t \in Servos, NEW d \in Channels, servo'[t].pin # NoPin, d = ChannelOf(servo'[t].pin)
      PROVE  Drives(t, d)'
  <2>1. CASE servo'[t] = servo[t] /\ Same(d) /\ tenant'[d] = tenant[d]
    <3>1. Drives(t, d)
      BY <1>3, <2>1 DEF PwmInv
    <3>2. QED
      BY <2>1, <3>1 DEF Drives, Same
  <2>2. QED
    BY <1>3, <2>1
<1>4. QED
  BY <1>1, <1>2, <1>3 DEF PwmInv

\* A step of the pin calls, which leaves Servo objects alone: the channels it
\* changes do not run for a Servo afterwards.
LEMMA PinStepSound ==
  ASSUME PwmInv, DriverTyped', bits' \in 1 .. 16, UNCHANGED <<servo, tenant>>,
         \A d \in Channels :
           Same(d) \/ (/\ Matches(d)' /\ DutyRecorded(d)'
                       /\ (pwm'[d].active => pwm'[d].owner # "SERVO"))
  PROVE  PwmInv'
<1>1. /\ servo' \in [Servos -> [pin : Int, min : Int, max : Int, pulse : Int]]
      /\ tenant' \in [Channels -> Servos \cup {NoServo}]
  BY DEF PwmInv, TypeOK
<1>2. \A t \in Servos : ServoSound(t)'
  BY DEF PwmInv, ServoSound
<1>3. ASSUME NEW t \in Servos, NEW d \in Channels
      PROVE  \/ servo'[t] = servo[t] /\ Same(d) /\ tenant'[d] = tenant[d]
             \/ Drives(t, d)'
  <2>1. CASE pwm'[d].active => pwm'[d].owner # "SERVO"
    BY <2>1 DEF Drives
  <2>2. QED
    BY <2>1
<1>4. QED
  BY <1>1, <1>2, <1>3, StepSound

\* A step of one Servo: a channel it changes runs for it afterwards, or for none.
LEMMA ServoStepSound ==
  ASSUME PwmInv, DriverTyped', UNCHANGED bits, NEW s \in Servos, ServoSound(s)',
         servo' \in [Servos -> [pin : Int, min : Int, max : Int, pulse : Int]],
         tenant' \in [Channels -> Servos \cup {NoServo}],
         \A t \in Servos \ {s} : servo'[t] = servo[t],
         \A d \in Channels :
           \/ Same(d) /\ tenant'[d] = tenant[d]
           \/ /\ Matches(d)' /\ DutyRecorded(d)'
              /\ (pwm'[d].active /\ pwm'[d].owner = "SERVO" => tenant'[d] = s),
         \A d \in Channels : servo'[s].pin # NoPin /\ d = ChannelOf(servo'[s].pin) => Drives(s, d)'
  PROVE  PwmInv'
<1>1. bits' \in 1 .. 16
  BY DEF PwmInv, TypeOK
<1>2. \A t \in Servos : ServoSound(t)'
  BY DEF PwmInv, ServoSound
<1>3. ASSUME NEW t \in Servos, NEW d \in Channels, servo'[t].pin # NoPin, d = ChannelOf(servo'[t].pin)
      PROVE  \/ servo'[t] = servo[t] /\ Same(d) /\ tenant'[d] = tenant[d]
             \/ Drives(t, d)'
  <2>1. CASE t = s
    BY <1>3, <2>1
  <2>2. CASE t # s
    <3>1. servo'[t] = servo[t]
      BY <2>2
    <3>2. CASE pwm'[d].active /\ pwm'[d].owner = "SERVO" => tenant'[d] = s
      BY <2>2, <3>2 DEF Drives
    <3>3. QED
      BY <3>1, <3>2
  <2>3. QED
    BY <2>1, <2>2
<1>4. QED
  BY <1>1, <1>2, <1>3, StepSound

-----------------------------------------------------------------------------
(* What the driver's functions do to one channel and leave of the others *)

\* What a set-up that succeeds does to its channel, and leaves of the others.
SetUp(c, f, pulse, value, owner) ==
  /\ pwm'[c] = [frequency |-> f, value |-> value, active |-> TRUE, owner |-> owner]
  /\ hw'[c] = [on |-> TRUE, frequency |-> f, pulse |-> pulse]
  /\ scale'[c] = bits
  /\ DriverTyped' /\ Matches(c)'
  /\ \A d \in Channels \ {c} : Same(d)

\* A set-up that succeeds.
LEMMA ConfiguredIs ==
  ASSUME TypeOK, NEW c \in Channels, NEW f \in 1 .. MaxFrequency, NEW pulse \in 0 .. 1000, NEW value \in Int,
         NEW owner \in {"ANALOG_WRITE", "SERVO"}, Configured(c, f, pulse, value, owner)
  PROVE  SetUp(c, f, pulse, value, owner)
<1> USE DEF Configured, TypeOK
<1>1. f \in 0 .. MaxFrequency
  BY FrequenciesValid
<1>2. hw' \in [Channels -> [on : BOOLEAN, frequency : 0 .. MaxFrequency, pulse : 0 .. 1000]]
  BY <1>1
<1>3. pwm' \in [Channels -> [frequency : 1 .. MaxFrequency, value : Int, active : BOOLEAN,
                             owner : {"NONE", "ANALOG_WRITE", "SERVO"}]]
  OBVIOUS
<1>4. scale' \in [Channels -> 1 .. 16] /\ unsure' \subseteq Channels
  OBVIOUS
<1>5. pwm'[c] = [frequency |-> f, value |-> value, active |-> TRUE, owner |-> owner]
      /\ hw'[c] = [on |-> TRUE, frequency |-> f, pulse |-> pulse] /\ scale'[c] = bits
  OBVIOUS
<1>6. Matches(c)'
  BY <1>5 DEF Matches
<1>7. \A d \in Channels \ {c} : Same(d)
  BY DEF Same
<1>8. QED
  BY <1>2, <1>3, <1>4, <1>5, <1>6, <1>7 DEF DriverTyped, SetUp

\* A set-up that fails leaves the output as it was, and the channel inactive.
LEMMA ConfigureFailedIs ==
  ASSUME TypeOK, NEW c \in Channels, NEW f \in 1 .. MaxFrequency, ConfigureFailed(c, f)
  PROVE  /\ DriverTyped'
         /\ ~pwm'[c].active /\ pwm'[c].owner = pwm[c].owner
         /\ Matches(c)' /\ DutyRecorded(c)'
         /\ \A d \in Channels \ {c} : Same(d)
<1> USE DEF ConfigureFailed, TypeOK
<1>1. pwm[c] \in [frequency : 1 .. MaxFrequency, value : Int, active : BOOLEAN,
                  owner : {"NONE", "ANALOG_WRITE", "SERVO"}]
  OBVIOUS
<1>2. pwm'[c] = [pwm[c] EXCEPT !.frequency = f, !.active = FALSE] /\ \A d \in Channels \ {c} : pwm'[d] = pwm[d]
  OBVIOUS
<1>3. /\ pwm'[c] \in [frequency : 1 .. MaxFrequency, value : Int, active : BOOLEAN,
                      owner : {"NONE", "ANALOG_WRITE", "SERVO"}]
      /\ ~pwm'[c].active /\ pwm'[c].owner = pwm[c].owner
  BY <1>1, <1>2, Zenon
<1>4. pwm' \in [Channels -> [frequency : 1 .. MaxFrequency, value : Int, active : BOOLEAN,
                             owner : {"NONE", "ANALOG_WRITE", "SERVO"}]]
  <2>1. pwm' = [d \in Channels |-> pwm'[d]]
    BY Zenon
  <2>2. QED
    BY <1>2, <1>3, <2>1
<1>5. unsure' \subseteq Channels /\ c \in unsure' /\ \A d \in Channels \ {c} : d \in unsure' <=> d \in unsure
  OBVIOUS
<1>6. DriverTyped'
  BY <1>4, <1>5 DEF DriverTyped
<1>7. Matches(c)' /\ DutyRecorded(c)'
  BY <1>3, <1>5 DEF Matches, DutyRecorded
<1>8. \A d \in Channels \ {c} : Same(d)
  BY <1>2, <1>5 DEF Same
<1>9. QED
  BY <1>3, <1>6, <1>7, <1>8

\* A channel that is taken from PWM is off.
LEMMA PwmDetachIs ==
  ASSUME TypeOK, NEW c, c = NoChannel \/ c \in Channels, PwmDetach(c)
  PROVE  /\ DriverTyped'
         /\ \A d \in Channels : \/ Same(d)
                                \/ /\ ~pwm'[d].active /\ pwm'[d].owner = "NONE"
                                   /\ Matches(d)' /\ DutyRecorded(d)'
<1>1. CASE c \in Channels /\ pwm[c].active
  <2>1. hw' = [hw EXCEPT ![c] = Off] /\ pwm' = [pwm EXCEPT ![c].active = FALSE, ![c].owner = "NONE"]
        /\ UNCHANGED <<unsure, scale>>
    BY <1>1 DEF PwmDetach, NoChannel, Channels
  <2>2. pwm[c] \in [frequency : 1 .. MaxFrequency, value : Int, active : BOOLEAN,
                    owner : {"NONE", "ANALOG_WRITE", "SERVO"}]
    BY <1>1 DEF TypeOK
  <2>3. pwm'[c] = [pwm[c] EXCEPT !.active = FALSE, !.owner = "NONE"] /\ \A d \in Channels \ {c} : pwm'[d] = pwm[d]
    BY <1>1, <2>1 DEF TypeOK
  <2>4. ~pwm'[c].active /\ pwm'[c].owner = "NONE"
    BY <2>2, <2>3
  <2>5. pwm' \in [Channels -> [frequency : 1 .. MaxFrequency, value : Int, active : BOOLEAN,
                               owner : {"NONE", "ANALOG_WRITE", "SERVO"}]]
    <3> DEFINE Record == [frequency : 1 .. MaxFrequency, value : Int, active : BOOLEAN,
                          owner : {"NONE", "ANALOG_WRITE", "SERVO"}]
               idle == [pwm[c] EXCEPT !.active = FALSE, !.owner = "NONE"]
    <3>1. pwm' = [pwm EXCEPT ![c] = idle]
      BY <2>1, Zenon
    <3>2. idle \in Record
      BY <2>2
    <3>3. pwm \in [Channels -> Record]
      BY DEF TypeOK
    <3> HIDE DEF Record, idle
    <3>4. pwm' \in [Channels -> Record]
      BY <1>1, <3>1, <3>2, <3>3
    <3>5. QED
      BY <3>4 DEF Record
  <2>6. Off \in [on : BOOLEAN, frequency : 0 .. MaxFrequency, pulse : 0 .. 1000] /\ ~Off.on
    BY FrequenciesValid DEF Off
  <2>7. /\ hw' \in [Channels -> [on : BOOLEAN, frequency : 0 .. MaxFrequency, pulse : 0 .. 1000]]
        /\ hw'[c] = Off /\ \A d \in Channels \ {c} : hw'[d] = hw[d]
    BY <1>1, <2>1, <2>6 DEF TypeOK
  <2>8. DriverTyped'
    BY <2>1, <2>5, <2>7 DEF TypeOK, DriverTyped
  <2>9. Matches(c)' /\ DutyRecorded(c)'
    BY <2>4, <2>6, <2>7 DEF Matches, DutyRecorded
  <2>10. \A d \in Channels \ {c} : Same(d)
    BY <2>1, <2>3, <2>7 DEF Same
  <2>11. QED
    BY <2>4, <2>8, <2>9, <2>10
<1>2. CASE ~(c \in Channels /\ pwm[c].active)
  <2>1. UNCHANGED <<hw, pwm, unsure, scale>>
    BY <1>2 DEF PwmDetach
  <2>2. QED
    BY <2>1 DEF TypeOK, DriverTyped, Same
<1>3. QED
  BY <1>1, <1>2

-----------------------------------------------------------------------------
(* Every step keeps the invariant *)

\* pinMode and digitalWrite.
LEMMA PinModeOrWriteSound ==
  ASSUME PwmInv, NEW pin \in Pins, PinModeOrWrite(pin)
  PROVE  PwmInv'
<1>1. PwmDetach(ChannelOf(pin)) /\ UNCHANGED <<bits, servo, tenant>>
  BY DEF PinModeOrWrite
<1>2. PICK c : c = ChannelOf(pin) /\ (c = NoChannel \/ c \in Channels)
  BY ChannelOfPin
<1>3. /\ DriverTyped'
      /\ \A d \in Channels : \/ Same(d)
                             \/ /\ ~pwm'[d].active /\ pwm'[d].owner = "NONE"
                                /\ Matches(d)' /\ DutyRecorded(d)'
  BY <1>1, <1>2, PwmDetachIs DEF PwmInv
<1>4. bits' \in 1 .. 16
  BY <1>1 DEF PwmInv, TypeOK
<1>5. QED
  BY <1>1, <1>3, <1>4, PinStepSound

\* A set-up of a channel for analogWrite, which may fail.
LEMMA SetUpSound ==
  ASSUME PwmInv, NEW c \in Channels, NEW f \in 1 .. MaxFrequency, NEW value \in Int,
         UNCHANGED <<bits, servo, tenant>>, pwm[c].owner # "SERVO" \/ f = pwm[c].frequency,
         \/ Configured(c, f, ValueToPulse(value), value, "ANALOG_WRITE")
         \/ ConfigureFailed(c, f)
  PROVE  PwmInv'
<1>1. TypeOK /\ bits \in 1 .. 16 /\ bits' \in 1 .. 16
  BY DEF PwmInv, TypeOK
<1>2. CASE Configured(c, f, ValueToPulse(value), value, "ANALOG_WRITE")
  <2>1. PICK pulse \in 0 .. 1000 : pulse = ValueToPulse(value) /\ pulse = PulseAt(value, bits)
    BY <1>1, PulseOfNow, PulseIsPermille, ZenonT(30)
  <2>2. "ANALOG_WRITE" \in {"ANALOG_WRITE", "SERVO"} /\ TypeOK /\ Configured(c, f, pulse, value, "ANALOG_WRITE")
    BY <1>1, <1>2, <2>1
  <2>3. SetUp(c, f, pulse, value, "ANALOG_WRITE")
    BY <2>1, <2>2, ConfiguredIs, ZenonT(30)
  <2>4. DutyRecorded(c)' /\ pwm'[c].owner # "SERVO"
    BY <2>1, <2>3 DEF DutyRecorded, SetUp
  <2>5. QED
    BY <1>1, <2>3, <2>4, PinStepSound DEF SetUp
<1>3. CASE ConfigureFailed(c, f)
  BY <1>1, <1>3, ConfigureFailedIs, PinStepSound
<1>4. QED
  BY <1>2, <1>3

\* analogWrite.
LEMMA AnalogWriteSound ==
  ASSUME PwmInv, NEW pin \in Pins, NEW v \in Values, AnalogWrite(pin, v)
  PROVE  PwmInv'
<1>1. v \in Int
  BY PwmAssumption
<1>2. PICK c : c = ChannelOf(pin) /\ (c = NoChannel \/ c \in Channels)
  BY ChannelOfPin
<1>3. /\ \/ PwmDetach(c)
         \/ /\ c # NoChannel
            /\ \/ Configured(c, pwm[c].frequency, ValueToPulse(v), v, "ANALOG_WRITE")
               \/ ConfigureFailed(c, pwm[c].frequency)
      /\ UNCHANGED <<bits, servo, tenant>>
  BY <1>2 DEF AnalogWrite
<1>4. CASE PwmDetach(c)
  BY <1>2, <1>3, <1>4, PinModeOrWriteSound DEF PinModeOrWrite
<1>5. CASE /\ c # NoChannel
           /\ \/ Configured(c, pwm[c].frequency, ValueToPulse(v), v, "ANALOG_WRITE")
              \/ ConfigureFailed(c, pwm[c].frequency)
  <2>1. c \in Channels /\ pwm[c].frequency \in 1 .. MaxFrequency
    BY <1>2, <1>5 DEF PwmInv, TypeOK
  <2>2. QED
    BY <1>1, <1>3, <1>5, <2>1, SetUpSound
<1>6. QED
  BY <1>3, <1>4, <1>5

\* analogWriteResolution.
LEMMA AnalogWriteResolutionSound ==
  ASSUME PwmInv, NEW b \in Resolutions, AnalogWriteResolution(b)
  PROVE  PwmInv'
<1>1. UNCHANGED <<pwm, servo, hw, unsure, scale, tenant>> /\ bits' = Clamp(b, 1, 16)
  BY DEF AnalogWriteResolution
<1>2. b \in Int
  BY PwmAssumption
<1>3. bits' \in 1 .. 16
  <2>1. Clamp(b, 1, 16) \in Int /\ 1 <= Clamp(b, 1, 16) /\ Clamp(b, 1, 16) <= 16
    BY <1>2 DEF Clamp
  <2>2. QED
    BY <1>1, <2>1
<1>4. DriverTyped' /\ \A d \in Channels : Same(d)
  BY <1>1 DEF PwmInv, TypeOK, DriverTyped, Same
<1>5. QED
  BY <1>1, <1>3, <1>4, PinStepSound

\* A frequency that is accepted is one that fits.
LEMMA ValidIsInRange == \A f \in Frequencies : ValidFrequency(f) => f \in 1 .. MaxFrequency
BY PwmAssumption, FrequenciesValid DEF ValidFrequency

\* analogWriteFrequency of a pin.
LEMMA FrequencyPinSound ==
  ASSUME PwmInv, NEW pin \in Pins, NEW f \in Frequencies, AnalogWriteFrequencyPin(pin, f)
  PROVE  PwmInv'
<1>1. f \in 1 .. MaxFrequency
  BY ValidIsInRange DEF AnalogWriteFrequencyPin
<1>2. PICK c \in Channels : c = ChannelOf(pin)
  BY ChannelOfPin DEF AnalogWriteFrequencyPin
<1>3. /\ UNCHANGED <<bits, servo, tenant>> /\ pwm[c].owner # "SERVO"
      /\ IF pwm[c].active
         THEN \/ Configured(c, f, ValueToPulse(pwm[c].value), pwm[c].value, "ANALOG_WRITE")
              \/ ConfigureFailed(c, f)
         ELSE pwm' = [pwm EXCEPT ![c].frequency = f] /\ UNCHANGED <<hw, unsure, scale>>
  BY <1>2 DEF AnalogWriteFrequencyPin
<1>4. CASE pwm[c].active
  <2>1. pwm[c].value \in Int
    BY DEF PwmInv, TypeOK
  <2>2. QED
    BY <1>1, <1>3, <1>4, <2>1, SetUpSound
<1>5. CASE ~pwm[c].active
  <2>1. pwm' = [pwm EXCEPT ![c].frequency = f] /\ UNCHANGED <<hw, unsure, scale>>
    BY <1>3, <1>5
  <2>2. DriverTyped'
    <3>1. \A d \in Channels : pwm[d] \in [frequency : 1 .. MaxFrequency, value : Int, active : BOOLEAN,
                                          owner : {"NONE", "ANALOG_WRITE", "SERVO"}]
      BY DEF PwmInv, TypeOK
    <3>2. pwm' = [pwm EXCEPT ![c] = [pwm[c] EXCEPT !.frequency = f]]
      BY <2>1
    <3>3. [pwm[c] EXCEPT !.frequency = f] \in [frequency : 1 .. MaxFrequency, value : Int, active : BOOLEAN,
                                               owner : {"NONE", "ANALOG_WRITE", "SERVO"}]
      BY <1>1, <3>1
    <3>4. pwm' \in [Channels -> [frequency : 1 .. MaxFrequency, value : Int, active : BOOLEAN,
                                owner : {"NONE", "ANALOG_WRITE", "SERVO"}]]
      BY <3>2, <3>3 DEF PwmInv, TypeOK
    <3>5. QED
      BY <2>1, <3>4 DEF PwmInv, TypeOK, DriverTyped
  <2>3. \A d \in Channels \ {c} : Same(d)
    BY <2>1 DEF PwmInv, TypeOK, Same
  <2>4. ~pwm'[c].active /\ UNCHANGED <<hw, unsure, scale>>
    BY <1>5, <2>1 DEF PwmInv, TypeOK
  <2>5. Matches(c)' /\ DutyRecorded(c)'
    BY <1>5, <2>4 DEF PwmInv, Matches, DutyRecorded
  <2>6. bits' \in 1 .. 16
    BY <1>3 DEF PwmInv, TypeOK
  <2>7. QED
    BY <1>3, <2>2, <2>3, <2>4, <2>5, <2>6, PinStepSound
<1>6. QED
  BY <1>4, <1>5

\* analogWriteFrequency of every pin: channels whose set-up fails go on as before.
LEMMA FrequencyAllSound ==
  ASSUME PwmInv, NEW f \in Frequencies, AnalogWriteFrequencyAll(f)
  PROVE  PwmInv'
<1>1. f \in 1 .. MaxFrequency /\ f \in 0 .. MaxFrequency
  <2>1. f \in 1 .. MaxFrequency
    BY ValidIsInRange DEF AnalogWriteFrequencyAll
  <2>2. QED
    BY <2>1, FrequenciesValid
<1> DEFINE open    == {c \in Channels : pwm[c].owner # "SERVO"}
           running == {c \in Channels : pwm[c].active /\ pwm[c].owner = "ANALOG_WRITE"}
<1>2. PICK failed \in SUBSET running :
        /\ pwm' = [c \in Channels |->
             IF c \in open
             THEN [pwm[c] EXCEPT !.frequency = f, !.active = @ /\ c \notin failed]
             ELSE pwm[c]]
        /\ hw' = [c \in Channels |->
             IF c \in running \ failed
             THEN [on |-> TRUE, frequency |-> f, pulse |-> ValueToPulse(pwm[c].value)]
             ELSE hw[c]]
        /\ unsure' = (unsure \ running) \cup failed
        /\ scale' = [c \in Channels |-> IF c \in running \ failed THEN bits ELSE scale[c]]
  BY DEF AnalogWriteFrequencyAll
<1>3. UNCHANGED <<bits, servo, tenant>>
  BY DEF AnalogWriteFrequencyAll
<1>4. TypeOK /\ bits \in 1 .. 16 /\ bits' \in 1 .. 16
  BY <1>3 DEF PwmInv, TypeOK
<1>5. ASSUME NEW c \in Channels
      PROVE  ValueToPulse(pwm[c].value) \in 0 .. 1000 /\ ValueToPulse(pwm[c].value) = PulseAt(pwm[c].value, bits)
  <2>1. PICK value \in Int : value = pwm[c].value
    BY <1>4 DEF TypeOK
  <2>2. ValueToPulse(value) = PulseAt(value, bits)
    BY PulseOfNow
  <2>3. PulseAt(value, bits) \in 0 .. 1000
    BY <1>4, PulseIsPermille, ZenonT(30)
  <2>4. QED
    BY <2>1, <2>2, <2>3
<1>6. ASSUME NEW c \in Channels
      PROVE  /\ pwm'[c] \in [frequency : 1 .. MaxFrequency, value : Int, active : BOOLEAN,
                             owner : {"NONE", "ANALOG_WRITE", "SERVO"}]
             /\ pwm'[c].owner = pwm[c].owner /\ pwm'[c].value = pwm[c].value
             /\ c \notin open => pwm'[c] = pwm[c]
             /\ c \in open => pwm'[c].frequency = f /\ (pwm'[c].active <=> pwm[c].active /\ c \notin failed)
  <2>1. pwm[c] \in [frequency : 1 .. MaxFrequency, value : Int, active : BOOLEAN,
                    owner : {"NONE", "ANALOG_WRITE", "SERVO"}]
    BY <1>4 DEF TypeOK
  <2>2. CASE c \notin open
    <3>1. pwm'[c] = pwm[c]
      BY <1>2, <2>2
    <3>2. QED
      BY <2>1, <2>2, <3>1
  <2>3. CASE c \in open
    <3>1. pwm'[c] = [pwm[c] EXCEPT !.frequency = f, !.active = @ /\ c \notin failed]
      BY <1>2, <2>3
    <3>2. QED
      BY <1>1, <2>1, <2>3, <3>1
  <2>4. QED
    BY <2>2, <2>3
<1>7. DriverTyped'
  <2>1. pwm' \in [Channels -> [frequency : 1 .. MaxFrequency, value : Int, active : BOOLEAN,
                               owner : {"NONE", "ANALOG_WRITE", "SERVO"}]]
    <3>1. pwm' = [c \in Channels |-> pwm'[c]]
      BY <1>2
    <3>2. QED
      BY <1>6, <3>1
  <2>2. hw' \in [Channels -> [on : BOOLEAN, frequency : 0 .. MaxFrequency, pulse : 0 .. 1000]]
    <3>1. \A c \in Channels : hw[c] \in [on : BOOLEAN, frequency : 0 .. MaxFrequency, pulse : 0 .. 1000]
      BY <1>4 DEF TypeOK
    <3> HIDE DEF running
    <3>2. ASSUME NEW c \in Channels
          PROVE  hw'[c] \in [on : BOOLEAN, frequency : 0 .. MaxFrequency, pulse : 0 .. 1000]
      <4>1. CASE c \in running \ failed
        <5>1. hw'[c] = [on |-> TRUE, frequency |-> f, pulse |-> ValueToPulse(pwm[c].value)]
          BY <1>2, <4>1
        <5>2. QED
          BY <1>1, <1>5, <5>1, SMTT(30)
      <4>2. CASE c \notin running \ failed
        <5>1. hw'[c] = hw[c]
          BY <1>2, <4>2
        <5>2. QED
          BY <3>1, <5>1
      <4>3. QED
        BY <4>1, <4>2
    <3>3. hw' = [c \in Channels |-> hw'[c]]
      BY <1>2
    <3>4. QED
      BY <3>2, <3>3
  <2>3. scale' \in [Channels -> 1 .. 16] /\ unsure' \subseteq Channels
    <3>1. scale \in [Channels -> 1 .. 16] /\ unsure \subseteq Channels /\ running \subseteq Channels
      BY <1>4 DEF TypeOK
    <3> HIDE DEF running
    <3>2. QED
      BY <1>2, <1>4, <3>1
  <2>4. QED
    BY <2>1, <2>2, <2>3 DEF DriverTyped
<1>8. ASSUME NEW d \in Channels
      PROVE  Same(d) \/ (/\ Matches(d)' /\ DutyRecorded(d)'
                         /\ (pwm'[d].active => pwm'[d].owner # "SERVO"))
  <2>1. Matches(d) /\ DutyRecorded(d)
    BY DEF PwmInv
  <2>2. CASE d \notin open
    <3>1. pwm'[d] = pwm[d]
      BY <1>6, <2>2
    <3>2. d \notin running
      BY <2>2
    <3>3. hw'[d] = hw[d] /\ scale'[d] = scale[d] /\ (d \in unsure' <=> d \in unsure)
      BY <1>2, <3>2
    <3>4. QED
      BY <3>1, <3>3 DEF Same
  <2>3. CASE d \in running \ failed
    <3>1. /\ pwm'[d].frequency = f /\ pwm'[d].owner = "ANALOG_WRITE" /\ pwm'[d].value = pwm[d].value
          /\ pwm'[d].active
      BY <1>6, <2>3
    <3>2. hw'[d] = [on |-> TRUE, frequency |-> f, pulse |-> ValueToPulse(pwm[d].value)] /\ scale'[d] = bits
      BY <1>2, <2>3
    <3>3. Matches(d)'
      BY <3>1, <3>2 DEF Matches
    <3>4. DutyRecorded(d)'
      BY <1>5, <3>1, <3>2 DEF DutyRecorded
    <3>5. QED
      BY <3>1, <3>3, <3>4
  <2>4. CASE d \in open /\ (d \in running => d \in failed)
    <3>1. hw'[d] = hw[d] /\ (d \in unsure' <=> d \in unsure \/ d \in failed)
      BY <1>2, <2>4
    <3>2. ~pwm'[d].active
      BY <1>6, <2>1, <2>4 DEF Matches
    <3>3. hw[d].on => d \in unsure'
      BY <1>6, <2>1, <2>4, <3>1 DEF Matches
    <3>4. Matches(d)' /\ DutyRecorded(d)'
      BY <3>1, <3>2, <3>3 DEF Matches, DutyRecorded
    <3>5. QED
      BY <3>2, <3>4
  <2>5. QED
    BY <2>2, <2>3, <2>4
<1>9. QED
  BY <1>3, <1>4, <1>7, <1>8, PinStepSound

\* A Servo object's state, with a pulse in its range.
ServoRecord(r) ==
  /\ r \in [pin : Int, min : Int, max : Int, pulse : Int]
  /\ r.min > 0 /\ r.max > 0 /\ r.pulse > 0
  /\ r.min <= r.max => r.min <= r.pulse /\ r.pulse <= r.max

\* A Servo that ends up without a pin, and perhaps a channel that no one runs.
LEMMA ServoWithoutPin ==
  ASSUME PwmInv, NEW s \in Servos, NEW r, ServoRecord(r), r.pin = NoPin,
         servo' = [servo EXCEPT ![s] = r], UNCHANGED <<bits, tenant>>, DriverTyped',
         \A d \in Channels : Same(d) \/ (Matches(d)' /\ DutyRecorded(d)' /\ ~pwm'[d].active)
  PROVE  PwmInv'
<1>1. /\ servo' \in [Servos -> [pin : Int, min : Int, max : Int, pulse : Int]]
      /\ servo'[s] = r /\ \A t \in Servos \ {s} : servo'[t] = servo[t]
  BY DEF PwmInv, TypeOK, ServoRecord
<1>2. ServoSound(s)'
  BY <1>1 DEF ServoSound, ServoRecord
<1>3. tenant' \in [Channels -> Servos \cup {NoServo}]
  BY DEF PwmInv, TypeOK
<1>4. QED
  BY <1>1, <1>2, <1>3, ServoStepSound

\* A Servo that sets up its channel.
LEMMA ServoSetUpSound ==
  ASSUME PwmInv, NEW s \in Servos, NEW r, ServoRecord(r), r.pin \in Pins, r.pin # NoPin,
         NEW c \in Channels, c = ChannelOf(r.pin),
         Configured(c, ServoFrequency, ServoPermille(r.pulse), r.pulse, "SERVO"),
         servo' = [servo EXCEPT ![s] = r], tenant' = [tenant EXCEPT ![c] = s], UNCHANGED bits
  PROVE  PwmInv'
<1>1. /\ servo' \in [Servos -> [pin : Int, min : Int, max : Int, pulse : Int]]
      /\ servo'[s] = r /\ \A t \in Servos \ {s} : servo'[t] = servo[t]
  BY DEF PwmInv, TypeOK, ServoRecord
<1>2. r.pulse \in Int /\ ServoPermille(r.pulse) \in 0 .. 1000 /\ ServoFrequency \in 1 .. MaxFrequency
  BY ServoIsPermille, FrequenciesValid DEF ServoRecord
<1>3. SetUp(c, ServoFrequency, ServoPermille(r.pulse), r.pulse, "SERVO")
  <2>1. TypeOK /\ "SERVO" \in {"ANALOG_WRITE", "SERVO"}
    BY DEF PwmInv
  <2>2. QED
    BY <1>2, <2>1, ConfiguredIs, ZenonT(30)
<1>4. c # NoChannel
  BY DEF Channels
<1>5. ServoSound(s)'
  BY <1>1, <1>4 DEF ServoSound, ServoRecord
<1>6. /\ tenant' \in [Channels -> Servos \cup {NoServo}]
      /\ tenant'[c] = s /\ \A d \in Channels \ {c} : tenant'[d] = tenant[d]
  BY DEF PwmInv, TypeOK
<1>7. /\ pwm'[c].owner = "SERVO" /\ Matches(c)' /\ DriverTyped' /\ \A d \in Channels \ {c} : Same(d)
      /\ hw'[c] = [on |-> TRUE, frequency |-> ServoFrequency, pulse |-> ServoPermille(r.pulse)]
  BY <1>3 DEF SetUp
<1>8. DutyRecorded(c)' /\ Drives(s, c)'
  BY <1>1, <1>7 DEF DutyRecorded, Drives
<1>9. QED
  BY <1>1, <1>5, <1>6, <1>7, <1>8, ServoStepSound

\* A Servo whose set-up fails, which leaves it without a pin.
LEMMA ServoSetUpFails ==
  ASSUME PwmInv, NEW s \in Servos, NEW r, ServoRecord(r), r.pin = NoPin, NEW c \in Channels,
         ConfigureFailed(c, pwm[c].frequency), servo' = [servo EXCEPT ![s] = r], UNCHANGED <<bits, tenant>>
  PROVE  PwmInv'
<1>1. TypeOK /\ pwm[c].frequency \in 1 .. MaxFrequency
  BY DEF PwmInv, TypeOK
<1>2. DriverTyped' /\ ~pwm'[c].active /\ Matches(c)' /\ DutyRecorded(c)' /\ \A d \in Channels \ {c} : Same(d)
  BY <1>1, ConfigureFailedIs
<1>3. QED
  BY <1>2, ServoWithoutPin

\* A Servo that no longer has a pin, with the channels as they were.
LEMMA ServoLeaves ==
  ASSUME PwmInv, NEW s \in Servos, NEW r, ServoRecord(r), r.pin = NoPin,
         servo' = [servo EXCEPT ![s] = r], UNCHANGED <<bits, tenant, pwm, hw, unsure, scale>>
  PROVE  PwmInv'
<1>1. DriverTyped' /\ \A d \in Channels : Same(d)
  BY DEF PwmInv, TypeOK, DriverTyped, Same
<1>2. QED
  BY <1>1, ServoWithoutPin

\* A Servo of the invariant is one, and stays one when it gives up its pin.
LEMMA ServoIsRecord ==
  ASSUME PwmInv, NEW s \in Servos
  PROVE  /\ ServoRecord(servo[s])
         /\ \A r : r = [servo[s] EXCEPT !.pin = NoPin] => ServoRecord(r) /\ r.pin = NoPin
         /\ \A f : f = [servo EXCEPT ![s].pin = NoPin] => f = [servo EXCEPT ![s] = [servo[s] EXCEPT !.pin = NoPin]]
<1>1. servo \in [Servos -> [pin : Int, min : Int, max : Int, pulse : Int]] /\ ServoSound(s)
  BY DEF PwmInv, TypeOK
<1>2. ServoRecord(servo[s])
  BY <1>1 DEF ServoSound, ServoRecord
<1>3. \A r : r = [servo[s] EXCEPT !.pin = NoPin] => ServoRecord(r) /\ r.pin = NoPin
  BY <1>2 DEF ServoRecord, NoPin
<1>4. \A f : f = [servo EXCEPT ![s].pin = NoPin] => f = [servo EXCEPT ![s] = [servo[s] EXCEPT !.pin = NoPin]]
  BY <1>1
<1>5. QED
  BY <1>2, <1>3, <1>4

\* attach: the Servo's channel runs for it, or the Servo has no pin.
LEMMA ServoAttachSound ==
  ASSUME PwmInv, NEW s \in Servos, NEW pin \in Pins, NEW range \in PulseRanges, ServoAttach(s, pin, range)
  PROVE  PwmInv'
<1> DEFINE min   == IF range[1] <= 0 THEN MinPulse ELSE range[1]
           max   == IF range[2] <= min THEN MaxPulse ELSE range[2]
           pulse == Clamp(servo[s].pulse, min, max)
           c     == ChannelOf(pin)
           With(p) == [pin |-> p, min |-> min, max |-> max, pulse |-> pulse]
<1>1. /\ UNCHANGED bits
      /\ \/ pin < 0 /\ Unattached(s) /\ UNCHANGED <<pwm, hw, unsure, scale, tenant>>
         \/ servo' = [servo EXCEPT ![s] = With(NoPin)] /\ UNCHANGED <<pwm, hw, unsure, scale, tenant>>
         \/ /\ c # NoChannel /\ ConfigureFailed(c, pwm[c].frequency) /\ UNCHANGED tenant
            /\ servo' = [servo EXCEPT ![s] = With(NoPin)]
         \/ /\ pin >= 0 /\ c # NoChannel /\ Configured(c, ServoFrequency, ServoPermille(pulse), pulse, "SERVO")
            /\ servo' = [servo EXCEPT ![s] = With(pin)] /\ tenant' = [tenant EXCEPT ![c] = s]
  BY DEF ServoAttach
<1>2. c \in Channels \/ c = NoChannel
  BY ChannelOfPin
<1>3. pin \in Int /\ NoPin \in Int /\ (pin >= 0 => pin # NoPin)
  BY PwmAssumption DEF NoPin
<1>4. /\ min \in Int /\ min > 0 /\ max \in Int /\ max > 0 /\ pulse \in Int /\ pulse > 0
      /\ min <= max => min <= pulse /\ pulse <= max
  <2>1. range[1] \in Int /\ range[2] \in Int
    BY PwmAssumption
  <2>2. servo[s].pulse \in Int /\ servo[s].pulse > 0
    BY ServoIsRecord DEF ServoRecord
  <2>3. min \in Int /\ min > 0
    BY <2>1 DEF MinPulse
  <2>4. max \in Int /\ max > 0
    BY <2>1, <2>3 DEF MaxPulse
  <2> HIDE DEF min, max
  <2>5. QED
    BY <2>2, <2>3, <2>4 DEF Clamp
<1>5. \A p \in Int : ServoRecord(With(p)) /\ With(p).pin = p /\ With(p).pulse = pulse
  <2> HIDE DEF min, max, pulse
  <2>1. QED
    BY <1>4 DEF ServoRecord
<1> HIDE DEF min, max, pulse, c, With
<1>6. CASE pin < 0 /\ Unattached(s) /\ UNCHANGED <<pwm, hw, unsure, scale, tenant>>
  BY <1>1, <1>6, ServoIsRecord, ServoLeaves DEF Unattached
<1>7. CASE servo' = [servo EXCEPT ![s] = With(NoPin)] /\ UNCHANGED <<pwm, hw, unsure, scale, tenant>>
  BY <1>1, <1>3, <1>5, <1>7, ServoLeaves
<1>8. CASE /\ c # NoChannel /\ ConfigureFailed(c, pwm[c].frequency) /\ UNCHANGED tenant
           /\ servo' = [servo EXCEPT ![s] = With(NoPin)]
  BY <1>1, <1>2, <1>3, <1>5, <1>8, ServoSetUpFails
<1>9. CASE /\ pin >= 0 /\ c # NoChannel /\ Configured(c, ServoFrequency, ServoPermille(pulse), pulse, "SERVO")
           /\ servo' = [servo EXCEPT ![s] = With(pin)] /\ tenant' = [tenant EXCEPT ![c] = s]
  <2>1. PICK r : r = With(pin)
    OBVIOUS
  <2>2. ServoRecord(r) /\ r.pin = pin /\ r.pulse = pulse
    BY <1>3, <1>5, <2>1
  <2>3. c = ChannelOf(r.pin)
    BY <2>2 DEF c
  <2>4. QED
    BY <1>1, <1>2, <1>3, <1>9, <2>1, <2>2, <2>3, ServoSetUpSound
<1>10. QED
  BY <1>1, <1>6, <1>7, <1>8, <1>9

\* detach: the channel is off, whoever ran it.
LEMMA ServoDetachSound ==
  ASSUME PwmInv, NEW s \in Servos, ServoDetach(s)
  PROVE  PwmInv'
<1>1. /\ servo[s].pin # NoPin /\ PwmDetach(ChannelOf(servo[s].pin)) /\ UNCHANGED <<bits, tenant>>
      /\ servo' = [servo EXCEPT ![s].pin = NoPin]
  BY DEF ServoDetach, Unattached
<1>2. PICK c \in Channels : c = ChannelOf(servo[s].pin)
  BY <1>1, ChannelOfPin DEF PwmInv, ServoSound
<1>3. /\ DriverTyped'
      /\ \A d \in Channels : Same(d) \/ (Matches(d)' /\ DutyRecorded(d)' /\ ~pwm'[d].active)
  BY <1>1, <1>2, PwmDetachIs DEF PwmInv
<1>4. QED
  BY <1>1, <1>3, ServoIsRecord, ServoWithoutPin

\* An angle is turned into a number.
LEMMA AngleIsPulse ==
  ASSUME NEW angle \in Int, NEW min \in Int, NEW max \in Int
  PROVE  AngleToPulse(angle, min, max) \in Int
<1>1. PICK a \in Int : a = Clamp(angle, 0, 180)
  BY DEF Clamp
<1>2. PICK p \in Int : p = (max - min) * a
  OBVIOUS
<1>3. AngleToPulse(angle, min, max) = min + (p + 90) \div 180
  BY <1>1, <1>2 DEF AngleToPulse
<1>4. QED
  BY <1>3

\* write: the Servo's channel runs for it, or the Servo has no pin any more.
LEMMA ServoWriteSound ==
  ASSUME PwmInv, NEW s \in Servos, NEW arg \in ServoArgs, ServoWrite(s, arg)
  PROVE  PwmInv'
<1> DEFINE us    == IF arg < MinPulse THEN AngleToPulse(arg, servo[s].min, servo[s].max) ELSE arg
           pulse == Clamp(us, servo[s].min, servo[s].max)
           With(p) == [servo[s] EXCEPT !.pulse = pulse, !.pin = p]
<1>1. ServoRecord(servo[s])
  BY ServoIsRecord
<1>2. servo[s].pin # NoPin /\ servo[s].pin \in Pins
  BY DEF ServoWrite, PwmInv, ServoSound
<1>3. PICK c \in Channels : c = ChannelOf(servo[s].pin)
  BY <1>2, ChannelOfPin DEF PwmInv, ServoSound
<1>4. /\ UNCHANGED bits
      /\ \/ /\ servo' = [servo EXCEPT ![s].pulse = pulse, ![s].pin = NoPin]
            /\ UNCHANGED <<pwm, hw, unsure, scale, tenant>>
         \/ /\ Configured(c, ServoFrequency, ServoPermille(pulse), pulse, "SERVO")
            /\ servo' = [servo EXCEPT ![s].pulse = pulse, ![s].pin = servo[s].pin]
            /\ tenant' = [tenant EXCEPT ![c] = s]
         \/ /\ ConfigureFailed(c, pwm[c].frequency) /\ UNCHANGED tenant
            /\ servo' = [servo EXCEPT ![s].pulse = pulse, ![s].pin = NoPin]
  BY <1>3 DEF ServoWrite
<1>5. us \in Int
  BY <1>1, PwmAssumption, AngleIsPulse DEF ServoRecord
<1> HIDE DEF us
<1>6. /\ pulse \in Int /\ pulse > 0
      /\ servo[s].min <= servo[s].max => servo[s].min <= pulse /\ pulse <= servo[s].max
  BY <1>1, <1>5 DEF ServoRecord, Clamp
<1> HIDE DEF pulse
<1>7. \A p \in Int : ServoRecord(With(p)) /\ With(p).pin = p /\ With(p).pulse = pulse
  BY <1>1, <1>6 DEF ServoRecord
<1>8. NoPin \in Int /\ servo[s].pin \in Int
  BY <1>1 DEF ServoRecord, NoPin
<1>9. \A p \in Int : [servo EXCEPT ![s].pulse = pulse, ![s].pin = p] = [servo EXCEPT ![s] = With(p)]
  BY ZenonT(30) DEF PwmInv, TypeOK
<1> HIDE DEF With
<1>10. CASE /\ servo' = [servo EXCEPT ![s].pulse = pulse, ![s].pin = NoPin]
            /\ UNCHANGED <<pwm, hw, unsure, scale, tenant>>
  BY <1>4, <1>7, <1>8, <1>9, <1>10, ServoLeaves
<1>11. CASE /\ ConfigureFailed(c, pwm[c].frequency) /\ UNCHANGED tenant
            /\ servo' = [servo EXCEPT ![s].pulse = pulse, ![s].pin = NoPin]
  BY <1>4, <1>7, <1>8, <1>9, <1>11, ServoSetUpFails
<1>12. CASE /\ Configured(c, ServoFrequency, ServoPermille(pulse), pulse, "SERVO")
            /\ servo' = [servo EXCEPT ![s].pulse = pulse, ![s].pin = servo[s].pin]
            /\ tenant' = [tenant EXCEPT ![c] = s]
  <2>1. PICK r : r = With(servo[s].pin)
    OBVIOUS
  <2>2. ServoRecord(r) /\ r.pin = servo[s].pin /\ r.pulse = pulse
    BY <1>7, <1>8, <2>1
  <2>3. servo' = [servo EXCEPT ![s] = r]
    BY <1>8, <1>9, <1>12, <2>1
  <2>4. QED
    BY <1>2, <1>3, <1>4, <1>12, <2>2, <2>3, ServoSetUpSound
<1>13. QED
  BY <1>4, <1>10, <1>11, <1>12

\* Every step.
LEMMA PwmStep == PwmInv /\ [Next]_vars => PwmInv'
<1> SUFFICES ASSUME PwmInv, [Next]_vars PROVE PwmInv'
  OBVIOUS
<1>1. CASE GenericCall
  BY <1>1, FrequencyPinSound, FrequencyAllSound, AnalogWriteResolutionSound, PinModeOrWriteSound, AnalogWriteSound
     DEF GenericCall, FrequencyChange
<1>2. CASE ServoCall
  BY <1>2, ServoAttachSound, ServoDetachSound, ServoWriteSound DEF ServoCall
<1>3. CASE UNCHANGED vars
  <2>1. DriverTyped' /\ \A d \in Channels : Same(d)
    BY <1>3 DEF vars, PwmInv, TypeOK, DriverTyped, Same
  <2>2. UNCHANGED <<servo, tenant>> /\ bits' \in 1 .. 16
    BY <1>3 DEF vars, PwmInv, TypeOK
  <2>3. QED
    BY <2>1, <2>2, PinStepSound
<1>4. QED
  BY <1>1, <1>2, <1>3 DEF Next

\* The invariant, for all pins, Servos and arguments.
THEOREM PwmInvariant == Spec => []PwmInv
<1>1. Init => PwmInv
  BY PwmInit
<1>2. QED
  BY <1>1, PwmStep, PTL DEF Spec

-----------------------------------------------------------------------------
(* The properties *)

\* Records, hardware and Servos always agree: a channel recorded as active has
\* an owner and outputs the recorded frequency, and a Servo whose attached() is
\* true, and that set up its channel last, sees its own pulse on the pin.
THEOREM ChannelsSound == Spec => []ChannelInv
<1>1. PwmInv => ChannelInv
  <2> SUFFICES ASSUME PwmInv PROVE ChannelInv
    OBVIOUS
  <2>1. TypeOK /\ RecordMatchesHardware
    BY DEF PwmInv, Matches, RecordMatchesHardware
  <2>2. ASSUME NEW s \in Servos, Attached(s), tenant[ChannelOf(servo[s].pin)] = s
        PROVE  /\ hw[ChannelOf(servo[s].pin)] = [on |-> TRUE, frequency |-> ServoFrequency,
                                                 pulse |-> ServoPermille(servo[s].pulse)]
               /\ servo[s].min <= servo[s].max =>
                    servo[s].min <= servo[s].pulse /\ servo[s].pulse <= servo[s].max
    <3>1. servo[s].pin # NoPin /\ ServoSound(s)
      BY <2>2 DEF Attached, PwmInv
    <3>2. PICK c \in Channels : c = ChannelOf(servo[s].pin)
      BY <3>1, ChannelOfPin DEF ServoSound
    <3>3. Drives(s, c)
      BY <3>1, <3>2 DEF PwmInv
    <3>4. QED
      BY <2>2, <3>1, <3>2, <3>3 DEF Attached, Drives, ServoSound
  <2>3. AttachedServoDrives
    BY <2>2 DEF AttachedServoDrives
  <2>4. QED
    BY <2>1, <2>3 DEF ChannelInv
<1>2. QED
  BY <1>1, PwmInvariant, PTL

\* A change of the frequency keeps what a channel outputs of its period, unless
\* the resolution has changed since the channel was set up.
THEOREM FrequencyChangeKeepsDuty == Spec => FrequencyKeepsDuty
<1>1. ASSUME PwmInv, FrequencyChange, NEW c \in Channels, hw[c].on, scale[c] = bits
      PROVE  hw'[c].pulse = hw[c].pulse
  <2>1. Matches(c) /\ DutyRecorded(c)
    BY <1>1 DEF PwmInv
  <2>2. pwm[c].active /\ pwm[c].owner = "ANALOG_WRITE" => hw[c].pulse = ValueToPulse(pwm[c].value)
    BY <1>1, <2>1, PulseOfNow DEF DutyRecorded
  <2>3. ASSUME NEW f \in Frequencies, AnalogWriteFrequencyAll(f)
        PROVE  hw'[c].pulse = hw[c].pulse
    <3>1. \/ hw'[c] = hw[c]
          \/ /\ pwm[c].active /\ pwm[c].owner = "ANALOG_WRITE"
             /\ hw'[c] = [on |-> TRUE, frequency |-> f, pulse |-> ValueToPulse(pwm[c].value)]
      BY <2>3 DEF AnalogWriteFrequencyAll
    <3>2. QED
      BY <2>2, <3>1
  <2>4. ASSUME NEW f \in Frequencies, NEW pin \in Pins, AnalogWriteFrequencyPin(pin, f)
        PROVE  hw'[c].pulse = hw[c].pulse
    <3>1. PICK d \in Channels : d = ChannelOf(pin)
      BY <2>4, ChannelOfPin DEF AnalogWriteFrequencyPin
    <3>2. pwm[d].active => pwm[d].owner = "ANALOG_WRITE"
      BY <1>1, <2>4, <3>1 DEF AnalogWriteFrequencyPin, PwmInv, TypeOK, Matches
    <3>3. \/ UNCHANGED hw
          \/ pwm[d].active /\ hw' = [hw EXCEPT ![d] = [on |-> TRUE, frequency |-> f, pulse |-> ValueToPulse(pwm[d].value)]]
      BY <2>4, <3>1 DEF AnalogWriteFrequencyPin, Configured, ConfigureFailed
    <3>4. CASE d = c
      BY <1>1, <2>2, <3>2, <3>3, <3>4 DEF PwmInv, TypeOK
    <3>5. CASE d # c
      BY <1>1, <3>3, <3>5 DEF PwmInv, TypeOK
    <3>6. QED
      BY <3>4, <3>5
  <2>5. QED
    BY <1>1, <2>3, <2>4 DEF FrequencyChange
<1>2. PwmInv => (FrequencyChange => \A c \in Channels : hw[c].on /\ scale[c] = bits => hw'[c].pulse = hw[c].pulse)
  BY <1>1
<1>3. QED
  BY <1>2, PwmInvariant, PTL DEF FrequencyKeepsDuty

\* Who runs a channel after the driver's functions.
LEMMA OwnerAfter ==
  ASSUME PwmInv, NEW c \in Channels
  PROVE  /\ \A d, f, p, v, o : Configured(d, f, p, v, o) => pwm'[c].owner = IF c = d THEN o ELSE pwm[c].owner
         /\ \A d, f : ConfigureFailed(d, f) => pwm'[c].owner = pwm[c].owner
         /\ \A d : PwmDetach(d) => pwm'[c].owner \in {"NONE", pwm[c].owner}
<1>1. pwm \in [Channels -> [frequency : 1 .. MaxFrequency, value : Int, active : BOOLEAN,
                            owner : {"NONE", "ANALOG_WRITE", "SERVO"}]]
  BY DEF PwmInv, TypeOK
<1>2. \A d, f, p, v, o : Configured(d, f, p, v, o) => pwm'[c].owner = IF c = d THEN o ELSE pwm[c].owner
  BY <1>1 DEF Configured
<1>3. \A d, f : ConfigureFailed(d, f) => pwm'[c].owner = pwm[c].owner
  BY <1>1 DEF ConfigureFailed
<1>4. \A d : PwmDetach(d) => pwm'[c].owner \in {"NONE", pwm[c].owner}
  BY <1>1 DEF PwmDetach
<1>5. QED
  BY <1>2, <1>3, <1>4

\* A Servo takes a channel from analogWrite by attach() only.
THEOREM TakeoverByAttachOnly == Spec => ServoRespectsTakeover
<1>1. ASSUME PwmInv, [Next]_vars, NEW c \in Channels, pwm[c].active, pwm[c].owner = "ANALOG_WRITE",
             pwm'[c].owner = "SERVO"
      PROVE  \E s \in Servos, pin \in Pins, range \in PulseRanges :
               ChannelOf(pin) = c /\ ServoAttach(s, pin, range)
  <2>1. \A d : ~PwmDetach(d)
    BY <1>1, OwnerAfter
  <2>2. \A d, f : ~ConfigureFailed(d, f)
    BY <1>1, OwnerAfter
  <2>3. \A d, f, p, v, o : Configured(d, f, p, v, o) => d = c /\ o = "SERVO"
    BY <1>1, OwnerAfter
  <2>4. pwm' # pwm
    BY <1>1
  <2>5. ASSUME NEW f \in Frequencies, AnalogWriteFrequencyAll(f) PROVE FALSE
    <3>1. pwm[c] \in [frequency : 1 .. MaxFrequency, value : Int, active : BOOLEAN,
                      owner : {"NONE", "ANALOG_WRITE", "SERVO"}]
      BY <1>1 DEF PwmInv, TypeOK
    <3>2. PICK failed :
            pwm'[c] = IF pwm[c].owner # "SERVO"
                      THEN [pwm[c] EXCEPT !.frequency = f, !.active = @ /\ c \notin failed]
                      ELSE pwm[c]
      BY <2>5 DEF AnalogWriteFrequencyAll
    <3>3. pwm'[c].owner = pwm[c].owner
      BY <3>1, <3>2
    <3>4. QED
      BY <1>1, <3>3
  <2>6. ASSUME NEW pin \in Pins, NEW f \in Frequencies, AnalogWriteFrequencyPin(pin, f) PROVE FALSE
    <3>1. pwm' = [pwm EXCEPT ![ChannelOf(pin)].frequency = f]
      BY <2>2, <2>3, <2>6 DEF AnalogWriteFrequencyPin
    <3>2. pwm'[c].owner = pwm[c].owner
      BY <3>1 DEF PwmInv, TypeOK
    <3>3. QED
      BY <1>1, <3>2
  <2>7. CASE GenericCall
    <3>1. \A pin \in Pins, v \in Values : ~AnalogWrite(pin, v)
      BY <2>1, <2>2, <2>3 DEF AnalogWrite
    <3>2. \A pin \in Pins : ~PinModeOrWrite(pin)
      BY <2>1 DEF PinModeOrWrite
    <3>3. \A b \in Resolutions : ~AnalogWriteResolution(b)
      BY <2>4 DEF AnalogWriteResolution
    <3>4. QED
      BY <2>5, <2>6, <2>7, <3>1, <3>2, <3>3 DEF GenericCall, FrequencyChange
  <2>8. ASSUME NEW s \in Servos, NEW pin \in Pins, NEW range \in PulseRanges, ServoAttach(s, pin, range)
        PROVE  ChannelOf(pin) = c
    BY <2>2, <2>3, <2>4, <2>8 DEF ServoAttach
  <2>9. ASSUME NEW s \in Servos, NEW arg \in ServoArgs, ServoWrite(s, arg) PROVE FALSE
    <3>1. CASE pwm[ChannelOf(servo[s].pin)].owner # "SERVO"
      BY <2>4, <2>9, <3>1 DEF ServoWrite
    <3>2. CASE pwm[ChannelOf(servo[s].pin)].owner = "SERVO"
      <4>1. \E d, f, p, v, o : Configured(d, f, p, v, o) /\ d = ChannelOf(servo[s].pin)
        BY <2>2, <2>9, <3>2 DEF ServoWrite
      <4>2. ChannelOf(servo[s].pin) = c
        BY <2>3, <4>1
      <4>3. QED
        BY <1>1, <3>2, <4>2
    <3>3. QED
      BY <3>1, <3>2
  <2>10. \A s \in Servos : ~ServoDetach(s)
    BY <2>1 DEF ServoDetach
  <2>11. CASE ServoCall
    BY <2>8, <2>9, <2>10, <2>11 DEF ServoCall
  <2>12. CASE UNCHANGED vars
    BY <2>4, <2>12 DEF vars
  <2>13. QED
    BY <1>1, <2>7, <2>11, <2>12 DEF Next
<1>2. PwmInv /\ [Next]_vars =>
        \A c \in Channels : pwm[c].active /\ pwm[c].owner = "ANALOG_WRITE" /\ pwm'[c].owner = "SERVO" =>
          \E s \in Servos, pin \in Pins, range \in PulseRanges : ChannelOf(pin) = c /\ ServoAttach(s, pin, range)
  BY <1>1
<1>3. QED
  BY <1>2, PwmInvariant, PTL DEF ServoRespectsTakeover, Spec
=============================================================================
