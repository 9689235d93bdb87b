\* Two Servo objects and analogWrite on one channel, reached by pins 1 and 257;
\* pin 2 has no channel.
CONSTANTS
  s1 = s1
  s2 = s2
  Pins <- MCPins
  Servos = {s1, s2}
  NoServo = NoServo
  Values = {0, 128, 300}
  Resolutions = {8, 10}
  Frequencies = {5000}
  PulseRanges <- MCPulseRanges
  ServoArgs = {90, 9000}
SYMMETRY Interchangeable
SPECIFICATION Spec
INVARIANTS
  ChannelInv
PROPERTIES
  FrequencyKeepsDuty
  
