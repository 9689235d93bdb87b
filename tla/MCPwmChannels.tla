---------------------------- MODULE MCPwmChannels ----------------------------
(* Instances of PwmChannels.  Pin 257 narrows to pin 1; pin 2 has no PWM.    *)
EXTENDS PwmChannels, TLC

CONSTANTS s1, s2

MCPins   == {-1, 1, 2, 257}
Interchangeable == Permutations({s1, s2})

\* attach(pin), and attach(pin, min, max) with a narrow range and with one that
\* ends up empty.
MCPulseRanges == {<<544, 2400>>, <<1600, 2000>>, <<2500, 2000>>}

=============================================================================
