------------------------- MODULE MCEffectSettings --------------------------
(* Instances of EffectSettings.                                              *)
EXTENDS EffectSettings

CONSTANTS speakers, headset

\* A chunk written by hand, with values between the levels and out of range,
\* and one as the plug-in writes it.
TwoPresets ==
    {[aec |-> 1, aecStrength |-> 3, noise |-> 0, noiseStrength |-> 2,
      endpoint |-> speakers],
     [aec |-> 2, aecStrength |-> 2, noise |-> 0, noiseStrength |-> 2,
      endpoint |-> headset]}

\* The Configuration Editor, whose host sets parameters back or not, and the
\* audio engine, where a chunk may be cut short or the worker be late.
FourHostings ==
    {[engine |-> FALSE, echoes |-> FALSE, cuts |-> FALSE, timely |-> TRUE],
     [engine |-> FALSE, echoes |-> TRUE, cuts |-> FALSE, timely |-> TRUE],
     [engine |-> TRUE, echoes |-> FALSE, cuts |-> FALSE, timely |-> FALSE],
     [engine |-> TRUE, echoes |-> FALSE, cuts |-> TRUE, timely |-> TRUE]}
=============================================================================
