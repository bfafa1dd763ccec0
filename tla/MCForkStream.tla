---------------------------- MODULE MCForkStream ----------------------------
(* Instances of ForkStream for TLC. *)
EXTENDS ForkStream

CONSTANTS stop, close

TwoCleaners == {stop, close}
OneCleaner  == {close}
BothModes   == {"stream", "play"}
StreamOnly  == {"stream"}
BothFactors == {1, 2}
NoResampler == {1}

\* A message of one sample; one whose sample looks like a marker.
PlainAudio == {<<0>>}
SomeAudio  == {<<0>>, <<-1>>}
=============================================================================
