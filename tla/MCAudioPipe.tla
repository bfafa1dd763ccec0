---------------------------- MODULE MCAudioPipe ----------------------------
(* Instances of AudioPipe for TLC. *)
EXTENDS AudioPipeProofs, TLC

CONSTANTS p1, p2, c1, c2

OnePipe    == {p1}
TwoPipes   == {p1, p2}
NoPipes    == {}
OneCaller  == {c1}
TwoCallers == {c1, c2}

\* Each connection under a bug name of its own.
OwnName  == [p \in Pipes |-> p]
\* Two sessions that use one bug name.
OneName  == [p \in Pipes |-> "bug"]

NoAudio     == {"text", "final", "close", "graceful"}
AudioAndClose == {"pcm", "close"}

CallerSymmetry == Permutations(TwoCallers)
=============================================================================
