----------------------------- MODULE MCDubTrack -----------------------------
(* Instances of DubTrack for TLC. *)
EXTENDS DubTrack, TLC

CONSTANTS p1, p2, c1, c2

TwoProducers == {p1, p2}
OneProducer  == {p1}
HttpOnly     == {p2}
NoProducer   == {}
TwoCallers   == {c1, c2}
OneCaller    == {c1}
PlayOnly     == {"play"}

FileThenHttp == [p \in Producers |-> IF p = p1 THEN "file" ELSE "http"]
CallerSymmetry == Permutations(TwoCallers)
=============================================================================
