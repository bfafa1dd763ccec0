-------------------------- MODULE MCTranscribePipe --------------------------
(* The instance of TranscribePipe for TLC: all five modules, two pipes.     *)
EXTENDS TranscribePipe
=============================================================================
