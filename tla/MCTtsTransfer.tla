--------------------------- MODULE MCTtsTransfer ---------------------------
(* The instance of TtsTransfer for TLC: all seven modules, two utterances. *)
EXTENDS TtsTransfer
=============================================================================
