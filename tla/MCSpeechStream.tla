--------------------------- MODULE MCSpeechStream ---------------------------
(* The instance of SpeechStream for TLC: all ten modules.                  *)
EXTENDS SpeechStream
=============================================================================
