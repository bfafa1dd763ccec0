------------------------------ MODULE Playlist ------------------------------
(***************************************************************************)
(* What a track of mod_dub promises those who play on it, up to its        *)
(* removal: sounds are begun in the order they were asked for, one at a    *)
(* time; only the sound that plays fills the track's buffer, which has a   *)
(* limit; and the call takes out of the buffer what is in it.              *)
(***************************************************************************)
EXTENDS Naturals, Sequences

CONSTANTS
  Sounds,
  None,       \* no sound
  Capacity    \* chunks the buffer holds at most

VARIABLES
  open,       \* the track was not removed
  waiting,    \* the sounds asked for and not begun
  playing,    \* the sound that plays, or None
  buffered    \* chunks in the buffer

listVars == <<open, waiting, playing, buffered>>

Init == open = TRUE /\ waiting = <<>> /\ playing = None /\ buffered = 0

\* playOnTrack, sayOnTrack
Ask(s) ==
  /\ open
  /\ waiting' = Append(waiting, s)
  /\ UNCHANGED <<open, playing, buffered>>

\* The next sound's turn: it starts, or is passed over as it cannot.
Turn ==
  /\ playing = None /\ waiting # <<>>
  /\ waiting' = Tail(waiting)
  /\ playing' \in {Head(waiting), None}
  /\ UNCHANGED <<open, buffered>>

\* The sound has reported its end.
End ==
  /\ playing # None
  /\ playing' = None
  /\ UNCHANGED <<open, waiting, buffered>>

Fill ==
  /\ playing # None /\ buffered < Capacity
  /\ buffered' = buffered + 1
  /\ UNCHANGED <<open, waiting, playing>>

\* A frame is mixed into the call.
Drain ==
  /\ buffered' \in 0..buffered
  /\ UNCHANGED <<open, waiting, playing>>

\* The track is removed; what happens to its sounds is no longer promised here.
Close ==
  /\ open' = FALSE
  /\ waiting' = <<>> /\ playing' = None /\ buffered' = 0

Next == (\E s \in Sounds : Ask(s)) \/ Turn \/ End \/ Fill \/ Drain \/ Close

Spec == Init /\ [][Next]_listVars
=============================================================================
