----------------------------- MODULE ForkStream -----------------------------
(***************************************************************************)
(* What a session of mod_audio_fork does with the messages its far end     *)
(* sends (lws_glue.cpp): audio with marks to play out into the call, or    *)
(* audio files to announce, up to the teardown of the session.             *)
(*                                                                         *)
(* The service thread takes a message in eventCallback: it looks the bug   *)
(* up and then runs the handler, without tech_pvt->mutex except around the *)
(* insertion into streamingPlayoutBuffer.  The media thread mixes that     *)
(* buffer into the call (dub_speech_frame) under the mutex, which          *)
(* fork_frame holds from time to time for the other direction.  API stop   *)
(* and the close of the channel each run fork_session_cleanup.             *)
(*                                                                         *)
(* A buffer is a sequence of samples: 0 is plain audio, k > 0 the marker   *)
(* that stands for mark k and Genuine an audio sample that happens to be   *)
(* 0xFFFF; the code cannot tell the last two apart.  Marks are numbered in *)
(* order of arrival.                                                       *)
(***************************************************************************)
EXTENDS Integers, Sequences, FiniteSets, SequencesExt

CONSTANTS
  Modes,        \* subset of {"stream", "play"}: bidirectional_audio_stream
  Factors,      \* values of downscale_factor: 1 is no resampler, 2 with one
  MAX_MARKS,
  HighMark,     \* streamingPreBufSize at first, in samples times the factor
  LowMark,      \* ... and once the first audio was played
  FrameSize,    \* samples mixed into one frame
  Audio,        \* sample sequences a binary message may carry
  Cleaners,     \* threads that may run fork_session_cleanup
  MaxMarks,     \* bound: marks the far end sends
  MaxFiles,     \* bound: playAudio messages
  MaxBuffered   \* bound: samples in streamingPreBuffer, and in the other one

ASSUME StreamAssumption ==
  /\ Modes \subseteq {"stream", "play"} /\ Factors \subseteq {1, 2}
  /\ MAX_MARKS \in Nat /\ HighMark \in Nat /\ LowMark \in Nat
  /\ FrameSize \in Nat /\ Audio \subseteq Seq({-1, 0})
  /\ MaxMarks \in Nat /\ MaxFiles \in Nat /\ MaxBuffered \in Nat

VARIABLES
  mode, factor,
  attached,     \* the bug is found under its name
  alive,        \* destroy_tech_pvt has not run
  marks,        \* marks received
  inventory, inUse, cleared,     \* pVecMarksInInventory, InUse, Cleared
  pre, playout, \* streamingPreBuffer, streamingPlayoutBuffer
  threshold,    \* streamingPreBufSize
  clearFlag,    \* clear_bidirectional_audio_buffer
  mutex,        \* "free", "read" (fork_frame) or "clear" (dub_speech_frame)
  svc,          \* where the service thread is and what it carries
  files,        \* tech_pvt->playout
  captured,     \* the list each cleanup took over
  onDisk,       \* temporary files that exist
  written,      \* temporary files ever written
  cleaner,      \* program counter of each cleanup
  reported,     \* history: marks in the order their events were sent
  disturbed,    \* history: audio was dropped or a sample may look like a marker
  faults        \* history: a freed streamingPreBuffer was used

sessionVars == <<mode, factor, attached, alive>>
markVars    == <<marks, inventory, inUse, cleared, reported>>
audioVars   == <<pre, playout, threshold, clearFlag>>
fileVars    == <<files, captured, onDisk, written>>
histVars    == <<disturbed, faults>>
vars == <<sessionVars, markVars, audioVars, mutex, svc, fileVars, cleaner, histVars>>

Genuine == -1
IsMarker(x) == x # 0                              \* *bufferIter == AUDIO_MARKER
Idle == [at |-> "idle", msg |-> "none", data |-> <<>>, left |-> <<>>]
Least(m, n) == IF m < n THEN m ELSE n
DropFirst(s, n) == SubSeq(s, n + 1, Len(s))

Init ==
  /\ mode \in Modes /\ factor \in Factors
  /\ attached = TRUE /\ alive = TRUE
  /\ marks = 0 /\ inventory = <<>> /\ inUse = <<>> /\ cleared = <<>>
  /\ reported = <<>>
  /\ pre = <<>> /\ playout = <<>> /\ threshold = HighMark * factor
  /\ clearFlag = FALSE /\ mutex = "free" /\ svc = Idle
  /\ files = {} /\ captured = [c \in Cleaners |-> {}] /\ onDisk = {} /\ written = 0
  /\ cleaner = [c \in Cleaners |-> "idle"]
  /\ disturbed = (factor # 1) /\ faults = {}

-----------------------------------------------------------------------------
(* The service thread.                                                     *)

\* eventCallback finds the bug; from here on nothing keeps it attached.
Receives(msg, data) ==
  /\ svc = Idle /\ attached
  /\ svc' = [Idle EXCEPT !.at = "found", !.msg = msg, !.data = data]
  /\ UNCHANGED <<sessionVars, markVars, audioVars, mutex, fileVars, cleaner, histVars>>

Receive ==
  \/ mode = "stream" /\ marks < MaxMarks /\ Receives("mark", <<>>)
  \/ mode = "stream" /\ \E kind \in {"clearMarks", "killAudio"} : Receives(kind, <<>>)
  \/ /\ mode = "stream"
     /\ \E a \in Audio : /\ Len(pre) + Len(a) + Len(inventory) <= MaxBuffered
                         /\ Receives("binary", a)
  \/ mode = "play" /\ written < MaxFiles /\ Receives("playAudio", <<>>)

Handles(msg) == svc.at = "found" /\ svc.msg = msg

MarkCountExceeded == Len(inUse) + Len(inventory) >= MAX_MARKS

\* "mark": queued until the next audio, or discarded.
TakeMark ==
  /\ Handles("mark")
  /\ svc' = Idle
  /\ marks' = marks + 1
  /\ inventory' = IF MarkCountExceeded THEN inventory ELSE Append(inventory, marks + 1)
  /\ UNCHANGED <<sessionVars, inUse, cleared, reported, audioVars, mutex, fileVars,
                 cleaner, histVars>>

\* "clearMarks": everything queued will pass without an event.
TakeClearMarks ==
  /\ Handles("clearMarks")
  /\ svc' = Idle
  /\ cleared' = cleared \o inUse \o inventory
  /\ inUse' = <<>> /\ inventory' = <<>>
  /\ disturbed' = TRUE
  /\ UNCHANGED <<sessionVars, marks, reported, audioVars, mutex, fileVars, cleaner, faults>>

\* "killAudio" leaves the clearing to the media thread.
TakeKillAudio ==
  /\ Handles("killAudio")
  /\ svc' = Idle
  /\ clearFlag' = TRUE
  /\ disturbed' = TRUE
  /\ UNCHANGED <<sessionVars, markVars, pre, playout, threshold, mutex, fileVars,
                 cleaner, faults>>

StillQueued == UNCHANGED inventory        \* mutation: the inventory is not cleared
NoneQueued == inventory' = <<>>
NewestFirst == inventory \o inUse         \* mutation: new marks at the front
InUseNow == inUse \o inventory

\* What a resampler makes of n samples: half as many, none of them a marker for
\* sure, any of them 0xFFFF by chance.
Resampled(n) == [1..(n \div 2) -> {0, Genuine}]

\* processIncomingBinary up to the trylock.  The marks' markers go in front of
\* the new audio; what is below the threshold waits for more.  A prebuffer that
\* is gone is used all the same.
TakeBinary ==
  /\ Handles("binary") /\ alive
  /\ inUse' = InUseNow /\ NoneQueued
  /\ disturbed' = (disturbed \/ Genuine \in ToSet(svc.data))
  /\ LET buffer   == pre \o inventory \o svc.data
         complete == (Len(buffer) \div factor) * factor
     IN IF Len(buffer) < threshold
        THEN pre' = buffer /\ svc' = Idle /\ UNCHANGED threshold
        ELSE /\ threshold' = LowMark * factor
             /\ pre' = SubSeq(buffer, 1, complete)
             /\ \E out \in IF factor = 1 THEN {pre'} ELSE Resampled(complete) :
                  svc' = [at |-> "push", msg |-> "binary", data |-> out,
                          left |-> DropFirst(buffer, complete)]
  /\ UNCHANGED <<sessionVars, marks, cleared, reported, playout, clearFlag, mutex,
                 fileVars, cleaner, faults>>

UsesFreedBuffer ==
  /\ ~alive
  /\ Handles("binary") \/ svc.at = "restore" \/ (svc.at = "push" /\ mutex = "free")
  /\ svc' = Idle
  /\ faults' = faults \cup {"streamingPreBuffer"}
  /\ UNCHANGED <<sessionVars, markVars, audioVars, mutex, fileVars, cleaner, disturbed>>

\* trylock succeeded: the audio is appended to the playout buffer ...
Push ==
  /\ svc.at = "push" /\ mutex = "free" /\ alive
  /\ Len(playout) + Len(svc.data) <= MaxBuffered
  /\ playout' = playout \o svc.data
  /\ svc' = [svc EXCEPT !.at = "restore", !.data = <<>>]
  /\ UNCHANGED <<sessionVars, markVars, pre, threshold, clearFlag, mutex, fileVars,
                 cleaner, histVars>>

\* ... and, the mutex released, the prebuffer is cleared up to the leftovers.
Restore ==
  /\ svc.at = "restore" /\ alive
  /\ pre' = svc.left
  /\ svc' = Idle
  /\ UNCHANGED <<sessionVars, markVars, playout, threshold, clearFlag, mutex, fileVars,
                 cleaner, histVars>>

Emptied == <<>>                           \* mutation: the prebuffer is cleared
Waiting == pre

\* trylock failed: the audio waits in the prebuffer, without the leftovers.
Busy ==
  /\ svc.at = "push" /\ mutex # "free"
  /\ pre' = Waiting
  /\ svc' = Idle
  /\ UNCHANGED <<sessionVars, markVars, playout, threshold, clearFlag, mutex, fileVars,
                 cleaner, histVars>>

\* "playAudio": the temporary file is written, then listed under playout_mutex.
WriteFile ==
  /\ Handles("playAudio")
  /\ written' = written + 1
  /\ onDisk' = onDisk \cup {written + 1}
  /\ svc' = [svc EXCEPT !.at = "append"]
  /\ UNCHANGED <<sessionVars, markVars, audioVars, mutex, files, captured, cleaner, histVars>>

AppendFile ==
  /\ svc.at = "append"
  /\ files' = files \cup {written}
  /\ svc' = Idle
  /\ UNCHANGED <<sessionVars, markVars, audioVars, mutex, captured, onDisk, written,
                 cleaner, histVars>>

-----------------------------------------------------------------------------
(* The media thread, while the bug is attached.                            *)

\* fork_frame holds the mutex for a while.
ReadLock ==
  /\ attached /\ mutex = "free" /\ mode = "stream"
  /\ mutex' = "read"
  /\ UNCHANGED <<sessionVars, markVars, audioVars, svc, fileVars, cleaner, histVars>>

ReadUnlock ==
  /\ mutex = "read"
  /\ mutex' = "free"
  /\ UNCHANGED <<sessionVars, markVars, audioVars, svc, fileVars, cleaner, histVars>>

Taken == SubSeq(playout, 1, Least(Len(playout), FrameSize))
NumMarkers(s) == Cardinality({i \in DOMAIN s : IsMarker(s[i])})

NoMarks == FALSE                          \* mutation: markers are not looked for
HasMarkers == Len(inUse) + Len(cleared) > 0

\* A marker that passes takes the first cleared mark or, if there is none, the
\* first mark in use, and only for the latter is an event sent.
PassMarkers(n) ==
  LET silent == Least(n, Len(cleared))
      heard  == Least(n - silent, Len(inUse))
  IN /\ cleared' = DropFirst(cleared, silent)
     /\ inUse' = DropFirst(inUse, heard)
     /\ reported' = reported \o SubSeq(inUse, 1, heard)

\* A mark that no audio followed is reported when there is nothing to play.
ReportUnplayed ==
  /\ reported' = Append(reported, Head(inventory))
  /\ inventory' = Tail(inventory)
  /\ UNCHANGED <<inUse, cleared>>

\* dub_speech_frame
Frame ==
  /\ attached /\ mutex = "free" /\ ~clearFlag /\ mode = "stream"
  /\ playout' = DropFirst(playout, Len(Taken))
  /\ \/ HasMarkers /\ PassMarkers(NumMarkers(Taken)) /\ UNCHANGED inventory
     \/ ~HasMarkers /\ Taken = <<>> /\ inventory # <<>> /\ ReportUnplayed
     \/ /\ ~HasMarkers /\ (Taken # <<>> \/ inventory = <<>>)
        /\ UNCHANGED <<inUse, cleared, inventory, reported>>
  /\ UNCHANGED <<sessionVars, marks, pre, threshold, clearFlag, mutex, svc, fileVars,
                 cleaner, histVars>>

\* ... when killAudio asked for it: the buffer is dropped, and an event sent
\* for every mark that is queued.
ClearBuffer ==
  /\ attached /\ mutex = "free" /\ clearFlag
  /\ playout' = <<>> /\ clearFlag' = FALSE
  /\ reported' = reported \o inUse \o inventory
  /\ mutex' = IF Len(inUse) + Len(inventory) > 0 THEN "clear" ELSE "free"
  /\ UNCHANGED <<sessionVars, marks, inventory, inUse, cleared, pre, threshold, svc,
                 fileVars, cleaner, histVars>>

\* The marks in use move to the cleared ones; the service thread, which does
\* not take the mutex, may have queued others in between.
ClearMarks ==
  /\ mutex = "clear"
  /\ mutex' = "free"
  /\ cleared' = cleared \o inUse
  /\ inUse' = <<>> /\ inventory' = <<>>
  /\ UNCHANGED <<sessionVars, marks, reported, audioVars, svc, fileVars, cleaner, histVars>>

\* fork_session_stop_play
StopPlay ==
  /\ attached /\ mutex = "free" /\ playout # <<>>
  /\ playout' = <<>>
  /\ disturbed' = TRUE
  /\ UNCHANGED <<sessionVars, markVars, pre, threshold, clearFlag, mutex, svc, fileVars,
                 cleaner, faults>>

-----------------------------------------------------------------------------
(* fork_session_cleanup, by the stop command and by the closing channel.   *)

Moves(c, from, to) ==
  /\ cleaner[c] = from
  /\ cleaner' = [cleaner EXCEPT ![c] = to]

FindBug(c) ==
  /\ attached
  /\ Moves(c, "idle", "found")
  /\ UNCHANGED <<sessionVars, markVars, audioVars, mutex, svc, fileVars, histVars>>

Unlink(c) ==
  /\ mutex = "free"
  /\ Moves(c, "found", "unlinked")
  /\ attached' = FALSE
  /\ UNCHANGED <<mode, factor, alive, markVars, audioVars, mutex, svc, fileVars, histVars>>

NotReset == UNCHANGED files               \* mutation: tech_pvt->playout is kept
Reset == files' = {}

\* The list of files is taken over under playout_mutex.
Capture(c) ==
  /\ Moves(c, "unlinked", "captured")
  /\ captured' = [captured EXCEPT ![c] = files]
  /\ Reset
  /\ UNCHANGED <<sessionVars, markVars, audioVars, mutex, svc, onDisk, written, histVars>>

\* destroy_tech_pvt; the second time it finds everything freed.
Destroy(c) ==
  /\ mutex = "free"
  /\ Moves(c, "captured", "removing")
  /\ alive' = FALSE
  /\ inventory' = <<>> /\ inUse' = <<>> /\ cleared' = <<>>
  /\ pre' = <<>> /\ playout' = <<>>
  /\ UNCHANGED <<mode, factor, attached, marks, reported, threshold, clearFlag, mutex,
                 svc, fileVars, histVars>>

FirstOnly(c) == {f \in captured[c] : \A g \in captured[c] : f <= g} \* mutation: no loop
ToRemove(c) == captured[c]

\* The detached thread that removes the files.
RemoveFiles(c) ==
  /\ Moves(c, "removing", "done")
  /\ onDisk' = onDisk \ ToRemove(c)
  /\ UNCHANGED <<sessionVars, markVars, audioVars, mutex, svc, files, captured, written,
                 histVars>>

-----------------------------------------------------------------------------
ServiceStep == \/ TakeMark \/ TakeClearMarks \/ TakeKillAudio \/ TakeBinary
               \/ UsesFreedBuffer \/ Push \/ Restore \/ Busy \/ WriteFile \/ AppendFile

CleanerStep(c) == Unlink(c) \/ Capture(c) \/ Destroy(c) \/ RemoveFiles(c)

DubStep == Frame \/ ClearBuffer

Next ==
  \/ Receive \/ ServiceStep
  \/ ReadLock \/ ReadUnlock \/ DubStep \/ ClearMarks \/ StopPlay
  \/ \E c \in Cleaners : FindBug(c) \/ CleanerStep(c)

\* The media thread calls dub_speech_frame every 20 ms and leaves the mutex in
\* between; a cleanup and a handler run to their end.
Fairness ==
  /\ WF_vars(ServiceStep) /\ WF_vars(ReadUnlock) /\ WF_vars(ClearMarks)
  /\ SF_vars(DubStep)
  /\ \A c \in Cleaners : SF_vars(CleanerStep(c))

Spec == Init /\ [][Next]_vars
FairSpec == Spec /\ Fairness

-----------------------------------------------------------------------------
Sample == -1..MaxMarks
MarkNumbers == 1..MaxMarks

TypeOK ==
  /\ mode \in {"stream", "play"} /\ factor \in {1, 2}
  /\ attached \in BOOLEAN /\ alive \in BOOLEAN
  /\ marks \in 0..MaxMarks
  /\ inventory \in Seq(MarkNumbers) /\ inUse \in Seq(MarkNumbers)
  /\ Len(inUse) + Len(inventory) <= MAX_MARKS
  /\ cleared \in Seq(MarkNumbers) /\ reported \in Seq(MarkNumbers)
  /\ pre \in Seq(Sample) /\ playout \in Seq(Sample)
  /\ threshold \in Nat /\ clearFlag \in BOOLEAN
  /\ mutex \in {"free", "read", "clear"}
  /\ svc \in [at : {"idle", "found", "push", "restore", "append"},
               msg : {"none", "mark", "clearMarks", "killAudio", "binary", "playAudio"},
               data : Seq(Sample), left : Seq(Sample)]
  /\ written \in 0..MaxFiles /\ files \subseteq 1..written /\ onDisk \subseteq 1..written
  /\ captured \in [Cleaners -> SUBSET (1..written)]
  /\ cleaner \in [Cleaners -> {"idle", "found", "unlinked", "captured", "removing", "done"}]
  /\ disturbed \in BOOLEAN /\ faults \subseteq {"streamingPreBuffer"}

\* The far end hears of its marks in the order it sent them and of each at most
\* once, whether played or cleared, although a mark travels through two queues
\* that the service thread and the media thread both change.
ReportedInOrder == \A i, j \in DOMAIN reported : i < j => reported[i] < reported[j]

\* As long as no audio was dropped, the markers on their way through the two
\* buffers are those of the marks in use, and both stand in the order of the
\* marks: the two sequences are the same, and so every mark is reported exactly
\* when the audio in front of it has been played, also when the audio had to
\* wait for the mutex.
MarkersIn(s) == {x \in ToSet(s) : IsMarker(x)}
InOrder(s) ==
  \A i, j \in DOMAIN s : i < j /\ IsMarker(s[i]) /\ IsMarker(s[j]) => s[i] < s[j]
Underway == IF svc.at = "restore" THEN playout ELSE playout \o pre
MarkersMatchMarksInUse ==
  alive /\ ~disturbed => /\ MarkersIn(Underway) = ToSet(inUse)
                         /\ InOrder(Underway) /\ InOrder(inUse)
                         /\ cleared = <<>>

\* A temporary file is taken over by one cleanup only, even if a stop and the
\* close of the channel overlap: nothing is removed or freed twice.
CapturedOnce ==
  \A c \in Cleaners : /\ captured[c] \cap files = {}
                      /\ \A d \in Cleaners \ {c} : captured[c] \cap captured[d] = {}

\* A mark whose marker reached the playout buffer is reported, however often
\* dub_speech_frame finds the mutex taken.
MarkerIsPlayed ==
  \A k \in MarkNumbers :
    k \in ToSet(playout) /\ ~disturbed
      ~> k \in ToSet(reported) \/ disturbed \/ ~attached

\* Every file that was listed when a cleanup unlinked the bug is removed.
FilesRemoved ==
  \A f \in 1..MaxFiles :
    f \in files /\ (\E c \in Cleaners : cleaner[c] = "unlinked") ~> f \notin onDisk

-----------------------------------------------------------------------------
(* What comments say and the code does not do.                             *)

\* lws_glue.cpp, dub_speech_frame: a marker is discarded with a notice "unless
\* it was previously cleared".
MarkerGivesNotice ==
  [][\A k \in MarkNumbers :
       Frame /\ k \in ToSet(Taken) /\ k \in ToSet(inUse) => k \in ToSet(reported')]_vars

\* lws_glue.cpp, fork_session_cleanup: processIncomingBinary takes the mutex
\* before it touches streamingPreBuffer, so it never meets a freed one.
PreBufferAlive == faults = {}
=============================================================================
