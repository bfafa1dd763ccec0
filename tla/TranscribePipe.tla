--------------------------- MODULE TranscribePipe ---------------------------
(***************************************************************************)
(* The five modules that transcribe a call over a WebSocket                *)
(* (mod_<vendor>_transcribe, mod_aws_transcribe_ws).  A start allocates a  *)
(* session (private_t) with an AudioPipe and a mutex, and attaches a media *)
(* bug; frames of audio go to the pipe's buffer, the lws service thread    *)
(* sends them, and a stop says so to the far end, which closes after the   *)
(* last transcript.  The five are copies of one another; what a copy does  *)
(* differently is stated once per vendor, the rest is deepgram's.          *)
(*                                                                         *)
(* Threads: one API caller at a time (start, stop), the hang-up of the     *)
(* call, the media thread (frames), the service thread (lws callbacks) and *)
(* a reaper for each pipe that was stopped.  The session's mutex is taken  *)
(* by the stops and tried by the frames; the service thread clears the     *)
(* session's pipe without it.  A thread is cut at the mutex, at FreeSWITCH's *)
(* lock on the bugs, and where it uses what it has read before.            *)
(*                                                                         *)
(* Modelled: one call, one bug name.  A session and a pipe bear the number *)
(* of the start that made them.  A start in place of a kept connection     *)
(* gives the old session a new pipe.  What is transcribed, and the bytes   *)
(* of the audio, are left out.                                             *)
(***************************************************************************)
EXTENDS Integers, FiniteSets

CONSTANTS
  Vendors,    \* the modules a behaviour may be of
  MaxPipes    \* bound: pipes made during the call

AllVendors == {"deepgram", "jambonz", "ibm", "assemblyai", "aws"}

ASSUME ConstantsAssumption == Vendors \subseteq AllVendors /\ MaxPipes \in Nat

VARIABLES
  vendor,   \* the module
  single,   \* DEEPGRAM_SPEECH_USE_SINGLE_CONNECTION: a stop keeps the connection
  chan,     \* the channel: its private bug, the bug attached, hung up
  sess,     \* private_t of each session
  made,     \* pipes made so far
  pipes,    \* the AudioPipes
  pending,  \* pendingConnects, pendingDisconnects, pendingWrites; lws is woken
  thread,   \* the API caller and the hang-up
  media,    \* the media thread
  reaper,   \* the reaper of each pipe
  hurt, robbed, early   \* history, see Init

vars == <<vendor, single, chan, sess, made, pipes, pending, thread, media, reaper,
          hurt, robbed, early>>

Pipes == 1..MaxPipes
NULL == 0
Callers == {"api", "hup"}

-----------------------------------------------------------------------------
(* What each copy does differently.                                        *)

\* lws_callback, an established connection and its end: ibm greets the far end,
\* closes at once if it was finished meanwhile, and deletes a pipe that is closed.
DeepgramLink   == [greets |-> FALSE, quits |-> FALSE, deletes |-> FALSE]
JambonzLink    == [greets |-> FALSE, quits |-> FALSE, deletes |-> FALSE]
IbmLink        == [greets |-> TRUE,  quits |-> TRUE,  deletes |-> TRUE]
AssemblyaiLink == [greets |-> FALSE, quits |-> FALSE, deletes |-> FALSE]
AwsLink        == [greets |-> FALSE, quits |-> FALSE, deletes |-> FALSE]

LinkOf == [deepgram |-> DeepgramLink, jambonz |-> JambonzLink, ibm |-> IbmLink,
           assemblyai |-> AssemblyaiLink, aws |-> AwsLink]

\* lws_callback, a message received: ibm closes when it has been finished.
DeepgramReceive   == [quits |-> FALSE]
JambonzReceive    == [quits |-> FALSE]
WaitsForMore      == [quits |-> FALSE]   \* mutation: the final transcript does not close
IbmReceive        == [quits |-> TRUE]
AssemblyaiReceive == [quits |-> FALSE]
AwsReceive        == [quits |-> FALSE]

ReceiveOf == [deepgram |-> DeepgramReceive, jambonz |-> JambonzReceive, ibm |-> IbmReceive,
              assemblyai |-> AssemblyaiReceive, aws |-> AwsReceive]

\* lws_callback, the connection is writeable: text goes before audio; aws has no
\* text and ends the stream by an empty packet.
DeepgramWrite   == [texts |-> TRUE]
JambonzWrite    == [texts |-> TRUE]
IbmWrite        == [texts |-> TRUE]
AssemblyaiWrite == [texts |-> TRUE]
AwsWrite        == [texts |-> FALSE]

WriteOf == [deepgram |-> DeepgramWrite, jambonz |-> JambonzWrite, ibm |-> IbmWrite,
            assemblyai |-> AssemblyaiWrite, aws |-> AwsWrite]

\* AudioPipe::finish: ibm remembers it whatever the pipe's state; the others do
\* nothing unless connected.
DeepgramFinish   == [remembers |-> FALSE]
JambonzFinish    == [remembers |-> FALSE]
IbmFinish        == [remembers |-> TRUE]
AssemblyaiFinish == [remembers |-> FALSE]
AwsFinish        == [remembers |-> FALSE]

FinishOf == [deepgram |-> DeepgramFinish, jambonz |-> JambonzFinish, ibm |-> IbmFinish,
             assemblyai |-> AssemblyaiFinish, aws |-> AwsFinish]

\* eventCallback: deepgram overlooks the end of a connection that was finished;
\* jambonz greets the far end of the session's pipe when a connection is there.
OverlooksNone == [overlooks |-> FALSE, greets |-> FALSE]   \* mutation: every drop clears the pipe
DeepgramEvent   == [overlooks |-> TRUE,  greets |-> FALSE]
JambonzEvent    == [overlooks |-> FALSE, greets |-> TRUE]
IbmEvent        == [overlooks |-> FALSE, greets |-> FALSE]
AssemblyaiEvent == [overlooks |-> FALSE, greets |-> FALSE]
AwsEvent        == [overlooks |-> FALSE, greets |-> FALSE]

EventOf == [deepgram |-> DeepgramEvent, jambonz |-> JambonzEvent, ibm |-> IbmEvent,
            assemblyai |-> AssemblyaiEvent, aws |-> AwsEvent]

\* fork_data_init: deepgram connects before the last step that may fail.
DeepgramInit   == [connectsFirst |-> TRUE]
JambonzInit    == [connectsFirst |-> FALSE]
IbmInit        == [connectsFirst |-> FALSE]
AssemblyaiInit == [connectsFirst |-> FALSE]
AwsInit        == [connectsFirst |-> FALSE]

InitOf == [deepgram |-> DeepgramInit, jambonz |-> JambonzInit, ibm |-> IbmInit,
           assemblyai |-> AssemblyaiInit, aws |-> AwsInit]

\* session_stop: jambonz looks for the bug again under the mutex, ibm finishes
\* the pipe itself where the others start a reaper.
DeepgramStop   == [rechecks |-> FALSE, reaps |-> TRUE]
JambonzStop    == [rechecks |-> TRUE,  reaps |-> TRUE]
IbmStop        == [rechecks |-> FALSE, reaps |-> FALSE]
AssemblyaiStop == [rechecks |-> FALSE, reaps |-> TRUE]
AwsStop        == [rechecks |-> FALSE, reaps |-> TRUE]

StopOf == [deepgram |-> DeepgramStop, jambonz |-> JambonzStop, ibm |-> IbmStop,
           assemblyai |-> AssemblyaiStop, aws |-> AwsStop]

\* start_capture: deepgram may keep the connection of a stopped session.
DeepgramStart   == [keeps |-> {FALSE, TRUE}]
JambonzStart    == [keeps |-> {FALSE}]
IbmStart        == [keeps |-> {FALSE}]
AssemblyaiStart == [keeps |-> {FALSE}]
AwsStart        == [keeps |-> {FALSE}]

StartOf == [deepgram |-> DeepgramStart, jambonz |-> JambonzStart, ibm |-> IbmStart,
            assemblyai |-> AssemblyaiStart, aws |-> AwsStart]

\* frame: deepgram keeps a stopped session's connection alive with a text.
DeepgramFrame   == [pings |-> TRUE]
JambonzFrame    == [pings |-> FALSE]
IbmFrame        == [pings |-> FALSE]
AssemblyaiFrame == [pings |-> FALSE]
AwsFrame        == [pings |-> FALSE]

FrameOf == [deepgram |-> DeepgramFrame, jambonz |-> JambonzFrame, ibm |-> IbmFrame,
            assemblyai |-> AssemblyaiFrame, aws |-> AwsFrame]

-----------------------------------------------------------------------------
(* State.                                                                  *)

States == {"none", "idle", "connecting", "connected", "disconnecting",
           "closed", "failed", "deleted"}

Channel == [bug : 0..MaxPipes, attached : 0..MaxPipes, hung : BOOLEAN]
Session == [pipe : 0..MaxPipes, keep : BOOLEAN, gone : 0..2,
            owner : {"none", "free", "media"} \cup Callers]
Pipe == [st : States, finished : BOOLEAN, text : {"none", "other", "stop"},
         wanted : BOOLEAN, asked : BOOLEAN]
Lists == [connects : SUBSET Pipes, disconnects : SUBSET Pipes, writes : SUBSET Pipes,
          woken : BOOLEAN]
Thread == [pc : {"idle", "init", "add", "find", "lock", "remove", "reap", "destroy"},
           k : 0..MaxPipes, starts : BOOLEAN]
Media == [pc : {"idle", "enter", "write", "ping"}, k : 0..MaxPipes, p : 0..MaxPipes]

\* Invariant: the type of every variable; a session's mutex is destroyed twice
\* at most.
TypeOK ==
  /\ vendor \in Vendors /\ single \in BOOLEAN
  /\ chan \in Channel /\ sess \in [Pipes -> Session]
  /\ made \in 0..MaxPipes /\ pipes \in [Pipes -> Pipe]
  /\ pending \in Lists /\ thread \in [Callers -> Thread] /\ media \in Media
  /\ reaper \in [Pipes -> {"none", "finish", "wait"}]
  /\ hurt \subseteq (Pipes \cup {NULL}) \X {"frame", "stop", "reaper", "early"}
  /\ robbed \subseteq Pipes \X Pipes /\ early \subseteq Pipes

NoPipe == [st |-> "none", finished |-> FALSE, text |-> "none", wanted |-> FALSE,
           asked |-> FALSE]
NewPipe == [NoPipe EXCEPT !.st = "idle"]
Deleted == [NoPipe EXCEPT !.st = "deleted"]
NoSession == [pipe |-> NULL, keep |-> FALSE, gone |-> 0, owner |-> "none"]
Idle == [pc |-> "idle", k |-> NULL, starts |-> FALSE]

Init ==
  /\ vendor \in Vendors /\ single \in StartOf[vendor].keeps
  /\ chan = [bug |-> NULL, attached |-> NULL, hung |-> FALSE]
  /\ sess = [k \in Pipes |-> NoSession]
  /\ made = 0
  /\ pipes = [p \in Pipes |-> NoPipe]
  /\ pending = [connects |-> {}, disconnects |-> {}, writes |-> {}, woken |-> FALSE]
  /\ thread = [t \in Callers |-> Idle]
  /\ media = [pc |-> "idle", k |-> NULL, p |-> NULL]
  /\ reaper = [p \in Pipes |-> "none"]
  /\ hurt = {}     \* uses of a deleted pipe, by whom; deletions come too early
  /\ robbed = {}   \* deepgram: <<p, q>>, the end of p took pipe q from another session
  /\ early = {}    \* deepgram: pipes not connected when their reaper finished them

historyVars == <<hurt, robbed, early>>

-----------------------------------------------------------------------------
(* AudioPipe's methods, as the caller sees them.                           *)

IsDeleted(p) == pipes[p].st = "deleted"
HurtIf(cond, p, who) == hurt' = IF cond THEN hurt \cup {<<p, who>>} ELSE hurt

\* addPendingConnect, addPendingWrite: the list, then lws_cancel_service.
AddConnect(p) == [pending EXCEPT !.connects = @ \cup {p}, !.woken = TRUE]
AddWrite(p) == [pending EXCEPT !.writes = @ \cup {p}, !.woken = TRUE]

\* bufferForSending, on a pipe that is connected.
WithText(r, text) == [r EXCEPT !.text = IF @ = "stop" THEN @ ELSE text]

\* finish, or finish_in_silence, which also mutes the pipe.
CanFinish(p) == pipes[p].st = "connected" /\ ~pipes[p].finished
StopText == IF WriteOf[vendor].texts THEN "stop" ELSE "none"
Finished(p) ==
  IF CanFinish(p)
  THEN [pipes EXCEPT ![p] = WithText([@ EXCEPT !.finished = TRUE], StopText)]
  ELSE [pipes EXCEPT ![p].finished = @ \/ FinishOf[vendor].remembers]

Finish(p) ==
  /\ pipes' = IF IsDeleted(p) THEN pipes ELSE Finished(p)
  /\ pending' = IF CanFinish(p) THEN AddWrite(p) ELSE pending

-----------------------------------------------------------------------------
(* The API: start and stop.                                                *)

\* start_capture: a bug in the way is stopped first, unless its connection is kept.
StartCapture ==
  /\ thread["api"].pc = "idle" /\ made < MaxPipes
  /\ thread' = [thread EXCEPT !["api"] =
       IF chan.bug # NULL /\ ~single
       THEN [pc |-> "lock", k |-> chan.bug, starts |-> TRUE]
       ELSE [Idle EXCEPT !.pc = "init"]]
  /\ UNCHANGED <<vendor, single, chan, sess, made, pipes, pending, media, reaper, historyVars>>

\* session_init and fork_data_init for a new session.  A step after the
\* allocation of the pipe may fail: the pipe is deleted or lost, and what
\* was connected by then is still in the list.
InitFails ==
  /\ thread["api"].pc = "init" /\ (chan.hung \/ chan.bug = NULL)
  /\ thread' = [thread EXCEPT !["api"] = Idle]
  /\ \/ UNCHANGED <<made, pipes, pending>>
     \/ /\ InitOf[vendor].connectsFirst /\ ~chan.hung
        /\ made' = made + 1
        /\ pipes' = [pipes EXCEPT ![made'] = Deleted]
        /\ pending' = AddConnect(made')
  /\ UNCHANGED <<vendor, single, chan, sess, media, reaper, historyVars>>

InitSession ==
  /\ thread["api"].pc = "init" /\ ~chan.hung /\ chan.bug = NULL
  /\ LET p == made + 1 IN
     /\ made' = p
     /\ pipes' = [pipes EXCEPT ![p] = NewPipe]
     /\ pending' = AddConnect(p)
     /\ sess' = [sess EXCEPT ![p] = [NoSession EXCEPT !.pipe = p, !.owner = "free"]]
     /\ thread' = [thread EXCEPT !["api"] = [pc |-> "add", k |-> p, starts |-> FALSE]]
  /\ UNCHANGED <<vendor, single, chan, media, reaper, historyVars>>

\* switch_core_media_bug_add, which fails once the call is hung up.
AddBug ==
  /\ thread["api"].pc = "add"
  /\ LET k == thread["api"].k IN
     chan' = IF chan.hung THEN chan ELSE [chan EXCEPT !.bug = k, !.attached = k]
  /\ thread' = [thread EXCEPT !["api"] = Idle]
  /\ UNCHANGED <<vendor, single, sess, made, pipes, pending, media, reaper, historyVars>>

\* fork_data_init on the session of a kept connection, without its mutex: the
\* connection is used again if the configuration is the same, else it is
\* replaced; a missing key deletes it.
Reuses(k) ==
  /\ thread["api"].pc = "init" /\ ~chan.hung /\ chan.bug = k /\ sess[k].pipe # NULL
  /\ thread' = [thread EXCEPT !["api"] = Idle]

ReuseSame(k) ==
  /\ Reuses(k)
  /\ sess' = [sess EXCEPT ![k].keep = FALSE]
  /\ UNCHANGED <<vendor, single, chan, made, pipes, pending, media, reaper, historyVars>>

ReuseOther(k) ==
  /\ Reuses(k)
  /\ LET p == made + 1 IN
     /\ made' = p
     /\ reaper' = [reaper EXCEPT ![sess[k].pipe] = "finish"]
     /\ pipes' = [pipes EXCEPT ![p] = NewPipe]
     /\ pending' = AddConnect(p)
     /\ sess' = [sess EXCEPT ![k].pipe = p, ![k].keep = FALSE]
  /\ UNCHANGED <<vendor, single, chan, media, historyVars>>

ReuseFails(k) ==
  /\ Reuses(k)
  /\ LET p == sess[k].pipe IN
     /\ HurtIf(pipes[p].st \notin {"closed", "failed"}, p, "early")
     /\ pipes' = [pipes EXCEPT ![p] = Deleted]
  /\ sess' = [sess EXCEPT ![k].pipe = NULL]
  /\ UNCHANGED <<vendor, single, chan, made, pending, media, reaper, robbed, early>>

\* The connection is gone: the session is cleared, its mutex made again.  The
\* last step may fail, as above.
Restart(k) ==
  /\ thread["api"].pc = "init" /\ ~chan.hung /\ chan.bug = k /\ sess[k].pipe = NULL
  /\ made' = made + 1
  /\ pending' = AddConnect(made')
  /\ \E fails \in BOOLEAN :
       /\ pipes' = [pipes EXCEPT ![made'] = IF fails THEN Deleted ELSE NewPipe]
       /\ sess' = [sess EXCEPT ![k] = [NoSession EXCEPT
                     !.pipe = IF fails THEN NULL ELSE made', !.owner = "free"]]
  /\ thread' = [thread EXCEPT !["api"] = Idle]
  /\ UNCHANGED <<vendor, single, chan, media, reaper, historyVars>>

\* do_stop: the bug is found, or the connection is only kept.
StopCommand ==
  /\ thread["api"].pc = "idle" /\ chan.bug # NULL
  /\ IF single
     THEN /\ sess' = [sess EXCEPT ![chan.bug].keep = TRUE]
          /\ UNCHANGED thread
     ELSE /\ thread' = [thread EXCEPT !["api"] = [Idle EXCEPT !.pc = "lock", !.k = chan.bug]]
          /\ UNCHANGED sess
  /\ UNCHANGED <<vendor, single, chan, made, pipes, pending, media, reaper, historyVars>>

-----------------------------------------------------------------------------
(* Hang-up and session_stop, by either caller t.                           *)

\* FreeSWITCH detaches the bug, when no frame is in it, and closes it.
Hangup ==
  /\ ~chan.hung /\ media.pc = "idle"
  /\ chan' = [chan EXCEPT !.hung = TRUE, !.attached = NULL]
  /\ thread' = IF chan.attached = NULL THEN thread ELSE [thread EXCEPT !["hup"].pc = "find"]
  /\ UNCHANGED <<vendor, single, sess, made, pipes, pending, media, reaper, historyVars>>

StopFinds ==
  /\ thread["hup"].pc = "find"
  /\ thread' = [thread EXCEPT !["hup"] =
       IF chan.bug = NULL THEN Idle ELSE [Idle EXCEPT !.pc = "lock", !.k = chan.bug]]
  /\ UNCHANGED <<vendor, single, chan, sess, made, pipes, pending, media, reaper, historyVars>>

Returned(t) == IF thread[t].starts THEN [Idle EXCEPT !.pc = "init"] ELSE Idle

StillNamed == chan   \* mutation: the channel still names the bug
Forgotten == [chan EXCEPT !.bug = NULL]

\* The mutex is taken and the bug forgotten; a copy that looks again leaves when
\* the bug has been forgotten already.
StopLocks(t) ==
  /\ thread[t].pc = "lock"
  /\ LET k == thread[t].k IN
     /\ sess[k].owner = "free"
     /\ IF StopOf[vendor].rechecks /\ chan.bug = NULL
        THEN /\ thread' = [thread EXCEPT ![t] = Returned(t)]
             /\ UNCHANGED <<chan, sess>>
        ELSE /\ thread' = [thread EXCEPT ![t].pc = IF t = "api" THEN "remove" ELSE "reap"]
             /\ chan' = Forgotten
             /\ sess' = [sess EXCEPT ![k].owner = t]
  /\ UNCHANGED <<vendor, single, made, pipes, pending, media, reaper, historyVars>>

Detached == [chan EXCEPT !.attached = NULL]

\* switch_core_media_bug_remove waits for the frame that is in the bug.
StopRemoves ==
  /\ thread["api"].pc = "remove" /\ media.pc = "idle"
  /\ chan' = Detached
  /\ thread' = [thread EXCEPT !["api"].pc = "reap"]
  /\ UNCHANGED <<vendor, single, sess, made, pipes, pending, media, reaper, historyVars>>

\* reaper takes the session's pipe, or ibm finishes it here; the mutex is left.
WithoutPipe(k) == [sess EXCEPT ![k].pipe = NULL, ![k].owner = "free"]

StopReaps(t) ==
  /\ thread[t].pc = "reap"
  /\ LET k == thread[t].k
         p == sess[k].pipe IN
     /\ sess' = WithoutPipe(k)
     /\ IF p = NULL
        THEN UNCHANGED <<reaper, pipes, pending, hurt>>
        ELSE IF StopOf[vendor].reaps
        THEN /\ reaper' = [reaper EXCEPT ![p] = "finish"]
             /\ HurtIf(reaper[p] # "none" \/ IsDeleted(p), p, "stop")
             /\ UNCHANGED <<pipes, pending>>
        ELSE /\ Finish(p)
             /\ HurtIf(IsDeleted(p), p, "stop")
             /\ UNCHANGED reaper
  /\ thread' = [thread EXCEPT ![t].pc = "destroy"]
  /\ UNCHANGED <<vendor, single, chan, made, media, robbed, early>>

\* switch_mutex_destroy.
StopDestroys(t) ==
  /\ thread[t].pc = "destroy"
  /\ sess' = [sess EXCEPT ![thread[t].k].gone = @ + 1]
  /\ thread' = [thread EXCEPT ![t] = Returned(t)]
  /\ UNCHANGED <<vendor, single, chan, made, pipes, pending, media, reaper, historyVars>>

-----------------------------------------------------------------------------
(* The reaper of a pipe.                                                   *)

ReaperFinishes(p) ==
  /\ reaper[p] = "finish"
  /\ Finish(p)
  /\ HurtIf(IsDeleted(p), p, "reaper")
  /\ early' = IF CanFinish(p) \/ vendor # "deepgram" THEN early ELSE early \cup {p}
  /\ reaper' = [reaper EXCEPT ![p] = "wait"]
  /\ UNCHANGED <<vendor, single, chan, sess, made, media, thread, robbed>>

\* waitForClose, then the last reference to the pipe goes.
AtOnce(p) == pipes[p].st # "deleted"   \* mutation: the reaper does not wait
HasClosed(p) == pipes[p].st = "closed"

ReaperDeletes(p) ==
  /\ reaper[p] = "wait" /\ HasClosed(p)
  /\ HurtIf(pipes[p].st \in {"connecting", "connected", "disconnecting"}, p, "early")
  /\ pipes' = [pipes EXCEPT ![p] = Deleted]
  /\ reaper' = [reaper EXCEPT ![p] = "none"]
  /\ UNCHANGED <<vendor, single, chan, sess, made, pending, media, thread, robbed, early>>

-----------------------------------------------------------------------------
(* The media thread.                                                       *)

\* A frame enters the bug; a kept connection is pinged, without the mutex.
FrameEnters ==
  /\ media.pc = "idle" /\ chan.attached # NULL
  /\ LET k == chan.attached
         p == sess[k].pipe IN
     media' = IF FrameOf[vendor].pings /\ sess[k].keep /\ p # NULL
              THEN [pc |-> "ping", k |-> k, p |-> p]
              ELSE [pc |-> "enter", k |-> k, p |-> NULL]
  /\ UNCHANGED <<vendor, single, chan, sess, made, pipes, pending, thread, reaper, historyVars>>

NoFrame == [pc |-> "idle", k |-> NULL, p |-> NULL]

\* switch_mutex_trylock: a frame that does not get the mutex, or finds no pipe
\* or none connected, is dropped.
NeverGivesUp(k) == FALSE   \* mutation: the frame waits for the mutex
GivesUp(k) == sess[k].owner # "free"

FrameGivesUp ==
  /\ media.pc = "enter" /\ GivesUp(media.k)
  /\ media' = NoFrame
  /\ UNCHANGED <<vendor, single, chan, sess, made, pipes, pending, thread, reaper, historyVars>>

FrameLocks ==
  /\ media.pc = "enter"
  /\ LET k == media.k
         p == sess[k].pipe IN
     /\ sess[k].owner = "free"
     /\ IF p # NULL /\ pipes[p].st \in {"connected", "deleted"}
        THEN /\ media' = [media EXCEPT !.pc = "write", !.p = p]
             /\ sess' = [sess EXCEPT ![k].owner = "media"]
        ELSE /\ media' = NoFrame
             /\ UNCHANGED sess
     /\ hurt' = hurt \cup (IF sess[k].gone > 0 THEN {<<NULL, "frame">>} ELSE {})
                     \cup (IF p # NULL /\ IsDeleted(p) THEN {<<p, "frame">>} ELSE {})
  /\ UNCHANGED <<vendor, single, chan, made, pipes, pending, thread, reaper, robbed, early>>

\* The frame goes to the pipe's buffer, which is emptied first when it is full.
FrameWrites ==
  /\ media.pc = "write"
  /\ LET p == media.p IN
     /\ HurtIf(IsDeleted(p), p, "frame")
     /\ pending' = AddWrite(p)
  /\ sess' = [sess EXCEPT ![media.k].owner = IF @ = "media" THEN "free" ELSE @]
  /\ media' = NoFrame
  /\ UNCHANGED <<vendor, single, chan, made, pipes, thread, reaper, robbed, early>>

FramePings ==
  /\ media.pc = "ping"
  /\ LET p == media.p IN
     /\ HurtIf(IsDeleted(p), p, "frame")
     /\ IF pipes[p].st = "connected"
        THEN /\ pipes' = [pipes EXCEPT ![p] = WithText(@, "other")]
             /\ pending' = AddWrite(p)
        ELSE UNCHANGED <<pipes, pending>>
  /\ media' = NoFrame
  /\ UNCHANGED <<vendor, single, chan, sess, made, thread, reaper, robbed, early>>

-----------------------------------------------------------------------------
(* The service thread: lws callbacks.                                      *)

\* EVENT_WAIT_CANCELLED: the three lists, each under its lock.
WaitCancelled ==
  /\ pending.woken
  /\ LET opens == {p \in pending.connects : pipes[p].st = "idle"}
         closes == {p \in pending.disconnects : pipes[p].st = "disconnecting"}
         sends == {p \in pending.writes : pipes[p].st = "connected"} IN
     pipes' = [p \in Pipes |->
          IF p \in opens THEN [pipes[p] EXCEPT !.st = "connecting"]
          ELSE IF p \in closes \cup sends THEN [pipes[p] EXCEPT !.wanted = TRUE]
          ELSE pipes[p]]
  /\ pending' = [pending EXCEPT !.disconnects = {}, !.writes = {}, !.woken = FALSE]
  /\ UNCHANGED <<vendor, single, chan, sess, made, thread, media, reaper, historyVars>>

\* eventCallback with an end: whatever session holds the bug by now loses its
\* pipe, unless the event is overlooked.
TakesPipe(p, overlooked) ==
  LET b == chan.bug IN
  IF b = NULL \/ overlooked
  THEN UNCHANGED <<sess, robbed>>
  ELSE /\ sess' = [sess EXCEPT ![b].pipe = NULL]
       /\ robbed' = IF sess[b].pipe \in {NULL, p} \/ vendor # "deepgram"
                    THEN robbed ELSE robbed \cup {<<p, sess[b].pipe>>}

NotPending(p) == [pending EXCEPT !.connects = @ \ {p}]

\* CLIENT_CONNECTION_ERROR: nobody deletes the pipe, nor is a reaper told.
ConnectionError(p) ==
  /\ pipes[p].st = "connecting" /\ p \in pending.connects
  /\ pipes' = [pipes EXCEPT ![p].st = "failed"]
  /\ pending' = NotPending(p)
  /\ TakesPipe(p, FALSE)
  /\ UNCHANGED <<vendor, single, chan, made, thread, media, reaper, hurt, early>>

\* Whom the handler of CONNECT_SUCCESS greets: the pipe of the session that
\* holds the bug by now, or the pipe itself.
Greeted(p) ==
  IF EventOf[vendor].greets
  THEN IF chan.bug = NULL THEN {} ELSE {sess[chan.bug].pipe} \ {NULL}
  ELSE IF LinkOf[vendor].greets THEN {p} ELSE {}

\* CLIENT_ESTABLISHED.
Established(p) ==
  /\ pipes[p].st = "connecting" /\ p \in pending.connects
  /\ IF LinkOf[vendor].quits /\ pipes[p].finished
     THEN /\ pipes' = [pipes EXCEPT ![p].st = "disconnecting"]
          /\ pending' = [NotPending(p) EXCEPT !.disconnects = @ \cup {p}, !.woken = TRUE]
     ELSE LET up == [pipes EXCEPT ![p].st = "connected"]
              told == {q \in Greeted(p) : up[q].st = "connected"} IN
          /\ pipes' = [q \in Pipes |-> IF q \in told THEN WithText(up[q], "other") ELSE up[q]]
          /\ pending' = [NotPending(p) EXCEPT !.writes = @ \cup told,
                                             !.woken = @ \/ told # {}]
  /\ UNCHANGED <<vendor, single, chan, sess, made, thread, media, reaper, historyVars>>

\* CLIENT_CLOSED: the end of a connection, dropped or closed by us.  What is
\* left in the pipe's buffers is not sent any more.
Ended(p) == IF LinkOf[vendor].deletes THEN Deleted
            ELSE [NoPipe EXCEPT !.st = "closed", !.finished = pipes[p].finished]

End(p) ==
  /\ TakesPipe(p, EventOf[vendor].overlooks /\ pipes[p].st = "connected" /\ pipes[p].finished)
  /\ pipes' = [pipes EXCEPT ![p] = Ended(p)]

Closed(p) ==
  /\ pipes[p].st \in {"connected", "disconnecting"}
  /\ End(p)
  /\ UNCHANGED <<vendor, single, chan, made, pending, thread, media, reaper, hurt, early>>

\* CLIENT_RECEIVE, the last fragment of a message.
Receive(p) ==
  /\ pipes[p].st = "connected"
  /\ IF ReceiveOf[vendor].quits /\ pipes[p].finished
     THEN /\ pipes' = [pipes EXCEPT ![p].st = "disconnecting"]
          /\ pending' = [pending EXCEPT !.disconnects = @ \cup {p}, !.woken = TRUE]
     ELSE UNCHANGED <<pipes, pending>>
  /\ UNCHANGED <<vendor, single, chan, sess, made, thread, media, reaper, historyVars>>

\* CLIENT_WRITEABLE: text, or the end of a connection we close, or audio.
WriteText(p) ==
  /\ pipes[p].wanted /\ pipes[p].st \in {"connected", "disconnecting"}
  /\ pipes[p].text # "none"
  /\ pipes' = [pipes EXCEPT ![p].text = "none", ![p].asked = @ \/ pipes[p].text = "stop"]
  /\ UNCHANGED <<vendor, single, chan, sess, made, pending, thread, media, reaper, historyVars>>

WriteEnd(p) ==
  /\ pipes[p].wanted /\ pipes[p].st = "disconnecting" /\ pipes[p].text = "none"
  /\ End(p)
  /\ UNCHANGED <<vendor, single, chan, made, pending, thread, media, reaper, hurt, early>>

WriteAudio(p) ==
  /\ pipes[p].wanted /\ pipes[p].st = "connected" /\ pipes[p].text = "none"
  /\ pipes' = [pipes EXCEPT ![p].wanted = FALSE,
                            ![p].asked = @ \/ (pipes[p].finished /\ ~WriteOf[vendor].texts)]
  /\ UNCHANGED <<vendor, single, chan, sess, made, pending, thread, media, reaper, historyVars>>

Writeable(p) == WriteText(p) \/ WriteEnd(p) \/ WriteAudio(p)

-----------------------------------------------------------------------------
Reuse(k) == ReuseSame(k) \/ ReuseOther(k) \/ ReuseFails(k) \/ Restart(k)
ApiNext == StartCapture \/ InitFails \/ InitSession \/ AddBug \/ StopCommand \/ (\E k \in Pipes : Reuse(k))
StopNext(t) == StopLocks(t) \/ (t = "api" /\ StopRemoves) \/ StopReaps(t) \/ StopDestroys(t)
ReaperNext(p) == ReaperFinishes(p) \/ ReaperDeletes(p)
FrameGoesOn == FrameGivesUp \/ FrameLocks \/ FrameWrites \/ FramePings
ServiceNext(p) == ConnectionError(p) \/ Established(p) \/ Closed(p) \/ Receive(p) \/ Writeable(p)

Next ==
  \/ ApiNext \/ Hangup \/ StopFinds
  \/ \E t \in Callers : StopNext(t)
  \/ FrameEnters \/ FrameGoesOn \/ WaitCancelled
  \/ \E p \in Pipes : ReaperNext(p) \/ ServiceNext(p)

Spec == Init /\ [][Next]_vars

\* A call that is in progress goes on, and gets the mutex and the bugs' lock if
\* they are free again and again, between frames 20 ms apart; a frame ends;
\* the service thread handles what is ready; a reaper runs.  A far end that
\* was asked to stop sends its last transcript, and closes, except that ibm's
\* leaves closing to us.  Nobody has to start, to stop or to hang up.
ApiGoesOn == InitFails \/ InitSession \/ AddBug \/ (\E k \in Pipes : Reuse(k)) \/ StopNext("api")
HangupGoesOn == StopFinds \/ StopNext("hup")
FarEndAnswers(p) == pipes[p].asked /\ IF vendor = "ibm" THEN Receive(p) ELSE Closed(p)

FairSpec ==
  /\ Spec
  /\ SF_vars(ApiGoesOn) /\ SF_vars(HangupGoesOn)
  /\ WF_vars(FrameGoesOn)
  /\ WF_vars(WaitCancelled)
  /\ \A p \in Pipes : WF_vars(ReaperNext(p)) /\ WF_vars(Writeable(p)) /\ WF_vars(FarEndAnswers(p))

-----------------------------------------------------------------------------
(* Properties.                                                             *)

\* Invariant: a frame never meets a deleted pipe or a destroyed mutex, because
\* the stop removes the bug and takes the mutex before the pipe goes to its
\* reaper; a pipe goes to one reaper, which deletes it once and after its
\* connection has closed, and it is never finished after that.  Not so in ibm,
\* whose service thread deletes a closed pipe without the mutex, nor where
\* deepgram replaces a kept connection, or fails to, without it.
PipesSafe == hurt # {} => vendor = "ibm" \/ single

\* Invariant: in deepgram a connection that ends takes the pipe from a session
\* that started since only if it was not connected when its reaper finished it,
\* or the reaper has not run yet, or its own pipe had been taken like that before
\* and no reaper got it.  In the other copies every end of an earlier connection does.
Excused(p) == p \in early \/ reaper[p] = "finish" \/ \E r \in Pipes : <<r, p>> \in robbed
NewSessionSpared == vendor = "deepgram" => \A x \in robbed : Excused(x[1])

\* Liveness: a start, a stop and the close of a hang-up return, whatever frames
\* there are: the stop holds the mutex while it waits for the frame that tries it.
CallsReturn == \A t \in Callers : thread[t].pc # "idle" ~> thread[t].pc = "idle"

\* Liveness: a pipe that was finished while connected asks the far end to stop,
\* sees it close, and is deleted.
PipeReleased ==
  \A p \in Pipes : (pipes[p].finished /\ pipes[p].st = "connected") ~> pipes[p].st = "deleted"
=============================================================================
