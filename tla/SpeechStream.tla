---------------------------- MODULE SpeechStream ----------------------------
(***************************************************************************)
(* The modules that send the audio of a call to a recogniser through a     *)
(* vendor's library: seven over gRPC (google with the two versions of its  *)
(* interface, nuance, nvidia, soniox, cobalt, verbio), dialogflow, and two *)
(* over the AWS SDK (aws_transcribe, aws_lex).  A start allocates a        *)
(* session (cap_cb) with a streamer, a mutex and a thread, and attaches a  *)
(* media bug.  Frames write to the streamer.  In the gRPC modules the      *)
(* thread reads responses until the far end has no more; in the others it  *)
(* makes the streamer, waits for the end of the stream and deletes it.  A  *)
(* stop takes the mutex, tells the streamer that no more audio comes, and  *)
(* joins the thread while it holds the mutex.                              *)
(*                                                                         *)
(* Threads: one API caller at a time, the hang-up of the call, the media   *)
(* thread, the thread of each session, and the library's callbacks.  A     *)
(* thread is cut at the mutex, at FreeSWITCH's lock on the bugs, where it   *)
(* waits, and between a test and its use where no lock covers both.        *)
(*                                                                         *)
(* Modelled: one call, one bug name.  What is transcribed, the bytes of    *)
(* the audio and of the first message, and the files that dialogflow and   *)
(* lex write, are left out.                                                *)
(***************************************************************************)
EXTENDS Integers, FiniteSets

CONSTANTS
  Vendors,      \* the modules a behaviour may be of
  MaxSessions   \* bound: sessions made during the call

Google == {"google1", "google2"}
Sdk == {"aws", "lex"}
AllVendors == Google \cup Sdk \cup
              {"nuance", "nvidia", "soniox", "cobalt", "verbio", "dialogflow"}

ASSUME ConstantsAssumption == Vendors \subseteq AllVendors /\ MaxSessions \in Nat

VARIABLES
  vendor,   \* the module
  mode,     \* START_RECOGNIZING_ON_VAD, and a single utterance asked for
  chan,     \* the channel: its private bug, the bug attached, hung up, destroyed
  sess,     \* cap_cb and GStreamer of each session
  made,     \* sessions made so far
  thread,   \* the API caller and the hang-up
  media,    \* the media thread
  reader,   \* the thread of each session
  hurt      \* history: <<session, misuse of an object>>

vars == <<vendor, mode, chan, sess, made, thread, media, reader, hurt>>

Sessions == 1..MaxSessions
NULL == 0
Callers == {"api", "hup"}

-----------------------------------------------------------------------------
(* What each copy does differently.                                        *)

\* The first message and the streamer's constructor: "no" only prepares, "open"
\* opens the stream, "ask" has the SDK open it.
Google1Setup    == [opens |-> "no"]
Google2Setup    == [opens |-> "no"]
NuanceSetup     == [opens |-> "no"]
NvidiaSetup     == [opens |-> "no"]
SonioxSetup     == [opens |-> "no"]
CobaltSetup     == [opens |-> "no"]
VerbioSetup     == [opens |-> "no"]
DialogflowSetup == [opens |-> "open"]
AwsSetup        == [opens |-> "no"]
LexSetup        == [opens |-> "ask"]

SetupOf == [google1 |-> Google1Setup, google2 |-> Google2Setup, nuance |-> NuanceSetup,
            nvidia |-> NvidiaSetup, soniox |-> SonioxSetup, cobalt |-> CobaltSetup,
            verbio |-> VerbioSetup, dialogflow |-> DialogflowSetup, aws |-> AwsSetup,
            lex |-> LexSetup]

\* connect: the stream is up at once, or when the SDK says so; audio that comes
\* before is kept, except in lex.  The constructor is dialogflow's and lex's.
GoogleConnect     == [link |-> "up",    keeps |-> TRUE]
NuanceConnect     == [link |-> "up",    keeps |-> TRUE]
NvidiaConnect     == [link |-> "up",    keeps |-> TRUE]
SonioxConnect     == [link |-> "up",    keeps |-> TRUE]
CobaltConnect     == [link |-> "up",    keeps |-> TRUE]
VerbioConnect     == [link |-> "up",    keeps |-> TRUE]
DialogflowConnect == [link |-> "up",    keeps |-> FALSE]
AwsConnect        == [link |-> "asked", keeps |-> TRUE]
LexConnect        == [link |-> "asked", keeps |-> FALSE]

ConnectOf == [google1 |-> GoogleConnect, google2 |-> GoogleConnect, nuance |-> NuanceConnect,
              nvidia |-> NvidiaConnect, soniox |-> SonioxConnect, cobalt |-> CobaltConnect,
              verbio |-> VerbioConnect, dialogflow |-> DialogflowConnect, aws |-> AwsConnect,
              lex |-> LexConnect]

\* grpc_read_thread.  Which responses end the loop, keep the session's lock, or
\* end the audio; whether Finish is called after the loop.
Google1Reader    == [error |-> "keepsLock", utterance |-> TRUE,  finishes |-> TRUE]
Google2Reader    == [error |-> "none",      utterance |-> TRUE,  finishes |-> TRUE]
NuanceReader     == [error |-> "none",      utterance |-> FALSE, finishes |-> FALSE]
NvidiaReader     == [error |-> "none",      utterance |-> FALSE, finishes |-> FALSE]
SonioxReader     == [error |-> "none",      utterance |-> FALSE, finishes |-> FALSE]
CobaltReader     == [error |-> "none",      utterance |-> FALSE, finishes |-> TRUE]
VerbioReader     == [error |-> "leaves",    utterance |-> FALSE, finishes |-> FALSE]
DialogflowReader == [error |-> "none",      utterance |-> FALSE, finishes |-> TRUE]

\* aws_transcribe_thread and lex_thread have no responses to read.
NoReader == [error |-> "none", utterance |-> FALSE, finishes |-> FALSE]

ReaderOf == [google1 |-> Google1Reader, google2 |-> Google2Reader, nuance |-> NuanceReader,
             nvidia |-> NvidiaReader, soniox |-> SonioxReader, cobalt |-> CobaltReader,
             verbio |-> VerbioReader, dialogflow |-> DialogflowReader, aws |-> NoReader,
             lex |-> NoReader]

\* session_init: whether connecting may wait for speech, and who makes the streamer.
GoogleInit     == [vad |-> BOOLEAN, makes |-> TRUE]
NuanceInit     == [vad |-> BOOLEAN, makes |-> TRUE]
NvidiaInit     == [vad |-> BOOLEAN, makes |-> TRUE]
SonioxInit     == [vad |-> BOOLEAN, makes |-> TRUE]
CobaltInit     == [vad |-> BOOLEAN, makes |-> TRUE]
VerbioInit     == [vad |-> {FALSE}, makes |-> TRUE]
DialogflowInit == [vad |-> {FALSE}, makes |-> TRUE]
AwsInit        == [vad |-> BOOLEAN, makes |-> FALSE]
LexInit        == [vad |-> {FALSE}, makes |-> FALSE]

InitOf == [google1 |-> GoogleInit, google2 |-> GoogleInit, nuance |-> NuanceInit,
           nvidia |-> NvidiaInit, soniox |-> SonioxInit, cobalt |-> CobaltInit,
           verbio |-> VerbioInit, dialogflow |-> DialogflowInit, aws |-> AwsInit, lex |-> LexInit]

\* start_capture: what is done with the session when the bug cannot be added.
GoogleStart     == [kills |-> FALSE]
NuanceStart     == [kills |-> FALSE]
NvidiaStart     == [kills |-> FALSE]
SonioxStart     == [kills |-> FALSE]
CobaltStart     == [kills |-> FALSE]
VerbioStart     == [kills |-> FALSE]
DialogflowStart == [kills |-> TRUE]
AwsStart        == [kills |-> FALSE]
LexStart        == [kills |-> TRUE]

StartOf == [google1 |-> GoogleStart, google2 |-> GoogleStart, nuance |-> NuanceStart,
            nvidia |-> NvidiaStart, soniox |-> SonioxStart, cobalt |-> CobaltStart,
            verbio |-> VerbioStart, dialogflow |-> DialogflowStart, aws |-> AwsStart,
            lex |-> LexStart]

\* session_cleanup, session_stop: the bug is passed in or looked up; under the
\* mutex it is looked up again, and forgotten at once or after the join; the
\* streamer is told by WritesDone, by WritesDone and Finish, or by finish(), for
\* which aws waits until the thread has made it; verbio destroys the mutex.
GoogleStop     == [finds |-> "passed", rechecks |-> TRUE,  late |-> FALSE, tells |-> "writesDone", destroys |-> FALSE]
ForgetsUnseen  == [finds |-> "passed", rechecks |-> FALSE, late |-> FALSE, tells |-> "writesDone", destroys |-> FALSE] \* mutation: the bug is not looked up again under the mutex
NuanceStop     == [finds |-> "passed", rechecks |-> TRUE,  late |-> FALSE, tells |-> "writesDone", destroys |-> FALSE]
NvidiaStop     == [finds |-> "passed", rechecks |-> TRUE,  late |-> FALSE, tells |-> "writesDone", destroys |-> FALSE]
SonioxStop     == [finds |-> "passed", rechecks |-> TRUE,  late |-> FALSE, tells |-> "writesDone", destroys |-> FALSE]
CobaltStop     == [finds |-> "passed", rechecks |-> TRUE,  late |-> FALSE, tells |-> "writesDone", destroys |-> FALSE]
VerbioStop     == [finds |-> "looked", rechecks |-> FALSE, late |-> FALSE, tells |-> "writesDone", destroys |-> TRUE]
DialogflowStop == [finds |-> "looked", rechecks |-> FALSE, late |-> TRUE,  tells |-> "both",       destroys |-> FALSE]
AwsStop        == [finds |-> "looked", rechecks |-> FALSE, late |-> TRUE,  tells |-> "waits",      destroys |-> FALSE]
LexStop        == [finds |-> "looked", rechecks |-> FALSE, late |-> TRUE,  tells |-> "finish",     destroys |-> FALSE]

StopOf == [google1 |-> GoogleStop, google2 |-> GoogleStop, nuance |-> NuanceStop,
           nvidia |-> NvidiaStop, soniox |-> SonioxStop, cobalt |-> CobaltStop,
           verbio |-> VerbioStop, dialogflow |-> DialogflowStop, aws |-> AwsStop, lex |-> LexStop]

\* writesDone, which gRPC allows once: whether a flag keeps it from being called
\* again; and finish() of the SDK's streamers, which has a flag too.
GoogleEnd     == [once |-> TRUE]
NuanceEnd     == [once |-> TRUE]
NvidiaEnd     == [once |-> TRUE]
SonioxEnd     == [once |-> TRUE]
CobaltEnd     == [once |-> TRUE]
VerbioEnd     == [once |-> TRUE]
DialogflowEnd == [once |-> FALSE]
AwsEnd        == [once |-> TRUE]
LexEnd        == [once |-> TRUE]

EndOf == [google1 |-> GoogleEnd, google2 |-> GoogleEnd, nuance |-> NuanceEnd,
          nvidia |-> NvidiaEnd, soniox |-> SonioxEnd, cobalt |-> CobaltEnd,
          verbio |-> VerbioEnd, dialogflow |-> DialogflowEnd, aws |-> AwsEnd, lex |-> LexEnd]

\* frame: the streamer is looked at before the mutex is tried, or under it.
GoogleFrame     == [looks |-> "before"]
NuanceFrame     == [looks |-> "before"]
NvidiaFrame     == [looks |-> "before"]
SonioxFrame     == [looks |-> "before"]
CobaltFrame     == [looks |-> "before"]
VerbioFrame     == [looks |-> "before"]
DialogflowFrame == [looks |-> "under"]
AwsFrame        == [looks |-> "under"]
LexFrame        == [looks |-> "under"]

FrameOf == [google1 |-> GoogleFrame, google2 |-> GoogleFrame, nuance |-> NuanceFrame,
            nvidia |-> NvidiaFrame, soniox |-> SonioxFrame, cobalt |-> CobaltFrame,
            verbio |-> VerbioFrame, dialogflow |-> DialogflowFrame, aws |-> AwsFrame,
            lex |-> LexFrame]

-----------------------------------------------------------------------------
(* State.                                                                  *)

Reading == {"wait", "read", "result", "utterance", "quit", "finish"}
Working == {"start", "loop", "shut", "clear"}

Channel == [bug : 0..MaxSessions, attached : 0..MaxSessions, hung : BOOLEAN, destroyed : BOOLEAN]
Session == [ptr : BOOLEAN, obj : {"none", "live", "deleted"},
            link : {"none", "asked", "up", "closed"},
            told : BOOLEAN, done : BOOLEAN, ended : BOOLEAN, finished : BOOLEAN,
            utter : BOOLEAN, played : BOOLEAN, joined : BOOLEAN, leaked : BOOLEAN,
            orphan : BOOLEAN, gone : BOOLEAN, owner : {"none", "free", "media"} \cup Callers]
Thread == [pc : {"idle", "init", "add", "find", "lock", "tell", "done", "finish", "join",
                 "remove", "destroy"},
           k : 0..MaxSessions, starts : BOOLEAN]
Media == [pc : {"idle", "enter", "write"}, k : 0..MaxSessions]
Misuses == {"twice", "late", "null", "deleted", "callback", "mutex", "again", "pool"}

\* Invariant: the type of every variable; a call that has looked a session up has
\* one.
TypeOK ==
  /\ vendor \in Vendors /\ mode \in [vad : BOOLEAN, single : BOOLEAN]
  /\ chan \in Channel /\ sess \in [Sessions -> Session]
  /\ made \in 0..MaxSessions
  /\ thread \in [Callers -> Thread]
  /\ \A t \in Callers : thread[t].pc \notin {"idle", "init"} => thread[t].k # NULL
  /\ media \in Media
  /\ reader \in [Sessions -> {"none", "end"} \cup Reading \cup Working]
  /\ hurt \subseteq Sessions \X Misuses

NoSession == [ptr |-> FALSE, obj |-> "none", link |-> "none", told |-> FALSE, done |-> FALSE,
              ended |-> FALSE, finished |-> FALSE, utter |-> FALSE, played |-> FALSE,
              joined |-> FALSE, leaked |-> FALSE, orphan |-> FALSE, gone |-> FALSE,
              owner |-> "none"]
Idle == [pc |-> "idle", k |-> NULL, starts |-> FALSE]
NoFrame == [pc |-> "idle", k |-> NULL]

Init ==
  /\ vendor \in Vendors
  /\ mode \in [vad : InitOf[vendor].vad,
               single : IF ReaderOf[vendor].utterance THEN BOOLEAN ELSE {FALSE}]
  /\ chan = [bug |-> NULL, attached |-> NULL, hung |-> FALSE, destroyed |-> FALSE]
  /\ sess = [k \in Sessions |-> NoSession]
  /\ made = 0
  /\ thread = [t \in Callers |-> Idle]
  /\ media = NoFrame
  /\ reader = [k \in Sessions |-> "none"]
  /\ hurt = {}

Hurt(k, whats) == hurt' = hurt \cup ({k} \X whats)
If(cond, what) == IF cond THEN {what} ELSE {}
IsDeleted(k) == sess[k].obj = "deleted"

-----------------------------------------------------------------------------
(* The streamer.                                                           *)

\* connect(): the thread that waits for it goes on.
Connected(r) == [r EXCEPT !.link = ConnectOf[vendor].link, !.told = vendor \notin Sdk]

\* A streamer as session_init, or the session's thread, makes it.
NewStreamer(r) ==
  LET made0 == [r EXCEPT !.ptr = TRUE, !.obj = "live"] IN
  IF SetupOf[vendor].opens # "no" \/ ~mode.vad THEN Connected(made0) ELSE made0

-----------------------------------------------------------------------------
(* The API: start, stop, and what nuance and lex have besides.             *)

\* switch_core_session_locate, which finds no session that is hung up.
TakesCommand == thread["api"].pc = "idle" /\ ~chan.hung

\* start_capture: a bug in the way is stopped first.
StartCapture ==
  /\ TakesCommand /\ made < MaxSessions
  /\ thread' = [thread EXCEPT !["api"] =
       IF chan.bug # NULL THEN [pc |-> "find", k |-> chan.bug, starts |-> TRUE]
       ELSE [Idle EXCEPT !.pc = "init"]]
  /\ UNCHANGED <<vendor, mode, chan, sess, made, media, reader, hurt>>

\* session_init fails before the thread is created, and what it made is deleted
\* or was never made.
InitFails ==
  /\ thread["api"].pc = "init"
  /\ thread' = [thread EXCEPT !["api"] = Idle]
  /\ UNCHANGED <<vendor, mode, chan, sess, made, media, reader, hurt>>

InitSession ==
  /\ thread["api"].pc = "init"
  /\ LET k == made + 1
         new == [NoSession EXCEPT !.owner = "free"] IN
     /\ made' = k
     /\ sess' = [sess EXCEPT ![k] = IF InitOf[vendor].makes THEN NewStreamer(new) ELSE new]
     /\ reader' = [reader EXCEPT ![k] = IF InitOf[vendor].makes THEN "wait" ELSE "start"]
     /\ thread' = [thread EXCEPT !["api"] = [pc |-> "add", k |-> k, starts |-> FALSE]]
  /\ UNCHANGED <<vendor, mode, chan, media, hurt>>

\* killcb when the bug could not be added: the thread is not told, nor joined.
Killed(r) ==
  IF StartOf[vendor].kills /\ r.ptr
  THEN [r EXCEPT !.ptr = FALSE, !.obj = "deleted", !.orphan = TRUE]
  ELSE [r EXCEPT !.orphan = TRUE]

\* switch_core_media_bug_add, which fails once the call is hung up.
AddBug ==
  /\ thread["api"].pc = "add"
  /\ LET k == thread["api"].k IN
     IF chan.hung
     THEN /\ sess' = [sess EXCEPT ![k] = Killed(@)]
          /\ UNCHANGED chan
     ELSE /\ chan' = [chan EXCEPT !.bug = k, !.attached = k]
          /\ UNCHANGED sess
  /\ thread' = [thread EXCEPT !["api"] = Idle]
  /\ UNCHANGED <<vendor, mode, made, media, reader, hurt>>

\* do_stop.
StopCommand ==
  /\ TakesCommand /\ chan.bug # NULL
  /\ thread' = [thread EXCEPT !["api"] = [Idle EXCEPT !.pc = "find", !.k = chan.bug]]
  /\ UNCHANGED <<vendor, mode, chan, sess, made, media, reader, hurt>>

\* nuance_speech_session_start_timers writes to the stream if there is a streamer.
StartTimers ==
  /\ vendor = "nuance" /\ TakesCommand /\ chan.bug # NULL
  /\ LET k == chan.bug IN
     /\ sess[k].owner = "free"
     /\ Hurt(k, If(sess[k].ptr /\ sess[k].link = "none", "null"))
  /\ UNCHANGED <<vendor, mode, chan, sess, made, thread, media, reader>>

\* aws_lex_session_dtmf, and aws_lex_session_play_done, which leaves the writing
\* to the thread.
LexDtmf ==
  /\ vendor = "lex" /\ TakesCommand /\ chan.bug # NULL
  /\ LET k == chan.bug
         r == sess[k] IN
     /\ r.owner = "free"
     /\ Hurt(k, If(r.ptr /\ IsDeleted(k), "deleted") \cup
                If(r.ptr /\ ~r.told /\ ~r.ended /\ r.link # "up", "null"))
  /\ UNCHANGED <<vendor, mode, chan, sess, made, thread, media, reader>>

LexPlayDone ==
  /\ vendor = "lex" /\ TakesCommand /\ chan.bug # NULL
  /\ LET k == chan.bug IN
     /\ sess[k].owner = "free" /\ sess[k].ptr
     /\ sess' = [sess EXCEPT ![k].played = TRUE]
     /\ Hurt(k, If(IsDeleted(k), "deleted"))
  /\ UNCHANGED <<vendor, mode, chan, made, thread, media, reader>>

-----------------------------------------------------------------------------
(* Hang-up, and session_cleanup or session_stop by either caller t.        *)

\* FreeSWITCH detaches the bug, when no frame is in it, and closes it.
Hangup ==
  /\ ~chan.hung /\ media.pc = "idle"
  /\ chan' = [chan EXCEPT !.hung = TRUE, !.attached = NULL]
  /\ thread' = IF chan.attached = NULL THEN thread
               ELSE [thread EXCEPT !["hup"] = [Idle EXCEPT !.pc = "find", !.k = chan.attached]]
  /\ UNCHANGED <<vendor, mode, sess, made, media, reader, hurt>>

Returned(t) == IF thread[t].starts THEN [Idle EXCEPT !.pc = "init"] ELSE Idle

FoundAlways == FALSE \* mutation: session_stop does not test what it looked up
NoBug == chan.bug = NULL

StopFinds(t) ==
  /\ thread[t].pc = "find"
  /\ thread' = [thread EXCEPT ![t] =
       IF StopOf[vendor].finds = "passed" THEN [@ EXCEPT !.pc = "lock"]
       ELSE IF NoBug THEN Returned(t)
       ELSE [@ EXCEPT !.pc = "lock", !.k = chan.bug]]
  /\ UNCHANGED <<vendor, mode, chan, sess, made, media, reader, hurt>>

\* The mutex is taken; the bug is looked up again, and forgotten.
StopLocks(t) ==
  /\ thread[t].pc = "lock"
  /\ LET k == thread[t].k
         stop == StopOf[vendor] IN
     /\ sess[k].owner = "free" \/ sess[k].gone
     /\ Hurt(k, If(sess[k].gone, "mutex"))
     /\ IF sess[k].gone \/ (stop.rechecks /\ chan.bug = NULL)
        THEN /\ thread' = [thread EXCEPT ![t] = Returned(t)]
             /\ UNCHANGED <<chan, sess>>
        ELSE /\ thread' = [thread EXCEPT ![t].pc = "tell"]
             /\ sess' = [sess EXCEPT ![k].owner = t]
             /\ chan' = IF stop.late THEN chan ELSE [chan EXCEPT !.bug = NULL]
  /\ UNCHANGED <<vendor, mode, made, media, reader>>

\* writesDone(): a streamer that is not connected has its wait cancelled; the
\* flag is tested here and set in StopWritesDone.
LeftWaiting(r) == r \* mutation: writesDone does not cancel the wait for a connection
ToldGrpc(r) == IF r.ptr /\ r.link = "none" THEN [r EXCEPT !.told = TRUE] ELSE r

EndsNothing(r) == FALSE \* mutation: a stop does not end the audio
EndsAudio(r) == r.ptr /\ r.link # "none" /\ ~(r.done /\ EndOf[vendor].once)

StopTellsGrpc(t) ==
  /\ thread[t].pc = "tell" /\ vendor \notin Sdk
  /\ LET k == thread[t].k IN
     /\ sess' = [sess EXCEPT ![k] = ToldGrpc(@)]
     /\ thread' = [thread EXCEPT ![t].pc = IF EndsAudio(sess[k]) THEN "done" ELSE "join"]
  /\ UNCHANGED <<vendor, mode, chan, made, media, reader, hurt>>

StopWritesDone(t) ==
  /\ thread[t].pc = "done"
  /\ LET k == thread[t].k IN
     /\ Hurt(k, If(sess[k].done, "twice"))
     /\ sess' = [sess EXCEPT ![k].done = TRUE]
     /\ thread' = [thread EXCEPT ![t].pc =
          IF StopOf[vendor].tells = "both" /\ ~sess[k].finished THEN "finish" ELSE "join"]
  /\ UNCHANGED <<vendor, mode, chan, made, media, reader>>

\* dialogflow's finish(): its flag was tested in the step before.
StopFinishes(t) ==
  /\ thread[t].pc = "finish"
  /\ LET k == thread[t].k IN
     /\ Hurt(k, If(sess[k].finished, "twice"))
     /\ sess' = [sess EXCEPT ![k].finished = TRUE]
  /\ thread' = [thread EXCEPT ![t].pc = "join"]
  /\ UNCHANGED <<vendor, mode, chan, made, media, reader>>

\* finish() of the SDK's streamers.  It is missed when the thread has not made
\* the streamer yet; aws waits for it, 40 ms at most.
StopTellsSdk(t) ==
  /\ thread[t].pc = "tell" /\ vendor \in Sdk
  /\ LET k == thread[t].k IN
     /\ sess' = [sess EXCEPT ![k].told = @ \/ sess[k].ptr]
     /\ Hurt(k, If(sess[k].ptr /\ IsDeleted(k), "deleted"))
  /\ thread' = [thread EXCEPT ![t].pc = "join"]
  /\ UNCHANGED <<vendor, mode, chan, made, media, reader>>

\* switch_thread_join; the streamer, the resampler and the vad are deleted, and
\* dialogflow, aws and lex, which check for that, forget the bug.
HasEnded(k) == reader[k] = "end"
Cleared(r) == [r EXCEPT !.ptr = FALSE, !.obj = "deleted", !.joined = TRUE]

StopJoins(t) ==
  /\ thread[t].pc = "join"
  /\ LET k == thread[t].k IN
     /\ ~sess[k].ptr \/ HasEnded(k)
     /\ vendor \in Sdk => HasEnded(k)
     /\ Hurt(k, If(sess[k].joined /\ ~StopOf[vendor].late, "again"))
     /\ sess' = [sess EXCEPT ![k] = Cleared(@)]
     /\ chan' = IF StopOf[vendor].late THEN [chan EXCEPT !.bug = NULL] ELSE chan
  /\ thread' = [thread EXCEPT ![t].pc = "remove"]
  /\ UNCHANGED <<vendor, mode, made, media, reader>>

\* switch_core_media_bug_remove waits for the frame that is in the bug; the mutex
\* is left.  On hang-up the bug is removed already.
StopRemoves(t) ==
  /\ thread[t].pc = "remove"
  /\ t = "api" => media.pc = "idle"
  /\ LET k == thread[t].k IN
     /\ chan' = [chan EXCEPT !.attached = IF t = "api" THEN NULL ELSE @]
     /\ sess' = [sess EXCEPT ![k].owner = "free"]
     /\ thread' = [thread EXCEPT ![t] =
          IF StopOf[vendor].destroys THEN [@ EXCEPT !.pc = "destroy"] ELSE Returned(t)]
  /\ UNCHANGED <<vendor, mode, made, media, reader, hurt>>

\* verbio: switch_mutex_destroy.
StopDestroys(t) ==
  /\ thread[t].pc = "destroy"
  /\ LET k == thread[t].k IN
     /\ Hurt(k, If(sess[k].owner # "free" \/ sess[k].gone, "mutex"))
     /\ sess' = [sess EXCEPT ![k].gone = TRUE]
  /\ thread' = [thread EXCEPT ![t] = Returned(t)]
  /\ UNCHANGED <<vendor, mode, chan, made, media, reader>>

-----------------------------------------------------------------------------
(* The media thread.                                                       *)

\* Audio after the end of a single utterance is not wanted.
Wanted(k) == sess[k].ptr /\ ~(mode.single /\ sess[k].utter)
LooksUnder == FrameOf[vendor].looks = "under"

FrameEnters ==
  /\ media.pc = "idle" /\ chan.attached # NULL
  /\ LooksUnder \/ Wanted(chan.attached)
  /\ media' = [pc |-> "enter", k |-> chan.attached]
  /\ UNCHANGED <<vendor, mode, chan, sess, made, thread, reader, hurt>>

\* switch_mutex_trylock: a frame that does not get the mutex is dropped.
GivesUp(k) == sess[k].owner # "free"

FrameGivesUp ==
  /\ media.pc = "enter" /\ GivesUp(media.k)
  /\ media' = NoFrame
  /\ UNCHANGED <<vendor, mode, chan, sess, made, thread, reader, hurt>>

FrameLocks ==
  /\ media.pc = "enter"
  /\ LET k == media.k IN
     /\ sess[k].owner = "free"
     /\ IF LooksUnder /\ (~sess[k].ptr \/ sess[k].finished)
        THEN /\ media' = NoFrame
             /\ UNCHANGED sess
        ELSE /\ media' = [media EXCEPT !.pc = "write"]
             /\ sess' = [sess EXCEPT ![k].owner = "media"]
  /\ UNCHANGED <<vendor, mode, chan, made, thread, reader, hurt>>

\* write(): ignored once an SDK streamer is finished; kept if not connected; on
\* the stream otherwise, which must not have been told that no more comes.
Misused(k) ==
  LET r == sess[k] IN
  If(IsDeleted(k), "deleted") \cup If(r.done, "late") \cup
  If(~ConnectOf[vendor].keeps /\ r.link # "up" /\ ~r.told /\ ~r.ended, "null")

\* With a VAD the frame in which speech starts connects.
FrameWrites ==
  /\ media.pc = "write"
  /\ LET k == media.k
         r == [sess[k] EXCEPT !.owner = IF @ = "media" THEN "free" ELSE @] IN
     /\ Hurt(k, Misused(k))
     /\ \/ sess' = [sess EXCEPT ![k] = r]
        \/ /\ mode.vad /\ r.link = "none"
           /\ sess' = [sess EXCEPT ![k] = Connected(r)]
  /\ media' = NoFrame
  /\ UNCHANGED <<vendor, mode, chan, made, thread, reader>>

-----------------------------------------------------------------------------
(* The far end.                                                            *)

\* The response stream ends: after the last response to audio that is done, when
\* the SDK's stream is closed, or because the far end or the network gives up.
Open(k) == sess[k].link \in {"asked", "up", "closed"} /\ ~sess[k].ended
Answers(k) == sess[k].done \/ sess[k].link = "closed"

FarEndEnds(k) ==
  /\ Open(k)
  /\ Hurt(k, If(vendor \in Sdk /\ IsDeleted(k), "callback"))
  /\ sess' = [sess EXCEPT ![k].ended = TRUE]
  /\ UNCHANGED <<vendor, mode, chan, made, thread, media, reader>>

\* OnStreamReady of the SDK, which does nothing when the call is gone.
StreamReady(k) ==
  /\ sess[k].link = "asked" /\ ~sess[k].ended
  /\ IsDeleted(k) \/ ~chan.hung
  /\ Hurt(k, If(IsDeleted(k), "callback"))
  /\ sess' = [sess EXCEPT ![k].link = IF IsDeleted(k) THEN "closed" ELSE "up"]
  /\ UNCHANGED <<vendor, mode, chan, made, thread, media, reader>>

-----------------------------------------------------------------------------
(* grpc_read_thread.                                                       *)

\* The thread uses the streamer and cb, which lives as long as the call.
Uses(k) == Hurt(k, If(IsDeleted(k), "deleted") \cup If(chan.destroyed, "pool"))

\* waitForConnect: without a connection the thread ends.
ReaderStarts(k) ==
  /\ reader[k] = "wait" /\ sess[k].told
  /\ Uses(k)
  /\ reader' = [reader EXCEPT ![k] = IF sess[k].link = "none" THEN "end" ELSE "read"]
  /\ UNCHANGED <<vendor, mode, chan, sess, made, thread, media>>

\* Read returns a response, and switch_core_session_locate fails once the call is
\* hung up: the thread ends.
ReaderGets(k) ==
  /\ reader[k] = "read" /\ ~sess[k].ended
  /\ Uses(k)
  /\ reader' = [reader EXCEPT ![k] = IF chan.hung THEN "end" ELSE "result"]
  /\ UNCHANGED <<vendor, mode, chan, sess, made, thread, media>>

\* The response is delivered and the session unlocked.
ReaderDelivers(k) ==
  /\ reader[k] = "result"
  /\ reader' = [reader EXCEPT ![k] = "read"]
  /\ UNCHANGED <<vendor, mode, chan, sess, made, thread, media, hurt>>

\* An error response ends verbio's loop; google's error 11 goes on with the
\* session locked.
ReaderGetsError(k) ==
  /\ reader[k] = "result" /\ ReaderOf[vendor].error # "none"
  /\ reader' = [reader EXCEPT ![k] = IF ReaderOf[vendor].error = "leaves" THEN "end" ELSE "read"]
  /\ sess' = [sess EXCEPT ![k].leaked = @ \/ ReaderOf[vendor].error = "keepsLock"]
  /\ UNCHANGED <<vendor, mode, chan, made, thread, media, hurt>>

\* END_OF_SINGLE_UTTERANCE: the flag stops the frames, then writesDone is called
\* without the mutex: its flag is tested here and set in ReaderQuits.
ReaderGetsUtterance(k) ==
  /\ reader[k] = "result" /\ mode.single
  /\ sess' = [sess EXCEPT ![k].utter = TRUE]
  /\ reader' = [reader EXCEPT ![k] = IF sess[k].done THEN "read" ELSE "quit"]
  /\ UNCHANGED <<vendor, mode, chan, made, thread, media, hurt>>

ReaderQuits(k) ==
  /\ reader[k] = "quit"
  /\ Hurt(k, If(sess[k].done, "twice"))
  /\ sess' = [sess EXCEPT ![k].done = TRUE]
  /\ reader' = [reader EXCEPT ![k] = "read"]
  /\ UNCHANGED <<vendor, mode, chan, made, thread, media>>

\* Read has no more: Finish, if the session is still there.
ReaderEnds(k) ==
  /\ reader[k] = "read" /\ sess[k].ended
  /\ Uses(k)
  /\ reader' = [reader EXCEPT ![k] =
       IF ReaderOf[vendor].finishes /\ ~chan.hung /\ ~sess[k].finished THEN "finish" ELSE "end"]
  /\ UNCHANGED <<vendor, mode, chan, sess, made, thread, media>>

ReaderFinishes(k) ==
  /\ reader[k] = "finish"
  /\ Hurt(k, If(sess[k].finished, "twice") \cup If(IsDeleted(k), "deleted"))
  /\ sess' = [sess EXCEPT ![k].finished = TRUE]
  /\ reader' = [reader EXCEPT ![k] = "end"]
  /\ UNCHANGED <<vendor, mode, chan, made, thread, media>>

-----------------------------------------------------------------------------
(* aws_transcribe_thread and lex_thread.                                   *)

\* The thread makes the streamer, and sets cb's pointer to it.
WorkerStarts(k) ==
  /\ reader[k] = "start"
  /\ sess' = [sess EXCEPT ![k] = NewStreamer(@)]
  /\ Hurt(k, If(chan.destroyed, "pool"))
  /\ reader' = [reader EXCEPT ![k] = "loop"]
  /\ UNCHANGED <<vendor, mode, chan, made, thread, media>>

\* processData: it returns when the stream has ended, and in aws when it is
\* woken before the stream is ready; then the streamer is deleted.
Leaves(k) == sess[k].ended \/ (vendor = "aws" /\ sess[k].told /\ sess[k].link \in {"none", "asked"})

WorkerLeaves(k) ==
  /\ reader[k] \in {"loop", "shut"} /\ Leaves(k)
  /\ Hurt(k, If(IsDeleted(k), "deleted"))
  /\ sess' = [sess EXCEPT ![k].obj = "deleted"]
  /\ reader' = [reader EXCEPT ![k] = "clear"]
  /\ UNCHANGED <<vendor, mode, chan, made, thread, media>>

WorkerClears(k) ==
  /\ reader[k] = "clear"
  /\ sess' = [sess EXCEPT ![k].ptr = FALSE]
  /\ Hurt(k, If(chan.destroyed, "pool"))
  /\ reader' = [reader EXCEPT ![k] = "end"]
  /\ UNCHANGED <<vendor, mode, chan, made, thread, media>>

\* finish() was called: the stream is closed if it is there.
WorkerShuts(k) ==
  /\ reader[k] = "loop" /\ sess[k].told /\ ~Leaves(k)
  /\ Hurt(k, If(IsDeleted(k), "deleted"))
  /\ sess' = [sess EXCEPT ![k].link = IF @ = "up" THEN "closed" ELSE @]
  /\ reader' = [reader EXCEPT ![k] = "shut"]
  /\ UNCHANGED <<vendor, mode, chan, made, thread, media>>

\* lex: the end of a playback is written to the stream.
WorkerPlays(k) ==
  /\ reader[k] = "loop" /\ sess[k].played /\ ~sess[k].told /\ ~sess[k].ended
  /\ sess' = [sess EXCEPT ![k].played = FALSE]
  /\ Hurt(k, If(sess[k].link # "up", "null") \cup If(IsDeleted(k), "deleted"))
  /\ UNCHANGED <<vendor, mode, chan, made, thread, media, reader>>

-----------------------------------------------------------------------------
\* FreeSWITCH destroys the call's session, and its pool, when nobody holds it.
Held == \E k \in Sessions : reader[k] \in {"result", "quit", "finish"} \/ sess[k].leaked

Destroy ==
  /\ chan.hung /\ ~chan.destroyed /\ ~Held
  /\ \A t \in Callers : thread[t].pc = "idle"
  /\ chan' = [chan EXCEPT !.destroyed = TRUE, !.bug = NULL]
  /\ UNCHANGED <<vendor, mode, sess, made, thread, media, reader, hurt>>

-----------------------------------------------------------------------------
StartGoesOn == InitFails \/ InitSession \/ AddBug
StopNext(t) ==
  \/ StopFinds(t) \/ StopLocks(t) \/ StopTellsGrpc(t) \/ StopWritesDone(t) \/ StopFinishes(t)
  \/ StopTellsSdk(t) \/ StopJoins(t) \/ StopRemoves(t) \/ StopDestroys(t)
ReaderNext(k) ==
  \/ ReaderStarts(k) \/ ReaderDelivers(k) \/ ReaderGetsError(k) \/ ReaderGetsUtterance(k)
  \/ ReaderQuits(k) \/ ReaderEnds(k) \/ ReaderFinishes(k)
WorkerNext(k) ==
  WorkerStarts(k) \/ WorkerLeaves(k) \/ WorkerClears(k) \/ WorkerShuts(k) \/ WorkerPlays(k)
FrameGoesOn == FrameGivesUp \/ FrameLocks \/ FrameWrites

Next ==
  \/ StartCapture \/ StartGoesOn \/ StopCommand \/ StartTimers \/ LexDtmf \/ LexPlayDone
  \/ Hangup \/ Destroy \/ FrameEnters \/ FrameGoesOn
  \/ \E t \in Callers : StopNext(t)
  \/ \E k \in Sessions : ReaderNext(k) \/ ReaderGets(k) \/ WorkerNext(k) \/ FarEndEnds(k)
                         \/ StreamReady(k)

Spec == Init /\ [][Next]_vars

\* A call that is in progress goes on, and gets the mutex if it is free again and
\* again, between frames 20 ms apart; a frame ends; a session's thread runs; a
\* call that nobody holds any more is destroyed.  The far end ends its responses
\* when it was told that no more audio comes, and the SDK reports the end of a
\* stream that was closed.  Nobody has to start, to stop or to hang up, and the
\* far end need not respond.
FairSpec ==
  /\ Spec
  /\ SF_vars(StartGoesOn \/ StopNext("api")) /\ SF_vars(StopNext("hup"))
  /\ WF_vars(FrameGoesOn) /\ WF_vars(Destroy)
  /\ \A k \in Sessions : /\ WF_vars(ReaderNext(k) \/ WorkerNext(k))
                         /\ WF_vars(Answers(k) /\ FarEndEnds(k))

-----------------------------------------------------------------------------
(* Properties.                                                             *)

\* What may go wrong in a session, by module: google ends a single utterance from
\* the reading thread without the mutex; dialogflow's thread and stop both
\* finish; nuance and lex write to a stream that is not there yet; the SDK
\* modules' thread deletes the streamer without the mutex, while callbacks may
\* be under way; verbio's second stop finds a mutex that is destroyed, and so do
\* the threads of a session whose bug could not be added.
Known(k) ==
  (IF mode.single THEN {"twice", "late"} ELSE {})
  \cup (IF vendor = "dialogflow" THEN {"twice"} ELSE {})
  \cup (IF vendor = "lex" \/ (vendor = "nuance" /\ mode.vad) THEN {"null"} ELSE {})
  \cup (IF vendor \in Sdk THEN {"deleted"} ELSE {})
  \cup (IF vendor = "aws" \/ (vendor = "lex" /\ sess[k].orphan) THEN {"callback"} ELSE {})
  \cup (IF vendor = "verbio" THEN {"mutex", "again"} ELSE {})
  \cup (IF sess[k].orphan THEN {"pool"} ELSE {})
  \cup (IF sess[k].orphan /\ vendor = "dialogflow" THEN {"deleted"} ELSE {})

\* Invariant: the mutex, the second look at the bug and the join keep the stream
\* from being ended twice or written after its end, and the streamer, the mutex
\* and the call's memory from being used when they are gone, but for what Known
\* allows.  Stops, hang-up, frames and the thread all take part.
StreamSafe == \A h \in hurt : h[2] \in Known(h[1])

\* A stop of the SDK modules that waits for a thread nobody told to end, or that
\* lex's stream was not there to be closed for.
Missed ==
  \E k \in Sessions : \/ reader[k] \in {"start", "loop"} /\ ~sess[k].told
                      \/ reader[k] = "shut" /\ sess[k].link # "closed"

\* Liveness: a start, a stop and the close of a hang-up return, although a stop
\* holds the mutex while it waits for the thread and for the far end's last
\* response, and the connection may not have been made; unless it missed.
CallsReturn ==
  \A t \in Callers : thread[t].pc # "idle" ~> (thread[t].pc = "idle" \/ Missed)

\* Liveness: after a hang-up the call's session is destroyed, whatever the thread
\* is doing, unless google's error 11 has left it locked or a stop missed.
SessionEnds ==
  chan.hung ~> (chan.destroyed \/ Missed \/ \E k \in Sessions : sess[k].leaked)
=============================================================================
