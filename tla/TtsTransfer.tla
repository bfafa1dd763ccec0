---------------------------- MODULE TtsTransfer ----------------------------
(***************************************************************************)
(* The seven modules that speak text through an HTTP service               *)
(* (mod_<vendor>_tts): a speech handle is fed a text, libcurl downloads    *)
(* the audio into a circular buffer, and FreeSWITCH reads the buffer until *)
(* the utterance is over or interrupted, and flushes the handle.  The      *)
(* seven are copies of one another; what a copy does differently is stated *)
(* once per vendor (WriteOf, FeedOf, FlushOf, ClearOf) and the control     *)
(* they share is stated of deepgram's.                                     *)
(*                                                                         *)
(* Threads: the session's thread runs feed, read and flush; the module's   *)
(* worker runs asio handlers that call libcurl, which calls write_cb and   *)
(* header_callback.  The handle's mutex protects the middle of read and of *)
(* write_cb and, in playht, the deletion of the buffer; the rest of the    *)
(* handle and the transfers' records are shared without it.  A thread is   *)
(* cut at the mutex and where it uses what it has read before.             *)
(*                                                                         *)
(* Modelled: one handle from open to close that writes a cache file, whose *)
(* feeds are numbered; a transfer, a buffer and a file bear the number of  *)
(* the feed that made them.  The handle is read only after a feed that     *)
(* succeeded.  A call of libcurl is atomic, and a chunk holds at least the *)
(* 44 bytes of a WAV header.                                               *)
(***************************************************************************)
EXTENDS Integers, Sequences

CONSTANTS
  Vendors,    \* the modules a behaviour may be of
  MaxFeeds,   \* bound: texts fed to the handle
  MaxChunks   \* bound: chunks of one download

AllVendors == {"deepgram", "whisper", "playht", "rimelabs", "elevenlabs", "custom", "verbio"}

ASSUME ConstantsAssumption ==
  Vendors \subseteq AllVendors /\ MaxFeeds \in Nat /\ MaxChunks \in Nat

VARIABLES
  vendor,   \* the module
  tts,      \* the handle, <vendor>_t
  conns,    \* ConnInfo_t of each transfer
  bufs,     \* the circular buffers
  files,    \* the cache files, as the C library sees them
  disk,     \* the cache files in the cache folder
  session,  \* the session's thread
  worker,   \* the worker thread
  timer,    \* the asio timer libcurl asked for is armed
  overlapped, badOpen, hurt, told, cut   \* history, see Init

vars == <<vendor, tts, conns, bufs, files, disk, session, worker, timer,
          overlapped, badOpen, hurt, told, cut>>

Feeds == 1..MaxFeeds
NULL == 0
Codes == {0, 200, 400}   \* response_code: none yet, success, any other

-----------------------------------------------------------------------------
(* What each copy does differently.                                        *)

\* write_cb: a WAV stream loses its header with the first chunk, which is
\* counted before the lock; mp3 and ulaw are decoded and counted under it.
\* Two copies do not remember that PLAYBACK_START was sent.
DeepgramWrite   == [wav |-> TRUE,  remembers |-> TRUE]
RimelabsWrite   == [wav |-> TRUE,  remembers |-> TRUE]
VerbioWrite     == [wav |-> TRUE,  remembers |-> FALSE]
WhisperWrite    == [wav |-> FALSE, remembers |-> TRUE]
PlayhtWrite     == [wav |-> FALSE, remembers |-> TRUE]
ElevenlabsWrite == [wav |-> FALSE, remembers |-> TRUE]
CustomWrite     == [wav |-> FALSE, remembers |-> FALSE]

WriteOf == [deepgram |-> DeepgramWrite, rimelabs |-> RimelabsWrite, verbio |-> VerbioWrite,
            whisper |-> WhisperWrite, playht |-> PlayhtWrite,
            elevenlabs |-> ElevenlabsWrite, custom |-> CustomWrite]

\* speech_feed_tts: the parameters without which it fails, and whether an
\* mp3 decoder is built, which may fail too, before there is a transfer.
DeepgramFeed   == [needs |-> {"api_key"},             decoder |-> FALSE]
RimelabsFeed   == [needs |-> {"api_key"},             decoder |-> FALSE]
VerbioFeed     == [needs |-> {"access_token"},        decoder |-> FALSE]
WhisperFeed    == [needs |-> {"api_key", "model_id"}, decoder |-> TRUE]
PlayhtFeed     == [needs |-> {"api_key", "user_id"},  decoder |-> TRUE]
ElevenlabsFeed == [needs |-> {"api_key", "model_id"}, decoder |-> FALSE]
CustomFeed     == [needs |-> {"custom_tts_url"},      decoder |-> TRUE]

FeedOf == [deepgram |-> DeepgramFeed, rimelabs |-> RimelabsFeed, verbio |-> VerbioFeed,
           whisper |-> WhisperFeed, playht |-> PlayhtFeed,
           elevenlabs |-> ElevenlabsFeed, custom |-> CustomFeed]

\* speech_flush_tts: whether the buffer is deleted under the mutex, and when
\* the cache file is removed: if PLAYBACK_START was not sent, or if a transfer
\* was interrupted.
DeepgramFlush   == [locks |-> FALSE, removes |-> "unannounced"]
RimelabsFlush   == [locks |-> FALSE, removes |-> "unannounced"]
WhisperFlush    == [locks |-> FALSE, removes |-> "unannounced"]
PlayhtFlush     == [locks |-> TRUE,  removes |-> "unannounced"]
ElevenlabsFlush == [locks |-> FALSE, removes |-> "unannounced"]
CustomFlush     == [locks |-> FALSE, removes |-> "interrupted"]
VerbioFlush     == [locks |-> FALSE, removes |-> "interrupted"]

FlushOf == [deepgram |-> DeepgramFlush, rimelabs |-> RimelabsFlush, verbio |-> VerbioFlush,
            whisper |-> WhisperFlush, playht |-> PlayhtFlush,
            elevenlabs |-> ElevenlabsFlush, custom |-> CustomFlush]

\* clear<vendor>, after a flush: all of them forget the cache file's name, one
\* also the FILE.
DeepgramClear   == {"cache_filename"}
RimelabsClear   == {"cache_filename"}
VerbioClear     == {"cache_filename"}
WhisperClear    == {"cache_filename"}
PlayhtClear     == {"cache_filename"}
KeepsFile == {"cache_filename"}   \* mutation: the FILE is kept
ElevenlabsClear == {"cache_filename", "file"}
CustomClear     == {"cache_filename"}

ClearOf == [deepgram |-> DeepgramClear, rimelabs |-> RimelabsClear, verbio |-> VerbioClear,
            whisper |-> WhisperClear, playht |-> PlayhtClear,
            elevenlabs |-> ElevenlabsClear, custom |-> CustomClear]

-----------------------------------------------------------------------------
Samples == Feeds \X (1..MaxChunks) \X BOOLEAN  \* transfer, chunk, header cut off

MaybeFeed == Feeds \cup {NULL}
Handles == [conn : MaybeFeed, buffer : MaybeFeed, draining : BOOLEAN, code : Codes,
            reads : {0, 1}, file : MaybeFeed, cache : MaybeFeed, started : BOOLEAN]
Conns == [at : {"none", "leaked", "added", "running", "gone"}, flushed : BOOLEAN,
          file : MaybeFeed, code : Codes, chunks : 0..MaxChunks]
Bufs == [alive : BOOLEAN, data : Seq(Samples)]
Sessions == [pc : {"idle", "feeding", "speaking", "ended", "flushing", "closing"},
             feeds : 0..MaxFeeds, conn : MaybeFeed, complete : BOOLEAN, file : MaybeFeed]
Workers == [pc : {"idle", "write", "insert", "tell", "end", "close", "event"},
            conn : MaybeFeed, buf : MaybeFeed, first : BOOLEAN, file : MaybeFeed,
            last : BOOLEAN]

\* Invariant: the type of every variable.
TypeOK ==
  /\ vendor \in Vendors /\ tts \in Handles
  /\ conns \in [Feeds -> Conns] /\ bufs \in [Feeds -> Bufs]
  /\ files \in [Feeds -> {"none", "open", "closed"}] /\ disk \subseteq Feeds
  /\ session \in Sessions /\ worker \in Workers
  /\ timer \in BOOLEAN /\ overlapped \in BOOLEAN /\ badOpen \in BOOLEAN
  /\ hurt \subseteq Feeds /\ told \subseteq Feeds /\ cut \subseteq Feeds

NoConn == [at |-> "none", flushed |-> FALSE, file |-> NULL, code |-> 0, chunks |-> 0]

\* speech_load and speech_open: no transfer, no buffer, no cache file.
Init ==
  /\ vendor \in Vendors
  /\ tts = [conn |-> NULL, buffer |-> NULL, draining |-> FALSE, code |-> 0, reads |-> 0,
            file |-> NULL, cache |-> NULL, started |-> FALSE]
  /\ conns = [k \in Feeds |-> NoConn]
  /\ bufs = [k \in Feeds |-> [alive |-> FALSE, data |-> <<>>]]
  /\ files = [k \in Feeds |-> "none"]
  /\ disk = {}
  /\ session = [pc |-> "idle", feeds |-> 0, conn |-> NULL, complete |-> FALSE, file |-> NULL]
  /\ worker = [pc |-> "idle", conn |-> NULL, buf |-> NULL, first |-> FALSE,
               file |-> NULL, last |-> FALSE]
  /\ timer = FALSE
  /\ overlapped = FALSE   \* a feed began while a transfer was in libcurl
  /\ badOpen = FALSE      \* a cache file could not be opened
  /\ hurt = {}            \* files written or closed after they were closed
  /\ told = {}            \* files named by a PLAYBACK_START event
  /\ cut = {}             \* transfers flushed before their success was known

historyVars == <<overlapped, badOpen, hurt, told, cut>>

InCurl == {k \in Feeds : conns[k].at \in {"added", "running"}}
MutexFree == worker.pc # "insert"   \* the other sections under it are steps
OK(code) == code \in {0, 200}

-----------------------------------------------------------------------------
(* The session's thread.                                                   *)

KeepsReads(k) == [tts EXCEPT !.draining = FALSE, !.code = 0, !.started = FALSE]   \* mutation: reads is not reset
KeepsStarted(k) == [tts EXCEPT !.draining = FALSE, !.reads = 0, !.code = 0]       \* mutation: playback_start_sent is not reset
KeepsDraining(k) == [tts EXCEPT !.reads = 0, !.code = 0, !.started = FALSE]     \* mutation: draining is not reset
FreshHandle(k) == [tts EXCEPT !.draining = FALSE, !.reads = 0, !.code = 0, !.started = FALSE]

\* <v>_speech_feed_tts and the first half of speech_feed_tts: the handle is
\* reset, the cache file opened, the parameters checked.  A feed that fails
\* here has no transfer and no buffer.
Feed ==
  /\ session.pc = "idle" /\ session.feeds < MaxFeeds
  /\ LET k == session.feeds + 1 IN
     \E opened \in BOOLEAN, given \in SUBSET FeedOf[vendor].needs, decodes \in BOOLEAN :
       /\ decodes \/ FeedOf[vendor].decoder
       /\ session' = [session EXCEPT !.feeds = k, !.pc =
            IF given = FeedOf[vendor].needs /\ decodes THEN "feeding" ELSE "ended"]
       /\ tts' = [FreshHandle(k) EXCEPT !.cache = k, !.file = IF opened THEN k ELSE @]
       /\ files' = [files EXCEPT ![k] = IF opened THEN "open" ELSE "none"]
       /\ disk' = IF opened THEN disk \cup {k} ELSE disk
       /\ badOpen' = (badOpen \/ ~opened)
       /\ overlapped' = (overlapped \/ InCurl # {})
  /\ UNCHANGED <<vendor, conns, bufs, worker, timer, hurt, told, cut>>

\* The second half of speech_feed_tts: the transfer and the buffer, then
\* curl_multi_add_handle, which asks for a timer (multi_timer_cb).  When the
\* resampler or the decoder cannot be set up, the transfer never reaches libcurl.
Begin ==
  /\ session.pc = "feeding"
  /\ LET k == session.feeds IN
     \E added \in BOOLEAN :
       /\ conns' = [conns EXCEPT ![k] = [@ EXCEPT !.at = IF added THEN "added" ELSE "leaked",
                                                   !.file = tts.file]]
       /\ bufs' = [bufs EXCEPT ![k] = [alive |-> TRUE, data |-> <<>>]]
       /\ tts' = [tts EXCEPT !.conn = k, !.buffer = k]
       /\ timer' = (timer \/ added)
       /\ session' = [session EXCEPT !.pc = IF added THEN "speaking" ELSE "ended"]
  /\ UNCHANGED <<vendor, files, disk, worker, historyVars>>

\* speech_read_tts has nothing more to give.
Exhausted == bufs[tts.buffer].data = <<>> /\ tts.draining
Over ==
  \/ ~OK(tts.code)
  \/ tts.conn # NULL /\ conns[tts.conn].flushed
  \/ Exhausted

\* speech_read_tts: FALSE or BREAK, or silence, or audio.
ReadEnds ==
  /\ session.pc = "speaking" /\ MutexFree /\ Over
  /\ session' = [session EXCEPT !.pc = "ended"]
  /\ UNCHANGED <<vendor, tts, conns, bufs, files, disk, worker, timer, historyVars>>

ReadAudio ==
  /\ session.pc = "speaking" /\ MutexFree /\ ~Over
  /\ bufs[tts.buffer].data # <<>>
  /\ bufs' = [bufs EXCEPT ![tts.buffer].data = Tail(@)]
  /\ UNCHANGED <<vendor, tts, conns, files, disk, session, worker, timer, historyVars>>

\* speech_flush_tts, at the end of an utterance or to interrupt it: the
\* outcome and the transfer are read, the buffer is deleted.
Flush ==
  /\ session.pc \in {"speaking", "ended"}
  /\ FlushOf[vendor].locks => MutexFree
  /\ session' = [session EXCEPT !.pc = "flushing", !.conn = tts.conn, !.complete = tts.code = 200]
  /\ bufs' = IF tts.buffer = NULL THEN bufs
             ELSE [bufs EXCEPT ![tts.buffer] = [alive |-> FALSE, data |-> <<>>]]
  /\ tts' = [tts EXCEPT !.buffer = NULL]
  /\ UNCHANGED <<vendor, conns, files, disk, worker, timer, historyVars>>

\* The transfer is told; the file of one that is not complete is to be closed.
Interrupt ==
  /\ session.pc = "flushing"
  /\ LET c == session.conn IN
     /\ session' = [session EXCEPT !.pc = "closing", !.file =
          IF c # NULL /\ ~session.complete THEN conns[c].file ELSE NULL]
     /\ conns' = IF c = NULL \/ conns[c].at = "gone" THEN conns ELSE [conns EXCEPT ![c].flushed = TRUE]
     /\ cut' = IF c = NULL \/ session.complete THEN cut ELSE cut \cup {c}
  /\ UNCHANGED <<vendor, tts, bufs, files, disk, worker, timer, overlapped, badOpen, hurt, told>>

CloseFile(f) ==
  /\ files' = IF f = NULL THEN files ELSE [files EXCEPT ![f] = "closed"]
  /\ hurt' = IF f # NULL /\ files[f] = "closed" THEN hurt \cup {f} ELSE hurt

\* The rest of flush: the file is closed, the cache file removed or kept, and
\* clear<vendor> runs.
Removes ==
  IF FlushOf[vendor].removes = "unannounced" THEN ~tts.started
  ELSE session.conn # NULL /\ ~session.complete

Clear ==
  /\ session.pc = "closing"
  /\ CloseFile(session.file)
  /\ conns' = IF session.file = NULL THEN conns ELSE [conns EXCEPT ![session.conn].file = NULL]
  /\ disk' = IF Removes THEN disk \ {tts.cache} ELSE disk
  /\ tts' = [tts EXCEPT !.cache = NULL, !.file = IF "file" \in ClearOf[vendor] THEN NULL ELSE @]
  /\ session' = [session EXCEPT !.pc = "idle", !.conn = NULL, !.complete = FALSE, !.file = NULL]
  /\ UNCHANGED <<vendor, bufs, worker, timer, overlapped, badOpen, told, cut>>

-----------------------------------------------------------------------------
(* The worker: asio handlers, each a call of curl_multi_socket_action.     *)

\* Whatever called it, libcurl starts the transfers that wait to be started.
Started == [k \in Feeds |-> IF conns[k].at = "added" THEN [conns[k] EXCEPT !.at = "running"]
                                                    ELSE conns[k]]

\* timer_cb.
TimerCb ==
  /\ worker.pc = "idle" /\ timer
  /\ timer' = FALSE
  /\ conns' = Started
  /\ UNCHANGED <<vendor, tts, bufs, files, disk, session, worker, historyVars>>

\* event_cb, header_callback: the status line.
HeaderCb(k) ==
  /\ worker.pc = "idle" /\ conns[k].at = "running" /\ conns[k].code = 0
  /\ \E code \in Codes \ {0} :
       /\ conns' = [Started EXCEPT ![k].code = code]
       /\ tts' = [tts EXCEPT !.code = code]
  /\ UNCHANGED <<vendor, bufs, files, disk, session, worker, timer, historyVars>>

\* event_cb, write_cb up to the lock: the buffer's address is read, a flushed
\* transfer is aborted, a WAV chunk is counted.
GoneOnly(k) == tts.buffer = NULL   \* mutation: the flag is not looked at
FlushedOrGone(k) == conns[k].flushed \/ tts.buffer = NULL

CountsOn == [tts EXCEPT !.reads = @ + 1]   \* mutation: counts every chunk
Counted == [tts EXCEPT !.reads = 1]

WriteCb(k) ==
  /\ worker.pc = "idle" /\ conns[k].at = "running"
  /\ conns[k].code # 0 /\ conns[k].chunks < MaxChunks
  /\ conns' = [Started EXCEPT ![k].chunks = @ + 1]
  /\ IF FlushedOrGone(k)
     THEN /\ worker' = [worker EXCEPT !.pc = "end", !.conn = k]
          /\ UNCHANGED tts
     ELSE /\ worker' = [worker EXCEPT !.pc = "write", !.conn = k, !.buf = tts.buffer,
                                      !.first = WriteOf[vendor].wav /\ tts.reads = 0]
          /\ tts' = IF WriteOf[vendor].wav THEN Counted ELSE tts
  /\ UNCHANGED <<vendor, bufs, files, disk, session, timer, historyVars>>

\* Under the mutex: an error response aborts the transfer, else the chunk goes
\* to the cache file.
WriteFile ==
  /\ worker.pc = "write"
  /\ LET f == conns[worker.conn].file IN
     IF OK(tts.code)
     THEN /\ worker' = [worker EXCEPT !.pc = "insert"]
          /\ hurt' = IF f # NULL /\ files[f] = "closed" THEN hurt \cup {f} ELSE hurt
     ELSE /\ worker' = [worker EXCEPT !.pc = "end", !.buf = NULL, !.first = FALSE]
          /\ UNCHANGED hurt
  /\ UNCHANGED <<vendor, tts, conns, bufs, files, disk, session, timer,
                 overlapped, badOpen, told, cut>>

\* Still under it: the samples go into the buffer whose address was read, which
\* may have been deleted; mp3 and ulaw count the chunk here.
Insert ==
  /\ worker.pc = "insert"
  /\ LET k == worker.conn
         b == worker.buf
         first == worker.first \/ (~WriteOf[vendor].wav /\ tts.reads = 0) IN
     /\ bufs' = IF b # NULL /\ bufs[b].alive
                THEN [bufs EXCEPT ![b].data = Append(@, <<k, conns[k].chunks, worker.first>>)]
                ELSE bufs
     /\ tts' = Counted
     /\ worker' = [worker EXCEPT !.pc = IF first THEN "tell" ELSE "idle",
                                 !.buf = NULL, !.first = FALSE]
  /\ UNCHANGED <<vendor, conns, files, disk, session, timer, historyVars>>

\* After the lock: PLAYBACK_START, unless the session is not found.
Tell ==
  /\ worker.pc = "tell"
  /\ worker' = [worker EXCEPT !.pc = "idle"]
  /\ \/ UNCHANGED <<tts, told>>
     \/ /\ told' = told \cup ({tts.cache} \ {NULL})
        /\ tts' = [tts EXCEPT !.started = WriteOf[vendor].remembers]
  /\ UNCHANGED <<vendor, conns, bufs, files, disk, session, timer, overlapped, badOpen, hurt, cut>>

\* libcurl is done with a transfer: all received, an error, or the time limit.
Finish(k) ==
  /\ worker.pc = "idle" /\ conns[k].at = "running"
  /\ conns' = Started
  /\ worker' = [worker EXCEPT !.pc = "end", !.conn = k]
  /\ UNCHANGED <<vendor, tts, bufs, files, disk, session, timer, historyVars>>

\* check_multi_info: the response code, then cleanupConn begins.  last says
\* that event_cb was the caller and saw no other transfer running.
ClosesComplete(k) == IF conns[k].code = 200 THEN conns[k].file ELSE NULL   \* mutation: flush is left to close it
FileToClose(k) == conns[k].file

CheckMultiInfo ==
  /\ worker.pc = "end"
  /\ LET k == worker.conn IN
     \E last \in BOOLEAN :
       /\ last => InCurl = {k}
       /\ tts' = [tts EXCEPT !.code = conns[k].code]
       /\ worker' = [worker EXCEPT !.pc = "close", !.file = FileToClose(k), !.last = last]
  /\ UNCHANGED <<vendor, conns, bufs, files, disk, session, timer, historyVars>>

\* cleanupConn: the file, the handle's reference, the transfer's record.
NotDraining == [tts EXCEPT !.conn = NULL]   \* mutation: the reader is not told
DetachedHandle == [tts EXCEPT !.conn = NULL, !.draining = TRUE]

GoneConn == [NoConn EXCEPT !.at = "gone"]   \* the record goes back to the pool

CleanupConn ==
  /\ worker.pc = "close"
  /\ CloseFile(worker.file)
  /\ tts' = DetachedHandle
  /\ conns' = [conns EXCEPT ![worker.conn] = GoneConn]
  /\ worker' = [worker EXCEPT !.pc = "event", !.conn = NULL, !.file = NULL]
  /\ UNCHANGED <<vendor, bufs, disk, session, timer, overlapped, badOpen, told, cut>>

\* event_cb: with no transfer running the timer is cancelled.
EventCb ==
  /\ worker.pc = "event"
  /\ timer' = (timer /\ ~worker.last)
  /\ worker' = [worker EXCEPT !.pc = "idle", !.last = FALSE]
  /\ UNCHANGED <<vendor, tts, conns, bufs, files, disk, session, historyVars>>

-----------------------------------------------------------------------------
SessionNext == Feed \/ Begin \/ ReadEnds \/ ReadAudio \/ Flush \/ Interrupt \/ Clear
WorkerGoesOn == WriteFile \/ Insert \/ Tell \/ CheckMultiInfo \/ CleanupConn \/ EventCb
Transfer(k) == HeaderCb(k) \/ WriteCb(k) \/ Finish(k)

Next == SessionNext \/ TimerCb \/ WorkerGoesOn \/ (\E k \in Feeds : Transfer(k))

Spec == Init /\ [][Next]_vars

\* The session's thread goes on with a call it is in, goes on reading and ends
\* an utterance that is over; the worker runs what is ready; libcurl ends every
\* transfer it has started, by CURLOPT_TIMEOUT at the latest.  Nobody has to
\* feed or to interrupt.
SessionGoesOn == Begin \/ ReadEnds \/ ReadAudio \/ (session.pc = "ended" /\ Flush) \/ Interrupt \/ Clear

FairSpec ==
  /\ Spec
  /\ WF_vars(SessionGoesOn)
  /\ WF_vars(TimerCb \/ WorkerGoesOn)
  /\ SF_vars(\E k \in Feeds : Finish(k))

-----------------------------------------------------------------------------
(* Properties.                                                             *)

\* Invariant: as long as no text is fed while an earlier download runs, the
\* buffer holds audio of its own download only, in order, and exactly the first
\* chunk of a WAV stream has lost a header.
CleanAudio ==
  overlapped \/
  \A b \in Feeds : LET d == bufs[b].data IN
    \A i \in DOMAIN d :
      /\ d[i][1] = b
      /\ i > 1 => d[i][2] = d[i - 1][2] + 1
      /\ d[i][3] <=> WriteOf[vendor].wav /\ d[i][2] = 1

\* Action property: a download that flush has stopped adds nothing to the audio
\* of a later utterance, whatever write_cb had read before.
FlushedStaysSilent ==
  [][\A b \in Feeds : Len(bufs'[b].data) > Len(bufs[b].data) => ~conns[worker.conn].flushed]_vars

\* Action property: as long as no text is fed while an earlier download runs,
\* the reader is told that the utterance is over only when its own download has
\* ended and everything it brought has been read.
EndsWithOwnDownload ==
  [][ReadEnds /\ OK(tts.code) =>
       overlapped \/ (conns[session.feeds].at = "gone" /\ bufs[session.feeds].data = <<>>)]_vars

\* Invariant: the cache file of a download that was not cut off is not written
\* or closed again once it is closed, even when downloads overlap, unless a cache
\* file could not be opened and the handle still holds the one before
\* (elevenlabs alone forgets it).
FileSafe == \A f \in hurt : f \in cut \/ (badOpen /\ vendor # "elevenlabs")

\* Invariant: when a download is gone its cache file is closed, whether flush or
\* the worker closed it, and in whatever order they came to it.
FilesSettle == \A k \in Feeds : conns[k].at = "gone" => files[k] # "open"

\* Invariant: a cache file that outlives the flush of its utterance was named by
\* a PLAYBACK_START event, in the five modules that remember having sent one,
\* even when the event came from an earlier download.
CacheAnnounced ==
  WriteOf[vendor].remembers =>
    \A k \in disk : session.feeds > k \/ session.pc = "idle" => k \in told

\* Temporal property: an utterance ends, unless its transfer waits for a timer
\* that event_cb has cancelled.
NotStarted == ~timer /\ \E k \in Feeds : conns[k].at = "added"
UtteranceEnds == (session.pc = "speaking") ~> (session.pc # "speaking" \/ NotStarted)
=============================================================================
