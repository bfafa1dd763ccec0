# A verification model of the jambonz FreeSWITCH modules

The repository is a set of 26 loadable FreeSWITCH modules. Each one attaches a
*media bug* to a call, moves the call's audio to or from a remote service
(websocket, gRPC, HTTP, vendor SDK), and reports what comes back as FreeSWITCH
events. The code is C and C++; almost all that is hard in it is the meeting of
three kinds of threads over a few raw pointers:

* **API threads** run a command (`uuid_audio_fork <uuid> start ...`);
* **media threads** run the bug's callback every 20 ms (`fork_frame`,
  `dub_speech_frame`), and once more when the call ends;
* **service threads** of the module (a libwebsockets loop, a libcurl/asio loop, a
  gRPC read thread) deliver what the network says.

## 1. Inventory

| part | state | operations | meets |
|---|---|---|---|
| `mod_audio_fork/audio_pipe.cpp` **AudioPipe** | `m_state`, `m_wsi`, `m_vhd`, text list, binary queue, PCM buffer; static lists of pending connects, disconnects and writes | `connect`, `bufferForSending`, `binaryFrameToSend`, buffer lock/write/unlock, `close`, `do_graceful_shutdown`; lws callbacks; `initialize`, `deinitialize` | callers through the lists and `lws_cancel_service`; the session through `m_callback` |
| `mod_audio_fork/lws_glue.cpp` **session** | `private_t` (`pAudioPipe`, mutexes, buffers, mark queues, playAudio list), channel privates by bug name | `fork_session_init/connect/cleanup`, `send_text`, `stop_play`, `graceful_shutdown`, `pauseresume`, `fork_frame`, `dub_speech_frame`, `eventCallback` | AudioPipe, media bug, dialplan (events) |
| `mod_dub` **Track**, **AudioProducerFile/Http** | per track: queue of producers, circular buffer, `_stopping`; per producer: status, timer, curl handle, `_notified` | add/remove/silence track, play, say; producer start/stop/reset, curl and timer callbacks; mixing frame | one asio thread, API threads, media thread |
| `mod_{deepgram,whisper,playht,rimelabs,elevenlabs,custom,verbio}_tts` | circular buffer, `conn`, `draining`, `response_code`, cache file | `feed_tts`, `read_tts`, `flush_tts`, `close`; curl write/header callbacks, `check_multi_info` | speech handle (session thread), worker thread |
| `mod_{deepgram,ibm,jambonz,assemblyai}_transcribe`, `mod_aws_transcribe_ws` | a vendor copy of AudioPipe plus `m_finished`, a promise for the far end's close, keep-alive flag | `finish`, `finish_in_silence`, `waitForClose`, session init/stop, reaper thread | as audio_fork, and a detached reaper |
| `mod_{google,nvidia,nuance,soniox,cobalt,verbio}_transcribe`, `mod_dialogflow` | streamer (`m_connected`, `m_writesDone`, connect promise, SimpleBuffer), read thread | frame, connect, read loop, clean-up (`writesDone`, join, delete) | media thread, read thread, VAD |
| `mod_azure_transcribe`, `mod_aws_transcribe`, `mod_aws_lex`, `mod_azure_tts` | vendor SDK recognizer/synthesizer, audio queue | as above with SDK callbacks | SDK threads |
| `mod_vad_detect`, `transcribe_manager`, `crc.h`, `base64`, `vector_math`, parsers | none or one bug | pure | - |

What makes a part correct, and what is hard about it, is listed line by line in
`PROJECT.json` under `hazards`; in short: a connection is resolved and reported
once; a stream is ended once; nobody reaches a deleted object; text stays in order and audio behind the
metadata; the names of marks are reported in the order of their audio; each
temporary file is removed once; a stop ends what it stops.

## 2. Modules

| module | models | lines of code it stands for |
|---|---|---|
| `PipeContract` | what one websocket connection promises its session (abstract) | - |
| `AudioPipe` | `audio_pipe.cpp` whole, and of `lws_glue.cpp` / `mod_audio_fork.c` what decides who may still reach a pipe | lws callback, lists, service thread, API commands |
| `AudioPipeProofs` | inductive invariant and theorems | - |
| `ForkStream` | the far end's audio and marks on their way to the call, playAudio files, clean-up | `processIncomingBinary/Message`, `dub_speech_frame`, `fork_session_cleanup`, `stop_play` |
| `ForkStreamProofs` | inductive invariants and theorems | - |
| `Playlist` | what a track promises those who play on it, up to its removal (abstract) | - |
| `DubTrack` | one track of `mod_dub`: producers, timers, transfers, removal, mixing | `track.cpp`, `ap_file.cpp`, `ap_http.cpp`, `dub_glue.cpp`, the commands of `mod_dub.c` |
| `DubTrackProofs` | inductive invariants and theorems | - |
| `TtsTransfer` | one speech handle of the seven curl TTS modules: feed, read, flush, libcurl's callbacks, buffer, cache file | `mod_*_tts/*_glue.cpp`, `mod_*_tts/mod_*_tts.c` |
| `TtsTransferProofs` | inductive invariants and theorems | - |
| `TranscribePipe` | sessions, pipes and reapers of the five websocket transcribers | `mod_*_transcribe/audio_pipe.cpp`, `*_transcribe_glue.cpp`, `mod_*_transcribe.c` |
| `TranscribePipeProofs` | inductive invariants and theorems | - |
| `SpeechStream` | sessions, streamers and threads of the ten modules over gRPC and the AWS SDK | `*_glue.cpp` of google (both versions), nuance, nvidia, soniox, cobalt, verbio, dialogflow, aws, lex, and their `mod_*.c` |
| `SpeechStreamProofs` | inductive invariant and theorems | - |
| `MC<module>` | an instance of each for TLC | - |

The last three stand for 22 modules that are copies of one another. What the copies
share is written once; where they differ, each copy has a record of its own
(`DeepgramWrite`, `VerbioStop`, ...), mapped to that copy's lines, and a table
(`WriteOf`, `StopOf`, ...) gives an action the record of the module at hand. `vendor`
is a variable chosen by `Init`, so one run and one theorem speak of all copies.

### AudioPipe

One process per thread. A *caller* (API or media thread) is cut wherever the code
stands between two locks: it checks `m_state`, stores into the pipe, appends the
pipe to a static list, wakes the service thread; a *stop* looks the bug up,
unlinks it, may send a final text, and closes. The *service thread* (`svc`) is
polling, sweeping the pending lists (in the order connects, disconnects, writes),
or inside a callback, which is cut where it reads shared state twice:
ESTABLISHED between the state and the event, WRITEABLE between the text check and
the test of `m_state`. `life`, `wsi` and `held`/`private` are the object, what
libwebsockets knows of its socket, and the pointers through which a session
reaches it. Lists that never hold an element twice are sets; the order of
`pendingConnects`, on which `findAndRemovePendingConnect` depends, is kept by
`ahead`. Uses of a deleted pipe or a null pointer are recorded in `faults`, not
cut off, because the program goes on. libwebsockets is external: at most one
handshake result per `wsi`, one CLOSED per open `wsi`, a synchronous failure of
`lws_client_connect_via_info` makes no callback, and `lws_context_destroy` closes
every socket.

### ForkStream

Two threads move one sequence of samples: the websocket thread (`svc`) fills the
pre-buffer and, over a threshold, the playout buffer; the media thread (`DubStep`)
takes frames from it. A mark is a special sample, `AUDIO_MARKER`, and three
deques of names (`inventory`, `inUse`, `cleared`), matched by position only. In
`play` mode the far end sends files instead; they are kept in a list that a
clean-up takes and unlinks. A sample is 0 (sound), -1 (sound that has the value
of a marker) or the number of the mark its marker stands for, so that a property can say
*which* marker was passed while the model's guards, like the code, can only see
*that* it is one (`IsMarker`). `factor` is the resampling ratio: 2 destroys
markers, as the code does.

### DubTrack

One track of a session, from after its addition to its removal. A *caller* plays
(looks the track up without a lock, constructs the producer, pushes it under the
track's `_mutex`, and starts it when it is alone), removes (under `cb->mutex`) or
silences (without it). Two asio *workers*, one for files and one for http, run the
handlers of expired and cancelled timers (`ready`) and libcurl's callbacks, and call
`onPlayDone` when a producer has ended. The *media thread* takes `cb->mutex`, tests
the track and takes a frame out of its buffer. A critical section of `_mutex` is one step;
a thread is cut before and after it, and where it reads `_stopping` or the buffer's size
without it. `shared_ptr`s are the references in `queue` and in the threads' locals: a
producer is destroyed by the step that drops the last (`LastHeld`). Raw pointers (a
timer's or curl's `this`, the track) are not counted, so a thread may meet a deleted
producer or track: that is recorded in `faults`, and the thread abandons what it did.
`stuck` records the three ways a producer ends without telling its track: an empty
last read, a curl handle that was not added, a `start()` that throws in a callback.

`Playlist` is the same without threads, timers and references: the sounds that wait, the
one that plays, and how much is in the buffer. `KeepsPlaylist` says that the track implements it:
the waiting sounds are `queue` but for a front that has had its turn, the one
that plays is a front that was started and has not reported its end, and the limit of the
buffer is a chunk more than the high-water mark. Once `_stopping` is set the list is closed.

The track that silence adds afterwards is another object of the same kind. External: boost::asio
(a handler runs once, with `operation_aborted` if the wait was cancelled before it expired)
and libcurl, whose calls are taken as atomic although `stop()` uses the multi handle
from a caller's thread. Not modelled: the throw for a file name without a known extension
(`ap_file.cpp:79`), which nobody catches.

### TtsTransfer

FreeSWITCH's speech handle is fed a text, read until the utterance is over, and
flushed; the module's *worker* runs asio handlers, which call libcurl, which calls
`header_callback`, `write_cb` and, when a transfer is done, `cleanupConn`. The
session's thread is cut where `read` takes the mutex and between the parts of flush;
`write_cb` is cut between its look at the circular buffer and the mutex
(`deepgram_glue.cpp:409`). Feeds are numbered, and a transfer, a buffer and a file bear
the number of the feed that made them, so that a stale pointer (`d->conn`, `d->file`,
the buffer's address that `write_cb` holds) is a number that is no longer the newest. Audio is a
sequence of `<<feed, chunk, header stripped>>`. Histories: `overlapped` (a text was fed
while an earlier download ran), `badOpen` (a cache file could not be opened while the
handle held an earlier one), `hurt` (files written or closed after they were closed),
`told` (files announced), `cut` (downloads that were interrupted). External: libcurl calls
back on one thread at a time, and its end of a transfer follows its data.

### TranscribePipe

One call and one bug name. The *API caller* starts, or stops; the *hang-up* stops too;
the *media thread* carries a frame; the *service thread* runs lws callbacks, each atomic;
a *reaper* per stopped pipe waits for the far end's close and deletes the pipe.
Callers are cut at the session's mutex, at FreeSWITCH's lock on the bugs (removing a bug
waits for the frame inside it), and between the test of `pAudioPipe` and its next
use. `pending` holds the lists the service thread sweeps. Histories: `hurt` (a
deleted pipe or a destroyed mutex was used, or a pipe deleted before its connection
closed), `robbed` (which pipe's end took which pipe from a session that started
since), `early` (pipes finished before they were connected). Vendor tables say who greets, who
closes first, who reuses a connection, who has a reaper, what is sent at the end.

### SpeechStream

A start makes a session (`cap_cb`) with a streamer, a mutex and a thread, and attaches a bug. In
the gRPC modules the thread reads responses until there are no more; in the SDK
modules it makes the streamer, waits, and deletes it. A stop takes the mutex, tells the streamer
that no more audio comes, and joins the thread with the mutex held. A session's
record keeps `ptr` (`cb->streamer`), `obj` (the streamer itself), `link` (the
connection), `told`/`done`/`ended`/`finished` (what has been said on the stream), and what
became of it. A flag that is tested in one step and set in another (`writesDone` from
two threads) is two steps. `hurt` records each misuse by kind; `Known` says, module by module,
which kinds the code as it stands cannot exclude, and `StreamSafe` that there
are no others. External: gRPC ends the responses after the last one to audio that is
done; the AWS SDK reports when a stream is up and when it has ended.

## 3. Runs

| run | question | bound |
|---|---|---|
| `pipe_calls` | are types, the order of audio and metadata, ownership and the contract kept while all calls interleave on one pipe? | 1 pipe, 2 symmetric callers, every operation, 1 text and 1 packet |
| `pipe_names` | is a request lost or a deleted pipe reachable when two sessions use one name? | 2 pipes, 1 name, 1 caller, PCM and close |
| `pipe_progress` | does each attempt, close and text end? | 1 pipe, 1 caller, texts and stops, module unload, 2 texts |
| `stream_session` | are marks reported in order, matched to markers and, under fairness, played, and files taken once and removed? | both modes, with and without resampler, 2 marks against a limit of 2, frames of 2 samples, 2 files, 2 concurrent clean-ups |
| `stream_clearmarks` (violated) | is a mark dropped without notice only after clearMarks took it? | 2 marks, 1 clean-up |
| `stream_teardown` (violated) | is the pre-buffer alive whenever the websocket thread uses it? | no marks |
| `dub_track` | do sounds play in order, is the track a `Playlist` with a bounded buffer until it is removed, does the mutex protect it? | a file and a looped http producer, 2 symmetric callers with every command, 1 full read or chunk each, marks at 1 chunk, frames of 2 |
| `dub_progress` | does each queued sound have its turn, and does a removed track leave nothing behind? | the same with 1 caller and no looped sound |
| `dub_eof` (violated) | is the track told of each producer that is complete? | 1 file, play only |
| `tts_speech` | is what is heard the utterance's own audio, whole and in order; is a flushed download silent; are cache files closed once and announced; does an utterance end? | 7 modules, 2 utterances, 2 chunks each |
| `ws_session` | do frames, stops and reapers meet nothing deleted, does a late end spare the new session, do calls return, are finished connections released? | 5 modules, 2 pipes |
| `speech_session` | is each stream ended once and used only while it exists, do calls return, is the call's session destroyed? | 10 modules, 2 sessions |

The bounds are as large as the hazards need: two callers give every overtaking of
one thread by another inside a call (a third only repeats a caller's part, as
callers do not talk to each other); two pipes under one name give the old and the new
session, and two utterances, pipes or sessions of a call the one that ends late and the one it
could disturb; two chunks are the first, which loses the header, and one that does not; a
buffer of two samples is filled, over and under both thresholds, in one session; two producers
on one track, each on its own worker, are the one that ends and the one that waits, and two
callers the player and the remover, or two removers. A mark beyond `MAX_MARKS` is
covered by the proof of `ReportedInOrder` only. Deadlock is not checked: calls, commands and
far ends may all stop, and the system then rests; that calls do not wait for each
other is what `CallsReturn` says.

**Fairness.** A thread inside a call finishes it; the service thread finishes a
sweep; `lws_service` serves each ready descriptor and the cancel pipe in every round
(strong fairness, as they are enabled only while it polls); libwebsockets times out
handshakes. The media thread runs every 20 ms and tries the session's mutex anew each
time (strong fairness of `DubStep`). In `DubTrack` timers expire and a worker
that is free runs the ready handlers in turn (strong fairness, as the worker is busy
between them). In `TtsTransfer` the session's
thread and the worker go on, and libcurl ends every transfer it was given
(CURLOPT_TIMEOUT; strong, as the worker is busy in between). In `TranscribePipe` and `SpeechStream` a call in
progress gets the mutex and the bugs' lock if they are free again and again, between
frames 20 ms apart (strong); frames, reapers and the sessions' threads go on (weak); a far
end that was told that no more audio comes answers and ends (weak), except that ibm's
leaves closing to us. Nothing obliges a caller to call, a session
to stop or, before that, a far end to answer, to send or to close.

Three liveness properties name what the code leaves waiting: `UtteranceEnds` excepts a
transfer whose timer `event_cb` cancelled; `PipeReleased` is of pipes that were connected
when they were finished; `CallsReturn` and `SessionEnds` of `SpeechStream` except a stop
that `Missed` its thread and a session that google's error 11 left locked. Section 5
says how each comes about.

## 4. Proofs

`AudioPipeProofs`: `IInv = TypeOK /\ Connecting /\ Reaching` is inductive.
*Connecting* says where each requested pipe is (in the pending list, in the
sweep, or at the socket) and that the scan of `findAndRemovePendingConnect` cannot
drop a waiting request: the entries ahead of an answered request were collected
in the same or an earlier sweep (`SweepOrder`). *Reaching* ties each pointer to
the life of its object and says what a caller inside a call may rely on (`InCall`). From
it follow `TypeOK`, `ConnectRequestKept`, `PendingConnectsLive`, `ReachableIsLive`,
`NullVhdOnlyIfGraceful`, and the refinement of `PipeContract` (`Implements`): for every set of pipes,
names, callers, and all bounds.
For sessions that each have a bug name of their own (`PrivateNames`, as in the run `calls`;
the theorems assume it, since `eventCallback` looks sessions up by name) two more
invariants ride on `IInv`: `Kept` (a session has its pointer as long as the pipe
lives) gives `SessionKeepsItsPipe`, and `Greeting` (a connected session has queued its metadata
once CONNECT_SUCCESS was delivered, and past the texts of a writeable callback
it is on the wire) gives `AudioAfterMetadata`.

`ForkStreamProofs`: `Types` (types and the shape of the message carried
by the service thread), `FilesInv` (a file is captured by one clean-up only, and what
is still in the list was never captured), and `OrderInv` (the concatenation of
cleared, in-use and inventory names is increasing and beyond the last name
reported) are inductive; they give `TypeOK`, `CapturedOnce` and `ReportedInOrder`
for any number of marks, files, clean-ups and any audio. `MarksInv` adds where the markers are: while nothing has
disturbed them, those on their way to the caller (`Underway`) are, in order, those of the names in
use. A frame pops a name per marker it takes and sees only how many there were; that these are the
right names (`FrontMarks`) is a matter of counting two sets in the same order. It gives
`MarkersMatchMarksInUse`, which is stated of the set of markers and of the two orders instead of equal
sequences: what a recursive selection of markers returns could not be proved. From the same
invariant `PlayedIsReported` says of every frame that the marks it reports are those whose markers it
takes, and no others.

`DubTrackProofs`: `IType` (types, and that a thread which is about to start, fill or end
a producer has one) and `MInv` are inductive. `MInv` says of a session that was never silenced:
a remover owns `cb->mutex` from its lookup to the clearing of the slot, and until
it frees it the track is there; the media thread owns the mutex and the track is there
while it mixes; a deleted track is out of reach, as its slot is empty or its remover
is about to clear it. Most steps leave all this alone (`Quiet`). It gives
`MutexKeepsTrack` for any number of callers and producers.
`OneByOne` is inductive until the track is removed. The order of sounds needs all of it: the
queue is the rest of the order in which sounds were queued (`Suffix`); what left it is over and
what is behind its front has not started (`Turns`); one thread at most is about to start or to pop the
front (`Token`), which in turn holds as a sound reports its end once, in the one callback, timer or
transfer that is under way in the whole track (`OneAtWork`); and a sound under construction is new and one
caller's (`Fresh`). That nothing but the front works is also why the size of the buffer, read without the
mutex, is still true when a chunk goes in (`Room`). It gives `QueueOrder`, `BufferBounded`, and, step by
step, `TrackImplementsPlaylist`: a push asks, a start (or its throw) is a turn, `cleanup` ends
a sound, the two insertions fill, a frame drains, and popping a sound that is over is not seen.

`TtsTransferProofs`: seven invariants. `Types` adds to `TypeOK` that a callback under way
belongs to a transfer. `Silence` (the only buffer alive is the handle's; a callback that holds the address of a
buffer that is alive belongs to a transfer that was not flushed; the address is never
of a feed still to come) gives `FlushedStaysSilent`. `Filed` (an open file is in the record of
its own transfer, and whoever is about to close that transfer's file has it; transfers are
made in order) gives `FilesSettle`. `Own` (while no text overlaps, the transfer that speaks is
the last one begun, and nothing it brings is lost sight of before it is gone) gives
`EndsWithOwnDownload`. `Clean` follows the samples (what a chunk still has to write, what lies in
the buffer, and what was read are consecutive parts of one download) and gives `CleanAudio`.
The last two are about the cache file and hold with overlaps too. `Kept`, unless an open has failed in
a module that does not forget the file before: a file passes from its feed to its own
transfer and from there to flush or to the worker, flush takes it only from a transfer that is cut off,
and a closed file's transfer was cut off or is gone. It gives `FileSafe`. `Announced`, in the modules
that remember having sent the event: the name a handle holds is that of its newest text, it was told
once `playback_start_sent` is set, and any other file on disk was told. It gives `CacheAnnounced`.

`TranscribePipeProofs`: `Types` gives `TypeOK`; that a mutex is destroyed twice at
most needs the count of stops that have found the bug. `Safe` says that, where there is a reaper and
no connection is kept, nothing was hurt; who may hold a pointer to a pipe at each stage of
its life (`Pointers`); that the mutex has one owner (`Mutexes`); and that a mutex is destroyed only when no
frame can come any more (`Detaches`). It gives `PipesSafe`. For deepgram `Held` says of a pipe
whose end would take a session's pipe (`Loose`) that either it is the pipe of the session the
channel names, or of the one a caller is about to name or has just let go (`Speaks`), or it is
excused. It gives `NewSessionSpared` for any number of sessions in a row; the third excuse (its
own pipe had been taken) needs three of them, one more than the run has.

`SpeechStreamProofs`: one invariant of eight parts. `Proper` ties a session's record to the
place of its thread (a gRPC streamer lives as long as its reader). `Mutexes` gives the
mutex one owner and keeps frames away from a stream that is done or gone
once its owner has let go. `Bugs` says which session the channel's private bug can name
while a stop is at one, and that a session that is not over is still to be joined:
this is why a call's memory outlives its threads, unless the bug could not be added. `Once` is
the second look at the bug under the mutex. They give `StreamSafe` for any number of starts.

Assumptions are the named ASSUMEs on the constants, and `PrivateNames` where it is said. Left to TLC:
the liveness properties, as they need fairness. Every other property of a run that passes is a theorem.

## 5. Where the code and its documentation part

Three runs are violated, see `findings`. Disagreements met while modelling
that have no run of their own:

* a stop before the handshake is done: `close()` does nothing unless the pipe is
  CONNECTED (`audio_pipe.cpp:600`), so the connection comes up and no session refers
  to it, where `mod_audio_fork/README.md:106` has stop close it.
* the event of an old pipe reaches a new session under the same bug name, as
  `eventCallback` looks sessions up by name (`lws_glue.cpp:498`).
* `stop` with a final text (`mod_audio_fork/README.md:106`): the text is queued and the close
  requested separately; a WRITEABLE that comes between sends the text, one that sees
  DISCONNECTING first may close before it.
* a graceful shutdown followed by stop is closed by the far end only
  (`audio_pipe.cpp:232`).
* text sent by a command before the metadata is queued goes out before it
  (`audio_pipe.cpp:117`, `README.md:111`).
* two overlapping starts under one name (`mod_audio_fork.c:88`).
* a playAudio that arrives after clean-up captured the list leaves a temporary file
  (`lws_glue.cpp:364`, `README.md:156`).
* a stopped http producer has STATUS_STOPPED where `throttling_cb`, `restart_cb` and
  `check_multi_info` look for STATUS_STOPPING (`ap_http.cpp:296`, `604`, `622`); what keeps
  them from acting is only that `stop()` cancels the timer and takes the handle from curl.
* `play` and `say` look a track up without the mutex under which `remove` deletes it (`mod_dub.c:180`).

In the HTTP speech modules (lines of deepgram's copy):

* `write_cb` reads the buffer's address and tests for a flush before it takes the mutex
  (`deepgram_glue.cpp:409`), and flush deletes the buffer without it, in all copies but playht: a
  chunk may go into a deleted buffer. `FlushedStaysSilent` is what remains true: it does
  not reach a later utterance.
* a text fed while an earlier download runs (a handle fed twice without a flush)
  gets that download's end: `d->conn` and `draining` are the handle's (`:122`). `CleanAudio` and
  `EndsWithOwnDownload` are stated without such overlaps.
* `event_cb` cancels the module's one timer when no transfer runs (`:260`), also one that a transfer
  added meanwhile waits for.
* after a failed open of the cache file the handle keeps the FILE of the utterance
  before, which is then written and closed again; elevenlabs alone forgets it.
* a status of 200 is taken for a whole download, so a part of one may stay in the cache (`:905`).
* a first chunk shorter than 44 bytes wraps the count (`:448`).

In the websocket transcribers:

* `finish()` is a no-op while the pipe is connecting (`audio_pipe.cpp:515` of deepgram): its reaper
  waits for a close that nobody asks for, for ever; so too after a connection error.
* deepgram, when a connection is kept, replaces its pipe without the mutex, and a start
  without an API key deletes the connected pipe; ibm's service thread deletes a closed
  pipe without it. `PipesSafe` excepts both.
* except in deepgram the end of an earlier connection clears the pipe of the session
  that started since (`dg_transcribe_glue.cpp:311` has the flag the others lack).
* a resampler that cannot be made deletes a pipe whose request is still pending.
* a stop and the hang-up that have both found the bug destroy the mutex twice.
* deepgram's CloseStream may go out before audio that is still buffered; transcripts that
  come after a stop are discarded. ibm's and aws's stop look the bug up under `MY_BUG_NAME`,
  whatever name the start was given.

In the modules over gRPC and the AWS SDK (each is an entry of `Known`, `Missed` or `leaked`):

* google's read thread calls `writesDone` at the end of a single utterance without the mutex,
  so the flag that `gstreamer.h:91` relies on ("grpc crashes if we call this twice on a
  stream") may be passed twice; dialogflow's streamer has no flag, and its thread and
  its stop both call `finish`.
* google's first interface goes on after error 11 with the session locked
  (`google_glue_v1.cpp:238`): the call's session is never destroyed.
* when the bug cannot be added, as the call was hung up meanwhile, the streamer and its
  thread stay (`mod_google_transcribe.c:347`); dialogflow and lex delete the streamer, although a comment
  in dialogflow's `google_glue.cpp` says "Our contract: while we are reading, cb and
  cb->streamer will not be deleted".
* verbio destroys the mutex after a stop and does not look the bug up again, so an
  overlapping stop meets a destroyed mutex and joins again.
* nuance's start_timers writes to a stream that is not there before speech was detected; lex
  writes frames, dtmf and the end of a playback to one that is not ready.
* lex finished before its stream is ready never closes it, and its stop waits; aws waits 40 ms for the
  streamer to be made (`aws_transcribe_glue.cpp:527`), then joins a thread nobody told.
* the SDK modules' thread deletes the streamer without the mutex, aws with a start of
  the stream possibly in flight.
* `SimpleBuffer::getNextChunk` reads from the write position, so chunks that were never
  written come first unless the buffer is full, and a count of zero wraps (`simple_buffer.h:33`).
* dialogflow and lex keep the files of all calls in one unlocked `multimap`.

## 6. Not modelled

* `mod_azure_tts` and `mod_azure_transcribe`: Microsoft's SDK decides on which
  threads and in which order their callbacks run, and nothing in this repository shows it.
* `mod_vad_detect`: one bug, one thread, one event.
* `SimpleBuffer` and the assembly of fragmented text (`audio_pipe.cpp:151`): data that no
  control depends on; their faults are listed as hazards.
* request signing, base64, CRC tables, vector arithmetic, parsers, the wording of events:
  pure functions of bytes.
* several tracks of one `mod_dub` session, the attaching of its bug, several calls at once
  in the transcribers and the speech modules (calls share the service thread and
  its lists, which AudioPipe models, and nothing else but dialogflow's and lex's file lists).
* the insides of libwebsockets, libcurl, gRPC and the vendor SDKs.

## 7. Plan

1. A contract like PipeContract for the transcribers (each session reports its end
   once), implemented by `TranscribePipe`.
2. Two overlapping starts under one bug name (`mod_audio_fork.c:88`): a second identity
   for the bug that lost its name. A playAudio that arrives after clean-up (`lws_glue.cpp:364`).
3. dialogflow's and lex's audio files, shared by all calls, with two calls.
4. `SimpleBuffer` against a FIFO, with its 32-bit count.
