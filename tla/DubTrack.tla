------------------------------ MODULE DubTrack ------------------------------
(***************************************************************************)
(* A track of mod_dub (track.cpp) and its audio producers (ap_file.cpp,    *)
(* ap_http.cpp).  A track owns a buffer of samples and a queue of          *)
(* producers; the front one fills the buffer, and when it is done its      *)
(* callback onPlayDone pops it and starts the next.                        *)
(*                                                                         *)
(* Threads: API callers, who play on the track and remove it; one asio     *)
(* worker for file producers and one for http producers, which run timer   *)
(* and libcurl callbacks; the media thread, which takes samples out of the *)
(* buffer.  The producers are reference counted (queue, local variables),  *)
(* the track is not, and timer and curl callbacks hold raw pointers.       *)
(*                                                                         *)
(* A thread is cut between critical sections of the track's _mutex and     *)
(* where it reads an unprotected flag that another thread sets.            *)
(***************************************************************************)
EXTENDS Integers, Sequences, FiniteSets

CONSTANTS
  Producers,   \* the AudioProducer objects a behaviour may construct
  None,        \* a null shared_ptr
  KindOf,      \* "file" or "http"
  Looped,      \* the http producers to be restarted when they end
  Callers,     \* threads running an uuid_dub command, or closing the bug
  Commands,    \* the commands they run, a subset of AllCommands
  Low, High,   \* BUFFER_THROTTLE_LOW and _HIGH, in chunks
  Frame,       \* chunks one media frame takes
  MaxBlocks    \* bound: full reads of one file, chunks of one transfer

AllCommands == {"play", "remove", "silence"}
Workers == {"file", "http"}
Threads == Callers \cup Workers

ASSUME ConstantsAssumption ==
  /\ None \notin Producers /\ KindOf \in [Producers -> Workers]
  /\ Looped \subseteq Producers /\ Callers \cap Workers = {}
  /\ Commands \subseteq AllCommands
  /\ "free" \notin Callers /\ "media" \notin Callers
  /\ Low \in Nat /\ High \in Nat /\ Low <= High /\ Frame \in Nat /\ MaxBlocks \in Nat

VARIABLES
  track,     \* the object: "there" or "deleted"
  slot,      \* cb->tracks[i] is not null
  stopping,  \* _stopping
  queue,     \* _apQueue
  level,     \* _buffer.size(), in chunks
  mutex,     \* owner of cb->mutex
  mixing,    \* the media thread is between its test and its copy
  ap,        \* the producers
  ready,     \* timer handlers waiting for a worker
  thread,    \* program counter and local references of each thread
  order,     \* history: the producers in the order they were queued
  started,   \* history: "no", "yes", or "threw" of start()
  stuck,     \* history: producers that ended without a notification
  silenced,  \* history: a silence command ran
  faults     \* history: undefined behaviour met

trackVars == <<track, slot, stopping, queue, level>>
sessionVars == <<mutex, mixing>>
histVars == <<order, started, stuck, silenced, faults>>
vars == <<trackVars, sessionVars, ap, ready, thread, histVars>>

Status == {"NONE", "AWAITING_RESTART", "IN_PROGRESS", "PAUSED", "COMPLETE",
           "FAILED", "STOPPED"}
Waits == {"read", "add", "throttle", "restart"}      \* what a timer is for
Maybe == Producers \cup {None}

Idle == [at |-> "idle", this |-> None, done |-> None, next |-> None, todo |-> <<>>]

Live(p) == ap[p].life = "live"
Members(s) == {s[i] : i \in DOMAIN s}

\* The shared_ptr<AudioProducer> in a thread's locals.  (Of the two in the
\* record, "this" is a raw pointer when a worker runs.)
Held(t) == ({thread[t].done, thread[t].next} \cup Members(thread[t].todo)
            \cup (IF t \in Callers THEN {thread[t].this} ELSE {})) \ {None}
HeldElsewhere(t) == Members(queue) \cup UNION {Held(u) : u \in Threads \ {t}}

Producer == [life : {"none", "live", "deleted"}, status : Status, notified : BOOLEAN,
             open : BOOLEAN, timer : Waits \cup {"off"}, blocks : Nat,
             curl : {"none", "running", "paused"}]
Handler == [p : Producers, what : Waits, aborted : BOOLEAN]
Thread == [at : {"idle", "found", "push", "start", "played", "pop", "next", "release",
                 "insert", "insertLast", "complete", "failed",
                 "flag", "swap", "stop", "delete", "stopAgain", "free", "clear"},
           this : Maybe, done : Maybe, next : Maybe, todo : Seq(Producers)]

TypeOK ==
  /\ track \in {"there", "deleted"} /\ slot \in BOOLEAN /\ stopping \in BOOLEAN
  /\ queue \in Seq(Producers) /\ level \in Nat
  /\ mutex \in Callers \cup {"free", "media"} /\ mixing \in BOOLEAN
  /\ ap \in [Producers -> Producer] /\ ready \subseteq Handler
  /\ thread \in [Threads -> Thread]
  /\ order \in Seq(Producers) /\ started \in [Producers -> {"no", "yes", "threw"}]
  /\ stuck \subseteq Producers /\ silenced \in BOOLEAN
  /\ faults \subseteq {"track_deleted", "mix_deleted", "double_delete",
                       "producer_deleted", "closed_file", "terminate"}

Init ==
  /\ track = "there" /\ slot = TRUE /\ stopping = FALSE /\ queue = <<>> /\ level = 0
  /\ mutex = "free" /\ mixing = FALSE
  /\ ap = [p \in Producers |->
             [life |-> "none", status |-> "NONE", notified |-> FALSE, open |-> FALSE,
              timer |-> "off", blocks |-> 0, curl |-> "none"]]
  /\ ready = {} /\ thread = [t \in Threads |-> Idle]
  /\ order = <<>> /\ started = [p \in Producers |-> "no"] /\ stuck = {}
  /\ silenced = FALSE /\ faults = {}

-----------------------------------------------------------------------------
(* Producers and timers.                                                   *)

Goes(t, at) == thread' = [thread EXCEPT ![t].at = at]

\* timer.cancel(): a pending handler will run with operation_aborted.
Aborted(D) == {[p |-> p, what |-> ap[p].timer, aborted |-> TRUE] :
                 p \in {q \in D : ap[q].timer # "off"}}

\* expires_from_now and async_wait, which cancel an earlier wait.
Arm(p, what, producer) ==
  /\ ap' = [ap EXCEPT ![p] = [producer EXCEPT !.timer = what]]
  /\ ready' = ready \cup Aborted({p})

\* reset(): file, decoder and curl handle are closed, the timer is cancelled.
Closed(r) == [r EXCEPT !.status = "NONE", !.open = FALSE, !.curl = "none", !.timer = "off"]

Destroyed(r) == [Closed(r) EXCEPT !.life = "deleted"]

\* start(), which may throw before it changes anything that is looked at later.
Starts(p) ==
  /\ Arm(p, IF KindOf[p] = "file" THEN "read" ELSE "add",
         [ap[p] EXCEPT !.open = TRUE, !.status = "AWAITING_RESTART", !.blocks = 0])
  /\ started' = [started EXCEPT ![p] = "yes"]
Throws(p) ==
  /\ started' = [started EXCEPT ![p] = "threw"]
  /\ UNCHANGED <<ap, ready>>

Expire(p) ==
  /\ ap[p].timer # "off"
  /\ ready' = ready \cup {[p |-> p, what |-> ap[p].timer, aborted |-> FALSE]}
  /\ ap' = [ap EXCEPT ![p].timer = "off"]
  /\ UNCHANGED <<trackVars, sessionVars, thread, histVars>>

\* The producers nobody but the thread refers to.
Leaked(t) == {}                                     \* mutation: a lost reference
LastHeld(t) == {p \in Held(t) : Live(p)} \ HeldElsewhere(t)

\* A thread leaves a function: producers only it referred to are destroyed,
\* and their reset() locks the track's mutex.
Release(t) ==
  LET D == LastHeld(t) IN
  /\ thread[t].at = "release"
  /\ thread' = [thread EXCEPT ![t] = Idle]
  /\ ap' = [p \in Producers |-> IF p \in D THEN Destroyed(ap[p]) ELSE ap[p]]
  /\ ready' = ready \cup Aborted(D)
  /\ faults' = IF D # {} /\ track = "deleted" THEN faults \cup {"track_deleted"} ELSE faults
  /\ UNCHANGED <<trackVars, sessionVars, order, started, stuck, silenced>>

-----------------------------------------------------------------------------
(* playOnTrack, sayOnTrack: no lock is held from the lookup on.            *)

Play(c, p) ==
  /\ "play" \in Commands /\ thread[c] = Idle /\ ap[p].life = "none"
  /\ \A d \in Callers : thread[d].this # p
  /\ slot
  /\ thread' = [thread EXCEPT ![c].at = "found", ![c].this = p]
  /\ UNCHANGED <<trackVars, sessionVars, ap, ready, histVars>>

Construct(c) ==
  /\ thread[c].at = "found" /\ track = "there"
  /\ IF stopping
     THEN thread' = [thread EXCEPT ![c] = Idle] /\ UNCHANGED ap
     ELSE Goes(c, "push") /\ ap' = [ap EXCEPT ![thread[c].this].life = "live"]
  /\ UNCHANGED <<trackVars, sessionVars, ready, histVars>>

\* startIt: the queue was empty before.
StartAlways(q) == TRUE                              \* mutation: no test
StartNow(q) == Len(q) = 1

Push(c) ==
  /\ thread[c].at = "push" /\ track = "there"
  /\ queue' = Append(queue, thread[c].this)
  /\ order' = Append(order, thread[c].this)
  /\ Goes(c, IF StartNow(queue') THEN "start" ELSE "release")
  /\ UNCHANGED <<track, slot, stopping, level, sessionVars, ap, ready, started, stuck, silenced, faults>>

StartIt(c) ==
  /\ thread[c].at = "start"
  /\ \/ Starts(thread[c].this) /\ Goes(c, "release")
     \/ Throws(thread[c].this) /\ Goes(c, "played")
  /\ UNCHANGED <<trackVars, sessionVars, order, stuck, silenced, faults>>

-----------------------------------------------------------------------------
(* onPlayDone, called by a worker or, when start() threw, by the caller.   *)

PlayDone(t) ==
  /\ thread[t].at = "played" /\ track = "there"
  /\ Goes(t, IF stopping THEN "release" ELSE "pop")
  /\ UNCHANGED <<trackVars, sessionVars, ap, ready, histVars>>

Pop(t) ==
  /\ thread[t].at = "pop" /\ track = "there"
  /\ LET rest == IF queue = <<>> THEN <<>> ELSE Tail(queue)
     IN  /\ queue' = rest
         /\ thread' = [thread EXCEPT
              ![t].done = IF queue = <<>> THEN None ELSE Head(queue),
              ![t].next = IF rest = <<>> THEN None ELSE Head(rest),
              ![t].at = IF rest = <<>> THEN "release" ELSE "next"]
  /\ UNCHANGED <<track, slot, stopping, level, sessionVars, ap, ready, histVars>>

\* The throw of start() leaves onPlayDone: threadFunc catches it in a worker,
\* nobody does in a caller's catch block.
StartNext(t) ==
  /\ thread[t].at = "next"
  /\ \/ /\ Starts(thread[t].next) /\ Goes(t, "release")
        /\ UNCHANGED <<stuck, faults>>
     \/ /\ Throws(thread[t].next) /\ stuck' = stuck \cup {thread[t].next}
        /\ Goes(t, "release")
        /\ faults' = IF t \in Workers THEN faults ELSE faults \cup {"terminate"}
  /\ UNCHANGED <<trackVars, sessionVars, order, silenced>>

\* notifyDone: once.
OnErrorOnly(w) == thread[w].at = "failed"           \* mutation: errors alone
Notifies(w) == ~ap[thread[w].this].notified

\* cleanup(): the one notification of a producer, its reset() under _mutex.
Cleanup(w) ==
  LET p == thread[w].this
      status == IF thread[w].at = "complete" THEN "COMPLETE" ELSE "FAILED" IN
  /\ thread[w].at \in {"complete", "failed"} /\ track = "there" /\ Live(p)
  /\ ap' = [ap EXCEPT ![p] = [Closed(@) EXCEPT !.status = status, !.notified = TRUE]]
  /\ ready' = ready \cup Aborted({p})
  /\ thread' = [thread EXCEPT ![w] =
       IF Notifies(w) THEN [Idle EXCEPT !.at = "played"] ELSE Idle]
  /\ UNCHANGED <<trackVars, sessionVars, histVars>>

-----------------------------------------------------------------------------
(* File producers: read_cb.                                                *)

\* A worker takes a handler of a producer that still exists.
Takes(h, what) ==
  /\ thread[KindOf[h.p]] = Idle /\ h \in ready /\ h.what = what /\ Live(h.p)

InProgress(p) ==
  [ap[p] EXCEPT !.status = IF @ = "AWAITING_RESTART" THEN "IN_PROGRESS" ELSE @]

ReadStopped(h) ==
  /\ Takes(h, "read") /\ ap[h.p].status = "STOPPED"
  /\ ready' = ready \ {h}
  /\ UNCHANGED <<trackVars, sessionVars, ap, thread, histVars>>

ReadAborted(h) ==
  /\ Takes(h, "read") /\ ap[h.p].status # "STOPPED" /\ h.aborted
  /\ ready' = ready \ {h} /\ ap' = [ap EXCEPT ![h.p] = InProgress(h.p)]
  /\ thread' = [thread EXCEPT !["file"] = [Idle EXCEPT !.at = "failed", !.this = h.p]]
  /\ UNCHANGED <<trackVars, sessionVars, histVars>>

\* The buffer is read without the mutex.
Reads(h) == /\ Takes(h, "read") /\ ap[h.p].status # "STOPPED" /\ ~h.aborted
            /\ track = "there"

ReadLater(h) ==
  /\ Reads(h) /\ level >= Low
  /\ ap' = [ap EXCEPT ![h.p] = [InProgress(h.p) EXCEPT !.timer = "read"]]
  /\ ready' = (ready \ {h}) \cup Aborted({h.p})
  /\ UNCHANGED <<trackVars, sessionVars, thread, histVars>>

\* fread returns a full buffer or fewer bytes, which is the end of the file.
ReadSome(h) ==
  /\ Reads(h) /\ level < Low /\ ap[h.p].open
  /\ \E at \in {"insert", "insertLast"} :
       /\ at = "insert" => ap[h.p].blocks < MaxBlocks
       /\ thread' = [thread EXCEPT !["file"] = [Idle EXCEPT !.at = at, !.this = h.p]]
  /\ ready' = ready \ {h} /\ ap' = [ap EXCEPT ![h.p] = InProgress(h.p)]
  /\ UNCHANGED <<trackVars, sessionVars, histVars>>

\* fread returns nothing: the status says COMPLETE, nobody is told.
ReadNothing(h) ==
  /\ Reads(h) /\ level < Low /\ ap[h.p].open
  /\ ap' = [ap EXCEPT ![h.p].status = "COMPLETE"]
  /\ ready' = ready \ {h} /\ stuck' = stuck \cup {h.p}
  /\ UNCHANGED <<trackVars, sessionVars, thread, order, started, silenced, faults>>

\* The samples go into the buffer; the last ones end the producer.
Insert ==
  LET p == thread["file"].this
      last == thread["file"].at = "insertLast" IN
  /\ thread["file"].at \in {"insert", "insertLast"} /\ track = "there" /\ Live(p)
  /\ level' = level + 1
  /\ IF last
     THEN /\ ap' = [ap EXCEPT ![p].status = "COMPLETE"]
          /\ Goes("file", "complete") /\ UNCHANGED ready
     ELSE /\ Arm(p, "read", [ap[p] EXCEPT !.blocks = @ + 1])
          /\ thread' = [thread EXCEPT !["file"] = Idle]
  /\ UNCHANGED <<track, slot, stopping, queue, sessionVars, histVars>>

-----------------------------------------------------------------------------
(* Http producers: timer callbacks and libcurl's.                          *)

\* addCurlHandle looks at the status only; a failure is logged.
Add(h) ==
  /\ Takes(h, "add") /\ ready' = ready \ {h}
  /\ \/ /\ ap[h.p].status = "AWAITING_RESTART"
        /\ ap' = [ap EXCEPT ![h.p].curl = "running"] /\ UNCHANGED stuck
     \/ /\ ap[h.p].status = "AWAITING_RESTART"
        /\ stuck' = stuck \cup {h.p} /\ UNCHANGED ap
     \/ /\ ap[h.p].status # "AWAITING_RESTART" /\ UNCHANGED <<ap, stuck>>
  /\ UNCHANGED <<trackVars, sessionVars, thread, order, started, silenced, faults>>

AboveByOne == level > High + 1                      \* mutation: off by one
AboveHigh == level > High

\* A curl callback.  The tests of write_cb and check_multi_info for a stopped
\* producer never succeed: stop() takes the handle from curl before it sets
\* the status, and it sets STOPPED where they test STOPPING.
Transfers(p) == /\ thread["http"] = Idle /\ Live(p) /\ ap[p].curl = "running"
                /\ track = "there"

WriteCb(p) ==
  /\ Transfers(p) /\ ~AboveHigh /\ ap[p].blocks < MaxBlocks
  /\ level' = level + 1 /\ ap' = [ap EXCEPT ![p].blocks = @ + 1]
  /\ UNCHANGED <<track, slot, stopping, queue, sessionVars, ready, thread, histVars>>

WritePause(p) ==
  /\ Transfers(p) /\ AboveHigh
  /\ Arm(p, "throttle", [ap[p] EXCEPT !.curl = "paused", !.status = "PAUSED"])
  /\ UNCHANGED <<trackVars, sessionVars, thread, histVars>>

Throttle(h) ==
  /\ Takes(h, "throttle") /\ ~h.aborted /\ track = "there"
  /\ IF level < Low
     THEN /\ ap' = [ap EXCEPT ![h.p].curl = IF ap[h.p].open THEN "running" ELSE @]
          /\ ready' = ready \ {h}
     ELSE /\ ap' = [ap EXCEPT ![h.p].timer = "throttle"]
          /\ ready' = (ready \ {h}) \cup Aborted({h.p})
  /\ UNCHANGED <<trackVars, sessionVars, thread, histVars>>

\* check_multi_info: the response was 200 and the audio is looped, or it is over.
TransferLoops(p) ==
  /\ Transfers(p) /\ p \in Looped
  /\ Arm(p, "restart", [ap[p] EXCEPT !.curl = "none"])
  /\ UNCHANGED <<trackVars, sessionVars, thread, histVars>>

TransferEnds(p) ==
  /\ Transfers(p)
  /\ thread' = [thread EXCEPT !["http"] = [Idle EXCEPT !.at = "complete", !.this = p]]
  /\ ap' = [ap EXCEPT ![p].curl = "none"]
  /\ UNCHANGED <<trackVars, sessionVars, ready, histVars>>

Restart(h) ==
  /\ Takes(h, "restart") /\ ~h.aborted /\ track = "there"
  /\ \/ /\ ap' = [ap EXCEPT ![h.p] = [Closed(@) EXCEPT !.open = TRUE, !.timer = "add",
                                      !.status = "AWAITING_RESTART", !.blocks = 0]]
        /\ UNCHANGED stuck
     \/ /\ ap' = [ap EXCEPT ![h.p] = Closed(@)] /\ stuck' = stuck \cup {h.p}
  /\ ready' = (ready \ {h}) \cup Aborted({h.p})
  /\ UNCHANGED <<trackVars, sessionVars, thread, order, started, silenced, faults>>

\* throttling_cb and restart_cb of a cancelled timer.
Cancelled(h) ==
  /\ Takes(h, h.what) /\ h.what \in {"throttle", "restart"} /\ h.aborted
  /\ ready' = ready \ {h}
  /\ UNCHANGED <<trackVars, sessionVars, ap, thread, histVars>>

-----------------------------------------------------------------------------
(* removeTrack and the end of the session hold cb->mutex; silenceTrack     *)
(* removes the track without it (the track it adds then is another).       *)

TakeAnyway == TRUE                                  \* mutation: no lock
LockFree == mutex = "free"

Remove(c) ==
  /\ "remove" \in Commands /\ thread[c] = Idle /\ LockFree /\ slot
  /\ mutex' = c /\ Goes(c, "flag")
  /\ UNCHANGED <<trackVars, mixing, ap, ready, histVars>>

Silence(c) ==
  /\ "silence" \in Commands /\ thread[c] = Idle /\ slot
  /\ silenced' = TRUE /\ Goes(c, "flag")
  /\ UNCHANGED <<trackVars, sessionVars, ap, ready, order, started, stuck, faults>>

Flag(c) ==
  /\ thread[c].at = "flag" /\ track = "there"
  /\ stopping' = TRUE /\ Goes(c, "swap")
  /\ UNCHANGED <<track, slot, queue, level, sessionVars, ap, ready, histVars>>

\* removeAllAudio takes the queue, and once more in the destructor.
Swap(c) ==
  /\ thread[c].at \in {"swap", "delete"} /\ track = "there"
  /\ queue' = <<>>
  /\ thread' = [thread EXCEPT ![c].todo = queue,
                              ![c].at = IF @ = "swap" THEN "stop" ELSE "stopAgain"]
  /\ UNCHANGED <<track, slot, stopping, level, sessionVars, ap, ready, histVars>>

\* stop(), whose notification finds _stopping set; then the reference is dropped.
StopOne(c) ==
  /\ thread[c].at \in {"stop", "stopAgain"} /\ thread[c].todo # <<>> /\ track = "there"
  /\ LET p == Head(thread[c].todo)
         stopped == [Closed(ap[p]) EXCEPT !.status = "STOPPED", !.notified = TRUE]
         rest == Members(Tail(thread[c].todo))
     IN  ap' = [ap EXCEPT ![p] = IF p \in HeldElsewhere(c) \cup rest
                                 THEN stopped ELSE Destroyed(stopped)]
  /\ ready' = ready \cup Aborted({Head(thread[c].todo)})
  /\ thread' = [thread EXCEPT ![c].todo = Tail(@)]
  /\ UNCHANGED <<trackVars, sessionVars, histVars>>

AllStopped(c) ==
  /\ thread[c].at \in {"stop", "stopAgain"} /\ thread[c].todo = <<>>
  /\ Goes(c, IF thread[c].at = "stop" THEN "delete" ELSE "free")
  /\ UNCHANGED <<trackVars, sessionVars, ap, ready, histVars>>

\* The members of a Track go with it: a sound that was queued after
\* removeAllAudio is destroyed, unless a thread still refers to it.
OnlyQueued == {p \in Members(queue) : Live(p)} \ UNION {Held(t) : t \in Threads}

Free(c) ==
  /\ thread[c].at = "free" /\ track = "there"
  /\ track' = "deleted" /\ queue' = <<>> /\ Goes(c, "clear")
  /\ ap' = [p \in Producers |-> IF p \in OnlyQueued THEN Destroyed(ap[p]) ELSE ap[p]]
  /\ ready' = ready \cup Aborted(OnlyQueued)
  /\ UNCHANGED <<slot, stopping, level, sessionVars, histVars>>

Clear(c) ==
  /\ thread[c].at = "clear"
  /\ slot' = FALSE /\ mutex' = IF mutex = c THEN "free" ELSE mutex
  /\ thread' = [thread EXCEPT ![c] = Idle]
  /\ UNCHANGED <<track, stopping, queue, level, mixing, ap, ready, histVars>>

-----------------------------------------------------------------------------
(* The media thread: dub_speech_frame.                                     *)

FindActive ==
  /\ ~mixing /\ LockFree /\ slot
  /\ track = "there" /\ ~stopping /\ level > 0
  /\ mixing' = TRUE /\ mutex' = "media"
  /\ UNCHANGED <<trackVars, ap, ready, thread, histVars>>

\* retrieveAndClearAudio takes what there is, at most a frame.
TakesFrame == level - Frame                         \* mutation: no std::min
Remaining == IF level > Frame THEN level - Frame ELSE 0

Mix ==
  /\ mixing /\ track = "there"
  /\ level' = Remaining
  /\ mixing' = FALSE /\ mutex' = "free"
  /\ UNCHANGED <<track, slot, stopping, queue, ap, ready, thread, histVars>>

-----------------------------------------------------------------------------
(* Undefined behaviour: recorded, and the thread leaves what it was doing. *)

Faulty(kind) == faults' = faults \cup {kind}
              /\ UNCHANGED <<order, started, stuck, silenced>>

UsesTrack(t) ==
  \/ thread[t].at \in {"found", "push", "played", "pop", "insert", "insertLast",
                       "complete", "failed", "flag", "swap"}
  \/ thread[t].at \in {"stop", "stopAgain"} /\ thread[t].todo # <<>>

IntoDeletedTrack(t) ==
  /\ track = "deleted"
  /\ \/ UsesTrack(t) /\ Faulty("track_deleted")
     \/ thread[t].at \in {"delete", "free"} /\ Faulty("double_delete")
  /\ thread' = [thread EXCEPT ![t] = Idle]
  /\ mutex' = IF mutex = t THEN "free" ELSE mutex
  /\ UNCHANGED <<trackVars, mixing, ap, ready>>

IntoDeletedProducer(w) ==
  /\ thread[w].at \in {"insert", "insertLast", "complete", "failed"}
  /\ ~Live(thread[w].this) /\ track = "there"
  /\ Faulty("producer_deleted") /\ thread' = [thread EXCEPT ![w] = Idle]
  /\ UNCHANGED <<trackVars, sessionVars, ap, ready>>

\* A handler that runs after its producer, or the track it refers to, is gone.
LateHandler(h) ==
  /\ thread[KindOf[h.p]] = Idle /\ h \in ready
  /\ \/ ~Live(h.p) /\ Faulty("producer_deleted")
     \/ /\ Live(h.p) /\ track = "deleted" /\ h.what # "add" /\ ~h.aborted
        /\ (h.what = "read" => ap[h.p].status # "STOPPED")
        /\ Faulty("track_deleted")
  /\ ready' = ready \ {h}
  /\ UNCHANGED <<trackVars, sessionVars, ap, thread>>

\* A curl callback for a producer whose track is gone.
LateTransfer(p) ==
  /\ thread["http"] = Idle /\ Live(p) /\ ap[p].curl = "running" /\ track = "deleted"
  /\ Faulty("track_deleted") /\ ap' = [ap EXCEPT ![p].curl = "none"]
  /\ UNCHANGED <<trackVars, sessionVars, ready, thread>>

\* reset() closed the file between the test of the status and fread.
ReadClosed(h) ==
  /\ Reads(h) /\ level < Low /\ ~ap[h.p].open
  /\ Faulty("closed_file") /\ ready' = ready \ {h}
  /\ UNCHANGED <<trackVars, sessionVars, ap, thread>>

MixDeleted ==
  /\ track = "deleted" /\ (mixing \/ (LockFree /\ slot))
  /\ Faulty("mix_deleted") /\ mixing' = FALSE /\ mutex' = "free"
  /\ UNCHANGED <<trackVars, ap, ready, thread>>

-----------------------------------------------------------------------------
PlayStep(c) == Construct(c) \/ Push(c) \/ StartIt(c)
RemoveStep(c) == Flag(c) \/ Swap(c) \/ StopOne(c) \/ AllStopped(c) \/ Free(c) \/ Clear(c)
DoneStep(t) == PlayDone(t) \/ Pop(t) \/ StartNext(t) \/ Release(t) \/ IntoDeletedTrack(t)
WorkerStep(w) == Cleanup(w) \/ IntoDeletedProducer(w)

Handle(h) == \/ ReadStopped(h) \/ ReadAborted(h) \/ ReadLater(h) \/ ReadSome(h)
             \/ ReadNothing(h) \/ ReadClosed(h)
             \/ Add(h) \/ Throttle(h) \/ Restart(h) \/ Cancelled(h) \/ LateHandler(h)

Transfer(p) == WriteCb(p) \/ WritePause(p) \/ TransferLoops(p) \/ TransferEnds(p)
               \/ LateTransfer(p)

Next ==
  \/ \E c \in Callers : \/ \E p \in Producers : Play(c, p)
                        \/ Remove(c) \/ Silence(c) \/ PlayStep(c) \/ RemoveStep(c)
  \/ \E t \in Threads : DoneStep(t)
  \/ \E w \in Workers : WorkerStep(w)
  \/ Insert
  \/ \E h \in ready : Handle(h)
  \/ \E p \in Producers : Expire(p) \/ Transfer(p)
  \/ FindActive \/ Mix \/ MixDeleted

Spec == Init /\ [][Next]_vars

(***************************************************************************)
(* Threads finish what they are in; a timer expires; asio runs the ready   *)
(* handlers of a loop in turn, whenever the worker is free (strong         *)
(* fairness); the media thread tries cb->mutex every 20 ms.  Nothing       *)
(* obliges a server to send or to end a response (CURLOPT_TIMEOUT is 0),   *)
(* nor anybody to give a command.                                          *)
(***************************************************************************)
Fairness ==
  /\ \A c \in Callers : WF_vars(PlayStep(c) \/ RemoveStep(c))
  /\ \A t \in Threads : WF_vars(DoneStep(t))
  /\ \A w \in Workers : WF_vars(WorkerStep(w))
  /\ WF_vars(Insert) /\ WF_vars(Mix \/ MixDeleted) /\ SF_vars(FindActive)
  /\ \A p \in Producers : /\ WF_vars(Expire(p))
                          /\ SF_vars(\E h \in ready : h.p = p /\ Handle(h))

FairSpec == Spec /\ Fairness

-----------------------------------------------------------------------------
(* Safety.                                                                 *)

\* Sounds of a track play one after another in the order they were queued: no
\* producer starts before each earlier one has reported its end or failed to
\* start.  Queueing decides under the mutex who starts, but starts after it,
\* and onPlayDone pops the front, whoever called it.
QueueOrder ==
  ~stopping =>
    \A i, j \in DOMAIN order :
      i < j /\ started[order[j]] = "yes"
      => ap[order[i]].notified \/ started[order[i]] = "threw"

\* What a track promises, see Playlist: as long as it is not being removed, the
\* sounds that wait are the queue but for a front that has had its turn, and the
\* one that plays is a front that has started and not reported its end.
HadTurn == queue # <<>> /\ started[Head(queue)] # "no"
Upcoming == IF stopping THEN <<>> ELSE IF HadTurn THEN Tail(queue) ELSE queue
Current == IF ~stopping /\ HadTurn /\ started[Head(queue)] = "yes" /\ ~ap[Head(queue)].notified
           THEN Head(queue) ELSE None
Buffered == IF stopping THEN 0 ELSE level

List == INSTANCE Playlist WITH Sounds <- Producers, Capacity <- High + 1, open <- ~stopping,
                               waiting <- Upcoming, playing <- Current, buffered <- Buffered

\* Whoever queues, starts, ends and pops, with however many threads: sounds have
\* their turns in the order they were queued, one at a time, none is passed over
\* unless its start() threw, and only the one that plays puts audio into the
\* buffer, which holds a chunk more than the high-water mark at most although its
\* size is read without the mutex.
KeepsPlaylist == List!Spec

\* cb->mutex keeps the track alive for the media thread and from a second
\* removal, as long as no silence command removes it without the mutex.
MutexKeepsTrack ==
  faults \cap {"mix_deleted", "double_delete"} # {} => silenced

\* The buffer is bounded by the high-water mark and one chunk, although its
\* size is read without the mutex and the chunk is inserted later.
BufferBounded == ~stopping => level <= High + 1

-----------------------------------------------------------------------------
(* Liveness, under Fairness.                                               *)

Waiting(p) == p \in Members(queue) /\ started[p] = "no"

\* A queued sound comes to its turn unless the track is being removed, or one
\* before it is looped, still being sent, or in a stop the code has not
\* foreseen: an empty last read, a handle curl did not take, a throw of start().
QueueMoves ==
  \A p \in Producers :
    Waiting(p) ~> \/ ~Waiting(p) \/ stopping
                  \/ \E q \in Members(queue) : q \in stuck \cup Looped \/ ap[q].curl = "running"

\* No producer outlives its track: the one that a late onPlayDone starts is
\* destroyed when that call returns.
TrackTakesProducers ==
  track = "deleted" ~> faults # {} \/ \A p \in Producers : ~Live(p)

\* track.cpp, onPlayDone: "called when an audio producer has finished
\* retrieving the audio".
DoneIsNotified ==
  \A p \in Producers : ap[p].status = "COMPLETE" ~> ap[p].notified \/ stopping
=============================================================================
