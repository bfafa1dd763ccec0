----------------------------- MODULE AudioPipe -----------------------------
(***************************************************************************)
(* The websocket connection object of mod_audio_fork (audio_pipe.cpp), the *)
(* one libwebsockets service thread that drives every connection of the    *)
(* module, and the FreeSWITCH session that owns a connection (lws_glue.cpp)*)
(* as far as it decides who may still reach it.                            *)
(*                                                                         *)
(* FreeSWITCH's media and API threads (the Callers) hand work to the       *)
(* service thread through three static lists, pendingConnects,             *)
(* pendingDisconnects and pendingWrites, each behind its own mutex, and    *)
(* wake it with lws_cancel_service().  The service thread reports back     *)
(* with eventCallback, which finds the session by uuid and bug name.       *)
(*                                                                         *)
(* A call is cut wherever the code is between two locks: state check,      *)
(* store into the pipe, insertion into a list, wake-up.  The service       *)
(* thread is cut between callbacks, and inside a callback where it reads   *)
(* or publishes shared state twice.                                        *)
(***************************************************************************)
EXTENDS Naturals, FiniteSets

CONSTANTS
  Pipes,        \* the AudioPipe objects a behaviour may construct
  NameOf,       \* the channel and bug name each one is started under
  NoPipe,       \* a null private pointer
  Callers,      \* media and API threads that call into a pipe
  Ops,          \* the calls they make, a subset of AllOps
  Metadata,     \* the pipes whose session has initial metadata
  MayUnload,    \* whether the module may be unloaded
  MaxText,      \* bound: text frames the callers hand to one pipe
  MaxPackets    \* bound: length of m_binary_packet_queue

AllOps == {"text", "packet", "pcm", "final", "close", "graceful"}

ASSUME ConstantsAssumption ==
  /\ NoPipe \notin Pipes /\ NameOf \in [Pipes -> {NameOf[p] : p \in Pipes}]
  /\ Ops \subseteq AllOps /\ Metadata \subseteq Pipes
  /\ MayUnload \in BOOLEAN /\ MaxText \in Nat /\ MaxPackets \in Nat

Names == {NameOf[p] : p \in Pipes}

VARIABLES
  life,         \* of the object: "none", "built", "requested" (connect()
                \* called), "deleted", "abandoned"
  state,        \* m_state
  wsi,          \* m_wsi and what lws has done with it
  graceful,     \* m_gracefulShutdown
  bug,          \* the media bug of the pipe's session
  private,      \* channel private by name: the pipe whose bug is found there
  held,         \* tech_pvt->pAudioPipe is not null
  accepted,     \* text frames ever appended to m_metadata_list
  sent,         \* text frames popped from it and written
  packets,      \* length of m_binary_packet_queue
  pcm,          \* m_audio_buffer_write_offset > LWS_PRE
  pendingConnects,
  ahead,        \* the entries of pendingConnects a pipe was queued behind
  pendingDisconnects,
  pendingWrites,
  wake,         \* an lws_cancel_service() is not yet served
  writable,     \* pipes with an unserved lws_callback_on_writable()
  svc,          \* where the service thread is and the pipes it still has to do
  stopFlag,
  caller,       \* program counter and arguments of each calling thread
  fate,         \* history: the terminal event m_callback got for a pipe
  metaAt,       \* history: place of the initial metadata among the texts
  faults        \* history: uses of a deleted pipe, a null m_vhd or pAudioPipe

pipeVars  == <<life, state, wsi, graceful>>
ownerVars == <<bug, private, held>>
queueVars == <<accepted, sent, packets, pcm>>
listVars  == <<pendingConnects, ahead, pendingDisconnects, pendingWrites>>
lwsVars   == <<wake, writable, svc, stopFlag>>
histVars  == <<fate, metaAt, faults>>
vars == <<pipeVars, ownerVars, queueVars, listVars, lwsVars, caller, histVars>>

LwsState == {"IDLE", "CONNECTING", "CONNECTED", "FAILED", "DISCONNECTING",
             "DISCONNECTED"}
NoCall == [at |-> "idle"]
Calls == [at : {"stopping", "unlinked", "closing", "checked", "stored", "listed"},
          op : AllOps, pipe : Pipes]

Live(p)     == life[p] \in {"built", "requested"}
Gone(p)     == life[p] = "deleted"
Queued(p)   == accepted[p] - sent[p]                \* m_metadata_list.size()
Attached(p) == private[NameOf[p]] = p               \* its bug is found by name

TypeOK ==
  /\ life \in [Pipes -> {"none", "built", "requested", "deleted", "abandoned"}]
  /\ state \in [Pipes -> LwsState]
  /\ wsi \in [Pipes -> {"null", "handshake", "open", "closing", "closed"}]
  /\ graceful \in [Pipes -> BOOLEAN] /\ pcm \in [Pipes -> BOOLEAN]
  /\ bug \in [Pipes -> {"none", "on", "off"}] /\ held \in [Pipes -> BOOLEAN]
  /\ private \in [Names -> Pipes \cup {NoPipe}]
  /\ accepted \in [Pipes -> Nat] /\ sent \in [Pipes -> Nat]
  /\ packets \in [Pipes -> Nat]
  /\ pendingConnects \subseteq Pipes /\ ahead \in [Pipes -> SUBSET Pipes]
  /\ pendingDisconnects \subseteq Pipes /\ pendingWrites \subseteq Pipes
  /\ wake \in BOOLEAN /\ writable \subseteq Pipes /\ stopFlag \in BOOLEAN
  /\ svc \in [at : {"poll", "connects", "writes", "established", "writeable",
                    "ending", "ended"}, todo : SUBSET Pipes]
  /\ caller \in [Callers -> Calls \cup {NoCall}]
  /\ fate \in [Pipes -> {"none", "failed", "dropped", "closed"}]
  /\ metaAt \in [Pipes -> Nat]
  /\ faults \subseteq ({"deleted", "null_vhd", "null_pipe"} \X Pipes)

Init ==
  /\ life = [p \in Pipes |-> "none"] /\ state = [p \in Pipes |-> "IDLE"]
  /\ wsi = [p \in Pipes |-> "null"] /\ graceful = [p \in Pipes |-> FALSE]
  /\ bug = [p \in Pipes |-> "none"] /\ held = [p \in Pipes |-> FALSE]
  /\ private = [n \in Names |-> NoPipe]
  /\ accepted = [p \in Pipes |-> 0] /\ sent = [p \in Pipes |-> 0]
  /\ packets = [p \in Pipes |-> 0] /\ pcm = [p \in Pipes |-> FALSE]
  /\ pendingConnects = {} /\ ahead = [p \in Pipes |-> {}]
  /\ pendingDisconnects = {} /\ pendingWrites = {}
  /\ wake = FALSE /\ writable = {} /\ stopFlag = FALSE
  /\ svc = [at |-> "poll", todo |-> {}]
  /\ caller = [c \in Callers |-> NoCall]
  /\ fate = [p \in Pipes |-> "none"] /\ metaAt = [p \in Pipes |-> 0]
  /\ faults = {}

-----------------------------------------------------------------------------
(* start_capture.                                                          *)

BecomesLife(p, from, to) ==
  /\ life[p] = from
  /\ life' = [life EXCEPT ![p] = to]

\* No bug of this name is attached yet; fork_data_init constructs the pipe.
Construct(p) ==
  /\ private[NameOf[p]] = NoPipe
  /\ BecomesLife(p, "none", "built")
  /\ held' = [held EXCEPT ![p] = TRUE]
  /\ UNCHANGED <<state, wsi, graceful, bug, private, queueVars, listVars,
                 lwsVars, caller, histVars>>

\* fork_session_destroy: initialisation or media_bug_add failed.
Abandon(p) ==
  /\ bug[p] = "none"
  /\ BecomesLife(p, "built", "abandoned")
  /\ held' = [held EXCEPT ![p] = FALSE]
  /\ UNCHANGED <<state, wsi, graceful, bug, private, queueVars, listVars,
                 lwsVars, caller, histVars>>

\* The media bug is added and stored under its name.
Attach(p) ==
  /\ life[p] = "built" /\ bug[p] = "none"
  /\ bug' = [bug EXCEPT ![p] = "on"]
  /\ private' = [private EXCEPT ![NameOf[p]] = p]
  /\ UNCHANGED <<pipeVars, held, queueVars, listVars, lwsVars, caller, histVars>>

Unwoken == UNCHANGED wake                 \* mutation: no lws_cancel_service
WakesService == wake' = TRUE

\* fork_session_connect: addPendingConnect, then lws_cancel_service(context).
Connect(p) ==
  /\ bug[p] # "none" /\ held[p]
  /\ BecomesLife(p, "built", "requested")
  /\ ahead' = [ahead EXCEPT ![p] = pendingConnects]
  /\ pendingConnects' = pendingConnects \cup {p}
  /\ WakesService
  /\ UNCHANGED <<state, wsi, graceful, ownerVars, queueVars, pendingDisconnects,
                 pendingWrites, writable, svc, stopFlag, caller, histVars>>

\* ... through a pAudioPipe that the callback of another pipe has cleared.
ConnectThroughNull(p) ==
  /\ life[p] = "built" /\ bug[p] # "none" /\ ~held[p]
  /\ faults' = faults \cup {<<"null_pipe", p>>}
  /\ UNCHANGED <<pipeVars, ownerVars, queueVars, listVars, lwsVars, caller,
                 fate, metaAt>>

-----------------------------------------------------------------------------
(* Calls of other threads into a pipe.  Every entry point of it but        *)
(* do_graceful_shutdown returns at once unless the pipe is CONNECTED: that *)
(* changes nothing.                                                        *)

Audio == {"packet", "pcm"}
Busy(c) == caller[c] # NoCall
Goes(c, at, op) ==
  caller' = [caller EXCEPT ![c] = [at |-> at, op |-> op, pipe |-> caller[c].pipe]]
Returns(c) == caller' = [caller EXCEPT ![c] = NoCall]

\* tech_pvt->mutex, which fork_frame holds throughout.
Locked(p) == \E c \in Callers : /\ Busy(c) /\ caller[c].pipe = p
                                /\ caller[c].op \in Audio

\* m_audio_mutex, held from lockAudioBuffer to the end of unlockAudioBuffer.
AudioLocked(p) == \E c \in Callers : /\ Busy(c) /\ caller[c].pipe = p
                                     /\ caller[c].op = "pcm"

\* The API commands look the session up by name, fork_frame has its bug at hand
\* and returns if the mutex is taken or a graceful shutdown was asked for.
Reaches(p, op) == IF op \in Audio
                  THEN bug[p] = "on" /\ ~Locked(p) /\ ~graceful[p]
                  ELSE Attached(p)

WithinBounds(p, op) ==
  /\ op \in {"text", "final"} => accepted[p] < MaxText
  /\ op = "packet" => packets[p] < MaxPackets
  /\ op = "graceful" => ~graceful[p]

EnteredUnchecked(p, op) == TRUE           \* mutation: no state check
Enters(p, op) == op = "graceful" \/ state[p] = "CONNECTED"

Call(c, p, op) ==
  /\ ~Busy(c) /\ op \notin {"final", "close"}
  /\ Reaches(p, op) /\ held[p] /\ Live(p)
  /\ Enters(p, op) /\ WithinBounds(p, op)
  /\ caller' = [caller EXCEPT ![c] = [at |-> "checked", op |-> op, pipe |-> p]]
  /\ UNCHANGED <<pipeVars, ownerVars, queueVars, listVars, lwsVars, histVars>>

\* fork_frame of a bug that is still on finds its pointer and a deleted pipe.
CallIntoDeleted(c, p, op) ==
  /\ ~Busy(c) /\ op \in Audio /\ Reaches(p, op) /\ held[p] /\ Gone(p)
  /\ faults' = faults \cup {<<"deleted", p>>}
  /\ UNCHANGED <<pipeVars, ownerVars, queueVars, listVars, lwsVars, caller,
                 fate, metaAt>>

\* The thread's store into the pipe, by entry point: bufferForSending,
\* queueBinaryPacket, the PCM buffer under lockAudioBuffer, the state written
\* by addPendingDisconnect before it takes a lock, the graceful flag.
StoreInto(p, op) ==
  \/ /\ op \in {"text", "final"} /\ accepted' = [accepted EXCEPT ![p] = @ + 1]
     /\ UNCHANGED <<pipeVars, sent, packets, pcm>>
  \/ /\ op = "packet" /\ packets' = [packets EXCEPT ![p] = @ + 1]
     /\ UNCHANGED <<pipeVars, accepted, sent, pcm>>
  \/ /\ op = "pcm" /\ pcm' = [pcm EXCEPT ![p] = TRUE]
     /\ UNCHANGED <<pipeVars, accepted, sent, packets>>
  \/ /\ op = "close" /\ state' = [state EXCEPT ![p] = "DISCONNECTING"]
     /\ UNCHANGED <<life, wsi, graceful, queueVars>>
  \/ /\ op = "graceful" /\ graceful' = [graceful EXCEPT ![p] = TRUE]
     /\ UNCHANGED <<life, state, wsi, queueVars>>

\* A store into a deleted pipe is recorded; it changes no live object.
Store(c) ==
  /\ Busy(c) /\ caller[c].at = "checked"
  /\ Goes(c, "stored", caller[c].op)
  /\ LET p == caller[c].pipe IN
       IF Live(p)
       THEN StoreInto(p, caller[c].op) /\ UNCHANGED faults
       ELSE /\ faults' = faults \cup {<<"deleted", p>>}
            /\ UNCHANGED <<pipeVars, queueVars>>
  /\ UNCHANGED <<ownerVars, listVars, lwsVars, fate, metaAt>>

\* addPendingWrite / addPendingDisconnect, under the list's mutex.
Enlist(c) ==
  /\ Busy(c) /\ caller[c].at = "stored"
  /\ Goes(c, "listed", caller[c].op)
  /\ IF caller[c].op = "close"
     THEN /\ pendingDisconnects' = pendingDisconnects \cup {caller[c].pipe}
          /\ UNCHANGED pendingWrites
     ELSE /\ pendingWrites' = pendingWrites \cup {caller[c].pipe}
          /\ UNCHANGED pendingDisconnects
  /\ UNCHANGED <<pipeVars, ownerVars, queueVars, pendingConnects, ahead,
                 lwsVars, histVars>>

\* lws_cancel_service(ap->m_vhd->context), the mutex released: the pipe may be
\* deleted by now, and m_vhd is null until connect_client has run.  A final text
\* is followed by close().
Cancel(c) ==
  /\ Busy(c) /\ caller[c].at = "listed"
  /\ IF caller[c].op = "final" THEN Goes(c, "closing", "close") ELSE Returns(c)
  /\ LET p == caller[c].pipe IN
       \/ Live(p) /\ wsi[p] # "null" /\ wake' = TRUE /\ UNCHANGED faults
       \/ /\ Live(p) /\ wsi[p] = "null"
          /\ faults' = faults \cup {<<"null_vhd", p>>} /\ UNCHANGED wake
       \/ /\ ~Live(p) /\ wake' \in BOOLEAN /\ (wake => wake')
          /\ faults' = faults \cup {<<"deleted", p>>}
  /\ UNCHANGED <<pipeVars, ownerVars, queueVars, listVars, writable, svc,
                 stopFlag, fate, metaAt>>

-----------------------------------------------------------------------------
(* fork_session_cleanup: the stop command or the end of the channel.       *)

\* The bug is found by name and pAudioPipe is read, before any lock.
Stop(c, p) ==
  /\ ~Busy(c) /\ "close" \in Ops /\ Attached(p) /\ held[p]
  /\ caller' = [caller EXCEPT ![c] = [at |-> "stopping", op |-> "close", pipe |-> p]]
  /\ UNCHANGED <<pipeVars, ownerVars, queueVars, listVars, lwsVars, histVars>>

\* Whatever bug the name has now is detached and removed.
Detach(n) ==
  /\ private' = [private EXCEPT ![n] = NoPipe]
  /\ bug' = IF private[n] = NoPipe THEN bug
            ELSE [bug EXCEPT ![private[n]] = "off"]

\* Under tech_pvt->mutex; a concurrent cleanup that comes second goes on too.
Unlink(c) ==
  /\ Busy(c) /\ caller[c].at = "stopping" /\ ~Locked(caller[c].pipe)
  /\ Goes(c, "unlinked", caller[c].op)
  /\ Detach(NameOf[caller[c].pipe])
  /\ UNCHANGED <<pipeVars, held, queueVars, listVars, lwsVars, histVars>>

\* A session whose connection is gone already has nothing left to close.
StopDisconnected(p) ==
  /\ Attached(p) /\ ~held[p]
  /\ Detach(NameOf[p])
  /\ UNCHANGED <<pipeVars, held, queueVars, listVars, lwsVars, caller, histVars>>

\* m_state as bufferForSending and close() read it: of a deleted pipe, anything.
SeesConnected(p) == ~Live(p) \/ state[p] = "CONNECTED"
SeesOther(p)     == ~Live(p) \/ state[p] # "CONNECTED"
ReadsPipe(p) == faults' = IF Live(p) THEN faults ELSE faults \cup {<<"deleted", p>>}

\* bufferForSending(text), if the command has a text, then close().
FinalText(c) ==
  /\ Busy(c) /\ caller[c].at = "unlinked" /\ "final" \in Ops
  /\ SeesConnected(caller[c].pipe) /\ WithinBounds(caller[c].pipe, "final")
  /\ Goes(c, "checked", "final")
  /\ ReadsPipe(caller[c].pipe)
  /\ UNCHANGED <<pipeVars, ownerVars, queueVars, listVars, lwsVars, fate, metaAt>>

NoFinalText(c) ==
  /\ Busy(c) /\ caller[c].at = "unlinked"
  /\ Goes(c, "closing", caller[c].op)
  /\ UNCHANGED <<pipeVars, ownerVars, queueVars, listVars, lwsVars, histVars>>

\* close() does nothing unless the pipe is CONNECTED.
Close(c) ==
  /\ Busy(c) /\ caller[c].at = "closing"
  /\ LET p == caller[c].pipe IN
       /\ \/ SeesConnected(p) /\ Goes(c, "checked", caller[c].op)
          \/ SeesOther(p) /\ Returns(c)
       /\ ReadsPipe(p)
  /\ UNCHANGED <<pipeVars, ownerVars, queueVars, listVars, lwsVars, fate, metaAt>>

-----------------------------------------------------------------------------
(* The service thread: LWS_CALLBACK_EVENT_WAIT_CANCELLED.                  *)

IdleEntries == {p \in pendingConnects : state[p] = "IDLE"}

\* mutation: the list is emptied, as the other two loops empty theirs
CollectAndClear ==
  /\ svc.at = "poll" /\ wake
  /\ wake' = FALSE /\ pendingConnects' = {}
  /\ state' = [p \in Pipes |-> IF p \in IdleEntries THEN "CONNECTING" ELSE state[p]]
  /\ svc' = [at |-> "connects", todo |-> IdleEntries]
  /\ UNCHANGED <<ownerVars, life, wsi, graceful, queueVars, ahead, pendingDisconnects,
                 pendingWrites, writable, stopFlag, caller, histVars>>

\* processPendingConnects, first loop: every IDLE entry becomes CONNECTING.
CollectConnects ==
  /\ svc.at = "poll" /\ wake
  /\ wake' = FALSE
  /\ state' = [p \in Pipes |-> IF p \in IdleEntries THEN "CONNECTING" ELSE state[p]]
  /\ svc' = [at |-> "connects", todo |-> IdleEntries]
  /\ UNCHANGED <<ownerVars, life, wsi, graceful, queueVars, listVars, writable, stopFlag,
                 caller, histVars>>

\* Second loop, in list order.
NextToConnect(p) ==
  /\ svc.at = "connects" /\ p \in svc.todo /\ ahead[p] \cap svc.todo = {}
  /\ svc' = [svc EXCEPT !.todo = @ \ {p}]

\* connect_client: lws owns a wsi now and will report its fate.
ConnectClient(p) ==
  /\ NextToConnect(p)
  /\ wsi' = [wsi EXCEPT ![p] = "handshake"]
  /\ UNCHANGED <<ownerVars, life, state, graceful, queueVars, listVars, wake, writable,
                 stopFlag, caller, histVars>>

\* eventCallback looks the bug up by the name the pipe was started under, and
\* clears pAudioPipe of the session it finds.
Forgets(n) == held' = IF private[n] = NoPipe THEN held
                      ELSE [held EXCEPT ![private[n]] = FALSE]

EndsWith(p, st, event) ==
  /\ state' = [state EXCEPT ![p] = st]
  /\ fate' = [fate EXCEPT ![p] = event]

\* mutations: the object leaks; the session is not told
NotifyOnly(p, st, event) == EndsWith(p, st, event) /\ Forgets(NameOf[p]) /\ UNCHANGED life
DeleteOnly(p, st, event) ==
  /\ EndsWith(p, st, event) /\ UNCHANGED held
  /\ life' = [life EXCEPT ![p] = "deleted"]

\* A terminal event goes to m_callback; then delete.
NotifyAndDelete(p, st, event) ==
  /\ EndsWith(p, st, event)
  /\ Forgets(NameOf[p])
  /\ life' = [life EXCEPT ![p] = "deleted"]

\* lws_client_connect_via_info returned null: no callback will ever come.
ConnectClientFails(p) ==
  /\ NextToConnect(p)
  /\ pendingConnects' = pendingConnects \ {p}
  /\ NotifyAndDelete(p, "FAILED", "failed")
  /\ UNCHANGED <<wsi, graceful, bug, private, queueVars, ahead, pendingDisconnects,
                 pendingWrites, wake, writable, stopFlag, caller, metaAt, faults>>

\* An entry deleted since it was listed is read all the same.
Reads(L) == faults' = faults \cup {<<"deleted", p>> : p \in {q \in L : ~Live(q)}}

\* processPendingDisconnects
ProcessPendingDisconnects ==
  /\ svc = [at |-> "connects", todo |-> {}]
  /\ svc' = [svc EXCEPT !.at = "writes"]
  /\ writable' = writable \cup
       {p \in pendingDisconnects : Live(p) /\ state[p] = "DISCONNECTING"}
  /\ Reads(pendingDisconnects)
  /\ pendingDisconnects' = {}
  /\ UNCHANGED <<ownerVars, pipeVars, queueVars, pendingConnects, ahead, pendingWrites,
                 wake, stopFlag, caller, fate, metaAt>>

\* processPendingWrites
ProcessPendingWrites ==
  /\ svc.at = "writes"
  /\ svc' = [svc EXCEPT !.at = "poll"]
  /\ writable' = writable \cup
       {p \in pendingWrites : Live(p) /\ state[p] = "CONNECTED"}
  /\ Reads(pendingWrites)
  /\ pendingWrites' = {}
  /\ UNCHANGED <<ownerVars, pipeVars, queueVars, pendingConnects, ahead, pendingDisconnects,
                 wake, stopFlag, caller, fate, metaAt>>

-----------------------------------------------------------------------------
(* The service thread: callbacks for one connection.                       *)

\* findAndRemovePendingConnect(wsi) scans from the front up to the CONNECTING
\* entry with this wsi; that entry goes, and so does every entry it scanned
\* whose m_wsi is null.
Found(p) == p \in pendingConnects /\ state[p] = "CONNECTING"
Scanned(p) == IF Found(p) THEN pendingConnects \cap (ahead[p] \cup {p})
                          ELSE pendingConnects
\* mutation: the match itself stays in the list
FindOnly(p) ==
  pendingConnects' = pendingConnects \ ({q \in Scanned(p) : wsi[q] = "null"} \ {p})
FindAndRemove(p) ==
  pendingConnects' = pendingConnects \ ({q \in Scanned(p) : wsi[q] = "null"} \cup {p})

\* LWS_CALLBACK_CLIENT_CONNECTION_ERROR
ConnectionError(p) ==
  /\ svc.at \in {"poll", "ending"} /\ wsi[p] = "handshake"
  /\ wsi' = [wsi EXCEPT ![p] = "closed"]
  /\ FindAndRemove(p)
  /\ IF Found(p) THEN NotifyAndDelete(p, "FAILED", "failed")
                 ELSE UNCHANGED <<state, fate, held, life>>
  /\ UNCHANGED <<graceful, bug, private, queueVars, ahead, pendingDisconnects,
                 pendingWrites, lwsVars, caller, metaAt, faults>>

\* LWS_CALLBACK_CLIENT_ESTABLISHED up to m_state = LWS_CLIENT_CONNECTED
Established(p) ==
  /\ svc.at = "poll" /\ wsi[p] = "handshake" /\ Found(p)
  /\ wsi' = [wsi EXCEPT ![p] = "open"]
  /\ FindAndRemove(p)
  /\ state' = [state EXCEPT ![p] = "CONNECTED"]
  /\ svc' = [at |-> "established", todo |-> {p}]
  /\ UNCHANGED <<ownerVars, life, graceful, queueVars, ahead, pendingDisconnects,
                 pendingWrites, wake, writable, stopFlag, caller, histVars>>

\* ... then CONNECT_SUCCESS: eventCallback finds a session by name and sends
\* its initial metadata through bufferForSending, which returns early unless
\* that session's pipe is CONNECTED (a stop may have come in between).
SendMetadata(q) ==
  IF held[q] /\ Live(q) /\ state[q] = "CONNECTED"
  THEN /\ accepted' = [accepted EXCEPT ![q] = @ + 1]
       /\ metaAt' = [metaAt EXCEPT ![q] = IF @ = 0 THEN accepted[q] + 1 ELSE @]
       /\ pendingWrites' = pendingWrites \cup {q}
       /\ wake' = TRUE
       /\ UNCHANGED faults
  ELSE /\ faults' = IF held[q] THEN faults ELSE faults \cup {<<"null_pipe", q>>}
       /\ UNCHANGED <<accepted, metaAt, pendingWrites, wake>>

ConnectSuccess(p) ==
  /\ svc = [at |-> "established", todo |-> {p}]
  /\ svc' = [at |-> "poll", todo |-> {}]
  /\ IF private[NameOf[p]] \in Metadata THEN SendMetadata(private[NameOf[p]])
     ELSE UNCHANGED <<accepted, metaAt, pendingWrites, wake, faults>>
  /\ UNCHANGED <<pipeVars, ownerVars, sent, packets, pcm, pendingConnects, ahead,
                 pendingDisconnects, writable, stopFlag, caller, fate>>

\* LWS_CALLBACK_CLIENT_CLOSED: the far end, the transport, lws after a -1 of
\* the writeable callback, or lws_context_destroy.
Closed(p) ==
  /\ svc.at \in {"poll", "ending"} /\ wsi[p] \in {"open", "closing"}
  /\ wsi' = [wsi EXCEPT ![p] = "closed"]
  /\ writable' = writable \ {p}
  /\ CASE state[p] = "DISCONNECTING" -> NotifyAndDelete(p, "DISCONNECTED", "closed")
       [] state[p] = "CONNECTED" -> NotifyAndDelete(p, "DISCONNECTED", "dropped")
       [] OTHER -> /\ state' = [state EXCEPT ![p] = "DISCONNECTED"]
                   /\ life' = [life EXCEPT ![p] = "deleted"]
                   /\ UNCHANGED <<fate, held>>
  /\ UNCHANGED <<graceful, bug, private, queueVars, listVars, wake, svc,
                 stopFlag, caller, metaAt, faults>>

\* LWS_CALLBACK_CLIENT_WRITEABLE
Serving(p) == svc.at = "poll" /\ wsi[p] = "open" /\ p \in writable

\* Graceful shutdown: a zero length frame and nothing else, ever again.
WriteZeroLength(p) ==
  /\ Serving(p) /\ graceful[p] /\ ~AudioLocked(p)
  /\ writable' = writable \ {p}
  /\ UNCHANGED <<ownerVars, pipeVars, queueVars, listVars, wake, svc, stopFlag, caller, histVars>>

\* mutations: ask again only if a text is left; never ask again
AskAgainIfMore(p) == writable' = IF Queued(p) > 1 THEN writable ELSE writable \ {p}
DoNotAskAgain(p) == writable' = writable \ {p}
AskAgain(p) == UNCHANGED writable

\* One text frame; another writeable callback is requested in any case.
WriteText(p) ==
  /\ Serving(p) /\ ~graceful[p] /\ Queued(p) > 0
  /\ sent' = [sent EXCEPT ![p] = @ + 1]
  /\ AskAgain(p)
  /\ UNCHANGED <<ownerVars, pipeVars, accepted, packets, pcm, listVars, wake, svc,
                 stopFlag, caller, histVars>>

\* lws_write took less than the frame: return -1, lws closes the socket.
WriteTextFails(p) ==
  /\ Serving(p) /\ ~graceful[p] /\ Queued(p) > 0
  /\ writable' = writable \ {p}
  /\ wsi' = [wsi EXCEPT ![p] = "closing"]
  /\ UNCHANGED <<ownerVars, life, state, graceful, queueVars, listVars, wake, svc,
                 stopFlag, caller, histVars>>

TextNotLookedAt(p) == TRUE                \* mutation: audio before text
NoText(p) == Queued(p) = 0

\* No text: m_text_mutex is released and m_state not yet read.
NoTextToWrite(p) ==
  /\ Serving(p) /\ ~graceful[p] /\ NoText(p)
  /\ writable' = writable \ {p}
  /\ svc' = [at |-> "writeable", todo |-> {p}]
  /\ UNCHANGED <<ownerVars, pipeVars, queueVars, listVars, wake, stopFlag, caller, histVars>>

AfterText(p) ==
  /\ svc = [at |-> "writeable", todo |-> {p}]
  /\ svc' = [at |-> "poll", todo |-> {}]

\* close() was called: lws_close_reason and return -1.
WriteClose(p) ==
  /\ AfterText(p) /\ state[p] = "DISCONNECTING"
  /\ wsi' = [wsi EXCEPT ![p] = "closing"]
  /\ UNCHANGED <<ownerVars, life, state, graceful, queueVars, listVars, wake, writable,
                 stopFlag, caller, histVars>>

PacketAssumed(p) == TRUE                  \* mutation: no test for empty()
HasPacket(p) == packets[p] > 0

\* One binary packet, asking again while audio is left; else all of the PCM.
WriteAudio(p) ==
  /\ AfterText(p) /\ state[p] # "DISCONNECTING" /\ ~AudioLocked(p)
  /\ IF HasPacket(p)
     THEN /\ packets' = [packets EXCEPT ![p] = @ - 1]
          /\ writable' = IF packets[p] > 1 \/ pcm[p] THEN writable \cup {p}
                                                     ELSE writable
          /\ UNCHANGED pcm
     ELSE /\ pcm' = [pcm EXCEPT ![p] = FALSE]
          /\ UNCHANGED <<packets, writable>>
  /\ UNCHANGED <<ownerVars, pipeVars, accepted, sent, listVars, wake, stopFlag, caller, histVars>>

-----------------------------------------------------------------------------
(* Module unload: deinitialize sets the flag and joins the thread, whose   *)
(* loop ends when lws_service returns; lws_context_destroy closes every    *)
(* connection that is left.                                                *)

Deinitialize ==
  /\ MayUnload /\ ~stopFlag
  /\ stopFlag' = TRUE
  /\ UNCHANGED <<ownerVars, pipeVars, queueVars, listVars, wake, writable, svc, caller, histVars>>

LeaveLoop ==
  /\ svc.at = "poll" /\ stopFlag
  /\ svc' = [at |-> "ending", todo |-> {}]
  /\ UNCHANGED <<ownerVars, pipeVars, queueVars, listVars, wake, writable, stopFlag, caller, histVars>>

ContextDestroyed ==
  /\ svc.at = "ending" /\ \A p \in Pipes : wsi[p] \in {"null", "closed"}
  /\ svc' = [at |-> "ended", todo |-> {}]
  /\ UNCHANGED <<ownerVars, pipeVars, queueVars, listVars, wake, writable, stopFlag, caller, histVars>>

-----------------------------------------------------------------------------
SessionStep(p) == \/ Construct(p) \/ Abandon(p) \/ Attach(p) \/ Connect(p)
                  \/ ConnectThroughNull(p) \/ StopDisconnected(p)

CallerStep(c) == \/ Store(c) \/ Enlist(c) \/ Cancel(c)
                 \/ Unlink(c) \/ FinalText(c) \/ NoFinalText(c) \/ Close(c)

Sweep == \/ \E p \in Pipes : ConnectClient(p) \/ ConnectClientFails(p)
         \/ ProcessPendingDisconnects
         \/ ProcessPendingWrites

Handshake(p) == ConnectionError(p) \/ Established(p)

Writeable(p) == WriteZeroLength(p) \/ WriteText(p) \/ WriteTextFails(p) \/ NoTextToWrite(p)

FinishCallback(p) == ConnectSuccess(p) \/ WriteClose(p) \/ WriteAudio(p)

Next ==
  \/ \E p \in Pipes : SessionStep(p)
  \/ \E c \in Callers, p \in Pipes, op \in Ops :
       Call(c, p, op) \/ CallIntoDeleted(c, p, op)
  \/ \E c \in Callers, p \in Pipes : Stop(c, p)
  \/ \E c \in Callers : CallerStep(c)
  \/ CollectConnects \/ Sweep
  \/ \E p \in Pipes : Handshake(p) \/ Closed(p) \/ Writeable(p) \/ FinishCallback(p)
  \/ Deinitialize \/ LeaveLoop \/ ContextDestroyed

Spec == Init /\ [][Next]_vars

(***************************************************************************)
(* A thread inside a call finishes it, and a start that attached its bug   *)
(* goes on to connect; the service thread finishes its sweep.  Strong      *)
(* fairness where an action is enabled only now and then: each round of    *)
(* lws_service serves every ready descriptor and the cancel pipe, but only *)
(* while the thread polls; the end of a callback may have to wait for      *)
(* m_audio_mutex, which fork_frame takes once in 20 ms.  lws bounds the    *)
(* handshake (info.timeout_secs) and the closing handshake.  Nothing       *)
(* obliges a far end to close or a thread to start a call.                 *)
(***************************************************************************)
Fairness ==
  /\ \A c \in Callers : WF_vars(CallerStep(c))
  /\ WF_vars(Sweep) /\ SF_vars(CollectConnects) /\ SF_vars(LeaveLoop)
  /\ \A p \in Pipes :
       /\ WF_vars(Connect(p)) /\ SF_vars(FinishCallback(p))
       /\ SF_vars(Handshake(p)) /\ SF_vars(Writeable(p))
       /\ SF_vars((wsi[p] = "closing" \/ svc.at = "ending") /\ Closed(p))

FairSpec == Spec /\ Fairness

-----------------------------------------------------------------------------
(* Safety.                                                                 *)

\* A connect request is never lost: from connect() until lws reports the fate
\* of the attempt the pipe is in pendingConnects, although the scan of
\* findAndRemovePendingConnect drops every entry it passes whose m_wsi is
\* still null.  (A dropped entry would wait for ever, or make ESTABLISHED
\* dereference the null pointer the scan returned.)
ConnectRequestKept ==
  \A p \in Pipes :
    \/ life[p] = "requested" /\ state[p] = "IDLE"
    \/ wsi[p] = "handshake"
    \/ svc.at = "connects" /\ p \in svc.todo
    => p \in pendingConnects

\* The service thread meets no deleted pipe in pendingConnects (it may in the
\* other two lists: a call may outlive its pipe).
PendingConnectsLive == \A p \in pendingConnects : Live(p)

\* An API command that starts from the bug name never gets hold of a deleted
\* pipe: whatever terminal event deletes it, and whichever sessions used the
\* name before or use it at the same time.
ReachableIsLive == \A p \in Pipes : Attached(p) /\ held[p] => Live(p)

\* A session that still has its bug forgets its pipe only when that pipe is
\* deleted; so a later stop reaches every connection that is still there.
SessionKeepsItsPipe == \A p \in Pipes : Attached(p) /\ ~held[p] => Gone(p)

\* No audio frame is written before the initial metadata of a session that
\* still has its bug, although the media thread sees CONNECTED before the
\* metadata is queued.
AudioAfterMetadata ==
  [][\A p \in Metadata :
       WriteAudio(p) /\ (packets[p] > 0 \/ pcm[p]) /\ Attached(p)
       => metaAt[p] > 0 /\ sent[p] >= metaAt[p]]_vars

\* m_vhd is dereferenced while null by do_graceful_shutdown alone, the one
\* entry point that does not look at m_state first.
NullVhdOnlyIfGraceful ==
  \A p \in Pipes : <<"null_vhd", p>> \in faults => graceful[p]

-----------------------------------------------------------------------------
(* What AudioPipe promises, see PipeContract.                              *)

PhaseOf(p) ==
  CASE Gone(p) -> fate[p]
    [] ~Gone(p) /\ state[p] = "CONNECTED" -> "up"
    [] ~Gone(p) /\ state[p] = "DISCONNECTING" -> "stopping"
    [] OTHER -> IF life[p] = "requested" THEN "asked" ELSE "idle"

phase == [p \in Pipes |-> PhaseOf(p)]

Contract == INSTANCE PipeContract WITH handed <- accepted, delivered <- sent

\* Each pipe keeps the contract its session relies on.
KeepsContract == Contract!Spec

-----------------------------------------------------------------------------
(* Liveness, under Fairness.                                               *)

\* Every attempt to connect is resolved, unless the module is unloaded.
ConnectResolves ==
  \A p \in Pipes :
    life[p] = "requested" ~> state[p] \notin {"IDLE", "CONNECTING"} \/ stopFlag

\* A pipe whose close() took effect is closed on the wire and deleted, unless
\* a graceful shutdown was asked for.  The writeable request made for the close
\* may merge with one made for a text into a single callback, so this needs
\* the unconditional new request after each text frame.
CloseCompletes ==
  \A p \in Pipes : state[p] = "DISCONNECTING" ~> Gone(p) \/ graceful[p]

\* Queued text goes out or the connection ends: no wake-up is lost between an
\* insertion into pendingWrites and the service thread's sweep.
TextGoesOut ==
  \A p \in Pipes : Queued(p) > 0 ~> Queued(p) = 0 \/ Gone(p) \/ graceful[p]
=============================================================================
