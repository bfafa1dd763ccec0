-------------------------- MODULE AudioPipeProofs --------------------------
(***************************************************************************)
(* Proofs about AudioPipe for any number of pipes and calling threads, any *)
(* assignment of bug names and any bounds.                                 *)
(***************************************************************************)
EXTENDS AudioPipe, TLAPS

\* Before connect() nothing but the session knows the object.
Unrequested ==
  \A p \in Pipes : life[p] \in {"none", "built", "abandoned"}
    => state[p] = "IDLE" /\ wsi[p] = "null" /\ p \notin pendingConnects

\* What m_state, m_wsi and membership of pendingConnects say of each other.
Requested ==
  \A p \in Pipes : life[p] = "requested" =>
    /\ state[p] \in {"IDLE", "CONNECTING", "CONNECTED", "DISCONNECTING"}
    /\ p \in pendingConnects <=> state[p] \in {"IDLE", "CONNECTING"}
    /\ state[p] = "IDLE" => wsi[p] = "null"
    /\ state[p] = "CONNECTING" => wsi[p] \in {"null", "handshake"}
    /\ state[p] \in {"CONNECTED", "DISCONNECTING"} => wsi[p] \in {"open", "closing"}

\* A deleted pipe is in no list of connects and has no connection.
Deleted ==
  \A p \in Pipes : Gone(p) =>
    /\ p \notin pendingConnects /\ wsi[p] \in {"null", "closed"}
    /\ state[p] \in {"FAILED", "DISCONNECTED"}

\* CONNECTING without a wsi exists only within one sweep of the service thread.
InSweep ==
  \A p \in Pipes : svc.at = "connects" /\ p \in svc.todo
    <=> life[p] = "requested" /\ state[p] = "CONNECTING" /\ wsi[p] = "null"

\* A request queued after a sweep is behind every request the sweep took.
SweepOrder ==
  /\ \A p, q \in pendingConnects :
       state[p] = "CONNECTING" /\ state[q] = "IDLE" => q \notin ahead[p]
  /\ \A p \in Pipes : \A q \in ahead[p] : life[q] \in {"requested", "deleted"}

\* A bug found by name belongs to a started session.
Owners ==
  /\ \A p \in Pipes : bug[p] # "none" => life[p] \in {"built", "requested", "deleted"}
  /\ \A p \in Pipes : Attached(p) => bug[p] # "none"
  /\ \A n \in Names : private[n] # NoPipe => NameOf[private[n]] = n

\* What a thread inside a call may rely on as long as the pipe is live.
CallSafe(call) ==
  /\ life[call.pipe] # "none"
  /\ call.at \in {"stopping", "unlinked", "closing"} => call.op = "close"
  /\ call.at \in {"checked", "stored", "listed"} /\ Live(call.pipe) =>
       /\ call.op # "graceful" => state[call.pipe] \in {"CONNECTED", "DISCONNECTING"}
       /\ call.op = "graceful" /\ call.at # "checked" => graceful[call.pipe]

InCall == \A c \in Callers : Busy(c) => CallSafe(caller[c])

\* What the connection and the lists say of each other; who may reach a pipe.
Connecting == Unrequested /\ Requested /\ Deleted /\ InSweep /\ SweepOrder
Reaching   == Owners /\ InCall /\ ReachableIsLive /\ NullVhdOnlyIfGraceful

IInv == TypeOK /\ Connecting /\ Reaching

-----------------------------------------------------------------------------
(* Type correctness.                                                       *)

LEMMA InitType == Init => TypeOK
<1> SUFFICES ASSUME Init PROVE TypeOK
  OBVIOUS
<1> USE DEF Init
<1>1. caller \in [Callers -> Calls \cup {NoCall}] /\ private \in [Names -> Pipes \cup {NoPipe}]
  OBVIOUS
<1>2. svc \in [at : {"poll", "connects", "writes", "established", "writeable",
                    "ending", "ended"}, todo : SUBSET Pipes]
  OBVIOUS
<1>3. /\ graceful \in [Pipes -> BOOLEAN] /\ pcm \in [Pipes -> BOOLEAN]
      /\ held \in [Pipes -> BOOLEAN] /\ ahead \in [Pipes -> SUBSET Pipes]
  OBVIOUS
<1>4. state \in [Pipes -> LwsState] BY DEF LwsState
<1> QED BY <1>1, <1>2, <1>3, <1>4 DEF TypeOK

\* start_capture and the session's own steps.
LEMMA SessionType == ASSUME TypeOK, NEW p \in Pipes, SessionStep(p) PROVE TypeOK'
<1> USE DEF TypeOK, pipeVars, ownerVars, queueVars, listVars, lwsVars, histVars, Names
<1>1. CASE Construct(p)
  BY <1>1 DEF Construct, BecomesLife
<1>2. CASE Abandon(p)
  BY <1>2 DEF Abandon, BecomesLife
<1>3. CASE Attach(p)
  BY <1>3 DEF Attach
<1>4. CASE Connect(p)
  BY <1>4 DEF Connect, BecomesLife, WakesService
<1>5. CASE ConnectThroughNull(p)
  BY <1>5 DEF ConnectThroughNull
<1>6. CASE StopDisconnected(p)
  BY <1>6 DEF StopDisconnected, Detach
<1> QED BY <1>1, <1>2, <1>3, <1>4, <1>5, <1>6 DEF SessionStep

\* Calls into a pipe and fork_session_cleanup.
LEMMA CallType ==
  ASSUME TypeOK, NEW c \in Callers, NEW p \in Pipes, NEW op \in Ops,
         Call(c, p, op) \/ CallIntoDeleted(c, p, op)
  PROVE  TypeOK'
<1> USE ConstantsAssumption DEF ConstantsAssumption, TypeOK, pipeVars, ownerVars, queueVars, listVars, lwsVars, histVars
<1>1. CASE Call(c, p, op)
  BY <1>1 DEF Call, Calls
<1>2. CASE CallIntoDeleted(c, p, op)
  BY <1>2 DEF CallIntoDeleted
<1> QED BY <1>1, <1>2

LEMMA StopType ==
  ASSUME TypeOK, NEW c \in Callers, NEW p \in Pipes, Stop(c, p)
  PROVE  TypeOK'
BY DEF TypeOK, Stop, Calls, AllOps, pipeVars, ownerVars, queueVars, listVars, lwsVars, histVars

LEMMA StoreType ==
  ASSUME TypeOK, NEW p \in Pipes, NEW op, StoreInto(p, op)
  PROVE  /\ UNCHANGED <<life, wsi, sent>>
         /\ state' \in [Pipes -> LwsState] /\ graceful' \in [Pipes -> BOOLEAN]
         /\ accepted' \in [Pipes -> Nat] /\ packets' \in [Pipes -> Nat]
         /\ pcm' \in [Pipes -> BOOLEAN]
<1> USE DEF TypeOK, StoreInto, pipeVars, queueVars
<1>1. CASE op \in {"text", "final"} BY <1>1
<1>2. CASE op = "packet" BY <1>2
<1>3. CASE op = "pcm" BY <1>3
<1>4. CASE op = "close" BY <1>4 DEF LwsState
<1>5. CASE op = "graceful" BY <1>5
<1> QED BY <1>1, <1>2, <1>3, <1>4, <1>5

LEMMA CallerType == ASSUME TypeOK, NEW c \in Callers, CallerStep(c) PROVE TypeOK'
<1> USE DEF TypeOK, pipeVars, ownerVars, queueVars, listVars, lwsVars, histVars
<1>0. ASSUME Busy(c)
      PROVE  caller[c].op \in AllOps /\ caller[c].pipe \in Pipes
  BY <1>0 DEF Busy, Calls
<1>a. ASSUME Busy(c), NEW at \in {"unlinked", "closing", "checked", "stored", "listed"},
             NEW op \in AllOps, Goes(c, at, op)
      PROVE  caller' \in [Callers -> Calls \cup {NoCall}]
  <2>1. [at |-> at, op |-> op, pipe |-> caller[c].pipe] \in Calls BY <1>0, <1>a DEF Calls
  <2> QED BY <2>1, <1>a DEF Goes
<1>b. ASSUME Returns(c) PROVE caller' \in [Callers -> Calls \cup {NoCall}]
  BY <1>b DEF Returns
<1> "close" \in AllOps /\ "final" \in AllOps BY DEF AllOps
<1>1. CASE Store(c)
  <2>1. caller' \in [Callers -> Calls \cup {NoCall}] BY <1>0, <1>1, <1>a DEF Store
  <2>2. caller[c].pipe \in Pipes BY <1>0, <1>1 DEF Store
  <2>3. CASE Live(caller[c].pipe)
    <3>1. StoreInto(caller[c].pipe, caller[c].op) /\ UNCHANGED faults
      BY <1>1, <2>3 DEF Store
    <3>2. /\ UNCHANGED <<life, wsi, sent>>
          /\ state' \in [Pipes -> LwsState] /\ graceful' \in [Pipes -> BOOLEAN]
          /\ accepted' \in [Pipes -> Nat] /\ packets' \in [Pipes -> Nat]
          /\ pcm' \in [Pipes -> BOOLEAN]
      BY <2>2, <3>1, StoreType
    <3> QED BY <1>1, <2>1, <3>1, <3>2 DEF Store
  <2>4. CASE ~Live(caller[c].pipe)
    BY <1>1, <2>1, <2>2, <2>4 DEF Store
  <2> QED BY <2>3, <2>4
<1>2. CASE Enlist(c)
  <2>1. caller' \in [Callers -> Calls \cup {NoCall}] BY <1>0, <1>2, <1>a DEF Enlist
  <2> QED BY <1>0, <1>2, <2>1 DEF Enlist
<1>3. CASE Cancel(c)
  <2>1. caller' \in [Callers -> Calls \cup {NoCall}] BY <1>0, <1>3, <1>a, <1>b DEF Cancel
  <2>2. caller[c].pipe \in Pipes BY <1>0, <1>3 DEF Cancel
  <2>3. wake' \in BOOLEAN /\ faults' \subseteq ({"deleted", "null_vhd", "null_pipe"} \X Pipes)
    <3> DEFINE p == caller[c].pipe
    <3> HIDE DEF p
    <3>1. p \in Pipes BY <2>2 DEF p
    <3>2. \/ wake' = TRUE /\ UNCHANGED faults
          \/ faults' = faults \cup {<<"null_vhd", p>>} /\ UNCHANGED wake
          \/ wake' \in BOOLEAN /\ faults' = faults \cup {<<"deleted", p>>}
      BY <1>3, Zenon DEF Cancel, p
    <3>3. wake' \in BOOLEAN BY <3>2, Zenon
    <3>4. faults' \subseteq ({"deleted", "null_vhd", "null_pipe"} \X Pipes) BY <3>1, <3>2
    <3> QED BY <3>3, <3>4
  <2> QED BY <1>3, <2>1, <2>3 DEF Cancel
<1>4. CASE Unlink(c)
  <2>1. caller' \in [Callers -> Calls \cup {NoCall}] BY <1>0, <1>4, <1>a DEF Unlink
  <2> QED BY <1>0, <1>4, <2>1 DEF Unlink, Detach
<1>5. CASE FinalText(c)
  <2>1. caller' \in [Callers -> Calls \cup {NoCall}] BY <1>5, <1>a DEF FinalText
  <2> QED BY <1>0, <1>5, <2>1 DEF FinalText, ReadsPipe
<1>6. CASE NoFinalText(c)
  <2>1. caller' \in [Callers -> Calls \cup {NoCall}] BY <1>0, <1>6, <1>a DEF NoFinalText
  <2> QED BY <1>6, <2>1 DEF NoFinalText
<1>7. CASE Close(c)
  <2>1. caller' \in [Callers -> Calls \cup {NoCall}] BY <1>0, <1>7, <1>a, <1>b DEF Close
  <2> QED BY <1>0, <1>7, <2>1 DEF Close, ReadsPipe
<1> QED BY <1>1, <1>2, <1>3, <1>4, <1>5, <1>6, <1>7 DEF CallerStep

\* A terminal event.
LEMMA TerminalType ==
  ASSUME TypeOK, NEW p \in Pipes, NEW st \in LwsState,
         NEW event \in {"failed", "dropped", "closed"}, NotifyAndDelete(p, st, event)
  PROVE  /\ state' \in [Pipes -> LwsState] /\ held' \in [Pipes -> BOOLEAN]
         /\ life' \in [Pipes -> {"none", "built", "requested", "deleted", "abandoned"}]
         /\ fate' \in [Pipes -> {"none", "failed", "dropped", "closed"}]
BY DEF TypeOK, NotifyAndDelete, EndsWith, Forgets

\* The service thread's sweep over the three lists.
LEMMA SweepType ==
  ASSUME TypeOK, CollectConnects \/ Sweep
  PROVE  TypeOK'
<1> USE DEF TypeOK, pipeVars, ownerVars, queueVars, listVars, lwsVars, histVars
<1>1. CASE CollectConnects
  <2>1. IdleEntries \subseteq Pipes BY DEF IdleEntries
  <2> QED BY <1>1, <2>1 DEF CollectConnects, LwsState
<1>2. ASSUME NEW p \in Pipes, ConnectClient(p) PROVE TypeOK'
  BY <1>2 DEF ConnectClient, NextToConnect
<1>3. ASSUME NEW p \in Pipes, ConnectClientFails(p) PROVE TypeOK'
  <2>1. NotifyAndDelete(p, "FAILED", "failed") BY <1>3 DEF ConnectClientFails
  <2>2. "FAILED" \in LwsState BY DEF LwsState
  <2>3. /\ state' \in [Pipes -> LwsState] /\ held' \in [Pipes -> BOOLEAN]
        /\ life' \in [Pipes -> {"none", "built", "requested", "deleted", "abandoned"}]
        /\ fate' \in [Pipes -> {"none", "failed", "dropped", "closed"}]
    BY <2>1, <2>2, TerminalType
  <2> QED BY <1>3, <2>3 DEF ConnectClientFails, NextToConnect
<1>4. CASE ProcessPendingDisconnects
  BY <1>4 DEF ProcessPendingDisconnects, Reads
<1>5. CASE ProcessPendingWrites
  BY <1>5 DEF ProcessPendingWrites, Reads
<1> QED BY <1>1, <1>2, <1>3, <1>4, <1>5 DEF Sweep

\* Callbacks for one connection.
LEMMA CallbackType ==
  ASSUME TypeOK, NEW p \in Pipes,
         Handshake(p) \/ Closed(p) \/ Writeable(p) \/ FinishCallback(p)
  PROVE  TypeOK'
<1> USE DEF TypeOK, pipeVars, ownerVars, queueVars, listVars, lwsVars, histVars
<1>0. ASSUME FindAndRemove(p) PROVE pendingConnects' \subseteq Pipes
  BY <1>0 DEF FindAndRemove
<1>1. CASE ConnectionError(p)
  <2>1. "FAILED" \in LwsState BY DEF LwsState
  <2>2. /\ state' \in [Pipes -> LwsState] /\ held' \in [Pipes -> BOOLEAN]
        /\ life' \in [Pipes -> {"none", "built", "requested", "deleted", "abandoned"}]
        /\ fate' \in [Pipes -> {"none", "failed", "dropped", "closed"}]
    <3>1. CASE Found(p)
      <4>1. NotifyAndDelete(p, "FAILED", "failed") BY <1>1, <3>1 DEF ConnectionError
      <4> QED BY <2>1, <4>1, TerminalType
    <3>2. CASE ~Found(p) BY <1>1, <3>2 DEF ConnectionError
    <3> QED BY <3>1, <3>2
  <2> QED BY <1>0, <1>1, <2>2 DEF ConnectionError
<1>2. CASE Established(p)
  BY <1>0, <1>2 DEF Established, LwsState
<1>3. CASE Closed(p)
  <2>1. CASE state[p] \in {"DISCONNECTING", "CONNECTED"}
    <3>1. PICK event \in {"failed", "dropped", "closed"} : NotifyAndDelete(p, "DISCONNECTED", event)
      BY <1>3, <2>1 DEF Closed
    <3>2. "DISCONNECTED" \in LwsState BY DEF LwsState
    <3>3. /\ state' \in [Pipes -> LwsState] /\ held' \in [Pipes -> BOOLEAN]
          /\ life' \in [Pipes -> {"none", "built", "requested", "deleted", "abandoned"}]
          /\ fate' \in [Pipes -> {"none", "failed", "dropped", "closed"}]
      BY <3>1, <3>2, TerminalType
    <3> QED BY <1>3, <3>3 DEF Closed
  <2>2. CASE state[p] \notin {"DISCONNECTING", "CONNECTED"}
    BY <1>3, <2>2 DEF Closed, LwsState
  <2> QED BY <2>1, <2>2
<1>4. CASE WriteZeroLength(p)
  BY <1>4 DEF WriteZeroLength
<1>5. CASE WriteText(p)
  BY <1>5 DEF WriteText, AskAgain
<1>6. CASE WriteTextFails(p)
  BY <1>6 DEF WriteTextFails
<1>7. CASE NoTextToWrite(p)
  BY <1>7 DEF NoTextToWrite
<1>8. CASE ConnectSuccess(p)
  <2>1. CASE private[NameOf[p]] \in Metadata
    <3> DEFINE q == private[NameOf[p]]
    <3> HIDE DEF q
    <3>1. q \in Pipes /\ SendMetadata(q)
      BY <1>8, <2>1, ConstantsAssumption DEF ConnectSuccess, ConstantsAssumption, q
    <3>2. /\ accepted' \in [Pipes -> Nat] /\ metaAt' \in [Pipes -> Nat]
          /\ pendingWrites' \subseteq Pipes /\ wake' \in BOOLEAN
          /\ faults' \subseteq ({"deleted", "null_vhd", "null_pipe"} \X Pipes)
      <4>1. CASE held[q] /\ Live(q) /\ state[q] = "CONNECTED"
        BY <3>1, <4>1 DEF SendMetadata
      <4>2. CASE ~(held[q] /\ Live(q) /\ state[q] = "CONNECTED")
        BY <3>1, <4>2 DEF SendMetadata
      <4> QED BY <4>1, <4>2
    <3> QED BY <1>8, <3>2 DEF ConnectSuccess
  <2>2. CASE private[NameOf[p]] \notin Metadata
    BY <1>8, <2>2 DEF ConnectSuccess
  <2> QED BY <2>1, <2>2
<1>9. CASE WriteClose(p)
  BY <1>9 DEF WriteClose, AfterText
<1>10. CASE WriteAudio(p)
  <2>1. packets' \in [Pipes -> Nat] /\ pcm' \in [Pipes -> BOOLEAN] /\ writable' \subseteq Pipes
    <3>1. CASE HasPacket(p) BY <1>10, <3>1 DEF WriteAudio, HasPacket
    <3>2. CASE ~HasPacket(p) BY <1>10, <3>2 DEF WriteAudio
    <3> QED BY <3>1, <3>2
  <2> QED BY <1>10, <2>1 DEF WriteAudio, AfterText
<1> QED BY <1>1, <1>2, <1>3, <1>4, <1>5, <1>6, <1>7, <1>8, <1>9, <1>10
        DEF Handshake, Writeable, FinishCallback

LEMMA UnloadType ==
  ASSUME TypeOK, Deinitialize \/ LeaveLoop \/ ContextDestroyed
  PROVE  TypeOK'
<1> USE DEF TypeOK, pipeVars, ownerVars, queueVars, listVars, lwsVars, histVars
<1>1. CASE Deinitialize BY <1>1 DEF Deinitialize
<1>2. CASE LeaveLoop BY <1>2 DEF LeaveLoop
<1>3. CASE ContextDestroyed BY <1>3 DEF ContextDestroyed
<1> QED BY <1>1, <1>2, <1>3

LEMMA NextType == TypeOK /\ [Next]_vars => TypeOK'
<1> SUFFICES ASSUME TypeOK, [Next]_vars PROVE TypeOK'
  OBVIOUS
<1>1. CASE Next
  <2>1. CASE \E p \in Pipes : SessionStep(p) BY <2>1, SessionType
  <2>2. CASE \E c \in Callers, p \in Pipes, op \in Ops :
               Call(c, p, op) \/ CallIntoDeleted(c, p, op)
    BY <2>2, CallType
  <2>3. CASE \E c \in Callers, p \in Pipes : Stop(c, p) BY <2>3, StopType
  <2>4. CASE \E c \in Callers : CallerStep(c) BY <2>4, CallerType
  <2>5. CASE CollectConnects \/ Sweep BY <2>5, SweepType
  <2>6. CASE \E p \in Pipes : Handshake(p) \/ Closed(p) \/ Writeable(p) \/ FinishCallback(p)
    BY <2>6, CallbackType
  <2>7. CASE Deinitialize \/ LeaveLoop \/ ContextDestroyed BY <2>7, UnloadType
  <2> QED BY <1>1, <2>1, <2>2, <2>3, <2>4, <2>5, <2>6, <2>7 DEF Next
<1>2. CASE UNCHANGED vars
  BY <1>2 DEF vars, pipeVars, ownerVars, queueVars, listVars, lwsVars, histVars, TypeOK
<1> QED BY <1>1, <1>2

\* Every variable keeps its type in every behaviour, whatever the threads do.
THEOREM TypeCorrect == Spec => []TypeOK
BY InitType, NextType, PTL DEF Spec

-----------------------------------------------------------------------------
(* The inductive invariant.                                                *)

LEMMA InitIInv == Init => IInv
<1> SUFFICES ASSUME Init PROVE IInv
  OBVIOUS
<1>1. TypeOK BY InitType
<1>2. Connecting
  BY DEF Init, Connecting, Unrequested, Requested, Deleted, Gone, InSweep, SweepOrder
<1>3. Reaching
  <2>1. \A p \in Pipes : private[NameOf[p]] = NoPipe BY DEF Init, Names
  <2>2. Owners BY <2>1, ConstantsAssumption DEF Init, Owners, Attached, ConstantsAssumption
  <2>3. InCall BY DEF Init, InCall, CallSafe, Busy
  <2>4. ReachableIsLive BY <2>1, ConstantsAssumption DEF ReachableIsLive, Attached, ConstantsAssumption
  <2>5. NullVhdOnlyIfGraceful BY DEF Init, NullVhdOnlyIfGraceful
  <2> QED BY <2>2, <2>3, <2>4, <2>5 DEF Reaching
<1> QED BY <1>1, <1>2, <1>3 DEF IInv

\* A step outside the sweep that leaves the connections and their list alone.
LEMMA ConnectingFrame ==
  ASSUME Connecting, UNCHANGED <<life, state, wsi, pendingConnects, ahead>>,
         \/ UNCHANGED svc
         \/ /\ svc.at = "connects" => svc.todo = {}
            /\ svc'.at = "connects" => svc'.todo = {}
  PROVE  Connecting'
<1>1. (Unrequested /\ Requested /\ Deleted /\ SweepOrder)'
  BY DEF Connecting, Unrequested, Requested, Deleted, Gone, SweepOrder
<1>2. InSweep'
  BY DEF Connecting, InSweep
<1> QED BY <1>1, <1>2 DEF Connecting

\* A step of neither a calling thread nor the owner of a pipe, that leaves open
\* connections open.
LEMMA ReachingFrame ==
  ASSUME IInv, UNCHANGED <<life, bug, private, held, caller, graceful>>,
         \A p \in Pipes : state[p] \in {"CONNECTED", "DISCONNECTING"} => state'[p] = state[p],
         \A p \in Pipes : <<"null_vhd", p>> \in faults' => <<"null_vhd", p>> \in faults
  PROVE  Reaching'
<1>1. (Owners /\ ReachableIsLive /\ NullVhdOnlyIfGraceful)'
  BY DEF IInv, Reaching, Owners, Live, Attached, ReachableIsLive, NullVhdOnlyIfGraceful
<1>2. InCall'
  <2> SUFFICES ASSUME NEW c \in Callers, Busy(c) PROVE CallSafe(caller[c])'
    BY DEF InCall, Busy
  <2>1. CallSafe(caller[c]) /\ caller[c].pipe \in Pipes
    BY DEF IInv, TypeOK, Calls, Busy, Reaching, InCall
  <2> QED BY <2>1 DEF CallSafe, Live
<1> QED BY <1>1, <1>2 DEF Reaching

\* A terminal event: the session that is found by name forgets its pipe before
\* the object goes.
LEMMA TerminalReaching ==
  ASSUME IInv, NEW p \in Pipes, NEW st, NEW event, NotifyAndDelete(p, st, event),
         Live(p) \/ Gone(p), UNCHANGED <<bug, private, caller, graceful, faults>>
  PROVE  Reaching'
<1>1. \A q \in Pipes : q # p => life'[q] = life[q] /\ state'[q] = state[q]
  BY DEF NotifyAndDelete, EndsWith, IInv, TypeOK
<1>2. life'[p] = "deleted"
  BY DEF NotifyAndDelete, IInv, TypeOK
<1>3. \A q \in Pipes : held'[q] => held[q] /\ ~(q = p /\ Attached(p))
  <2> DEFINE found == private[NameOf[p]]
  <2>1. held' = IF found = NoPipe THEN held ELSE [held EXCEPT ![found] = FALSE]
    BY DEF NotifyAndDelete, Forgets
  <2>2. Attached(p) => found = p /\ found # NoPipe
    BY ConstantsAssumption DEF Attached, ConstantsAssumption
  <2> HIDE DEF found
  <2> QED BY <2>1, <2>2 DEF IInv, TypeOK
<1>4. Owners'
  BY <1>1, <1>2 DEF IInv, Reaching, Owners, Attached
<1>5. ReachableIsLive'
  BY <1>1, <1>3 DEF IInv, Reaching, ReachableIsLive, Attached, Live
<1>6. NullVhdOnlyIfGraceful' BY DEF IInv, Reaching, NullVhdOnlyIfGraceful
<1>7. InCall'
  <2> SUFFICES ASSUME NEW c \in Callers, Busy(c) PROVE CallSafe(caller[c])'
    BY DEF InCall, Busy
  <2>1. CallSafe(caller[c]) /\ caller[c].pipe \in Pipes
    BY DEF IInv, TypeOK, Calls, Busy, Reaching, InCall
  <2> QED BY <1>1, <1>2, <2>1 DEF CallSafe, Live
<1> QED BY <1>4, <1>5, <1>6, <1>7 DEF Reaching

\* Detaching a bug leaves fewer sessions to be found by name.
LEMMA DetachInv ==
  ASSUME IInv, NEW n \in Names, Detach(n), UNCHANGED <<life, held>>
  PROVE  Owners' /\ ReachableIsLive'
<1>1. \A m \in Names : private'[m] = IF m = n THEN NoPipe ELSE private[m]
  BY DEF Detach, IInv, TypeOK
<1>2. \A q \in Pipes : NameOf[q] \in Names BY DEF Names
<1>3. \A q \in Pipes : Attached(q)' => Attached(q) /\ NameOf[q] # n
  BY <1>1, <1>2, ConstantsAssumption DEF Attached, ConstantsAssumption
<1>4. \A q \in Pipes : bug'[q] = bug[q] \/ (bug'[q] = "off" /\ private[n] = q)
  <2>1. CASE private[n] = NoPipe BY <2>1 DEF Detach
  <2>2. CASE private[n] # NoPipe
    <3>1. private[n] \in Pipes /\ bug' = [bug EXCEPT ![private[n]] = "off"]
      BY <2>2 DEF Detach, IInv, TypeOK
    <3> QED BY <3>1 DEF IInv, TypeOK
  <2> QED BY <2>1, <2>2
<1>5. \A q \in Pipes : Attached(q)' => bug'[q] = bug[q]
  BY <1>3, <1>4, ConstantsAssumption DEF IInv, Reaching, Owners, ConstantsAssumption
<1>6. \A q \in Pipes : bug'[q] # "none" => life[q] \in {"built", "requested", "deleted"}
  BY <1>4, <1>2, ConstantsAssumption DEF IInv, Reaching, Owners, Attached, ConstantsAssumption
<1>7. Owners'
  BY <1>1, <1>3, <1>5, <1>6 DEF IInv, Reaching, Owners
<1>8. ReachableIsLive'
  BY <1>3 DEF IInv, Reaching, ReachableIsLive, Live
<1> QED BY <1>7, <1>8

LEMMA SessionInv == ASSUME IInv, NEW p \in Pipes, SessionStep(p) PROVE Connecting' /\ Reaching'
<1> USE DEF IInv, TypeOK, pipeVars, ownerVars, queueVars, listVars, lwsVars, histVars
<1> USE DEF Connecting, Unrequested, Requested, Deleted, Gone, InSweep, SweepOrder
<1> USE DEF Reaching, Owners, InCall, CallSafe, Busy, Live, Attached, ReachableIsLive, NullVhdOnlyIfGraceful
<1>1. CASE Construct(p)
  <2>1. Connecting' BY <1>1 DEF Construct, BecomesLife
  <2>2. Reaching' BY <1>1 DEF Construct, BecomesLife
  <2> QED BY <2>1, <2>2
<1>2. CASE Abandon(p)
  <2>1. Connecting' BY <1>2 DEF Abandon, BecomesLife
  <2>2. Reaching' BY <1>2 DEF Abandon, BecomesLife
  <2> QED BY <2>1, <2>2
<1>3. CASE Attach(p)
  <2>1. Connecting' BY <1>3 DEF Attach
  <2>2. \A n \in Names : private'[n] = IF n = NameOf[p] THEN p ELSE private[n]
    BY <1>3 DEF Attach
  <2>3. \A q \in Pipes : NameOf[q] \in Names BY DEF Names
  <2>4. \A q \in Pipes : Attached(q)' => q = p \/ Attached(q) BY <2>2, <2>3
  <2>5. Owners'
    <3>1. \A n \in Names : private'[n] # NoPipe => NameOf[private'[n]] = n BY <2>2
    <3> QED BY <1>3, <2>4, <3>1 DEF Attach
  <2>6. InCall' BY <1>3 DEF Attach
  <2>7. ReachableIsLive' BY <1>3, <2>4 DEF Attach
  <2>8. NullVhdOnlyIfGraceful' BY <1>3 DEF Attach
  <2> QED BY <2>1, <2>5, <2>6, <2>7, <2>8
<1>4. CASE Connect(p)
  <2>1. Connecting' BY <1>4 DEF Connect, BecomesLife, WakesService
  <2>2. Reaching' BY <1>4 DEF Connect, BecomesLife, WakesService
  <2> QED BY <2>1, <2>2
<1>5. CASE ConnectThroughNull(p)
  BY <1>5, ConnectingFrame, ReachingFrame DEF ConnectThroughNull
<1>6. CASE StopDisconnected(p)
  <2>1. Connecting' BY <1>6 DEF StopDisconnected
  <2>2. NameOf[p] \in Names BY DEF Names
  <2>3. Owners' /\ ReachableIsLive' BY <1>6, <2>2, DetachInv DEF StopDisconnected
  <2>4. InCall' /\ NullVhdOnlyIfGraceful' BY <1>6 DEF StopDisconnected
  <2> QED BY <2>1, <2>3, <2>4
<1> QED BY <1>1, <1>2, <1>3, <1>4, <1>5, <1>6 DEF SessionStep

\* A call that starts, or a record of a fault.
LEMMA CallInv ==
  ASSUME IInv, NEW c \in Callers, NEW p \in Pipes, NEW op \in Ops,
         Call(c, p, op) \/ CallIntoDeleted(c, p, op)
  PROVE  Connecting' /\ Reaching'
<1> USE DEF pipeVars, ownerVars, queueVars, listVars, lwsVars, histVars
<1>1. CASE Call(c, p, op)
  <2>1. Connecting' BY <1>1, ConnectingFrame DEF IInv, Call
  <2>2. InCall'
    BY <1>1 DEF IInv, TypeOK, Reaching, InCall, CallSafe, Call, Busy, Enters, Live
  <2>3. (Owners /\ ReachableIsLive /\ NullVhdOnlyIfGraceful)'
    BY <1>1 DEF IInv, Reaching, Owners, Attached, ReachableIsLive, NullVhdOnlyIfGraceful, Live, Call
  <2> QED BY <2>1, <2>2, <2>3 DEF Reaching
<1>2. CASE CallIntoDeleted(c, p, op)
  BY <1>2, ConnectingFrame, ReachingFrame DEF IInv, CallIntoDeleted
<1> QED BY <1>1, <1>2

LEMMA StopInv ==
  ASSUME IInv, NEW c \in Callers, NEW p \in Pipes, Stop(c, p)
  PROVE  Connecting' /\ Reaching'
<1> USE DEF pipeVars, ownerVars, queueVars, listVars, lwsVars, histVars
<1>1. Connecting' BY ConnectingFrame DEF IInv, Stop
<1>2. InCall'
  BY DEF IInv, TypeOK, Reaching, InCall, CallSafe, Owners, Stop, Busy, Live
<1>3. (Owners /\ ReachableIsLive /\ NullVhdOnlyIfGraceful)'
  BY DEF IInv, Reaching, Owners, Attached, ReachableIsLive, NullVhdOnlyIfGraceful, Live, Stop
<1> QED BY <1>1, <1>2, <1>3 DEF Reaching

\* A thread that goes on to a place where the invariant asks nothing of its
\* pipe, or that returns.
LEMMA GoesInv ==
  ASSUME IInv, NEW c \in Callers, Busy(c), UNCHANGED <<life, state, graceful>>,
         \/ Returns(c)
         \/ \E at \in {"unlinked", "closing"} : Goes(c, at, "close")
  PROVE  InCall'
BY DEF IInv, TypeOK, Reaching, InCall, CallSafe, Busy, Returns, Goes, Live

\* What the other parts of Reaching need of a thread's step.
LEMMA OwnersFrame ==
  ASSUME Reaching, UNCHANGED <<life, bug, private, held>>
  PROVE  (Owners /\ ReachableIsLive)'
BY DEF Reaching, Owners, Attached, ReachableIsLive, Live

\* The store: close() turns CONNECTED into DISCONNECTING and nothing else.
LEMMA StoreInv == ASSUME IInv, NEW c \in Callers, Store(c) PROVE Connecting' /\ Reaching'
<1> USE DEF pipeVars, ownerVars, queueVars, listVars, lwsVars, histVars
<1> DEFINE p == caller[c].pipe
           op == caller[c].op
<1>1. /\ Busy(c) /\ caller[c].at = "checked" /\ p \in Pipes /\ op \in AllOps
      /\ caller' = [caller EXCEPT ![c] = [at |-> "stored", op |-> op, pipe |-> p]]
  BY DEF Store, Goes, IInv, TypeOK, Busy, Calls
<1>2. UNCHANGED <<life, wsi, ownerVars, listVars, lwsVars>>
  BY DEF Store, StoreInto
<1>3. \/ UNCHANGED <<state, graceful>>
      \/ Live(p) /\ op = "close" /\ state' = [state EXCEPT ![p] = "DISCONNECTING"] /\ UNCHANGED graceful
      \/ Live(p) /\ op = "graceful" /\ graceful' = [graceful EXCEPT ![p] = TRUE] /\ UNCHANGED state
  BY DEF Store, StoreInto
<1>4. Live(p) /\ op # "graceful" => state[p] \in {"CONNECTED", "DISCONNECTING"}
  BY <1>1 DEF IInv, Reaching, InCall, CallSafe
<1>5. Live(p) /\ op = "graceful" => graceful'[p]
  BY <1>1 DEF Store, StoreInto, IInv, TypeOK
<1>6. \A q \in Pipes : state'[q] = state[q]
        \/ (q = p /\ state[q] \in {"CONNECTED", "DISCONNECTING"} /\ state'[q] = "DISCONNECTING")
  BY <1>1, <1>3, <1>4 DEF IInv, TypeOK
<1>7. \A q \in Pipes : graceful[q] => graceful'[q]
  BY <1>1, <1>3 DEF IInv, TypeOK
<1>8. \A q \in Pipes : <<"null_vhd", q>> \in faults' => <<"null_vhd", q>> \in faults
  BY DEF Store
<1> HIDE DEF p, op
<1>9. Connecting'
  <2>1. (Unrequested /\ Requested)'
    BY <1>2, <1>6 DEF IInv, Connecting, Unrequested, Requested
  <2>2. Deleted' BY <1>2, <1>6 DEF IInv, Connecting, Deleted, Gone
  <2>3. InSweep' BY <1>2, <1>6 DEF IInv, Connecting, InSweep
  <2>4. SweepOrder' BY <1>2, <1>6 DEF IInv, Connecting, SweepOrder, TypeOK
  <2> QED BY <2>1, <2>2, <2>3, <2>4 DEF Connecting
<1>10. (Owners /\ ReachableIsLive)' BY <1>2, OwnersFrame DEF IInv
<1>11. NullVhdOnlyIfGraceful' BY <1>7, <1>8 DEF IInv, Reaching, NullVhdOnlyIfGraceful
<1>12. InCall'
  <2> SUFFICES ASSUME NEW d \in Callers, Busy(d)' PROVE CallSafe(caller[d])'
    BY DEF InCall
  <2>1. CASE d = c
    <3>1. caller'[d] = [at |-> "stored", op |-> op, pipe |-> p]
      BY <1>1, <2>1 DEF IInv, TypeOK
    <3>2. life[p] # "none" BY <1>1 DEF IInv, Reaching, InCall, CallSafe, p
    <3>3. Live(p) /\ op # "graceful" => state'[p] \in {"CONNECTED", "DISCONNECTING"}
      BY <1>1, <1>4, <1>6
    <3> QED BY <1>2, <1>5, <3>1, <3>2, <3>3 DEF CallSafe, Live
  <2>2. CASE d # c
    <3>1. caller'[d] = caller[d] /\ Busy(d) BY <1>1, <2>2 DEF Busy
    <3>2. caller[d].pipe \in Pipes BY <3>1 DEF Busy, IInv, TypeOK, Calls
    <3>3. CallSafe(caller[d]) BY <3>1 DEF IInv, Reaching, InCall
    <3> QED BY <1>2, <1>6, <1>7, <3>1, <3>2, <3>3 DEF CallSafe, Live
  <2> QED BY <2>1, <2>2
<1> QED BY <1>9, <1>10, <1>11, <1>12 DEF Reaching

LEMMA CallerInv == ASSUME IInv, NEW c \in Callers, CallerStep(c) PROVE Connecting' /\ Reaching'
<1> USE DEF pipeVars, ownerVars, queueVars, listVars, lwsVars, histVars
<1>0. ASSUME Busy(c) PROVE caller[c].op \in AllOps /\ caller[c].pipe \in Pipes
  BY <1>0 DEF Busy, Calls, IInv, TypeOK
<1>1. CASE Store(c) BY <1>1, StoreInv
<1>2. CASE Enlist(c)
  <2>1. Connecting' BY <1>2, ConnectingFrame DEF IInv, Enlist
  <2>2. (Owners /\ ReachableIsLive)' BY <1>2, OwnersFrame DEF IInv, Enlist
  <2>3. NullVhdOnlyIfGraceful' BY <1>2 DEF IInv, Reaching, NullVhdOnlyIfGraceful, Enlist
  <2>4. InCall' BY <1>2 DEF IInv, TypeOK, Reaching, InCall, CallSafe, Busy, Live, Enlist, Goes
  <2> QED BY <2>1, <2>2, <2>3, <2>4 DEF Reaching
<1>3. CASE Cancel(c)
  <2>1. Connecting' BY <1>3, ConnectingFrame DEF IInv, Cancel
  <2>2. (Owners /\ ReachableIsLive)' BY <1>3, OwnersFrame DEF IInv, Cancel
  <2>3. NullVhdOnlyIfGraceful'
    <3> DEFINE p == caller[c].pipe
    <3>1. p \in Pipes BY <1>0, <1>3 DEF Cancel
    <3>2. Live(p) /\ wsi[p] = "null" => graceful[p]
      <4>1. Live(p) /\ caller[c].op # "graceful" => state[p] \in {"CONNECTED", "DISCONNECTING"}
        BY <1>3 DEF Cancel, IInv, Reaching, InCall, CallSafe
      <4>2. Live(p) /\ caller[c].op = "graceful" => graceful[p]
        BY <1>3 DEF Cancel, IInv, Reaching, InCall, CallSafe
      <4>3. Live(p) /\ state[p] \in {"CONNECTED", "DISCONNECTING"} => wsi[p] # "null"
        BY <3>1 DEF IInv, Connecting, Unrequested, Requested, Live
      <4> QED BY <4>1, <4>2, <4>3
    <3>3. \A q \in Pipes : <<"null_vhd", q>> \in faults' =>
             <<"null_vhd", q>> \in faults \/ (q = p /\ Live(p) /\ wsi[p] = "null")
      BY <1>3 DEF Cancel
    <3> QED BY <1>3, <3>2, <3>3 DEF Cancel, IInv, Reaching, NullVhdOnlyIfGraceful
  <2>4. InCall'
    BY <1>3, GoesInv DEF Cancel
  <2> QED BY <2>1, <2>2, <2>3, <2>4 DEF Reaching
<1>4. CASE Unlink(c)
  <2>1. Connecting' BY <1>4, ConnectingFrame DEF IInv, Unlink
  <2>2. (Owners /\ ReachableIsLive)'
    <3>1. NameOf[caller[c].pipe] \in Names BY <1>0, <1>4 DEF Unlink, Names
    <3> QED BY <1>4, <3>1, DetachInv DEF Unlink
  <2>3. NullVhdOnlyIfGraceful' BY <1>4 DEF IInv, Reaching, NullVhdOnlyIfGraceful, Unlink
  <2>4. caller[c].op = "close" BY <1>4 DEF Unlink, IInv, Reaching, InCall, CallSafe
  <2>5. InCall' BY <1>4, <2>4, GoesInv DEF Unlink
  <2> QED BY <2>1, <2>2, <2>3, <2>5 DEF Reaching
<1>5. CASE FinalText(c)
  <2>1. Connecting' BY <1>5, ConnectingFrame DEF IInv, FinalText
  <2>2. (Owners /\ ReachableIsLive)' BY <1>5, OwnersFrame DEF IInv, FinalText
  <2>3. NullVhdOnlyIfGraceful'
    BY <1>5 DEF IInv, Reaching, NullVhdOnlyIfGraceful, FinalText, ReadsPipe
  <2>4. InCall'
    BY <1>5 DEF IInv, TypeOK, Reaching, InCall, CallSafe, Busy, Live, FinalText, Goes, SeesConnected
  <2> QED BY <2>1, <2>2, <2>3, <2>4 DEF Reaching
<1>6. CASE NoFinalText(c)
  <2>1. Connecting' BY <1>6, ConnectingFrame DEF IInv, NoFinalText
  <2>2. (Owners /\ ReachableIsLive)' BY <1>6, OwnersFrame DEF IInv, NoFinalText
  <2>3. NullVhdOnlyIfGraceful' BY <1>6 DEF IInv, Reaching, NullVhdOnlyIfGraceful, NoFinalText
  <2>4. caller[c].op = "close" BY <1>6 DEF NoFinalText, IInv, Reaching, InCall, CallSafe
  <2>5. InCall' BY <1>6, <2>4, GoesInv DEF NoFinalText
  <2> QED BY <2>1, <2>2, <2>3, <2>5 DEF Reaching
<1>7. CASE Close(c)
  <2>1. Connecting' BY <1>7, ConnectingFrame DEF IInv, Close
  <2>2. (Owners /\ ReachableIsLive)' BY <1>7, OwnersFrame DEF IInv, Close
  <2>3. NullVhdOnlyIfGraceful'
    BY <1>7 DEF IInv, Reaching, NullVhdOnlyIfGraceful, Close, ReadsPipe
  <2>4. CASE Returns(c) BY <1>7, <2>4, GoesInv, <2>1, <2>2, <2>3 DEF Close, Reaching
  <2>5. CASE ~Returns(c)
    <3>1. SeesConnected(caller[c].pipe) /\ Goes(c, "checked", caller[c].op) BY <1>7, <2>5 DEF Close
    <3>2. caller[c].op = "close" BY <1>7 DEF Close, IInv, Reaching, InCall, CallSafe
    <3>3. InCall'
      BY <1>7, <3>1, <3>2 DEF IInv, TypeOK, Reaching, InCall, CallSafe, Busy, Live, Close, Goes, SeesConnected
    <3> QED BY <2>1, <2>2, <2>3, <3>3 DEF Reaching
  <2> QED BY <2>4, <2>5
<1> QED BY <1>1, <1>2, <1>3, <1>4, <1>5, <1>6, <1>7 DEF CallerStep

\* The service thread's sweep over the three lists.
LEMMA SweepInv == ASSUME IInv, CollectConnects \/ Sweep PROVE Connecting' /\ Reaching'
<1> USE DEF pipeVars, ownerVars, queueVars, listVars, lwsVars, histVars
<1>1. CASE CollectConnects
  <2>1. \A p \in Pipes : state'[p] = IF p \in IdleEntries THEN "CONNECTING" ELSE state[p]
    BY <1>1 DEF CollectConnects
  <2>2. \A p \in Pipes : p \in IdleEntries <=>
           life[p] = "requested" /\ state[p] = "IDLE" /\ p \in pendingConnects
    BY DEF IInv, TypeOK, Connecting, Unrequested, Deleted, Gone, IdleEntries
  <2>3. (Unrequested /\ Requested /\ Deleted)'
    BY <1>1, <2>1, <2>2 DEF CollectConnects, IInv, Connecting, Unrequested, Requested, Deleted, Gone
  <2>4. InSweep'
    BY <1>1, <2>1, <2>2 DEF CollectConnects, IInv, Connecting, Requested, InSweep
  <2>5. SweepOrder'
    BY <1>1, <2>1, <2>2 DEF CollectConnects, IInv, TypeOK, Connecting, Requested, Unrequested, Deleted,
                            Gone, SweepOrder
  <2>6. Reaching' BY <1>1, <2>1, <2>2, ReachingFrame DEF CollectConnects
  <2> QED BY <2>3, <2>4, <2>5, <2>6 DEF Connecting
<1>2. ASSUME NEW p \in Pipes, ConnectClient(p) PROVE Connecting' /\ Reaching'
  <2>1. life[p] = "requested" /\ state[p] = "CONNECTING" /\ wsi[p] = "null"
    BY <1>2 DEF ConnectClient, NextToConnect, IInv, Connecting, InSweep
  <2>2. Connecting'
    BY <1>2, <2>1 DEF ConnectClient, NextToConnect, IInv, TypeOK, Connecting, Unrequested,
                      Requested, Deleted, Gone, InSweep, SweepOrder
  <2>3. Reaching' BY <1>2, ReachingFrame DEF ConnectClient
  <2> QED BY <2>2, <2>3
<1>3. ASSUME NEW p \in Pipes, ConnectClientFails(p) PROVE Connecting' /\ Reaching'
  <2>1. life[p] = "requested" /\ state[p] = "CONNECTING" /\ wsi[p] = "null"
    BY <1>3 DEF ConnectClientFails, NextToConnect, IInv, Connecting, InSweep
  <2>2. Connecting'
    BY <1>3, <2>1 DEF ConnectClientFails, NotifyAndDelete, EndsWith, NextToConnect, IInv, TypeOK,
                      Connecting, Unrequested, Requested, Deleted, Gone, InSweep, SweepOrder
  <2>3. Reaching' BY <1>3, <2>1, TerminalReaching DEF ConnectClientFails, Live
  <2> QED BY <2>2, <2>3
<1>4. CASE ProcessPendingDisconnects
  <2>1. \A p \in Pipes : <<"null_vhd", p>> \in faults' => <<"null_vhd", p>> \in faults
    BY <1>4 DEF ProcessPendingDisconnects, Reads
  <2> QED BY <1>4, <2>1, ConnectingFrame, ReachingFrame DEF ProcessPendingDisconnects, IInv, TypeOK
<1>5. CASE ProcessPendingWrites
  <2>1. \A p \in Pipes : <<"null_vhd", p>> \in faults' => <<"null_vhd", p>> \in faults
    BY <1>5 DEF ProcessPendingWrites, Reads
  <2> QED BY <1>5, <2>1, ConnectingFrame, ReachingFrame DEF ProcessPendingWrites, IInv, TypeOK
<1> QED BY <1>1, <1>2, <1>3, <1>4, <1>5 DEF Sweep

\* What the scan of findAndRemovePendingConnect takes off the list: with the
\* match, entries whose m_wsi is null, and never one that is IDLE.
LEMMA ScanKeepsRequests ==
  ASSUME IInv, svc.at # "connects", NEW p \in Pipes, Found(p), FindAndRemove(p)
  PROVE  pendingConnects' = pendingConnects \ {p}
<1>1. ASSUME NEW q \in Scanned(p), wsi[q] = "null" PROVE q = p
  <2>1. q \in pendingConnects /\ (q = p \/ q \in ahead[p])
    BY <1>1 DEF Scanned
  <2>2. q \in Pipes /\ life[q] = "requested" /\ state[q] \in {"IDLE", "CONNECTING"}
    BY <2>1 DEF IInv, TypeOK, Connecting, Unrequested, Requested, Deleted, Gone
  <2>3. state[q] # "CONNECTING"
    BY <1>1, <2>2 DEF IInv, Connecting, InSweep
  <2>4. q \in ahead[p] => state[q] # "IDLE"
    BY <2>1 DEF IInv, Connecting, SweepOrder, Found
  <2> QED BY <2>1, <2>2, <2>3, <2>4
<1>2. {q \in Scanned(p) : wsi[q] = "null"} \subseteq {p} BY <1>1
<1> QED BY <1>2 DEF FindAndRemove

\* Callbacks for one connection.
LEMMA HandshakeInv ==
  ASSUME IInv, NEW p \in Pipes, Handshake(p)
  PROVE  Connecting' /\ Reaching'
<1> USE DEF pipeVars, ownerVars, queueVars, listVars, lwsVars, histVars
<1>1. /\ wsi[p] = "handshake" /\ svc.at # "connects"
      /\ life[p] = "requested" /\ state[p] = "CONNECTING" /\ p \in pendingConnects
  BY DEF Handshake, ConnectionError, Established, IInv, TypeOK, Connecting, Unrequested,
         Requested, Deleted, Gone
<1>2. Found(p) BY <1>1 DEF Found
<1>3. pendingConnects' = pendingConnects \ {p}
  BY <1>1, <1>2, ScanKeepsRequests DEF Handshake, ConnectionError, Established
<1>4. CASE ConnectionError(p)
  <2>1. NotifyAndDelete(p, "FAILED", "failed") BY <1>2, <1>4 DEF ConnectionError
  <2>2. Connecting'
    BY <1>1, <1>3, <1>4, <2>1 DEF ConnectionError, NotifyAndDelete, EndsWith, IInv, TypeOK,
       Connecting, Unrequested, Requested, Deleted, Gone, InSweep, SweepOrder
  <2>3. Reaching' BY <1>1, <1>4, <2>1, TerminalReaching DEF ConnectionError, Live
  <2> QED BY <2>2, <2>3
<1>5. CASE Established(p)
  <2>1. Connecting'
    BY <1>1, <1>3, <1>5 DEF Established, IInv, TypeOK,
       Connecting, Unrequested, Requested, Deleted, Gone, InSweep, SweepOrder
  <2>2. Reaching' BY <1>1, <1>5, ReachingFrame DEF Established, IInv, TypeOK
  <2> QED BY <2>1, <2>2
<1> QED BY <1>4, <1>5 DEF Handshake

LEMMA ClosedInv ==
  ASSUME IInv, NEW p \in Pipes, Closed(p)
  PROVE  Connecting' /\ Reaching'
<1> USE DEF pipeVars, ownerVars, queueVars, listVars, lwsVars, histVars
<1>1. life[p] = "requested" /\ state[p] \in {"CONNECTED", "DISCONNECTING"} /\ svc.at # "connects"
  BY DEF Closed, IInv, TypeOK, Connecting, Unrequested, Requested, Deleted, Gone
<1>2. PICK event : NotifyAndDelete(p, "DISCONNECTED", event)
  BY <1>1 DEF Closed
<1>3. Connecting'
  BY <1>1, <1>2 DEF Closed, NotifyAndDelete, EndsWith, IInv, TypeOK,
     Connecting, Unrequested, Requested, Deleted, Gone, InSweep, SweepOrder
<1>4. Reaching' BY <1>1, <1>2, TerminalReaching DEF Closed, Live
<1> QED BY <1>3, <1>4

LEMMA WriteableInv ==
  ASSUME IInv, NEW p \in Pipes, Writeable(p) \/ FinishCallback(p)
  PROVE  Connecting' /\ Reaching'
<1> USE DEF pipeVars, ownerVars, queueVars, listVars, lwsVars, histVars
<1>0. ASSUME UNCHANGED <<life, state, pendingConnects, ahead>>,
             svc.at # "connects", svc'.at # "connects",
             \/ UNCHANGED wsi
             \/ wsi[p] \in {"open", "closing"} /\ wsi' = [wsi EXCEPT ![p] = "closing"]
      PROVE  Connecting'
  BY <1>0 DEF IInv, TypeOK, Connecting, Unrequested, Requested, Deleted, Gone, InSweep, SweepOrder
<1>1. CASE WriteZeroLength(p)
  BY <1>0, <1>1, ReachingFrame DEF WriteZeroLength, Serving
<1>2. CASE WriteText(p)
  BY <1>0, <1>2, ReachingFrame DEF WriteText, Serving
<1>3. CASE WriteTextFails(p)
  BY <1>0, <1>3, ReachingFrame DEF WriteTextFails, Serving
<1>4. CASE NoTextToWrite(p)
  BY <1>0, <1>4, ReachingFrame DEF NoTextToWrite, Serving
<1>5. CASE ConnectSuccess(p)
  <2>1. \A q \in Pipes : <<"null_vhd", q>> \in faults' => <<"null_vhd", q>> \in faults
    BY <1>5 DEF ConnectSuccess, SendMetadata
  <2> QED BY <1>0, <1>5, <2>1, ReachingFrame DEF ConnectSuccess
<1>6. CASE WriteClose(p)
  <2>1. life[p] = "requested" => wsi[p] \in {"open", "closing"}
    BY <1>6 DEF WriteClose, AfterText, IInv, Connecting, Requested
  <2>2. life[p] = "requested"
    BY <1>6 DEF WriteClose, AfterText, IInv, TypeOK, Connecting, Unrequested, Deleted, Gone
  <2> QED BY <1>0, <1>6, <2>1, <2>2, ReachingFrame DEF WriteClose, AfterText
<1>7. CASE WriteAudio(p)
  BY <1>0, <1>7, ReachingFrame DEF WriteAudio, AfterText
<1> QED BY <1>1, <1>2, <1>3, <1>4, <1>5, <1>6, <1>7 DEF Writeable, FinishCallback

LEMMA UnloadInv ==
  ASSUME IInv, Deinitialize \/ LeaveLoop \/ ContextDestroyed
  PROVE  Connecting' /\ Reaching'
<1> USE DEF pipeVars, ownerVars, queueVars, listVars, lwsVars, histVars
<1>1. UNCHANGED <<life, state, wsi, pendingConnects, ahead, bug, private, held, caller, graceful, faults>>
  BY DEF Deinitialize, LeaveLoop, ContextDestroyed
<1>2. UNCHANGED svc \/ (svc.at # "connects" /\ svc'.at # "connects")
  BY DEF Deinitialize, LeaveLoop, ContextDestroyed
<1> QED BY <1>1, <1>2, ConnectingFrame, ReachingFrame DEF IInv

LEMMA NextInv == IInv /\ [Next]_vars => IInv'
<1> SUFFICES ASSUME IInv, [Next]_vars PROVE IInv'
  OBVIOUS
<1>1. TypeOK' BY NextType DEF IInv
<1>2. CASE Next
  <2>1. CASE \E p \in Pipes : SessionStep(p) BY <1>1, <2>1, SessionInv DEF IInv
  <2>2. CASE \E c \in Callers, p \in Pipes, op \in Ops :
               Call(c, p, op) \/ CallIntoDeleted(c, p, op)
    BY <1>1, <2>2, CallInv DEF IInv
  <2>3. CASE \E c \in Callers, p \in Pipes : Stop(c, p) BY <1>1, <2>3, StopInv DEF IInv
  <2>4. CASE \E c \in Callers : CallerStep(c) BY <1>1, <2>4, CallerInv DEF IInv
  <2>5. CASE CollectConnects \/ Sweep BY <1>1, <2>5, SweepInv DEF IInv
  <2>6. CASE \E p \in Pipes : Handshake(p) \/ Closed(p) \/ Writeable(p) \/ FinishCallback(p)
    BY <1>1, <2>6, HandshakeInv, ClosedInv, WriteableInv DEF IInv
  <2>7. CASE Deinitialize \/ LeaveLoop \/ ContextDestroyed BY <1>1, <2>7, UnloadInv DEF IInv
  <2> QED BY <1>2, <2>1, <2>2, <2>3, <2>4, <2>5, <2>6, <2>7 DEF Next
<1>3. CASE UNCHANGED vars
  <2>1. UNCHANGED <<life, state, wsi, pendingConnects, ahead, svc, bug, private, held, caller, graceful, faults>>
    BY <1>3 DEF vars, pipeVars, ownerVars, queueVars, listVars, lwsVars, histVars
  <2> QED BY <1>1, <2>1, ConnectingFrame, ReachingFrame DEF IInv
<1> QED BY <1>2, <1>3

THEOREM Invariance == Spec => []IInv
BY InitIInv, NextInv, PTL DEF Spec

-----------------------------------------------------------------------------
(* What follows from it.                                                   *)

LEMMA ConnectionsFollow == IInv => ConnectRequestKept /\ PendingConnectsLive
<1> SUFFICES ASSUME IInv PROVE ConnectRequestKept /\ PendingConnectsLive
  OBVIOUS
<1> USE DEF IInv, TypeOK, Connecting, Unrequested, Requested, Deleted, Gone, InSweep
<1>1. ConnectRequestKept
  <2> SUFFICES ASSUME NEW p \in Pipes,
                      \/ life[p] = "requested" /\ state[p] = "IDLE"
                      \/ wsi[p] = "handshake"
                      \/ svc.at = "connects" /\ p \in svc.todo
               PROVE  p \in pendingConnects
    BY DEF ConnectRequestKept
  <2>1. life[p] = "requested" /\ state[p] \in {"IDLE", "CONNECTING"}
    OBVIOUS
  <2> QED BY <2>1
<1>2. PendingConnectsLive BY DEF PendingConnectsLive, Live
<1> QED BY <1>1, <1>2

\* No connect request is lost: whatever other connections fail, succeed or are
\* asked for meanwhile, findAndRemovePendingConnect drops only what it returns.
THEOREM RequestsKept == Spec => []ConnectRequestKept
BY Invariance, ConnectionsFollow, PTL

\* The service thread never meets a deleted pipe in pendingConnects.
THEOREM NoDeletedInConnects == Spec => []PendingConnectsLive
BY Invariance, ConnectionsFollow, PTL

\* A lookup by bug name never yields a deleted pipe, however names are reused.
THEOREM LookupIsLive == Spec => []ReachableIsLive
<1>1. IInv => ReachableIsLive BY DEF IInv, Reaching
<1> QED BY <1>1, Invariance, PTL

\* Only do_graceful_shutdown can reach a pipe whose m_vhd is still null.
THEOREM NullVhdOnlyByGraceful == Spec => []NullVhdOnlyIfGraceful
<1>1. IInv => NullVhdOnlyIfGraceful BY DEF IInv, Reaching
<1> QED BY <1>1, Invariance, PTL

-----------------------------------------------------------------------------
(* AudioPipe implements PipeContract.                                      *)

LEMMA PhaseValue ==
  ASSUME NEW p \in Pipes
  PROVE  phase[p] = IF Gone(p) THEN fate[p]
                    ELSE IF state[p] = "CONNECTED" THEN "up"
                    ELSE IF state[p] = "DISCONNECTING" THEN "stopping"
                    ELSE IF life[p] = "requested" THEN "asked" ELSE "idle"
BY DEF phase, PhaseOf

LEMMA InitContract == Init => Contract!Init
<1> SUFFICES ASSUME Init PROVE Contract!Init
  OBVIOUS
<1>1. \A p \in Pipes : PhaseOf(p) = "idle" BY DEF Init, PhaseOf, Gone
<1> QED BY <1>1 DEF Init, Contract!Init, phase

\* A step that takes one pipe to its next phase.
LEMMA PhasePasses ==
  ASSUME NEW p \in Pipes, NEW to, phase'[p] = to,
         \A q \in Pipes : q # p => phase'[q] = phase[q]
  PROVE  phase' = [phase EXCEPT ![p] = to]
BY DEF phase

\* A step that changes no phase.
LEMMA PhaseStutter ==
  ASSUME \A q \in Pipes : phase'[q] = phase[q]
  PROVE  phase' = phase
BY DEF phase

LEMMA PhaseFrame ==
  ASSUME UNCHANGED <<life, state, fate>>
  PROVE  phase' = phase
BY DEF phase, PhaseOf, Gone

\* A terminal event in a state that has one.
LEMMA TerminalContract ==
  ASSUME IInv, NEW p \in Pipes, NEW st, NEW event, NotifyAndDelete(p, st, event)
  PROVE  phase' = [phase EXCEPT ![p] = event]
<1>1. /\ life' = [life EXCEPT ![p] = "deleted"] /\ state' = [state EXCEPT ![p] = st]
      /\ fate' = [fate EXCEPT ![p] = event]
  BY DEF NotifyAndDelete, EndsWith
<1>2. phase'[p] = event
  <2>1. Gone(p)' /\ fate'[p] = event BY <1>1 DEF Gone, IInv, TypeOK
  <2> QED BY <2>1 DEF phase, PhaseOf
<1>3. ASSUME NEW q \in Pipes, q # p PROVE phase'[q] = phase[q]
  <2>1. life'[q] = life[q] /\ state'[q] = state[q] /\ fate'[q] = fate[q]
    BY <1>1, <1>3 DEF IInv, TypeOK
  <2> QED BY <2>1 DEF phase, PhaseOf, Gone
<1> QED BY <1>2, <1>3, PhasePasses

LEMMA SessionContract ==
  ASSUME IInv, NEW p \in Pipes, SessionStep(p)
  PROVE  [Contract!Next]_Contract!contractVars
<1> USE DEF pipeVars, ownerVars, queueVars, listVars, lwsVars, histVars
<1>1. UNCHANGED <<accepted, sent, state, fate>>
  BY DEF SessionStep, Construct, Abandon, Attach, Connect, WakesService, ConnectThroughNull, StopDisconnected
<1>2. CASE Connect(p)
  <2>1. life' = [life EXCEPT ![p] = "requested"] /\ life[p] = "built"
    BY <1>2 DEF Connect, BecomesLife, WakesService
  <2>2. state[p] = "IDLE" BY <2>1 DEF IInv, Connecting, Unrequested
  <2>3. ASSUME NEW q \in Pipes, q # p PROVE phase'[q] = phase[q]
    <3>1. life'[q] = life[q] BY <2>1, <2>3 DEF IInv, TypeOK
    <3> QED BY <1>1, <3>1 DEF phase, PhaseOf, Gone
  <2>4. life'[p] = "requested" BY <2>1 DEF IInv, TypeOK
  <2>5. phase[p] = "idle" BY <2>1, <2>2 DEF phase, PhaseOf, Gone
  <2>6. phase'[p] = "asked" BY <1>1, <2>2, <2>4 DEF phase, PhaseOf, Gone
  <2>7. phase' = [phase EXCEPT ![p] = "asked"] BY <2>3, <2>6, PhasePasses
  <2>8. Contract!Ask(p) BY <1>1, <2>5, <2>7 DEF Contract!Ask, Contract!Passes
  <2> QED BY <2>8 DEF Contract!Next
<1>3. CASE ~Connect(p)
  <2>1. \A q \in Pipes : life'[q] = life[q] \/
            (life[q] \in {"none", "built", "abandoned"} /\ life'[q] \in {"none", "built", "abandoned"})
    BY <1>3 DEF SessionStep, Construct, Abandon, Attach, ConnectThroughNull, StopDisconnected,
                BecomesLife, IInv, TypeOK
  <2>2. ASSUME NEW q \in Pipes PROVE phase'[q] = phase[q]
    <3>1. CASE life'[q] = life[q] BY <1>1, <3>1 DEF phase, PhaseOf, Gone
    <3>2. CASE life[q] \in {"none", "built", "abandoned"} /\ life'[q] \in {"none", "built", "abandoned"}
      <4>1. state[q] = "IDLE" /\ state'[q] = "IDLE"
        BY <1>1, <3>2 DEF IInv, Connecting, Unrequested
      <4> QED BY <3>2, <4>1 DEF phase, PhaseOf, Gone
    <3> QED BY <2>1, <3>1, <3>2
  <2>3. phase' = phase BY <2>2, PhaseStutter
  <2> QED BY <1>1, <2>3 DEF Contract!contractVars
<1> QED BY <1>2, <1>3

\* bufferForSending of a live pipe is a Hand of the contract.
LEMMA HandContract ==
  ASSUME IInv, NEW p \in Pipes, Live(p), state[p] \in {"CONNECTED", "DISCONNECTING"},
         accepted' = [accepted EXCEPT ![p] = @ + 1], UNCHANGED <<life, state, fate, sent>>
  PROVE  Contract!Hand(p)
<1>1. phase[p] \in {"up", "stopping"} BY DEF phase, PhaseOf, Gone, Live
<1>2. phase' = phase BY PhaseFrame
<1> QED BY <1>1, <1>2 DEF Contract!Hand, Contract!Open

LEMMA StoreContract ==
  ASSUME IInv, NEW c \in Callers, Store(c)
  PROVE  [Contract!Next]_Contract!contractVars
<1> USE DEF pipeVars, ownerVars, queueVars, listVars, lwsVars, histVars
<1>a. Busy(c) /\ caller[c].at = "checked" /\ caller[c] \in Calls
  BY DEF Store, IInv, TypeOK, Busy, Calls
<1> PICK p \in Pipes : p = caller[c].pipe BY <1>a DEF Calls
<1> PICK op \in AllOps : op = caller[c].op BY <1>a DEF Calls
<1>1. Busy(c) /\ caller[c].at = "checked" /\ p \in Pipes
  BY <1>a
<1>2. Live(p) /\ op # "graceful" => state[p] \in {"CONNECTED", "DISCONNECTING"}
  BY <1>1 DEF IInv, Reaching, InCall, CallSafe
<1>3. UNCHANGED <<fate, life, sent>> BY DEF Store, StoreInto
<1>4. CASE Live(p) /\ op \in {"text", "final"}
  <2>1. accepted' = [accepted EXCEPT ![p] = @ + 1] /\ UNCHANGED state
    BY <1>4 DEF Store, StoreInto
  <2>2. Contract!Hand(p) BY <1>1, <1>2, <1>3, <1>4, <2>1, HandContract
  <2> QED BY <1>1, <2>2 DEF Contract!Next
<1>5. CASE Live(p) /\ op = "close"
  <2>1. state' = [state EXCEPT ![p] = "DISCONNECTING"] /\ UNCHANGED accepted
    BY <1>5 DEF Store, StoreInto
  <2>2. ASSUME NEW q \in Pipes, q # p PROVE phase'[q] = phase[q]
    <3>1. state'[q] = state[q] BY <2>1, <2>2 DEF IInv, TypeOK
    <3> QED BY <1>3, <3>1 DEF phase, PhaseOf, Gone
  <2>3. phase'[p] = "stopping"
    <3>1. state'[p] = "DISCONNECTING" /\ ~Gone(p)'
      BY <1>1, <1>3, <1>5, <2>1 DEF IInv, TypeOK, Live, Gone
    <3> QED BY <1>1, <3>1 DEF phase, PhaseOf
  <2>4. phase' = [phase EXCEPT ![p] = "stopping"] BY <1>1, <2>2, <2>3, PhasePasses
  <2>5. phase[p] \in {"up", "stopping"}
    BY <1>1, <1>2, <1>5 DEF phase, PhaseOf, Live, Gone
  <2>6. CASE phase[p] = "up"
    <3>1. Contract!Stop(p) BY <1>3, <2>1, <2>4, <2>6 DEF Contract!Stop, Contract!Passes
    <3> QED BY <1>1, <3>1 DEF Contract!Next
  <2>7. CASE phase[p] = "stopping"
    <3>1. phase' = phase BY <2>2, <2>3, <2>7, PhaseStutter
    <3> QED BY <1>3, <2>1, <3>1 DEF Contract!contractVars
  <2> QED BY <2>5, <2>6, <2>7
<1>6. CASE ~(Live(p) /\ op \in {"text", "final", "close"})
  <2>1. UNCHANGED <<state, accepted>> BY <1>6 DEF Store, StoreInto
  <2>2. phase' = phase BY <1>3, <2>1, PhaseFrame
  <2> QED BY <1>3, <2>1, <2>2 DEF Contract!contractVars
<1> QED BY <1>4, <1>5, <1>6

\* What changes none of these is a stutter of the contract.
LEMMA ContractFrame ==
  ASSUME UNCHANGED <<life, state, fate, accepted, sent>>
  PROVE  [Contract!Next]_Contract!contractVars
<1>1. phase' = phase BY PhaseFrame
<1> QED BY <1>1 DEF Contract!contractVars

LEMMA CallerContract ==
  ASSUME IInv, NEW c \in Callers, CallerStep(c)
  PROVE  [Contract!Next]_Contract!contractVars
<1> USE DEF pipeVars, ownerVars, queueVars, listVars, lwsVars, histVars
<1>1. CASE Store(c) BY <1>1, StoreContract
<1>2. CASE ~Store(c)
  BY <1>2, ContractFrame DEF CallerStep, Enlist, Cancel, Unlink, FinalText, NoFinalText, Close
<1> QED BY <1>1, <1>2

\* A connection lws has open is in one of the two phases that carry text.
LEMMA OpenPhase ==
  ASSUME IInv, NEW p \in Pipes, wsi[p] \in {"open", "closing"}
  PROVE  life[p] = "requested" /\ state[p] \in {"CONNECTED", "DISCONNECTING"}
<1>1. life[p] = "requested"
  BY DEF IInv, TypeOK, Connecting, Unrequested, Deleted, Gone
<1>2. state[p] \in {"IDLE", "CONNECTING", "CONNECTED", "DISCONNECTING"}
      /\ (state[p] = "IDLE" => wsi[p] = "null")
      /\ (state[p] = "CONNECTING" => wsi[p] \in {"null", "handshake"})
  BY <1>1 DEF IInv, Connecting, Requested
<1> QED BY <1>1, <1>2

LEMMA CollectContract ==
  ASSUME IInv, CollectConnects
  PROVE  [Contract!Next]_Contract!contractVars
<1> USE DEF pipeVars, ownerVars, queueVars, listVars, lwsVars, histVars
<1>1. UNCHANGED <<life, fate, accepted, sent>> BY DEF CollectConnects
<1>2. ASSUME NEW q \in Pipes PROVE phase'[q] = phase[q]
  <2>1. state'[q] = IF q \in IdleEntries THEN "CONNECTING" ELSE state[q]
    BY DEF CollectConnects
  <2>2. CASE q \in IdleEntries
    <3>1. state[q] = "IDLE" /\ state'[q] = "CONNECTING" /\ q \in pendingConnects
      BY <2>1, <2>2 DEF IdleEntries
    <3> QED BY <1>1, <3>1 DEF phase, PhaseOf, Gone
  <2>3. CASE q \notin IdleEntries
    BY <1>1, <2>1, <2>3 DEF phase, PhaseOf, Gone
  <2> QED BY <2>2, <2>3
<1>3. phase' = phase BY <1>2, PhaseStutter
<1> QED BY <1>1, <1>3 DEF Contract!contractVars

\* lws refuses the attempt at once, or reports its failure later.
LEMMA FailContract ==
  ASSUME IInv, NEW p \in Pipes, p \in pendingConnects, state[p] = "CONNECTING",
         NotifyAndDelete(p, "FAILED", "failed"), UNCHANGED <<accepted, sent>>
  PROVE  Contract!Fail(p)
<1>1. life[p] = "requested"
  BY DEF IInv, TypeOK, Connecting, Unrequested, Deleted, Gone
<1>2. phase[p] = "asked" BY <1>1 DEF phase, PhaseOf, Gone
<1>3. phase' = [phase EXCEPT ![p] = "failed"] BY TerminalContract
<1> QED BY <1>2, <1>3 DEF Contract!Fail, Contract!Passes

LEMMA SweepContract ==
  ASSUME IInv, Sweep
  PROVE  [Contract!Next]_Contract!contractVars
<1> USE DEF pipeVars, ownerVars, queueVars, listVars, lwsVars, histVars
<1>1. ASSUME NEW p \in Pipes, ConnectClientFails(p)
      PROVE  [Contract!Next]_Contract!contractVars
  <2>1. p \in pendingConnects /\ state[p] = "CONNECTING"
    <3>1. svc.at = "connects" /\ p \in svc.todo
      BY <1>1 DEF ConnectClientFails, NextToConnect
    <3>2. life[p] = "requested" /\ state[p] = "CONNECTING"
      BY <3>1 DEF IInv, Connecting, InSweep
    <3> QED BY <3>2 DEF IInv, Connecting, Requested
  <2>2. NotifyAndDelete(p, "FAILED", "failed") /\ UNCHANGED <<accepted, sent>>
    BY <1>1 DEF ConnectClientFails
  <2>3. Contract!Fail(p) BY <2>1, <2>2, FailContract
  <2> QED BY <2>3 DEF Contract!Next
<1>2. ASSUME NEW p \in Pipes, ConnectClient(p)
      PROVE  [Contract!Next]_Contract!contractVars
  BY <1>2, ContractFrame DEF ConnectClient
<1>3. CASE ProcessPendingDisconnects \/ ProcessPendingWrites
  BY <1>3, ContractFrame DEF ProcessPendingDisconnects, ProcessPendingWrites
<1> QED BY <1>1, <1>2, <1>3 DEF Sweep

LEMMA HandshakeContract ==
  ASSUME IInv, NEW p \in Pipes, Handshake(p)
  PROVE  [Contract!Next]_Contract!contractVars
<1> USE DEF pipeVars, ownerVars, queueVars, listVars, lwsVars, histVars
<1>1. CASE ConnectionError(p) /\ Found(p)
  <2>1. NotifyAndDelete(p, "FAILED", "failed") /\ UNCHANGED <<accepted, sent>>
    BY <1>1 DEF ConnectionError
  <2>2. Contract!Fail(p) BY <1>1, <2>1, FailContract DEF Found
  <2> QED BY <2>2 DEF Contract!Next
<1>2. CASE ConnectionError(p) /\ ~Found(p)
  BY <1>2, ContractFrame DEF ConnectionError
<1>3. CASE Established(p)
  <2>1. state[p] = "CONNECTING" /\ p \in pendingConnects BY <1>3 DEF Established, Found
  <2>2. life[p] = "requested"
    BY <2>1 DEF IInv, TypeOK, Connecting, Unrequested, Deleted, Gone
  <2>3. state' = [state EXCEPT ![p] = "CONNECTED"] /\ UNCHANGED <<life, fate, accepted, sent>>
    BY <1>3 DEF Established
  <2>4. phase[p] = "asked" BY <2>1, <2>2 DEF phase, PhaseOf, Gone
  <2>5. phase'[p] = "up"
    <3>1. state'[p] = "CONNECTED" BY <2>3 DEF IInv, TypeOK
    <3> QED BY <2>2, <2>3, <3>1 DEF phase, PhaseOf, Gone
  <2>6. ASSUME NEW q \in Pipes, q # p PROVE phase'[q] = phase[q]
    <3>1. state'[q] = state[q] BY <2>3, <2>6 DEF IInv, TypeOK
    <3> QED BY <2>3, <3>1 DEF phase, PhaseOf, Gone
  <2>7. phase' = [phase EXCEPT ![p] = "up"] BY <2>5, <2>6, PhasePasses
  <2>8. Contract!Succeed(p) BY <2>3, <2>4, <2>7 DEF Contract!Succeed, Contract!Passes
  <2> QED BY <2>8 DEF Contract!Next
<1> QED BY <1>1, <1>2, <1>3 DEF Handshake

\* CLIENT_CLOSED finds CONNECTED or DISCONNECTING, never a third state.
LEMMA ClosedContract ==
  ASSUME IInv, NEW p \in Pipes, Closed(p)
  PROVE  [Contract!Next]_Contract!contractVars
<1> USE DEF pipeVars, ownerVars, queueVars, listVars, lwsVars, histVars
<1>1. wsi[p] \in {"open", "closing"} /\ UNCHANGED <<accepted, sent>> BY DEF Closed
<1>2. life[p] = "requested" /\ state[p] \in {"CONNECTED", "DISCONNECTING"}
  BY <1>1, OpenPhase
<1>3. CASE state[p] = "CONNECTED"
  <2>1. NotifyAndDelete(p, "DISCONNECTED", "dropped") BY <1>3 DEF Closed
  <2>2. phase[p] = "up" BY <1>2, <1>3 DEF phase, PhaseOf, Gone
  <2>3. phase' = [phase EXCEPT ![p] = "dropped"] BY <2>1, TerminalContract
  <2>4. Contract!Drop(p) BY <1>1, <2>2, <2>3 DEF Contract!Drop, Contract!Passes
  <2> QED BY <2>4 DEF Contract!Next
<1>4. CASE state[p] = "DISCONNECTING"
  <2>1. NotifyAndDelete(p, "DISCONNECTED", "closed") BY <1>4 DEF Closed
  <2>2. phase[p] = "stopping" BY <1>2, <1>4 DEF phase, PhaseOf, Gone
  <2>3. phase' = [phase EXCEPT ![p] = "closed"] BY <2>1, TerminalContract
  <2>4. Contract!Finish(p) BY <1>1, <2>2, <2>3 DEF Contract!Finish, Contract!Passes
  <2> QED BY <2>4 DEF Contract!Next
<1> QED BY <1>2, <1>3, <1>4

LEMMA WriteableContract ==
  ASSUME IInv, NEW p \in Pipes, Writeable(p)
  PROVE  [Contract!Next]_Contract!contractVars
<1> USE DEF pipeVars, ownerVars, queueVars, listVars, lwsVars, histVars
<1>1. CASE WriteText(p)
  <2>1. wsi[p] = "open" /\ Queued(p) > 0 BY <1>1 DEF WriteText, Serving
  <2>2. /\ sent' = [sent EXCEPT ![p] = @ + 1]
        /\ UNCHANGED <<life, state, fate, accepted>>
    BY <1>1 DEF WriteText
  <2>3. life[p] = "requested" /\ state[p] \in {"CONNECTED", "DISCONNECTING"}
    BY <2>1, OpenPhase
  <2>4. phase[p] \in {"up", "stopping"} BY <2>3 DEF phase, PhaseOf, Gone
  <2>5. phase' = phase BY <2>2, PhaseFrame
  <2>6. sent[p] < accepted[p]
    <3>1. sent[p] \in Nat /\ accepted[p] \in Nat BY DEF IInv, TypeOK
    <3> QED BY <2>1, <3>1 DEF Queued
  <2>7. Contract!Deliver(p)
    BY <2>2, <2>4, <2>5, <2>6 DEF Contract!Deliver, Contract!Open
  <2> QED BY <2>7 DEF Contract!Next
<1>2. CASE ~WriteText(p)
  BY <1>2, ContractFrame DEF Writeable, WriteZeroLength, WriteTextFails, NoTextToWrite
<1> QED BY <1>1, <1>2

LEMMA FinishContract ==
  ASSUME IInv, NEW p \in Pipes, FinishCallback(p)
  PROVE  [Contract!Next]_Contract!contractVars
<1> USE DEF pipeVars, ownerVars, queueVars, listVars, lwsVars, histVars
<1>1. CASE ConnectSuccess(p)
  <2> PICK q : q = private[NameOf[p]] OBVIOUS
  <2>1. UNCHANGED <<life, state, fate, sent>> BY <1>1 DEF ConnectSuccess
  <2>2. CASE q \in Metadata /\ held[q] /\ Live(q) /\ state[q] = "CONNECTED"
    <3>1. q \in Pipes BY <2>2, ConstantsAssumption
    <3>2. accepted' = [accepted EXCEPT ![q] = @ + 1]
      BY <1>1, <2>2 DEF ConnectSuccess, SendMetadata
    <3>3. Contract!Hand(q) BY <2>1, <2>2, <3>1, <3>2, HandContract
    <3> QED BY <3>1, <3>3 DEF Contract!Next
  <2>3. CASE ~(q \in Metadata /\ held[q] /\ Live(q) /\ state[q] = "CONNECTED")
    <3>1. UNCHANGED accepted BY <1>1, <2>3 DEF ConnectSuccess, SendMetadata
    <3> QED BY <2>1, <3>1, ContractFrame
  <2> QED BY <2>2, <2>3
<1>2. CASE WriteClose(p) BY <1>2, ContractFrame DEF WriteClose
<1>3. CASE WriteAudio(p) BY <1>3, ContractFrame DEF WriteAudio
<1> QED BY <1>1, <1>2, <1>3 DEF FinishCallback

LEMMA StepContract ==
  IInv /\ [Next]_vars => [Contract!Next]_Contract!contractVars
<1> SUFFICES ASSUME IInv, [Next]_vars PROVE [Contract!Next]_Contract!contractVars
  OBVIOUS
<1> USE DEF pipeVars, ownerVars, queueVars, listVars, lwsVars, histVars
<1>1. CASE \E p \in Pipes : SessionStep(p) BY <1>1, SessionContract
<1>2. CASE \/ \E c \in Callers, p \in Pipes, op \in Ops :
                Call(c, p, op) \/ CallIntoDeleted(c, p, op)
           \/ \E c \in Callers, p \in Pipes : Stop(c, p)
           \/ Deinitialize \/ LeaveLoop \/ ContextDestroyed
           \/ UNCHANGED vars
  BY <1>2, ContractFrame
     DEF Call, CallIntoDeleted, Stop, Deinitialize, LeaveLoop, ContextDestroyed, vars
<1>3. CASE \E c \in Callers : CallerStep(c) BY <1>3, CallerContract
<1>4. CASE CollectConnects \/ Sweep BY <1>4, CollectContract, SweepContract
<1>5. CASE \E p \in Pipes : Handshake(p) \/ Closed(p) \/ Writeable(p) \/ FinishCallback(p)
  BY <1>5, HandshakeContract, ClosedContract, WriteableContract, FinishContract
<1> QED BY <1>1, <1>2, <1>3, <1>4, <1>5 DEF Next

\* Whatever the calls, the sweeps and the callbacks do in whatever order, each
\* connection is asked for once, comes up or fails once, ends once and for the
\* reason reported, and carries the texts handed over, each at most once.
THEOREM Implements == Spec => KeepsContract
<1>1. Spec => Contract!Init /\ [][Contract!Next]_Contract!contractVars
  BY InitContract, StepContract, Invariance, PTL DEF Spec
<1> QED BY <1>1 DEF KeepsContract, Contract!Spec

-----------------------------------------------------------------------------
(* Sessions that have a bug name of their own: then an event reaches the   *)
(* session that owns the pipe.                                             *)

PrivateNames == \A p, q \in Pipes : NameOf[p] = NameOf[q] => p = q

\* A session has the pointer to its pipe as long as there is a pipe.
Kept == \A p \in Pipes : Live(p) => held[p]

LEMMA FoundIsOwn ==
  ASSUME PrivateNames, IInv, NEW p \in Pipes
  PROVE  private[NameOf[p]] \in {p, NoPipe}
<1>1. NameOf[p] \in Names BY DEF Names
<1>2. private[NameOf[p]] \in Pipes \cup {NoPipe} BY <1>1 DEF IInv, TypeOK
<1>3. private[NameOf[p]] # NoPipe => NameOf[private[NameOf[p]]] = NameOf[p]
  BY <1>1 DEF IInv, Reaching, Owners
<1> QED BY <1>2, <1>3 DEF PrivateNames

LEMMA TerminalKept ==
  ASSUME PrivateNames, IInv, Kept, NEW p \in Pipes, NEW st, NEW event,
         NotifyAndDelete(p, st, event)
  PROVE  Kept'
<1> SUFFICES ASSUME NEW q \in Pipes, Live(q)' PROVE held'[q]
  BY DEF Kept
<1>1. life' = [life EXCEPT ![p] = "deleted"] /\ Forgets(NameOf[p]) BY DEF NotifyAndDelete
<1>2. q # p /\ Live(q) BY <1>1 DEF Live, IInv, TypeOK
<1>3. held'[q] = held[q]
  <2>1. private[NameOf[p]] \in {p, NoPipe} BY FoundIsOwn
  <2> QED BY <1>1, <1>2, <2>1 DEF Forgets, IInv, TypeOK
<1> QED BY <1>2, <1>3 DEF Kept

LEMMA InitKept == Init => Kept
BY DEF Init, Kept, Live

LEMMA KeptFrame == ASSUME Kept, UNCHANGED <<life, held>> PROVE Kept'
BY DEF Kept, Live

LEMMA SessionKept ==
  ASSUME IInv, Kept, NEW p \in Pipes, SessionStep(p)
  PROVE  Kept'
<1> USE DEF pipeVars, ownerVars, queueVars, listVars, lwsVars, histVars
<1>1. CASE Construct(p)
  BY <1>1 DEF Construct, BecomesLife, Kept, Live, IInv, TypeOK
<1>2. CASE Abandon(p)
  BY <1>2 DEF Abandon, BecomesLife, Kept, Live, IInv, TypeOK
<1>3. CASE Connect(p)
  BY <1>3 DEF Connect, BecomesLife, WakesService, Kept, Live, IInv, TypeOK
<1>4. CASE Attach(p) \/ ConnectThroughNull(p) \/ StopDisconnected(p)
  BY <1>4, KeptFrame DEF Attach, ConnectThroughNull, StopDisconnected
<1> QED BY <1>1, <1>2, <1>3, <1>4 DEF SessionStep

LEMMA CallbackKept ==
  ASSUME PrivateNames, IInv, Kept, NEW p \in Pipes,
         ConnectClientFails(p) \/ ConnectionError(p) \/ Closed(p)
  PROVE  Kept'
<1>1. CASE ConnectClientFails(p)
  BY <1>1, TerminalKept DEF ConnectClientFails
<1>2. CASE ConnectionError(p)
  <2>1. CASE Found(p) BY <1>2, <2>1, TerminalKept DEF ConnectionError
  <2>2. CASE ~Found(p) BY <1>2, <2>2, KeptFrame DEF ConnectionError
  <2> QED BY <2>1, <2>2
<1>3. CASE Closed(p)
  <2>1. state[p] \in {"CONNECTED", "DISCONNECTING"} BY <1>3, OpenPhase DEF Closed
  <2> QED BY <1>3, <2>1, TerminalKept DEF Closed
<1> QED BY <1>1, <1>2, <1>3

LEMMA StepKept ==
  ASSUME PrivateNames, IInv, Kept, [Next]_vars
  PROVE  Kept'
<1> USE DEF pipeVars, ownerVars, queueVars, listVars, lwsVars, histVars
<1>1. CASE \E p \in Pipes : SessionStep(p) BY <1>1, SessionKept
<1>2. CASE \E p \in Pipes : ConnectClientFails(p) \/ ConnectionError(p) \/ Closed(p)
  BY <1>2, CallbackKept
<1>3. CASE \/ \E c \in Callers, p \in Pipes, op \in Ops :
                Call(c, p, op) \/ CallIntoDeleted(c, p, op)
           \/ \E c \in Callers, p \in Pipes : Stop(c, p)
           \/ Deinitialize \/ LeaveLoop \/ ContextDestroyed
           \/ UNCHANGED vars
  BY <1>3, KeptFrame
     DEF Call, CallIntoDeleted, Stop, Deinitialize, LeaveLoop, ContextDestroyed, vars
<1>4. CASE \E c \in Callers : CallerStep(c)
  BY <1>4, KeptFrame
     DEF CallerStep, Store, StoreInto, Enlist, Cancel, Unlink, FinalText, NoFinalText, Close
<1>5. CASE \/ CollectConnects \/ ProcessPendingDisconnects \/ ProcessPendingWrites
           \/ \E p \in Pipes : ConnectClient(p) \/ Established(p) \/ Writeable(p)
                               \/ FinishCallback(p)
  BY <1>5, KeptFrame
     DEF CollectConnects, ProcessPendingDisconnects, ProcessPendingWrites, ConnectClient,
         Established, Writeable, WriteZeroLength, WriteText, WriteTextFails,
         NoTextToWrite, FinishCallback, ConnectSuccess, WriteClose, WriteAudio
<1> QED BY <1>1, <1>2, <1>3, <1>4, <1>5 DEF Next, Sweep, Handshake

LEMMA KeptAlways == ASSUME PrivateNames PROVE Spec => []Kept
<1>1. IInv /\ Kept /\ [Next]_vars => Kept' BY StepKept
<1> QED BY <1>1, InitKept, Invariance, PTL DEF Spec

\* With names of their own, a session that still has its bug loses its pipe
\* only when the pipe is deleted, so a stop always reaches a live connection.
THEOREM StopReachesConnection ==
  ASSUME PrivateNames PROVE Spec => []SessionKeepsItsPipe
<1>1. IInv /\ Kept => SessionKeepsItsPipe
  <2> SUFFICES ASSUME IInv, Kept, NEW p \in Pipes, Attached(p), ~held[p] PROVE Gone(p)
    BY DEF SessionKeepsItsPipe
  <2>1. life[p] \in {"built", "requested", "deleted"} BY DEF IInv, Reaching, Owners
  <2>2. ~Live(p) BY DEF Kept
  <2> QED BY <2>1, <2>2 DEF Live, Gone
<1> QED BY <1>1, KeptAlways, Invariance, PTL

-----------------------------------------------------------------------------
(* The initial metadata goes before the audio of such a session.           *)

\* After CONNECT_SUCCESS a connected session has queued its metadata.
Introduced ==
  \A p \in Metadata :
    /\ metaAt[p] <= accepted[p]
    /\ Attached(p) /\ state[p] = "CONNECTED" /\ ~(svc.at = "established" /\ p \in svc.todo)
       => metaAt[p] > 0

\* Past the texts of a writeable callback, the metadata is on the wire.
AudioTurn ==
  svc.at = "writeable" => \A p \in svc.todo :
    /\ wsi[p] = "open"
    /\ p \in Metadata /\ Attached(p) /\ state[p] # "DISCONNECTING"
       => metaAt[p] > 0 /\ sent[p] >= metaAt[p]

Greeting == Introduced /\ AudioTurn

LEMMA InitGreeting == Init => Greeting
BY ConstantsAssumption DEF Init, Greeting, Introduced, AudioTurn, ConstantsAssumption

LEMMA IntroducedFrame ==
  ASSUME Introduced, IInv, UNCHANGED metaAt,
         svc.at = "established" => UNCHANGED svc,
         \A p \in Pipes : accepted'[p] \in Nat /\ accepted'[p] >= accepted[p],
         \A p \in Pipes : Attached(p)' /\ (state[p] = "CONNECTED")' =>
                            Attached(p) /\ state[p] = "CONNECTED"
  PROVE  Introduced'
<1> SUFFICES ASSUME NEW p \in Metadata
             PROVE  /\ (metaAt[p] <= accepted[p])'
                    /\ Attached(p)' /\ (state[p] = "CONNECTED")'
                         /\ ~(svc.at = "established" /\ p \in svc.todo)' => (metaAt[p] > 0)'
  BY DEF Introduced
<1>1. p \in Pipes /\ metaAt[p] \in Nat /\ accepted[p] \in Nat
  BY ConstantsAssumption DEF ConstantsAssumption, IInv, TypeOK
<1>2. metaAt'[p] <= accepted'[p]
  <2>1. metaAt[p] <= accepted[p] BY DEF Introduced
  <2> QED BY <1>1, <2>1
<1>3. ASSUME Attached(p)', (state[p] = "CONNECTED")',
             ~(svc.at = "established" /\ p \in svc.todo)'
      PROVE  metaAt'[p] > 0
  <2>1. Attached(p) /\ state[p] = "CONNECTED" BY <1>1, <1>3
  <2>2. ~(svc.at = "established" /\ p \in svc.todo) BY <1>3
  <2> QED BY <2>1, <2>2 DEF Introduced
<1> QED BY <1>2, <1>3

LEMMA TurnFrame ==
  ASSUME AudioTurn, IInv, UNCHANGED <<svc, metaAt, sent, wsi>>,
         \A p \in Pipes : wsi[p] = "open" /\ Attached(p)' => Attached(p),
         \A p \in Pipes : state'[p] \in {state[p], "DISCONNECTING"}
  PROVE  AudioTurn'
<1>1. svc.todo \subseteq Pipes BY DEF IInv, TypeOK
<1> QED BY <1>1 DEF AudioTurn

LEMMA NoTurn == ASSUME svc'.at # "writeable" PROVE AudioTurn'
BY DEF AudioTurn

LEMMA SessionGreeting ==
  ASSUME IInv, Greeting, NEW p \in Pipes, SessionStep(p)
  PROVE  Greeting'
<1> USE DEF pipeVars, ownerVars, queueVars, listVars, lwsVars, histVars
<1>1. UNCHANGED <<state, wsi, svc, metaAt, sent, accepted>>
  BY DEF SessionStep, Construct, Abandon, Attach, Connect, WakesService, ConnectThroughNull, StopDisconnected
<1>2. \A q \in Pipes : Attached(q)' => Attached(q) \/ (state[q] = "IDLE" /\ wsi[q] = "null")
  <2>1. CASE Attach(p)
    <3>1. state[p] = "IDLE" /\ wsi[p] = "null"
      BY <2>1 DEF Attach, IInv, Connecting, Unrequested
    <3>2. private' = [private EXCEPT ![NameOf[p]] = p] BY <2>1 DEF Attach
    <3> QED BY <3>1, <3>2 DEF Attached, IInv, TypeOK, Names
  <2>2. CASE StopDisconnected(p)
    <3>1. private' = [private EXCEPT ![NameOf[p]] = NoPipe]
      BY <2>2 DEF StopDisconnected, Detach
    <3> QED BY <3>1, ConstantsAssumption DEF Attached, IInv, TypeOK, Names, ConstantsAssumption
  <2>3. CASE ~Attach(p) /\ ~StopDisconnected(p)
    BY <2>3 DEF SessionStep, Construct, Abandon, Connect, ConnectThroughNull, Attached
  <2> QED BY <2>1, <2>2, <2>3
<1>3. \A q \in Pipes : accepted[q] \in Nat BY DEF IInv, TypeOK
<1>4. \A q \in Pipes : accepted'[q] \in Nat /\ accepted'[q] >= accepted[q] BY <1>1, <1>3
<1>5. Introduced' BY <1>1, <1>2, <1>4, IntroducedFrame DEF Greeting
<1>6. AudioTurn' BY <1>1, <1>2, TurnFrame DEF Greeting
<1> QED BY <1>5, <1>6 DEF Greeting

LEMMA CallerGreeting ==
  ASSUME IInv, Greeting, NEW c \in Callers, CallerStep(c)
  PROVE  Greeting'
<1> USE DEF pipeVars, ownerVars, queueVars, listVars, lwsVars, histVars
<1>0. \A q \in Pipes : accepted[q] \in Nat BY DEF IInv, TypeOK
<1>1. UNCHANGED <<wsi, svc, metaAt, sent>>
  BY DEF CallerStep, Store, StoreInto, Enlist, Cancel, Unlink, FinalText, NoFinalText, Close
<1>2. \A q \in Pipes : /\ accepted'[q] \in Nat /\ accepted'[q] >= accepted[q]
                       /\ state'[q] \in {state[q], "DISCONNECTING"}
  <2>1. CASE Store(c)
    <3>1. UNCHANGED <<accepted, state>>
          \/ (\E p : accepted' = [accepted EXCEPT ![p] = @ + 1] /\ UNCHANGED state)
          \/ (\E p : state' = [state EXCEPT ![p] = "DISCONNECTING"] /\ UNCHANGED accepted)
      BY <2>1 DEF Store, StoreInto
    <3> QED BY <1>0, <3>1 DEF IInv, TypeOK
  <2>2. CASE ~Store(c)
    <3>1. UNCHANGED <<accepted, state>>
      BY <2>2 DEF CallerStep, Enlist, Cancel, Unlink, FinalText, NoFinalText, Close
    <3> QED BY <1>0, <3>1
  <2> QED BY <2>1, <2>2
<1>3. \A q \in Pipes : Attached(q)' => Attached(q)
  <2>1. CASE Unlink(c)
    <3>1. PICK n : private' = [private EXCEPT ![n] = NoPipe] BY <2>1 DEF Unlink, Detach
    <3> QED BY <3>1, ConstantsAssumption DEF Attached, IInv, TypeOK, Names, ConstantsAssumption
  <2>2. CASE ~Unlink(c)
    BY <2>2 DEF CallerStep, Store, Enlist, Cancel, FinalText, NoFinalText, Close, Attached
  <2> QED BY <2>1, <2>2
<1>4. \A q \in Pipes : (state[q] = "CONNECTED")' => state[q] = "CONNECTED" BY <1>2
<1>5. Introduced' BY <1>1, <1>2, <1>3, <1>4, IntroducedFrame DEF Greeting
<1>6. AudioTurn' BY <1>1, <1>2, <1>3, TurnFrame DEF Greeting
<1> QED BY <1>5, <1>6 DEF Greeting

\* Callbacks of the service thread other than the two that matter here.
LEMMA ServiceGreeting ==
  ASSUME IInv, Greeting, NEW p \in Pipes,
         \/ ConnectClient(p) \/ ConnectClientFails(p)
         \/ ConnectionError(p) \/ Closed(p)
         \/ WriteZeroLength(p) \/ WriteText(p) \/ WriteTextFails(p)
         \/ WriteClose(p) \/ WriteAudio(p)
  PROVE  Greeting'
<1> USE DEF pipeVars, ownerVars, queueVars, listVars, lwsVars, histVars
<1>1. UNCHANGED <<metaAt, accepted, private>> /\ svc.at # "established" /\ svc'.at # "writeable"
  BY DEF ConnectClient, ConnectClientFails, NextToConnect, ConnectionError,
         Closed, WriteZeroLength, WriteText, WriteTextFails, Serving, WriteClose, WriteAudio,
         AfterText, IInv, TypeOK
<1>2. \A q \in Pipes : (state[q] = "CONNECTED")' => state[q] = "CONNECTED"
  <2>1. CASE ConnectClientFails(p) \/ ConnectionError(p) \/ Closed(p)
    <3>1. UNCHANGED state \/ \E st \in {"FAILED", "DISCONNECTED"} : state' = [state EXCEPT ![p] = st]
      BY <2>1 DEF ConnectClientFails, ConnectionError, Closed, NotifyAndDelete, EndsWith
    <3> QED BY <3>1 DEF IInv, TypeOK
  <2>2. CASE \/ ConnectClient(p) \/ WriteZeroLength(p) \/ WriteText(p) \/ WriteTextFails(p)
             \/ WriteClose(p) \/ WriteAudio(p)
    BY <2>2 DEF ConnectClient, WriteZeroLength, WriteText, WriteTextFails,
         WriteClose, WriteAudio
  <2> QED BY <2>1, <2>2
<1>3. \A q \in Pipes : accepted'[q] \in Nat /\ accepted'[q] >= accepted[q]
  BY <1>1 DEF IInv, TypeOK
<1>4. \A q \in Pipes : Attached(q)' => Attached(q) BY <1>1 DEF Attached
<1>5. Introduced' BY <1>1, <1>2, <1>3, <1>4, IntroducedFrame DEF Greeting
<1> QED BY <1>1, <1>5, NoTurn DEF Greeting

\* CLIENT_ESTABLISHED publishes CONNECTED before the metadata is queued.
LEMMA EstablishedGreeting ==
  ASSUME IInv, Greeting, NEW p \in Pipes, Established(p)
  PROVE  Greeting'
<1> USE DEF pipeVars, ownerVars, queueVars, listVars, lwsVars, histVars
<1>1. /\ svc.at = "poll" /\ svc' = [at |-> "established", todo |-> {p}]
      /\ state' = [state EXCEPT ![p] = "CONNECTED"]
      /\ UNCHANGED <<metaAt, accepted, private>>
  BY DEF Established
<1>2. Introduced'
  <2> SUFFICES ASSUME NEW q \in Metadata
               PROVE  /\ (metaAt[q] <= accepted[q])'
                      /\ Attached(q)' /\ (state[q] = "CONNECTED")'
                           /\ ~(svc.at = "established" /\ q \in svc.todo)' => (metaAt[q] > 0)'
    BY DEF Introduced
  <2>1. metaAt[q] <= accepted[q] BY DEF Greeting, Introduced
  <2>2. ASSUME q # p, Attached(q)', (state[q] = "CONNECTED")' PROVE metaAt[q] > 0
    <3>1. Attached(q) /\ state[q] = "CONNECTED"
      BY <1>1, <2>2 DEF Attached, IInv, TypeOK
    <3> QED BY <1>1, <3>1 DEF Greeting, Introduced
  <2> QED BY <1>1, <2>1, <2>2
<1>3. AudioTurn' BY <1>1, NoTurn
<1> QED BY <1>2, <1>3 DEF Greeting

\* eventCallback finds the session of the pipe itself.
LEMMA SuccessGreeting ==
  ASSUME PrivateNames, IInv, Kept, Greeting, NEW p \in Pipes, ConnectSuccess(p)
  PROVE  Greeting'
<1> USE DEF pipeVars, ownerVars, queueVars, listVars, lwsVars, histVars
<1>1. /\ svc = [at |-> "established", todo |-> {p}] /\ svc' = [at |-> "poll", todo |-> {}]
      /\ UNCHANGED <<state, private, life, held>>
  BY DEF ConnectSuccess
<1>2. AudioTurn' BY <1>1, NoTurn
<1>3. private[NameOf[p]] \in {p, NoPipe} BY FoundIsOwn
<1>a. NoPipe \notin Metadata /\ Metadata \subseteq Pipes
  BY ConstantsAssumption DEF ConstantsAssumption
<1>4. CASE Attached(p) /\ p \in Metadata /\ state[p] = "CONNECTED"
  <2>1. life[p] = "requested"
    BY <1>4 DEF IInv, TypeOK, Connecting, Unrequested, Deleted, Gone
  <2>2. held[p] /\ Live(p) BY <2>1 DEF Live, Kept
  <2>3. /\ accepted' = [accepted EXCEPT ![p] = @ + 1]
        /\ metaAt' = [metaAt EXCEPT ![p] = IF @ = 0 THEN accepted[p] + 1 ELSE @]
    BY <1>4, <2>2 DEF ConnectSuccess, SendMetadata, Attached
  <2>4. ASSUME NEW q \in Metadata
        PROVE  /\ (metaAt[q] <= accepted[q])'
               /\ Attached(q)' /\ (state[q] = "CONNECTED")' => (metaAt[q] > 0)'
    <3>1. q \in Pipes /\ metaAt[q] \in Nat /\ accepted[q] \in Nat BY <1>a DEF IInv, TypeOK
    <3>2. metaAt[q] <= accepted[q] BY DEF Greeting, Introduced
    <3>3. CASE q = p
      <4>1. accepted'[p] = accepted[p] + 1 BY <2>3, <3>1 DEF IInv, TypeOK
      <4>2. metaAt'[p] = IF metaAt[p] = 0 THEN accepted[p] + 1 ELSE metaAt[p]
        BY <2>3, <3>1 DEF IInv, TypeOK
      <4> QED BY <3>1, <3>2, <3>3, <4>1, <4>2
    <3>4. CASE q # p
      <4>1. accepted'[q] = accepted[q] /\ metaAt'[q] = metaAt[q]
        BY <2>3, <3>1, <3>4 DEF IInv, TypeOK
      <4>2. Attached(q)' /\ (state[q] = "CONNECTED")' => metaAt[q] > 0
        BY <1>1, <3>4 DEF Greeting, Introduced, Attached
      <4> QED BY <3>2, <4>1, <4>2
    <3> QED BY <3>3, <3>4
  <2> QED BY <1>2, <2>4 DEF Greeting, Introduced
<1>5. CASE ~(Attached(p) /\ p \in Metadata /\ state[p] = "CONNECTED")
  <2>1. UNCHANGED <<accepted, metaAt>>
    BY <1>3, <1>5, <1>a DEF ConnectSuccess, SendMetadata, Attached
  <2> QED BY <1>1, <1>2, <1>5, <2>1 DEF Greeting, Introduced, Attached
<1> QED BY <1>4, <1>5

\* Nothing queued means that the metadata has gone out.
LEMMA NoTextGreeting ==
  ASSUME IInv, Greeting, NEW p \in Pipes, NoTextToWrite(p)
  PROVE  Greeting'
<1> USE DEF pipeVars, ownerVars, queueVars, listVars, lwsVars, histVars
<1>1. /\ svc.at = "poll" /\ wsi[p] = "open" /\ Queued(p) = 0
      /\ svc' = [at |-> "writeable", todo |-> {p}]
      /\ UNCHANGED <<state, private, wsi, accepted, sent, metaAt>>
  BY DEF NoTextToWrite, Serving, NoText
<1>2. Introduced'
  BY <1>1 DEF Greeting, Introduced, Attached
<1>3. AudioTurn'
  <2> SUFFICES ASSUME p \in Metadata, Attached(p)', (state[p] # "DISCONNECTING")'
               PROVE  metaAt[p] > 0 /\ sent[p] >= metaAt[p]
    BY <1>1 DEF AudioTurn
  <2>1. Attached(p) /\ state[p] = "CONNECTED" BY <1>1, OpenPhase DEF Attached
  <2>2. metaAt[p] > 0 /\ metaAt[p] <= accepted[p] BY <1>1, <2>1 DEF Greeting, Introduced
  <2>3. metaAt[p] \in Nat /\ accepted[p] \in Nat /\ sent[p] \in Nat BY DEF IInv, TypeOK
  <2>4. accepted[p] = sent[p] BY <1>1, <2>3 DEF Queued
  <2> QED BY <2>2, <2>3, <2>4
<1> QED BY <1>2, <1>3 DEF Greeting

\* A step of a call or of the unload that leaves the pipes alone.
LEMMA IdleGreeting ==
  ASSUME IInv, Greeting, UNCHANGED <<state, wsi, private, svc, metaAt, sent, accepted>>
  PROVE  Greeting'
BY DEF Greeting, Introduced, AudioTurn, Attached

LEMMA StepGreeting ==
  ASSUME PrivateNames, IInv, Kept, Greeting, [Next]_vars
  PROVE  Greeting'
<1> USE DEF pipeVars, ownerVars, queueVars, listVars, lwsVars, histVars
<1>1. CASE \E p \in Pipes : SessionStep(p) BY <1>1, SessionGreeting
<1>2. CASE \E c \in Callers : CallerStep(c) BY <1>2, CallerGreeting
<1>3. CASE \/ \E c \in Callers, p \in Pipes, op \in Ops :
                Call(c, p, op) \/ CallIntoDeleted(c, p, op)
           \/ \E c \in Callers, p \in Pipes : Stop(c, p)
           \/ Deinitialize \/ UNCHANGED vars
  BY <1>3, IdleGreeting DEF Call, CallIntoDeleted, Stop, Deinitialize, vars
<1>4. CASE LeaveLoop \/ ContextDestroyed
  <2>1. UNCHANGED <<metaAt, accepted, private, state>> /\ svc.at # "established"
        /\ svc'.at \notin {"writeable", "established"}
    BY <1>4 DEF LeaveLoop, ContextDestroyed
  <2> QED BY <2>1, NoTurn DEF Greeting, Introduced, Attached
<1>5. CASE CollectConnects \/ ProcessPendingDisconnects \/ ProcessPendingWrites
  <2>1. UNCHANGED <<metaAt, accepted, private>> /\ svc.at # "established"
        /\ svc'.at \notin {"writeable", "established"}
    BY <1>5 DEF CollectConnects, ProcessPendingDisconnects, ProcessPendingWrites, IInv, TypeOK
  <2>2. \A q \in Pipes : (state[q] = "CONNECTED")' => state[q] = "CONNECTED"
    BY <1>5 DEF CollectConnects, ProcessPendingDisconnects, ProcessPendingWrites
  <2> QED BY <2>1, <2>2, NoTurn, ConstantsAssumption
          DEF Greeting, Introduced, Attached, ConstantsAssumption
<1>6. CASE \E p \in Pipes : Established(p) \/ ConnectSuccess(p) \/ NoTextToWrite(p)
  BY <1>6, EstablishedGreeting, SuccessGreeting, NoTextGreeting
<1>7. CASE \E p \in Pipes :
             \/ ConnectClient(p) \/ ConnectClientFails(p) \/ ConnectionError(p) \/ Closed(p)
             \/ WriteZeroLength(p) \/ WriteText(p) \/ WriteTextFails(p)
             \/ WriteClose(p) \/ WriteAudio(p)
  BY <1>7, ServiceGreeting
<1> QED BY <1>1, <1>2, <1>3, <1>4, <1>5, <1>6, <1>7
        DEF Next, Sweep, Handshake, Writeable, FinishCallback

\* With names of their own, no audio frame of a session that still has its bug
\* goes out before its initial metadata, in whichever order the media thread,
\* the service thread's handshake callback and the writeable callbacks run.
THEOREM MetadataFirst ==
  ASSUME PrivateNames PROVE Spec => AudioAfterMetadata
<1>1. IInv /\ Kept /\ Greeting /\ [Next]_vars => Greeting' BY StepGreeting
<1>2. Greeting => [\A p \in Metadata :
         WriteAudio(p) /\ (packets[p] > 0 \/ pcm[p]) /\ Attached(p)
         => metaAt[p] > 0 /\ sent[p] >= metaAt[p]]_vars
  <2> SUFFICES ASSUME Greeting, NEW p \in Metadata, WriteAudio(p), Attached(p)
               PROVE  metaAt[p] > 0 /\ sent[p] >= metaAt[p]
    OBVIOUS
  <2> QED BY DEF WriteAudio, AfterText, Greeting, AudioTurn
<1> QED BY <1>1, <1>2, InitGreeting, KeptAlways, Invariance, PTL DEF Spec, AudioAfterMetadata

=============================================================================
