--------------------------- MODULE DubTrackProofs ---------------------------
(***************************************************************************)
(* Proofs about DubTrack for any number of producers and callers and any   *)
(* buffer marks.                                                           *)
(***************************************************************************)
EXTENDS DubTrack, TLAPS, SequenceTheorems

-----------------------------------------------------------------------------
(* Records.                                                                *)

LEMMA ClosedType ==
  ASSUME NEW r \in Producer
  PROVE  Closed(r) \in Producer /\ Destroyed(r) \in Producer
  BY DEF Closed, Destroyed, Producer, Status

LEMMA AbortedType ==
  ASSUME TypeOK, NEW D \in SUBSET Producers
  PROVE  Aborted(D) \subseteq Handler
<1>1. ASSUME NEW p \in {q \in D : ap[q].timer # "off"}
      PROVE  [p |-> p, what |-> ap[p].timer, aborted |-> TRUE] \in Handler
  <2>1. p \in Producers /\ ap[p] \in Producer /\ ap[p].timer # "off"
    BY DEF TypeOK
  <2>2. ap[p].timer \in Waits
    BY <2>1 DEF Producer
  <2>3. QED BY <2>1, <2>2 DEF Handler
<1>2. QED BY <1>1 DEF Aborted

At == {"idle", "found", "push", "start", "played", "pop", "next", "release",
       "insert", "insertLast", "complete", "failed",
       "flag", "swap", "stop", "delete", "stopAgain", "free", "clear"}

LEMMA EmptyType == <<>> \in Seq(Producers)
  BY EmptySeq

LEMMA ThreadType ==
  ASSUME NEW r \in Thread, NEW at \in At, NEW p \in Maybe
  PROVE  /\ Idle \in Thread /\ [Idle EXCEPT !.at = at, !.this = p] \in Thread
         /\ [Idle EXCEPT !.at = at] \in Thread
         /\ [r EXCEPT !.at = at] \in Thread
         /\ [r EXCEPT !.at = at, !.this = p] \in Thread
<1>1. Idle \in Thread
  BY EmptyType DEF Thread, Idle, Maybe
<1>2. \A s \in Thread : /\ [s EXCEPT !.at = at] \in Thread
                        /\ [s EXCEPT !.at = at, !.this = p] \in Thread
  BY DEF Thread, At
<1>3. QED BY <1>1, <1>2

LEMMA SequenceType ==
  ASSUME NEW s \in Seq(Producers)
  PROVE  /\ Members(s) \subseteq Producers
         /\ \A p \in Producers : Append(s, p) \in Seq(Producers)
         /\ s # <<>> => Head(s) \in Producers /\ Tail(s) \in Seq(Producers)
<1>1. Len(s) \in Nat /\ DOMAIN s = 1..Len(s) /\ \A i \in 1..Len(s) : s[i] \in Producers
  BY LenProperties
<1>2. Members(s) \subseteq Producers
  BY <1>1 DEF Members
<1>3. QED BY <1>2, AppendProperties, HeadTailProperties

\* The producer a step is about.
Targets ==
  \A t \in Threads :
    /\ thread[t].at \in {"found", "push", "start", "insert", "insertLast",
                         "complete", "failed"} => thread[t].this \in Producers
    /\ thread[t].at = "next" => thread[t].next \in Producers

IType == TypeOK /\ Targets

LEMMA HeldType ==
  ASSUME TypeOK, NEW t \in Threads
  PROVE  Held(t) \subseteq Producers /\ LastHeld(t) \subseteq Producers
<1>1. thread[t] \in Thread
  BY DEF TypeOK
<1>2. Members(thread[t].todo) \subseteq Producers
  BY <1>1, SequenceType DEF Thread
<1>3. QED BY <1>1, <1>2 DEF Held, LastHeld, Thread, Maybe

\* Steps of one thread.
LEMMA OneThread ==
  ASSUME IType, NEW t \in Threads, NEW r \in Thread, thread' = [thread EXCEPT ![t] = r],
         r.at \in {"found", "push", "start", "insert", "insertLast",
                   "complete", "failed"} => r.this \in Producers,
         r.at = "next" => r.next \in Producers
  PROVE  thread' \in [Threads -> Thread] /\ Targets'
<1>1. thread' \in [Threads -> Thread]
  BY DEF IType, TypeOK
<1>2. ASSUME NEW u \in Threads
      PROVE thread'[u] = IF u = t THEN r ELSE thread[u]
  BY DEF IType, TypeOK
<1>3. Targets'
  BY <1>2 DEF Targets, IType
<1>4. QED BY <1>1, <1>3

\* start(): what it does to the producers.
LEMMA StartType ==
  ASSUME IType, NEW p \in Producers, Starts(p) \/ Throws(p)
  PROVE  /\ ap' \in [Producers -> Producer] /\ ready' \subseteq Handler
         /\ started' \in [Producers -> {"no", "yes", "threw"}]
<1>1. /\ ap \in [Producers -> Producer] /\ ready \subseteq Handler
      /\ started \in [Producers -> {"no", "yes", "threw"}]
  BY DEF IType, TypeOK
<1>2. CASE Starts(p)
  <2> DEFINE r == [[ap[p] EXCEPT !.open = TRUE, !.status = "AWAITING_RESTART", !.blocks = 0]
                     EXCEPT !.timer = IF KindOf[p] = "file" THEN "read" ELSE "add"]
  <2>1. r \in Producer
    <3>1. ap[p] \in Producer
      BY <1>1
    <3>2. ASSUME NEW what \in Waits
          PROVE  [[ap[p] EXCEPT !.open = TRUE, !.status = "AWAITING_RESTART", !.blocks = 0]
                    EXCEPT !.timer = what] \in Producer
      BY <3>1 DEF Producer, Status
    <3>3. (IF KindOf[p] = "file" THEN "read" ELSE "add") \in Waits
      BY DEF Waits
    <3>4. QED BY <3>2, <3>3
  <2>2. ap' = [ap EXCEPT ![p] = r] /\ ready' = ready \cup Aborted({p})
    BY <1>2 DEF Starts, Arm
  <2>3. Aborted({p}) \subseteq Handler
    BY AbortedType DEF IType
  <2>4. QED BY <1>1, <1>2, <2>1, <2>2, <2>3 DEF Starts
<1>3. CASE Throws(p)
  BY <1>1, <1>3 DEF Throws
<1>4. QED BY <1>2, <1>3

-----------------------------------------------------------------------------
(* Callers that play.                                                      *)

LEMMA PlayType ==
  ASSUME IType, ConstantsAssumption, NEW c \in Callers,
         (\E p \in Producers : Play(c, p)) \/ PlayStep(c)
  PROVE  IType'
<1>1. c \in Threads /\ thread[c] \in Thread
  BY DEF Threads, IType, TypeOK
<1>2. CASE \E p \in Producers : Play(c, p)
  <2>1. PICK p \in Producers : Play(c, p)
    BY <1>2
  <2>2. [thread[c] EXCEPT !.at = "found", !.this = p] \in Thread
    BY <1>1, ThreadType DEF At, Maybe
  <2>3. thread' = [thread EXCEPT ![c] = [thread[c] EXCEPT !.at = "found", !.this = p]]
    BY <1>1, <2>1 DEF Play
  <2>4. [thread[c] EXCEPT !.at = "found", !.this = p].at = "found"
        /\ [thread[c] EXCEPT !.at = "found", !.this = p].this = p
    BY <1>1 DEF Thread
  <2>5. thread' \in [Threads -> Thread] /\ Targets'
    BY <1>1, <2>2, <2>3, <2>4, OneThread
  <2>6. QED BY <2>1, <2>5 DEF IType, TypeOK, Play, trackVars, sessionVars, histVars
<1>3. CASE Construct(c)
  <2>1. /\ Idle \in Thread /\ [thread[c] EXCEPT !.at = "push"] \in Thread
        /\ thread[c].this \in Producers
    BY <1>1, <1>3, ThreadType DEF At, Maybe, Construct, IType, Targets
  <2>2. thread' \in [Threads -> Thread] /\ Targets'
    BY <1>1, <1>3, <2>1, OneThread DEF Construct, Goes, Thread, Idle
  <2>3. ap' \in [Producers -> Producer]
    <3>1. \A r \in Producer : [r EXCEPT !.life = "live"] \in Producer
      BY DEF Producer
    <3>2. ap \in [Producers -> Producer] /\ ap[thread[c].this] \in Producer
      BY <2>1 DEF IType, TypeOK
    <3>3. ap' = ap \/ ap' = [ap EXCEPT ![thread[c].this] =
                                 [ap[thread[c].this] EXCEPT !.life = "live"]]
      BY <1>3 DEF Construct
    <3>4. QED BY <2>1, <3>1, <3>2, <3>3
  <2>4. QED BY <1>3, <2>2, <2>3 DEF IType, TypeOK, Construct, trackVars, sessionVars, histVars
<1>4. CASE Push(c)
  <2>1. /\ [thread[c] EXCEPT !.at = "start"] \in Thread
        /\ [thread[c] EXCEPT !.at = "release"] \in Thread
        /\ thread[c].this \in Producers
    BY <1>1, <1>4, ThreadType DEF At, Maybe, Push, IType, Targets
  <2>2. thread' \in [Threads -> Thread] /\ Targets'
    BY <1>1, <1>4, <2>1, OneThread DEF Push, Goes, Thread
  <2>3. queue' \in Seq(Producers) /\ order' \in Seq(Producers)
    BY <1>4, <2>1, SequenceType DEF Push, IType, TypeOK
  <2>4. QED BY <1>4, <2>2, <2>3 DEF IType, TypeOK, Push, sessionVars
<1>5. CASE StartIt(c)
  <2>1. /\ [thread[c] EXCEPT !.at = "release"] \in Thread
        /\ [thread[c] EXCEPT !.at = "played"] \in Thread
        /\ thread[c].this \in Producers
    BY <1>1, <1>5, ThreadType DEF At, Maybe, StartIt, IType, Targets
  <2>2. thread' \in [Threads -> Thread] /\ Targets'
    BY <1>1, <1>5, <2>1, OneThread DEF StartIt, Goes, Thread
  <2>3. /\ ap' \in [Producers -> Producer] /\ ready' \subseteq Handler
        /\ started' \in [Producers -> {"no", "yes", "threw"}]
    BY <1>5, <2>1, StartType DEF StartIt
  <2>4. QED BY <1>5, <2>2, <2>3 DEF IType, TypeOK, StartIt, trackVars, sessionVars
<1>6. QED BY <1>2, <1>3, <1>4, <1>5 DEF PlayStep

-----------------------------------------------------------------------------
(* onPlayDone and the end of a call.                                       *)

LEMMA DoneType ==
  ASSUME IType, ConstantsAssumption, NEW t \in Threads, DoneStep(t)
  PROVE  IType'
<1>1. thread[t] \in Thread /\ Idle \in Thread
  BY ThreadType DEF IType, TypeOK, At, Maybe
<1>2. CASE PlayDone(t)
  <2>1. /\ [thread[t] EXCEPT !.at = "release"] \in Thread
        /\ [thread[t] EXCEPT !.at = "pop"] \in Thread
    BY <1>1, ThreadType DEF At, Maybe
  <2>2. thread' \in [Threads -> Thread] /\ Targets'
    BY ZenonT(30), <1>1, <1>2, <2>1, OneThread DEF PlayDone, Goes, Thread
  <2>3. QED BY <1>2, <2>2 DEF IType, TypeOK, PlayDone, trackVars, sessionVars, histVars
<1>3. CASE Pop(t)
  <2> DEFINE rest == IF queue = <<>> THEN <<>> ELSE Tail(queue)
             r == [thread[t] EXCEPT !.done = IF queue = <<>> THEN None ELSE Head(queue),
                                    !.next = IF rest = <<>> THEN None ELSE Head(rest),
                                    !.at = IF rest = <<>> THEN "release" ELSE "next"]
  <2>1. queue \in Seq(Producers)
    BY DEF IType, TypeOK
  <2>2. rest \in Seq(Producers) /\ (queue # <<>> => Head(queue) \in Producers)
    BY <2>1, SequenceType, EmptyType
  <2>3. rest # <<>> => Head(rest) \in Producers
    BY <2>2, SequenceType
  <2> HIDE DEF rest
  <2>4. r \in Thread /\ (r.at = "next" => r.next \in Producers) /\ r.at \in {"release", "next"}
    BY ZenonT(30), <1>1, <2>2, <2>3 DEF Thread, Maybe
  <2>5. thread' = [thread EXCEPT ![t] = r] /\ queue' = rest
    BY <1>3 DEF Pop, rest
  <2> HIDE DEF r
  <2>6. thread' \in [Threads -> Thread] /\ Targets'
    BY <2>4, <2>5, OneThread
  <2>7. QED BY <1>3, <2>2, <2>5, <2>6 DEF IType, TypeOK, Pop, sessionVars, histVars
<1>4. CASE StartNext(t)
  <2>1. [thread[t] EXCEPT !.at = "release"] \in Thread /\ thread[t].next \in Producers
    BY <1>1, <1>4, ThreadType DEF At, Maybe, StartNext, IType, Targets
  <2>2. thread' \in [Threads -> Thread] /\ Targets'
    BY <1>1, <1>4, <2>1, OneThread DEF StartNext, Goes, Thread
  <2>3. /\ ap' \in [Producers -> Producer] /\ ready' \subseteq Handler
        /\ started' \in [Producers -> {"no", "yes", "threw"}]
    BY <1>4, <2>1, StartType DEF StartNext
  <2>4. QED BY <1>4, <2>1, <2>2, <2>3 DEF IType, TypeOK, StartNext, trackVars, sessionVars
<1>5. CASE Release(t)
  <2>1. thread' \in [Threads -> Thread] /\ Targets'
    BY <1>1, <1>5, OneThread DEF Release, Idle
  <2>2. LastHeld(t) \subseteq Producers
    BY HeldType DEF IType
  <2>3. Aborted(LastHeld(t)) \subseteq Handler
    BY <2>2, AbortedType DEF IType
  <2>4. ap' \in [Producers -> Producer]
    <3>1. \A p \in Producers : ap[p] \in Producer /\ Destroyed(ap[p]) \in Producer
      BY ClosedType DEF IType, TypeOK
    <3>2. QED BY <1>5, <3>1 DEF Release
  <2>5. QED BY <1>5, <2>1, <2>3, <2>4 DEF IType, TypeOK, Release, trackVars, sessionVars
<1>6. CASE IntoDeletedTrack(t)
  <2>1. thread' \in [Threads -> Thread] /\ Targets'
    BY <1>1, <1>6, OneThread DEF IntoDeletedTrack, Idle
  <2>2. QED BY <1>6, <2>1 DEF IType, TypeOK, IntoDeletedTrack, Faulty, trackVars
<1>7. QED BY <1>2, <1>3, <1>4, <1>5, <1>6 DEF DoneStep

-----------------------------------------------------------------------------
(* Workers.                                                                *)

LEMMA WorkerType ==
  ASSUME IType, ConstantsAssumption, NEW w \in Workers, WorkerStep(w)
  PROVE  IType'
<1>1. w \in Threads /\ thread[w] \in Thread /\ Idle \in Thread
      /\ [Idle EXCEPT !.at = "played"] \in Thread
  BY ThreadType DEF Threads, IType, TypeOK, At, Maybe
<1>2. CASE Cleanup(w)
  <2>1. thread[w].this \in Producers
    BY <1>1, <1>2 DEF Cleanup, IType, Targets
  <2>2. thread' \in [Threads -> Thread] /\ Targets'
    BY <1>1, <1>2, OneThread DEF Cleanup, Idle
  <2>3. Closed(ap[thread[w].this]) \in Producer /\ Aborted({thread[w].this}) \subseteq Handler
    BY <2>1, ClosedType, AbortedType DEF IType, TypeOK
  <2>4. ap' \in [Producers -> Producer]
    BY <1>2, <2>1, <2>3 DEF Cleanup, IType, TypeOK, Producer, Status
  <2>5. QED BY <1>2, <2>2, <2>3, <2>4 DEF IType, TypeOK, Cleanup, trackVars, sessionVars, histVars
<1>3. CASE IntoDeletedProducer(w)
  <2>1. thread' \in [Threads -> Thread] /\ Targets'
    BY <1>1, <1>3, OneThread DEF IntoDeletedProducer, Idle
  <2>2. QED BY <1>3, <2>1 DEF IType, TypeOK, IntoDeletedProducer, Faulty, trackVars, sessionVars
<1>4. QED BY <1>2, <1>3 DEF WorkerStep

-----------------------------------------------------------------------------
(* Handlers of file producers.                                             *)

LEMMA RecordTypes ==
  ASSUME NEW r \in Producer
  PROVE  /\ \A s \in Status : [r EXCEPT !.status = s] \in Producer
         /\ \A what \in Waits \cup {"off"} : [r EXCEPT !.timer = what] \in Producer
         /\ [r EXCEPT !.blocks = @ + 1] \in Producer
         /\ \A x \in {"none", "running", "paused"} : [r EXCEPT !.curl = x] \in Producer
         /\ \A b \in BOOLEAN : [r EXCEPT !.notified = b] \in Producer
  BY DEF Producer

LEMMA InProgressType ==
  ASSUME TypeOK, NEW p \in Producers
  PROVE  InProgress(p) \in Producer
<1>1. ap[p] \in Producer /\ ap[p].status \in Status
  BY DEF TypeOK, Producer
<1>2. (IF ap[p].status = "AWAITING_RESTART" THEN "IN_PROGRESS" ELSE ap[p].status) \in Status
  BY <1>1 DEF Status
<1>3. QED BY <1>1, <1>2, RecordTypes DEF InProgress

\* A handler that leaves its worker where it is.
LEMMA HandlerType ==
  ASSUME IType, NEW h \in ready, NEW r \in Producer,
         ap' = ap \/ ap' = [ap EXCEPT ![h.p] = r],
         ready' = ready \ {h} \/ ready' = (ready \ {h}) \cup Aborted({h.p}),
         UNCHANGED <<trackVars, sessionVars, thread, order, started, silenced>>,
         stuck' = stuck \/ stuck' = stuck \cup {h.p},
         faults' = faults \/ faults' = faults \cup {"producer_deleted"}
           \/ faults' = faults \cup {"track_deleted"} \/ faults' = faults \cup {"closed_file"}
  PROVE  IType'
<1>1. h \in Handler /\ h.p \in Producers
  BY DEF IType, TypeOK, Handler
<1>2. Aborted({h.p}) \subseteq Handler
  BY <1>1, AbortedType DEF IType
<1>3. ap' \in [Producers -> Producer] /\ ready' \subseteq Handler
  <2>1. ap \in [Producers -> Producer] /\ ready \subseteq Handler
    BY DEF IType, TypeOK
  <2>2. ap' \in [Producers -> Producer]
    BY <1>1, <2>1
  <2>3. ready' \subseteq Handler
    BY <1>2, <2>1
  <2>4. QED BY <2>2, <2>3
<1>4. Targets'
  BY DEF Targets, IType
<1>5. stuck' \subseteq Producers
  BY <1>1 DEF IType, TypeOK
<1>6. QED BY <1>1, <1>3, <1>4, <1>5 DEF IType, TypeOK, trackVars, sessionVars

\* A handler after which its worker goes on with the producer.
LEMMA ReadType ==
  ASSUME IType, NEW h \in ready, NEW at \in {"insert", "insertLast", "failed"},
         thread' = [thread EXCEPT !["file"] = [Idle EXCEPT !.at = at, !.this = h.p]],
         ready' = ready \ {h}, ap' = [ap EXCEPT ![h.p] = InProgress(h.p)],
         UNCHANGED <<trackVars, sessionVars, histVars>>
  PROVE  IType'
<1>1. h \in Handler /\ h.p \in Producers /\ "file" \in Threads
  BY DEF IType, TypeOK, Handler, Threads, Workers
<1>2. thread["file"] \in Thread /\ at \in At /\ h.p \in Maybe
  BY SMTT(30), <1>1 DEF IType, TypeOK, At, Maybe
<1>3. [Idle EXCEPT !.at = at, !.this = h.p] \in Thread
  BY <1>2, ThreadType
<1>4. /\ [Idle EXCEPT !.at = at, !.this = h.p].this = h.p
      /\ [Idle EXCEPT !.at = at, !.this = h.p].at = at
  BY DEF Idle
<1>5. thread' \in [Threads -> Thread] /\ Targets'
  BY <1>1, <1>3, <1>4, OneThread
<1>6. InProgress(h.p) \in Producer
  BY <1>1, InProgressType DEF IType
<1>7. ap' \in [Producers -> Producer]
  BY <1>1, <1>6 DEF IType, TypeOK
<1>8. QED BY <1>5, <1>7 DEF IType, TypeOK, trackVars, sessionVars, histVars

LEMMA FileType ==
  ASSUME IType, NEW h \in ready,
         ReadStopped(h) \/ ReadAborted(h) \/ ReadLater(h) \/ ReadSome(h)
           \/ ReadNothing(h) \/ ReadClosed(h)
  PROVE  IType'
<1>1. h.p \in Producers /\ ap[h.p] \in Producer /\ InProgress(h.p) \in Producer
  BY InProgressType DEF IType, TypeOK, Handler
<1>2. CASE ReadStopped(h)
  BY <1>1, <1>2, HandlerType DEF ReadStopped, histVars
<1>3. CASE ReadAborted(h)
  BY <1>3, ReadType DEF ReadAborted
<1>4. CASE ReadLater(h)
  <2>1. [InProgress(h.p) EXCEPT !.timer = "read"] \in Producer
    BY <1>1, RecordTypes DEF Waits
  <2>2. QED BY <1>4, <2>1, HandlerType DEF ReadLater, histVars
<1>5. CASE ReadSome(h)
  BY <1>5, ReadType DEF ReadSome
<1>6. CASE ReadNothing(h)
  <2>1. [ap[h.p] EXCEPT !.status = "COMPLETE"] \in Producer
    BY <1>1, RecordTypes DEF Status
  <2>2. QED BY <1>6, <2>1, HandlerType DEF ReadNothing
<1>7. CASE ReadClosed(h)
  BY <1>1, <1>7, HandlerType DEF ReadClosed, Faulty
<1>8. QED BY <1>2, <1>3, <1>4, <1>5, <1>6, <1>7

LEMMA InsertType ==
  ASSUME IType, Insert
  PROVE  IType'
<1> DEFINE p == thread["file"].this
<1>1. "file" \in Threads /\ Idle \in Thread /\ thread["file"] \in Thread
  BY ThreadType DEF IType, TypeOK, Threads, Workers, At, Maybe
<1>2. p \in Producers
  BY <1>1 DEF Insert, IType, Targets
<1>3. ap[p] \in Producer /\ level' \in Nat
  BY <1>2 DEF IType, TypeOK, Insert
<1>4. CASE thread["file"].at = "insertLast"
  <2>1. [ap[p] EXCEPT !.status = "COMPLETE"] \in Producer
    BY <1>3, RecordTypes DEF Status
  <2>2. ap' = [ap EXCEPT ![p] = [ap[p] EXCEPT !.status = "COMPLETE"]] /\ ready' = ready
    BY <1>4 DEF Insert
  <2>3. [thread["file"] EXCEPT !.at = "complete"] \in Thread
    BY <1>1, ThreadType DEF At, Maybe
  <2>4. /\ [thread["file"] EXCEPT !.at = "complete"].at = "complete"
        /\ [thread["file"] EXCEPT !.at = "complete"].this = p
    BY <1>1 DEF Thread
  <2>5. thread' = [thread EXCEPT !["file"] = [thread["file"] EXCEPT !.at = "complete"]]
    BY <1>4 DEF Insert, Goes
  <2>6. thread' \in [Threads -> Thread] /\ Targets'
    BY <1>1, <1>2, <2>3, <2>4, <2>5, OneThread
  <2>7. ap' \in [Producers -> Producer]
    BY <2>1, <2>2 DEF IType, TypeOK
  <2>8. QED BY <1>3, <2>2, <2>6, <2>7 DEF IType, TypeOK, Insert, sessionVars, histVars
<1>5. CASE thread["file"].at # "insertLast"
  <2> DEFINE r == [ap[p] EXCEPT !.blocks = @ + 1]
  <2>1. [r EXCEPT !.timer = "read"] \in Producer
    BY <1>3, RecordTypes DEF Waits
  <2>2. /\ ap' = [ap EXCEPT ![p] = [r EXCEPT !.timer = "read"]]
        /\ ready' = ready \cup Aborted({p}) /\ thread' = [thread EXCEPT !["file"] = Idle]
    BY <1>5 DEF Insert, Arm
  <2>3. Aborted({p}) \subseteq Handler
    BY <1>2, AbortedType DEF IType
  <2>4. thread' \in [Threads -> Thread] /\ Targets'
    BY <1>1, <2>2, OneThread DEF Idle
  <2>5. ap' \in [Producers -> Producer] /\ ready' \subseteq Handler
    BY <2>1, <2>2, <2>3 DEF IType, TypeOK
  <2>6. QED BY <1>3, <2>4, <2>5 DEF IType, TypeOK, Insert, sessionVars, histVars
<1>6. QED BY <1>4, <1>5

-----------------------------------------------------------------------------
(* Http producers.                                                         *)

LEMMA HttpType ==
  ASSUME IType, NEW h \in ready,
         Add(h) \/ Throttle(h) \/ Restart(h) \/ Cancelled(h) \/ LateHandler(h)
  PROVE  IType'
<1>1. h.p \in Producers /\ ap[h.p] \in Producer /\ Closed(ap[h.p]) \in Producer
  BY ClosedType DEF IType, TypeOK, Handler
<1>2. CASE Add(h)
  <2>1. [ap[h.p] EXCEPT !.curl = "running"] \in Producer
    BY <1>1, RecordTypes
  <2>2. QED BY <1>2, <2>1, HandlerType DEF Add
<1>3. CASE Throttle(h)
  <2>1. CASE level < Low
    <3>1. [ap[h.p] EXCEPT !.curl = "running"] \in Producer
      BY <1>1, RecordTypes
    <3>2. ap' = [ap EXCEPT ![h.p] = [ap[h.p] EXCEPT !.curl = "running"]] \/ ap' = ap
      <4>1. CASE ap[h.p].open
        BY <1>3, <2>1, <4>1 DEF Throttle
      <4>2. CASE ~ap[h.p].open
        <5>1. ap' = [ap EXCEPT ![h.p].curl = ap[h.p].curl]
          BY <1>3, <2>1, <4>2 DEF Throttle
        <5>2. [ap[h.p] EXCEPT !.curl = ap[h.p].curl] = ap[h.p]
          BY <1>1 DEF Producer
        <5>3. QED BY <1>1, <5>1, <5>2 DEF IType, TypeOK
      <4>3. QED BY <4>1, <4>2
    <3>3. QED BY <1>3, <2>1, <3>1, <3>2, HandlerType DEF Throttle, histVars
  <2>2. CASE ~(level < Low)
    <3>1. [ap[h.p] EXCEPT !.timer = "throttle"] \in Producer
      BY <1>1, RecordTypes DEF Waits
    <3>2. QED BY <1>3, <2>2, <3>1, HandlerType DEF Throttle, histVars
  <2>3. QED BY <2>1, <2>2
<1>4. CASE Restart(h)
  <2>1. [Closed(ap[h.p]) EXCEPT !.open = TRUE, !.timer = "add",
                                !.status = "AWAITING_RESTART", !.blocks = 0] \in Producer
    BY <1>1 DEF Producer, Status, Waits
  <2>2. QED BY <1>1, <1>4, <2>1, HandlerType DEF Restart
<1>5. CASE Cancelled(h)
  BY <1>1, <1>5, HandlerType DEF Cancelled, histVars
<1>6. CASE LateHandler(h)
  BY <1>1, <1>6, HandlerType DEF LateHandler, Faulty
<1>7. QED BY <1>2, <1>3, <1>4, <1>5, <1>6

LEMMA TransferType ==
  ASSUME IType, NEW p \in Producers, Expire(p) \/ Transfer(p)
  PROVE  IType'
<1>1. /\ ap \in [Producers -> Producer] /\ ap[p] \in Producer
      /\ [ap[p] EXCEPT !.curl = "none"] \in Producer
      /\ Aborted({p}) \subseteq Handler
  BY RecordTypes, AbortedType DEF IType, TypeOK
<1>2. thread' = thread => Targets'
  BY DEF IType, Targets
<1>3. CASE Expire(p)
  <2>1. [ap[p] EXCEPT !.timer = "off"] \in Producer
    BY <1>1, RecordTypes
  <2>2. ap[p].timer \in Waits
    BY <1>1, <1>3 DEF Expire, Producer
  <2>3. [p |-> p, what |-> ap[p].timer, aborted |-> FALSE] \in Handler
    BY <2>2 DEF Handler
  <2>4. ap' \in [Producers -> Producer] /\ ready' \subseteq Handler
    BY <1>1, <1>3, <2>1, <2>3 DEF Expire, IType, TypeOK
  <2>5. QED BY <1>2, <1>3, <2>4 DEF IType, TypeOK, Expire, trackVars, sessionVars, histVars
<1>4. CASE WriteCb(p)
  <2>1. [ap[p] EXCEPT !.blocks = @ + 1] \in Producer
    BY <1>1, RecordTypes
  <2>2. ap' \in [Producers -> Producer] /\ level' \in Nat
    BY <1>1, <1>4, <2>1 DEF WriteCb, IType, TypeOK
  <2>3. QED BY <1>2, <1>4, <2>2 DEF IType, TypeOK, WriteCb, sessionVars, histVars
<1>5. CASE WritePause(p)
  <2> DEFINE r == [ap[p] EXCEPT !.curl = "paused", !.status = "PAUSED"]
  <2>1. [r EXCEPT !.timer = "throttle"] \in Producer
    BY <1>1 DEF Producer, Status, Waits
  <2>2. ap' = [ap EXCEPT ![p] = [r EXCEPT !.timer = "throttle"]]
        /\ ready' = ready \cup Aborted({p})
    BY <1>5 DEF WritePause, Arm
  <2> HIDE DEF r
  <2>3. ap' \in [Producers -> Producer] /\ ready' \subseteq Handler
    BY <1>1, <2>1, <2>2 DEF IType, TypeOK
  <2>4. QED BY <1>2, <1>5, <2>3 DEF IType, TypeOK, WritePause, trackVars, sessionVars, histVars
<1>6. CASE TransferLoops(p)
  <2> DEFINE r == [ap[p] EXCEPT !.curl = "none"]
  <2>1. [r EXCEPT !.timer = "restart"] \in Producer
    BY <1>1, RecordTypes DEF Waits
  <2>2. ap' = [ap EXCEPT ![p] = [r EXCEPT !.timer = "restart"]]
        /\ ready' = ready \cup Aborted({p})
    BY <1>6 DEF TransferLoops, Arm
  <2> HIDE DEF r
  <2>3. ap' \in [Producers -> Producer] /\ ready' \subseteq Handler
    BY <1>1, <2>1, <2>2 DEF IType, TypeOK
  <2>4. QED BY <1>2, <1>6, <2>3 DEF IType, TypeOK, TransferLoops, trackVars, sessionVars, histVars
<1>7. CASE TransferEnds(p)
  <2>1. "http" \in Threads /\ thread["http"] \in Thread /\ p \in Maybe /\ "complete" \in At
    BY SMTT(30) DEF IType, TypeOK, Threads, Workers, Maybe, At
  <2>2. [Idle EXCEPT !.at = "complete", !.this = p] \in Thread
    BY <2>1, ThreadType
  <2>3. /\ [Idle EXCEPT !.at = "complete", !.this = p].this = p
        /\ [Idle EXCEPT !.at = "complete", !.this = p].at = "complete"
    BY DEF Idle
  <2>4. thread' = [thread EXCEPT !["http"] = [Idle EXCEPT !.at = "complete", !.this = p]]
    BY <1>7 DEF TransferEnds
  <2>5. thread' \in [Threads -> Thread] /\ Targets'
    BY <2>1, <2>2, <2>3, <2>4, OneThread
  <2>6. ap' \in [Producers -> Producer]
    BY <1>1, <1>7 DEF TransferEnds
  <2>7. QED BY <1>7, <2>5, <2>6 DEF IType, TypeOK, TransferEnds, trackVars, sessionVars, histVars
<1>8. CASE LateTransfer(p)
  <2>1. ap' \in [Producers -> Producer]
    BY <1>1, <1>8 DEF LateTransfer
  <2>2. QED BY <1>2, <1>8, <2>1 DEF IType, TypeOK, LateTransfer, Faulty, trackVars, sessionVars
<1>9. QED BY <1>3, <1>4, <1>5, <1>6, <1>7, <1>8 DEF Transfer

-----------------------------------------------------------------------------
(* Removal and the media thread.                                           *)

LEMMA RemoveType ==
  ASSUME IType, ConstantsAssumption, NEW c \in Callers,
         Remove(c) \/ Silence(c) \/ RemoveStep(c)
  PROVE  IType'
<1>1. c \in Threads /\ thread[c] \in Thread /\ Idle \in Thread
  BY ThreadType DEF Threads, IType, TypeOK, At, Maybe
<1>2. ASSUME NEW at \in {"flag", "swap", "stop", "delete", "stopAgain", "free", "clear"},
             Goes(c, at)
      PROVE  thread' \in [Threads -> Thread] /\ Targets'
  <2>1. [thread[c] EXCEPT !.at = at] \in Thread /\ at \in At
    BY <1>1, ThreadType DEF At, Maybe
  <2>2. [thread[c] EXCEPT !.at = at].at = at
    BY <1>1 DEF Thread
  <2>3. thread' = [thread EXCEPT ![c] = [thread[c] EXCEPT !.at = at]]
    BY <1>2 DEF Goes
  <2>4. QED BY <1>1, <2>1, <2>2, <2>3, OneThread
<1>3. CASE Remove(c)
  <2>1. mutex' \in Callers \cup {"free", "media"}
    BY <1>3 DEF Remove
  <2>2. QED BY <1>2, <1>3, <2>1 DEF IType, TypeOK, Remove, trackVars, histVars
<1>4. CASE Silence(c)
  BY <1>2, <1>4 DEF IType, TypeOK, Silence, trackVars, sessionVars
<1>5. CASE Flag(c)
  BY <1>2, <1>5 DEF IType, TypeOK, Flag, sessionVars, histVars
<1>6. CASE Swap(c)
  <2> DEFINE at == IF thread[c].at = "swap" THEN "stop" ELSE "stopAgain"
             r == [thread[c] EXCEPT !.todo = queue, !.at = at]
  <2>1. queue \in Seq(Producers) /\ queue' \in Seq(Producers)
    BY <1>6, EmptyType DEF IType, TypeOK, Swap
  <2>2. r \in Thread /\ r.at \in {"stop", "stopAgain"}
    BY <1>1, <2>1 DEF Thread
  <2>3. thread' = [thread EXCEPT ![c] = r]
    BY <1>1, <1>6 DEF Swap, Thread
  <2> HIDE DEF r
  <2>4. thread' \in [Threads -> Thread] /\ Targets'
    BY <1>1, <2>2, <2>3, OneThread
  <2>5. QED BY <1>6, <2>1, <2>4 DEF IType, TypeOK, Swap, sessionVars, histVars
<1>7. CASE StopOne(c)
  <2> DEFINE p == Head(thread[c].todo)
             stopped == [Closed(ap[p]) EXCEPT !.status = "STOPPED", !.notified = TRUE]
             r == [thread[c] EXCEPT !.todo = Tail(@)]
  <2>1. thread[c].todo \in Seq(Producers) /\ thread[c].todo # <<>>
    BY <1>1, <1>7 DEF Thread, StopOne
  <2>2. p \in Producers /\ Tail(thread[c].todo) \in Seq(Producers)
    BY <2>1, SequenceType
  <2>3. ap[p] \in Producer /\ Closed(ap[p]) \in Producer
    BY <2>2, ClosedType DEF IType, TypeOK
  <2>4. stopped \in Producer
    BY <2>3 DEF Producer, Status
  <2>5. Destroyed(stopped) \in Producer
    BY <2>4, ClosedType
  <2>6. ap' = [ap EXCEPT ![p] = stopped] \/ ap' = [ap EXCEPT ![p] = Destroyed(stopped)]
    BY <1>7 DEF StopOne
  <2>7. ap' \in [Producers -> Producer]
    <3> HIDE DEF stopped, p
    <3>1. QED BY <2>2, <2>4, <2>5, <2>6 DEF IType, TypeOK
  <2>8. ready' \subseteq Handler
    <3>1. ready' = ready \cup Aborted({p}) /\ Aborted({p}) \subseteq Handler
      BY <1>7, <2>2, AbortedType DEF StopOne, IType
    <3>2. QED BY <3>1 DEF IType, TypeOK
  <2>9. r \in Thread /\ r.at = thread[c].at /\ r.this = thread[c].this /\ r.next = thread[c].next
    BY <1>1, <2>2 DEF Thread
  <2>10. thread' = [thread EXCEPT ![c] = r]
    BY <1>7 DEF StopOne
  <2> HIDE DEF r
  <2>11. thread' \in [Threads -> Thread] /\ Targets'
    BY <1>1, <1>7, <2>9, <2>10, OneThread DEF StopOne
  <2>12. QED BY <1>7, <2>7, <2>8, <2>11 DEF IType, TypeOK, StopOne, trackVars, sessionVars, histVars
<1>8. CASE AllStopped(c)
  BY <1>2, <1>8 DEF IType, TypeOK, AllStopped, trackVars, sessionVars, histVars
<1>9. CASE Free(c)
  <2>1. OnlyQueued \subseteq Producers
    BY DEF OnlyQueued, Members, IType, TypeOK
  <2>2. Aborted(OnlyQueued) \subseteq Handler
    BY <2>1, AbortedType DEF IType
  <2>3. ap' \in [Producers -> Producer]
    <3>1. \A p \in Producers : ap[p] \in Producer /\ Destroyed(ap[p]) \in Producer
      BY ClosedType DEF IType, TypeOK
    <3>2. QED BY <1>9, <3>1 DEF Free
  <2>4. queue' \in Seq(Producers)
    BY <1>9, EmptyType DEF Free
  <2>5. thread' \in [Threads -> Thread] /\ Targets'
    BY <1>2, <1>9 DEF Free
  <2>6. QED BY <1>9, <2>2, <2>3, <2>4, <2>5 DEF IType, TypeOK, Free, sessionVars, histVars
<1>10. CASE Clear(c)
  <2>1. thread' \in [Threads -> Thread] /\ Targets'
    BY <1>1, <1>10, OneThread DEF Clear, Idle
  <2>2. QED BY <1>10, <2>1 DEF IType, TypeOK, Clear, histVars
<1>11. QED BY <1>3, <1>4, <1>5, <1>6, <1>7, <1>8, <1>9, <1>10 DEF RemoveStep

LEMMA MediaType ==
  ASSUME IType, ConstantsAssumption, FindActive \/ Mix \/ MixDeleted
  PROVE  IType'
<1>1. thread' = thread => Targets'
  BY DEF IType, Targets
<1>2. CASE FindActive
  BY <1>1, <1>2 DEF IType, TypeOK, FindActive, trackVars, histVars
<1>3. CASE Mix
  <2>1. level' \in Nat
    BY <1>3 DEF Mix, Remaining, IType, TypeOK, ConstantsAssumption
  <2>2. QED BY <1>1, <1>3, <2>1 DEF IType, TypeOK, Mix, histVars
<1>4. CASE MixDeleted
  BY <1>1, <1>4 DEF IType, TypeOK, MixDeleted, Faulty, trackVars
<1>5. QED BY <1>2, <1>3, <1>4

-----------------------------------------------------------------------------
(* Type correctness.                                                       *)

LEMMA InitType == ASSUME Init PROVE IType
<1>1. ASSUME NEW t \in Threads
      PROVE  thread[t] = Idle
  BY DEF Init
<1>2. Idle \in Thread
  BY EmptyType DEF Thread, Idle, Maybe
<1>3. Targets
  BY <1>1 DEF Targets, Idle
<1>4. QED BY <1>2, <1>3, EmptyType DEF IType, TypeOK, Init, Producer, Status

LEMMA NextType == ASSUME IType, [Next]_vars PROVE IType'
<1>1. ASSUME NEW c \in Callers, \/ \E p \in Producers : Play(c, p)
                                \/ Remove(c) \/ Silence(c) \/ PlayStep(c) \/ RemoveStep(c)
      PROVE IType'
  BY <1>1, PlayType, RemoveType, ConstantsAssumption
<1>2. ASSUME NEW t \in Threads, DoneStep(t)
      PROVE IType'
  BY <1>2, DoneType, ConstantsAssumption
<1>3. ASSUME NEW w \in Workers, WorkerStep(w)
      PROVE IType'
  BY <1>3, WorkerType, ConstantsAssumption
<1>4. ASSUME NEW h \in ready, Handle(h)
      PROVE IType'
  BY <1>4, FileType, HttpType DEF Handle
<1>5. CASE UNCHANGED vars
  BY <1>5 DEF vars, trackVars, sessionVars, histVars, IType, TypeOK, Targets
<1>6. QED
  BY <1>1, <1>2, <1>3, <1>4, <1>5, InsertType, TransferType, MediaType,
     ConstantsAssumption DEF Next

\* The track, its producers and its threads keep their types, and a thread
\* that is about to use a producer has one (track.cpp, ap_file.cpp, ap_http.cpp).
THEOREM TypeCorrect == Spec => []TypeOK
<1>1. Init => IType
  BY InitType
<1>2. IType /\ [Next]_vars => IType'
  BY NextType
<1>3. IType => TypeOK
  BY DEF IType
<1>4. QED BY <1>1, <1>2, <1>3, PTL DEF Spec

-----------------------------------------------------------------------------
(* cb->mutex and the life of the track.                                    *)

Removing == {"flag", "swap", "stop", "delete", "stopAgain", "free", "clear"}

WorkersDoNotRemove == \A w \in Workers : thread[w].at \notin Removing
RemoverHasMutex == \A c \in Callers : thread[c].at \in Removing => mutex = c
RemoverHasTrack ==
  \A c \in Callers : thread[c].at \in Removing \ {"clear"} => slot /\ track = "there"
MixerHasTrack == mixing => mutex = "media" /\ track = "there"
DeletedIsUnreachable ==
  track = "deleted" => ~slot \/ \E c \in Callers : thread[c].at = "clear"
NoLockedFault == faults \cap {"mix_deleted", "double_delete"} = {}

MInv == /\ WorkersDoNotRemove
        /\ ~silenced => /\ RemoverHasMutex /\ RemoverHasTrack /\ MixerHasTrack
                        /\ DeletedIsUnreachable /\ NoLockedFault

\* Where a thread is, as far as removal goes.
SamePlace(t) == /\ thread'[t].at \in Removing <=> thread[t].at \in Removing
                /\ thread'[t].at = "clear" <=> thread[t].at = "clear"

Quiet == /\ UNCHANGED <<track, slot, mutex, mixing, silenced>>
         /\ faults' \subseteq faults \cup {"track_deleted", "producer_deleted",
                                           "closed_file", "terminate"}
         /\ \A t \in Threads : SamePlace(t)

LEMMA QuietKeeps == ASSUME MInv, Quiet PROVE MInv'
<1>1. WorkersDoNotRemove'
  BY DEF MInv, Quiet, SamePlace, WorkersDoNotRemove, Threads
<1>2. ASSUME ~silenced'
      PROVE  /\ RemoverHasMutex' /\ RemoverHasTrack' /\ MixerHasTrack'
             /\ DeletedIsUnreachable' /\ NoLockedFault'
  <2>1. ~silenced
    BY <1>2 DEF Quiet
  <2>2. \A c \in Callers : SamePlace(c)
    BY DEF Quiet, Threads
  <2>3. RemoverHasMutex' /\ RemoverHasTrack' /\ DeletedIsUnreachable'
    BY <2>1, <2>2 DEF MInv, Quiet, SamePlace, RemoverHasMutex, RemoverHasTrack,
                      DeletedIsUnreachable
  <2>4. MixerHasTrack' /\ NoLockedFault'
    BY <2>1 DEF MInv, Quiet, MixerHasTrack, NoLockedFault
  <2>5. QED BY <2>3, <2>4
<1>3. QED BY <1>1, <1>2 DEF MInv

\* One thread moves, outside a removal or inside it.
LEMMA OneMoves ==
  ASSUME NEW t \in Threads, NEW r, TypeOK, thread' = [thread EXCEPT ![t] = r],
         \/ thread[t].at \notin Removing /\ r.at \notin Removing
         \/ thread[t].at \in Removing \ {"clear"} /\ r.at \in Removing \ {"clear"}
  PROVE  \A u \in Threads : SamePlace(u)
<1>1. \A u \in Threads : thread'[u] = IF u = t THEN r ELSE thread[u]
  BY DEF TypeOK
<1>2. QED BY <1>1 DEF SamePlace, Removing

LEMMA Moves ==
  ASSUME NEW t \in Threads, NEW at, TypeOK, Goes(t, at),
         \/ thread[t].at \notin Removing /\ at \notin Removing
         \/ thread[t].at \in Removing \ {"clear"} /\ at \in Removing \ {"clear"}
  PROVE  \A u \in Threads : SamePlace(u)
<1>1. thread[t] \in Thread
  BY DEF TypeOK
<1>2. [thread[t] EXCEPT !.at = at].at = at
  BY <1>1 DEF Thread
<1>3. thread' = [thread EXCEPT ![t] = [thread[t] EXCEPT !.at = at]]
  BY DEF Goes
<1>4. QED BY <1>2, <1>3, OneMoves

LEMMA PlayIsQuiet ==
  ASSUME TypeOK, NEW c \in Callers, (\E p \in Producers : Play(c, p)) \/ PlayStep(c)
  PROVE  Quiet
<1>1. c \in Threads /\ thread[c] \in Thread /\ Idle.at \notin Removing
  BY DEF Threads, TypeOK, Idle, Removing
<1>2. CASE \E p \in Producers : Play(c, p)
  <2>1. PICK p \in Producers : Play(c, p)
    BY <1>2
  <2>2. /\ [thread[c] EXCEPT !.at = "found", !.this = p].at \notin Removing
        /\ thread[c].at \notin Removing
    BY <1>1, <2>1 DEF Thread, Removing, Play
  <2>3. thread' = [thread EXCEPT ![c] = [thread[c] EXCEPT !.at = "found", !.this = p]]
    BY <1>1, <2>1 DEF Play
  <2>4. \A u \in Threads : SamePlace(u)
    BY <1>1, <2>2, <2>3, OneMoves
  <2>5. QED BY <2>1, <2>4 DEF Quiet, Play, trackVars, sessionVars, histVars
<1>3. CASE Construct(c)
  <2>1. \A u \in Threads : SamePlace(u)
    BY <1>1, <1>3, Moves, OneMoves DEF Construct, Removing
  <2>2. QED BY <1>3, <2>1 DEF Quiet, Construct, trackVars, sessionVars, histVars
<1>4. CASE Push(c)
  <2>1. \A u \in Threads : SamePlace(u)
    BY <1>1, <1>4, Moves DEF Push, Removing
  <2>2. QED BY <1>4, <2>1 DEF Quiet, Push, sessionVars
<1>5. CASE StartIt(c)
  <2>1. \A u \in Threads : SamePlace(u)
    BY <1>1, <1>5, Moves DEF StartIt, Removing
  <2>2. QED BY <1>5, <2>1 DEF Quiet, StartIt, trackVars, sessionVars
<1>6. QED BY <1>2, <1>3, <1>4, <1>5 DEF PlayStep

LEMMA DoneIsQuiet ==
  ASSUME TypeOK, NEW t \in Threads,
         PlayDone(t) \/ Pop(t) \/ StartNext(t) \/ Release(t)
  PROVE  Quiet
<1>1. thread[t] \in Thread /\ Idle.at \notin Removing
  BY DEF TypeOK, Idle, Removing
<1>2. CASE PlayDone(t)
  <2>1. \A u \in Threads : SamePlace(u)
    BY <1>1, <1>2, Moves DEF PlayDone, Removing
  <2>2. QED BY <1>2, <2>1 DEF Quiet, PlayDone, trackVars, sessionVars, histVars
<1>3. CASE Pop(t)
  <2> DEFINE rest == IF queue = <<>> THEN <<>> ELSE Tail(queue)
             r == [thread[t] EXCEPT !.done = IF queue = <<>> THEN None ELSE Head(queue),
                                    !.next = IF rest = <<>> THEN None ELSE Head(rest),
                                    !.at = IF rest = <<>> THEN "release" ELSE "next"]
  <2>1. r.at \in {"release", "next"}
    BY <1>1 DEF Thread
  <2>2. thread' = [thread EXCEPT ![t] = r]
    BY <1>3 DEF Pop
  <2> HIDE DEF r
  <2>3. \A u \in Threads : SamePlace(u)
    BY <1>3, <2>1, <2>2, OneMoves DEF Pop, Removing
  <2>4. QED BY <1>3, <2>3 DEF Quiet, Pop, sessionVars, histVars
<1>4. CASE StartNext(t)
  <2>1. \A u \in Threads : SamePlace(u)
    BY <1>1, <1>4, Moves DEF StartNext, Removing
  <2>2. faults' \subseteq faults \cup {"terminate"}
    BY <1>4 DEF StartNext
  <2>3. QED BY <1>4, <2>1, <2>2 DEF Quiet, StartNext, trackVars, sessionVars
<1>5. CASE Release(t)
  <2>1. \A u \in Threads : SamePlace(u)
    BY <1>1, <1>5, OneMoves DEF Release, Removing
  <2>2. faults' \subseteq faults \cup {"track_deleted"}
    BY <1>5 DEF Release
  <2>3. QED BY <1>5, <2>1, <2>2 DEF Quiet, Release, trackVars, sessionVars
<1>6. QED BY <1>2, <1>3, <1>4, <1>5

LEMMA WorkerIsQuiet ==
  ASSUME TypeOK, WorkersDoNotRemove,
         \/ \E w \in Workers : WorkerStep(w)
         \/ Insert
         \/ \E h \in ready : Handle(h)
         \/ \E p \in Producers : Expire(p) \/ Transfer(p)
  PROVE  Quiet
<1>1. /\ \A w \in Workers : w \in Threads /\ thread[w].at \notin Removing
      /\ "file" \in Workers /\ "http" \in Workers /\ Idle.at \notin Removing
      /\ \A w \in Workers : thread[w] \in Thread
  BY DEF WorkersDoNotRemove, Threads, Workers, Idle, Removing, TypeOK
<1>2. thread' = thread => \A u \in Threads : SamePlace(u)
  BY DEF SamePlace
<1>3. ASSUME NEW at, NEW p, at \notin Removing
      PROVE  /\ [Idle EXCEPT !.at = at].at \notin Removing
             /\ [Idle EXCEPT !.at = at, !.this = p].at \notin Removing
  BY SMTT(30), <1>3 DEF Idle
<1>4. ASSUME NEW w \in Workers, WorkerStep(w)
      PROVE  Quiet
  <2>1. \A u \in Threads : SamePlace(u)
    <3>1. thread' = [thread EXCEPT ![w] = Idle]
          \/ thread' = [thread EXCEPT ![w] = [Idle EXCEPT !.at = "played"]]
      BY <1>4 DEF WorkerStep, Cleanup, IntoDeletedProducer
    <3>2. [Idle EXCEPT !.at = "played"].at \notin Removing
      BY <1>3 DEF Removing
    <3>3. QED BY <1>1, <3>1, <3>2, OneMoves
  <2>2. QED BY <1>4, <2>1 DEF Quiet, WorkerStep, Cleanup, IntoDeletedProducer, Faulty,
                             trackVars, sessionVars, histVars
<1>5. ASSUME Insert
      PROVE  Quiet
  <2>1. \A u \in Threads : SamePlace(u)
    <3>1. Goes("file", "complete") \/ thread' = [thread EXCEPT !["file"] = Idle]
      BY <1>5 DEF Insert
    <3>2. QED BY <1>1, <3>1, Moves, OneMoves DEF Removing
  <2>2. QED BY <1>5, <2>1 DEF Quiet, Insert, sessionVars, histVars
<1>6. ASSUME NEW h \in ready, Handle(h)
      PROVE  Quiet
  <2>1. \A u \in Threads : SamePlace(u)
    <3>1. CASE ReadAborted(h) \/ ReadSome(h)
      <4>1. PICK at \in {"insert", "insertLast", "failed"} :
              thread' = [thread EXCEPT !["file"] = [Idle EXCEPT !.at = at, !.this = h.p]]
        BY <3>1 DEF ReadAborted, ReadSome
      <4>2. [Idle EXCEPT !.at = at, !.this = h.p].at \notin Removing
        BY <1>3 DEF Removing
      <4>3. QED BY <1>1, <4>1, <4>2, OneMoves
    <3>2. CASE ~(ReadAborted(h) \/ ReadSome(h))
      <4>1. thread' = thread
        BY ZenonT(30), <1>6, <3>2 DEF Handle, ReadStopped, ReadLater, ReadNothing, ReadClosed, Add,
                          Throttle, Restart, Cancelled, LateHandler
      <4>2. QED BY <1>2, <4>1
    <3>3. QED BY <3>1, <3>2
  <2>2. /\ UNCHANGED <<track, slot, mutex, mixing, silenced>>
        /\ faults' \subseteq faults \cup {"track_deleted", "producer_deleted", "closed_file"}
    BY <1>6 DEF Handle, ReadStopped, ReadAborted, ReadLater, ReadSome, ReadNothing,
                ReadClosed, Add, Throttle, Restart, Cancelled, LateHandler, Faulty,
                trackVars, sessionVars, histVars
  <2>3. QED BY <2>1, <2>2 DEF Quiet
<1>7. ASSUME NEW p \in Producers, Expire(p) \/ Transfer(p)
      PROVE  Quiet
  <2>1. \A u \in Threads : SamePlace(u)
    <3>1. CASE TransferEnds(p)
      <4>1. thread' = [thread EXCEPT !["http"] = [Idle EXCEPT !.at = "complete", !.this = p]]
        BY <3>1 DEF TransferEnds
      <4>2. [Idle EXCEPT !.at = "complete", !.this = p].at \notin Removing
        BY <1>3 DEF Removing
      <4>3. QED BY <1>1, <4>1, <4>2, OneMoves
    <3>2. CASE ~TransferEnds(p)
      <4>1. thread' = thread
        BY <1>7, <3>2 DEF Transfer, Expire, WriteCb, WritePause, TransferLoops, LateTransfer
      <4>2. QED BY <1>2, <4>1
    <3>3. QED BY <3>1, <3>2
  <2>2. /\ UNCHANGED <<track, slot, mutex, mixing, silenced>>
        /\ faults' \subseteq faults \cup {"track_deleted"}
    BY <1>7 DEF Transfer, Expire, WriteCb, WritePause, TransferLoops, TransferEnds,
                LateTransfer, Faulty, trackVars, sessionVars, histVars
  <2>3. QED BY <2>1, <2>2 DEF Quiet
<1>8. QED BY <1>4, <1>5, <1>6, <1>7

\* The steps of a removal, and of the media thread, under cb->mutex.
LEMMA RemoveKeeps ==
  ASSUME TypeOK, MInv, ConstantsAssumption, NEW c \in Callers,
         Remove(c) \/ Silence(c) \/ RemoveStep(c)
  PROVE  MInv'
<1>1. /\ c \in Threads /\ thread[c] \in Thread /\ c \notin Workers
      /\ c # "free" /\ c # "media" /\ Idle.at \notin Removing /\ Workers \subseteq Threads
  BY DEF Threads, TypeOK, Idle, Removing, ConstantsAssumption
<1>2. ASSUME thread' = [thread EXCEPT ![c] = Idle] \/ (\E at : Goes(c, at))
      PROVE  /\ WorkersDoNotRemove'
             /\ \A d \in Callers : d # c => thread'[d] = thread[d]
  BY <1>1, <1>2 DEF MInv, WorkersDoNotRemove, Goes, TypeOK, Threads
<1>3. CASE Silence(c)
  <2>1. WorkersDoNotRemove' /\ silenced'
    BY <1>2, <1>3 DEF Silence
  <2>2. QED BY <2>1 DEF MInv
<1>4. CASE Remove(c)
  <2>1. thread'[c].at = "flag" /\ WorkersDoNotRemove'
        /\ \A d \in Callers : d # c => thread'[d] = thread[d]
    BY <1>1, <1>2, <1>4 DEF Remove, Goes, TypeOK, Thread
  <2>2. ASSUME ~silenced
        PROVE  /\ RemoverHasMutex' /\ RemoverHasTrack' /\ MixerHasTrack'
               /\ DeletedIsUnreachable' /\ NoLockedFault'
    <3>1. mutex = "free" /\ mutex' = c /\ slot /\ UNCHANGED <<track, slot, mixing, faults>>
      BY <1>4 DEF Remove, LockFree, trackVars, histVars
    <3>2. \A d \in Callers : thread[d].at \notin Removing
      BY <2>2, <3>1 DEF MInv, RemoverHasMutex, ConstantsAssumption
    <3>3. track = "there"
      BY <2>2, <3>1, <3>2 DEF MInv, DeletedIsUnreachable, TypeOK, Removing
    <3>4. ~mixing
      BY <2>2, <3>1 DEF MInv, MixerHasTrack
    <3>5. RemoverHasMutex' /\ RemoverHasTrack'
      BY <2>1, <3>1, <3>2, <3>3 DEF RemoverHasMutex, RemoverHasTrack
    <3>6. MixerHasTrack' /\ DeletedIsUnreachable' /\ NoLockedFault'
      BY <2>2, <3>1, <3>3, <3>4 DEF MixerHasTrack, DeletedIsUnreachable, NoLockedFault, MInv
    <3>7. QED BY <3>5, <3>6
  <2>3. silenced' = silenced
    BY <1>4 DEF Remove, histVars
  <2>4. QED BY <2>1, <2>2, <2>3 DEF MInv
<1>5. CASE Flag(c) \/ Swap(c) \/ StopOne(c) \/ AllStopped(c)
  <2>1. \A u \in Threads : SamePlace(u)
    <3>1. CASE Flag(c) \/ AllStopped(c)
      BY <1>1, <3>1, Moves DEF Flag, AllStopped, Removing
    <3>2. CASE Swap(c)
      <4> DEFINE r == [thread[c] EXCEPT !.todo = queue,
                         !.at = IF thread[c].at = "swap" THEN "stop" ELSE "stopAgain"]
      <4>1. r.at \in {"stop", "stopAgain"}
        BY <1>1 DEF Thread
      <4>2. thread' = [thread EXCEPT ![c] = r]
        BY <1>1, <3>2 DEF Swap, Thread
      <4> HIDE DEF r
      <4>3. QED BY <1>1, <3>2, <4>1, <4>2, OneMoves DEF Swap, Removing
    <3>3. CASE StopOne(c)
      <4> DEFINE r == [thread[c] EXCEPT !.todo = Tail(@)]
      <4>1. r.at = thread[c].at
        BY <1>1 DEF Thread
      <4>2. thread' = [thread EXCEPT ![c] = r]
        BY <3>3 DEF StopOne
      <4> HIDE DEF r
      <4>3. QED BY <1>1, <3>3, <4>1, <4>2, OneMoves DEF StopOne, Removing
    <3>4. QED BY <1>5, <3>1, <3>2, <3>3
  <2>2. UNCHANGED <<track, slot, mutex, mixing, silenced, faults>>
    BY <1>5 DEF Flag, Swap, StopOne, AllStopped, trackVars, sessionVars, histVars
  <2>3. QED BY <2>1, <2>2, QuietKeeps DEF Quiet
<1>6. CASE Free(c)
  <2>1. thread'[c].at = "clear" /\ WorkersDoNotRemove'
        /\ \A d \in Callers : d # c => thread'[d] = thread[d]
    BY <1>1, <1>2, <1>6 DEF Free, Goes, TypeOK, Thread
  <2>2. ASSUME ~silenced
        PROVE  /\ RemoverHasMutex' /\ RemoverHasTrack' /\ MixerHasTrack'
               /\ DeletedIsUnreachable' /\ NoLockedFault'
    <3>1. mutex = c /\ mutex' = c /\ UNCHANGED <<slot, mixing, faults>>
      BY <1>6, <2>2 DEF Free, MInv, RemoverHasMutex, Removing, sessionVars, histVars
    <3>2. \A d \in Callers : d # c => thread[d].at \notin Removing
      BY <2>2, <3>1 DEF MInv, RemoverHasMutex
    <3>3. ~mixing
      BY <1>1, <2>2, <3>1 DEF MInv, MixerHasTrack
    <3>4. RemoverHasMutex' /\ RemoverHasTrack'
      BY <2>1, <3>1, <3>2 DEF RemoverHasMutex, RemoverHasTrack
    <3>5. MixerHasTrack' /\ DeletedIsUnreachable' /\ NoLockedFault'
      BY <2>1, <2>2, <3>1, <3>3 DEF MixerHasTrack, DeletedIsUnreachable, NoLockedFault, MInv
    <3>6. QED BY <3>4, <3>5
  <2>3. silenced' = silenced
    BY <1>6 DEF Free, histVars
  <2>4. QED BY <2>1, <2>2, <2>3 DEF MInv
<1>7. CASE Clear(c)
  <2>1. thread'[c] = Idle /\ WorkersDoNotRemove'
        /\ \A d \in Callers : d # c => thread'[d] = thread[d]
    BY <1>1, <1>2, <1>7 DEF Clear, TypeOK
  <2>2. ASSUME ~silenced
        PROVE  /\ RemoverHasMutex' /\ RemoverHasTrack' /\ MixerHasTrack'
               /\ DeletedIsUnreachable' /\ NoLockedFault'
    <3>1. mutex = c /\ ~slot' /\ UNCHANGED <<mixing, faults>>
      BY <1>7, <2>2 DEF Clear, MInv, RemoverHasMutex, Removing, histVars
    <3>2. \A d \in Callers : thread'[d].at \notin Removing
      BY <1>1, <2>1, <2>2, <3>1 DEF MInv, RemoverHasMutex
    <3>3. ~mixing
      BY <1>1, <2>2, <3>1 DEF MInv, MixerHasTrack
    <3>4. RemoverHasMutex' /\ RemoverHasTrack'
      BY <3>2 DEF RemoverHasMutex, RemoverHasTrack
    <3>5. MixerHasTrack' /\ DeletedIsUnreachable' /\ NoLockedFault'
      BY <2>2, <3>1, <3>3 DEF MixerHasTrack, DeletedIsUnreachable, NoLockedFault, MInv
    <3>6. QED BY <3>4, <3>5
  <2>3. silenced' = silenced
    BY <1>7 DEF Clear, histVars
  <2>4. QED BY <2>1, <2>2, <2>3 DEF MInv
<1>8. QED BY <1>3, <1>4, <1>5, <1>6, <1>7 DEF RemoveStep

LEMMA MediaKeeps ==
  ASSUME TypeOK, MInv, ConstantsAssumption, FindActive \/ Mix \/ MixDeleted
  PROVE  MInv'
<1>1. thread' = thread /\ silenced' = silenced /\ slot' = slot /\ track' = track
  BY DEF FindActive, Mix, MixDeleted, Faulty, trackVars, histVars
<1>2. WorkersDoNotRemove'
  BY <1>1 DEF MInv, WorkersDoNotRemove
<1>3. ASSUME ~silenced
      PROVE  /\ RemoverHasMutex' /\ RemoverHasTrack' /\ MixerHasTrack'
             /\ DeletedIsUnreachable' /\ NoLockedFault'
  <2>1. mutex \in {"free", "media"} => \A d \in Callers : thread[d].at \notin Removing
    BY <1>3 DEF MInv, RemoverHasMutex, ConstantsAssumption
  <2>2. ~MixDeleted
    BY <1>3, <2>1 DEF MInv, MixDeleted, MixerHasTrack, DeletedIsUnreachable, LockFree, Removing
  <2>3. mutex \in {"free", "media"} /\ faults' = faults
    BY <1>3, <2>2 DEF MInv, FindActive, Mix, LockFree, MixerHasTrack, histVars
  <2>4. RemoverHasMutex' /\ RemoverHasTrack' /\ DeletedIsUnreachable' /\ NoLockedFault'
    BY <1>1, <1>3, <2>1, <2>3 DEF MInv, RemoverHasMutex, RemoverHasTrack,
                                  DeletedIsUnreachable, NoLockedFault
  <2>5. MixerHasTrack'
    BY <1>1, <2>2 DEF FindActive, Mix, MixerHasTrack
  <2>6. QED BY <2>4, <2>5
<1>4. QED BY <1>1, <1>2, <1>3 DEF MInv

\* A thread that meets the deleted track was not removing it under the mutex.
LEMMA DeletedKeeps ==
  ASSUME TypeOK, MInv, ConstantsAssumption, NEW t \in Threads, IntoDeletedTrack(t)
  PROVE  MInv'
<1>1. /\ silenced' = silenced /\ track = "deleted" /\ UNCHANGED <<track, slot, mixing>>
      /\ thread'[t] = Idle /\ \A u \in Threads : u # t => thread'[u] = thread[u]
      /\ thread[t].at # "clear" /\ Idle.at \notin Removing
  BY DEF IntoDeletedTrack, Faulty, UsesTrack, TypeOK, Idle, Removing, trackVars
<1>2. WorkersDoNotRemove'
  BY <1>1 DEF MInv, WorkersDoNotRemove, Threads
<1>3. ASSUME ~silenced
      PROVE  /\ RemoverHasMutex' /\ RemoverHasTrack' /\ MixerHasTrack'
             /\ DeletedIsUnreachable' /\ NoLockedFault'
  <2>1. thread[t].at \notin Removing
    BY <1>1, <1>3 DEF MInv, WorkersDoNotRemove, RemoverHasTrack, Threads
  <2>2. faults' = faults \cup {"track_deleted"}
    BY <2>1 DEF IntoDeletedTrack, Faulty, Removing
  <2>3. mutex' = IF mutex = t THEN "free" ELSE mutex
    BY DEF IntoDeletedTrack
  <2>4. \A d \in Callers : thread'[d].at \in Removing =>
          d # t /\ thread'[d] = thread[d] /\ mutex = d /\ mutex' = d
    BY <1>1, <1>3, <2>1, <2>3 DEF MInv, RemoverHasMutex, Threads
  <2>5. RemoverHasMutex' /\ RemoverHasTrack'
    BY <1>1, <1>3, <2>4 DEF MInv, RemoverHasMutex, RemoverHasTrack
  <2>6. ~mixing'
    BY <1>1, <1>3 DEF MInv, MixerHasTrack
  <2>7. DeletedIsUnreachable'
    BY <1>1, <1>3 DEF MInv, DeletedIsUnreachable, Threads
  <2>8. NoLockedFault'
    BY <1>3, <2>2 DEF MInv, NoLockedFault
  <2>9. QED BY <2>5, <2>6, <2>7, <2>8 DEF MixerHasTrack
<1>4. QED BY <1>1, <1>2, <1>3 DEF MInv

\* Without a silence command no thread mixes or removes a deleted track: what
\* it does with the track lies between the lock and the unlock of cb->mutex
\* (mod_dub.c, remove_dub_track and dub_speech_frame).
THEOREM MutexKeepsTrackHolds == Spec => []MutexKeepsTrack
<1>1. ASSUME Init PROVE MInv
  <2>1. \A t \in Threads : thread[t].at = "idle"
    BY <1>1 DEF Init, Idle
  <2>2. QED
    BY <1>1, <2>1 DEF Init, MInv, WorkersDoNotRemove, RemoverHasMutex, RemoverHasTrack,
       MixerHasTrack, DeletedIsUnreachable, NoLockedFault, Threads, Removing
<1>2. ASSUME IType, MInv, [Next]_vars PROVE MInv'
  <2>1. TypeOK /\ WorkersDoNotRemove
    BY <1>2 DEF IType, MInv
  <2>2. ASSUME NEW c \in Callers, (\E p \in Producers : Play(c, p)) \/ PlayStep(c)
        PROVE  MInv'
    BY <1>2, <2>1, <2>2, PlayIsQuiet, QuietKeeps
  <2>3. ASSUME NEW c \in Callers, Remove(c) \/ Silence(c) \/ RemoveStep(c)
        PROVE  MInv'
    BY <1>2, <2>1, <2>3, RemoveKeeps, ConstantsAssumption
  <2>4. ASSUME NEW t \in Threads, DoneStep(t)
        PROVE  MInv'
    BY <1>2, <2>1, <2>4, DoneIsQuiet, QuietKeeps, DeletedKeeps, ConstantsAssumption DEF DoneStep
  <2>5. CASE \/ \E w \in Workers : WorkerStep(w)
             \/ Insert
             \/ \E h \in ready : Handle(h)
             \/ \E p \in Producers : Expire(p) \/ Transfer(p)
    BY <1>2, <2>1, <2>5, WorkerIsQuiet, QuietKeeps
  <2>6. CASE FindActive \/ Mix \/ MixDeleted
    BY <1>2, <2>1, <2>6, MediaKeeps, ConstantsAssumption
  <2>7. CASE UNCHANGED vars
    BY <1>2, <2>7 DEF vars, trackVars, sessionVars, histVars, MInv, WorkersDoNotRemove,
       RemoverHasMutex, RemoverHasTrack, MixerHasTrack, DeletedIsUnreachable, NoLockedFault
  <2>8. QED BY <1>2, <2>2, <2>3, <2>4, <2>5, <2>6, <2>7 DEF Next
<1>3. MInv => MutexKeepsTrack
  BY DEF MInv, NoLockedFault, MutexKeepsTrack
<1>4. Init => IType
  BY InitType
<1>5. IType /\ [Next]_vars => IType'
  BY NextType
<1>6. QED BY <1>1, <1>2, <1>3, <1>4, <1>5, PTL DEF Spec

-----------------------------------------------------------------------------
(* One sound at a time.                                                    *)

\* As long as the track is not being removed, it is there.
After == {"swap", "stop", "delete", "stopAgain", "free", "clear"}

Present == track = "there" /\ \A t \in Threads : thread[t].at \notin After

\* The queue is what is left of the sounds in the order they were queued.
Past == Len(order) - Len(queue)

Suffix ==
  /\ Past >= 0 /\ \A i \in 1..Len(queue) : queue[i] = order[Past + i]
  /\ \A i, j \in 1..Len(order) : order[i] = order[j] => i = j

\* What has left the queue is over, what is behind its front has not started.
Over(p) == ap[p].notified \/ started[p] = "threw"
Active(p) == started[p] = "yes" /\ ~ap[p].notified

Turns ==
  /\ \A i \in 1..Past : Over(order[i])
  /\ \A i \in 1..Len(order) : i > Past + 1 => started[order[i]] = "no"
  /\ \A p \in Producers : started[p] # "no" => \E i \in 1..Len(order) : order[i] = p
  /\ \A i \in 1..Len(order) : ap[order[i]].life # "none"
  /\ \A p \in Producers : ap[p].notified => started[p] = "yes"

\* One thread at most is about to start the front or to take it off the queue.
AtTurn == {"start", "next", "played", "pop"}

Token ==
  \A t \in Threads : thread[t].at \in AtTurn =>
    /\ queue # <<>>
    /\ thread[t].at = "start" => thread[t].this = Head(queue) /\ started[Head(queue)] = "no"
    /\ thread[t].at = "next" => thread[t].next = Head(queue) /\ started[Head(queue)] = "no"
    /\ thread[t].at \in {"played", "pop"} => Over(Head(queue))
    /\ \A u \in Threads : thread[u].at \in AtTurn => u = t

\* A sound that is being made is not queued yet, and is one caller's.
New(c) == thread[c].at \in {"found", "push"}

Fresh ==
  \A c \in Callers : New(c) =>
    /\ \A i \in 1..Len(order) : order[i] # thread[c].this
    /\ thread[c].at = "push" => ap[thread[c].this].life # "none"
    /\ \A d \in Callers : New(d) /\ thread[c].this = thread[d].this => c = d

\* One timer, handler, transfer or callback at most is under way in the whole
\* track, and it is that of the sound that plays.
Working(w) == thread[w].at \in {"insert", "insertLast", "complete", "failed"}
TimerOn(p) == ap[p].timer # "off"
Sends(p) == ap[p].curl = "running"

Playing ==
  /\ \A h \in ready : ~h.aborted /\ Active(h.p)
  /\ \A p \in Producers : TimerOn(p) \/ Sends(p) => Active(p)
  /\ \A w \in Workers : Working(w) => Active(thread[w].this)

Alone ==
  /\ \A g, h \in ready : g = h
  /\ ready # {} => \A p \in Producers : ~TimerOn(p) /\ ~Sends(p)
  /\ ready # {} => \A w \in Workers : ~Working(w)
  /\ \A p, q \in Producers : TimerOn(p) => ~Sends(q)
  /\ \A p \in Producers : TimerOn(p) \/ Sends(p) => \A w \in Workers : ~Working(w)
  /\ \A w, x \in Workers : Working(w) /\ Working(x) => w = x

OneAtWork == Playing /\ Alone

\* The buffer, and what the file worker has seen of it.
Room == level <= High + 1 /\ (thread["file"].at \in {"insert", "insertLast"} => level < Low)

OneByOne == Present /\ Suffix /\ Turns /\ Token /\ Fresh /\ OneAtWork /\ Room

QInv == ~stopping => OneByOne

-----------------------------------------------------------------------------
(* What the invariant says of the front.                                   *)

LEMMA Lengths ==
  ASSUME TypeOK
  PROVE  /\ Len(queue) \in Nat /\ Len(order) \in Nat /\ Past \in Int
         /\ \A i \in 1..Len(queue) : queue[i] \in Producers
         /\ \A i \in 1..Len(order) : order[i] \in Producers
         /\ queue # <<>> => Len(queue) >= 1 /\ Head(queue) = queue[1]
         /\ queue = <<>> => Len(queue) = 0
<1>1. queue \in Seq(Producers) /\ order \in Seq(Producers)
  BY DEF TypeOK
<1>2. Len(queue) \in Nat /\ Len(order) \in Nat
  BY <1>1, LenProperties
<1>3. queue # <<>> => Len(queue) >= 1
  BY <1>1, <1>2, EmptySeq
<1>4. queue # <<>> => Head(queue) = queue[1]
  BY <1>1, HeadTailProperties
<1>5. queue = <<>> => Len(queue) = 0
  OBVIOUS
<1>6. \A i \in 1..Len(queue) : queue[i] \in Producers
  BY <1>1, LenProperties
<1>7. \A i \in 1..Len(order) : order[i] \in Producers
  BY <1>1, LenProperties
<1>8. QED BY <1>2, <1>3, <1>4, <1>5, <1>6, <1>7 DEF Past

\* The front of the queue is the next in order.
LEMMA Front ==
  ASSUME TypeOK, Suffix, queue # <<>>
  PROVE  /\ Head(queue) \in Producers /\ Past + 1 \in 1..Len(order)
         /\ Head(queue) = order[Past + 1] /\ Past \in Nat
<1>1. Len(queue) \in Nat /\ Len(order) \in Nat /\ Len(queue) >= 1 /\ Past = Len(order) - Len(queue)
  BY Lengths DEF Past
<1>2. Past >= 0 /\ Head(queue) = queue[1] /\ 1 \in 1..Len(queue)
  BY <1>1, Lengths DEF Suffix
<1>3. queue[1] = order[Past + 1] /\ queue[1] \in Producers
  BY <1>2, Lengths DEF Suffix
<1>4. QED BY <1>1, <1>2, <1>3

LEMMA ActiveIsFront ==
  ASSUME TypeOK, Suffix, Turns, NEW p \in Producers, Active(p)
  PROVE  queue # <<>> /\ p = Head(queue)
<1>1. PICK i \in 1..Len(order) : order[i] = p
  BY DEF Turns, Active
<1>2. Len(queue) \in Nat /\ Len(order) \in Nat /\ Past = Len(order) - Len(queue) /\ Past >= 0
  BY Lengths DEF Past, Suffix
<1>3. i \in Int /\ i >= 1 /\ i <= Len(order)
  BY <1>1, <1>2
<1>4. ~(i <= Past)
  <2>1. i <= Past => Over(p)
    BY <1>1, <1>2, <1>3 DEF Turns
  <2>2. QED BY <2>1 DEF Active, Over
<1>5. ~(i > Past + 1)
  BY <1>1 DEF Turns, Active
<1>6. i = Past + 1 /\ Len(queue) >= 1
  BY <1>2, <1>3, <1>4, <1>5
<1>7. queue # <<>>
  BY <1>6, Lengths
<1>8. QED BY <1>1, <1>6, <1>7, Front

\* A thread that is at its turn finds nothing under way.
LEMMA TurnIsStill ==
  ASSUME TypeOK, Suffix, Turns, Token, NEW t \in Threads, thread[t].at \in AtTurn
  PROVE  \A p \in Producers : ~Active(p)
<1> SUFFICES ASSUME NEW p \in Producers, Active(p) PROVE FALSE
  OBVIOUS
<1>1. p = Head(queue)
  BY ActiveIsFront
<1>2. started[p] = "no" \/ Over(p)
  BY <1>1 DEF Token, AtTurn
<1>3. QED BY <1>2 DEF Active, Over

NoWork ==
  /\ ready = {}
  /\ \A p \in Producers : ~TimerOn(p) /\ ~Sends(p)
  /\ \A w \in Workers : ~Working(w)

LEMMA NoneActive ==
  ASSUME IType, Playing, \A p \in Producers : ~Active(p)
  PROVE  NoWork
<1>1. ready \subseteq Handler
  BY DEF IType, TypeOK
<1>2. \A h \in ready : h.p \in Producers
  BY <1>1 DEF Handler
<1>3. \A w \in Workers : Working(w) => thread[w].this \in Producers
  BY DEF IType, Targets, Working, Threads
<1>4. QED BY <1>2, <1>3 DEF Playing, NoWork

LEMMA NothingAborted ==
  ASSUME NEW D, \A p \in D : ~TimerOn(p)
  PROVE  Aborted(D) = {}
  BY DEF Aborted, TimerOn

\* What is under way when a handler is ready, a timer is on, a transfer runs or a
\* worker is in a callback.
LEMMA OnlyHandler ==
  ASSUME OneAtWork, NEW h \in ready
  PROVE  /\ ready = {h} /\ ~h.aborted /\ Active(h.p)
         /\ \A p \in Producers : ~TimerOn(p) /\ ~Sends(p)
         /\ \A w \in Workers : ~Working(w)
<1>1. ready = {h}
  BY DEF OneAtWork, Alone
<1>2. QED BY <1>1 DEF OneAtWork, Alone, Playing

LEMMA OnlyOne ==
  ASSUME TypeOK, Suffix, Turns, OneAtWork, NEW p \in Producers, TimerOn(p) \/ Sends(p)
  PROVE  /\ ready = {} /\ Active(p) /\ ~(TimerOn(p) /\ Sends(p))
         /\ \A q \in Producers : q # p => ~TimerOn(q) /\ ~Sends(q)
         /\ \A w \in Workers : ~Working(w)
<1>1. \A q \in Producers : TimerOn(q) \/ Sends(q) => Active(q)
  BY DEF OneAtWork, Playing
<1>2. \A q \in Producers : Active(q) => q = Head(queue)
  BY ActiveIsFront
<1>3. QED BY <1>1, <1>2 DEF OneAtWork, Alone

LEMMA OnlyWorker ==
  ASSUME OneAtWork, NEW w \in Workers, Working(w)
  PROVE  /\ ready = {} /\ Active(thread[w].this)
         /\ \A p \in Producers : ~TimerOn(p) /\ ~Sends(p)
         /\ \A x \in Workers : x # w => ~Working(x)
  BY DEF OneAtWork, Playing, Alone

-----------------------------------------------------------------------------
(* Steps that leave the turns alone.                                       *)

Neutral == {"idle", "release", "insert", "insertLast", "complete", "failed", "flag"}

SameTurns ==
  /\ UNCHANGED <<track, queue, order, started>>
  /\ \A p \in Producers : /\ ap'[p].notified = ap[p].notified
                          /\ ap[p].life # "none" => ap'[p].life # "none"

LEMMA SuffixKept == ASSUME Suffix, UNCHANGED <<queue, order>> PROVE Suffix'
  BY DEF Suffix, Past

LEMMA TurnsKept ==
  ASSUME TypeOK, Turns, SameTurns
  PROVE  Turns' /\ \A p \in Producers : (Active(p)' <=> Active(p)) /\ (Over(p)' <=> Over(p))
<1>1. \A p \in Producers : (Active(p)' <=> Active(p)) /\ (Over(p)' <=> Over(p))
  BY DEF SameTurns, Active, Over
<1>2. \A i \in 1..Len(order) : order[i] \in Producers
  BY Lengths
<1>3. Past' = Past /\ order' = order /\ started' = started
  BY DEF SameTurns, Past
<1>4. \A i \in 1..Past : order[i] \in Producers
  <2>1. Past <= Len(order) /\ Past \in Int /\ Len(order) \in Nat
    BY Lengths DEF Past
  <2>2. QED BY <1>2, <2>1
<1>5. (\A i \in 1..Past : Over(order[i]))'
  BY <1>1, <1>3, <1>4 DEF Turns, Over
<1>6. \A i \in 1..Len(order') : ap'[order'[i]].life # "none"
  BY <1>2, <1>3 DEF Turns, SameTurns
<1>7. \A p \in Producers : ap'[p].notified => started'[p] = "yes"
  BY <1>3 DEF Turns, SameTurns
<1>8. QED BY <1>1, <1>3, <1>5, <1>6, <1>7 DEF Turns

LEMMA PresentKept ==
  ASSUME Present, track' = track,
         \A t \in Threads : thread'[t] = thread[t] \/ thread'[t].at \notin After
  PROVE  Present'
  BY DEF Present

LEMMA FreshKept ==
  ASSUME IType, Fresh, order' = order,
         \A p \in Producers : ap[p].life # "none" => ap'[p].life # "none",
         \A t \in Threads : thread'[t] = thread[t] \/ thread'[t].at \notin {"found", "push"}
  PROVE  Fresh'
<1>1. \A c \in Callers : New(c)' => thread'[c] = thread[c] /\ New(c)
  BY DEF New, Threads
<1>2. \A c \in Callers : New(c) => thread[c].this \in Producers
  BY DEF New, IType, Targets, Threads
<1>3. QED BY <1>1, <1>2 DEF Fresh

LEMMA NobodyAtTurn ==
  ASSUME \A t \in Threads : thread'[t].at \notin AtTurn
  PROVE  Token'
  BY DEF Token

LEMMA MostKept ==
  ASSUME IType, OneByOne, SameTurns,
         \A t \in Threads : thread'[t] = thread[t] \/ thread'[t].at \notin After \cup AtTurn
  PROVE  Present' /\ Suffix' /\ Turns' /\ Token'
<1>1. Suffix' /\ Turns' /\ \A p \in Producers : Over(p)' <=> Over(p)
  BY SuffixKept, TurnsKept DEF IType, OneByOne, SameTurns
<1>2. Present'
  BY PresentKept DEF OneByOne, SameTurns
<1>3. queue' = queue /\ order' = order /\ started' = started
  BY DEF SameTurns
<1>4. \A t \in Threads : thread'[t].at \in AtTurn => thread'[t] = thread[t]
  OBVIOUS
<1>5. queue # <<>> => Head(queue) \in Producers
  BY Front DEF IType, OneByOne
<1>6. Token'
  BY <1>1, <1>3, <1>4, <1>5 DEF OneByOne, Token
<1>7. QED BY <1>1, <1>2, <1>6

LEMMA RestKept ==
  ASSUME IType, OneByOne, SameTurns,
         \A t \in Threads : thread'[t] = thread[t] \/ thread'[t].at \in Neutral
  PROVE  Present' /\ Suffix' /\ Turns' /\ Token' /\ Fresh'
<1>1. \A t \in Threads : thread'[t] = thread[t] \/
                            /\ thread'[t].at \notin After \cup AtTurn
                            /\ thread'[t].at \notin {"found", "push"}
  BY DEF Neutral, After, AtTurn
<1>2. Fresh'
  BY <1>1, FreshKept DEF OneByOne, SameTurns
<1>3. QED BY <1>1, <1>2, MostKept

\* A step that begins no work.
LEMMA WorkKept ==
  ASSUME IType, OneAtWork, ready' = ready,
         \A p \in Producers : /\ TimerOn(p)' => TimerOn(p)
                              /\ Sends(p)' => Sends(p)
                              /\ Active(p) => Active(p)',
         \A w \in Workers : Working(w)' => Working(w) /\ thread'[w].this = thread[w].this
  PROVE  OneAtWork'
<1>1. \A h \in ready : h.p \in Producers
  BY DEF IType, TypeOK, Handler
<1>2. \A w \in Workers : Working(w) => thread[w].this \in Producers
  BY DEF IType, Targets, Working, Threads
<1>3. Playing'
  BY <1>1, <1>2 DEF OneAtWork, Playing
<1>4. Alone'
  BY DEF OneAtWork, Alone
<1>5. QED BY <1>3, <1>4 DEF OneAtWork

\* The producer at work is left with a timer, a transfer or nothing.
LEMMA WorkOf ==
  ASSUME NEW p \in Producers, Active(p)', ready' = {},
         \A q \in Producers : q # p => ~TimerOn(q)' /\ ~Sends(q)',
         ~(TimerOn(p)' /\ Sends(p)'),
         \A w \in Workers : ~Working(w)'
  PROVE  OneAtWork'
  BY DEF OneAtWork, Playing, Alone

\* A worker goes on with it.
LEMMA WorkIn ==
  ASSUME NEW w \in Workers, Active(thread[w].this)', ready' = {},
         \A q \in Producers : ~TimerOn(q)' /\ ~Sends(q)',
         \A x \in Workers : x # w => ~Working(x)'
  PROVE  OneAtWork'
<1>1. Playing'
  BY DEF Playing, Active, Working
<1>2. Alone'
  BY DEF Alone
<1>3. QED BY <1>1, <1>2 DEF OneAtWork
LEMMA OneStep ==
  ASSUME IType, NEW t \in Threads, NEW r, thread' = [thread EXCEPT ![t] = r]
  PROVE  \A u \in Threads : thread'[u] = IF u = t THEN r ELSE thread[u]
  BY DEF IType, TypeOK

InCallback == {"insert", "insertLast", "complete", "failed"}

\* A step of one thread that begins no work and adds nothing to the buffer.
LEMMA NoNewWork ==
  ASSUME IType, ConstantsAssumption, OneByOne, ready' = ready,
         level' \in Nat, level' <= level,
         \A p \in Producers : /\ TimerOn(p)' => TimerOn(p)
                              /\ Sends(p)' => Sends(p)
                              /\ Active(p) => Active(p)',
         \A t \in Threads : thread'[t] = thread[t] \/ thread'[t].at \notin InCallback
  PROVE  OneAtWork' /\ Room'
<1>1. \A w \in Workers : Working(w)' => Working(w) /\ thread'[w].this = thread[w].this
  BY DEF Working, InCallback, Threads
<1>2. OneAtWork'
  BY <1>1, WorkKept DEF OneByOne
<1>3. Room'
  <2>1. "file" \in Threads /\ level \in Nat /\ Low \in Nat /\ High \in Nat
    BY DEF Threads, Workers, IType, TypeOK, ConstantsAssumption
  <2>2. thread'["file"].at \in {"insert", "insertLast"} => level < Low
    BY <2>1 DEF OneByOne, Room, InCallback
  <2>3. QED BY <2>1, <2>2 DEF OneByOne, Room
<1>4. QED BY <1>2, <1>3

\* What cannot happen while one sound plays after the other.
LEMMA NothingDeleted ==
  ASSUME OneByOne
  PROVE  /\ ~MixDeleted
         /\ \A t \in Threads : ~IntoDeletedTrack(t)
         /\ \A p \in Producers : ~LateTransfer(p)
         /\ \A h \in ready : ~ReadAborted(h) /\ ~Cancelled(h)
         /\ \A c \in Callers : RemoveStep(c) => Flag(c)
<1>1. track = "there" /\ \A t \in Threads : thread[t].at \notin After
  BY DEF OneByOne, Present
<1>2. \A h \in ready : ~ReadAborted(h) /\ ~Cancelled(h)
  BY DEF OneByOne, OneAtWork, Playing, ReadAborted, Cancelled
<1>3. \A c \in Callers : RemoveStep(c) => Flag(c)
  BY <1>1 DEF RemoveStep, Swap, StopOne, AllStopped, Free, Clear, After, Threads
<1>4. QED BY <1>1, <1>2, <1>3 DEF MixDeleted, IntoDeletedTrack, LateTransfer

LEMMA ControlKeepsOrder ==
  ASSUME IType, ConstantsAssumption, OneByOne,
         \/ \E c \in Callers : Remove(c) \/ Silence(c)
         \/ FindActive \/ Mix
         \/ \E w \in Workers : IntoDeletedProducer(w)
  PROVE  OneByOne'
<1>1. level \in Nat /\ Frame \in Nat
  BY DEF IType, TypeOK, ConstantsAssumption
<1>2. /\ UNCHANGED <<track, queue, order, started, ap, ready>>
      /\ level' \in Nat /\ level' <= level
  BY <1>1 DEF Remove, Silence, FindActive, Mix, Remaining, IntoDeletedProducer, Faulty,
              trackVars, histVars
<1>3. \A t \in Threads : thread'[t] = thread[t] \/ thread'[t].at \in {"idle", "flag"}
  <2>1. CASE \E c \in Callers : Remove(c) \/ Silence(c)
    <3>1. PICK c \in Callers : thread' = [thread EXCEPT ![c] = [@ EXCEPT !.at = "flag"]]
      BY <2>1 DEF Remove, Silence, Goes
    <3>2. c \in Threads /\ thread[c] \in Thread
      BY DEF Threads, IType, TypeOK
    <3>3. [thread[c] EXCEPT !.at = "flag"].at = "flag"
      BY <3>2 DEF Thread
    <3>4. QED BY <3>1, <3>2, <3>3, OneStep
  <2>2. CASE FindActive \/ Mix
    BY <2>2 DEF FindActive, Mix
  <2>3. CASE \E w \in Workers : IntoDeletedProducer(w)
    <3>1. PICK w \in Workers : thread' = [thread EXCEPT ![w] = Idle]
      BY <2>3 DEF IntoDeletedProducer
    <3>2. w \in Threads /\ Idle.at = "idle"
      BY DEF Threads, Idle
    <3>3. QED BY <3>1, <3>2, OneStep
  <2>4. QED BY <2>1, <2>2, <2>3
<1>4. SameTurns
  BY <1>2 DEF SameTurns
<1>5. Present' /\ Suffix' /\ Turns' /\ Token' /\ Fresh'
  BY <1>3, <1>4, RestKept DEF Neutral
<1>6. \A p \in Producers : /\ TimerOn(p)' => TimerOn(p)
                           /\ Sends(p)' => Sends(p)
                           /\ Active(p) => Active(p)'
  BY <1>2 DEF TimerOn, Sends, Active
<1>7. OneAtWork' /\ Room'
  BY <1>2, <1>3, <1>6, NoNewWork DEF InCallback
<1>8. QED BY <1>5, <1>7 DEF OneByOne

\* The producers that go when a thread leaves are not at work.
LEMMA ReleaseKeepsOrder ==
  ASSUME IType, ConstantsAssumption, OneByOne, NEW t \in Threads, Release(t)
  PROVE  OneByOne'
<1>1. \A p \in LastHeld(t) : p \in Producers /\ ~Active(p)
  <2>1. ASSUME NEW p \in LastHeld(t), Active(p)
        PROVE  FALSE
    <3>1. p \in Producers /\ p \notin Members(queue)
      BY HeldType DEF IType, LastHeld, HeldElsewhere
    <3>2. queue # <<>> /\ p = Head(queue)
      BY <2>1, <3>1, ActiveIsFront DEF IType, OneByOne
    <3>3. Len(queue) >= 1 /\ Len(queue) \in Nat /\ Head(queue) = queue[1] /\ DOMAIN queue = 1..Len(queue)
      BY <3>2, Lengths, LenProperties DEF IType, TypeOK
    <3>4. p \in Members(queue)
      BY <3>2, <3>3 DEF Members
    <3>5. QED BY <3>1, <3>4
  <2>2. QED BY <2>1, HeldType DEF IType
<1>2. \A p \in LastHeld(t) : ~TimerOn(p)
  BY <1>1 DEF OneByOne, OneAtWork, Playing
<1>3. ready' = ready
  BY <1>2, NothingAborted DEF Release
<1>4. \A p \in Producers : ap'[p] = ap[p] \/ ap'[p] = Destroyed(ap[p])
  BY DEF Release
<1>5. \A p \in Producers :
        /\ ap'[p].notified = ap[p].notified
        /\ ap'[p].life = ap[p].life \/ ap'[p].life = "deleted"
        /\ ap'[p].timer = ap[p].timer \/ ap'[p].timer = "off"
        /\ ap'[p].curl = ap[p].curl \/ ap'[p].curl = "none"
  <2>1. \A r \in Producer : /\ Destroyed(r).notified = r.notified
                            /\ Destroyed(r).life = "deleted"
                            /\ Destroyed(r).timer = "off"
                            /\ Destroyed(r).curl = "none"
    BY DEF Producer, Destroyed, Closed
  <2>2. QED BY <1>4, <2>1 DEF IType, TypeOK
<1>6. UNCHANGED <<track, queue, level, order, started>>
  BY DEF Release, trackVars
<1>7. SameTurns
  BY <1>5, <1>6 DEF SameTurns
<1>8. \A u \in Threads : thread'[u] = thread[u] \/ thread'[u].at = "idle"
  BY OneStep DEF Release, Idle
<1>9. Present' /\ Suffix' /\ Turns' /\ Token' /\ Fresh'
  BY <1>7, <1>8, RestKept DEF Neutral
<1>10. \A p \in Producers : /\ TimerOn(p)' => TimerOn(p)
                            /\ Sends(p)' => Sends(p)
                            /\ Active(p) => Active(p)'
  BY <1>5, <1>6 DEF TimerOn, Sends, Active
<1>11. level \in Nat
  BY DEF IType, TypeOK
<1>12. OneAtWork' /\ Room'
  BY <1>3, <1>6, <1>8, <1>10, <1>11, NoNewWork DEF InCallback
<1>13. QED BY <1>9, <1>12 DEF OneByOne

-----------------------------------------------------------------------------
(* Steps of the turns.                                                     *)

\* A step that changes nothing of the sounds but of the front one.
LEMMA FrontTurns ==
  ASSUME IType, Suffix, Turns, queue # <<>>, UNCHANGED <<queue, order>>,
         \A q \in Producers : /\ ap[q].life # "none" => ap'[q].life # "none"
                              /\ q # Head(queue) => /\ started'[q] = started[q]
                                                    /\ ap'[q].notified = ap[q].notified,
         ap'[Head(queue)].notified => started'[Head(queue)] = "yes"
  PROVE  Suffix' /\ Turns'
<1> DEFINE p == Head(queue)
<1>1. /\ p \in Producers /\ Past + 1 \in 1..Len(order) /\ p = order[Past + 1] /\ Past \in Nat
      /\ Len(order) \in Nat
  BY Front, Lengths DEF IType
<1>2. Past' = Past /\ order' = order
  BY DEF Past
<1>3. \A i \in 1..Len(order) : order[i] \in Producers /\ (i # Past + 1 => order[i] # p)
  BY <1>1, Lengths DEF Suffix, IType
<1> HIDE DEF p
<1>4. \A i \in 1..Past : order[i] \in Producers /\ order[i] # p /\ Over(order[i])
  <2>1. \A i \in 1..Past : i \in 1..Len(order) /\ i # Past + 1
    BY <1>1
  <2>2. QED BY <1>3, <2>1 DEF Turns
<1>5. (\A i \in 1..Past : Over(order[i]))'
  BY <1>2, <1>4 DEF Over, p
<1>6. (\A i \in 1..Len(order) : i > Past + 1 => started[order[i]] = "no")'
  <2>1. \A i \in 1..Len(order) : i > Past + 1 => i # Past + 1
    BY <1>1
  <2>2. QED BY <1>2, <1>3, <2>1 DEF Turns, p
<1>7. (\A q \in Producers : started[q] # "no" => \E i \in 1..Len(order) : order[i] = q)'
  BY <1>1, <1>2 DEF Turns, p
<1>8. (\A i \in 1..Len(order) : ap[order[i]].life # "none")'
  BY <1>2, <1>3 DEF Turns
<1>9. (\A q \in Producers : ap[q].notified => started[q] = "yes")'
  BY DEF Turns
<1>10. QED BY <1>5, <1>6, <1>7, <1>8, <1>9, SuffixKept DEF Turns

\* Calls that make a sound.
LEMMA PlayKeepsOrder ==
  ASSUME IType, ConstantsAssumption, OneByOne, NEW c \in Callers,
         NEW p \in Producers, Play(c, p)
  PROVE  OneByOne'
<1>1. /\ UNCHANGED <<track, queue, order, started, ap, ready, level>>
      /\ ap[p].life = "none" /\ \A d \in Callers : thread[d].this # p
  BY DEF Play, trackVars, histVars
<1> DEFINE r == [thread[c] EXCEPT !.at = "found", !.this = p]
<1>2. thread' = [thread EXCEPT ![c] = r] /\ c \in Threads /\ thread[c] \in Thread
  BY DEF Play, Threads, IType, TypeOK
<1>3. r.at = "found" /\ r.this = p
  BY <1>2 DEF Thread
<1> HIDE DEF r
<1>4. \A u \in Threads : thread'[u] = IF u = c THEN r ELSE thread[u]
  BY <1>2, OneStep
<1>5. SameTurns
  BY <1>1 DEF SameTurns
<1>6. Present' /\ Suffix' /\ Turns' /\ Token'
  BY <1>3, <1>4, <1>5, MostKept DEF After, AtTurn
<1>7. Fresh'
  <2>1. \A i \in 1..Len(order) : order[i] # p
    BY <1>1 DEF OneByOne, Turns
  <2>2. \A d \in Callers : thread'[d] = IF d = c THEN r ELSE thread[d]
    BY <1>4 DEF Threads
  <2>3. QED BY <1>1, <1>3, <2>1, <2>2 DEF OneByOne, Fresh, New
<1>8. \A q \in Producers : /\ TimerOn(q)' => TimerOn(q)
                           /\ Sends(q)' => Sends(q)
                           /\ Active(q) => Active(q)'
  BY <1>1 DEF TimerOn, Sends, Active
<1>9. level \in Nat
  BY DEF IType, TypeOK
<1>10. OneAtWork' /\ Room'
  BY <1>1, <1>3, <1>4, <1>8, <1>9, NoNewWork DEF InCallback
<1>11. QED BY <1>6, <1>7, <1>10 DEF OneByOne

LEMMA ConstructKeepsOrder ==
  ASSUME IType, ConstantsAssumption, OneByOne, ~stopping, NEW c \in Callers, Construct(c)
  PROVE  OneByOne'
<1>1. /\ UNCHANGED <<track, queue, order, started, ready, level>>
      /\ thread[c].at = "found" /\ thread[c].this \in Producers
      /\ c \in Threads /\ thread[c] \in Thread
  BY DEF Construct, trackVars, histVars, IType, Targets, Threads, TypeOK
<1> DEFINE r == [thread[c] EXCEPT !.at = "push"]
           a == [ap[thread[c].this] EXCEPT !.life = "live"]
<1>2. thread' = [thread EXCEPT ![c] = r] /\ ap' = [ap EXCEPT ![thread[c].this] = a]
  BY DEF Construct, Goes
<1>3. r.at = "push" /\ r.this = thread[c].this
  BY <1>1 DEF Thread
<1>4. /\ a.life = "live" /\ a.notified = ap[thread[c].this].notified
      /\ a.timer = ap[thread[c].this].timer /\ a.curl = ap[thread[c].this].curl
  BY <1>1 DEF IType, TypeOK, Producer
<1> HIDE DEF r, a
<1>5. \A u \in Threads : thread'[u] = IF u = c THEN r ELSE thread[u]
  BY <1>1, <1>2, OneStep
<1>6. \A p \in Producers : ap'[p] = IF p = thread[c].this THEN a ELSE ap[p]
  BY <1>1, <1>2 DEF IType, TypeOK
<1>7. SameTurns
  BY <1>1, <1>4, <1>6 DEF SameTurns
<1>8. Present' /\ Suffix' /\ Turns' /\ Token'
  BY <1>3, <1>5, <1>7, MostKept DEF After, AtTurn
<1>9. Fresh'
  <2>1. \A d \in Callers : New(d) => thread[d].this \in Producers
    BY DEF New, IType, Targets, Threads
  <2>2. \A d \in Callers : thread'[d] = IF d = c THEN r ELSE thread[d]
    BY <1>5 DEF Threads
  <2>3. \A d \in Callers : New(d)' => New(d) /\ thread'[d].this = thread[d].this
    BY <1>1, <1>3, <2>2 DEF New
  <2>4. \A d \in Callers : thread'[d].at = "push" => ap'[thread'[d].this].life # "none"
    <3>1. \A q \in Producers : ap[q].life # "none" => ap'[q].life # "none"
      BY <1>4, <1>6
    <3>2. \A d \in Callers : thread[d].at = "push" =>
            thread[d].this \in Producers /\ ap[thread[d].this].life # "none"
      BY <2>1 DEF OneByOne, Fresh, New
    <3>3. ap'[r.this].life # "none"
      BY <1>1, <1>3, <1>4, <1>6
    <3>4. QED BY <2>2, <3>1, <3>2, <3>3
  <2>5. QED BY <1>1, <2>3, <2>4 DEF OneByOne, Fresh
<1>10. \A q \in Producers : /\ TimerOn(q)' => TimerOn(q)
                            /\ Sends(q)' => Sends(q)
                            /\ Active(q) => Active(q)'
  BY <1>1, <1>4, <1>6 DEF TimerOn, Sends, Active
<1>11. level \in Nat
  BY DEF IType, TypeOK
<1>12. OneAtWork' /\ Room'
  BY <1>1, <1>3, <1>5, <1>10, <1>11, NoNewWork DEF InCallback
<1>13. QED BY <1>8, <1>9, <1>12 DEF OneByOne

\* Queueing: the sound goes behind the others, and starts if there are none.
LEMMA PushKeepsOrder ==
  ASSUME IType, ConstantsAssumption, OneByOne, NEW c \in Callers, Push(c)
  PROVE  OneByOne'
<1> DEFINE p == thread[c].this
           at == IF StartNow(queue') THEN "start" ELSE "release"
           r == [thread[c] EXCEPT !.at = at]
<1>1. /\ UNCHANGED <<track, started, ap, ready, level>>
      /\ queue' = Append(queue, p) /\ order' = Append(order, p)
      /\ thread[c].at = "push" /\ p \in Producers
      /\ c \in Threads /\ thread[c] \in Thread
  BY DEF Push, IType, Targets, Threads, TypeOK
<1>2. thread' = [thread EXCEPT ![c] = r] /\ r.at = at /\ r.this = p
  BY <1>1 DEF Push, Goes, Thread
<1>3. at \in {"start", "release"}
  OBVIOUS
<1> HIDE DEF at, r
<1>4. \A u \in Threads : thread'[u] = IF u = c THEN r ELSE thread[u]
  BY <1>1, <1>2 DEF IType, TypeOK
<1>5. /\ \A i \in 1..Len(order) : order[i] # p
      /\ ap[p].life # "none" /\ started[p] = "no"
  <2>1. /\ \A i \in 1..Len(order) : order[i] # p
        /\ ap[p].life # "none"
    BY <1>1 DEF OneByOne, Fresh, New
  <2>2. QED BY <1>1, <2>1 DEF OneByOne, Turns
<1>6. /\ Len(queue) \in Nat /\ Len(order) \in Nat /\ Past \in Int /\ Past >= 0
      /\ Past = Len(order) - Len(queue)
      /\ Len(queue') = Len(queue) + 1 /\ Len(order') = Len(order) + 1
      /\ \A i \in 1..Len(queue) : queue'[i] = queue[i]
      /\ \A i \in 1..Len(order) : order'[i] = order[i]
      /\ queue'[Len(queue) + 1] = p /\ order'[Len(order) + 1] = p
  <2>1. queue \in Seq(Producers) /\ order \in Seq(Producers)
    BY DEF IType, TypeOK
  <2>2. Past >= 0 /\ Past \in Int /\ Len(queue) \in Nat /\ Len(order) \in Nat
    BY Lengths DEF OneByOne, Suffix, IType
  <2>3. QED BY <1>1, <2>1, <2>2, AppendProperties DEF Past
<1>7. Past' = Past
  BY <1>6 DEF Past
<1> HIDE DEF p
<1>8. Suffix'
  <2>1. \A i \in 1..Len(queue') : i \in 1..Len(queue) \/ i = Len(queue) + 1
    BY <1>6
  <2>2. \A i \in 1..Len(order') : i \in 1..Len(order) \/ i = Len(order) + 1
    BY <1>6
  <2>3. \A i \in 1..Len(queue) : Past + i \in 1..Len(order)
    BY <1>6
  <2>4. \A i \in 1..Len(queue) : queue'[i] = order'[Past + i]
    BY <1>6, <2>3 DEF OneByOne, Suffix
  <2>5. queue'[Len(queue) + 1] = order'[Past + (Len(queue) + 1)]
    <3>1. Past + (Len(queue) + 1) = Len(order) + 1
      BY <1>6
    <3>2. QED BY <1>6, <3>1
  <2>6. \A i \in 1..Len(queue') : queue'[i] = order'[Past' + i]
    BY <1>7, <2>1, <2>4, <2>5
  <2>7. \A i, j \in 1..Len(order') : order'[i] = order'[j] => i = j
    BY <1>5, <1>6, <2>2 DEF OneByOne, Suffix
  <2>8. Past' >= 0
    BY <1>6, <1>7
  <2>9. QED BY <2>6, <2>7, <2>8 DEF Suffix
<1>9. Turns'
  <2>1. \A i \in 1..Past : i \in 1..Len(order)
    BY <1>6
  <2>2. (\A i \in 1..Past : Over(order[i]))'
    BY <1>1, <1>6, <1>7, <2>1 DEF OneByOne, Turns, Over
  <2>3. \A i \in 1..Len(order') : (i \in 1..Len(order) /\ order'[i] = order[i]) \/ order'[i] = p
    BY <1>6
  <2>4. (\A i \in 1..Len(order) : i > Past + 1 => started[order[i]] = "no")'
    <3>1. \A i \in 1..Len(order) : i > Past + 1 => started[order[i]] = "no"
      BY DEF OneByOne, Turns
    <3>2. ASSUME NEW i \in 1..Len(order'), i > Past' + 1
          PROVE  started'[order'[i]] = "no"
      BY <1>1, <1>5, <1>7, <2>3, <3>1, <3>2
    <3>3. QED BY <3>2
  <2>5. \A i \in 1..Len(order) : i \in 1..Len(order')
    BY <1>6
  <2>6. (\A q \in Producers : started[q] # "no" => \E i \in 1..Len(order) : order[i] = q)'
    BY <1>1, <1>6, <2>5 DEF OneByOne, Turns
  <2>7. (\A i \in 1..Len(order) : ap[order[i]].life # "none")'
    BY <1>1, <1>5, <1>6, <2>3 DEF OneByOne, Turns
  <2>8. QED BY <1>1, <2>2, <2>4, <2>6, <2>7 DEF OneByOne, Turns
<1>10. Token'
  <2>1. CASE queue = <<>>
    <3>1. \A t \in Threads : thread[t].at \notin AtTurn
      BY <2>1 DEF OneByOne, Token
    <3>2. Len(queue) = 0
      BY <2>1
    <3>3. queue' # <<>> /\ Head(queue') = p
      <4>1. queue' \in Seq(Producers)
        BY <1>1, AppendProperties DEF IType, TypeOK
      <4>2. queue' # <<>>
        <5>1. Len(<<>>) = 0 /\ Len(queue') = 1
          BY <1>6, <3>2
        <5>2. QED BY <5>1
      <4>3. Head(queue') = queue'[1]
        BY <4>1, <4>2, HeadTailProperties
      <4>4. QED BY <1>6, <3>2, <4>2, <4>3
    <3>4. at = "start"
      BY <1>6, <3>2 DEF at, StartNow
    <3>5. \A t \in Threads : thread'[t].at \in AtTurn => t = c
      BY <1>4, <3>1
    <3>6. started'[p] = "no" /\ thread'[c].at = "start" /\ thread'[c].this = p
      BY <1>1, <1>2, <1>4, <1>5, <3>4
    <3>7. QED BY <3>3, <3>5, <3>6 DEF Token
  <2>2. CASE queue # <<>>
    <3>1. Len(queue) >= 1
      BY <2>2, Lengths DEF IType
    <3>2. queue' # <<>> /\ Head(queue') = Head(queue)
      <4>1. queue \in Seq(Producers) /\ queue' \in Seq(Producers)
        BY <1>1, AppendProperties DEF IType, TypeOK
      <4>2. Head(queue) = queue[1]
        BY <2>2, <4>1, HeadTailProperties
      <4>3. queue' # <<>>
        <5>1. Len(<<>>) = 0 /\ Len(queue') # 0
          BY <1>6, <3>1
        <5>2. QED BY <5>1
      <4>4. Head(queue') = queue'[1]
        BY <4>1, <4>3, HeadTailProperties
      <4>5. QED BY <1>6, <3>1, <4>2, <4>3, <4>4
    <3>3. at = "release"
      BY <1>6, <3>1 DEF at, StartNow
    <3>4. \A t \in Threads : thread'[t].at \in AtTurn => t # c /\ thread'[t] = thread[t]
      BY <1>2, <1>4, <3>3 DEF AtTurn
    <3>5. ASSUME NEW t \in Threads, thread'[t].at \in AtTurn
          PROVE  /\ thread'[t].at = "start" =>
                      thread'[t].this = Head(queue') /\ started'[Head(queue')] = "no"
                 /\ thread'[t].at = "next" =>
                      thread'[t].next = Head(queue') /\ started'[Head(queue')] = "no"
                 /\ thread'[t].at \in {"played", "pop"} =>
                      ap'[Head(queue')].notified \/ started'[Head(queue')] = "threw"
                 /\ \A u \in Threads : thread'[u].at \in AtTurn => u = t
      BY <1>1, <3>2, <3>4, <3>5 DEF OneByOne, Token, Over
    <3>6. QED BY <3>2, <3>5 DEF Token, Over
  <2>3. QED BY <2>1, <2>2
<1>11. Fresh'
  <2>1. \A d \in Callers : New(d)' => d # c /\ thread'[d] = thread[d] /\ New(d)
    BY <1>2, <1>3, <1>4 DEF New, Threads
  <2>2. \A d \in Callers : New(d) /\ d # c => thread[d].this # p
    BY <1>1 DEF OneByOne, Fresh, New, p
  <2>3. \A i \in 1..Len(order') : i \in 1..Len(order) \/ order'[i] = p
    BY <1>6
  <2>4. QED BY <1>1, <1>6, <2>1, <2>2, <2>3 DEF OneByOne, Fresh
<1>12. Present'
  BY <1>1, <1>2, <1>3, <1>4, PresentKept DEF OneByOne, After
<1>13. \A q \in Producers : /\ TimerOn(q)' => TimerOn(q)
                            /\ Sends(q)' => Sends(q)
                            /\ Active(q) => Active(q)'
  BY <1>1 DEF TimerOn, Sends, Active
<1>14. level \in Nat
  BY DEF IType, TypeOK
<1>15. OneAtWork' /\ Room'
  BY <1>1, <1>2, <1>3, <1>4, <1>13, <1>14, NoNewWork DEF InCallback
<1>16. QED BY <1>8, <1>9, <1>10, <1>11, <1>12, <1>15 DEF OneByOne

LEMMA AtItsTurn ==
  ASSUME IType, OneByOne, NEW t \in Threads, thread[t].at \in AtTurn
  PROVE  /\ NoWork /\ queue # <<>> /\ Head(queue) \in Producers
         /\ \A p \in Producers : ~Active(p)
         /\ \A u \in Threads : u # t => thread[u].at \notin AtTurn
<1>1. \A p \in Producers : ~Active(p)
  BY TurnIsStill DEF IType, OneByOne
<1>2. NoWork
  BY <1>1, NoneActive DEF OneByOne, OneAtWork
<1>3. queue # <<>> /\ \A u \in Threads : u # t => thread[u].at \notin AtTurn
  BY DEF OneByOne, Token
<1>4. QED BY <1>1, <1>2, <1>3, Front DEF IType, OneByOne

LEMMA NoWorkIsFine == ASSUME NoWork' PROVE OneAtWork'
  BY DEF NoWork, OneAtWork, Playing, Alone

LEMMA StartsEffect ==
  ASSUME IType, NEW p \in Producers, Starts(p), ~TimerOn(p)
  PROVE  /\ ready' = ready /\ started'[p] = "yes"
         /\ ap'[p].notified = ap[p].notified /\ ap'[p].life = ap[p].life
         /\ ap'[p].curl = ap[p].curl
         /\ \A q \in Producers : q # p => ap'[q] = ap[q] /\ started'[q] = started[q]
<1>1. /\ ap \in [Producers -> Producer] /\ ap[p] \in Producer
      /\ started \in [Producers -> {"no", "yes", "threw"}]
  BY DEF IType, TypeOK
<1> DEFINE what == IF KindOf[p] = "file" THEN "read" ELSE "add"
           r == [[ap[p] EXCEPT !.open = TRUE, !.status = "AWAITING_RESTART", !.blocks = 0]
                   EXCEPT !.timer = what]
<1> HIDE DEF what
<1>2. /\ ap' = [ap EXCEPT ![p] = r]
      /\ r.notified = ap[p].notified /\ r.life = ap[p].life /\ r.curl = ap[p].curl
  BY <1>1 DEF Starts, Arm, Producer, what
<1> HIDE DEF r
<1>3. Aborted({p}) = {}
  BY NothingAborted
<1>4. ready' = ready
  BY <1>3 DEF Starts, Arm
<1>5. QED BY <1>1, <1>2, <1>4 DEF Starts

\* The front one starts, or does not.
LEMMA StartKeepsOrder ==
  ASSUME IType, ConstantsAssumption, OneByOne, NEW t \in Threads,
         thread[t].at \in {"start", "next"},
         Starts(Head(queue)) \/ Throws(Head(queue)),
         NEW r, thread' = [thread EXCEPT ![t] = r], r.at \in {"release", "played"},
         r.at = "played" => Throws(Head(queue)),
         UNCHANGED <<track, queue, order, level>>
  PROVE  OneByOne'
<1> DEFINE p == Head(queue)
<1>1. /\ NoWork /\ queue # <<>> /\ p \in Producers
      /\ \A u \in Threads : u # t => thread[u].at \notin AtTurn
  BY AtItsTurn DEF AtTurn
<1>2. started[p] = "no" /\ ~ap[p].notified
  <2>1. started[p] = "no"
    BY DEF OneByOne, Token, AtTurn
  <2>2. QED BY <1>1, <2>1 DEF OneByOne, Turns
<1>3. /\ ready' = {} /\ started'[p] \in {"yes", "threw"}
      /\ ap'[p].notified = ap[p].notified /\ ap'[p].life = ap[p].life
      /\ ap'[p].curl = ap[p].curl
      /\ \A q \in Producers : q # p => ap'[q] = ap[q] /\ started'[q] = started[q]
  <2>1. CASE Starts(p)
    BY <1>1, <2>1, StartsEffect DEF NoWork
  <2>2. CASE Throws(p)
    BY <1>1, <2>2 DEF NoWork, Throws, IType, TypeOK
  <2>3. QED BY <2>1, <2>2
<1>4. Throws(p) => started'[p] = "threw" /\ ap' = ap
  BY <1>1 DEF Throws, IType, TypeOK
<1>5. Starts(p) => started'[p] = "yes"
  BY <1>1 DEF Starts, IType, TypeOK
<1>6. Starts(p) \/ Throws(p)
  OBVIOUS
<1>7. \A u \in Threads : thread'[u] = IF u = t THEN r ELSE thread[u]
  BY DEF IType, TypeOK
<1>8. Suffix' /\ Turns'
  BY <1>1, <1>2, <1>3, FrontTurns DEF OneByOne
<1>9. Present'
  BY <1>7, PresentKept DEF OneByOne, After
<1>10. Fresh'
  <2>1. \A q \in Producers : ap[q].life # "none" => ap'[q].life # "none"
    BY <1>3
  <2>2. \A u \in Threads : thread'[u] = thread[u] \/ thread'[u].at \notin {"found", "push"}
    BY <1>7
  <2>3. QED BY <2>1, <2>2, FreshKept DEF OneByOne
<1>11. Token'
  <2>1. CASE r.at = "release"
    BY <1>1, <1>7, <2>1, NobodyAtTurn DEF AtTurn
  <2>2. CASE r.at = "played"
    <3>1. started'[Head(queue')] = "threw" /\ queue' # <<>>
      BY <1>1, <1>4, <2>2
    <3>2. \A u \in Threads : thread'[u].at \in AtTurn => u = t /\ thread'[u].at = "played"
      BY <1>1, <1>7, <2>2
    <3>3. QED BY <3>1, <3>2 DEF Token, Over
  <2>3. QED BY <2>1, <2>2
<1>12. \A w \in Workers : ~Working(w)'
  BY <1>1, <1>7 DEF NoWork, Working, Threads
<1>13. \A q \in Producers : q # p => ~TimerOn(q)' /\ ~Sends(q)'
  BY <1>1, <1>3 DEF NoWork, TimerOn, Sends
<1>14. OneAtWork'
  <2>1. ~Sends(p)'
    <3>1. ap'[p].curl # "running"
      BY <1>1, <1>3 DEF NoWork, Sends
    <3>2. p' = p
      OBVIOUS
    <3>3. QED BY <3>1, <3>2 DEF Sends
  <2>2. CASE Starts(p)
    <3>1. p' = p /\ Active(p)'
      BY <1>2, <1>3, <1>5, <2>2 DEF Active
    <3>2. PICK x \in Producers : x = p
      BY <1>1
    <3>3. Active(x)' /\ ~Sends(x)'
      BY <3>1, <3>2, <2>1 DEF Active, Sends
    <3>4. \A y \in Producers : y # x => ~TimerOn(y)' /\ ~Sends(y)'
      BY <1>13, <3>2
    <3>5. QED BY <1>3, <1>12, <3>3, <3>4, WorkOf
  <2>3. CASE Throws(p)
    <3>1. NoWork'
      BY <1>1, <1>3, <1>4, <1>12, <2>3 DEF NoWork, TimerOn, Sends
    <3>2. QED BY <3>1, NoWorkIsFine
  <2>4. QED BY <2>2, <2>3, <1>6
<1>15. Room'
  <2>1. "file" \in Threads
    BY DEF Threads, Workers
  <2>2. QED BY <1>7, <2>1 DEF OneByOne, Room
<1>16. QED BY <1>8, <1>9, <1>10, <1>11, <1>14, <1>15 DEF OneByOne

LEMMA StartsKeepOrder ==
  ASSUME IType, ConstantsAssumption, OneByOne,
         (\E c \in Callers : StartIt(c)) \/ (\E t \in Threads : StartNext(t))
  PROVE  OneByOne'
<1>1. CASE \E c \in Callers : StartIt(c)
  <2>1. PICK c \in Callers : StartIt(c)
    BY <1>1
  <2>2. /\ c \in Threads /\ thread[c] \in Thread /\ thread[c].at = "start"
        /\ thread[c].this = Head(queue)
        /\ UNCHANGED <<track, queue, order, level>>
    BY <2>1 DEF StartIt, Threads, IType, TypeOK, OneByOne, Token, AtTurn, trackVars
  <2>3. PICK at \in {"release", "played"} :
          /\ thread' = [thread EXCEPT ![c] = [thread[c] EXCEPT !.at = at]]
          /\ Starts(Head(queue)) \/ Throws(Head(queue))
          /\ at = "played" => Throws(Head(queue))
    BY <2>1, <2>2 DEF StartIt, Goes
  <2>4. [thread[c] EXCEPT !.at = at].at = at
    BY <2>2 DEF Thread
  <2>5. QED BY <2>2, <2>3, <2>4, StartKeepsOrder
<1>2. CASE \E t \in Threads : StartNext(t)
  <2>1. PICK t \in Threads : StartNext(t)
    BY <1>2
  <2>2. /\ thread[t] \in Thread /\ thread[t].at = "next" /\ thread[t].next = Head(queue)
        /\ UNCHANGED <<track, queue, order, level>>
    BY <2>1 DEF StartNext, IType, TypeOK, OneByOne, Token, AtTurn, trackVars
  <2>3. /\ thread' = [thread EXCEPT ![t] = [thread[t] EXCEPT !.at = "release"]]
        /\ Starts(Head(queue)) \/ Throws(Head(queue))
    BY <2>1, <2>2 DEF StartNext, Goes
  <2>4. [thread[t] EXCEPT !.at = "release"].at = "release"
    BY <2>2 DEF Thread
  <2>5. QED BY <2>2, <2>3, <2>4, StartKeepsOrder
<1>3. QED BY <1>1, <1>2

\* onPlayDone.
LEMMA PlayDoneKeepsOrder ==
  ASSUME IType, ConstantsAssumption, OneByOne, ~stopping, NEW t \in Threads, PlayDone(t)
  PROVE  OneByOne'
<1> DEFINE r == [thread[t] EXCEPT !.at = "pop"]
<1>1. /\ UNCHANGED <<track, queue, order, started, ap, ready, level>>
      /\ thread[t].at = "played" /\ thread[t] \in Thread
      /\ thread' = [thread EXCEPT ![t] = r]
  BY DEF PlayDone, Goes, trackVars, histVars, IType, TypeOK
<1>2. r.at = "pop"
  BY <1>1 DEF Thread
<1> HIDE DEF r
<1>3. \A u \in Threads : thread'[u] = IF u = t THEN r ELSE thread[u]
  BY <1>1, OneStep
<1>4. SameTurns
  BY <1>1 DEF SameTurns
<1>5. Suffix' /\ Turns'
  BY <1>4, SuffixKept, TurnsKept DEF SameTurns, IType, OneByOne
<1>6. Present' /\ Fresh'
  BY <1>1, <1>2, <1>3, PresentKept, FreshKept DEF OneByOne, After
<1>7. Token'
  <2>1. \A u \in Threads : thread'[u].at \in AtTurn => u = t
    BY <1>1, <1>2, <1>3 DEF OneByOne, Token, AtTurn
  <2>2. queue # <<>> /\ (ap[Head(queue)].notified \/ started[Head(queue)] = "threw")
    BY <1>1 DEF OneByOne, Token, AtTurn, Over
  <2>3. thread'[t].at = "pop"
    BY <1>2, <1>3
  <2>4. QED BY <1>1, <2>1, <2>2, <2>3 DEF Token, Over
<1>8. \A q \in Producers : /\ TimerOn(q)' => TimerOn(q)
                           /\ Sends(q)' => Sends(q)
                           /\ Active(q) => Active(q)'
  BY <1>1 DEF TimerOn, Sends, Active
<1>9. level \in Nat
  BY DEF IType, TypeOK
<1>10. OneAtWork' /\ Room'
  BY <1>1, <1>2, <1>3, <1>8, <1>9, NoNewWork DEF InCallback
<1>11. QED BY <1>5, <1>6, <1>7, <1>10 DEF OneByOne

\* The front one, which is over, leaves; the next has not started.
LEMMA PopKeepsOrder ==
  ASSUME IType, ConstantsAssumption, OneByOne, NEW t \in Threads, Pop(t)
  PROVE  OneByOne'
<1>1. /\ UNCHANGED <<track, order, started, ap, ready, level>>
      /\ thread[t].at = "pop" /\ thread[t] \in Thread
      /\ queue # <<>> /\ Over(Head(queue))
      /\ \A u \in Threads : u # t => thread[u].at \notin AtTurn
  <2>1. thread[t].at = "pop" /\ thread[t] \in Thread
    BY DEF Pop, IType, TypeOK
  <2>2. queue # <<>> /\ \A u \in Threads : u # t => thread[u].at \notin AtTurn
    BY <2>1, AtItsTurn DEF AtTurn
  <2>3. Over(Head(queue))
    BY <2>1 DEF OneByOne, Token, AtTurn
  <2>4. QED BY <2>1, <2>2, <2>3 DEF Pop, histVars
<1> DEFINE rest == IF queue = <<>> THEN <<>> ELSE Tail(queue)
           r == [thread[t] EXCEPT !.done = IF queue = <<>> THEN None ELSE Head(queue),
                                  !.next = IF rest = <<>> THEN None ELSE Head(rest),
                                  !.at = IF rest = <<>> THEN "release" ELSE "next"]
<1>2. thread' = [thread EXCEPT ![t] = r] /\ queue' = Tail(queue)
  <2>1. queue' = rest
    BY DEF Pop
  <2>2. rest = Tail(queue)
    BY <1>1
  <2> HIDE DEF rest
  <2>3. thread' = [thread EXCEPT ![t] = r]
    BY DEF Pop, rest
  <2>4. QED BY <2>1, <2>2, <2>3
<1>3. /\ Tail(queue) = <<>> => r.at = "release"
      /\ Tail(queue) # <<>> => r.at = "next" /\ r.next = Head(Tail(queue))
  <2>1. rest = Tail(queue)
    BY <1>1
  <2> HIDE DEF rest
  <2>2. /\ rest = <<>> => r.at = "release"
        /\ rest # <<>> => r.at = "next" /\ r.next = Head(rest)
    BY <1>1 DEF Thread
  <2>3. QED BY <2>1, <2>2
<1> HIDE DEF rest, r
<1>4. \A u \in Threads : thread'[u] = IF u = t THEN r ELSE thread[u]
  BY <1>2, OneStep
<1>5. r.at \in {"release", "next"}
  BY <1>3
<1>6. /\ Len(queue) \in Nat /\ Len(queue) >= 1 /\ Len(order) \in Nat
      /\ Past \in Nat /\ Past = Len(order) - Len(queue)
      /\ Len(queue') = Len(queue) - 1
      /\ \A i \in 1..Len(queue') : queue'[i] = queue[i + 1]
      /\ queue' # <<>> => Len(queue') >= 1 /\ Head(queue') = queue'[1]
  <2>1. queue \in Seq(Producers) /\ Tail(queue) \in Seq(Producers)
    BY <1>1, SequenceType DEF IType, TypeOK
  <2>2. Len(Tail(queue)) = Len(queue) - 1 /\ \A i \in 1..Len(Tail(queue)) : Tail(queue)[i] = queue[i + 1]
    BY <1>1, <2>1, HeadTailProperties
  <2>3. Tail(queue) # <<>> => Len(Tail(queue)) >= 1 /\ Head(Tail(queue)) = Tail(queue)[1]
    <3>1. Tail(queue) # <<>> => Head(Tail(queue)) = Tail(queue)[1]
      BY <2>1, HeadTailProperties
    <3>2. Len(Tail(queue)) = 0 => Tail(queue) = <<>>
      BY <2>1, EmptySeq
    <3>3. Len(Tail(queue)) \in Nat
      BY <2>1, LenProperties
    <3>4. QED BY <3>1, <3>2, <3>3
  <2>4. Past \in Nat /\ Past = Len(order) - Len(queue)
    BY <1>1, Front DEF IType, OneByOne, Past
  <2>5. Len(queue) \in Nat /\ Len(queue) >= 1 /\ Len(order) \in Nat
    BY <1>1, Lengths DEF IType
  <2>6. QED BY <1>2, <2>2, <2>3, <2>4, <2>5
<1>7. Past' = Past + 1
  BY <1>1, <1>6 DEF Past
<1>8. Head(queue) = order[Past + 1]
  BY <1>1, Front DEF IType, OneByOne
<1>9. Suffix'
  <2>1. Past' >= 0
    BY <1>6, <1>7
  <2>2. \A i \in 1..Len(queue') : queue'[i] = order'[Past' + i]
    <3>1. ASSUME NEW i \in 1..Len(queue')
          PROVE  queue'[i] = order'[Past' + i]
      <4>1. i + 1 \in 1..Len(queue) /\ queue'[i] = queue[i + 1]
        BY <1>6
      <4>2. queue[i + 1] = order[Past + (i + 1)]
        BY <4>1 DEF OneByOne, Suffix
      <4>3. Past + (i + 1) = Past' + i
        BY <1>6, <1>7
      <4>4. QED BY <1>1, <4>1, <4>2, <4>3
    <3>2. QED BY <3>1
  <2>3. QED BY <1>1, <2>1, <2>2 DEF OneByOne, Suffix
<1>10. Turns'
  <2>1. \A i \in 1..Past' : i \in 1..Past \/ i = Past + 1
    <3>1. \A n \in Nat : \A i \in 1..(n + 1) : i \in 1..n \/ i = n + 1
      OBVIOUS
    <3>2. QED BY <1>6, <1>7, <3>1
  <2>2. \A i \in 1..Past' : ap[order[i]].notified \/ started[order[i]] = "threw"
    BY <1>1, <1>8, <2>1 DEF OneByOne, Turns, Over
  <2>3. \A i \in 1..Len(order) : i > Past' + 1 => i > Past + 1
    BY <1>6, <1>7
  <2>4. QED BY <1>1, <2>2, <2>3 DEF OneByOne, Turns, Over
<1>11. Present' /\ Fresh'
  BY <1>1, <1>4, <1>5, PresentKept, FreshKept DEF OneByOne, After
<1>12. Token'
  <2>1. CASE Tail(queue) = <<>>
    BY <1>1, <1>3, <1>4, <2>1, NobodyAtTurn DEF AtTurn
  <2>2. CASE Tail(queue) # <<>>
    <3>1. queue' # <<>> /\ Len(queue') >= 1
      BY <1>2, <1>6, <2>2
    <3>2. Head(queue') = order[Past + 2] /\ Past + 2 \in 1..Len(order)
      <4>1. Head(queue') = queue[2] /\ 2 \in 1..Len(queue)
        BY <1>6, <3>1
      <4>2. QED BY <1>6, <4>1 DEF OneByOne, Suffix
    <3>3. started'[Head(queue')] = "no"
      <4>1. \A i \in 1..Len(order) : i > Past + 1 => started[order[i]] = "no"
        BY DEF OneByOne, Turns
      <4>2. Past + 2 > Past + 1
        BY <1>6
      <4>3. QED BY <1>1, <3>2, <4>1, <4>2
    <3>4. thread'[t].at = "next" /\ thread'[t].next = Head(queue')
      BY <1>2, <1>3, <1>4, <2>2
    <3>5. \A u \in Threads : thread'[u].at \in AtTurn => u = t
      BY <1>1, <1>4
    <3>6. QED BY <3>1, <3>3, <3>4, <3>5 DEF Token
  <2>3. QED BY <2>1, <2>2
<1>13. \A q \in Producers : /\ TimerOn(q)' => TimerOn(q)
                            /\ Sends(q)' => Sends(q)
                            /\ Active(q) => Active(q)'
  BY <1>1 DEF TimerOn, Sends, Active
<1>14. level \in Nat
  BY DEF IType, TypeOK
<1>15. OneAtWork' /\ Room'
  BY <1>1, <1>4, <1>5, <1>13, <1>14, NoNewWork DEF InCallback
<1>16. QED BY <1>9, <1>10, <1>11, <1>12, <1>15 DEF OneByOne

\* The front one ends: nothing is under way, and the worker is at its turn.
LEMMA CleanupKeepsOrder ==
  ASSUME IType, ConstantsAssumption, OneByOne, NEW w \in Workers, Cleanup(w)
  PROVE  OneByOne'
<1> DEFINE p == thread[w].this
           status == IF thread[w].at = "complete" THEN "COMPLETE" ELSE "FAILED"
           a == [Closed(ap[p]) EXCEPT !.status = status, !.notified = TRUE]
           r == [Idle EXCEPT !.at = "played"]
<1>1. /\ UNCHANGED <<track, queue, order, started, level>>
      /\ thread[w].at \in {"complete", "failed"} /\ Working(w)
      /\ w \in Threads /\ p \in Producers
      /\ ap \in [Producers -> Producer] /\ ap[p] \in Producer
  BY DEF Cleanup, Working, Threads, IType, Targets, TypeOK, trackVars, histVars
<1>2. /\ ready = {} /\ started[p] = "yes" /\ ~ap[p].notified
      /\ \A q \in Producers : ~TimerOn(q) /\ ~Sends(q)
      /\ \A x \in Workers : x # w => ~Working(x)
      /\ Active(p)
  BY <1>1, OnlyWorker DEF OneByOne, Active
<1>3. queue # <<>> /\ p = Head(queue)
  BY <1>1, <1>2, ActiveIsFront DEF IType, OneByOne
<1>4. a.notified /\ a.timer = "off" /\ a.curl = "none" /\ a.life = ap[p].life /\ r.at = "played"
  BY <1>1 DEF Closed, Producer, Idle
<1>5. ap' = [ap EXCEPT ![p] = a] /\ thread' = [thread EXCEPT ![w] = r]
  BY <1>2 DEF Cleanup, Notifies
<1> HIDE DEF a, r
<1>6. ready' = {}
  <2>1. Aborted({p}) = {}
    BY <1>1, <1>2, NothingAborted
  <2>2. QED BY <1>2, <2>1 DEF Cleanup
<1>7. /\ \A q \in Producers : ap'[q] = IF q = p THEN a ELSE ap[q]
      /\ \A u \in Threads : thread'[u] = IF u = w THEN r ELSE thread[u]
  BY <1>1, <1>5, OneStep
<1> HIDE DEF p
<1>8. \A u \in Threads : thread[u].at \notin AtTurn
  BY <1>1, <1>2, TurnIsStill DEF IType, OneByOne
<1>9. Suffix' /\ Turns'
  <2>1. \A q \in Producers : /\ ap[q].life # "none" => ap'[q].life # "none"
                             /\ q # Head(queue) => /\ started'[q] = started[q]
                                                   /\ ap'[q].notified = ap[q].notified
    BY <1>1, <1>3, <1>4, <1>7
  <2>2. started'[Head(queue)] = "yes"
    BY <1>1, <1>2, <1>3
  <2>3. QED BY <1>1, <1>3, <2>1, <2>2, FrontTurns DEF OneByOne
<1>10. Present' /\ Fresh'
  <2>1. \A q \in Producers : ap[q].life # "none" => ap'[q].life # "none"
    BY <1>4, <1>7
  <2>2. QED BY <1>1, <1>4, <1>7, <2>1, PresentKept, FreshKept DEF OneByOne, After
<1>11. Token'
  <2>1. \A u \in Threads : thread'[u].at \in AtTurn => u = w /\ thread'[u].at = "played"
    BY <1>4, <1>7, <1>8
  <2>2. ap'[Head(queue')].notified /\ queue' # <<>>
    BY <1>1, <1>3, <1>4, <1>7
  <2>3. QED BY <2>1, <2>2 DEF Token, Over
<1>12. OneAtWork'
  <2>1. \A q \in Producers : ~TimerOn(q)' /\ ~Sends(q)'
    BY <1>2, <1>4, <1>7 DEF TimerOn, Sends
  <2>2. \A x \in Workers : ~Working(x)'
    BY <1>2, <1>4, <1>7 DEF Working, Threads
  <2>3. NoWork'
    BY <1>6, <2>1, <2>2 DEF NoWork
  <2>4. QED BY <2>3, NoWorkIsFine
<1>13. Room'
  <2>1. "file" \in Threads
    BY DEF Threads, Workers
  <2>2. QED BY <1>1, <1>4, <1>7, <2>1 DEF OneByOne, Room
<1>14. QED BY <1>9, <1>10, <1>11, <1>12, <1>13 DEF OneByOne

-----------------------------------------------------------------------------
(* Steps of the sound that plays.                                          *)

\* A step that changes one producer, its timer and transfer, and a worker.
LEMMA ProducerStep ==
  ASSUME IType, OneByOne, NEW p \in Producers, NEW a,
         ap' = ap \/ ap' = [ap EXCEPT ![p] = a],
         a.notified = ap[p].notified, a.life = ap[p].life,
         UNCHANGED <<track, queue, order, started>>,
         \A t \in Threads : thread'[t] = thread[t] \/ thread'[t].at \in Neutral
  PROVE  /\ Present' /\ Suffix' /\ Turns' /\ Token' /\ Fresh'
         /\ \A q \in Producers : Active(q) => Active(q)'
         /\ \A q \in Producers : q # p => ap'[q] = ap[q]
<1>1. \A q \in Producers : /\ ap'[q].notified = ap[q].notified /\ ap'[q].life = ap[q].life
                           /\ q # p => ap'[q] = ap[q]
  BY DEF IType, TypeOK
<1>2. SameTurns
  BY <1>1 DEF SameTurns
<1>3. Present' /\ Suffix' /\ Turns' /\ Token' /\ Fresh'
  BY <1>2, RestKept
<1>4. \A q \in Producers : Active(q) => Active(q)'
  BY <1>1 DEF Active
<1>5. QED BY <1>1, <1>3, <1>4

\* The producer whose handler runs is left with a timer, a transfer or nothing.
LEMMA Handled ==
  ASSUME IType, OneByOne, NEW h \in ready, NEW a,
         ap' = ap \/ ap' = [ap EXCEPT ![h.p] = a],
         a.notified = ap[h.p].notified, a.life = ap[h.p].life,
         a.timer = "off" \/ a.curl # "running",
         ready' = ready \ {h} \/ ready' = (ready \ {h}) \cup Aborted({h.p}),
         UNCHANGED <<track, queue, order, started, level, thread>>
  PROVE  OneByOne'
<1> DEFINE p == h.p
<1>1. p \in Producers
  BY DEF IType, TypeOK, Handler
<1>2. /\ ready = {h} /\ Active(p)
      /\ \A q \in Producers : ~TimerOn(q) /\ ~Sends(q)
      /\ \A w \in Workers : ~Working(w)
  BY OnlyHandler DEF OneByOne
<1>3. ready' = {}
  <2>1. Aborted({p}) = {}
    BY <1>1, <1>2, NothingAborted
  <2>2. QED BY <1>2, <2>1
<1> HIDE DEF p
<1>4. \A t \in Threads : thread'[t] = thread[t] \/ thread'[t].at \in Neutral
  OBVIOUS
<1>5. /\ Present' /\ Suffix' /\ Turns' /\ Token' /\ Fresh'
      /\ Active(p)'
      /\ \A q \in Producers : q # p => ap'[q] = ap[q]
  BY <1>1, <1>2, <1>4, ProducerStep DEF p
<1>6. \A q \in Producers : q # p => ~TimerOn(q)' /\ ~Sends(q)'
  BY <1>2, <1>5 DEF TimerOn, Sends
<1>7. ~(TimerOn(p)' /\ Sends(p)')
  <2>1. ap'[p].timer = "off" \/ ap'[p].curl # "running"
    BY <1>1, <1>2 DEF IType, TypeOK, TimerOn, Sends, p
  <2>2. QED BY <2>1 DEF TimerOn, Sends, p
<1>8. \A w \in Workers : ~Working(w)'
  BY <1>2 DEF Working
<1>9. OneAtWork'
  <2>1. PICK x \in Producers : x = p
    BY <1>1
  <2>2. Active(x)' /\ ~(TimerOn(x)' /\ Sends(x)')
    BY <1>5, <1>7, <2>1 DEF Active, TimerOn, Sends, p
  <2>3. \A q \in Producers : q # x => ~TimerOn(q)' /\ ~Sends(q)'
    BY <1>6, <2>1
  <2>4. QED BY <1>3, <1>8, <2>2, <2>3, WorkOf
<1>10. Room'
  BY DEF OneByOne, Room
<1>11. QED BY <1>5, <1>9, <1>10 DEF OneByOne

LEMMA InProgressFields ==
  ASSUME TypeOK, NEW p \in Producers
  PROVE  /\ InProgress(p).notified = ap[p].notified /\ InProgress(p).life = ap[p].life
         /\ InProgress(p).timer = ap[p].timer /\ InProgress(p).curl = ap[p].curl
         /\ InProgress(p) \in Producer
<1> DEFINE s == IF ap[p].status = "AWAITING_RESTART" THEN "IN_PROGRESS" ELSE ap[p].status
<1> HIDE DEF s
<1>1. InProgress(p) = [ap[p] EXCEPT !.status = s] /\ ap[p] \in Producer
  BY DEF InProgress, TypeOK, s
<1>2. QED BY <1>1, InProgressType DEF Producer

LEMMA ReadKeepsOrder ==
  ASSUME IType, ConstantsAssumption, OneByOne, NEW h \in ready,
         ReadStopped(h) \/ ReadLater(h) \/ ReadNothing(h) \/ ReadClosed(h) \/ LateHandler(h)
  PROVE  OneByOne'
<1>1. h.p \in Producers /\ ap[h.p] \in Producer
  BY DEF IType, TypeOK, Handler
<1>2. ap[h.p].timer = "off" /\ ap[h.p].curl # "running"
  BY <1>1, OnlyHandler DEF OneByOne, TimerOn, Sends
<1>3. UNCHANGED <<track, queue, order, started, level, thread>>
  BY DEF ReadStopped, ReadLater, ReadNothing, ReadClosed, LateHandler, Faulty,
         trackVars, histVars
<1>4. CASE ReadStopped(h) \/ ReadClosed(h) \/ LateHandler(h)
  <2>1. ap' = ap /\ ready' = ready \ {h}
    BY <1>4 DEF ReadStopped, ReadClosed, LateHandler
  <2>2. QED BY <1>2, <1>3, <2>1, Handled
<1>5. CASE ReadLater(h)
  <2> DEFINE a == [InProgress(h.p) EXCEPT !.timer = "read"]
  <2>1. ap' = [ap EXCEPT ![h.p] = a] /\ ready' = (ready \ {h}) \cup Aborted({h.p})
    BY <1>5 DEF ReadLater
  <2>2. a.notified = ap[h.p].notified /\ a.life = ap[h.p].life /\ a.curl # "running"
    BY <1>1, <1>2, InProgressFields DEF IType, Producer
  <2> HIDE DEF a
  <2>3. QED BY <1>3, <2>1, <2>2, Handled
<1>6. CASE ReadNothing(h)
  <2> DEFINE a == [ap[h.p] EXCEPT !.status = "COMPLETE"]
  <2>1. ap' = [ap EXCEPT ![h.p] = a] /\ ready' = ready \ {h}
    BY <1>6 DEF ReadNothing
  <2>2. a.notified = ap[h.p].notified /\ a.life = ap[h.p].life /\ a.curl # "running"
    BY <1>1, <1>2 DEF Producer
  <2> HIDE DEF a
  <2>3. QED BY <1>3, <2>1, <2>2, Handled
<1>7. QED BY <1>4, <1>5, <1>6

LEMMA HttpKeepsOrder ==
  ASSUME IType, ConstantsAssumption, OneByOne, NEW h \in ready,
         Add(h) \/ Throttle(h) \/ Restart(h)
  PROVE  OneByOne'
<1>1. h.p \in Producers /\ ap[h.p] \in Producer
  BY DEF IType, TypeOK, Handler
<1>2. ap[h.p].timer = "off" /\ ap[h.p].curl # "running"
  BY <1>1, OnlyHandler DEF OneByOne, TimerOn, Sends
<1>3. UNCHANGED <<track, queue, order, started, level, thread>>
  BY DEF Add, Throttle, Restart, trackVars, histVars
<1>4. ready' = ready \ {h} \/ ready' = (ready \ {h}) \cup Aborted({h.p})
  BY DEF Add, Throttle, Restart
<1>5. ASSUME NEW x \in {"none", "running", "paused"}
      PROVE  LET a == [ap[h.p] EXCEPT !.curl = x]
             IN  a.notified = ap[h.p].notified /\ a.life = ap[h.p].life /\ a.timer = "off"
  BY <1>1, <1>2 DEF Producer
<1>6. CASE Add(h)
  <2>1. ap' = ap \/ ap' = [ap EXCEPT ![h.p] = [ap[h.p] EXCEPT !.curl = "running"]]
    BY <1>6 DEF Add
  <2>2. QED BY <1>3, <1>4, <1>5, <2>1, Handled
<1>7. CASE Throttle(h)
  <2>1. CASE level < Low
    <3> DEFINE x == IF ap[h.p].open THEN "running" ELSE ap[h.p].curl
    <3>1. x \in {"none", "running", "paused"}
      BY <1>1 DEF Producer
    <3>2. ap' = [ap EXCEPT ![h.p] = [ap[h.p] EXCEPT !.curl = x]]
      BY <1>7, <2>1 DEF Throttle
    <3> HIDE DEF x
    <3>3. QED BY <1>3, <1>4, <1>5, <3>1, <3>2, Handled
  <2>2. CASE ~(level < Low)
    <3> DEFINE a == [ap[h.p] EXCEPT !.timer = "throttle"]
    <3>1. ap' = [ap EXCEPT ![h.p] = a]
      BY <1>7, <2>2 DEF Throttle
    <3>2. a.notified = ap[h.p].notified /\ a.life = ap[h.p].life /\ a.curl # "running"
      BY <1>1, <1>2 DEF Producer
    <3> HIDE DEF a
    <3>3. QED BY <1>3, <1>4, <3>1, <3>2, Handled
  <2>3. QED BY <2>1, <2>2
<1>8. CASE Restart(h)
  <2>1. PICK a \in {Closed(ap[h.p]),
                    [Closed(ap[h.p]) EXCEPT !.open = TRUE, !.timer = "add",
                                            !.status = "AWAITING_RESTART", !.blocks = 0]} :
          ap' = [ap EXCEPT ![h.p] = a]
    BY <1>8 DEF Restart
  <2>2. a.notified = ap[h.p].notified /\ a.life = ap[h.p].life /\ a.curl # "running"
    BY ZenonT(30), <1>1 DEF Closed, Producer
  <2>3. QED BY <1>3, <1>4, <2>1, <2>2, Handled
<1>9. QED BY <1>6, <1>7, <1>8

\* The file worker reads, having seen the buffer below the low mark.
LEMMA ReadSomeKeepsOrder ==
  ASSUME IType, ConstantsAssumption, OneByOne, NEW h \in ready, ReadSome(h)
  PROVE  OneByOne'
<1> DEFINE p == h.p
<1>1. p \in Producers
  BY DEF IType, TypeOK, Handler
<1>2. /\ ready = {h} /\ Active(p)
      /\ \A q \in Producers : ~TimerOn(q) /\ ~Sends(q)
      /\ \A w \in Workers : ~Working(w)
  BY OnlyHandler DEF OneByOne
<1>3. PICK at \in {"insert", "insertLast"} :
        thread' = [thread EXCEPT !["file"] = [Idle EXCEPT !.at = at, !.this = p]]
  BY DEF ReadSome
<1> DEFINE r == [Idle EXCEPT !.at = at, !.this = p]
<1>4. r.at \in {"insert", "insertLast"} /\ r.this = p
  BY DEF Idle
<1> HIDE DEF p, r
<1>5. "file" \in Threads /\ "file" \in Workers
  BY DEF Threads, Workers
<1>6. \A t \in Threads : thread'[t] = IF t = "file" THEN r ELSE thread[t]
  BY <1>3, <1>5 DEF IType, TypeOK, r
<1>7. /\ UNCHANGED <<track, queue, order, started, level>> /\ level < Low
      /\ ap' = [ap EXCEPT ![p] = InProgress(p)] /\ ready' = ready \ {h}
  BY DEF ReadSome, trackVars, histVars, p
<1>8. /\ InProgress(p).notified = ap[p].notified /\ InProgress(p).life = ap[p].life
      /\ InProgress(p).timer = ap[p].timer /\ InProgress(p).curl = ap[p].curl
  BY <1>1, InProgressFields DEF IType
<1>9. /\ Present' /\ Suffix' /\ Turns' /\ Token' /\ Fresh'
      /\ Active(p)'
      /\ \A q \in Producers : q # p => ap'[q] = ap[q]
  <2>1. \A t \in Threads : thread'[t] = thread[t] \/ thread'[t].at \in Neutral
    BY <1>4, <1>6 DEF Neutral
  <2>2. QED BY <1>1, <1>2, <1>7, <1>8, <2>1, ProducerStep
<1>10. \A q \in Producers : ~TimerOn(q)' /\ ~Sends(q)'
  <2>1. ap'[p] = InProgress(p)
    BY <1>1, <1>7 DEF IType, TypeOK
  <2>2. \A q \in Producers : ap'[q].timer = ap[q].timer /\ ap'[q].curl = ap[q].curl
    BY <1>8, <1>9, <2>1
  <2>3. QED BY <1>2, <2>2 DEF TimerOn, Sends
<1>11. OneAtWork'
  <2>1. \A x \in Workers : x # "file" => ~Working(x)'
    BY <1>2, <1>6 DEF Working, Threads
  <2>2. Active(thread["file"].this)'
    <3>1. thread'["file"].this = p
      BY <1>4, <1>5, <1>6
    <3>2. started'[p] = "yes" /\ ~ap'[p].notified
      BY <1>9 DEF Active, p
    <3>3. QED BY <3>1, <3>2 DEF Active
  <2>3. ready' = {}
    BY <1>2, <1>7
  <2>4. QED BY <1>5, <1>10, <2>1, <2>2, <2>3, WorkIn
<1>12. Room'
  BY <1>7 DEF OneByOne, Room
<1>13. QED BY <1>9, <1>11, <1>12 DEF OneByOne

\* The worker is busy with the samples of the sound that plays: nothing else is
\* under way, nobody adds to the buffer.
LEMMA InsertKeepsOrder ==
  ASSUME IType, ConstantsAssumption, OneByOne, Insert
  PROVE  OneByOne'
<1> DEFINE p == thread["file"].this
<1>1. /\ "file" \in Threads /\ "file" \in Workers
      /\ thread["file"].at \in {"insert", "insertLast"} /\ Working("file")
      /\ thread["file"] \in Thread
      /\ p \in Producers /\ ap \in [Producers -> Producer] /\ ap[p] \in Producer
      /\ UNCHANGED <<track, queue, order, started>> /\ level' = level + 1
  BY DEF Insert, Threads, Workers, Working, IType, Targets, TypeOK, histVars
<1>2. /\ ready = {} /\ Active(p)
      /\ \A q \in Producers : ~TimerOn(q) /\ ~Sends(q)
      /\ \A x \in Workers : x # "file" => ~Working(x)
  BY <1>1, OnlyWorker DEF OneByOne
<1>3. ready' = ready \cup Aborted({p}) => ready' = {}
  BY <1>1, <1>2, NothingAborted
<1> HIDE DEF p
<1>4. ap[p].timer = "off" /\ ap[p].curl # "running"
  BY <1>1, <1>2 DEF TimerOn, Sends
<1>5. \/ /\ thread' = [thread EXCEPT !["file"] = [thread["file"] EXCEPT !.at = "complete"]]
         /\ ap' = [ap EXCEPT ![p] = [ap[p] EXCEPT !.status = "COMPLETE"]] /\ ready' = ready
      \/ /\ thread' = [thread EXCEPT !["file"] = Idle]
         /\ ap' = [ap EXCEPT ![p] = [[ap[p] EXCEPT !.blocks = ap[p].blocks + 1] EXCEPT !.timer = "read"]]
         /\ ready' = ready \cup Aborted({p})
  BY <1>1 DEF Insert, Goes, Arm, p
<1>6. PICK r, a :
         /\ thread' = [thread EXCEPT !["file"] = r]
         /\ ap' = [ap EXCEPT ![p] = a] /\ ready' = {}
         /\ a.notified = ap[p].notified /\ a.life = ap[p].life /\ a.curl = ap[p].curl
         /\ \/ r.at = "complete" /\ r.this = p /\ a.timer = "off"
            \/ r.at = "idle"
  <2> DEFINE r1 == [thread["file"] EXCEPT !.at = "complete"]
             a1 == [ap[p] EXCEPT !.status = "COMPLETE"]
             a2 == [[ap[p] EXCEPT !.blocks = ap[p].blocks + 1] EXCEPT !.timer = "read"]
  <2>1. /\ r1.at = "complete" /\ r1.this = p /\ Idle.at = "idle"
        /\ a1.timer = "off"
        /\ a1.notified = ap[p].notified /\ a1.life = ap[p].life /\ a1.curl = ap[p].curl
        /\ a2.notified = ap[p].notified /\ a2.life = ap[p].life /\ a2.curl = ap[p].curl
    BY <1>1, <1>4 DEF Thread, Producer, Idle, p
  <2> HIDE DEF r1, a1, a2
  <2>2. \/ thread' = [thread EXCEPT !["file"] = r1] /\ ap' = [ap EXCEPT ![p] = a1] /\ ready' = {}
        \/ thread' = [thread EXCEPT !["file"] = Idle] /\ ap' = [ap EXCEPT ![p] = a2] /\ ready' = {}
    BY <1>2, <1>3, <1>5 DEF r1, a1, a2
  <2>3. QED BY <2>1, <2>2
<1>7. /\ \A t \in Threads : thread'[t] = IF t = "file" THEN r ELSE thread[t]
      /\ \A q \in Producers : ap'[q] = IF q = p THEN a ELSE ap[q]
  BY <1>1, <1>6 DEF IType, TypeOK
<1>8. /\ Present' /\ Suffix' /\ Turns' /\ Token' /\ Fresh'
      /\ \A q \in Producers : Active(q) => Active(q)'
  <2>1. \A t \in Threads : thread'[t] = thread[t] \/ thread'[t].at \in Neutral
    BY <1>6, <1>7 DEF Neutral
  <2>2. QED BY <1>1, <1>6, <2>1, ProducerStep
<1>9. \A x \in Workers : x # "file" => ~Working(x)'
  BY <1>2, <1>7 DEF Working, Threads
<1>10. \A q \in Producers : ~Sends(q)' /\ (q # p => ~TimerOn(q)')
  BY <1>2, <1>4, <1>6, <1>7 DEF Sends, TimerOn
<1>11. PICK x \in Producers : x = p
  BY <1>1
<1>12. Active(x)'
  BY <1>2, <1>8, <1>11 DEF p
<1>13. OneAtWork'
  <2>1. CASE r.at = "complete" /\ r.this = p /\ a.timer = "off"
    <3>1. \A q \in Producers : ~TimerOn(q)' /\ ~Sends(q)'
      BY <1>1, <1>7, <1>10, <2>1 DEF TimerOn
    <3>2. Active(thread["file"].this)'
      <4>1. thread'["file"].this = x
        BY <1>1, <1>7, <1>11, <2>1
      <4>2. QED BY <1>12, <4>1 DEF Active
    <3>3. QED BY <1>1, <1>6, <1>9, <3>1, <3>2, WorkIn
  <2>2. CASE r.at = "idle"
    <3>1. \A y \in Workers : ~Working(y)'
      BY <1>1, <1>7, <1>9, <2>2 DEF Working
    <3>2. \A q \in Producers : q # x => ~TimerOn(q)' /\ ~Sends(q)'
      BY <1>10, <1>11
    <3>3. QED BY <1>6, <1>10, <1>12, <3>1, <3>2, WorkOf
  <2>3. QED BY <1>6, <2>1, <2>2
<1>14. Room'
  <2>1. level \in Nat /\ High \in Nat /\ Low \in Nat /\ Low <= High /\ level < Low
    BY <1>1 DEF IType, TypeOK, ConstantsAssumption, OneByOne, Room
  <2>2. thread'["file"].at \in {"complete", "idle"}
    BY <1>1, <1>6, <1>7
  <2>3. level' <= High + 1
    BY <1>1, <2>1
  <2>4. QED BY <2>2, <2>3 DEF Room
<1>15. QED BY <1>8, <1>13, <1>14 DEF OneByOne

LEMMA ExpireKeepsOrder ==
  ASSUME IType, ConstantsAssumption, OneByOne, NEW p \in Producers, Expire(p)
  PROVE  OneByOne'
<1> DEFINE h == [p |-> p, what |-> ap[p].timer, aborted |-> FALSE]
           a == [ap[p] EXCEPT !.timer = "off"]
<1>1. TimerOn(p)
  BY DEF Expire, TimerOn
<1>2. /\ ready = {} /\ Active(p) /\ ~Sends(p)
      /\ \A q \in Producers : q # p => ~TimerOn(q) /\ ~Sends(q)
      /\ \A w \in Workers : ~Working(w)
  BY <1>1, OnlyOne DEF IType, OneByOne
<1>3. /\ UNCHANGED <<track, queue, order, started, level, thread>>
      /\ ap' = [ap EXCEPT ![p] = a] /\ ready' = {h}
      /\ h.p = p /\ ~h.aborted
  BY <1>2 DEF Expire, trackVars, histVars
<1>4. /\ a.notified = ap[p].notified /\ a.life = ap[p].life
      /\ a.timer = "off" /\ a.curl = ap[p].curl
  BY DEF IType, TypeOK, Producer
<1> HIDE DEF a, h
<1>5. /\ Present' /\ Suffix' /\ Turns' /\ Token' /\ Fresh'
      /\ Active(p)'
      /\ \A q \in Producers : q # p => ap'[q] = ap[q]
  BY <1>2, <1>3, <1>4, ProducerStep
<1>6. ap'[p] = a
  BY <1>3 DEF IType, TypeOK
<1>7. \A q \in Producers : ~TimerOn(q)' /\ ~Sends(q)'
  BY <1>2, <1>4, <1>5, <1>6 DEF TimerOn, Sends
<1>8. \A w \in Workers : ~Working(w)'
  BY <1>2, <1>3 DEF Working
<1>9. OneAtWork'
  <2>1. Playing'
    BY <1>3, <1>5, <1>7, <1>8 DEF Playing, Active
  <2>2. Alone'
    BY <1>3, <1>7, <1>8 DEF Alone
  <2>3. QED BY <2>1, <2>2 DEF OneAtWork
<1>10. Room'
  BY <1>3 DEF OneByOne, Room
<1>11. QED BY <1>5, <1>9, <1>10 DEF OneByOne

LEMMA TransferKeepsOrder ==
  ASSUME IType, ConstantsAssumption, OneByOne, NEW p \in Producers, Transfer(p)
  PROVE  OneByOne'
<1>1. Sends(p) /\ ~LateTransfer(p)
  BY NothingDeleted DEF Transfer, WriteCb, WritePause, TransferLoops, TransferEnds,
                        LateTransfer, Transfers, Sends
<1>2. /\ ready = {} /\ Active(p) /\ ~TimerOn(p)
      /\ \A q \in Producers : q # p => ~TimerOn(q) /\ ~Sends(q)
      /\ \A w \in Workers : ~Working(w)
  BY <1>1, OnlyOne DEF IType, OneByOne
<1>3. ap \in [Producers -> Producer] /\ ap[p] \in Producer /\ ap[p].timer = "off"
  BY <1>2 DEF IType, TypeOK, TimerOn
<1>4. Aborted({p}) = {}
  BY <1>2, NothingAborted
<1>5. "file" \in Threads /\ "http" \in Threads /\ "file" \in Workers /\ "http" \in Workers
  BY DEF Threads, Workers
<1>6. ASSUME NEW a, ap' = [ap EXCEPT ![p] = a], ready' = {},
             a.notified = ap[p].notified, a.life = ap[p].life,
             a.timer = "off" \/ a.curl # "running",
             UNCHANGED <<track, queue, order, started, thread>>
      PROVE  Present' /\ Suffix' /\ Turns' /\ Token' /\ Fresh' /\ OneAtWork'
  <2>1. /\ Present' /\ Suffix' /\ Turns' /\ Token' /\ Fresh'
        /\ Active(p)'
        /\ \A q \in Producers : q # p => ap'[q] = ap[q]
    BY <1>2, <1>6, ProducerStep
  <2>2. ~(TimerOn(p)' /\ Sends(p)')
    BY <1>3, <1>6 DEF TimerOn, Sends
  <2>3. \A q \in Producers : q # p => ~TimerOn(q)' /\ ~Sends(q)'
    BY <1>2, <2>1 DEF TimerOn, Sends
  <2>4. \A w \in Workers : ~Working(w)'
    BY <1>2, <1>6 DEF Working
  <2>5. QED BY <1>6, <2>1, <2>2, <2>3, <2>4, WorkOf
<1>7. CASE WriteCb(p)
  <2> DEFINE a == [ap[p] EXCEPT !.blocks = ap[p].blocks + 1]
  <2>1. /\ ap' = [ap EXCEPT ![p] = a] /\ ready' = {} /\ level' = level + 1 /\ level <= High
        /\ UNCHANGED <<track, queue, order, started, thread>>
    BY <1>2, <1>7 DEF WriteCb, AboveHigh, IType, TypeOK, ConstantsAssumption, histVars
  <2>2. a.notified = ap[p].notified /\ a.life = ap[p].life /\ a.timer = "off"
    BY <1>3 DEF Producer
  <2> HIDE DEF a
  <2>3. Present' /\ Suffix' /\ Turns' /\ Token' /\ Fresh' /\ OneAtWork'
    BY <1>6, <2>1, <2>2
  <2>4. Room'
    <3>1. ~Working("file")
      BY <1>2, <1>5
    <3>2. level' <= High + 1
      BY <2>1 DEF IType, TypeOK, ConstantsAssumption
    <3>3. QED BY <2>1, <3>1, <3>2 DEF Room, Working
  <2>5. QED BY <2>3, <2>4 DEF OneByOne
<1>8. CASE WritePause(p) \/ TransferLoops(p)
  <2> DEFINE a == [[ap[p] EXCEPT !.curl = "paused", !.status = "PAUSED"] EXCEPT !.timer = "throttle"]
             b == [[ap[p] EXCEPT !.curl = "none"] EXCEPT !.timer = "restart"]
  <2>1. /\ ap' = [ap EXCEPT ![p] = a] \/ ap' = [ap EXCEPT ![p] = b]
        /\ ready' = {}
        /\ UNCHANGED <<track, queue, order, started, level, thread>>
    BY <1>2, <1>4, <1>8 DEF WritePause, TransferLoops, Arm, trackVars, histVars
  <2>2. /\ a.notified = ap[p].notified /\ a.life = ap[p].life /\ a.curl # "running"
        /\ b.notified = ap[p].notified /\ b.life = ap[p].life /\ b.curl # "running"
    BY <1>3 DEF Producer
  <2> HIDE DEF a, b
  <2>3. Present' /\ Suffix' /\ Turns' /\ Token' /\ Fresh' /\ OneAtWork'
    BY <1>6, <2>1, <2>2
  <2>4. Room'
    BY <2>1 DEF OneByOne, Room
  <2>5. QED BY <2>3, <2>4 DEF OneByOne
<1>9. CASE TransferEnds(p)
  <2> DEFINE a == [ap[p] EXCEPT !.curl = "none"]
             r == [Idle EXCEPT !.at = "complete", !.this = p]
  <2>1. /\ ap' = [ap EXCEPT ![p] = a] /\ ready' = {}
        /\ thread' = [thread EXCEPT !["http"] = r]
        /\ UNCHANGED <<track, queue, order, started, level>>
    BY <1>2, <1>9 DEF TransferEnds, trackVars, histVars
  <2>2. /\ a.notified = ap[p].notified /\ a.life = ap[p].life /\ a.curl = "none"
        /\ a.timer = "off" /\ r.at = "complete" /\ r.this = p
    BY <1>3 DEF Producer, Idle
  <2> HIDE DEF a, r
  <2>3. \A t \in Threads : thread'[t] = IF t = "http" THEN r ELSE thread[t]
    BY <1>5, <2>1, OneStep
  <2>4. /\ Present' /\ Suffix' /\ Turns' /\ Token' /\ Fresh'
        /\ Active(p)'
        /\ \A q \in Producers : q # p => ap'[q] = ap[q]
    <3>1. \A t \in Threads : thread'[t] = thread[t] \/ thread'[t].at \in Neutral
      BY <2>2, <2>3 DEF Neutral
    <3>2. QED BY <1>2, <2>1, <2>2, <3>1, ProducerStep
  <2>5. \A q \in Producers : ~TimerOn(q)' /\ ~Sends(q)'
    <3>1. ap'[p] = a
      BY <1>3, <2>1
    <3>2. QED BY <1>2, <2>2, <2>4, <3>1 DEF TimerOn, Sends
  <2>6. \A x \in Workers : x # "http" => ~Working(x)'
    BY <1>2, <2>3 DEF Working, Threads
  <2>7. Active(thread["http"].this)'
    <3>1. thread'["http"].this = p
      BY <1>5, <2>2, <2>3
    <3>2. QED BY <2>4, <3>1 DEF Active
  <2>8. OneAtWork'
    BY <1>5, <2>1, <2>5, <2>6, <2>7, WorkIn
  <2>9. Room'
    <3>1. thread'["file"] = thread["file"] /\ level' = level
      BY <1>5, <2>1, <2>3
    <3>2. QED BY <3>1 DEF OneByOne, Room
  <2>10. QED BY <2>4, <2>8, <2>9 DEF OneByOne
<1>10. Transfer(p) /\ ~LateTransfer(p)
  BY <1>1
<1>11. QED BY <1>7, <1>8, <1>9, <1>10 DEF Transfer

-----------------------------------------------------------------------------
(* Every step.                                                             *)

LEMMA QInit == Init => QInv
<1> SUFFICES ASSUME Init PROVE OneByOne
  BY DEF QInv
<1>1. /\ track = "there" /\ queue = <<>> /\ order = <<>> /\ ready = {} /\ level = 0
      /\ \A t \in Threads : thread[t].at = "idle"
      /\ \A p \in Producers : started[p] = "no" /\ ~ap[p].notified
                              /\ ap[p].timer = "off" /\ ap[p].curl = "none"
  BY DEF Init, Idle
<1>2. Len(queue) = 0 /\ Len(order) = 0
  BY <1>1
<1>3. Past = 0 /\ 1..Len(order) = {} /\ 1..Past = {} /\ 1..Len(queue) = {}
  BY <1>2 DEF Past
<1>4. Suffix
  BY <1>3 DEF Suffix
<1>5. Turns
  BY <1>1, <1>3 DEF Turns
<1>6. Present /\ Token /\ Fresh
  BY <1>1 DEF Present, After, Token, AtTurn, Fresh, New, Threads
<1>7. OneAtWork
  BY <1>1 DEF OneAtWork, Playing, Alone, TimerOn, Sends, Working, Threads
<1>8. Room
  BY <1>1, ConstantsAssumption DEF Room, Threads, Workers, ConstantsAssumption
<1>9. QED BY <1>4, <1>5, <1>6, <1>7, <1>8 DEF OneByOne

LEMMA StoppingStays ==
  ASSUME Next, stopping
  PROVE  stopping'
<1>1. ASSUME NEW c \in Callers, (\E p \in Producers : Play(c, p)) \/ PlayStep(c)
      PROVE  stopping'
  BY <1>1 DEF PlayStep, Play, Construct, Push, StartIt, trackVars
<1>2. ASSUME NEW c \in Callers, Remove(c) \/ Silence(c) \/ RemoveStep(c)
      PROVE  stopping'
  BY <1>2 DEF Remove, Silence, RemoveStep, Flag, Swap, StopOne, AllStopped, Free, Clear, trackVars
<1>3. ASSUME NEW t \in Threads, DoneStep(t)
      PROVE  stopping'
  BY <1>3, Zenon DEF DoneStep, PlayDone, Pop, StartNext, Release, IntoDeletedTrack, trackVars
<1>4. ASSUME NEW w \in Workers, WorkerStep(w)
      PROVE  stopping'
  BY <1>4 DEF WorkerStep, Cleanup, IntoDeletedProducer, trackVars
<1>5. CASE Insert
  BY <1>5 DEF Insert
<1>6. ASSUME NEW h \in ready, Handle(h)
      PROVE  stopping'
  BY <1>6 DEF Handle, ReadStopped, ReadAborted, ReadLater, ReadSome, ReadNothing, ReadClosed,
              Add, Throttle, Restart, Cancelled, LateHandler, trackVars
<1>7. ASSUME NEW p \in Producers, Expire(p) \/ Transfer(p)
      PROVE  stopping'
  BY <1>7 DEF Expire, Transfer, WriteCb, WritePause, TransferLoops, TransferEnds,
              LateTransfer, trackVars
<1>8. CASE FindActive \/ Mix \/ MixDeleted
  BY <1>8 DEF FindActive, Mix, MixDeleted, trackVars
<1>9. QED BY <1>1, <1>2, <1>3, <1>4, <1>5, <1>6, <1>7, <1>8 DEF Next

LEMMA QNext ==
  ASSUME IType, QInv, [Next]_vars
  PROVE  QInv'
<1> SUFFICES ASSUME ~stopping' PROVE OneByOne'
  BY DEF QInv
<1> USE ConstantsAssumption
<1>1. CASE UNCHANGED vars
  <2>1. ~stopping /\ OneByOne
    BY <1>1 DEF vars, trackVars, QInv
  <2>2. UNCHANGED <<track, queue, level, ap, ready, thread, order, started>>
    BY <1>1 DEF vars, trackVars, histVars
  <2>3. /\ \A p \in Producers : (Active(p)' <=> Active(p)) /\ (Over(p)' <=> Over(p))
        /\ SameTurns
    BY <2>2 DEF Active, Over, SameTurns
  <2>4. Present' /\ Suffix' /\ Turns' /\ Token' /\ Fresh'
    BY <2>1, <2>2, <2>3, RestKept
  <2>5. OneAtWork' /\ Room'
    <3>1. \A p \in Producers : /\ TimerOn(p)' => TimerOn(p)
                               /\ Sends(p)' => Sends(p)
                               /\ Active(p) => Active(p)'
      BY <2>2, <2>3 DEF TimerOn, Sends
    <3>2. level' \in Nat /\ level' <= level
      BY <2>2 DEF IType, TypeOK
    <3>3. QED BY <2>1, <2>2, <3>1, <3>2, NoNewWork
  <2>6. QED BY <2>4, <2>5 DEF OneByOne
<1>2. CASE Next
  <2>1. ~stopping /\ OneByOne
    BY <1>2, StoppingStays DEF QInv
  <2>2. ASSUME NEW c \in Callers, (\E p \in Producers : Play(c, p)) \/ PlayStep(c)
        PROVE  OneByOne'
    BY <2>1, <2>2, PlayKeepsOrder, ConstructKeepsOrder, PushKeepsOrder, StartsKeepOrder
       DEF PlayStep
  <2>3. ASSUME NEW c \in Callers, Remove(c) \/ Silence(c) \/ RemoveStep(c)
        PROVE  OneByOne'
    <3>1. ~RemoveStep(c)
      BY <2>1, NothingDeleted DEF Flag
    <3>2. QED BY <2>1, <2>3, <3>1, ControlKeepsOrder
  <2>4. ASSUME NEW t \in Threads, DoneStep(t)
        PROVE  OneByOne'
    BY <2>1, <2>4, PlayDoneKeepsOrder, PopKeepsOrder, StartsKeepOrder, ReleaseKeepsOrder,
       NothingDeleted DEF DoneStep
  <2>5. ASSUME NEW w \in Workers, WorkerStep(w)
        PROVE  OneByOne'
    BY <2>1, <2>5, CleanupKeepsOrder, ControlKeepsOrder DEF WorkerStep
  <2>6. CASE Insert
    BY <2>1, <2>6, InsertKeepsOrder
  <2>7. ASSUME NEW h \in ready, Handle(h)
        PROVE  OneByOne'
    BY <2>1, <2>7, ReadKeepsOrder, ReadSomeKeepsOrder, HttpKeepsOrder, NothingDeleted DEF Handle
  <2>8. ASSUME NEW p \in Producers, Expire(p) \/ Transfer(p)
        PROVE  OneByOne'
    BY <2>1, <2>8, ExpireKeepsOrder, TransferKeepsOrder
  <2>9. CASE FindActive \/ Mix \/ MixDeleted
    BY <2>1, <2>9, ControlKeepsOrder, NothingDeleted
  <2>10. QED BY <1>2, <2>2, <2>3, <2>4, <2>5, <2>6, <2>7, <2>8, <2>9 DEF Next
<1>3. QED BY <1>1, <1>2

LEMMA QInvHolds == Spec => [](IType /\ QInv)
<1>1. Init => IType /\ QInv
  BY InitType, QInit
<1>2. IType /\ QInv /\ [Next]_vars => IType' /\ QInv'
  BY NextType, QNext
<1>3. QED BY <1>1, <1>2, PTL DEF Spec

\* Sounds play in the order they were queued, however many there are and
\* whoever queues them: a started sound that has not reported its end is the
\* front of the queue, everything before it has left the queue and is over,
\* and what is behind it has not started (track.cpp, queueAudioProducer and
\* onPlayDone).
THEOREM QueueOrderHolds == Spec => []QueueOrder
<1>1. ASSUME IType, QInv
      PROVE  QueueOrder
  <2> SUFFICES ASSUME ~stopping, NEW i \in DOMAIN order, NEW j \in DOMAIN order,
                      i < j, started[order[j]] = "yes"
               PROVE  ap[order[i]].notified \/ started[order[i]] = "threw"
    BY DEF QueueOrder
  <2>1. order \in Seq(Producers) /\ DOMAIN order = 1..Len(order) /\ Len(order) \in Nat
    BY <1>1, LenProperties DEF IType, TypeOK
  <2>2. Suffix /\ Turns /\ Past \in Int /\ Past >= 0
    BY <1>1, Lengths DEF QInv, OneByOne, IType, Suffix
  <2>3. i \in 1..Len(order) /\ j \in 1..Len(order)
    BY <2>1
  <2>4. ~(j > Past + 1)
    BY <2>2, <2>3 DEF Turns
  <2>5. i \in 1..Past
    BY <2>2, <2>3, <2>4
  <2>6. QED BY <2>2, <2>5 DEF Turns, Over
<1>2. QED BY <1>1, QInvHolds, PTL

\* The buffer of a track holds at most one chunk more than the high-water mark,
\* although read_cb and write_cb look at its size without the mutex: no two
\* producers and no two callbacks of one are at work at once (ap_file.cpp,
\* read_cb; ap_http.cpp, write_cb).
THEOREM BufferBoundedHolds == Spec => []BufferBounded
<1>1. QInv => BufferBounded
  BY DEF QInv, OneByOne, Room, BufferBounded
<1>2. QED BY <1>1, QInvHolds, PTL

\* Until the track is removed, one timer, one handler, one transfer or one
\* callback at most is under way among all its producers, and it is that of a
\* sound that has started and has not reported its end.
THEOREM OneAtWorkHolds == Spec => [](~stopping => OneAtWork)
<1>1. QInv => (~stopping => OneAtWork)
  BY DEF QInv, OneByOne
<1>2. QED BY <1>1, QInvHolds, PTL

-----------------------------------------------------------------------------
(* The track implements Playlist.                                          *)

\* A step that leaves alone what the list is made of.
SameSounds ==
  /\ UNCHANGED <<queue, started, stopping>>
  /\ \A p \in Producers : ap'[p].notified = ap[p].notified

LEMMA SoundsKept ==
  ASSUME IType, SameSounds
  PROVE  UNCHANGED <<~stopping, Upcoming, Current>>
<1>1. queue # <<>> => Head(queue) \in Producers
  BY SequenceType DEF IType, TypeOK
<1>2. queue' = queue /\ started' = started /\ stopping' = stopping
  BY DEF SameSounds
<1>3. HadTurn' <=> HadTurn
  BY <1>2 DEF HadTurn
<1>4. HadTurn => ap'[Head(queue)].notified = ap[Head(queue)].notified
  BY <1>1 DEF HadTurn, SameSounds
<1>5. Upcoming' = Upcoming
  BY <1>2, <1>3 DEF Upcoming
<1>6. Current' = Current
  BY <1>2, <1>3, <1>4 DEF Current
<1>7. QED BY <1>2, <1>5, <1>6

LEMMA ListKept ==
  ASSUME IType, SameSounds, level' = level
  PROVE  UNCHANGED List!listVars
<1>1. UNCHANGED <<~stopping, Upcoming, Current>>
  BY SoundsKept
<1>2. Buffered' = Buffered
  BY DEF SameSounds, Buffered
<1>3. QED BY <1>1, <1>2 DEF List!listVars

\* The list, read off the front of the queue.
LEMMA FrontNew ==
  ASSUME ~stopping, queue # <<>> => started[Head(queue)] = "no"
  PROVE  Upcoming = queue /\ Current = None
  BY DEF Upcoming, Current, HadTurn

LEMMA FrontBegun ==
  ASSUME ~stopping, queue # <<>>, started[Head(queue)] # "no"
  PROVE  /\ Upcoming = Tail(queue)
         /\ Active(Head(queue)) => Current = Head(queue)
         /\ ~Active(Head(queue)) => Current = None
  BY DEF Upcoming, Current, HadTurn, Active

\* The same after the step.
LEMMA FrontNewThen ==
  ASSUME ~stopping', queue' # <<>> => started'[Head(queue')] = "no"
  PROVE  Upcoming' = queue' /\ Current' = None
  BY DEF Upcoming, Current, HadTurn

LEMMA FrontBegunThen ==
  ASSUME ~stopping', queue' # <<>>, started'[Head(queue')] # "no"
  PROVE  /\ Upcoming' = Tail(queue')
         /\ started'[Head(queue')] = "yes" /\ ~ap'[Head(queue')].notified
            => Current' = Head(queue')
         /\ started'[Head(queue')] = "threw" \/ ap'[Head(queue')].notified
            => Current' = None
  BY DEF Upcoming, Current, HadTurn

\* A sound that plays is the one the list says.
LEMMA PlaysIt ==
  ASSUME IType, OneByOne, ~stopping, NEW p \in Producers, Active(p)
  PROVE  Current = p /\ Current # None
<1>1. queue # <<>> /\ p = Head(queue)
  BY ActiveIsFront DEF IType, OneByOne
<1>2. started[Head(queue)] # "no" /\ Active(Head(queue))
  BY <1>1 DEF Active
<1>3. Current = p
  BY <1>1, <1>2, FrontBegun
<1>4. QED BY <1>3, ConstantsAssumption DEF ConstantsAssumption

\* A chunk goes into the buffer.
LEMMA FillsList ==
  ASSUME IType, OneByOne, ~stopping, NEW p \in Producers, Active(p),
         SameSounds, level <= High, level' = level + 1
  PROVE  List!Fill
<1>1. UNCHANGED <<~stopping, Upcoming, Current>>
  BY SoundsKept
<1>2. Current # None
  BY PlaysIt
<1>3. Buffered = level /\ Buffered' = level + 1
  BY DEF Buffered, SameSounds
<1>4. level < High + 1
  BY ConstantsAssumption DEF ConstantsAssumption, IType, TypeOK
<1>5. QED BY <1>1, <1>2, <1>3, <1>4 DEF List!Fill

LEMMA DrainsList ==
  ASSUME IType, ~stopping, Mix
  PROVE  List!Drain
<1>1. SameSounds
  BY DEF Mix, SameSounds, histVars
<1>2. UNCHANGED <<~stopping, Upcoming, Current>>
  BY <1>1, SoundsKept
<1>3. level' \in 0..level
  BY ConstantsAssumption DEF Mix, Remaining, ConstantsAssumption, IType, TypeOK
<1>4. Buffered = level /\ Buffered' = level'
  BY <1>1 DEF Buffered, SameSounds
<1>5. QED BY <1>2, <1>3, <1>4 DEF List!Drain
-----------------------------------------------------------------------------
(* Steps that the list does not see.                                       *)

LEMMA NotesKept ==
  ASSUME IType, NEW p \in Producers, NEW a, ap' = ap \/ ap' = [ap EXCEPT ![p] = a],
         a.notified = ap[p].notified
  PROVE  \A q \in Producers : ap'[q].notified = ap[q].notified
  BY DEF IType, TypeOK

\* Whatever a callback does to a record, it leaves what was notified.
LEMMA NoteFields ==
  ASSUME NEW r \in Producer
  PROVE  /\ Closed(r).notified = r.notified /\ Destroyed(r).notified = r.notified
         /\ \A x \in Status : [r EXCEPT !.status = x].notified = r.notified
         /\ \A x : /\ [r EXCEPT !.curl = x].notified = r.notified
                   /\ [r EXCEPT !.timer = x].notified = r.notified
                   /\ [r EXCEPT !.blocks = x].notified = r.notified
                   /\ [r EXCEPT !.life = x].notified = r.notified
         /\ [Closed(r) EXCEPT !.open = TRUE, !.timer = "add", !.blocks = 0,
                              !.status = "AWAITING_RESTART"].notified = r.notified
  BY DEF Closed, Destroyed, Producer

LEMMA ControlUnseen ==
  ASSUME IType, ~stopping,
         \/ \E c \in Callers : \/ \E p \in Producers : Play(c, p)
                               \/ Remove(c) \/ Silence(c) \/ Construct(c)
         \/ \E t \in Threads : PlayDone(t) \/ Release(t)
         \/ FindActive
         \/ \E w \in Workers : IntoDeletedProducer(w)
  PROVE  SameSounds /\ level' = level
<1>1. ASSUME NEW c \in Callers, NEW p \in Producers, Play(c, p)
      PROVE  SameSounds /\ level' = level
  BY <1>1 DEF Play, SameSounds, trackVars, histVars
<1>2. ASSUME NEW c \in Callers, Remove(c) \/ Silence(c)
      PROVE  SameSounds /\ level' = level
  BY <1>2 DEF Remove, Silence, SameSounds, trackVars, histVars
<1>3. ASSUME NEW c \in Callers, Construct(c)
      PROVE  SameSounds /\ level' = level
  <2> DEFINE p == thread[c].this
             a == [ap[p] EXCEPT !.life = "live"]
  <2>1. p \in Producers /\ ap[p] \in Producer
    BY <1>3 DEF Construct, IType, Targets, TypeOK, Threads
  <2>2. ap' = [ap EXCEPT ![p] = a] /\ UNCHANGED <<queue, started, stopping, level>>
    BY <1>3 DEF Construct, trackVars, histVars
  <2>3. a.notified = ap[p].notified
    BY <2>1, NoteFields
  <2> HIDE DEF p, a
  <2>4. QED BY <2>1, <2>2, <2>3, NotesKept DEF SameSounds
<1>4. ASSUME NEW t \in Threads, PlayDone(t)
      PROVE  SameSounds /\ level' = level
  BY <1>4 DEF PlayDone, SameSounds, trackVars, histVars
<1>5. ASSUME NEW t \in Threads, Release(t)
      PROVE  SameSounds /\ level' = level
  <2>1. \A p \in Producers : ap'[p] = ap[p] \/ ap'[p] = Destroyed(ap[p])
    BY <1>5 DEF Release
  <2>2. \A p \in Producers : Destroyed(ap[p]).notified = ap[p].notified
    BY NoteFields DEF IType, TypeOK
  <2>3. UNCHANGED <<queue, started, stopping, level>>
    BY <1>5 DEF Release, trackVars
  <2>4. QED BY <2>1, <2>2, <2>3 DEF SameSounds
<1>6. CASE FindActive
  BY <1>6 DEF FindActive, SameSounds, trackVars, histVars
<1>7. ASSUME NEW w \in Workers, IntoDeletedProducer(w)
      PROVE  SameSounds /\ level' = level
  BY <1>7 DEF IntoDeletedProducer, Faulty, SameSounds, trackVars, histVars
<1>8. QED BY <1>1, <1>2, <1>3, <1>4, <1>5, <1>6, <1>7

LEMMA HandlerUnseen ==
  ASSUME IType, OneByOne, ~stopping, NEW h \in ready, Handle(h)
  PROVE  SameSounds /\ level' = level
<1> DEFINE p == h.p
<1>1. p \in Producers /\ ap[p] \in Producer
  BY DEF IType, TypeOK, Handler
<1>2. UNCHANGED <<queue, started, stopping, level>>
  <2>1. ASSUME ReadStopped(h) \/ ReadLater(h) \/ ReadSome(h) \/ ReadNothing(h) \/ ReadClosed(h)
        PROVE  UNCHANGED <<queue, started, stopping, level>>
    BY <2>1 DEF ReadStopped, ReadLater, ReadSome, ReadNothing, ReadClosed, Faulty,
       trackVars, histVars
  <2>2. ASSUME Add(h) \/ Throttle(h) \/ Restart(h) \/ LateHandler(h)
        PROVE  UNCHANGED <<queue, started, stopping, level>>
    BY <2>2 DEF Add, Throttle, Restart, LateHandler, Faulty, trackVars, histVars
  <2>3. ~ReadAborted(h) /\ ~Cancelled(h)
    BY NothingDeleted
  <2>4. QED BY <2>1, <2>2, <2>3 DEF Handle
<1>3. SUFFICES \A q \in Producers : ap'[q].notified = ap[q].notified
  BY <1>2 DEF SameSounds
<1>4. CASE ReadStopped(h) \/ ReadClosed(h) \/ LateHandler(h)
  BY <1>4 DEF ReadStopped, ReadClosed, LateHandler
<1>5. CASE ReadSome(h) \/ ReadLater(h)
  <2> DEFINE a == InProgress(p)
             b == [InProgress(p) EXCEPT !.timer = "read"]
  <2>1. ap' = [ap EXCEPT ![p] = a] \/ ap' = [ap EXCEPT ![p] = b]
    BY <1>5 DEF ReadSome, ReadLater
  <2>2. a.notified = ap[p].notified /\ b.notified = ap[p].notified
    BY <1>1, InProgressFields, NoteFields DEF IType
  <2> HIDE DEF a, b, p
  <2>3. QED BY <1>1, <2>1, <2>2, NotesKept
<1>6. CASE ReadNothing(h) \/ Add(h)
  <2> DEFINE a == [ap[p] EXCEPT !.status = "COMPLETE"]
             b == [ap[p] EXCEPT !.curl = "running"]
  <2>1. ap' = ap \/ ap' = [ap EXCEPT ![p] = a] \/ ap' = [ap EXCEPT ![p] = b]
    BY <1>6 DEF ReadNothing, Add
  <2>2. a.notified = ap[p].notified /\ b.notified = ap[p].notified
    BY <1>1, NoteFields DEF Status
  <2> HIDE DEF a, b, p
  <2>3. QED BY <1>1, <2>1, <2>2, NotesKept
<1>7. CASE Throttle(h)
  <2> DEFINE x == IF ap[p].open THEN "running" ELSE ap[p].curl
             a == [ap[p] EXCEPT !.curl = x]
             b == [ap[p] EXCEPT !.timer = "throttle"]
  <2>1. ap' = [ap EXCEPT ![p] = a] \/ ap' = [ap EXCEPT ![p] = b]
    BY <1>7 DEF Throttle
  <2> HIDE DEF x
  <2>2. a.notified = ap[p].notified /\ b.notified = ap[p].notified
    BY <1>1, NoteFields
  <2> HIDE DEF a, b, p
  <2>3. QED BY <1>1, <2>1, <2>2, NotesKept
<1>8. CASE Restart(h)
  <2>1. PICK a \in {Closed(ap[p]),
                    [Closed(ap[p]) EXCEPT !.open = TRUE, !.timer = "add",
                                          !.status = "AWAITING_RESTART", !.blocks = 0]} :
          ap' = [ap EXCEPT ![p] = a]
    BY <1>8 DEF Restart
  <2>2. a.notified = ap[p].notified
    BY <1>1 DEF Closed, Producer
  <2> HIDE DEF p
  <2>3. QED BY <1>1, <2>1, <2>2, NotesKept
<1>9. QED BY <1>4, <1>5, <1>6, <1>7, <1>8, NothingDeleted DEF Handle

\* A timer expires, or a transfer does anything but send.
LEMMA ProducerUnseen ==
  ASSUME IType, ~stopping, NEW p \in Producers,
         Expire(p) \/ WritePause(p) \/ TransferLoops(p) \/ TransferEnds(p)
  PROVE  SameSounds /\ level' = level
<1> DEFINE a == [ap[p] EXCEPT !.timer = "off"]
           b == [[ap[p] EXCEPT !.curl = "paused", !.status = "PAUSED"] EXCEPT !.timer = "throttle"]
           c == [[ap[p] EXCEPT !.curl = "none"] EXCEPT !.timer = "restart"]
           d == [ap[p] EXCEPT !.curl = "none"]
<1>1. /\ a.notified = ap[p].notified /\ b.notified = ap[p].notified
      /\ c.notified = ap[p].notified /\ d.notified = ap[p].notified
  BY DEF IType, TypeOK, Producer
<1>2. \/ ap' = [ap EXCEPT ![p] = a] \/ ap' = [ap EXCEPT ![p] = b]
      \/ ap' = [ap EXCEPT ![p] = c] \/ ap' = [ap EXCEPT ![p] = d]
  BY DEF Expire, WritePause, TransferLoops, TransferEnds, Arm
<1>3. UNCHANGED <<queue, started, stopping, level>>
  BY DEF Expire, WritePause, TransferLoops, TransferEnds, trackVars, histVars
<1> HIDE DEF a, b, c, d
<1>4. \A q \in Producers : ap'[q].notified = ap[q].notified
  BY <1>1, <1>2, NotesKept
<1>5. QED BY <1>3, <1>4 DEF SameSounds

-----------------------------------------------------------------------------
(* Steps that the list sees.                                               *)

LEMMA WriteFills ==
  ASSUME IType, OneByOne, ~stopping, NEW p \in Producers, WriteCb(p)
  PROVE  List!Fill
<1> DEFINE a == [ap[p] EXCEPT !.blocks = ap[p].blocks + 1]
<1>1. /\ ap' = [ap EXCEPT ![p] = a] /\ level' = level + 1 /\ Sends(p)
      /\ UNCHANGED <<queue, started, stopping>>
  BY DEF WriteCb, Transfers, Sends, histVars
<1>2. a.notified = ap[p].notified
  BY NoteFields DEF IType, TypeOK
<1> HIDE DEF a
<1>3. SameSounds
  BY <1>1, <1>2, NotesKept DEF SameSounds
<1>4. Active(p)
  BY <1>1 DEF OneByOne, OneAtWork, Playing
<1>5. level <= High
  BY ConstantsAssumption DEF WriteCb, AboveHigh, IType, TypeOK, ConstantsAssumption
<1>6. QED BY <1>1, <1>3, <1>4, <1>5, FillsList

LEMMA InsertFills ==
  ASSUME IType, OneByOne, ~stopping, Insert
  PROVE  List!Fill
<1> DEFINE p == thread["file"].this
           a == [ap[p] EXCEPT !.status = "COMPLETE"]
           b == [[ap[p] EXCEPT !.blocks = ap[p].blocks + 1] EXCEPT !.timer = "read"]
<1>1. /\ "file" \in Workers /\ Working("file") /\ p \in Producers /\ ap[p] \in Producer
      /\ thread["file"].at \in {"insert", "insertLast"}
      /\ UNCHANGED <<queue, started, stopping>> /\ level' = level + 1
  BY DEF Insert, Workers, Working, Threads, IType, Targets, TypeOK, histVars
<1>2. ap' = [ap EXCEPT ![p] = a] \/ ap' = [ap EXCEPT ![p] = b]
  BY DEF Insert, Arm
<1>3. a.notified = ap[p].notified /\ b.notified = ap[p].notified
  BY <1>1 DEF Producer
<1>4. Active(p)
  BY <1>1 DEF OneByOne, OneAtWork, Playing
<1> HIDE DEF p, a, b
<1>5. SameSounds
  BY <1>1, <1>2, <1>3, NotesKept DEF SameSounds
<1>6. level <= High
  <2>1. level < Low
    BY <1>1 DEF OneByOne, Room
  <2>2. QED BY <2>1, ConstantsAssumption DEF ConstantsAssumption, IType, TypeOK
<1>7. QED BY <1>1, <1>4, <1>5, <1>6, FillsList

\* A sound that is queued goes behind those that wait.
LEMMA PushAsks ==
  ASSUME IType, OneByOne, ~stopping, NEW c \in Callers, Push(c)
  PROVE  \E s \in Producers : List!Ask(s)
<1> DEFINE p == thread[c].this
<1>1. /\ c \in Threads /\ p \in Producers /\ thread[c].at = "push"
      /\ queue' = Append(queue, p) /\ UNCHANGED <<ap, started, stopping, level>>
  BY DEF Push, IType, Targets, Threads
<1>2. started[p] = "no"
  BY <1>1 DEF OneByOne, Fresh, New, Turns
<1> HIDE DEF p
<1>3. queue \in Seq(Producers)
  BY DEF IType, TypeOK
<1>4. Upcoming' = Append(Upcoming, p) /\ Current' = Current
  <2>1. CASE queue = <<>>
    <3>1. queue' = <<p>>
      BY <1>1, <2>1
    <3>2. queue' # <<>> /\ Head(queue') = p
      BY <3>1
    <3>3. Upcoming' = queue' /\ Current' = None
      BY <1>1, <1>2, <3>2, FrontNewThen
    <3>4. Upcoming = queue /\ Current = None
      BY <2>1, FrontNew
    <3>5. QED BY <1>1, <3>3, <3>4
  <2>2. CASE queue # <<>>
    <3>1. queue' # <<>> /\ Head(queue') = Head(queue) /\ Tail(queue') = Append(Tail(queue), p)
      BY <1>1, <1>3, <2>2
    <3>2. CASE started[Head(queue)] = "no"
      <4>1. Upcoming = queue /\ Current = None
        BY <3>2, FrontNew
      <4>2. Upcoming' = queue' /\ Current' = None
        BY <1>1, <3>1, <3>2, FrontNewThen
      <4>3. QED BY <1>1, <4>1, <4>2
    <3>3. CASE started[Head(queue)] # "no"
      <4>1. HadTurn /\ HadTurn'
        BY <1>1, <2>2, <3>1, <3>3 DEF HadTurn
      <4>2. Upcoming = Tail(queue) /\ Upcoming' = Tail(queue')
        BY <1>1, <4>1 DEF Upcoming
      <4>3. Current' = Current
        BY <1>1, <3>1, <4>1 DEF Current
      <4>4. QED BY <3>1, <4>2, <4>3
    <3>4. QED BY <3>2, <3>3
  <2>3. QED BY <2>1, <2>2
<1>5. Buffered' = Buffered
  BY <1>1 DEF Buffered
<1>6. List!Ask(p)
  BY <1>1, <1>4, <1>5 DEF List!Ask
<1>7. QED BY <1>1, <1>6

\* The front one starts, or throws.
LEMMA FrontTurnsNow ==
  ASSUME IType, OneByOne, ~stopping, NEW t \in Threads,
         thread[t].at \in {"start", "next"},
         Starts(Head(queue)) \/ Throws(Head(queue)),
         UNCHANGED <<queue, stopping, level>>
  PROVE  List!Turn
<1> DEFINE p == Head(queue)
<1>1. NoWork /\ queue # <<>> /\ p \in Producers
  BY AtItsTurn DEF AtTurn
<1>2. started[p] = "no"
  BY DEF OneByOne, Token, AtTurn
<1>3. ~ap[p].notified
  BY <1>1, <1>2 DEF OneByOne, Turns
<1>4. Upcoming = queue /\ Current = None
  BY <1>2, FrontNew
<1>5. \/ started'[p] = "yes" /\ ap'[p].notified = ap[p].notified
      \/ started'[p] = "threw"
  <2>1. CASE Starts(p)
    BY <1>1, <2>1, StartsEffect DEF NoWork
  <2>2. CASE Throws(p)
    BY <1>1, <2>2 DEF Throws, IType, TypeOK
  <2>3. QED BY <2>1, <2>2
<1>6. queue' # <<>> /\ Head(queue') = p /\ queue' = queue /\ ~stopping'
  BY <1>1
<1> HIDE DEF p
<1>7. Upcoming' = Tail(queue) /\ Current' \in {p, None}
  BY <1>3, <1>5, <1>6, FrontBegunThen
<1>8. Buffered' = Buffered
  BY DEF Buffered
<1>9. QED BY <1>1, <1>4, <1>6, <1>7, <1>8 DEF List!Turn, p

LEMMA StartsTurn ==
  ASSUME IType, OneByOne, ~stopping,
         (\E c \in Callers : StartIt(c)) \/ (\E t \in Threads : StartNext(t))
  PROVE  List!Turn
<1>1. CASE \E c \in Callers : StartIt(c)
  <2>1. PICK c \in Callers : StartIt(c)
    BY <1>1
  <2>2. /\ c \in Threads /\ thread[c].at = "start" /\ thread[c].this = Head(queue)
        /\ UNCHANGED <<queue, stopping, level>>
    BY <2>1 DEF StartIt, Threads, OneByOne, Token, AtTurn, trackVars
  <2>3. Starts(Head(queue)) \/ Throws(Head(queue))
    BY <2>1, <2>2 DEF StartIt
  <2>4. QED BY <2>2, <2>3, FrontTurnsNow
<1>2. CASE \E t \in Threads : StartNext(t)
  <2>1. PICK t \in Threads : StartNext(t)
    BY <1>2
  <2>2. /\ thread[t].at = "next" /\ thread[t].next = Head(queue)
        /\ UNCHANGED <<queue, stopping, level>>
    BY <2>1 DEF StartNext, OneByOne, Token, AtTurn, trackVars
  <2>3. Starts(Head(queue)) \/ Throws(Head(queue))
    BY <2>1, <2>2 DEF StartNext
  <2>4. QED BY <2>2, <2>3, FrontTurnsNow
<1>3. QED BY <1>1, <1>2

\* The front that is taken off the queue has had its turn and is over, and the
\* next has not had its own.
LEMMA PopUnseen ==
  ASSUME IType, OneByOne, ~stopping, NEW t \in Threads, Pop(t)
  PROVE  UNCHANGED List!listVars
<1>1. /\ UNCHANGED <<ap, started, stopping, level>> /\ queue # <<>> /\ queue' = Tail(queue)
      /\ queue \in Seq(Producers)
  <2>1. thread[t].at = "pop"
    BY DEF Pop
  <2>2. queue # <<>>
    BY <2>1, AtItsTurn DEF AtTurn
  <2>3. QED BY <2>2 DEF Pop, histVars, IType, TypeOK
<1>2. Over(Head(queue))
  BY DEF OneByOne, Token, AtTurn, Pop
<1>3. started[Head(queue)] # "no" /\ ~Active(Head(queue))
  BY <1>1, <1>2, Front DEF IType, OneByOne, Turns, Over, Active
<1>4. Upcoming = Tail(queue) /\ Current = None
  BY <1>1, <1>3, FrontBegun
<1>5. queue' # <<>> => started'[Head(queue')] = "no"
  <2>1. SUFFICES ASSUME Tail(queue) # <<>> PROVE started[Head(Tail(queue))] = "no"
    BY <1>1
  <2>2. /\ Len(queue) \in Nat /\ Len(queue) >= 1 /\ Past \in Int /\ Past >= 0
        /\ Past = Len(order) - Len(queue) /\ Len(order) \in Nat
    BY <1>1, Lengths DEF IType, OneByOne, Suffix, Past
  <2>3. Tail(queue) \in Seq(Producers) /\ Len(Tail(queue)) = Len(queue) - 1
    BY <1>1, HeadTailProperties
  <2>4. Len(Tail(queue)) # 0
    BY <2>1, <2>3, EmptySeq
  <2>5. Len(queue) >= 2
    BY <2>2, <2>3, <2>4
  <2>6. Head(Tail(queue)) = queue[2]
    BY <1>1, <2>1, <2>3, <2>5
  <2>7. queue[2] = order[Past + 2] /\ Past + 2 \in 1..Len(order)
    BY <2>2, <2>5 DEF OneByOne, Suffix
  <2>8. QED BY <2>2, <2>6, <2>7 DEF OneByOne, Turns
<1>6. Upcoming' = queue' /\ Current' = None
  BY <1>1, <1>5, FrontNewThen
<1>7. Buffered' = Buffered
  BY <1>1 DEF Buffered
<1>8. QED BY <1>1, <1>4, <1>6, <1>7 DEF List!listVars

\* The one notification of a sound is its end.
LEMMA CleanupEnds ==
  ASSUME IType, OneByOne, ~stopping, NEW w \in Workers, Cleanup(w)
  PROVE  List!End
<1> DEFINE p == thread[w].this
           status == IF thread[w].at = "complete" THEN "COMPLETE" ELSE "FAILED"
           a == [Closed(ap[p]) EXCEPT !.status = status, !.notified = TRUE]
<1>1. /\ UNCHANGED <<queue, started, stopping, level>> /\ Working(w)
      /\ p \in Producers /\ ap \in [Producers -> Producer] /\ ap[p] \in Producer
  BY DEF Cleanup, Working, Threads, IType, Targets, TypeOK, trackVars, histVars
<1>2. Active(p)
  BY <1>1 DEF OneByOne, OneAtWork, Playing
<1>3. queue # <<>> /\ p = Head(queue)
  BY <1>1, <1>2, ActiveIsFront DEF IType, OneByOne
<1>4. ap' = [ap EXCEPT ![p] = a] /\ a.notified
  BY <1>1 DEF Cleanup, Closed, Producer
<1> HIDE DEF a, p
<1>5. ap'[p].notified /\ started[p] = "yes"
  BY <1>1, <1>2, <1>4 DEF Active
<1>6. Upcoming = Tail(queue) /\ Current # None
  BY <1>1, <1>2, <1>3, <1>5, PlaysIt, FrontBegun
<1>7. Upcoming' = Tail(queue) /\ Current' = None
  BY <1>1, <1>3, <1>5, FrontBegunThen
<1>8. Buffered' = Buffered
  BY <1>1 DEF Buffered
<1>9. QED BY <1>1, <1>6, <1>7, <1>8 DEF List!End

\* Once the removal has begun nothing is promised any more.
LEMMA RemovalCloses ==
  ASSUME stopping'
  PROVE  List!Close
  BY DEF List!Close, Upcoming, Current, Buffered

LEMMA OpenSteps ==
  ASSUME IType, OneByOne, ~stopping, Next
  PROVE  [List!Next]_List!listVars
<1>1. ASSUME NEW c \in Callers, (\E p \in Producers : Play(c, p)) \/ PlayStep(c)
      PROVE  [List!Next]_List!listVars
  BY <1>1, ControlUnseen, ListKept, PushAsks, StartsTurn DEF PlayStep, List!Next
<1>2. ASSUME NEW c \in Callers, Remove(c) \/ Silence(c)
      PROVE  [List!Next]_List!listVars
  BY <1>2, ControlUnseen, ListKept
<1>3. ASSUME NEW c \in Callers, RemoveStep(c)
      PROVE  [List!Next]_List!listVars
  <2>1. stopping'
    BY <1>3, NothingDeleted DEF Flag
  <2>2. QED BY <2>1, RemovalCloses DEF List!Next
<1>4. ASSUME NEW t \in Threads, DoneStep(t)
      PROVE  [List!Next]_List!listVars
  BY <1>4, ControlUnseen, ListKept, PopUnseen, StartsTurn, NothingDeleted DEF DoneStep, List!Next
<1>5. ASSUME NEW w \in Workers, WorkerStep(w)
      PROVE  [List!Next]_List!listVars
  BY <1>5, ControlUnseen, ListKept, CleanupEnds DEF WorkerStep, List!Next
<1>6. CASE Insert
  BY <1>6, InsertFills DEF List!Next
<1>7. ASSUME NEW h \in ready, Handle(h)
      PROVE  [List!Next]_List!listVars
  BY <1>7, HandlerUnseen, ListKept
<1>8. ASSUME NEW p \in Producers, Expire(p) \/ Transfer(p)
      PROVE  [List!Next]_List!listVars
  BY <1>8, ProducerUnseen, ListKept, WriteFills, NothingDeleted DEF Transfer, List!Next
<1>9. CASE FindActive \/ Mix \/ MixDeleted
  BY <1>9, ControlUnseen, ListKept, DrainsList, NothingDeleted DEF List!Next
<1>10. QED BY <1>1, <1>2, <1>3, <1>4, <1>5, <1>6, <1>7, <1>8, <1>9 DEF Next

LEMMA ListSteps ==
  ASSUME IType, QInv, [Next]_vars
  PROVE  [List!Next]_List!listVars
<1>1. CASE UNCHANGED vars
  <2>1. SameSounds /\ level' = level
    BY <1>1 DEF vars, trackVars, histVars, SameSounds
  <2>2. QED BY <2>1, ListKept
<1>2. CASE Next /\ stopping
  <2>1. stopping'
    BY <1>2, StoppingStays
  <2>2. QED BY <2>1, RemovalCloses DEF List!Next
<1>3. CASE Next /\ ~stopping
  BY <1>3, OpenSteps DEF QInv
<1>4. QED BY <1>1, <1>2, <1>3

LEMMA ListInit == Init => List!Init
  BY DEF Init, List!Init, Upcoming, Current, Buffered, HadTurn

\* Up to its removal a track is a playlist, whoever queues, starts, ends and pops:
\* a sound has its turn when it comes to the front, when the one before has
\* reported its end or could not start, and only while it plays do samples reach
\* the buffer (track.cpp, queueAudioProducer and onPlayDone; ap_file.cpp,
\* ap_http.cpp).
THEOREM TrackImplementsPlaylist == Spec => KeepsPlaylist
<1>1. Init => List!Init
  BY ListInit
<1>2. IType /\ QInv /\ [Next]_vars => [List!Next]_List!listVars
  BY ListSteps
<1>3. QED BY <1>1, <1>2, QInvHolds, PTL DEF Spec, KeepsPlaylist, List!Spec
=============================================================================
