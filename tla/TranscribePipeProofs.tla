------------------------ MODULE TranscribePipeProofs ------------------------
(***************************************************************************)
(* Proofs about TranscribePipe for any of the vendors and any number of    *)
(* pipes.                                                                  *)
(***************************************************************************)
EXTENDS TranscribePipe, TLAPS

-----------------------------------------------------------------------------
(* The invariants.                                                         *)

Stopping == {"lock", "remove", "reap", "destroy"}
Stops(t, k) == thread[t].k = k /\ thread[t].pc \in Stopping

\* Nobody holds the number of a session that has not been made, nor, before its
\* bug is added, of the last one.
Unknown(k) ==
  /\ k \in Pipes /\ sess[k].gone = 0
  /\ chan.bug # k /\ chan.attached # k /\ media.k # k /\ thread["hup"].k # k

Numbered ==
  /\ chan.bug \in 0..made /\ chan.attached \in 0..made /\ media.k \in 0..made
  /\ \A t \in Callers : thread[t].k \in 0..made
  /\ \A t \in Callers : thread[t].pc \in Stopping => thread[t].k \in Pipes
  /\ \A k \in Pipes : k > made => sess[k].gone = 0
  /\ thread["api"].pc = "add" => Unknown(thread["api"].k)
  /\ thread["api"].starts \/ thread["api"].pc = "init" => made < MaxPipes

\* Once the call is hung up no frame enters; only then does the hang-up's thread
\* run.  A stop that has taken the mutex leaves no bug to be found.
HungUp ==
  /\ chan.hung => chan.attached = NULL /\ media.pc = "idle"
  /\ ~chan.hung => thread["hup"].pc = "idle"
  /\ \A t \in Callers : thread[t].pc \in Stopping \ {"lock"} => chan.bug = NULL
  /\ media.pc = "idle" => media.k = NULL
  /\ media.pc # "idle" => media.k \in Pipes
  /\ media.pc \in {"write", "ping"} => media.p \in Pipes

\* Two stops at most find a session, and each destroys its mutex once.
Counted ==
  /\ \A k \in Pipes : chan.bug = k => sess[k].gone = 0
  /\ \A k \in Pipes, t \in Callers : Stops(t, k) => sess[k].gone <= 1
  /\ \A k \in Pipes : Stops("api", k) /\ Stops("hup", k) => sess[k].gone = 0

Types == TypeOK /\ Numbered /\ HungUp /\ Counted

\* The modules and the setting for which PipesSafe claims anything.
Claimed == vendor # "ibm" /\ ~single

\* A session has the pipe it was made with or none, and only it has it; a pipe at
\* its reaper has left its session.
Pointers ==
  /\ \A k \in Pipes : ~sess[k].keep /\ sess[k].pipe \in {NULL, k}
  /\ \A k \in Pipes : k > made => sess[k].pipe = NULL /\ reaper[k] = "none"
  /\ \A k \in Pipes : reaper[k] # "none" => sess[k].pipe = NULL
  /\ \A k \in Pipes : IsDeleted(k) => sess[k].pipe = NULL /\ reaper[k] = "none"
  /\ thread["api"].pc = "init" => chan.bug = NULL

\* The mutex has one owner; a frame that has it writes to a pipe that is not at
\* its reaper.
Mutexes ==
  /\ \A t \in Callers : thread[t].pc \in {"remove", "reap"} => sess[thread[t].k].owner = t
  /\ media.pc \in {"idle", "enter", "write"}
  /\ media.pc = "write" =>
       /\ sess[media.k].owner = "media" /\ media.p = media.k
       /\ reaper[media.k] = "none" /\ ~IsDeleted(media.k)

\* The mutex is destroyed when no frame can come any more.
Detaches ==
  /\ thread["api"].pc \in {"reap", "destroy"} => chan.attached = NULL /\ media.pc = "idle"
  /\ \A k \in Pipes : sess[k].gone > 0 => chan.attached # k /\ media.k # k

Sound == hurt = {} /\ Pointers /\ Mutexes /\ Detaches
Safe == Claimed => Sound

-----------------------------------------------------------------------------
(* What the edits of a record make.                                        *)

Texts == {"none", "other", "stop"}

LEMMA Numbers ==
  /\ MaxPipes \in Nat /\ NULL \in 0..MaxPipes /\ Pipes \subseteq 0..MaxPipes
  /\ NULL \notin Pipes /\ 0..MaxPipes = Pipes \cup {NULL}
  BY ConstantsAssumption DEF Pipes, NULL

LEMMA PipeForms ==
  /\ NoPipe \in Pipe /\ NewPipe \in Pipe /\ Deleted \in Pipe
  /\ NewPipe.st = "idle" /\ Deleted.st = "deleted" /\ NoPipe.st = "none"
  /\ \A r \in Pipe, s \in States : /\ [r EXCEPT !.st = s] \in Pipe
                                   /\ [r EXCEPT !.st = s].st = s
  /\ \A r \in Pipe, b \in BOOLEAN :
       /\ [r EXCEPT !.finished = b] \in Pipe /\ [r EXCEPT !.finished = b].st = r.st
       /\ [r EXCEPT !.wanted = b] \in Pipe /\ [r EXCEPT !.wanted = b].st = r.st
       /\ [r EXCEPT !.asked = b] \in Pipe /\ [r EXCEPT !.asked = b].st = r.st
  /\ \A r \in Pipe, x \in Texts :
       [r EXCEPT !.text = x] \in Pipe /\ [r EXCEPT !.text = x].st = r.st
<1>1. NoPipe \in Pipe /\ NoPipe.st = "none"
  BY DEF NoPipe, Pipe, States
<1>2. \A r \in Pipe, s \in States : [r EXCEPT !.st = s] \in Pipe /\ [r EXCEPT !.st = s].st = s
  BY DEF Pipe
<1>3. "idle" \in States /\ "deleted" \in States
  BY DEF States
<1>4. NewPipe \in Pipe /\ Deleted \in Pipe /\ NewPipe.st = "idle" /\ Deleted.st = "deleted"
  BY <1>1, <1>2, <1>3 DEF NewPipe, Deleted
<1>5. QED BY <1>1, <1>2, <1>4 DEF Pipe, Texts

LEMMA TextForms ==
  ASSUME NEW r \in Pipe, NEW x \in Texts
  PROVE  WithText(r, x) \in Pipe /\ WithText(r, x).st = r.st
<1>1. (IF r.text = "stop" THEN r.text ELSE x) \in Texts
  BY DEF Pipe, Texts
<1>2. WithText(r, x) = [r EXCEPT !.text = IF r.text = "stop" THEN r.text ELSE x]
  BY DEF WithText
<1>3. QED BY <1>1, <1>2, PipeForms

LEMMA ListForms ==
  ASSUME pending \in Lists, NEW p \in Pipes
  PROVE  AddConnect(p) \in Lists /\ AddWrite(p) \in Lists /\ NotPending(p) \in Lists
  BY DEF Lists, AddConnect, AddWrite, NotPending

LEMMA ThreadForms ==
  /\ Idle \in Thread /\ Idle.pc = "idle" /\ Idle.k = NULL /\ ~Idle.starts
  /\ [Idle EXCEPT !.pc = "init"] \in Thread
  /\ \A k \in 0..MaxPipes, b \in BOOLEAN :
       /\ [pc |-> "lock", k |-> k, starts |-> b] \in Thread
       /\ [pc |-> "add", k |-> k, starts |-> b] \in Thread
  /\ \A k \in 0..MaxPipes :
       LET r == [Idle EXCEPT !.pc = "lock", !.k = k] IN
       r \in Thread /\ r.pc = "lock" /\ r.k = k /\ ~r.starts
<1>1. Idle \in Thread /\ Idle.pc = "idle" /\ Idle.k = NULL /\ ~Idle.starts
  BY Numbers DEF Idle, Thread
<1>2. [Idle EXCEPT !.pc = "init"] \in Thread
  BY Numbers DEF Idle, Thread
<1>3. \A k \in 0..MaxPipes, b \in BOOLEAN :
       /\ [pc |-> "lock", k |-> k, starts |-> b] \in Thread
       /\ [pc |-> "add", k |-> k, starts |-> b] \in Thread
  BY DEF Thread
<1>4. \A k \in 0..MaxPipes :
       LET r == [Idle EXCEPT !.pc = "lock", !.k = k] IN
       r \in Thread /\ r.pc = "lock" /\ r.k = k /\ ~r.starts
  BY <1>1 DEF Thread
<1>5. QED BY <1>1, <1>2, <1>3, <1>4

LEMMA VendorForms ==
  \A v \in AllVendors : FinishOf[v].remembers \in BOOLEAN /\ StartOf[v].keeps \subseteq BOOLEAN
<1>1. /\ FinishOf["deepgram"].remembers \in BOOLEAN /\ FinishOf["jambonz"].remembers \in BOOLEAN
      /\ FinishOf["ibm"].remembers \in BOOLEAN /\ FinishOf["assemblyai"].remembers \in BOOLEAN
      /\ FinishOf["aws"].remembers \in BOOLEAN
  BY DEF FinishOf, DeepgramFinish, JambonzFinish, IbmFinish, AssemblyaiFinish, AwsFinish
<1>2. /\ StartOf["deepgram"].keeps \subseteq BOOLEAN /\ StartOf["jambonz"].keeps \subseteq BOOLEAN
      /\ StartOf["ibm"].keeps \subseteq BOOLEAN /\ StartOf["assemblyai"].keeps \subseteq BOOLEAN
      /\ StartOf["aws"].keeps \subseteq BOOLEAN
  BY DEF StartOf, DeepgramStart, JambonzStart, IbmStart, AssemblyaiStart, AwsStart
<1>3. QED BY <1>1, <1>2 DEF AllVendors

-----------------------------------------------------------------------------
(* Type correctness: the service thread and the reapers.                   *)

LEMMA InitTypes == Init => Types
<1> SUFFICES ASSUME Init PROVE Types
  OBVIOUS
<1>1. NoSession \in Session /\ NoSession.gone = 0
  BY Numbers DEF NoSession, Session
<1>2. single \in BOOLEAN
  BY ConstantsAssumption, VendorForms DEF Init
<1>3. chan \in Channel /\ media \in Media /\ pending \in Lists
  BY Numbers DEF Init, Channel, Media, Lists
<1>4. sess \in [Pipes -> Session] /\ pipes \in [Pipes -> Pipe] /\ thread \in [Callers -> Thread]
  BY <1>1, PipeForms, ThreadForms DEF Init
<1>5. TypeOK
  BY <1>2, <1>3, <1>4, Numbers DEF Init, TypeOK, NULL
<1>6. \A t \in Callers : thread[t].pc = "idle" /\ thread[t].k = NULL /\ ~thread[t].starts
  BY ThreadForms DEF Init
<1>7. \A k \in Pipes : sess[k].gone = 0
  BY <1>1 DEF Init
<1>8. Numbered
  BY <1>6, <1>7 DEF Init, Numbered, Stopping, NULL, Callers
<1>9. HungUp /\ Counted
  BY <1>6, <1>7 DEF Init, HungUp, Counted, Stops, Stopping, Callers
<1>10. QED BY <1>5, <1>8, <1>9 DEF Types

\* Steps that leave the channel, the threads and the mutexes alone.
LEMMA RestKept ==
  ASSUME Types, UNCHANGED <<chan, made, thread, media>>,
         \A k \in Pipes : sess'[k].gone = sess[k].gone
  PROVE  Numbered' /\ HungUp' /\ Counted'
<1>1. Numbered'
  BY DEF Types, Numbered, Unknown
<1>2. HungUp'
  BY DEF Types, HungUp
<1>3. Counted'
  BY DEF Types, Counted, Stops
<1>4. QED BY <1>1, <1>2, <1>3

\* What a session may lose to the service thread is its pipe.
LEMMA TakesPipeEffect ==
  ASSUME Types, NEW p \in Pipes, NEW o \in BOOLEAN, TakesPipe(p, o)
  PROVE  /\ sess' \in [Pipes -> Session] /\ robbed' \subseteq Pipes \X Pipes
         /\ \A k \in Pipes : /\ sess'[k].gone = sess[k].gone /\ sess'[k].keep = sess[k].keep
                             /\ sess'[k].owner = sess[k].owner
                             /\ sess'[k].pipe \in {sess[k].pipe, NULL}
<1>1. sess \in [Pipes -> Session] /\ robbed \subseteq Pipes \X Pipes
  BY DEF Types, TypeOK
<1>2. CASE UNCHANGED <<sess, robbed>>
  BY <1>1, <1>2
<1>3. CASE ~UNCHANGED <<sess, robbed>>
  <2> DEFINE b == chan.bug
             v == [sess[b] EXCEPT !.pipe = NULL]
  <2>1. sess' = [sess EXCEPT ![b] = v] /\ b \in Pipes
    BY <1>3, Numbers DEF TakesPipe, Types, TypeOK, Channel
  <2>2. \A r \in Session : LET q == [r EXCEPT !.pipe = NULL] IN
          q \in Session /\ q.gone = r.gone /\ q.keep = r.keep /\ q.owner = r.owner /\ q.pipe = NULL
    BY Numbers DEF Session
  <2>3. b \in Pipes => /\ v \in Session /\ v.gone = sess[b].gone /\ v.keep = sess[b].keep
                       /\ v.owner = sess[b].owner /\ v.pipe = NULL
    BY <1>1, <2>2
  <2>6. robbed' \subseteq Pipes \X Pipes
    <3>1. sess[b].pipe \in Pipes \cup {NULL}
      BY <1>1, <2>1, Numbers DEF Session
    <3>2. QED BY <1>1, <1>3, <3>1 DEF TakesPipe
  <2> HIDE DEF b, v
  <2>4. \A k \in Pipes : sess'[k] = IF k = b THEN v ELSE sess[k]
    BY <1>1, <2>1
  <2>5. QED BY <1>1, <2>1, <2>3, <2>4, <2>6
<1>4. QED BY <1>2, <1>3

LEMMA FinishTypes ==
  ASSUME Types, NEW p \in Pipes, Finish(p)
  PROVE  /\ pipes' \in [Pipes -> Pipe] /\ pending' \in Lists
         /\ \A q \in Pipes : pipes'[q].st = pipes[q].st
<1>1. pipes \in [Pipes -> Pipe] /\ pending \in Lists
  BY DEF Types, TypeOK
<1>2. pending' \in Lists
  BY <1>1, ListForms DEF Finish
<1>3. CASE IsDeleted(p)
  BY <1>1, <1>2, <1>3 DEF Finish
<1>4. CASE ~IsDeleted(p) /\ CanFinish(p)
  <2> DEFINE v == WithText([pipes[p] EXCEPT !.finished = TRUE], StopText)
  <2>1. pipes' = [pipes EXCEPT ![p] = v]
    BY <1>4 DEF Finish, Finished
  <2>2. StopText \in Texts
    BY DEF StopText, Texts
  <2> DEFINE r == [pipes[p] EXCEPT !.finished = TRUE]
  <2>3. r \in Pipe /\ r.st = pipes[p].st
    BY <1>1, PipeForms
  <2>4. v \in Pipe /\ v.st = r.st
    <3> HIDE DEF r
    <3>1. WithText(r, StopText) \in Pipe /\ WithText(r, StopText).st = r.st
      BY <2>2, <2>3, TextForms
    <3>2. QED BY <3>1 DEF r
  <2> HIDE DEF v, r
  <2>5. QED BY <1>1, <1>2, <2>1, <2>3, <2>4
<1>5. CASE ~IsDeleted(p) /\ ~CanFinish(p)
  <2> DEFINE v == [pipes[p] EXCEPT !.finished = @ \/ FinishOf[vendor].remembers]
  <2>1. pipes' = [pipes EXCEPT ![p] = v]
    BY <1>1, <1>5 DEF Finish, Finished
  <2>2. FinishOf[vendor].remembers \in BOOLEAN
    BY ConstantsAssumption, VendorForms DEF Types, TypeOK
  <2>3. (pipes[p].finished \/ FinishOf[vendor].remembers) \in BOOLEAN
    OBVIOUS
  <2>4. v \in Pipe /\ v.st = pipes[p].st
    BY <1>1, <2>3, PipeForms
  <2> HIDE DEF v
  <2>5. QED BY <1>1, <1>2, <2>1, <2>4
<1>6. QED BY <1>3, <1>4, <1>5

\* The end of a connection.
LEMMA EndTypes ==
  ASSUME Types, NEW p \in Pipes, End(p)
  PROVE  pipes' \in [Pipes -> Pipe] /\ \E o \in BOOLEAN : TakesPipe(p, o)
<1>1. pipes \in [Pipes -> Pipe]
  BY DEF Types, TypeOK
<1>2. Ended(p) \in Pipe
  <2>1. \A b \in BOOLEAN : [NoPipe EXCEPT !.st = "closed", !.finished = b] \in Pipe
    BY DEF NoPipe, Pipe, States
  <2>2. pipes[p].finished \in BOOLEAN
    BY <1>1 DEF Pipe
  <2>3. QED BY <2>1, <2>2, PipeForms DEF Ended
<1>3. QED BY <1>1, <1>2 DEF End

LEMMA WaitTypes == ASSUME Types, WaitCancelled PROVE Types'
<1>1. pipes \in [Pipes -> Pipe] /\ pending \in Lists
  BY DEF Types, TypeOK
<1>2. pending' \in Lists
  BY <1>1 DEF WaitCancelled, Lists
<1>3. \A p \in Pipes : pipes'[p] \in {pipes[p], [pipes[p] EXCEPT !.st = "connecting"],
                                     [pipes[p] EXCEPT !.wanted = TRUE]}
  BY DEF WaitCancelled
<1>4. pipes' \in [Pipes -> Pipe]
  <2>1. \A r \in Pipe : [r EXCEPT !.st = "connecting"] \in Pipe /\ [r EXCEPT !.wanted = TRUE] \in Pipe
    BY DEF Pipe, States
  <2>2. \A p \in Pipes : pipes'[p] \in Pipe
    BY <1>1, <1>3, <2>1
  <2>3. QED BY <2>2 DEF WaitCancelled
<1>5. TypeOK'
  BY <1>2, <1>4 DEF Types, TypeOK, WaitCancelled, historyVars
<1>6. QED BY <1>5, RestKept DEF Types, WaitCancelled

LEMMA EstablishedTypes == ASSUME Types, NEW p \in Pipes, Established(p) PROVE Types'
<1>1. pipes \in [Pipes -> Pipe] /\ pending \in Lists /\ sess \in [Pipes -> Session]
  BY DEF Types, TypeOK
<1>2. /\ NotPending(p) \in Lists
      /\ \A r \in Lists, w \in SUBSET Pipes, d \in SUBSET Pipes :
           /\ [r EXCEPT !.disconnects = @ \cup d, !.woken = TRUE] \in Lists
           /\ [r EXCEPT !.writes = @ \cup w, !.woken = @ \/ w # {}] \in Lists
  BY <1>1, ListForms DEF Lists
<1>3. pipes' \in [Pipes -> Pipe] /\ pending' \in Lists
  <2>1. CASE LinkOf[vendor].quits /\ pipes[p].finished
    <3>1. pipes' = [pipes EXCEPT ![p].st = "disconnecting"]
      BY <2>1 DEF Established
    <3>2. pending' = [NotPending(p) EXCEPT !.disconnects = @ \cup {p}, !.woken = TRUE]
      BY <2>1 DEF Established
    <3>3. pipes' \in [Pipes -> Pipe]
      <4>1. [pipes[p] EXCEPT !.st = "disconnecting"] \in Pipe
        BY <1>1, PipeForms DEF States
      <4>2. QED BY <1>1, <3>1, <4>1
    <3>4. {p} \in SUBSET Pipes
      OBVIOUS
    <3>5. QED BY <1>2, <3>2, <3>3, <3>4
  <2>2. CASE ~(LinkOf[vendor].quits /\ pipes[p].finished)
    <3> DEFINE up == [pipes EXCEPT ![p].st = "connected"]
               told == {q \in Greeted(p) : up[q].st = "connected"}
    <3>1. /\ pipes' = [q \in Pipes |-> IF q \in told THEN WithText(up[q], "other") ELSE up[q]]
          /\ pending' = [NotPending(p) EXCEPT !.writes = @ \cup told, !.woken = @ \/ told # {}]
      BY <2>2 DEF Established
    <3>2. told \subseteq Pipes
      <4>1. chan.bug # NULL => chan.bug \in Pipes
        BY Numbers DEF Types, TypeOK, Channel
      <4>2. chan.bug # NULL => sess[chan.bug].pipe \in Pipes \cup {NULL}
        BY <1>1, <4>1, Numbers DEF Session
      <4>3. QED BY <4>2 DEF Greeted
    <3>3. up \in [Pipes -> Pipe]
      BY <1>1, PipeForms DEF States
    <3> HIDE DEF up, told
    <3>4. \A q \in Pipes : WithText(up[q], "other") \in Pipe
      <4>1. "other" \in Texts
        BY DEF Texts
      <4>2. QED BY <3>3, <4>1, TextForms
    <3>5. QED BY <1>2, <3>1, <3>2, <3>3, <3>4
  <2>3. QED BY <2>1, <2>2
<1>4. TypeOK'
  BY <1>3 DEF Types, TypeOK, Established, historyVars
<1>5. QED BY <1>4, RestKept DEF Types, Established

LEMMA ServiceTypes == ASSUME Types, NEW p \in Pipes, ServiceNext(p) PROVE Types'
<1>1. pipes \in [Pipes -> Pipe] /\ pending \in Lists
  BY DEF Types, TypeOK
<1>2. ASSUME ConnectionError(p) PROVE Types'
  <2>1. pipes' \in [Pipes -> Pipe] /\ pending' \in Lists
    BY <1>1, <1>2, PipeForms, ListForms DEF ConnectionError, States
  <2>2. TakesPipe(p, FALSE)
    BY <1>2 DEF ConnectionError
  <2>3. /\ sess' \in [Pipes -> Session] /\ robbed' \subseteq Pipes \X Pipes
        /\ \A k \in Pipes : sess'[k].gone = sess[k].gone
    BY <2>2, TakesPipeEffect
  <2>4. TypeOK'
    BY <1>2, <2>1, <2>3 DEF Types, TypeOK, ConnectionError
  <2>5. QED BY <1>2, <2>3, <2>4, RestKept DEF Types, ConnectionError
<1>3. ASSUME Closed(p) \/ WriteEnd(p) PROVE Types'
  <2>1. End(p) /\ UNCHANGED <<vendor, single, chan, made, pending, thread, media, reaper, hurt, early>>
    BY <1>3 DEF Closed, WriteEnd
  <2>2. PICK o \in BOOLEAN : TakesPipe(p, o)
    BY <2>1, EndTypes
  <2>3. /\ sess' \in [Pipes -> Session] /\ robbed' \subseteq Pipes \X Pipes
        /\ \A k \in Pipes : sess'[k].gone = sess[k].gone
    BY <2>2, TakesPipeEffect
  <2>4. pipes' \in [Pipes -> Pipe]
    BY <2>1, EndTypes
  <2>5. TypeOK'
    BY <2>1, <2>3, <2>4 DEF Types, TypeOK
  <2>6. QED BY <2>1, <2>3, <2>5, RestKept DEF Types
<1>4. ASSUME Receive(p) PROVE Types'
  <2>1. pipes' \in [Pipes -> Pipe] /\ pending' \in Lists
    <3>1. [pipes[p] EXCEPT !.st = "disconnecting"] \in Pipe
      BY <1>1, PipeForms DEF States
    <3>2. [pending EXCEPT !.disconnects = @ \cup {p}, !.woken = TRUE] \in Lists
      BY <1>1 DEF Lists
    <3>3. QED BY <1>1, <1>4, <3>1, <3>2 DEF Receive
  <2>2. TypeOK'
    BY <1>4, <2>1 DEF Types, TypeOK, Receive, historyVars
  <2>3. QED BY <1>4, <2>2, RestKept DEF Types, Receive
<1>5. ASSUME WriteText(p) \/ WriteAudio(p) PROVE Types'
  <2>1. \A r \in Pipe, x \in BOOLEAN :
          /\ [r EXCEPT !.text = "none", !.asked = @ \/ x] \in Pipe
          /\ [r EXCEPT !.wanted = FALSE, !.asked = @ \/ x] \in Pipe
    BY DEF Pipe
  <2>2. pipes' \in [Pipes -> Pipe]
    <3> DEFINE x == pipes[p].text = "stop"
               y == pipes[p].finished /\ ~WriteOf[vendor].texts
               v == [pipes[p] EXCEPT !.text = "none", !.asked = @ \/ x]
               w == [pipes[p] EXCEPT !.wanted = FALSE, !.asked = @ \/ y]
    <3>1. pipes' = [pipes EXCEPT ![p] = v] \/ pipes' = [pipes EXCEPT ![p] = w]
      BY <1>1, <1>5 DEF WriteText, WriteAudio
    <3>2. v \in Pipe /\ w \in Pipe
      BY <1>1, <2>1
    <3> HIDE DEF v, w
    <3>3. QED BY <1>1, <3>1, <3>2
  <2>3. /\ UNCHANGED <<vendor, single, chan, sess, made, pending, thread, media, reaper>>
        /\ UNCHANGED <<hurt, robbed, early>>
    BY <1>5 DEF WriteText, WriteAudio, historyVars
  <2>4. TypeOK'
    BY <2>2, <2>3 DEF Types, TypeOK
  <2>5. QED BY <2>3, <2>4, RestKept DEF Types
<1>6. QED BY <1>2, <1>3, <1>4, <1>5, EstablishedTypes DEF ServiceNext, Writeable

LEMMA ReaperTypes == ASSUME Types, NEW p \in Pipes, ReaperNext(p) PROVE Types'
<1>1. hurt' \subseteq (Pipes \cup {NULL}) \X {"frame", "stop", "reaper", "early"}
  BY DEF Types, TypeOK, ReaperNext, ReaperFinishes, ReaperDeletes, HurtIf
<1>2. early' \subseteq Pipes /\ reaper' \in [Pipes -> {"none", "finish", "wait"}]
  BY DEF Types, TypeOK, ReaperNext, ReaperFinishes, ReaperDeletes
<1>3. pipes' \in [Pipes -> Pipe] /\ pending' \in Lists
  BY PipeForms, FinishTypes DEF Types, TypeOK, ReaperNext, ReaperFinishes, ReaperDeletes
<1>4. UNCHANGED <<vendor, single, chan, sess, made, media, thread, robbed>>
  BY DEF ReaperNext, ReaperFinishes, ReaperDeletes
<1>5. TypeOK'
  BY <1>1, <1>2, <1>3, <1>4 DEF Types, TypeOK
<1>6. QED BY <1>4, <1>5, RestKept DEF Types

-----------------------------------------------------------------------------
(* Type correctness: the media thread.                                     *)

LEMMA MediaKept ==
  ASSUME Types, UNCHANGED <<chan, made, thread>>,
         \A k \in Pipes : sess'[k].gone = sess[k].gone,
         media'.k \in {NULL, media.k, chan.attached},
         media'.pc = "idle" => media'.k = NULL,
         media'.pc # "idle" => media'.k \in Pipes /\ ~chan.hung,
         media'.pc \in {"write", "ping"} => media'.p \in Pipes
  PROVE  Numbered' /\ HungUp' /\ Counted'
<1>1. NULL \in 0..made /\ NULL \notin Pipes
  BY Numbers DEF Types, TypeOK, NULL
<1>2. Numbered'
  BY <1>1 DEF Types, Numbered, Unknown
<1>3. HungUp'
  BY DEF Types, HungUp
<1>4. Counted'
  BY DEF Types, Counted, Stops
<1>5. QED BY <1>2, <1>3, <1>4

LEMMA EnterTypes == ASSUME Types, FrameEnters PROVE Types'
<1>1. media \in Media /\ chan.attached \in Pipes
  BY Numbers DEF Types, TypeOK, Channel, FrameEnters
<1>2. sess[chan.attached].pipe \in 0..MaxPipes
  BY <1>1 DEF Types, TypeOK, Session
<1>3. ~chan.hung
  BY DEF Types, HungUp, FrameEnters
<1>4. media' \in Media
  BY <1>1, <1>2, Numbers DEF FrameEnters, Media
<1>5. TypeOK'
  BY <1>4 DEF Types, TypeOK, FrameEnters, historyVars
<1>6. /\ media'.k = chan.attached /\ media'.pc # "idle"
      /\ media'.pc \in {"write", "ping"} => media'.p \in Pipes
  BY <1>2, Numbers DEF FrameEnters
<1>7. Numbered' /\ HungUp' /\ Counted'
  BY <1>1, <1>3, <1>6, MediaKept DEF FrameEnters
<1>8. QED BY <1>5, <1>7 DEF Types

LEMMA FrameTypes == ASSUME Types, FrameGoesOn PROVE Types'
<1>1. /\ media \in Media /\ sess \in [Pipes -> Session] /\ pipes \in [Pipes -> Pipe]
      /\ pending \in Lists
  BY DEF Types, TypeOK
<1>2. media.pc # "idle" /\ media.k \in Pipes /\ ~chan.hung
  BY DEF Types, HungUp, FrameGoesOn, FrameGivesUp, FrameLocks, FrameWrites, FramePings
<1>3. NoFrame \in Media /\ NoFrame.pc = "idle" /\ NoFrame.k = NULL
  BY Numbers DEF NoFrame, Media
<1>4. \A r \in Session, o \in {"none", "free", "media"} \cup Callers :
        [r EXCEPT !.owner = o] \in Session /\ [r EXCEPT !.owner = o].gone = r.gone
  BY DEF Session
<1>5. ASSUME FrameGivesUp PROVE Types'
  <2>1. TypeOK'
    BY <1>3, <1>5 DEF Types, TypeOK, FrameGivesUp, historyVars
  <2>2. QED BY <1>3, <1>5, <2>1, MediaKept DEF FrameGivesUp, Types
<1>6. ASSUME FrameLocks PROVE Types'
  <2> DEFINE k == media.k
             p == sess[k].pipe
             m == [media EXCEPT !.pc = "write", !.p = p]
             v == [sess[k] EXCEPT !.owner = "media"]
  <2>1. k \in Pipes /\ p \in 0..MaxPipes /\ v \in Session /\ v.gone = sess[k].gone
    BY <1>1, <1>2, <1>4 DEF Session
  <2>2. \/ p # NULL /\ media' = m /\ sess' = [sess EXCEPT ![k] = v]
        \/ media' = NoFrame /\ sess' = sess
    BY <1>6 DEF FrameLocks
  <2>3. hurt' \subseteq (Pipes \cup {NULL}) \X {"frame", "stop", "reaper", "early"}
    BY <1>6, <2>1, Numbers DEF FrameLocks, Types, TypeOK
  <2>4. m \in Media /\ m.k = k /\ m.pc = "write" /\ m.p = p
    BY <1>1, <2>1 DEF Media
  <2> HIDE DEF v, m, p
  <2>5. sess' \in [Pipes -> Session] /\ \A j \in Pipes : sess'[j].gone = sess[j].gone
    BY <1>1, <2>1, <2>2
  <2>6. TypeOK'
    BY <1>3, <1>6, <2>2, <2>3, <2>4, <2>5 DEF Types, TypeOK, FrameLocks
  <2>7. p # NULL => p \in Pipes
    BY <2>1, Numbers
  <2>8. UNCHANGED <<chan, made, thread>>
    BY <1>6 DEF FrameLocks
  <2>9. Numbered' /\ HungUp' /\ Counted'
    BY <1>2, <1>3, <2>2, <2>4, <2>5, <2>7, <2>8, MediaKept
  <2>10. QED BY <2>6, <2>9 DEF Types
<1>7. ASSUME FrameWrites PROVE Types'
  <2> DEFINE k == media.k
             v == [sess[k] EXCEPT !.owner = IF @ = "media" THEN "free" ELSE @]
  <2>1. media.p \in Pipes
    BY <1>7 DEF Types, HungUp, FrameWrites
  <2>2. (IF sess[k].owner = "media" THEN "free" ELSE sess[k].owner)
          \in {"none", "free", "media"} \cup Callers
    BY <1>1, <1>2 DEF Session
  <2>3. v \in Session /\ v.gone = sess[k].gone
    BY <1>1, <1>2, <1>4, <2>2
  <2>4. sess' = [sess EXCEPT ![k] = v]
    BY <1>7 DEF FrameWrites
  <2> HIDE DEF v
  <2>5. sess' \in [Pipes -> Session] /\ \A j \in Pipes : sess'[j].gone = sess[j].gone
    BY <1>1, <1>2, <2>3, <2>4
  <2>6. hurt' \subseteq (Pipes \cup {NULL}) \X {"frame", "stop", "reaper", "early"}
    BY <1>7, <2>1 DEF FrameWrites, HurtIf, Types, TypeOK
  <2>7. pending' \in Lists
    BY <1>1, <1>7, <2>1, ListForms DEF FrameWrites
  <2>8. TypeOK'
    BY <1>3, <1>7, <2>5, <2>6, <2>7 DEF Types, TypeOK, FrameWrites
  <2>9. UNCHANGED <<chan, made, thread>> /\ media' = NoFrame
    BY <1>7 DEF FrameWrites
  <2>10. QED BY <1>3, <2>5, <2>8, <2>9, MediaKept DEF Types
<1>8. ASSUME FramePings PROVE Types'
  <2> DEFINE p == media.p
             v == WithText(pipes[p], "other")
  <2>1. p \in Pipes
    BY <1>8 DEF Types, HungUp, FramePings
  <2>2. v \in Pipe
    <3>1. "other" \in Texts /\ pipes[p] \in Pipe
      BY <1>1, <2>1 DEF Texts
    <3>2. QED BY <3>1, TextForms
  <2>3. /\ pipes' = [pipes EXCEPT ![p] = v] \/ pipes' = pipes
        /\ pending' = AddWrite(p) \/ pending' = pending
    BY <1>8 DEF FramePings
  <2> HIDE DEF v
  <2>4. pipes' \in [Pipes -> Pipe] /\ pending' \in Lists
    BY <1>1, <2>1, <2>2, <2>3, ListForms
  <2>5. hurt' \subseteq (Pipes \cup {NULL}) \X {"frame", "stop", "reaper", "early"}
    BY <1>8, <2>1 DEF FramePings, HurtIf, Types, TypeOK
  <2>6. TypeOK'
    BY <1>3, <1>8, <2>4, <2>5 DEF Types, TypeOK, FramePings
  <2>7. UNCHANGED <<chan, made, thread, sess>> /\ media' = NoFrame
    BY <1>8 DEF FramePings
  <2>8. QED BY <1>3, <2>6, <2>7, MediaKept DEF Types
<1>9. QED BY <1>5, <1>6, <1>7, <1>8 DEF FrameGoesOn

-----------------------------------------------------------------------------
(* Type correctness: starts and stops.                                     *)

\* A caller takes up, or gives up, a stop of the bug.
LEMMA CallKept ==
  ASSUME Types, UNCHANGED <<chan, made, media>>,
         \A k \in Pipes : sess'[k].gone = sess[k].gone,
         NEW t \in Callers, NEW r \in Thread, thread' = [thread EXCEPT ![t] = r],
         \/ r.pc \in {"idle", "init"} /\ r.k = NULL
         \/ r.pc = "lock" /\ r.k = chan.bug /\ chan.bug # NULL,
         t = "hup" => chan.hung,
         t = "api" /\ (r.starts \/ r.pc = "init") => made < MaxPipes
  PROVE  Numbered' /\ HungUp' /\ Counted'
<1>1. thread \in [Callers -> Thread] /\ chan.bug \in 0..made /\ made \in 0..MaxPipes
  BY DEF Types, TypeOK, Numbered
<1>2. \A u \in Callers : thread'[u] = IF u = t THEN r ELSE thread[u]
  BY <1>1
<1>3. NULL \in 0..made /\ NULL \notin Pipes /\ (chan.bug # NULL => chan.bug \in Pipes)
  BY <1>1, Numbers DEF NULL, Pipes
<1>4. Numbered'
  <2>1. /\ chan'.bug \in 0..made' /\ chan'.attached \in 0..made' /\ media'.k \in 0..made'
        /\ \A u \in Callers : thread'[u].k \in 0..made'
    BY <1>1, <1>2, <1>3 DEF Types, Numbered
  <2>2. \A u \in Callers : thread'[u].pc \in Stopping => thread'[u].k \in Pipes
    BY <1>2, <1>3 DEF Types, Numbered, Stopping
  <2>3. thread'["api"].pc = "add" => Unknown(thread["api"].k)' /\ thread'["api"].k = thread["api"].k
    BY <1>2, <1>3 DEF Types, Numbered, Unknown, Callers
  <2>4. thread'["api"].starts \/ thread'["api"].pc = "init" => made' < MaxPipes
    BY <1>2 DEF Types, Numbered, Callers
  <2>5. \A k \in Pipes : k > made' => sess'[k].gone = 0
    BY DEF Types, Numbered
  <2>6. QED BY <2>1, <2>2, <2>3, <2>4, <2>5 DEF Numbered, Unknown
<1>5. HungUp'
  BY <1>2 DEF Types, HungUp, Stopping, Callers
<1>6. Counted'
  BY <1>2, <1>3 DEF Types, Counted, Stops, Stopping, Callers
<1>7. QED BY <1>4, <1>5, <1>6

\* The caller returns from a start that it has made no session for.
LEMMA ApiReturns ==
  ASSUME Types, UNCHANGED <<chan, media>>, made < MaxPipes, made' \in {made, made + 1},
         \A k \in Pipes : sess'[k].gone \in {sess[k].gone, 0},
         thread' = [thread EXCEPT !["api"] = Idle]
  PROVE  Numbered' /\ HungUp' /\ Counted'
<1>1. thread \in [Callers -> Thread] /\ made \in 0..MaxPipes
  BY DEF Types, TypeOK
<1>2. \A u \in Callers : thread'[u] = IF u = "api" THEN Idle ELSE thread[u]
  BY <1>1
<1>0. Idle.pc = "idle" /\ Idle.k = NULL /\ ~Idle.starts
  BY ThreadForms
<1>3. 0..made \subseteq 0..made' /\ NULL \in 0..made' /\ NULL \notin Pipes
  BY <1>1, Numbers DEF NULL
<1>4. Numbered'
  <2>1. /\ chan'.bug \in 0..made' /\ chan'.attached \in 0..made' /\ media'.k \in 0..made'
        /\ \A u \in Callers : thread'[u].k \in 0..made'
    BY <1>0, <1>2, <1>3 DEF Types, Numbered
  <2>2. \A u \in Callers : thread'[u].pc \in Stopping => thread'[u].k \in Pipes
    BY <1>0, <1>2 DEF Types, Numbered, Stopping
  <2>3. thread'["api"].pc = "idle" /\ ~thread'["api"].starts
    BY <1>0, <1>2 DEF Callers
  <2>4. \A k \in Pipes : k > made' => sess'[k].gone = 0
    <3>1. \A k \in Pipes : k > made' => k > made
      BY <1>1, Numbers DEF Pipes
    <3>2. QED BY <3>1 DEF Types, Numbered
  <2>5. QED BY <2>1, <2>2, <2>3, <2>4 DEF Numbered
<1>5. HungUp'
  BY <1>0, <1>2 DEF Types, HungUp, Stopping, Callers
<1>6. Counted'
  <2>1. \A k \in Pipes : ~Stops("api", k)'
    BY <1>0, <1>2 DEF Stops, Stopping, Callers
  <2>2. \A k \in Pipes, t \in Callers : Stops(t, k)' => Stops(t, k)
    BY <1>2, <2>1 DEF Stops, Callers
  <2>3. QED BY <2>1, <2>2 DEF Types, Counted
<1>7. QED BY <1>4, <1>5, <1>6

\* The next step of a stop that has the mutex, or has had it.
LEMMA StopKept ==
  ASSUME Types, UNCHANGED <<made, media>>, \A k \in Pipes : sess'[k].gone = sess[k].gone,
         NEW t \in Callers, thread[t].pc \in Stopping, NEW x \in Stopping \ {"lock"},
         thread' = [thread EXCEPT ![t].pc = x],
         chan'.bug = NULL, chan'.attached \in {chan.attached, NULL}, chan'.hung = chan.hung
  PROVE  Numbered' /\ HungUp' /\ Counted'
<1>1. thread \in [Callers -> Thread] /\ made \in 0..MaxPipes
  BY DEF Types, TypeOK
<1>2. /\ \A u \in Callers : thread'[u].k = thread[u].k /\ thread'[u].starts = thread[u].starts
      /\ \A u \in Callers : thread'[u].pc = IF u = t THEN x ELSE thread[u].pc
  BY <1>1 DEF Thread
<1>3. NULL \in 0..made /\ NULL \notin Pipes /\ x # "add" /\ x # "init" /\ x # "idle"
  BY <1>1, Numbers DEF NULL, Stopping
<1>4. Numbered'
  <2>1. /\ chan'.bug \in 0..made' /\ chan'.attached \in 0..made' /\ media'.k \in 0..made'
        /\ \A u \in Callers : thread'[u].k \in 0..made'
    BY <1>2, <1>3 DEF Types, Numbered
  <2>2. \A u \in Callers : thread'[u].pc \in Stopping => thread'[u].k \in Pipes
    BY <1>2 DEF Types, Numbered
  <2>3. thread'["api"].pc = "add" => Unknown(thread["api"].k)'
    BY <1>2, <1>3 DEF Types, Numbered, Unknown, Callers
  <2>4. thread'["api"].starts \/ thread'["api"].pc = "init" => made' < MaxPipes
    BY <1>2, <1>3 DEF Types, Numbered, Callers
  <2>5. \A k \in Pipes : k > made' => sess'[k].gone = 0
    BY DEF Types, Numbered
  <2>6. QED BY <1>2, <2>1, <2>2, <2>3, <2>4, <2>5 DEF Numbered, Unknown, Callers
<1>5. HungUp'
  BY <1>2, <1>3 DEF Types, HungUp, Stopping, Callers
<1>6. Counted'
  BY <1>2, <1>3 DEF Types, Counted, Stops, Callers
<1>7. QED BY <1>4, <1>5, <1>6

LEMMA SessionForms ==
  /\ NoSession \in Session /\ NoSession.gone = 0
  /\ \A p \in 0..MaxPipes : LET r == [NoSession EXCEPT !.pipe = p, !.owner = "free"] IN
       r \in Session /\ r.gone = 0 /\ r.pipe = p /\ ~r.keep /\ r.owner = "free"
  /\ \A r \in Session, p \in 0..MaxPipes, b \in BOOLEAN :
       /\ [r EXCEPT !.keep = b] \in Session /\ [r EXCEPT !.keep = b].gone = r.gone
       /\ [r EXCEPT !.pipe = p] \in Session /\ [r EXCEPT !.pipe = p].gone = r.gone
       /\ [r EXCEPT !.pipe = p, !.keep = b] \in Session
       /\ [r EXCEPT !.pipe = p, !.keep = b].gone = r.gone
<1>1. NoSession \in Session /\ NoSession.gone = 0
  BY Numbers DEF NoSession, Session
<1>2. \A p \in 0..MaxPipes : LET r == [NoSession EXCEPT !.pipe = p, !.owner = "free"] IN
        r \in Session /\ r.gone = 0 /\ r.pipe = p /\ ~r.keep /\ r.owner = "free"
  BY <1>1 DEF NoSession, Session
<1>3. QED BY ZenonT(30), <1>1, <1>2 DEF Session

LEMMA StartTypes ==
  ASSUME Types, StartCapture \/ StopCommand \/ StopFinds
  PROVE  Types'
<1>1. /\ thread \in [Callers -> Thread] /\ sess \in [Pipes -> Session]
      /\ chan.bug \in 0..MaxPipes /\ (chan.bug # NULL => chan.bug \in Pipes)
      /\ "api" \in Callers /\ "hup" \in Callers
  BY Numbers DEF Types, TypeOK, Channel, Callers
<1>2. /\ Idle \in Thread /\ Idle.pc = "idle" /\ Idle.k = NULL /\ ~Idle.starts
      /\ [Idle EXCEPT !.pc = "init"] \in Thread /\ [Idle EXCEPT !.pc = "init"].pc = "init"
      /\ [Idle EXCEPT !.pc = "init"].k = NULL
  <2>1. Idle \in Thread /\ Idle.pc = "idle" /\ Idle.k = NULL /\ ~Idle.starts
        /\ [Idle EXCEPT !.pc = "init"] \in Thread
    BY ThreadForms
  <2>2. QED BY <2>1 DEF Thread
<1>3. CASE StartCapture
  <2> DEFINE r == IF chan.bug # NULL /\ ~single THEN [pc |-> "lock", k |-> chan.bug, starts |-> TRUE]
                  ELSE [Idle EXCEPT !.pc = "init"]
  <2>1. thread' = [thread EXCEPT !["api"] = r]
    BY <1>3 DEF StartCapture
  <2>2. /\ r \in Thread
        /\ \/ r.pc \in {"idle", "init"} /\ r.k = NULL
           \/ r.pc = "lock" /\ r.k = chan.bug /\ chan.bug # NULL
    BY <1>1, <1>2, ThreadForms
  <2> HIDE DEF r
  <2>3. thread' \in [Callers -> Thread]
    BY <1>1, <2>1, <2>2
  <2>4. TypeOK'
    BY <1>3, <2>3 DEF StartCapture, Types, TypeOK, historyVars
  <2>5. Numbered' /\ HungUp' /\ Counted'
    BY <1>1, <1>3, <2>1, <2>2, CallKept DEF StartCapture
  <2>6. QED BY <2>4, <2>5 DEF Types
<1>4. CASE StopFinds
  <2> DEFINE r == IF chan.bug = NULL THEN Idle ELSE [Idle EXCEPT !.pc = "lock", !.k = chan.bug]
  <2>1. thread' = [thread EXCEPT !["hup"] = r]
    BY <1>4 DEF StopFinds
  <2>2. /\ r \in Thread
        /\ \/ r.pc \in {"idle", "init"} /\ r.k = NULL
           \/ r.pc = "lock" /\ r.k = chan.bug /\ chan.bug # NULL
    BY <1>1, <1>2, ThreadForms
  <2>3. chan.hung
    BY <1>4 DEF StopFinds, Types, HungUp
  <2> HIDE DEF r
  <2>4. thread' \in [Callers -> Thread]
    BY <1>1, <2>1, <2>2
  <2>5. TypeOK'
    BY <1>4, <2>4 DEF StopFinds, Types, TypeOK, historyVars
  <2>6. Numbered' /\ HungUp' /\ Counted'
    BY <1>1, <1>4, <2>1, <2>2, <2>3, CallKept DEF StopFinds
  <2>7. QED BY <2>5, <2>6 DEF Types
<1>5. CASE StopCommand /\ single
  <2> DEFINE b == chan.bug
             v == [sess[b] EXCEPT !.keep = TRUE]
  <2>1. sess' = [sess EXCEPT ![b] = v] /\ b \in Pipes
    BY <1>1, <1>5 DEF StopCommand
  <2>2. v \in Session /\ v.gone = sess[b].gone
    BY <1>1, <2>1, SessionForms
  <2> HIDE DEF b, v
  <2>3. sess' \in [Pipes -> Session] /\ \A k \in Pipes : sess'[k].gone = sess[k].gone
    BY <1>1, <2>1, <2>2
  <2>4. TypeOK'
    BY <1>5, <2>3 DEF StopCommand, Types, TypeOK, historyVars
  <2>5. QED BY <1>5, <2>3, <2>4, RestKept DEF StopCommand, Types
<1>6. CASE StopCommand /\ ~single
  <2> DEFINE r == [Idle EXCEPT !.pc = "lock", !.k = chan.bug]
  <2>1. thread' = [thread EXCEPT !["api"] = r] /\ chan.bug # NULL
    BY <1>6 DEF StopCommand
  <2>2. r \in Thread /\ r.pc = "lock" /\ r.k = chan.bug /\ ~r.starts
    BY <1>1, ThreadForms
  <2> HIDE DEF r
  <2>3. thread' \in [Callers -> Thread]
    BY <1>1, <2>1, <2>2
  <2>4. TypeOK'
    BY <1>6, <2>3 DEF StopCommand, Types, TypeOK, historyVars
  <2>5. Numbered' /\ HungUp' /\ Counted'
    BY <1>1, <1>6, <2>1, <2>2, CallKept DEF StopCommand
  <2>6. QED BY <2>4, <2>5 DEF Types
<1>7. QED BY <1>3, <1>4, <1>5, <1>6

LEMMA InitFailsTypes == ASSUME Types, InitFails PROVE Types'
<1>1. made < MaxPipes /\ made \in 0..MaxPipes
  BY DEF Types, TypeOK, Numbered, InitFails
<1>2. made + 1 \in Pipes /\ made + 1 \in 0..MaxPipes
  BY <1>1, Numbers DEF Pipes
<1>3. /\ pipes' = pipes \/ pipes' = [pipes EXCEPT ![made + 1] = Deleted]
      /\ pending' = pending \/ pending' = AddConnect(made + 1)
      /\ made' \in {made, made + 1}
  BY DEF InitFails
<1>4. pipes' \in [Pipes -> Pipe] /\ pending' \in Lists
  BY <1>2, <1>3, PipeForms, ListForms DEF Types, TypeOK
<1>5. thread' \in [Callers -> Thread]
  BY ThreadForms DEF InitFails, Types, TypeOK
<1>6. TypeOK'
  BY <1>1, <1>2, <1>3, <1>4, <1>5 DEF InitFails, Types, TypeOK, historyVars
<1>7. QED BY <1>1, <1>3, <1>6, ApiReturns DEF InitFails, Types

LEMMA ReuseTypes == ASSUME Types, NEW k \in Pipes, Reuse(k) PROVE Types'
<1>1. /\ made < MaxPipes /\ made \in 0..MaxPipes /\ thread["api"].pc = "init"
      /\ thread' = [thread EXCEPT !["api"] = Idle]
  BY DEF Types, TypeOK, Numbered, Reuse, ReuseSame, ReuseOther, ReuseFails, Restart, Reuses
<1>2. made + 1 \in Pipes /\ made + 1 \in 0..MaxPipes /\ NULL \in 0..MaxPipes
  BY <1>1, Numbers DEF Pipes
<1>3. thread' \in [Callers -> Thread]
  BY <1>1, ThreadForms DEF Types, TypeOK
<1>4. /\ sess \in [Pipes -> Session] /\ pipes \in [Pipes -> Pipe] /\ pending \in Lists
      /\ reaper \in [Pipes -> {"none", "finish", "wait"}]
      /\ hurt \subseteq (Pipes \cup {NULL}) \X {"frame", "stop", "reaper", "early"}
  BY DEF Types, TypeOK
<1>5. \E v \in Session : sess' = [sess EXCEPT ![k] = v] /\ v.gone \in {sess[k].gone, 0}
  <2> DEFINE a == [sess[k] EXCEPT !.keep = FALSE]
             b == [sess[k] EXCEPT !.pipe = made + 1, !.keep = FALSE]
             c == [sess[k] EXCEPT !.pipe = NULL]
             d == [NoSession EXCEPT !.pipe = NULL, !.owner = "free"]
             e == [NoSession EXCEPT !.pipe = made + 1, !.owner = "free"]
  <2>1. /\ a \in Session /\ b \in Session /\ c \in Session
        /\ a.gone = sess[k].gone /\ b.gone = sess[k].gone /\ c.gone = sess[k].gone
    BY <1>2, <1>4, SessionForms
  <2>2. d \in Session /\ e \in Session /\ d.gone = 0 /\ e.gone = 0
    BY <1>2, SessionForms
  <2>3. \/ sess' = [sess EXCEPT ![k] = a] \/ sess' = [sess EXCEPT ![k] = b]
        \/ sess' = [sess EXCEPT ![k] = c] \/ sess' = [sess EXCEPT ![k] = d]
        \/ sess' = [sess EXCEPT ![k] = e]
    BY <1>4 DEF Reuse, ReuseSame, ReuseOther, ReuseFails, Restart
  <2> HIDE DEF a, b, c, d, e
  <2>4. QED BY <2>1, <2>2, <2>3
<1>6. sess' \in [Pipes -> Session] /\ \A j \in Pipes : sess'[j].gone \in {sess[j].gone, 0}
  BY <1>4, <1>5
<1>7. UNCHANGED <<vendor, single, chan, media, robbed, early>> /\ made' \in {made, made + 1}
  BY DEF Reuse, ReuseSame, ReuseOther, ReuseFails, Restart, historyVars
<1>8. pipes' \in [Pipes -> Pipe]
  <2>1. sess[k].pipe \in 0..MaxPipes
    BY <1>4 DEF Session
  <2>2. \/ pipes' = pipes
        \/ \E p \in 0..MaxPipes : pipes' = [pipes EXCEPT ![p] = NewPipe]
        \/ \E p \in 0..MaxPipes : pipes' = [pipes EXCEPT ![p] = Deleted]
    BY <1>2, <2>1 DEF Reuse, ReuseSame, ReuseOther, ReuseFails, Restart
  <2>3. QED BY <1>4, <2>2, PipeForms
<1>9. pending' \in Lists
  <2>1. pending' = pending \/ pending' = AddConnect(made + 1)
    BY DEF Reuse, ReuseSame, ReuseOther, ReuseFails, Restart
  <2>2. QED BY <1>2, <1>4, <2>1, ListForms
<1>10. reaper' \in [Pipes -> {"none", "finish", "wait"}]
  BY <1>4 DEF Reuse, ReuseSame, ReuseOther, ReuseFails, Restart
<1>11. hurt' \subseteq (Pipes \cup {NULL}) \X {"frame", "stop", "reaper", "early"}
  <2>1. sess[k].pipe \in Pipes \cup {NULL}
    BY <1>4, Numbers DEF Session
  <2>2. hurt' = hurt \/ hurt' = hurt \cup {<<sess[k].pipe, "early">>}
    BY DEF Reuse, ReuseSame, ReuseOther, ReuseFails, Restart, HurtIf, historyVars
  <2>3. QED BY <1>4, <2>1, <2>2
<1>12. TypeOK'
  BY <1>1, <1>2, <1>3, <1>6, <1>7, <1>8, <1>9, <1>10, <1>11 DEF Types, TypeOK
<1>13. QED BY <1>1, <1>6, <1>7, <1>12, ApiReturns DEF Types

LEMMA InitSessionTypes == ASSUME Types, InitSession PROVE Types'
<1>0. PICK p \in Pipes : p = made + 1
  BY Numbers DEF Types, TypeOK, Numbered, InitSession, Pipes
<1> DEFINE v == [NoSession EXCEPT !.pipe = p, !.owner = "free"]
           r == [pc |-> "add", k |-> p, starts |-> FALSE]
<1>1. /\ made < MaxPipes /\ made \in 0..MaxPipes /\ chan.bug = NULL /\ ~chan.hung
      /\ thread \in [Callers -> Thread] /\ sess \in [Pipes -> Session] /\ pending \in Lists
      /\ pipes \in [Pipes -> Pipe] /\ "api" \in Callers
  BY DEF Types, TypeOK, Numbered, InitSession, Callers
<1>2. p \in Pipes /\ p \in 0..MaxPipes /\ p > made /\ NULL # p
  BY <1>0, <1>1, Numbers DEF Pipes, NULL
<1>3. v \in Session /\ v.gone = 0
  BY <1>2, SessionForms
<1>4. r \in Thread /\ r.pc = "add" /\ r.k = p /\ ~r.starts
  BY <1>2, ThreadForms
<1>5. /\ made' = p /\ pipes' = [pipes EXCEPT ![p] = NewPipe] /\ pending' = AddConnect(p)
      /\ sess' = [sess EXCEPT ![p] = v] /\ thread' = [thread EXCEPT !["api"] = r]
      /\ UNCHANGED <<vendor, single, chan, media, reaper, hurt, robbed, early>>
  BY <1>0 DEF InitSession, historyVars
<1>6. \A n \in 0..made : n \in 0..p /\ n # p
  BY <1>0, <1>1, <1>2
<1>7. p \in 0..p /\ \A k \in Pipes : k > p => k > made
  BY <1>0, <1>1, <1>2, Numbers DEF Pipes
<1> HIDE DEF v, r
<1>8. \A u \in Callers : thread'[u] = IF u = "api" THEN r ELSE thread[u]
  BY <1>1, <1>5
<1>9. \A k \in Pipes : sess'[k] = IF k = p THEN v ELSE sess[k]
  BY <1>1, <1>5
<1>10. TypeOK'
  <2>1. sess' \in [Pipes -> Session] /\ pipes' \in [Pipes -> Pipe]
        /\ thread' \in [Callers -> Thread] /\ pending' \in Lists
    BY <1>1, <1>2, <1>3, <1>4, <1>5, PipeForms, ListForms
  <2>2. QED BY <1>2, <1>5, <2>1 DEF Types, TypeOK
<1>11. sess[p].gone = 0
  BY <1>2 DEF Types, Numbered
<1>12. \A k \in Pipes : sess'[k].gone = sess[k].gone
  BY <1>3, <1>9, <1>11
<1>13. Numbered'
  <2>1. /\ chan'.bug \in 0..made' /\ chan'.attached \in 0..made' /\ media'.k \in 0..made'
        /\ \A u \in Callers : thread'[u].k \in 0..made'
    BY <1>4, <1>5, <1>6, <1>7, <1>8 DEF Types, Numbered
  <2>2. \A u \in Callers : thread'[u].pc \in Stopping => thread'[u].k \in Pipes
    BY <1>4, <1>8 DEF Types, Numbered, Stopping
  <2>3. thread'["api"].k = p /\ ~thread'["api"].starts /\ thread'["api"].pc = "add"
    BY <1>1, <1>4, <1>8
  <2>4. Unknown(p)'
    <3>1. chan.bug # p /\ chan.attached # p /\ media.k # p /\ thread["hup"].k # p
      BY <1>6 DEF Types, Numbered, Callers
    <3>2. thread'["hup"].k = thread["hup"].k
      BY <1>8 DEF Callers
    <3>3. QED BY <1>2, <1>5, <1>11, <1>12, <3>1, <3>2 DEF Unknown
  <2>5. \A k \in Pipes : k > made' => sess'[k].gone = 0
    BY <1>5, <1>7, <1>12 DEF Types, Numbered
  <2>6. QED BY <2>1, <2>2, <2>3, <2>4, <2>5 DEF Numbered, Unknown
<1>14. HungUp'
  BY <1>4, <1>5, <1>8 DEF Types, HungUp, Stopping, Callers
<1>15. Counted'
  BY <1>4, <1>5, <1>8, <1>12 DEF Types, Counted, Stops, Stopping, Callers
<1>16. QED BY <1>10, <1>13, <1>14, <1>15 DEF Types

LEMMA AddTypes == ASSUME Types, AddBug PROVE Types'
<1> DEFINE k == thread["api"].k
<1>1. /\ thread \in [Callers -> Thread] /\ chan \in Channel /\ "api" \in Callers /\ "hup" \in Callers
      /\ thread' = [thread EXCEPT !["api"] = Idle]
      /\ UNCHANGED <<vendor, single, sess, made, pipes, pending, media, reaper, hurt, robbed, early>>
  BY DEF Types, TypeOK, AddBug, Callers, historyVars
<1>2. k \in Pipes /\ k \in 0..made /\ sess[k].gone = 0 /\ thread["hup"].k # k /\ NULL \notin Pipes
      /\ NULL \in 0..made
  BY Numbers DEF Types, TypeOK, Numbered, Unknown, AddBug, Callers, NULL
<1>3. Idle \in Thread /\ Idle.pc = "idle" /\ Idle.k = NULL /\ ~Idle.starts
  BY ThreadForms
<1>4. chan' \in Channel /\ chan'.hung = chan.hung
      /\ \/ chan'.bug = chan.bug /\ chan'.attached = chan.attached
         \/ ~chan.hung /\ chan'.bug = k /\ chan'.attached = k
  BY <1>1, <1>2, Numbers DEF AddBug, Channel
<1>5. \A u \in Callers : thread'[u] = IF u = "api" THEN Idle ELSE thread[u]
  BY <1>1
<1>6. TypeOK'
  BY <1>1, <1>3, <1>4 DEF Types, TypeOK
<1> HIDE DEF k
<1>7. Numbered'
  BY <1>1, <1>2, <1>3, <1>4, <1>5 DEF Types, Numbered, Stopping, Callers
<1>8. HungUp'
  BY <1>1, <1>2, <1>3, <1>4, <1>5 DEF Types, HungUp, Stopping, Callers
<1>9. Counted'
  BY <1>1, <1>2, <1>3, <1>4, <1>5 DEF Types, Counted, Stops, Stopping, Callers
<1>10. QED BY <1>6, <1>7, <1>8, <1>9 DEF Types

LEMMA HangupTypes == ASSUME Types, Hangup PROVE Types'
<1>1. /\ thread \in [Callers -> Thread] /\ chan \in Channel /\ "api" \in Callers /\ "hup" \in Callers
      /\ UNCHANGED <<vendor, single, sess, made, pipes, pending, media, reaper, hurt, robbed, early>>
      /\ ~chan.hung /\ media.pc = "idle"
  BY DEF Types, TypeOK, Hangup, Callers, historyVars
<1>2. NULL \notin Pipes /\ NULL \in 0..made
  BY Numbers DEF Types, TypeOK, NULL
<1>3. chan' \in Channel /\ chan'.hung /\ chan'.bug = chan.bug /\ chan'.attached = NULL
  BY <1>1, Numbers DEF Hangup, Channel
<1>4. thread' = thread \/ thread' = [thread EXCEPT !["hup"].pc = "find"]
  BY DEF Hangup
<1>5. /\ thread' \in [Callers -> Thread] /\ thread'["api"] = thread["api"]
      /\ thread'["hup"].k = thread["hup"].k /\ thread'["hup"].pc \in {"idle", "find"}
  BY <1>1, <1>4 DEF Thread, Types, HungUp
<1>6. TypeOK'
  BY <1>1, <1>3, <1>5 DEF Types, TypeOK
<1>7. Numbered'
  BY <1>1, <1>2, <1>3, <1>5 DEF Types, Numbered, Unknown, Stopping, Callers
<1>8. HungUp'
  BY <1>1, <1>2, <1>3, <1>5 DEF Types, HungUp, Stopping, Callers
<1>9. Counted'
  BY <1>1, <1>2, <1>3, <1>5 DEF Types, Counted, Stops, Stopping, Callers
<1>10. QED BY <1>6, <1>7, <1>8, <1>9 DEF Types

LEMMA StopTypes == ASSUME Types, NEW t \in Callers, StopNext(t) PROVE Types'
<1> DEFINE k == thread[t].k
<1>1. /\ thread \in [Callers -> Thread] /\ chan \in Channel /\ sess \in [Pipes -> Session]
      /\ pipes \in [Pipes -> Pipe] /\ pending \in Lists
      /\ reaper \in [Pipes -> {"none", "finish", "wait"}]
      /\ hurt \subseteq (Pipes \cup {NULL}) \X {"frame", "stop", "reaper", "early"}
  BY DEF Types, TypeOK
<1>2. thread[t].pc \in Stopping /\ k \in Pipes
  BY DEF Types, Numbered, StopNext, StopLocks, StopRemoves, StopReaps, StopDestroys, Stopping
<1>3. \A x \in Stopping : [thread EXCEPT ![t].pc = x] \in [Callers -> Thread]
  BY <1>1 DEF Thread, Stopping
<1>4. /\ Returned(t) \in Thread /\ Returned(t).pc \in {"idle", "init"} /\ Returned(t).k = NULL
      /\ ~Returned(t).starts /\ (Returned(t).pc = "init" => thread[t].starts)
  <2>1. Idle \in Thread /\ Idle.pc = "idle" /\ Idle.k = NULL /\ ~Idle.starts
        /\ [Idle EXCEPT !.pc = "init"] \in Thread
    BY ThreadForms
  <2>2. [Idle EXCEPT !.pc = "init"].k = NULL /\ ~[Idle EXCEPT !.pc = "init"].starts
        /\ [Idle EXCEPT !.pc = "init"].pc = "init"
    BY <2>1 DEF Thread
  <2>3. QED BY <2>1, <2>2 DEF Returned
<1>5. t = "hup" => chan.hung
  BY <1>2 DEF Types, HungUp, Stopping
<1>6. t = "api" /\ (Returned(t).starts \/ Returned(t).pc = "init") => made < MaxPipes
  BY <1>4 DEF Types, Numbered
<1>7. ASSUME StopLocks(t), StopOf[vendor].rechecks /\ chan.bug = NULL PROVE Types'
  <2>1. /\ thread' = [thread EXCEPT ![t] = Returned(t)]
        /\ UNCHANGED <<vendor, single, chan, sess, made, pipes, pending, media, reaper, hurt, robbed, early>>
    BY <1>7 DEF StopLocks, historyVars
  <2>2. thread' \in [Callers -> Thread]
    BY <1>1, <1>4, <2>1
  <2>3. TypeOK'
    BY <2>1, <2>2 DEF Types, TypeOK
  <2>4. Numbered' /\ HungUp' /\ Counted'
    BY <1>4, <1>5, <1>6, <2>1, CallKept
  <2>5. QED BY <2>3, <2>4 DEF Types
<1>8. ASSUME StopLocks(t), ~(StopOf[vendor].rechecks /\ chan.bug = NULL) PROVE Types'
  <2> DEFINE x == IF t = "api" THEN "remove" ELSE "reap"
             v == [sess[k] EXCEPT !.owner = t]
  <2>1. /\ thread' = [thread EXCEPT ![t].pc = x] /\ chan' = Forgotten
        /\ sess' = [sess EXCEPT ![k] = v] /\ x \in Stopping \ {"lock"}
        /\ UNCHANGED <<vendor, single, made, pipes, pending, media, reaper, hurt, robbed, early>>
    BY <1>8 DEF StopLocks, historyVars, Stopping
  <2>2. v \in Session /\ v.gone = sess[k].gone
    BY <1>1, <1>2 DEF Session
  <2> HIDE DEF x, v
  <2>3. sess' \in [Pipes -> Session] /\ \A j \in Pipes : sess'[j].gone = sess[j].gone
    BY <1>1, <1>2, <2>1, <2>2
  <2>4. chan' \in Channel /\ chan'.bug = NULL /\ chan'.attached = chan.attached /\ chan'.hung = chan.hung
    BY <1>1, <2>1, Numbers DEF Forgotten, Channel
  <2>5. thread' \in [Callers -> Thread]
    BY <1>3, <2>1
  <2>6. TypeOK'
    BY <2>1, <2>3, <2>4, <2>5 DEF Types, TypeOK
  <2>7. Numbered' /\ HungUp' /\ Counted'
    BY <1>2, <2>1, <2>3, <2>4, StopKept
  <2>8. QED BY <2>6, <2>7 DEF Types
<1>9. ASSUME t = "api", StopRemoves PROVE Types'
  <2>1. /\ thread' = [thread EXCEPT ![t].pc = "reap"] /\ chan' = Detached
        /\ UNCHANGED <<vendor, single, sess, made, pipes, pending, media, reaper, hurt, robbed, early>>
        /\ "reap" \in Stopping \ {"lock"}
    BY <1>9 DEF StopRemoves, historyVars, Stopping
  <2>2. chan' \in Channel /\ chan'.bug = chan.bug /\ chan'.attached = NULL /\ chan'.hung = chan.hung
    BY <1>1, <2>1, Numbers DEF Detached, Channel
  <2>3. chan.bug = NULL
    BY <1>9 DEF StopRemoves, Types, HungUp, Stopping
  <2>4. thread' \in [Callers -> Thread]
    BY <1>3, <2>1
  <2>5. TypeOK'
    BY <2>1, <2>2, <2>4 DEF Types, TypeOK
  <2>6. Numbered' /\ HungUp' /\ Counted'
    BY <1>2, <2>1, <2>2, <2>3, StopKept
  <2>7. QED BY <2>5, <2>6 DEF Types
<1>10. ASSUME StopReaps(t) PROVE Types'
  <2> DEFINE p == sess[k].pipe
             v == [sess[k] EXCEPT !.pipe = NULL, !.owner = "free"]
  <2>1. /\ thread' = [thread EXCEPT ![t].pc = "destroy"] /\ sess' = [sess EXCEPT ![k] = v]
        /\ UNCHANGED <<vendor, single, chan, made, media, robbed, early>>
        /\ "destroy" \in Stopping \ {"lock"}
    BY <1>1, <1>2, <1>10 DEF StopReaps, WithoutPipe, Stopping
  <2>2. v \in Session /\ v.gone = sess[k].gone /\ p \in 0..MaxPipes
    <3>1. \A r \in Session : LET q == [r EXCEPT !.pipe = NULL, !.owner = "free"] IN
            q \in Session /\ q.gone = r.gone /\ r.pipe \in 0..MaxPipes
      BY Numbers DEF Session
    <3>2. sess[k] \in Session
      BY <1>1, <1>2
    <3>3. QED BY <3>1, <3>2
  <2>3. /\ pipes' \in [Pipes -> Pipe] /\ pending' \in Lists
        /\ reaper' \in [Pipes -> {"none", "finish", "wait"}]
        /\ hurt' \subseteq (Pipes \cup {NULL}) \X {"frame", "stop", "reaper", "early"}
    <3>1. CASE p = NULL
      BY <1>1, <1>10, <3>1 DEF StopReaps
    <3>2. CASE p # NULL /\ StopOf[vendor].reaps
      <4>1. p \in Pipes
        BY <2>2, <3>2, Numbers
      <4>2. /\ reaper' = [reaper EXCEPT ![p] = "finish"] /\ UNCHANGED <<pipes, pending>>
            /\ (hurt' = hurt \/ hurt' = hurt \cup {<<p, "stop">>})
        BY <1>10, <3>2 DEF StopReaps, HurtIf
      <4>3. QED BY <1>1, <4>1, <4>2
    <3>3. CASE p # NULL /\ ~StopOf[vendor].reaps
      <4>1. p \in Pipes
        BY <2>2, <3>3, Numbers
      <4>2. Finish(p) /\ reaper' = reaper /\ (hurt' = hurt \/ hurt' = hurt \cup {<<p, "stop">>})
        BY <1>10, <3>3 DEF StopReaps, HurtIf
      <4>3. QED BY <1>1, <4>1, <4>2, FinishTypes
    <3>4. QED BY <3>1, <3>2, <3>3
  <2> HIDE DEF v
  <2>4. sess' \in [Pipes -> Session] /\ \A j \in Pipes : sess'[j].gone = sess[j].gone
    BY <1>1, <1>2, <2>1, <2>2
  <2>5. chan.bug = NULL
    BY <1>10 DEF StopReaps, Types, HungUp, Stopping
  <2>6. thread' \in [Callers -> Thread]
    BY <1>3, <2>1
  <2>7. TypeOK'
    BY <2>1, <2>3, <2>4, <2>6 DEF Types, TypeOK
  <2>8. Numbered' /\ HungUp' /\ Counted'
    BY <1>2, <2>1, <2>4, <2>5, StopKept
  <2>9. QED BY <2>7, <2>8 DEF Types
<1>11. ASSUME StopDestroys(t) PROVE Types'
  <2> DEFINE v == [sess[k] EXCEPT !.gone = @ + 1]
             r == Returned(t)
  <2>1. /\ thread' = [thread EXCEPT ![t] = r] /\ sess' = [sess EXCEPT ![k] = v]
        /\ UNCHANGED <<vendor, single, chan, made, pipes, pending, media, reaper, hurt, robbed, early>>
    BY <1>11 DEF StopDestroys, historyVars
  <2>2. chan.bug = NULL /\ sess[k].gone \in {0, 1} /\ thread[t].pc = "destroy"
    <3>1. chan.bug = NULL /\ Stops(t, k) /\ thread[t].pc = "destroy"
      BY <1>2, <1>11 DEF StopDestroys, Types, HungUp, Stopping, Stops
    <3>2. sess[k].gone <= 1 /\ sess[k].gone \in 0..2
      BY <1>1, <1>2, <3>1 DEF Types, Counted, Session
    <3>3. QED BY <3>1, <3>2
  <2>3. v \in Session /\ v.gone = sess[k].gone + 1
    BY <1>1, <1>2, <2>2 DEF Session
  <2> HIDE DEF v, r
  <2>4. /\ sess' \in [Pipes -> Session]
        /\ \A j \in Pipes : sess'[j].gone = IF j = k THEN sess[k].gone + 1 ELSE sess[j].gone
    BY <1>1, <1>2, <2>1, <2>3
  <2>5. \A u \in Callers : thread'[u] = IF u = t THEN r ELSE thread[u]
    BY <1>1, <2>1
  <2>6. r \in Thread /\ r.pc \in {"idle", "init"} /\ r.k = NULL /\ ~r.starts
        /\ (r.pc = "init" => thread[t].starts)
    BY <1>4 DEF r
  <2>7. TypeOK'
    BY <1>1, <2>1, <2>4, <2>6 DEF Types, TypeOK
  <2>8. NULL \in 0..made /\ NULL \notin Pipes /\ k \in 0..made /\ made \in 0..MaxPipes
    BY Numbers DEF Types, TypeOK, Numbered, NULL
  <2>9. Numbered'
    <3>1. /\ chan'.bug \in 0..made' /\ chan'.attached \in 0..made' /\ media'.k \in 0..made'
          /\ \A u \in Callers : thread'[u].k \in 0..made'
      BY <2>1, <2>5, <2>6, <2>8 DEF Types, Numbered
    <3>2. \A u \in Callers : thread'[u].pc \in Stopping => thread'[u].k \in Pipes
      BY <2>5, <2>6 DEF Types, Numbered, Stopping
    <3>3. thread'["api"].pc = "add" => Unknown(thread["api"].k)' /\ thread'["api"].k = thread["api"].k
      <4>1. CASE t = "api"
        BY <2>5, <2>6, <4>1 DEF Callers
      <4>2. CASE t = "hup"
        <5>1. thread'["api"] = thread["api"] /\ thread'["hup"].k = NULL
          BY <2>5, <2>6, <4>2 DEF Callers
        <5>2. thread["api"].pc = "add" => Unknown(thread["api"].k) /\ thread["api"].k # k
          BY <4>2 DEF Types, Numbered, Unknown
        <5>3. QED BY <2>1, <2>4, <2>8, <5>1, <5>2 DEF Unknown
      <4>3. QED BY <4>1, <4>2 DEF Callers
    <3>4. thread'["api"].starts \/ thread'["api"].pc = "init" => made' < MaxPipes
      BY <2>1, <2>5, <2>6 DEF Types, Numbered, Callers
    <3>5. \A j \in Pipes : j > made' => sess'[j].gone = 0
      <4>1. \A j \in Pipes : j > made => j # k
        BY <2>8 DEF Pipes
      <4>2. QED BY <2>1, <2>4, <4>1 DEF Types, Numbered
    <3>6. QED BY <3>1, <3>2, <3>3, <3>4, <3>5 DEF Numbered, Unknown
  <2>10. HungUp'
    BY <1>5, <2>1, <2>2, <2>5, <2>6 DEF Types, HungUp, Stopping, Callers
  <2>11. Counted'
    <3>1. \A j \in Pipes : ~(Stops(t, j)')
      BY <2>5, <2>6 DEF Stops, Stopping
    <3>2. \A j \in Pipes, u \in Callers : Stops(u, j)' => Stops(u, j) /\ u # t
      BY <2>5, <3>1 DEF Stops
    <3>3. Stops(t, k)
      BY <1>2 DEF Stops
    <3>4. \A u \in Callers : u # t /\ Stops(u, k) => sess[k].gone = 0
      BY <1>2, <3>3 DEF Types, Counted, Callers
    <3>5. \A j \in Pipes, u \in Callers : Stops(u, j)' => sess'[j].gone <= 1
      BY <2>4, <3>2, <3>4 DEF Types, Counted
    <3>6. \A j \in Pipes : ~((Stops("api", j) /\ Stops("hup", j))')
      BY <3>2 DEF Callers
    <3>7. chan'.bug = NULL /\ NULL \notin Pipes
      BY <2>1, <2>2, Numbers
    <3>8. QED BY <3>5, <3>6, <3>7 DEF Counted
  <2>12. QED BY <2>7, <2>9, <2>10, <2>11 DEF Types
<1>12. QED BY <1>7, <1>8, <1>9, <1>10, <1>11 DEF StopNext

LEMMA NextTypes == Types /\ [Next]_vars => Types'
<1> SUFFICES ASSUME Types, [Next]_vars PROVE Types'
  OBVIOUS
<1>1. CASE UNCHANGED vars
  BY <1>1 DEF vars, Types, TypeOK, Numbered, HungUp, Counted, Unknown, Stops
<1>2. CASE Next
  BY <1>2, StartTypes, InitFailsTypes, InitSessionTypes, AddTypes, ReuseTypes, HangupTypes,
     StopTypes, EnterTypes, FrameTypes, WaitTypes, ReaperTypes, ServiceTypes DEF Next, ApiNext
<1>3. QED BY <1>1, <1>2

\* Every variable keeps its type, for any of the vendors and any number of pipes.
\* That a session's mutex is destroyed at most twice is no matter of form: a
\* stop by command and the hang-up may both have found the bug, the second
\* stops what the first has finished, and nobody finds it after them.
THEOREM TypeCorrect == Spec => []TypeOK
<1>1. Types => TypeOK
  BY DEF Types
<1>2. QED BY <1>1, InitTypes, NextTypes, PTL DEF Spec

-----------------------------------------------------------------------------
(* Deleted pipes and destroyed mutexes: the service thread and the reapers. *)

LEMMA ClaimedForms ==
  ASSUME Types, Claimed
  PROVE  ~LinkOf[vendor].deletes /\ ~FinishOf[vendor].remembers /\ StopOf[vendor].reaps
<1>1. vendor \in {"deepgram", "jambonz", "assemblyai", "aws"}
  BY ConstantsAssumption DEF Types, TypeOK, Claimed, AllVendors
<1>2. /\ ~LinkOf["deepgram"].deletes /\ ~LinkOf["jambonz"].deletes
      /\ ~LinkOf["assemblyai"].deletes /\ ~LinkOf["aws"].deletes
  BY DEF LinkOf, DeepgramLink, JambonzLink, AssemblyaiLink, AwsLink
<1>3. /\ ~FinishOf["deepgram"].remembers /\ ~FinishOf["jambonz"].remembers
      /\ ~FinishOf["assemblyai"].remembers /\ ~FinishOf["aws"].remembers
  BY DEF FinishOf, DeepgramFinish, JambonzFinish, AssemblyaiFinish, AwsFinish
<1>4. /\ StopOf["deepgram"].reaps /\ StopOf["jambonz"].reaps
      /\ StopOf["assemblyai"].reaps /\ StopOf["aws"].reaps
  BY DEF StopOf, DeepgramStop, JambonzStop, AssemblyaiStop, AwsStop
<1>5. QED BY <1>1, <1>2, <1>3, <1>4

\* Steps that delete no pipe and take pipes from sessions at most.
LEMMA SoundKept ==
  ASSUME Types, Sound, UNCHANGED <<chan, made, thread, media, reaper, hurt>>,
         \A k \in Pipes : /\ sess'[k].gone = sess[k].gone /\ sess'[k].keep = sess[k].keep
                          /\ sess'[k].owner = sess[k].owner
                          /\ sess'[k].pipe \in {sess[k].pipe, NULL},
         \A k \in Pipes : pipes'[k].st = "deleted" => pipes[k].st = "deleted"
  PROVE  Sound'
<1>1. Pointers'
  BY DEF Sound, Pointers, IsDeleted
<1>2. Mutexes'
  <2>1. \A t \in Callers : thread[t].pc \in {"remove", "reap"} => thread[t].k \in Pipes
    BY DEF Types, Numbered, Stopping
  <2>2. media.pc = "write" => media.k \in Pipes
    BY DEF Types, HungUp
  <2>3. QED BY <2>1, <2>2 DEF Sound, Mutexes, IsDeleted
<1>3. Detaches'
  BY DEF Sound, Detaches
<1>4. QED BY <1>1, <1>2, <1>3 DEF Sound

LEMMA ServiceSound ==
  ASSUME Types, Sound, Claimed, WaitCancelled \/ \E p \in Pipes : ServiceNext(p)
  PROVE  Sound'
<1>1. pipes \in [Pipes -> Pipe]
  BY DEF Types, TypeOK
<1>2. ASSUME WaitCancelled PROVE Sound'
  <2>1. \A r \in Pipe : /\ [r EXCEPT !.st = "connecting"].st = "connecting"
                        /\ [r EXCEPT !.wanted = TRUE].st = r.st
    BY DEF Pipe
  <2>2. \A p \in Pipes : pipes'[p] \in {pipes[p], [pipes[p] EXCEPT !.st = "connecting"],
                                       [pipes[p] EXCEPT !.wanted = TRUE]}
    BY <1>2 DEF WaitCancelled
  <2>3. \A p \in Pipes : pipes'[p].st = "deleted" => pipes[p].st = "deleted"
    BY <1>1, <2>1, <2>2
  <2>4. UNCHANGED <<chan, made, thread, media, reaper, hurt, sess>>
    BY <1>2 DEF WaitCancelled, historyVars
  <2>5. QED BY <2>3, <2>4, SoundKept
<1>3. ASSUME NEW p \in Pipes, ConnectionError(p) PROVE Sound'
  <2>1. \A q \in Pipes : pipes'[q].st = "deleted" => pipes[q].st = "deleted"
    BY <1>1, <1>3 DEF ConnectionError, Pipe
  <2>2. TakesPipe(p, FALSE) /\ UNCHANGED <<chan, made, thread, media, reaper, hurt>>
    BY <1>3 DEF ConnectionError
  <2>3. QED BY <2>1, <2>2, TakesPipeEffect, SoundKept
<1>4. ASSUME NEW p \in Pipes, Closed(p) \/ WriteEnd(p) PROVE Sound'
  <2>1. End(p) /\ UNCHANGED <<chan, made, thread, media, reaper, hurt>>
    BY <1>4 DEF Closed, WriteEnd
  <2>2. PICK o \in BOOLEAN : TakesPipe(p, o)
    BY <2>1, EndTypes
  <2>3. Ended(p).st = "closed"
    BY ClaimedForms DEF Ended, NoPipe
  <2>4. \A q \in Pipes : pipes'[q].st = "deleted" => pipes[q].st = "deleted"
    BY <1>1, <2>1, <2>3 DEF End
  <2>5. QED BY <2>1, <2>2, <2>4, TakesPipeEffect, SoundKept
<1>5. ASSUME NEW p \in Pipes, Established(p) PROVE Sound'
  <2>1. \A q \in Pipes : pipes'[q].st = "deleted" => pipes[q].st = "deleted"
    <3>1. CASE LinkOf[vendor].quits /\ pipes[p].finished
      BY <1>1, <1>5, <3>1 DEF Established, Pipe
    <3>2. CASE ~(LinkOf[vendor].quits /\ pipes[p].finished)
      <4> DEFINE up == [pipes EXCEPT ![p].st = "connected"]
      <4>1. \A q \in Pipes : pipes'[q] \in {WithText(up[q], "other"), up[q]}
        BY <1>5, <3>2 DEF Established
      <4>2. up \in [Pipes -> Pipe] /\ \A q \in Pipes : up[q].st = "deleted" => pipes[q].st = "deleted"
        BY <1>1, PipeForms DEF States
      <4> HIDE DEF up
      <4>3. \A q \in Pipes : WithText(up[q], "other").st = up[q].st
        <5>1. "other" \in Texts
          BY DEF Texts
        <5>2. QED BY <4>2, <5>1, TextForms
      <4>4. QED BY <4>1, <4>2, <4>3
    <3>3. QED BY <3>1, <3>2
  <2>2. UNCHANGED <<chan, made, thread, media, reaper, hurt, sess>>
    BY <1>5 DEF Established, historyVars
  <2>3. QED BY <2>1, <2>2, SoundKept
<1>6. ASSUME NEW p \in Pipes, Receive(p) \/ WriteText(p) \/ WriteAudio(p) PROVE Sound'
  <2>1. \A q \in Pipes : pipes'[q].st = "deleted" => pipes[q].st = "deleted"
    BY <1>1, <1>6 DEF Receive, WriteText, WriteAudio, Pipe
  <2>2. UNCHANGED <<chan, made, thread, media, reaper, hurt, sess>>
    BY <1>6 DEF Receive, WriteText, WriteAudio, historyVars
  <2>3. QED BY <2>1, <2>2, SoundKept
<1>7. QED BY <1>2, <1>3, <1>4, <1>5, <1>6 DEF ServiceNext, Writeable

LEMMA ReaperSound ==
  ASSUME Types, Sound, Claimed, NEW p \in Pipes, ReaperNext(p)
  PROVE  Sound'
<1>1. pipes \in [Pipes -> Pipe] /\ reaper \in [Pipes -> {"none", "finish", "wait"}]
  BY DEF Types, TypeOK
<1>2. /\ reaper[p] # "none" /\ sess[p].pipe = NULL /\ ~IsDeleted(p)
      /\ ~(media.pc = "write" /\ media.k = p)
  BY DEF Sound, Pointers, Mutexes, ReaperNext, ReaperFinishes, ReaperDeletes
<1>3. UNCHANGED <<chan, made, thread, media, sess>>
  BY DEF ReaperNext, ReaperFinishes, ReaperDeletes
<1>4. p <= made
  BY <1>2 DEF Sound, Pointers, Pipes, Types, TypeOK
<1>5. /\ hurt' = {}
      /\ \A q \in Pipes : q # p => pipes'[q].st = pipes[q].st /\ reaper'[q] = reaper[q]
      /\ pipes'[p].st = "deleted" => reaper'[p] = "none"
  <2>1. CASE ReaperFinishes(p)
    <3>1. \A q \in Pipes : pipes'[q].st = pipes[q].st
      BY <2>1, FinishTypes DEF ReaperFinishes
    <3>2. QED BY <1>1, <1>2, <2>1, <3>1 DEF ReaperFinishes, HurtIf, IsDeleted, Sound
  <2>2. CASE ReaperDeletes(p)
    BY <1>1, <2>2, PipeForms DEF ReaperDeletes, HurtIf, HasClosed, Sound
  <2>3. QED BY <2>1, <2>2 DEF ReaperNext
<1>6. Pointers'
  <2>1. \A k \in Pipes : k > made => k # p
    BY <1>4 DEF Pipes, Types, TypeOK
  <2>2. QED BY <1>2, <1>3, <1>5, <2>1 DEF Sound, Pointers, IsDeleted
<1>7. Mutexes'
  <2>1. media.pc = "write" => media.k \in Pipes
    BY DEF Types, HungUp
  <2>2. QED BY <1>2, <1>3, <1>5, <2>1 DEF Sound, Mutexes, IsDeleted
<1>8. Detaches'
  BY <1>3 DEF Sound, Detaches
<1>9. QED BY <1>5, <1>6, <1>7, <1>8 DEF Sound

-----------------------------------------------------------------------------
(* The media thread.                                                       *)

LEMMA FrameSound ==
  ASSUME Types, Sound, FrameEnters \/ FrameGoesOn
  PROVE  Sound'
<1>1. /\ sess \in [Pipes -> Session] /\ media \in Media /\ pipes \in [Pipes -> Pipe]
      /\ \A t \in Callers : thread[t].pc \in {"remove", "reap"} =>
           thread[t].k \in Pipes /\ sess[thread[t].k].owner = t
  BY DEF Types, TypeOK, Numbered, Stopping, Sound, Mutexes
<1>2. NoFrame.pc = "idle" /\ NoFrame.k = NULL /\ NULL \notin Pipes /\ "media" \notin Callers
      /\ "free" \notin Callers
  BY Numbers DEF NoFrame, Callers
<1>3. media.pc # "ping"
  BY DEF Sound, Mutexes
<1>4. CASE FrameEnters
  <2>1. chan.attached \in Pipes
    BY <1>4, Numbers DEF FrameEnters, Types, TypeOK, Channel
  <2>2. media' = [pc |-> "enter", k |-> chan.attached, p |-> NULL]
    BY <1>4, <2>1 DEF FrameEnters, Sound, Pointers
  <2>3. UNCHANGED <<chan, sess, made, pipes, thread, reaper, hurt>>
    BY <1>4 DEF FrameEnters, historyVars
  <2>4. media'.pc = "enter" /\ media'.k = chan.attached
    BY <2>2
  <2>5. Pointers'
    BY <2>3 DEF Sound, Pointers, IsDeleted
  <2>6. Mutexes'
    BY <2>3, <2>4 DEF Sound, Mutexes
  <2>7. Detaches'
    BY <2>1, <2>3, <2>4, <1>2 DEF Sound, Detaches
  <2>8. QED BY <2>3, <2>5, <2>6, <2>7 DEF Sound
<1>5. CASE FrameGivesUp
  <2>1. media' = NoFrame /\ UNCHANGED <<chan, sess, made, pipes, thread, reaper, hurt>>
    BY <1>5 DEF FrameGivesUp, historyVars
  <2>2. QED BY <1>2, <2>1 DEF Sound, Pointers, Mutexes, Detaches, IsDeleted
<1>6. CASE FrameLocks
  <2> DEFINE k == media.k
             p == sess[k].pipe
  <2>1. k \in Pipes /\ sess[k].owner = "free" /\ media.pc = "enter"
    BY <1>6 DEF FrameLocks, Types, HungUp
  <2>2. p \in {NULL, k} /\ (p = k => reaper[k] = "none" /\ ~IsDeleted(k)) /\ sess[k].gone = 0
    <3>1. sess[k].gone \in 0..2
      BY <1>1, <2>1 DEF Session
    <3>2. ~(sess[k].gone > 0)
      BY <2>1 DEF Sound, Detaches
    <3>3. sess[k].gone = 0
      BY <3>1, <3>2
    <3>4. QED BY <1>2, <2>1, <3>3 DEF Sound, Pointers
  <2>3. hurt' = {}
    BY <1>2, <1>6, <2>1, <2>2 DEF FrameLocks, Sound
  <2>4. \/ media' = NoFrame /\ sess' = sess
        \/ /\ p # NULL /\ media' = [media EXCEPT !.pc = "write", !.p = p]
           /\ sess' = [sess EXCEPT ![k].owner = "media"]
    BY <1>6 DEF FrameLocks
  <2>5. k = media.k
    OBVIOUS
  <2> HIDE DEF k, p
  <2>6. /\ media'.pc \in {"idle", "write"} /\ media'.k \in {k, NULL}
        /\ media'.pc = "write" => media'.k = k /\ media'.p = k /\ p = k /\ sess'[k].owner = "media"
    <3>1. /\ [media EXCEPT !.pc = "write", !.p = p].pc = "write"
          /\ [media EXCEPT !.pc = "write", !.p = p].k = k
          /\ [media EXCEPT !.pc = "write", !.p = p].p = p
      BY <1>1, <2>5 DEF Media
    <3>2. [sess EXCEPT ![k].owner = "media"][k].owner = "media"
      BY <1>1, <2>1 DEF Session
    <3>3. QED BY <1>2, <2>1, <2>2, <2>4, <3>1, <3>2
  <2>7. \A j \in Pipes : /\ sess'[j].pipe = sess[j].pipe /\ sess'[j].keep = sess[j].keep
                         /\ sess'[j].gone = sess[j].gone
                         /\ j # k => sess'[j].owner = sess[j].owner
    BY <1>1, <2>1, <2>4 DEF Session
  <2>8. UNCHANGED <<chan, made, pipes, thread, reaper>>
    BY <1>6 DEF FrameLocks
  <2>9. Pointers'
    BY <2>7, <2>8 DEF Sound, Pointers, IsDeleted
  <2>10. Mutexes'
    <3>1. \A t \in Callers : thread[t].pc \in {"remove", "reap"} => thread[t].k # k
      BY <1>1, <1>2, <2>1
    <3>2. QED BY <1>1, <2>2, <2>6, <2>7, <2>8, <3>1 DEF Mutexes, IsDeleted
  <2>11. Detaches'
    BY <1>2, <2>1, <2>2, <2>6, <2>7, <2>8 DEF Sound, Detaches
  <2>12. QED BY <2>3, <2>9, <2>10, <2>11 DEF Sound
<1>7. CASE FrameWrites
  <2> DEFINE k == media.k
  <2>1. k \in Pipes /\ sess[k].owner = "media" /\ media.p = k /\ ~IsDeleted(k)
    BY <1>7 DEF FrameWrites, Types, HungUp, Sound, Mutexes
  <2>2. hurt' = {}
    BY <1>7, <2>1 DEF FrameWrites, HurtIf, Sound
  <2>3. sess' = [sess EXCEPT ![k].owner = IF @ = "media" THEN "free" ELSE @]
    BY <1>7 DEF FrameWrites
  <2>4. \A j \in Pipes : /\ sess'[j].pipe = sess[j].pipe /\ sess'[j].keep = sess[j].keep
                         /\ sess'[j].gone = sess[j].gone
                         /\ j # k => sess'[j].owner = sess[j].owner
    <3> HIDE DEF k
    <3>1. QED BY <1>1, <2>1, <2>3 DEF Session
  <2>5. UNCHANGED <<chan, made, pipes, thread, reaper>> /\ media' = NoFrame
    BY <1>7 DEF FrameWrites
  <2> HIDE DEF k
  <2>6. Pointers'
    BY <2>4, <2>5 DEF Sound, Pointers, IsDeleted
  <2>7. Mutexes'
    <3>1. \A t \in Callers : thread[t].pc \in {"remove", "reap"} => thread[t].k # k
      BY <1>1, <1>2, <2>1
    <3>2. QED BY <1>1, <1>2, <2>4, <2>5, <3>1 DEF Mutexes
  <2>8. Detaches'
    BY <1>2, <2>1, <2>4, <2>5 DEF Sound, Detaches
  <2>9. QED BY <2>2, <2>6, <2>7, <2>8 DEF Sound
<1>8. QED BY <1>3, <1>4, <1>5, <1>6, <1>7 DEF FrameGoesOn, FramePings

-----------------------------------------------------------------------------
(* Starts and stops.                                                       *)

\* A step of a start makes at most one pipe, which nobody has seen before.
LEMMA ApiSound ==
  ASSUME Types, Sound, Claimed, ApiNext
  PROVE  Sound'
<1>1. /\ thread \in [Callers -> Thread] /\ sess \in [Pipes -> Session] /\ pipes \in [Pipes -> Pipe]
      /\ "api" \in Callers /\ "hup" \in Callers /\ made \in 0..MaxPipes
  BY DEF Types, TypeOK, Callers
<1>2. /\ Idle.pc = "idle" /\ [Idle EXCEPT !.pc = "init"].pc = "init"
      /\ [Idle EXCEPT !.pc = "lock", !.k = chan.bug].pc = "lock"
  BY DEF Idle
<1>3. /\ \A t \in Callers : thread[t].pc \in {"remove", "reap"} => thread[t].k \in 0..made \cap Pipes
      /\ media.pc = "write" => media.k \in 0..made \cap Pipes
  BY DEF Types, Numbered, HungUp, Stopping
<1>4. ASSUME UNCHANGED <<sess, made, pipes, media, reaper, hurt>>,
             chan'.attached = chan.attached \/ (~chan.hung /\ Unknown(chan'.attached)),
             NEW x \in {"idle", "init", "lock"}, thread'["api"].pc = x,
             x = "init" => chan'.bug = NULL, thread'["hup"] = thread["hup"]
      PROVE  Sound'
  <2>1. Pointers'
    BY <1>4 DEF Sound, Pointers, IsDeleted
  <2>2. Mutexes'
    BY <1>4 DEF Sound, Mutexes, Callers, IsDeleted
  <2>3. Detaches'
    BY <1>4, ConstantsAssumption DEF Sound, Detaches, Unknown
  <2>4. QED BY <1>4, <2>1, <2>2, <2>3 DEF Sound
<1>5. ASSUME StartCapture PROVE Sound'
  <2> DEFINE r == IF chan.bug # NULL /\ ~single THEN [pc |-> "lock", k |-> chan.bug, starts |-> TRUE]
                  ELSE [Idle EXCEPT !.pc = "init"]
  <2>1. thread' = [thread EXCEPT !["api"] = r]
    BY <1>5 DEF StartCapture
  <2>2. r.pc \in {"init", "lock"} /\ (r.pc = "init" => chan.bug = NULL)
    BY <1>2 DEF Claimed
  <2> HIDE DEF r
  <2>3. thread'["api"] = r /\ thread'["hup"] = thread["hup"]
    BY <1>1, <2>1
  <2>4. UNCHANGED <<chan, sess, made, pipes, media, reaper, hurt>>
    BY <1>5 DEF StartCapture, historyVars
  <2>5. QED BY <1>4, <2>2, <2>3, <2>4
<1>6. ASSUME StopCommand PROVE Sound'
  <2>1. /\ thread' = [thread EXCEPT !["api"] = [Idle EXCEPT !.pc = "lock", !.k = chan.bug]]
        /\ UNCHANGED <<chan, sess, made, pipes, media, reaper, hurt>>
    BY <1>6 DEF StopCommand, Claimed, historyVars
  <2>2. thread'["api"].pc = "lock" /\ thread'["hup"] = thread["hup"]
    BY <1>1, <1>2, <2>1
  <2>3. QED BY <1>4, <2>1, <2>2
<1>7. ASSUME AddBug PROVE Sound'
  <2>1. thread'["api"].pc = "idle" /\ thread'["hup"] = thread["hup"]
        /\ UNCHANGED <<sess, made, pipes, media, reaper, hurt>>
    BY <1>1, <1>2, <1>7 DEF AddBug, historyVars
  <2>2. chan \in Channel /\ Unknown(thread["api"].k)
    BY <1>7 DEF AddBug, Types, TypeOK, Numbered
  <2>3. chan'.attached = chan.attached \/ (~chan.hung /\ chan'.attached = thread["api"].k)
    BY <1>7, <2>2 DEF AddBug, Channel
  <2>4. Unknown(chan'.attached) \/ chan'.attached = chan.attached
    BY <2>2, <2>3
  <2>5. QED BY <1>4, <2>1, <2>3, <2>4
<1>8. ASSUME InitFails \/ InitSession, made' # made PROVE Sound'
  <2>1. PICK p \in Pipes : p = made + 1
    <3>1. made < MaxPipes
      BY <1>8 DEF Types, Numbered, InitFails, InitSession
    <3>2. QED BY <1>1, <3>1, Numbers DEF Pipes
  <2>2. /\ p > made /\ p \notin 0..made /\ \A k \in Pipes : k > p => k > made
    BY <1>1, <2>1 DEF Pipes
  <2>3. /\ made' = p /\ UNCHANGED <<chan, media, reaper, hurt>>
        /\ thread'["api"].pc \in {"idle", "add"} /\ thread'["hup"] = thread["hup"]
    BY <1>1, <1>2, <1>8, <2>1 DEF InitFails, InitSession, historyVars
  <2>4. /\ \A k \in Pipes : k # p => sess'[k] = sess[k] /\ pipes'[k] = pipes[k]
        /\ \/ sess'[p] = sess[p]
           \/ /\ sess'[p].pipe = p /\ ~sess'[p].keep /\ sess'[p].gone = 0
              /\ pipes'[p].st # "deleted"
    <3>1. CASE InitFails
      BY <1>1, <1>8, <2>1, <3>1 DEF InitFails
    <3>2. CASE InitSession
      <4> DEFINE v == [NoSession EXCEPT !.pipe = p, !.owner = "free"]
      <4>1. sess' = [sess EXCEPT ![p] = v] /\ pipes' = [pipes EXCEPT ![p] = NewPipe]
        BY <2>1, <3>2 DEF InitSession
      <4>2. v.pipe = p /\ ~v.keep /\ v.gone = 0
        <5>1. p \in 0..MaxPipes
          BY Numbers
        <5>2. \A q \in 0..MaxPipes : LET r == [NoSession EXCEPT !.pipe = q, !.owner = "free"] IN
                r.gone = 0 /\ r.pipe = q /\ ~r.keep
          BY SessionForms
        <5>3. QED BY <5>1, <5>2
      <4> HIDE DEF v
      <4>3. QED BY <1>1, <4>1, <4>2, PipeForms
    <3>3. QED BY <1>8, <3>1, <3>2
  <2>5. sess[p].pipe = NULL /\ reaper[p] = "none" /\ sess[p].gone = 0 /\ ~sess[p].keep
    BY <2>2 DEF Sound, Pointers, Types, Numbered
  <2>6. Pointers'
    <3>1. \A k \in Pipes : ~sess'[k].keep /\ sess'[k].pipe \in {NULL, k}
      BY <2>4, <2>5 DEF Sound, Pointers
    <3>2. \A k \in Pipes : k > made' => sess'[k].pipe = NULL /\ reaper'[k] = "none"
      BY <2>2, <2>3, <2>4 DEF Sound, Pointers, Pipes
    <3>3. \A k \in Pipes : reaper'[k] # "none" => sess'[k].pipe = NULL
      BY <2>3, <2>4, <2>5 DEF Sound, Pointers
    <3>4. \A k \in Pipes : pipes'[k].st = "deleted" => sess'[k].pipe = NULL /\ reaper'[k] = "none"
      BY <2>3, <2>4, <2>5 DEF Sound, Pointers, IsDeleted
    <3>5. QED BY <2>3, <3>1, <3>2, <3>3, <3>4 DEF Pointers, IsDeleted
  <2>7. Mutexes'
    BY <1>3, <2>2, <2>3, <2>4 DEF Sound, Mutexes, IsDeleted, Callers
  <2>8. Detaches'
    BY <2>3, <2>4, <2>5 DEF Sound, Detaches
  <2>9. QED BY <2>3, <2>6, <2>7, <2>8 DEF Sound
<1>9. ASSUME InitFails \/ InitSession, made' = made PROVE Sound'
  <2>1. /\ UNCHANGED <<chan, sess, made, pipes, media, reaper, hurt>>
        /\ thread' = [thread EXCEPT !["api"] = Idle]
    BY <1>1, <1>9 DEF InitFails, InitSession, historyVars
  <2>2. thread'["api"].pc = "idle" /\ thread'["hup"] = thread["hup"]
    BY <1>1, <1>2, <2>1
  <2>3. QED BY <1>4, <2>1, <2>2
<1>10. ASSUME NEW k \in Pipes, Reuse(k) PROVE FALSE
  <2>1. thread["api"].pc = "init" /\ chan.bug = k
    BY <1>10 DEF Reuse, ReuseSame, ReuseOther, ReuseFails, Restart, Reuses
  <2>2. QED BY <2>1, Numbers DEF Sound, Pointers
<1>11. QED BY <1>5, <1>6, <1>7, <1>8, <1>9, <1>10 DEF ApiNext

LEMMA HangupSound ==
  ASSUME Types, Sound, Hangup \/ StopFinds
  PROVE  Sound'
<1>1. /\ thread \in [Callers -> Thread] /\ chan \in Channel
      /\ "api" \in Callers /\ "hup" \in Callers
  BY DEF Types, TypeOK, Callers
<1>2. /\ UNCHANGED <<sess, made, pipes, media, reaper, hurt>> /\ chan'.bug = chan.bug
      /\ chan'.attached \in {chan.attached, NULL} /\ (chan.attached = NULL => chan'.attached = NULL)
  BY <1>1 DEF Hangup, StopFinds, Channel, historyVars
<1>3. thread'["api"] = thread["api"]
  BY <1>1 DEF Hangup, StopFinds
<1>4. thread'["hup"].pc \in {"idle", "find", "lock"}
  <2>1. CASE Hangup
    BY <1>1, <2>1 DEF Hangup, Thread, Types, HungUp
  <2>2. CASE StopFinds
    <3>1. Idle.pc = "idle" /\ [Idle EXCEPT !.pc = "lock", !.k = chan.bug].pc = "lock"
      BY DEF Idle
    <3>2. QED BY <1>1, <2>2, <3>1 DEF StopFinds
  <2>3. QED BY <2>1, <2>2
<1>5. Pointers'
  BY <1>2, <1>3 DEF Sound, Pointers, IsDeleted
<1>6. Mutexes'
  BY <1>2, <1>3, <1>4 DEF Sound, Mutexes, IsDeleted, Callers
<1>7. Detaches'
  BY <1>2, <1>3, Numbers DEF Sound, Detaches
<1>8. QED BY <1>2, <1>5, <1>6, <1>7 DEF Sound

LEMMA StopSound ==
  ASSUME Types, Sound, Claimed, NEW t \in Callers, StopNext(t)
  PROVE  Sound'
<1>1. /\ thread \in [Callers -> Thread] /\ chan \in Channel /\ sess \in [Pipes -> Session]
      /\ pipes \in [Pipes -> Pipe] /\ reaper \in [Pipes -> {"none", "finish", "wait"}]
      /\ "media" \notin Callers /\ "free" \notin Callers /\ NULL \notin Pipes
  BY Numbers DEF Types, TypeOK, Callers
<1>2. PICK k \in Pipes : k = thread[t].k
  BY DEF Types, Numbered, StopNext, StopLocks, StopRemoves, StopReaps, StopDestroys, Stopping
<1>3. /\ \A u \in Callers : thread[u].pc \in {"remove", "reap"} =>
             thread[u].k \in Pipes /\ sess[thread[u].k].owner = u
      /\ media.pc = "write" => media.k \in Pipes /\ sess[media.k].owner = "media"
  BY DEF Types, Numbered, HungUp, Stopping, Sound, Mutexes
<1>4. Returned(t).pc \in {"idle", "init"}
  BY DEF Returned, Idle
<1>5. ASSUME StopLocks(t), StopOf[vendor].rechecks /\ chan.bug = NULL PROVE Sound'
  <2>1. /\ thread' = [thread EXCEPT ![t] = Returned(t)]
        /\ UNCHANGED <<chan, sess, made, pipes, media, reaper, hurt>>
    BY <1>5 DEF StopLocks, historyVars
  <2>2. \A u \in Callers : thread'[u] = IF u = t THEN Returned(t) ELSE thread[u]
    BY <1>1, <2>1
  <2>3. Pointers'
    BY <1>5, <2>1 DEF Sound, Pointers, IsDeleted
  <2>4. Mutexes'
    BY <1>4, <2>1, <2>2 DEF Sound, Mutexes, IsDeleted
  <2>5. Detaches'
    BY <1>4, <2>1, <2>2 DEF Sound, Detaches, Callers
  <2>6. QED BY <2>1, <2>3, <2>4, <2>5 DEF Sound
<1>6. ASSUME StopLocks(t), ~(StopOf[vendor].rechecks /\ chan.bug = NULL) PROVE Sound'
  <2> DEFINE x == IF t = "api" THEN "remove" ELSE "reap"
             v == [sess[k] EXCEPT !.owner = t]
  <2>1. /\ thread' = [thread EXCEPT ![t].pc = x] /\ chan' = Forgotten
        /\ sess' = [sess EXCEPT ![k] = v] /\ sess[k].owner = "free"
        /\ x \in {"remove", "reap"} /\ (t = "api" => x = "remove")
        /\ UNCHANGED <<made, pipes, media, reaper, hurt>>
    BY <1>2, <1>6 DEF StopLocks, historyVars
  <2>2. /\ v.owner = t /\ v.pipe = sess[k].pipe /\ v.gone = sess[k].gone /\ v.keep = sess[k].keep
    BY <1>1 DEF Session
  <2> HIDE DEF x, v
  <2>3. /\ \A j \in Pipes : sess'[j] = IF j = k THEN v ELSE sess[j]
        /\ \A u \in Callers : thread'[u].k = thread[u].k
        /\ \A u \in Callers : thread'[u].pc = IF u = t THEN x ELSE thread[u].pc
    BY <1>1, <2>1 DEF Thread
  <2>4. chan'.attached = chan.attached /\ chan'.bug = NULL
    BY <1>1, <2>1 DEF Forgotten, Channel
  <2>5. Pointers'
    BY <2>1, <2>2, <2>3, <2>4 DEF Sound, Pointers, IsDeleted
  <2>6. Mutexes'
    <3>1. \A u \in Callers : thread'[u].pc \in {"remove", "reap"} => sess'[thread'[u].k].owner = u
      <4>1. \A u \in Callers : u # t /\ thread[u].pc \in {"remove", "reap"} => thread[u].k # k
        BY <1>1, <1>3, <2>1
      <4>2. QED BY <1>2, <1>3, <2>2, <2>3, <4>1
    <3>2. media.pc = "write" => media.k # k
      BY <1>3, <2>1
    <3>3. QED BY <1>3, <2>1, <2>3, <3>1, <3>2 DEF Sound, Mutexes, IsDeleted
  <2>7. Detaches'
    BY <2>1, <2>2, <2>3, <2>4 DEF Sound, Detaches, Callers
  <2>8. QED BY <2>1, <2>5, <2>6, <2>7 DEF Sound
<1>7. ASSUME t = "api", StopRemoves PROVE Sound'
  <2>1. /\ thread' = [thread EXCEPT ![t].pc = "reap"] /\ chan' = Detached
        /\ media.pc = "idle" /\ thread[t].pc = "remove"
        /\ UNCHANGED <<sess, made, pipes, media, reaper, hurt>>
    BY <1>7 DEF StopRemoves, historyVars
  <2>2. /\ \A u \in Callers : thread'[u].k = thread[u].k
        /\ \A u \in Callers : thread'[u].pc = IF u = t THEN "reap" ELSE thread[u].pc
    BY <1>1, <2>1 DEF Thread
  <2>3. chan'.attached = NULL /\ chan'.bug = chan.bug
    BY <1>1, <2>1 DEF Detached, Channel
  <2>4. Pointers'
    BY <1>7, <2>1, <2>2, <2>3 DEF Sound, Pointers, IsDeleted
  <2>5. Mutexes'
    BY <2>1, <2>2 DEF Sound, Mutexes, IsDeleted
  <2>6. Detaches'
    BY <1>1, <2>1, <2>3 DEF Sound, Detaches
  <2>7. QED BY <2>1, <2>4, <2>5, <2>6 DEF Sound
<1>8. ASSUME StopReaps(t) PROVE Sound'
  <2> DEFINE p == sess[k].pipe
             v == [sess[k] EXCEPT !.pipe = NULL, !.owner = "free"]
  <2>1. /\ thread' = [thread EXCEPT ![t].pc = "destroy"] /\ sess' = [sess EXCEPT ![k] = v]
        /\ thread[t].pc = "reap" /\ sess[k].owner = t
        /\ UNCHANGED <<chan, made, media>>
    BY <1>1, <1>2, <1>3, <1>8 DEF StopReaps, WithoutPipe
  <2>2. v.pipe = NULL /\ v.owner = "free" /\ v.gone = sess[k].gone /\ v.keep = sess[k].keep
    BY <1>1 DEF Session
  <2>3. p \in {NULL, k} /\ (p = k => reaper[k] = "none" /\ ~IsDeleted(k)) /\ (p = k => k <= made)
    BY <1>1 DEF Sound, Pointers, Types, TypeOK, Pipes
  <2>4. \/ p = NULL /\ UNCHANGED <<reaper, pipes, hurt>>
        \/ p = k /\ reaper' = [reaper EXCEPT ![k] = "finish"] /\ UNCHANGED <<pipes, hurt>>
    BY <1>2, <1>8, <2>3, ClaimedForms DEF StopReaps, HurtIf
  <2> HIDE DEF p, v
  <2>5. /\ \A j \in Pipes : sess'[j] = IF j = k THEN v ELSE sess[j]
        /\ \A u \in Callers : thread'[u].k = thread[u].k
        /\ \A u \in Callers : thread'[u].pc = IF u = t THEN "destroy" ELSE thread[u].pc
        /\ \A j \in Pipes : j # k => reaper'[j] = reaper[j]
    BY <1>1, <2>1, <2>4 DEF Thread
  <2>6. pipes' = pipes /\ hurt' = {} /\ (k > made => reaper'[k] = "none")
        /\ (IsDeleted(k) => reaper'[k] = "none")
    <3>1. p = k => ~(k > made)
      BY <2>3 DEF Pipes, Types, TypeOK
    <3>2. QED BY <2>3, <2>4, <3>1 DEF Sound, Pointers
  <2>7. Pointers'
    BY <2>1, <2>2, <2>5, <2>6 DEF Sound, Pointers, IsDeleted, Callers
  <2>8. Mutexes'
    <3>1. \A u \in Callers : u # t /\ thread[u].pc \in {"remove", "reap"} => thread[u].k # k
      BY <1>3, <2>1
    <3>2. \A u \in Callers : thread'[u].pc \in {"remove", "reap"} => sess'[thread'[u].k].owner = u
      BY <1>3, <2>5, <3>1
    <3>3. media.pc = "write" => media.k # k
      BY <1>1, <1>3, <2>1
    <3>4. QED BY <1>3, <2>1, <2>5, <2>6, <3>2, <3>3 DEF Sound, Mutexes, IsDeleted
  <2>9. Detaches'
    BY <2>1, <2>2, <2>5 DEF Sound, Detaches, Callers
  <2>10. QED BY <2>6, <2>7, <2>8, <2>9 DEF Sound
<1>9. ASSUME StopDestroys(t) PROVE Sound'
  <2> DEFINE v == [sess[k] EXCEPT !.gone = @ + 1]
             r == Returned(t)
  <2>1. /\ thread' = [thread EXCEPT ![t] = r] /\ sess' = [sess EXCEPT ![k] = v]
        /\ thread[t].pc = "destroy"
        /\ UNCHANGED <<chan, made, pipes, media, reaper, hurt>>
    BY <1>2, <1>9 DEF StopDestroys, historyVars
  <2>2. v.pipe = sess[k].pipe /\ v.owner = sess[k].owner /\ v.keep = sess[k].keep
    BY <1>1 DEF Session
  <2>3. chan.attached = NULL /\ media.pc = "idle" /\ media.k = NULL /\ chan.bug = NULL
    BY <2>1 DEF Types, HungUp, Stopping, Sound, Detaches, Callers
  <2> HIDE DEF v, r
  <2>4. \A j \in Pipes : sess'[j] = IF j = k THEN v ELSE sess[j]
    BY <1>1, <2>1
  <2>5. \A u \in Callers : thread'[u] = IF u = t THEN r ELSE thread[u]
    BY <1>1, <2>1
  <2>6. r.pc \in {"idle", "init"}
    BY <1>4 DEF r
  <2>7. Pointers'
    BY <2>1, <2>2, <2>3, <2>4 DEF Sound, Pointers, IsDeleted
  <2>8. Mutexes'
    BY <1>3, <2>1, <2>2, <2>3, <2>4, <2>5, <2>6 DEF Sound, Mutexes, IsDeleted
  <2>9. Detaches'
    BY SMTT(30), <1>1, <2>1, <2>3 DEF Detaches
  <2>10. QED BY <2>1, <2>7, <2>8, <2>9 DEF Sound
<1>10. QED BY <1>5, <1>6, <1>7, <1>8, <1>9 DEF StopNext

LEMMA SettingKept == [Next]_vars => UNCHANGED <<vendor, single>>
  BY DEF vars, Next, ApiNext, StartCapture, InitFails, InitSession, AddBug, StopCommand, Reuse,
         ReuseSame, ReuseOther, ReuseFails, Restart, Hangup, StopFinds, StopNext, StopLocks,
         StopRemoves, StopReaps, StopDestroys, FrameEnters, FrameGoesOn, FrameGivesUp, FrameLocks,
         FrameWrites, FramePings, WaitCancelled, ReaperNext, ReaperFinishes, ReaperDeletes,
         ServiceNext, ConnectionError, Established, Closed, Receive, Writeable, WriteText,
         WriteEnd, WriteAudio

\* In the modules that use a reaper, and when no connection is kept, no thread
\* uses a pipe that is deleted or a mutex that is destroyed, and a pipe is not
\* deleted before its connection has closed, whatever the far end does and
\* however a stop, the hang-up, the frames and the reapers interleave.
THEOREM PipesSafeHolds == Spec => []PipesSafe
<1>1. Init => Safe
  <2> SUFFICES ASSUME Init PROVE Sound
    BY DEF Safe
  <2>1. /\ \A k \in Pipes : /\ ~sess[k].keep /\ sess[k].pipe = NULL /\ sess[k].gone = 0
                            /\ ~IsDeleted(k) /\ reaper[k] = "none"
        /\ \A t \in Callers : thread[t].pc = "idle"
    BY PipeForms, ThreadForms DEF Init, NoSession, IsDeleted
  <2>2. hurt = {} /\ media.pc = "idle" /\ chan.bug = NULL
    BY DEF Init
  <2>3. Pointers
    BY <2>1, <2>2 DEF Pointers
  <2>4. Mutexes
    BY <2>1, <2>2 DEF Mutexes
  <2>5. Detaches
    BY <2>1, <2>2 DEF Detaches, Callers
  <2>6. QED BY <2>2, <2>3, <2>4, <2>5 DEF Sound
<1>2. Types /\ Safe /\ [Next]_vars => Safe'
  <2> SUFFICES ASSUME Types, Safe, [Next]_vars, Claimed' PROVE Sound'
    BY DEF Safe
  <2>1. UNCHANGED <<vendor, single>>
    BY SettingKept
  <2>2. Claimed /\ Sound
    BY <2>1 DEF Claimed, Safe
  <2>3. CASE UNCHANGED vars
    BY <2>2, <2>3 DEF vars, Sound, Pointers, Mutexes, Detaches, IsDeleted
  <2>4. CASE Next
    BY <2>2, <2>4, ApiSound, HangupSound, StopSound, FrameSound, ServiceSound, ReaperSound DEF Next
  <2>5. QED BY <2>3, <2>4
<1>3. Safe => PipesSafe
  BY DEF Safe, Sound, Claimed, PipesSafe
<1>4. QED BY <1>1, <1>2, <1>3, InitTypes, NextTypes, PTL DEF Spec

-----------------------------------------------------------------------------
(* Whose pipe a late end takes: deepgram's copy.                           *)

\* The session whose pipe a stop, or the start that makes it, is at: the one
\* the channel names, and while it names none the one of the caller that is yet
\* to add the bug or has just forgotten it.  After a hang-up no bug is added.
Speaks(k) ==
  \/ chan.bug = k
  \/ /\ chan.bug = NULL
     /\ \/ chan.hung
        \/ thread["api"].pc \in {"add", "remove", "reap"} /\ thread["api"].k = k

\* A pipe whose end would take a pipe from a session, and one past its end.
Loose(p) ==
  /\ pipes[p].st \in {"idle", "connecting", "connected"}
  /\ ~(pipes[p].st = "connected" /\ pipes[p].finished)
Over(p) == pipes[p].st \in {"closed", "failed", "deleted"}

Heard(p) == Excused(p) \/ \E k \in Pipes : sess[k].pipe = p /\ Speaks(k)

Placed ==
  ~chan.hung => /\ thread["api"].pc = "lock" => chan.bug = thread["api"].k
                /\ thread["api"].pc = "add" => chan.bug = NULL
Kept == \A p \in Pipes : Loose(p) => Heard(p)
Robbers == \A x \in robbed : Over(x[1]) /\ Excused(x[1])
Straight == \A p \in Pipes : pipes[p].st # "disconnecting"

Fresh == \A p \in Pipes : sess[p].pipe \in 0..made /\ (p > made => pipes[p].st = "none")

Held == Kept /\ Robbers /\ Straight /\ Fresh
Spared == vendor = "deepgram" => Placed /\ Held

LEMMA DeepgramForms ==
  /\ ~LinkOf["deepgram"].quits /\ ~LinkOf["deepgram"].greets /\ ~LinkOf["deepgram"].deletes
  /\ ~ReceiveOf["deepgram"].quits /\ ~FinishOf["deepgram"].remembers
  /\ ~StopOf["deepgram"].rechecks /\ StopOf["deepgram"].reaps
  /\ EventOf["deepgram"].overlooks /\ ~EventOf["deepgram"].greets
<1>1. ~LinkOf["deepgram"].quits /\ ~LinkOf["deepgram"].greets /\ ~LinkOf["deepgram"].deletes
  BY DEF LinkOf, DeepgramLink
<1>2. ~ReceiveOf["deepgram"].quits
  BY DEF ReceiveOf, DeepgramReceive
<1>3. ~FinishOf["deepgram"].remembers
  BY DEF FinishOf, DeepgramFinish
<1>4. ~StopOf["deepgram"].rechecks /\ StopOf["deepgram"].reaps
  BY DEF StopOf, DeepgramStop
<1>5. EventOf["deepgram"].overlooks /\ ~EventOf["deepgram"].greets
  BY DEF EventOf, DeepgramEvent
<1>6. QED BY <1>1, <1>2, <1>3, <1>4, <1>5

\* What a step must do for the pipes it leaves loose.
LEMMA HeldBy ==
  ASSUME Held, robbed \subseteq robbed', early \subseteq early',
         \A p \in Pipes : pipes'[p].st # "disconnecting" /\ (Over(p) => Over(p)'),
         \A p \in Pipes : reaper[p] = "finish" /\ reaper'[p] # "finish"
                            => p \in early' \/ (~Over(p) /\ ~Loose(p)'),
         \A x \in robbed' : x \in robbed \/ (Over(x[1])' /\ Excused(x[1])'),
         \A x \in robbed : x[1] \in Pipes,
         \A p \in Pipes : Loose(p)' => Loose(p) \/ Heard(p)',
         \A p \in Pipes, k \in Pipes :
           Loose(p)' /\ sess[k].pipe = p /\ Speaks(k) => Heard(p)',
         Fresh'
  PROVE  Held'
<1>1. \A p \in Pipes : Excused(p) => Excused(p)' \/ (~Over(p) /\ ~Loose(p)')
  BY DEF Excused
<1>2. Kept'
  <2>1. \A p \in Pipes : Excused(p)' => Heard(p)'
    BY DEF Heard
  <2>2. \A p \in Pipes : Loose(p)' => Loose(p) \/ Heard(p)'
    OBVIOUS
  <2>3. \A p \in Pipes : Loose(p) => Excused(p) \/ \E k \in Pipes : sess[k].pipe = p /\ Speaks(k)
    BY DEF Held, Kept, Heard
  <2>4. QED BY <1>1, <2>1, <2>2, <2>3 DEF Kept
<1>3. Robbers'
  BY <1>1 DEF Held, Robbers
<1>4. Straight'
  BY DEF Straight
<1>5. QED BY <1>2, <1>3, <1>4 DEF Held

\* Steps that leave the sessions' pipes, the reapers and the histories alone.
LEMMA CalmKept ==
  ASSUME Types, Held, UNCHANGED <<robbed, early, reaper, made>>,
         \A p \in Pipes : /\ pipes'[p].st # "disconnecting" /\ (Over(p) => Over(p)')
                          /\ Loose(p)' => Loose(p)
                          /\ pipes[p].st = "none" => pipes'[p].st = "none",
         \A k \in Pipes : sess'[k].pipe = sess[k].pipe /\ (Speaks(k) => Speaks(k)')
  PROVE  Held'
<1>1. \A x \in robbed : x[1] \in Pipes
  BY DEF Types, TypeOK
<1>2. \A p \in Pipes, k \in Pipes : sess[k].pipe = p /\ Speaks(k) => Heard(p)'
  BY DEF Heard
<1>3. Fresh'
  BY DEF Held, Fresh
<1>4. QED BY <1>1, <1>2, <1>3, HeldBy

\* What the steps that end no connection do to the pipes.
GoesOn(p) ==
  /\ pipes'[p].finished = pipes[p].finished
  /\ \/ pipes'[p].st = pipes[p].st
     \/ pipes[p].st = "idle" /\ pipes'[p].st = "connecting"
     \/ pipes[p].st = "connecting" /\ pipes'[p].st = "connected"

SteadyRest == UNCHANGED <<chan, made, thread, reaper, robbed, early>>

LEMMA SteadyPipes ==
  ASSUME Types, Held, SteadyRest,
         \A p \in Pipes : GoesOn(p), \A k \in Pipes : sess'[k].pipe = sess[k].pipe
  PROVE  Held'
<1>1. \A p \in Pipes : /\ pipes'[p].st # "disconnecting" /\ (Over(p) => Over(p)')
                       /\ Loose(p)' => Loose(p)
                       /\ pipes[p].st = "none" => pipes'[p].st = "none"
  BY DEF Over, Loose, Held, Straight, GoesOn
<1>2. \A k \in Pipes : Speaks(k) => Speaks(k)'
  BY DEF Speaks, SteadyRest
<1>3. UNCHANGED <<robbed, early, reaper, made>>
  BY DEF SteadyRest
<1>4. QED BY <1>1, <1>2, <1>3, CalmKept

LEMMA TextAlone ==
  ASSUME NEW r \in Pipe, NEW x \in Texts
  PROVE  WithText(r, x).st = r.st /\ WithText(r, x).finished = r.finished
<1>1. WithText(r, x) = [r EXCEPT !.text = IF r.text = "stop" THEN r.text ELSE x]
  BY DEF WithText
<1>2. QED BY <1>1 DEF Pipe

LEMMA WaitHeld == ASSUME Types, Held, WaitCancelled PROVE Held'
<1>1. pipes \in [Pipes -> Pipe]
  BY DEF Types, TypeOK
<1>2. \A p \in Pipes : \/ pipes'[p] \in {pipes[p], [pipes[p] EXCEPT !.wanted = TRUE]}
                       \/ pipes[p].st = "idle" /\ pipes'[p] = [pipes[p] EXCEPT !.st = "connecting"]
  BY DEF WaitCancelled
<1>3. ASSUME NEW p \in Pipes PROVE GoesOn(p)
  <2>1. pipes[p] \in Pipe
    BY <1>1
  <2>2. CASE pipes'[p] \in {pipes[p], [pipes[p] EXCEPT !.wanted = TRUE]}
    BY <2>1, <2>2 DEF GoesOn, Pipe
  <2>3. CASE pipes[p].st = "idle" /\ pipes'[p] = [pipes[p] EXCEPT !.st = "connecting"]
    BY <2>1, <2>3 DEF GoesOn, Pipe
  <2>4. QED BY <1>2, <2>2, <2>3
<1>4. SteadyRest /\ sess' = sess
  BY DEF WaitCancelled, SteadyRest, historyVars
<1>5. QED BY <1>3, <1>4, SteadyPipes

LEMMA EstablishedHeld ==
  ASSUME Types, Held, vendor = "deepgram", NEW q \in Pipes, Established(q) PROVE Held'
<1> DEFINE up == [pipes EXCEPT ![q].st = "connected"]
           told == {p \in Greeted(q) : up[p].st = "connected"}
<1>1. pipes \in [Pipes -> Pipe]
  BY DEF Types, TypeOK
<1>2. Greeted(q) = {} /\ ~LinkOf[vendor].quits
  BY DeepgramForms DEF Greeted
<1>3. pipes' = [p \in Pipes |-> IF p \in told THEN WithText(up[p], "other") ELSE up[p]]
  BY <1>2 DEF Established
<1>4. told = {}
  BY <1>2
<1>5. pipes[q].st = "connecting"
  BY DEF Established
<1> HIDE DEF told
<1>6. \A p \in Pipes : GoesOn(p)
  BY <1>1, <1>3, <1>4, <1>5 DEF GoesOn, Pipe
<1>7. SteadyRest /\ sess' = sess
  BY DEF Established, SteadyRest, historyVars
<1>8. QED BY <1>6, <1>7, SteadyPipes

LEMMA WritesHeld ==
  ASSUME Types, Held, vendor = "deepgram", NEW q \in Pipes,
         Receive(q) \/ WriteText(q) \/ WriteAudio(q)
  PROVE  Held'
<1>1. pipes \in [Pipes -> Pipe]
  BY DEF Types, TypeOK
<1>2. \A p \in Pipes : pipes'[p].finished = pipes[p].finished /\ pipes'[p].st = pipes[p].st
  BY <1>1, DeepgramForms DEF Receive, WriteText, WriteAudio, Pipe
<1>3. SteadyRest /\ sess' = sess
  BY DEF Receive, WriteText, WriteAudio, SteadyRest, historyVars
<1>4. QED BY <1>2, <1>3, SteadyPipes DEF GoesOn

LEMMA FramesHeld == ASSUME Types, Held, FrameEnters \/ FrameGoesOn PROVE Held'
<1>1. pipes \in [Pipes -> Pipe] /\ sess \in [Pipes -> Session]
  BY DEF Types, TypeOK
<1>2. ASSUME NEW k \in Pipes, NEW o \in {"none", "free", "media"} \cup Callers,
             sess' = [sess EXCEPT ![k].owner = o]
      PROVE  \A j \in Pipes : sess'[j].pipe = sess[j].pipe
  BY <1>1, <1>2 DEF Session
<1>3. CASE FrameEnters \/ FrameGivesUp
  <2>1. SteadyRest /\ sess' = sess /\ pipes' = pipes
    BY <1>3 DEF FrameEnters, FrameGivesUp, SteadyRest, historyVars
  <2>2. QED BY <2>1, SteadyPipes DEF GoesOn
<1>4. CASE FrameLocks
  <2>1. SteadyRest /\ pipes' = pipes /\ media.k \in Pipes
    BY <1>4 DEF FrameLocks, SteadyRest, Types, HungUp
  <2>2. sess' = sess \/ sess' = [sess EXCEPT ![media.k].owner = "media"]
    BY <1>4 DEF FrameLocks
  <2>3. \A j \in Pipes : sess'[j].pipe = sess[j].pipe
    BY <1>2, <2>1, <2>2
  <2>4. QED BY <2>1, <2>3, SteadyPipes DEF GoesOn
<1>5. CASE FrameWrites
  <2> DEFINE o == IF sess[media.k].owner = "media" THEN "free" ELSE sess[media.k].owner
  <2>1. SteadyRest /\ pipes' = pipes /\ media.k \in Pipes
    BY <1>5 DEF FrameWrites, SteadyRest, Types, HungUp
  <2>2. sess' = [sess EXCEPT ![media.k].owner = o]
    BY <1>5 DEF FrameWrites
  <2>3. o \in {"none", "free", "media"} \cup Callers
    BY <1>1, <2>1 DEF Session
  <2> HIDE DEF o
  <2>4. \A j \in Pipes : sess'[j].pipe = sess[j].pipe
    BY <1>2, <2>1, <2>2, <2>3
  <2>5. QED BY <2>1, <2>4, SteadyPipes DEF GoesOn
<1>6. CASE FramePings
  <2> DEFINE v == WithText(pipes[media.p], "other")
  <2>1. SteadyRest /\ sess' = sess /\ media.p \in Pipes
    BY <1>6 DEF FramePings, SteadyRest, Types, HungUp
  <2>2. pipes' = pipes \/ pipes' = [pipes EXCEPT ![media.p] = v]
    BY <1>6 DEF FramePings
  <2>3. "other" \in Texts
    BY DEF Texts
  <2>4. v.st = pipes[media.p].st /\ v.finished = pipes[media.p].finished
    BY <1>1, <2>1, <2>3, TextAlone
  <2> HIDE DEF v
  <2>5. \A p \in Pipes : GoesOn(p)
    BY <1>1, <2>1, <2>2, <2>4 DEF GoesOn
  <2>6. QED BY <2>1, <2>5, SteadyPipes
<1>7. QED BY <1>3, <1>4, <1>5, <1>6 DEF FrameGoesOn

\* An end: the session that is named loses its pipe, which is recorded.
LEMMA EndHeld ==
  ASSUME Types, Held, vendor = "deepgram", NEW q \in Pipes, NEW o \in BOOLEAN,
         UNCHANGED <<chan, made, thread, reaper, early>>, TakesPipe(q, o), Loose(q) \/ o,
         Over(q)', ~Over(q), pipes[q].st # "none", \A p \in Pipes : p # q => pipes'[p] = pipes[p]
  PROVE  Held'
<1> DEFINE b == chan.bug
<1>1. /\ sess \in [Pipes -> Session] /\ robbed \subseteq Pipes \X Pipes
      /\ \A k \in Pipes : sess[k].pipe \in Pipes \cup {NULL}
  BY Numbers DEF Types, TypeOK, Session
<1>2. robbed \subseteq robbed' /\ \A x \in robbed : x[1] \in Pipes
  BY <1>1 DEF TakesPipe
<1>3. ~(Loose(q)') /\ \A p \in Pipes : p # q => (Loose(p)' <=> Loose(p)) /\ (Over(p)' <=> Over(p))
  BY DEF Loose, Over
<1>4. \A p \in Pipes : pipes'[p].st # "disconnecting" /\ (Over(p) => Over(p)')
  BY <1>3 DEF Over, Held, Straight
<1>5. \A k \in Pipes : Speaks(k)' <=> Speaks(k)
  BY DEF Speaks
<1>6. Fresh'
  <2>1. \A k \in Pipes : sess'[k].pipe \in {sess[k].pipe, NULL}
    BY TakesPipeEffect
  <2>2. \A p \in Pipes : pipes[p].st = "none" => pipes'[p].st = "none"
    OBVIOUS
  <2>3. QED BY <2>1, <2>2 DEF Held, Fresh, NULL, Types, TypeOK
<1>7. CASE UNCHANGED <<sess, robbed>>
  <2>1. \A p, k \in Pipes : sess[k].pipe = p /\ Speaks(k) => Heard(p)'
    BY <1>5, <1>7 DEF Heard
  <2>2. QED BY <1>2, <1>3, <1>4, <1>7, <1>6, <2>1, HeldBy
<1>8. CASE ~UNCHANGED <<sess, robbed>>
  <2>1. /\ b \in Pipes /\ ~o /\ sess' = [sess EXCEPT ![b].pipe = NULL]
        /\ robbed' = IF sess[b].pipe \in {NULL, q} THEN robbed
                     ELSE robbed \cup {<<q, sess[b].pipe>>}
    BY <1>8, Numbers DEF TakesPipe, Types, TypeOK, Channel
  <2>2. \A k \in Pipes : k # b => sess'[k] = sess[k]
    BY <1>1, <2>1
  <2>3. ASSUME NEW p \in Pipes, NEW k \in Pipes, Loose(p)', sess[k].pipe = p, Speaks(k)
        PROVE  Heard(p)'
    <3>1. p # q /\ p # NULL
      BY <1>3, <2>3, Numbers
    <3>2. CASE k = b
      <4>1. <<q, p>> \in robbed'
        BY <2>1, <2>3, <3>1, <3>2
      <4>2. QED BY <4>1 DEF Heard, Excused
    <3>3. CASE k # b
      BY <1>5, <2>2, <2>3, <3>3 DEF Heard
    <3>4. QED BY <3>2, <3>3
  <2>4. ASSUME NEW x \in robbed', x \notin robbed PROVE Over(x[1])' /\ Excused(x[1])'
    <3>1. x[1] = q /\ sess[b].pipe # q
      BY <2>1, <2>4
    <3>2. ~\E k \in Pipes : sess[k].pipe = q /\ Speaks(k)
      BY <2>1, <3>1, Numbers DEF Speaks
    <3>3. Excused(q)
      BY <2>1, <3>2 DEF Held, Kept, Heard
    <3>4. Excused(q)'
      BY <1>2, <3>3 DEF Excused
    <3>5. QED BY <3>1, <3>4
  <2>5. \A p \in Pipes : Loose(p)' => Loose(p)
    BY <1>3
  <2>6. QED BY <1>2, <1>4, <1>6, <2>3, <2>4, <2>5, HeldBy
<1>9. QED BY <1>7, <1>8

LEMMA EndsHeld ==
  ASSUME Types, Held, vendor = "deepgram", NEW q \in Pipes,
         ConnectionError(q) \/ Closed(q) \/ WriteEnd(q)
  PROVE  Held'
<1>1. pipes \in [Pipes -> Pipe] /\ pipes[q].st # "disconnecting"
  BY DEF Types, TypeOK, Held, Straight
<1>2. CASE ConnectionError(q)
  <2>1. /\ UNCHANGED <<chan, made, thread, reaper, early>> /\ TakesPipe(q, FALSE)
        /\ pipes[q].st = "connecting" /\ pipes' = [pipes EXCEPT ![q].st = "failed"]
    BY <1>2 DEF ConnectionError
  <2>2. Over(q)' /\ ~Over(q) /\ Loose(q) /\ \A p \in Pipes : p # q => pipes'[p] = pipes[p]
    BY <1>1, <2>1 DEF Over, Loose, Pipe
  <2>3. QED BY <2>1, <2>2, EndHeld
<1>3. CASE Closed(q)
  <2> DEFINE o == EventOf[vendor].overlooks /\ pipes[q].st = "connected" /\ pipes[q].finished
  <2>1. /\ UNCHANGED <<chan, made, thread, reaper, early>> /\ TakesPipe(q, o)
        /\ pipes' = [pipes EXCEPT ![q] = Ended(q)] /\ pipes[q].st = "connected"
    BY <1>1, <1>3 DEF Closed, End
  <2>2. Ended(q).st = "closed"
    BY DeepgramForms DEF Ended, NoPipe
  <2>3. o <=> pipes[q].finished
    BY <2>1, DeepgramForms
  <2>4. Over(q)' /\ ~Over(q) /\ \A p \in Pipes : p # q => pipes'[p] = pipes[p]
    BY <1>1, <2>1, <2>2 DEF Over
  <2>5. Loose(q) \/ o
    BY <2>1, <2>3 DEF Loose
  <2>6. o \in BOOLEAN
    BY <2>1, <2>3, <1>1 DEF Pipe
  <2> HIDE DEF o
  <2>7. QED BY <2>1, <2>4, <2>5, <2>6, EndHeld
<1>4. CASE WriteEnd(q)
  BY <1>1, <1>4 DEF WriteEnd
<1>5. QED BY <1>2, <1>3, <1>4

\* What finish does to a pipe in deepgram.
LEMMA FinishForms ==
  ASSUME Types, vendor = "deepgram", NEW p \in Pipes, Finish(p)
  PROVE  /\ \A q \in Pipes : /\ pipes'[q].st = pipes[q].st
                             /\ pipes[q].finished => pipes'[q].finished
         /\ CanFinish(p) => pipes'[p].finished
<1>1. pipes \in [Pipes -> Pipe]
  BY DEF Types, TypeOK
<1>2. \A q \in Pipes : pipes'[q].st = pipes[q].st
  BY FinishTypes
<1>3. CASE CanFinish(p)
  <2> DEFINE r == [pipes[p] EXCEPT !.finished = TRUE]
             v == WithText(r, StopText)
  <2>1. pipes' = [pipes EXCEPT ![p] = v]
    BY <1>3 DEF Finish, Finished, CanFinish, IsDeleted
  <2>2. r \in Pipe /\ r.finished /\ StopText \in Texts
    BY <1>1 DEF Pipe, StopText, Texts
  <2> HIDE DEF r
  <2>3. v.finished
    BY <2>2, TextAlone
  <2> HIDE DEF v
  <2>4. QED BY <1>1, <1>2, <2>1, <2>3
<1>4. CASE ~CanFinish(p)
  <2>1. pipes' = pipes \/ pipes' = [pipes EXCEPT ![p].finished = @ \/ FinishOf[vendor].remembers]
    BY <1>4 DEF Finish, Finished
  <2>2. \A q \in Pipes : pipes[q].finished => pipes'[q].finished
    BY <1>1, <2>1 DEF Pipe
  <2>3. QED BY <1>2, <1>4, <2>2
<1>5. QED BY <1>3, <1>4

LEMMA ReaperHeld ==
  ASSUME Types, Held, vendor = "deepgram", NEW p \in Pipes, ReaperNext(p)
  PROVE  Held'
<1>1. /\ pipes \in [Pipes -> Pipe] /\ reaper \in [Pipes -> {"none", "finish", "wait"}]
      /\ \A x \in robbed : x[1] \in Pipes
  BY DEF Types, TypeOK
<1>2. /\ UNCHANGED <<chan, made, thread, sess, robbed>> /\ early \subseteq early'
      /\ \A q \in Pipes : q # p => reaper'[q] = reaper[q]
  BY <1>1 DEF ReaperNext, ReaperFinishes, ReaperDeletes
<1>3. \A k \in Pipes : Speaks(k) => Speaks(k)'
  BY <1>2 DEF Speaks
<1>4. \A q, k \in Pipes : sess[k].pipe = q /\ Speaks(k) => Heard(q)'
  BY <1>2, <1>3 DEF Heard
<1>5. \A q \in Pipes : pipes[q].st = "none" => pipes'[q].st = "none"
  <2>1. CASE ReaperFinishes(p)
    BY <2>1, FinishForms DEF ReaperFinishes
  <2>2. CASE ReaperDeletes(p)
    BY <1>1, <2>2 DEF ReaperDeletes, HasClosed
  <2>3. QED BY <2>1, <2>2 DEF ReaperNext
<1>6. Fresh'
  BY <1>2, <1>5 DEF Held, Fresh
<1>7. CASE ReaperFinishes(p)
  <2>1. Finish(p) /\ (CanFinish(p) \/ p \in early')
    BY <1>7 DEF ReaperFinishes
  <2>2. \A q \in Pipes : /\ pipes'[q].st # "disconnecting" /\ (Over(q) => Over(q)')
                         /\ (Loose(q)' => Loose(q))
    BY <2>1, FinishForms DEF Over, Loose, Held, Straight
  <2>3. CanFinish(p) => ~Over(p) /\ ~(Loose(p)')
    BY <2>1, FinishForms DEF CanFinish, Over, Loose
  <2>4. QED BY <1>1, <1>2, <1>4, <1>6, <2>1, <2>2, <2>3, HeldBy
<1>8. CASE ReaperDeletes(p)
  <2>1. pipes' = [pipes EXCEPT ![p] = Deleted] /\ reaper[p] = "wait"
    BY <1>8 DEF ReaperDeletes
  <2>2. \A q \in Pipes : /\ pipes'[q].st # "disconnecting" /\ (Over(q) => Over(q)')
                         /\ (Loose(q)' => Loose(q))
    BY <1>1, <2>1, PipeForms DEF Over, Loose, Held, Straight
  <2>3. QED BY <1>1, <1>2, <1>4, <1>6, <2>1, <2>2, HeldBy
<1>9. QED BY <1>7, <1>8 DEF ReaperNext

\* Steps of the callers that make no pipe and take none.
LEMMA CallersKept ==
  ASSUME Types, Held, UNCHANGED <<made, robbed, early, reaper, pipes>>,
         \A k \in Pipes : sess'[k].pipe = sess[k].pipe /\ (Speaks(k) => Speaks(k)')
  PROVE  Held'
<1>1. \A p \in Pipes : pipes'[p].st # "disconnecting" /\ (Over(p) => Over(p)')
                       /\ (Loose(p)' => Loose(p))
  BY DEF Held, Straight, Over, Loose
<1>2. QED BY <1>1, CalmKept

LEMMA CallsHeld ==
  ASSUME Types, Placed, Held, StartCapture \/ AddBug \/ StopCommand \/ Hangup \/ StopFinds
  PROVE  Placed' /\ Held'
<1>1. /\ thread \in [Callers -> Thread] /\ chan \in Channel /\ sess \in [Pipes -> Session]
      /\ "api" \in Callers /\ "hup" \in Callers /\ NULL \notin Pipes
  BY Numbers DEF Types, TypeOK, Callers
<1>2. Idle.pc = "idle" /\ [Idle EXCEPT !.pc = "init"].pc = "init"
      /\ [Idle EXCEPT !.pc = "lock", !.k = chan.bug].pc = "lock"
      /\ [Idle EXCEPT !.pc = "lock", !.k = chan.bug].k = chan.bug
  BY DEF Idle
<1>3. CASE StartCapture
  <2> DEFINE r == IF chan.bug # NULL /\ ~single THEN [pc |-> "lock", k |-> chan.bug, starts |-> TRUE]
                  ELSE [Idle EXCEPT !.pc = "init"]
  <2>1. /\ thread' = [thread EXCEPT !["api"] = r] /\ thread["api"].pc = "idle"
        /\ UNCHANGED <<made, robbed, early, reaper, pipes, sess, chan>>
    BY <1>3 DEF StartCapture, historyVars
  <2>2. r.pc \in {"lock", "init"} /\ (r.pc = "lock" => r.k = chan.bug)
    BY <1>2
  <2> HIDE DEF r
  <2>3. thread'["api"] = r
    BY <1>1, <2>1
  <2>4. \A k \in Pipes : Speaks(k) => Speaks(k)'
    BY <2>1 DEF Speaks
  <2>5. QED BY <2>1, <2>2, <2>3, <2>4, CallersKept DEF Placed
<1>4. CASE AddBug
  <2> DEFINE k == thread["api"].k
  <2>1. /\ thread' = [thread EXCEPT !["api"] = Idle] /\ thread["api"].pc = "add"
        /\ chan' = IF chan.hung THEN chan ELSE [chan EXCEPT !.bug = k, !.attached = k]
        /\ UNCHANGED <<made, robbed, early, reaper, pipes, sess>>
    BY <1>4 DEF AddBug, historyVars
  <2>2. thread'["api"].pc = "idle" /\ chan'.hung = chan.hung
        /\ chan'.bug = IF chan.hung THEN chan.bug ELSE k
    BY <1>1, <1>2, <2>1 DEF Channel
  <2>3. ASSUME NEW j \in Pipes, Speaks(j) PROVE Speaks(j)'
    <3>1. CASE chan.hung
      BY <2>2, <2>3, <3>1 DEF Speaks
    <3>2. CASE ~chan.hung
      <4>1. chan.bug = NULL
        BY <2>1, <3>2 DEF Placed
      <4>2. j = k
        BY <1>1, <2>3, <3>2, <4>1 DEF Speaks
      <4>3. QED BY <2>2, <3>2, <4>2 DEF Speaks
    <3>3. QED BY <3>1, <3>2
  <2>4. QED BY <2>1, <2>2, <2>3, CallersKept DEF Placed
<1>5. CASE StopCommand
  <2>1. /\ UNCHANGED <<made, robbed, early, reaper, pipes, chan>> /\ thread["api"].pc = "idle"
        /\ chan.bug \in Pipes
    BY <1>1, <1>5, Numbers DEF StopCommand, historyVars, Channel
  <2>2. \/ sess' = [sess EXCEPT ![chan.bug].keep = TRUE] /\ UNCHANGED thread
        \/ /\ thread' = [thread EXCEPT !["api"] = [Idle EXCEPT !.pc = "lock", !.k = chan.bug]]
           /\ UNCHANGED sess
    BY <1>5 DEF StopCommand
  <2>3. \A k \in Pipes : sess'[k].pipe = sess[k].pipe
    BY <1>1, <2>1, <2>2 DEF Session
  <2>4. thread'["api"].pc \in {"idle", "lock"}
        /\ (thread'["api"].pc = "lock" => thread'["api"].k = chan.bug)
    BY <1>1, <1>2, <2>1, <2>2
  <2>5. \A k \in Pipes : Speaks(k) => Speaks(k)'
    BY <2>1 DEF Speaks
  <2>6. QED BY <2>1, <2>3, <2>4, <2>5, CallersKept DEF Placed
<1>6. CASE Hangup
  <2>1. /\ chan' = [chan EXCEPT !.hung = TRUE, !.attached = NULL]
        /\ UNCHANGED <<made, robbed, early, reaper, pipes, sess>>
    BY <1>6 DEF Hangup, historyVars
  <2>2. chan'.hung /\ chan'.bug = chan.bug
    BY <1>1, <2>1 DEF Channel
  <2>3. \A k \in Pipes : Speaks(k) => Speaks(k)'
    BY <2>2 DEF Speaks
  <2>4. QED BY <2>1, <2>2, <2>3, CallersKept DEF Placed
<1>7. CASE StopFinds
  <2>1. /\ UNCHANGED <<made, robbed, early, reaper, pipes, sess, chan>> /\ thread'["api"] = thread["api"]
    BY <1>1, <1>7 DEF StopFinds, historyVars
  <2>2. \A k \in Pipes : Speaks(k) => Speaks(k)'
    BY <2>1 DEF Speaks
  <2>3. QED BY <2>1, <2>2, CallersKept DEF Placed
<1>8. QED BY <1>3, <1>4, <1>5, <1>6, <1>7

LEMMA StopsHeld ==
  ASSUME Types, Placed, Held, vendor = "deepgram", NEW t \in Callers, StopNext(t)
  PROVE  Placed' /\ Held'
<1>1. /\ thread \in [Callers -> Thread] /\ chan \in Channel /\ sess \in [Pipes -> Session]
      /\ reaper \in [Pipes -> {"none", "finish", "wait"}]
      /\ "api" \in Callers /\ NULL \notin Pipes
      /\ \A x \in robbed : x[1] \in Pipes
  BY Numbers DEF Types, TypeOK, Callers
<1>2. PICK k \in Pipes : k = thread[t].k
  BY DEF Types, Numbered, StopNext, StopLocks, StopRemoves, StopReaps, StopDestroys, Stopping
<1>3. ~chan.hung => t = "api"
  BY DEF Types, HungUp, StopNext, StopLocks, StopRemoves, StopReaps, StopDestroys, Callers
<1>4. CASE StopLocks(t)
  <2> DEFINE x == IF t = "api" THEN "remove" ELSE "reap"
  <2>1. /\ thread' = [thread EXCEPT ![t].pc = x] /\ chan' = Forgotten
        /\ sess' = [sess EXCEPT ![k].owner = t] /\ thread[t].pc = "lock"
        /\ UNCHANGED <<made, robbed, early, reaper, pipes>>
    BY <1>2, <1>4, DeepgramForms DEF StopLocks, historyVars
  <2>2. chan'.bug = NULL /\ chan'.hung = chan.hung
    BY <1>1, <2>1 DEF Forgotten, Channel
  <2>3. /\ thread'[t].pc = x /\ thread'[t].k = k
        /\ (t # "api" => thread'["api"] = thread["api"])
    BY <1>1, <1>2, <2>1 DEF Thread
  <2>4. \A j \in Pipes : sess'[j].pipe = sess[j].pipe
    BY <1>1, <2>1 DEF Session
  <2>5. ASSUME NEW j \in Pipes, Speaks(j) PROVE Speaks(j)'
    <3>1. CASE chan.hung
      BY <2>2, <3>1 DEF Speaks
    <3>2. CASE ~chan.hung
      <4>1. t = "api" /\ chan.bug = k
        BY <1>2, <1>3, <2>1, <3>2 DEF Placed
      <4>2. j = k
        BY <1>1, <2>5, <4>1 DEF Speaks
      <4>3. QED BY <2>2, <2>3, <4>1, <4>2 DEF Speaks
    <3>3. QED BY <3>1, <3>2
  <2>6. Placed'
    <3>1. ~chan.hung => thread'["api"].pc = "remove"
      BY <1>3, <2>3
    <3>2. QED BY <2>2, <3>1 DEF Placed
  <2>7. QED BY <2>1, <2>4, <2>5, <2>6, CallersKept
<1>5. CASE t = "api" /\ StopRemoves
  <2>1. /\ thread' = [thread EXCEPT !["api"].pc = "reap"] /\ chan' = Detached
        /\ thread["api"].pc = "remove" /\ UNCHANGED <<made, robbed, early, reaper, pipes, sess>>
    BY <1>5 DEF StopRemoves, historyVars
  <2>2. /\ chan'.bug = chan.bug /\ chan'.hung = chan.hung
        /\ thread'["api"].pc = "reap" /\ thread'["api"].k = thread["api"].k
    BY <1>1, <2>1 DEF Detached, Channel, Thread
  <2>3. \A j \in Pipes : Speaks(j) => Speaks(j)'
    BY <2>1, <2>2 DEF Speaks
  <2>4. QED BY <2>1, <2>2, <2>3, CallersKept DEF Placed
<1>6. CASE StopReaps(t)
  <2> DEFINE q == sess[k].pipe
  <2>1. /\ thread' = [thread EXCEPT ![t].pc = "destroy"] /\ thread[t].pc = "reap"
        /\ sess' = [sess EXCEPT ![k].pipe = NULL, ![k].owner = "free"]
        /\ \/ q = NULL /\ reaper' = reaper
           \/ reaper' = [reaper EXCEPT ![q] = "finish"]
        /\ UNCHANGED <<made, robbed, early, pipes, chan>>
    BY <1>2, <1>6, DeepgramForms DEF StopReaps, WithoutPipe
  <2>2. \A j \in Pipes : /\ reaper[j] = "finish" => reaper'[j] = "finish"
                         /\ j = q => reaper'[j] = "finish"
    BY <1>1, <2>1
  <2>3. \A j \in Pipes : j # k => sess'[j] = sess[j]
    BY <1>1, <2>1
  <2>4. /\ thread'[t].pc = "destroy" /\ (t # "api" => thread'["api"] = thread["api"])
    BY <1>1, <2>1
  <2>5. ASSUME NEW p \in Pipes, NEW j \in Pipes, sess[j].pipe = p, Speaks(j) PROVE Heard(p)'
    <3>1. CASE j = k
      BY <2>2, <2>5, <3>1 DEF Heard, Excused
    <3>2. CASE j # k
      <4>1. chan.bug = NULL
        BY <2>1 DEF Types, HungUp, Stopping
      <4>2. chan.hung
        BY <1>1, <1>2, <1>3, <2>5, <3>2, <4>1 DEF Speaks
      <4>3. Speaks(j)'
        BY <2>1, <4>1, <4>2 DEF Speaks
      <4>4. QED BY <2>3, <2>5, <3>2, <4>3 DEF Heard
    <3>3. QED BY <3>1, <3>2
  <2>6. \A p \in Pipes : pipes'[p].st # "disconnecting" /\ (Over(p) => Over(p)')
                         /\ (Loose(p)' => Loose(p))
    BY <2>1 DEF Held, Straight, Over, Loose
  <2>7. Held'
    <3>1. \A x \in robbed' : x \in robbed
      BY <2>1
    <3>2. robbed \subseteq robbed' /\ early \subseteq early'
      BY <2>1
    <3>3. sess'[k].pipe = NULL
      BY <1>1, <2>1 DEF Session
    <3>4. Fresh'
      BY <2>1, <2>3, <3>3 DEF Held, Fresh, NULL, Types, TypeOK
    <3>5. QED BY <1>1, <2>2, <2>5, <2>6, <3>1, <3>2, <3>4, HeldBy
  <2>8. Placed'
    BY <1>3, <2>1, <2>4 DEF Placed
  <2>9. QED BY <2>7, <2>8
<1>7. CASE StopDestroys(t)
  <2>1. /\ thread' = [thread EXCEPT ![t] = Returned(t)] /\ thread[t].pc = "destroy"
        /\ sess' = [sess EXCEPT ![k].gone = @ + 1]
        /\ UNCHANGED <<made, robbed, early, reaper, pipes, chan>>
    BY <1>2, <1>7 DEF StopDestroys, historyVars
  <2>2. Returned(t).pc \in {"idle", "init"}
    BY DEF Returned, Idle
  <2>3. /\ thread'[t].pc \in {"idle", "init"} /\ (t # "api" => thread'["api"] = thread["api"])
    BY <1>1, <2>1, <2>2
  <2>4. \A j \in Pipes : sess'[j].pipe = sess[j].pipe
    BY <1>1, <2>1 DEF Session
  <2>5. \A j \in Pipes : Speaks(j) => Speaks(j)'
    BY <2>1, <2>3 DEF Speaks
  <2>6. Placed'
    BY <1>3, <2>1, <2>3 DEF Placed
  <2>7. QED BY <2>1, <2>4, <2>5, <2>6, CallersKept
<1>8. QED BY <1>4, <1>5, <1>6, <1>7 DEF StopNext

LEMMA ReuseForms ==
  ASSUME NEW k \in Pipes, Reuse(k)
  PROVE  /\ thread["api"].pc = "init" /\ UNCHANGED <<chan, robbed, early>>
         /\ thread' = [thread EXCEPT !["api"] = Idle] /\ ~chan.hung /\ chan.bug = k
<1>1. CASE ReuseSame(k)
  BY <1>1 DEF ReuseSame, Reuses, historyVars
<1>2. CASE ReuseOther(k)
  BY <1>2 DEF ReuseOther, Reuses, historyVars
<1>3. CASE ReuseFails(k)
  BY <1>3 DEF ReuseFails, Reuses
<1>4. CASE Restart(k)
  BY <1>4 DEF Restart, historyVars
<1>5. QED BY <1>1, <1>2, <1>3, <1>4 DEF Reuse

\* A start that makes a pipe: the pipe is its session's, and the pipe that one
\* had goes to a reaper, or is deleted.
LEMMA StartHeld ==
  ASSUME Types, Held, vendor = "deepgram",
         InitFails \/ InitSession \/ \E k \in Pipes : Reuse(k)
  PROVE  Placed' /\ Held'
<1>1. /\ thread \in [Callers -> Thread] /\ chan \in Channel /\ sess \in [Pipes -> Session]
      /\ pipes \in [Pipes -> Pipe] /\ reaper \in [Pipes -> {"none", "finish", "wait"}]
      /\ "api" \in Callers /\ NULL \notin Pipes /\ made \in 0..MaxPipes
      /\ \A x \in robbed : x[1] \in Pipes
  BY Numbers DEF Types, TypeOK, Callers
<1>2. thread["api"].pc = "init" /\ UNCHANGED <<chan, robbed, early>>
  <2>1. CASE InitFails \/ InitSession
    BY <2>1 DEF InitFails, InitSession, historyVars
  <2>2. ASSUME NEW k \in Pipes, Reuse(k)
        PROVE  thread["api"].pc = "init" /\ UNCHANGED <<chan, robbed, early>>
    BY <2>2, ReuseForms
  <2>3. QED BY <2>1, <2>2
<1>3. Idle.pc = "idle"
  BY DEF Idle
<1>4. PICK p \in Pipes : p = made + 1
  <2>1. made < MaxPipes
    BY <1>2 DEF Types, Numbered
  <2>2. QED BY <1>1, <2>1, Numbers DEF Pipes
<1>5. ~chan.hung => \A k \in Pipes : Speaks(k) => chan.bug = k
  BY <1>2 DEF Speaks
<1>6. \A x \in {Idle, [pc |-> "add", k |-> p, starts |-> FALSE]} :
        thread' = [thread EXCEPT !["api"] = x] => thread'["api"] = x
  BY <1>1
\* One that makes no pipe.
<1>7. ASSUME UNCHANGED <<made, pipes, reaper>>, thread' = [thread EXCEPT !["api"] = Idle],
             \A k \in Pipes : sess'[k].pipe = sess[k].pipe
      PROVE  Placed' /\ Held'
  <2>1. \A k \in Pipes : Speaks(k) => Speaks(k)'
    BY <1>2 DEF Speaks
  <2>2. Placed'
    BY <1>3, <1>6, <1>7 DEF Placed
  <2>3. QED BY <1>2, <1>7, <2>1, <2>2, CallersKept
\* One that makes pipe p, for the session k.
<1>8. ASSUME NEW k \in Pipes, NEW r \in {NewPipe, Deleted},
             made' = p, pipes' = [pipes EXCEPT ![p] = r],
             \A j \in Pipes : j # k => sess'[j] = sess[j],
             sess'[k].pipe \in {sess[k].pipe, NULL, p},
             r = NewPipe => sess'[k].pipe = p /\ Speaks(k)',
             \A j \in Pipes : Speaks(j) => Speaks(j)',
             \A j \in Pipes : reaper[j] = "finish" => reaper'[j] = "finish",
             sess'[k].pipe # sess[k].pipe /\ sess[k].pipe \in Pipes /\ Speaks(k)
               => reaper'[sess[k].pipe] = "finish"
      PROVE  Held'
  <2>1. NewPipe.st = "idle" /\ Deleted.st = "deleted"
    BY PipeForms
  <2>2. \A j \in Pipes : pipes'[j] = IF j = p THEN r ELSE pipes[j]
    BY <1>1, <1>8
  <2>3. p > made /\ ~Over(p)
    BY <1>1, <1>4 DEF Held, Fresh, Over
  <2>4. \A j \in Pipes : pipes'[j].st # "disconnecting" /\ (Over(j) => Over(j)')
    BY <1>8, <2>1, <2>2, <2>3 DEF Over, Held, Straight
  <2>5. ASSUME NEW j \in Pipes, Loose(j)' PROVE Loose(j) \/ Heard(j)'
    <3>1. CASE j = p
      BY <1>8, <2>1, <2>2, <2>5, <3>1 DEF Loose, Heard
    <3>2. CASE j # p
      BY <2>2, <2>5, <3>2 DEF Loose
    <3>3. QED BY <3>1, <3>2
  <2>6. ASSUME NEW j \in Pipes, NEW i \in Pipes, Loose(j)', sess[i].pipe = j, Speaks(i)
        PROVE  Heard(j)'
    <3>1. CASE i = k
      BY <1>8, <2>6, <3>1 DEF Heard, Excused
    <3>2. CASE i # k
      BY <1>8, <2>6, <3>2 DEF Heard
    <3>3. QED BY <3>1, <3>2
  <2>7. Fresh'
    <3>1. \A j \in Pipes : sess'[j].pipe \in 0..made'
      BY <1>1, <1>4, <1>8 DEF Held, Fresh, NULL
    <3>2. \A j \in Pipes : j > made' => pipes'[j].st = "none"
      BY <1>1, <1>4, <1>8, <2>2 DEF Held, Fresh, Pipes
    <3>3. QED BY <3>1, <3>2 DEF Fresh
  <2>8. \A j \in Pipes : reaper[j] = "finish" => reaper'[j] = "finish"
    BY <1>8
  <2>9. robbed \subseteq robbed' /\ early \subseteq early' /\ \A x \in robbed' : x \in robbed
    BY <1>2
  <2>10. QED BY <1>1, <2>4, <2>5, <2>6, <2>7, <2>8, <2>9, HeldBy
<1>9. CASE InitFails
  <2>1. sess' = sess /\ reaper' = reaper /\ thread' = [thread EXCEPT !["api"] = Idle]
    BY <1>9 DEF InitFails
  <2>2. CASE UNCHANGED <<made, pipes>>
    BY <1>7, <2>1, <2>2
  <2>3. CASE made' = made + 1 /\ pipes' = [pipes EXCEPT ![made'] = Deleted] /\ ~chan.hung
    <3>1. \A j \in Pipes : ~Speaks(j)
      BY <1>1, <1>5, <1>9, <2>3 DEF InitFails
    <3>2. Deleted # NewPipe
      BY PipeForms
    <3>3. Held'
      BY <1>4, <1>8, <2>1, <2>3, <3>1, <3>2
    <3>4. Placed'
      BY <1>3, <1>6, <2>1 DEF Placed
    <3>5. QED BY <3>3, <3>4
  <2>4. QED BY <1>9, <2>2, <2>3 DEF InitFails
<1>10. CASE InitSession
  <2> DEFINE v == [NoSession EXCEPT !.pipe = p, !.owner = "free"]
  <2>1. /\ made' = p /\ pipes' = [pipes EXCEPT ![p] = NewPipe] /\ reaper' = reaper
        /\ sess' = [sess EXCEPT ![p] = v] /\ chan.bug = NULL /\ ~chan.hung
        /\ thread' = [thread EXCEPT !["api"] = [pc |-> "add", k |-> p, starts |-> FALSE]]
    BY <1>4, <1>10 DEF InitSession
  <2>2. v.pipe = p
    BY DEF NoSession
  <2> HIDE DEF v
  <2>3. thread'["api"].pc = "add" /\ thread'["api"].k = p
    BY <1>6, <2>1
  <2>4. sess'[p].pipe = p /\ \A j \in Pipes : j # p => sess'[j] = sess[j]
    BY <1>1, <2>1, <2>2
  <2>5. Speaks(p)' /\ \A j \in Pipes : ~Speaks(j)
    BY <1>1, <1>2, <1>5, <2>1, <2>3 DEF Speaks
  <2>6. Held'
    BY <1>8, <2>1, <2>4, <2>5
  <2>7. Placed'
    BY <1>2, <2>1, <2>3 DEF Placed
  <2>8. QED BY <2>6, <2>7
<1>11. ASSUME NEW k \in Pipes, Reuse(k) PROVE Placed' /\ Held'
  <2>1. /\ thread' = [thread EXCEPT !["api"] = Idle] /\ ~chan.hung /\ chan.bug = k
    BY <1>11, ReuseForms
  <2>2. Placed' /\ Speaks(k)' /\ \A j \in Pipes : Speaks(j) => Speaks(j)'
    BY <1>2, <1>3, <1>6, <2>1 DEF Placed, Speaks
  <2>3. CASE ReuseSame(k)
    <3>1. UNCHANGED <<made, pipes, reaper>> /\ sess' = [sess EXCEPT ![k].keep = FALSE]
      BY <2>3 DEF ReuseSame
    <3>2. \A j \in Pipes : sess'[j].pipe = sess[j].pipe
      BY <1>1, <3>1 DEF Session
    <3>3. QED BY <1>7, <2>1, <3>1, <3>2
  <2>4. CASE ReuseOther(k)
    <3>1. /\ made' = p /\ pipes' = [pipes EXCEPT ![p] = NewPipe]
          /\ reaper' = [reaper EXCEPT ![sess[k].pipe] = "finish"]
          /\ sess' = [sess EXCEPT ![k].pipe = p, ![k].keep = FALSE]
      BY <1>4, <2>4 DEF ReuseOther
    <3>2. sess'[k].pipe = p /\ \A j \in Pipes : j # k => sess'[j] = sess[j]
      BY <1>1, <3>1 DEF Session
    <3>3. /\ \A j \in Pipes : reaper[j] = "finish" => reaper'[j] = "finish"
          /\ sess[k].pipe \in Pipes => reaper'[sess[k].pipe] = "finish"
      BY <1>1, <3>1
    <3>4. Held'
      BY <1>8, <2>2, <3>1, <3>2, <3>3
    <3>5. QED BY <2>2, <3>4
  <2>5. CASE ReuseFails(k)
    <3> DEFINE q == sess[k].pipe
    <3>1. /\ made' = made /\ reaper' = reaper /\ pipes' = [pipes EXCEPT ![q] = Deleted]
          /\ sess' = [sess EXCEPT ![k].pipe = NULL]
      BY <2>5 DEF ReuseFails
    <3>2. q \in Pipes /\ q <= made
      <4>1. q # NULL /\ q \in 0..MaxPipes
        BY <1>1, <2>5 DEF ReuseFails, Reuses, Session
      <4>2. QED BY <1>1, <4>1, Numbers DEF Held, Fresh
    <3>3. sess'[k].pipe = NULL /\ \A j \in Pipes : j # k => sess'[j] = sess[j]
      BY <1>1, <3>1 DEF Session
    <3> HIDE DEF q
    <3>4. \A j \in Pipes : pipes'[j] = IF j = q THEN Deleted ELSE pipes[j]
      BY <1>1, <3>1
    <3>5. \A j \in Pipes : /\ pipes'[j].st # "disconnecting" /\ (Over(j) => Over(j)')
                           /\ (Loose(j)' => Loose(j) /\ j # q)
      BY <3>4, PipeForms DEF Over, Loose, Held, Straight
    <3>6. ASSUME NEW j \in Pipes, NEW i \in Pipes, Loose(j)', sess[i].pipe = j, Speaks(i)
          PROVE  Heard(j)'
      <4>1. i # k
        BY <3>5, <3>6 DEF q
      <4>2. QED BY <2>2, <3>3, <3>6, <4>1 DEF Heard
    <3>7. Fresh'
      <4>1. \A j \in Pipes : sess'[j].pipe \in 0..made
        BY <1>1, <3>3 DEF Held, Fresh, NULL
      <4>2. \A j \in Pipes : j > made => j # q
        BY <1>1, <3>2 DEF Pipes
      <4>3. QED BY <3>1, <3>4, <4>1, <4>2 DEF Held, Fresh
    <3>8. robbed \subseteq robbed' /\ early \subseteq early' /\ \A x \in robbed' : x \in robbed
      BY <1>2
    <3>9. Held'
      BY <1>1, <3>1, <3>5, <3>6, <3>7, <3>8, HeldBy
    <3>10. QED BY <2>2, <3>9
  <2>6. CASE Restart(k)
    <3>1. made' = p /\ reaper' = reaper /\ sess[k].pipe = NULL
      BY <1>4, <2>6 DEF Restart
    <3>2. PICK fails \in BOOLEAN :
            /\ pipes' = [pipes EXCEPT ![made'] = IF fails THEN Deleted ELSE NewPipe]
            /\ sess' = [sess EXCEPT ![k] = [NoSession EXCEPT
                          !.pipe = IF fails THEN NULL ELSE made', !.owner = "free"]]
      BY <2>6 DEF Restart
    <3>3. /\ sess'[k].pipe = IF fails THEN NULL ELSE p
          /\ \A j \in Pipes : j # k => sess'[j] = sess[j]
      BY <1>1, <3>1, <3>2 DEF NoSession
    <3>4. Deleted # NewPipe
      BY PipeForms
    <3> DEFINE r == IF fails THEN Deleted ELSE NewPipe
    <3>5. /\ r \in {NewPipe, Deleted} /\ pipes' = [pipes EXCEPT ![p] = r]
          /\ r = NewPipe => sess'[k].pipe = p
      BY <3>1, <3>2, <3>3, <3>4
    <3> HIDE DEF r
    <3>6. Held'
      BY <1>1, <1>8, <2>2, <3>1, <3>3, <3>5
    <3>7. QED BY <2>2, <3>6
  <2>7. QED BY <1>11, <2>3, <2>4, <2>5, <2>6 DEF Reuse
<1>12. QED BY <1>9, <1>10, <1>11

\* In deepgram a late end takes a later session's pipe only if its reaper came
\* too early or has not come, or its own pipe had been taken before: however
\* many sessions follow one another, and however their ends are delayed.
THEOREM NewSessionSparedHolds == Spec => []NewSessionSpared
<1>1. Init => Spared
  <2> SUFFICES ASSUME Init PROVE Placed /\ Held
    BY DEF Spared
  <2>1. /\ \A k \in Pipes : pipes[k].st = "none" /\ sess[k].pipe = NULL
        /\ thread["api"].pc = "idle" /\ robbed = {} /\ made = 0
    <3>1. NoPipe.st = "none" /\ NoSession.pipe = NULL
      BY PipeForms DEF NoSession
    <3>2. thread["api"] = Idle
      BY DEF Init, Callers
    <3>3. \A k \in Pipes : pipes[k] = NoPipe /\ sess[k] = NoSession
      BY DEF Init
    <3>4. robbed = {} /\ made = 0
      BY DEF Init
    <3>5. QED BY <3>1, <3>2, <3>3, <3>4, ThreadForms
  <2>2. Placed /\ Kept /\ Robbers /\ Straight /\ Fresh
    BY <2>1 DEF Placed, Kept, Loose, Robbers, Straight, Fresh, NULL
  <2>3. QED BY <2>2 DEF Held
<1>2. Types /\ Spared /\ [Next]_vars => Spared'
  <2> SUFFICES ASSUME Types, Spared, [Next]_vars, vendor' = "deepgram" PROVE Placed' /\ Held'
    BY DEF Spared
  <2>1. UNCHANGED vendor
    BY SettingKept
  <2>2. vendor = "deepgram" /\ Placed /\ Held
    BY <2>1 DEF Spared
  <2>3. CASE UNCHANGED vars
    <3>1. UNCHANGED <<chan, thread, robbed, early, reaper, made, pipes, sess>>
      BY <2>3 DEF vars
    <3>2. Placed'
      BY <2>2, <3>1 DEF Placed
    <3>3. \A k \in Pipes : Speaks(k) => Speaks(k)'
      BY <3>1 DEF Speaks
    <3>4. QED BY <2>2, <3>1, <3>2, <3>3, CallersKept
  <2>4. ASSUME UNCHANGED <<chan, thread>> PROVE Placed'
    BY <2>2, <2>4 DEF Placed
  <2>5. CASE WaitCancelled
    BY <2>2, <2>4, <2>5, WaitHeld DEF WaitCancelled
  <2>6. CASE FrameEnters \/ FrameGoesOn
    <3>1. UNCHANGED <<chan, thread>>
      BY <2>6 DEF FrameEnters, FrameGoesOn, FrameGivesUp, FrameLocks, FrameWrites, FramePings
    <3>2. QED BY <2>2, <2>4, <2>6, <3>1, FramesHeld
  <2>7. ASSUME NEW p \in Pipes, ReaperNext(p) PROVE Placed' /\ Held'
    <3>1. UNCHANGED <<chan, thread>>
      BY <2>7 DEF ReaperNext, ReaperFinishes, ReaperDeletes
    <3>2. QED BY <2>2, <2>4, <2>7, <3>1, ReaperHeld
  <2>8. ASSUME NEW p \in Pipes, ServiceNext(p) PROVE Placed' /\ Held'
    <3>1. UNCHANGED <<chan, thread>>
      BY <2>8 DEF ServiceNext, ConnectionError, Established, Closed, Receive, Writeable, WriteText,
                  WriteEnd, WriteAudio
    <3>2. Held'
      BY <2>2, <2>8, EstablishedHeld, WritesHeld, EndsHeld DEF ServiceNext, Writeable
    <3>3. QED BY <2>4, <3>1, <3>2
  <2>9. CASE Next
    BY <2>2, <2>5, <2>6, <2>7, <2>8, <2>9, CallsHeld, StopsHeld, StartHeld DEF Next, ApiNext
  <2>10. QED BY <2>3, <2>9
<1>3. Spared => NewSessionSpared
  BY DEF Spared, Held, Robbers, NewSessionSpared
<1>4. QED BY <1>1, <1>2, <1>3, InitTypes, NextTypes, PTL DEF Spec
=============================================================================
