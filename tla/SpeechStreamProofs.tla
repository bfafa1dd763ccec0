------------------------- MODULE SpeechStreamProofs -------------------------
(***************************************************************************)
(* Proofs about SpeechStream for any of the modules and any number of      *)
(* sessions.                                                               *)
(***************************************************************************)
EXTENDS SpeechStream, TLAPS

-----------------------------------------------------------------------------
(* The invariant.                                                          *)

Readers == {"none", "end"} \cup Reading \cup Working
Mode == [vad : BOOLEAN, single : BOOLEAN]
Grpc == vendor \notin Sdk

\* What a stop does from the mutex on, and what it does before.
Joining == {"tell", "done", "finish", "join"}
Joins(t, k) == thread[t].k = k /\ thread[t].pc \in Joining
Seeks(t, k) == thread[t].k = k /\ thread[t].pc \in {"find", "lock"}

Shape ==
  /\ vendor \in Vendors /\ mode \in Mode
  /\ chan \in Channel /\ sess \in [Sessions -> Session] /\ made \in 0..MaxSessions
  /\ thread \in [Callers -> Thread] /\ media \in Media /\ reader \in [Sessions -> Readers]
  /\ \A t \in Callers : thread[t].pc \notin {"idle", "init"} => thread[t].k # NULL

\* Until its bug is added only the start and its own thread know a session.
Fresh(k) ==
  /\ chan.bug # k /\ chan.attached # k /\ media.k # k /\ thread["hup"].k # k
  /\ sess[k].owner = "free" /\ ~sess[k].joined /\ ~sess[k].gone
  /\ ~mode.single => ~sess[k].done
  /\ Grpc => sess[k].obj # "deleted"

Numbered ==
  /\ chan.bug \in 0..made /\ chan.attached \in 0..made /\ media.k \in 0..made
  /\ \A t \in Callers : thread[t].k \in 0..made
  /\ \A k \in Sessions : k > made => sess[k] = NoSession /\ reader[k] = "none"
  /\ thread["api"].starts \/ thread["api"].pc = "init" => made < MaxSessions
  /\ thread["api"].pc = "add" => Fresh(thread["api"].k)

\* Once the call is hung up no frame enters; only then does the hang-up's thread
\* run.  The call's memory is gone when no call is in progress.
HungUp ==
  /\ chan.hung => chan.attached = NULL /\ media.pc = "idle"
  /\ ~chan.hung => thread["hup"].pc = "idle"
  /\ media.pc = "idle" => media.k = NULL
  /\ media.pc # "idle" => media.k # NULL
  /\ chan.destroyed => /\ chan.hung /\ chan.bug = NULL
                       /\ \A t \in Callers : thread[t].pc = "idle"

\* A session r and the place x of its thread, in the module at hand.  In the gRPC
\* modules the streamer lives as long as its reader; lex's is deleted when its
\* stream has ended.
Proper(r, x) ==
  /\ x \in Reading => Grpc
  /\ x \in Working => ~Grpc
  /\ x = "quit" => mode.single
  /\ x = "finish" => ~r.finished \/ vendor = "dialogflow"
  /\ Grpc => r.link # "asked"
  /\ r.played => vendor = "lex"
  /\ vendor = "nuance" /\ ~mode.vad /\ r.ptr => r.link # "none"
  /\ vendor = "dialogflow" => r.told
  /\ vendor = "lex" /\ ~r.orphan /\ (r.obj = "deleted" \/ x \in {"clear", "end"}) => r.ended
  /\ Grpc => \/ x = "end"
             \/ r.ptr /\ r.obj # "deleted"
             \/ r.orphan /\ vendor = "dialogflow"
  /\ r.gone => vendor = "verbio"

\* The mutex has one owner; no frame comes for a stream that is done or gone once
\* its owner has let go.
Mutexes ==
  /\ \A t \in Callers : Joins(t, thread[t].k) \/ thread[t].pc = "remove" => sess[thread[t].k].owner = t
  /\ media.pc = "write" => sess[media.k].owner = "media"
  /\ \A k \in Sessions : (sess[k].done /\ ~mode.single) \/ (Grpc /\ sess[k].obj = "deleted") =>
       sess[k].owner \in Callers \/ (chan.attached # k /\ media.k # k)
  /\ \A t \in Callers : thread[t].pc = "done" /\ ~mode.single /\ vendor # "dialogflow" =>
       ~sess[thread[t].k].done
  /\ \A t \in Callers : thread[t].pc = "finish" => vendor = "dialogflow"
  /\ \A t \in Callers : thread[t].pc = "destroy" => vendor = "verbio"

\* The thread of a session that is over uses the call's memory no more, or is one
\* that nobody joins.
Over(k) == reader[k] = "end" \/ sess[k].orphan

\* The channel's private is the bug that is attached, or the one a stop is at; a
\* session that is not over is still to be joined.
Bugs ==
  /\ \A t \in Callers : Seeks(t, thread[t].k) \/ Joins(t, thread[t].k) =>
       chan.bug \in {NULL, thread[t].k}
  /\ \A t \in Callers : thread[t].pc \in {"remove", "destroy"} => chan.bug = NULL /\ Over(thread[t].k)
  /\ \A t \in Callers : Joins(t, thread[t].k) => chan.bug = NULL \/ StopOf[vendor].late
  /\ thread["api"].pc \in {"init", "add"} => chan.bug = NULL
  /\ ~chan.hung => chan.bug \in {NULL, chan.attached}
  /\ chan.attached # NULL => chan.bug \in {NULL, chan.attached}
  /\ \A k \in Sessions : sess[k].gone => chan.bug # k /\ Over(k)
  /\ chan.hung /\ chan.bug # NULL => \E t \in Callers : Seeks(t, chan.bug) \/ Joins(t, chan.bug)
  /\ \A k \in Sessions : k <= made =>
       \/ chan.bug = k \/ Over(k) \/ \E t \in Callers : Joins(t, k)
       \/ thread["api"].pc = "add" /\ thread["api"].k = k

\* The second look at the bug keeps a session from being joined twice.
Once ==
  vendor # "verbio" /\ ~StopOf[vendor].late =>
    /\ chan.bug # NULL => ~sess[chan.bug].joined /\ sess[chan.bug].owner \notin Callers
    /\ \A t \in Callers : Joins(t, thread[t].k) => ~sess[thread[t].k].joined

Recorded == hurt \subseteq (1..made) \X Misuses /\ StreamSafe

Inv ==
  /\ Shape /\ Numbered /\ HungUp
  /\ \A k \in Sessions : k <= made => Proper(sess[k], reader[k])
  /\ Mutexes /\ Bugs /\ Once /\ Recorded

-----------------------------------------------------------------------------
(* Numbers, records and the vendors' tables.                               *)

LEMMA Numbers ==
  /\ MaxSessions \in Nat /\ NULL \in 0..MaxSessions /\ Sessions \subseteq 0..MaxSessions
  /\ NULL \notin Sessions /\ 0..MaxSessions = Sessions \cup {NULL}
  BY ConstantsAssumption DEF Sessions, NULL

LEMMA ThreadForms ==
  /\ Idle \in Thread /\ Idle.pc = "idle" /\ Idle.k = NULL /\ ~Idle.starts
  /\ [Idle EXCEPT !.pc = "init"] \in Thread
  /\ [Idle EXCEPT !.pc = "init"].pc = "init" /\ [Idle EXCEPT !.pc = "init"].k = NULL
  /\ ~[Idle EXCEPT !.pc = "init"].starts
  BY Numbers DEF Idle, Thread

LEMMA SessionForms ==
  /\ NoSession \in Session
  /\ NoSession.obj = "none" /\ NoSession.link = "none" /\ NoSession.owner = "none"
  /\ ~NoSession.ptr /\ ~NoSession.told /\ ~NoSession.done /\ ~NoSession.ended
  /\ ~NoSession.finished /\ ~NoSession.played /\ ~NoSession.joined /\ ~NoSession.orphan
  /\ ~NoSession.gone
  BY DEF NoSession, Session

LEMMA ConnectForms ==
  \A v \in AllVendors : /\ ConnectOf[v].link \in {"up", "asked"}
                        /\ ConnectOf[v].link = "asked" => v \in Sdk
                        /\ ~ConnectOf[v].keeps => v \in {"dialogflow", "lex"}
<1>1. \A v \in {"google1", "google2", "nuance", "nvidia", "soniox", "cobalt", "verbio"} :
        ConnectOf[v].link = "up" /\ ConnectOf[v].keeps
  BY DEF ConnectOf, GoogleConnect, NuanceConnect, NvidiaConnect, SonioxConnect, CobaltConnect,
         VerbioConnect
<1>2. ConnectOf["dialogflow"].link = "up"
  BY DEF ConnectOf, DialogflowConnect
<1>3. ConnectOf["aws"].link = "asked" /\ ConnectOf["aws"].keeps /\ ConnectOf["lex"].link = "asked"
  BY DEF ConnectOf, AwsConnect, LexConnect
<1>4. QED BY <1>1, <1>2, <1>3 DEF AllVendors, Google, Sdk

LEMMA InitForms ==
  \A v \in AllVendors : /\ InitOf[v].vad \subseteq BOOLEAN
                        /\ InitOf[v].makes <=> v \notin Sdk
                        /\ ReaderOf[v].utterance \in BOOLEAN
<1>1. \A v \in {"google1", "google2", "nuance", "nvidia", "soniox", "cobalt"} :
        InitOf[v].vad = BOOLEAN /\ InitOf[v].makes
  BY DEF InitOf, GoogleInit, NuanceInit, NvidiaInit, SonioxInit, CobaltInit
<1>2. /\ InitOf["verbio"].vad = {FALSE} /\ InitOf["verbio"].makes
      /\ InitOf["dialogflow"].vad = {FALSE} /\ InitOf["dialogflow"].makes
      /\ InitOf["aws"].vad = BOOLEAN /\ ~InitOf["aws"].makes
      /\ InitOf["lex"].vad = {FALSE} /\ ~InitOf["lex"].makes
  BY DEF InitOf, VerbioInit, DialogflowInit, AwsInit, LexInit
<1>3. /\ ReaderOf["google1"].utterance /\ ReaderOf["google2"].utterance
      /\ \A v \in {"nuance", "nvidia", "soniox", "cobalt", "verbio", "dialogflow", "aws", "lex"} :
           ReaderOf[v].utterance = FALSE
  BY DEF ReaderOf, Google1Reader, Google2Reader, NuanceReader,
         NvidiaReader, SonioxReader, CobaltReader, VerbioReader, DialogflowReader, NoReader
<1>4. QED BY <1>1, <1>2, <1>3 DEF AllVendors, Google, Sdk

LEMMA SetupForms ==
  SetupOf["dialogflow"].opens # "no"
  BY DEF SetupOf, DialogflowSetup

LEMMA StartForms ==
  \A v \in AllVendors : StartOf[v].kills => v \in {"dialogflow", "lex"}
<1>1. \A v \in {"google1", "google2", "nuance", "nvidia", "soniox", "cobalt", "verbio", "aws"} :
        ~StartOf[v].kills
  BY DEF StartOf, GoogleStart, NuanceStart, NvidiaStart, SonioxStart, CobaltStart, VerbioStart,
         AwsStart
<1>2. QED BY <1>1 DEF AllVendors, Google, Sdk

\* A stop that looks the bug up finds none or goes on with it; the others look it
\* up again under the mutex, and forget it there.
LEMMA StopForms ==
  \A v \in AllVendors : /\ StopOf[v].tells = "both" => v = "dialogflow"
                        /\ StopOf[v].destroys => v = "verbio"
                        /\ StopOf[v].finds # "passed" => StopOf[v].late \/ v = "verbio"
                        /\ StopOf[v].late => ~StopOf[v].rechecks
                        /\ ~StopOf[v].late /\ v # "verbio" => StopOf[v].rechecks
                        /\ EndOf[v].once \/ v = "dialogflow"
<1>1. \A v \in {"google1", "google2", "nuance", "nvidia", "soniox", "cobalt"} :
        /\ StopOf[v].tells = "writesDone" /\ ~StopOf[v].destroys /\ StopOf[v].finds = "passed"
        /\ ~StopOf[v].late /\ StopOf[v].rechecks
  BY DEF StopOf, GoogleStop, NuanceStop, NvidiaStop, SonioxStop, CobaltStop
<1>2. /\ StopOf["verbio"].tells = "writesDone" /\ ~StopOf["verbio"].late
      /\ ~StopOf["verbio"].rechecks
  BY DEF StopOf, VerbioStop
<1>3. /\ ~StopOf["dialogflow"].destroys /\ StopOf["dialogflow"].late
      /\ ~StopOf["dialogflow"].rechecks
  BY DEF StopOf, DialogflowStop
<1>4. /\ StopOf["aws"].tells = "waits" /\ ~StopOf["aws"].destroys /\ StopOf["aws"].late
      /\ StopOf["lex"].tells = "finish" /\ ~StopOf["lex"].destroys /\ StopOf["lex"].late
      /\ ~StopOf["aws"].rechecks /\ ~StopOf["lex"].rechecks
  BY DEF StopOf, AwsStop, LexStop
<1>5. \A v \in {"google1", "google2", "nuance", "nvidia", "soniox", "cobalt", "verbio", "aws", "lex"} :
        EndOf[v].once
  BY DEF EndOf, GoogleEnd, NuanceEnd, NvidiaEnd, SonioxEnd, CobaltEnd, VerbioEnd, AwsEnd, LexEnd
<1>6. QED BY <1>1, <1>2, <1>3, <1>4, <1>5 DEF AllVendors, Google, Sdk

LEMMA KnownForms ==
  \A k \in Sessions :
    /\ mode.single \/ vendor = "dialogflow" => "twice" \in Known(k)
    /\ mode.single => "late" \in Known(k)
    /\ vendor = "lex" \/ (vendor = "nuance" /\ mode.vad) => "null" \in Known(k)
    /\ vendor \in Sdk \/ (sess[k].orphan /\ vendor = "dialogflow") => "deleted" \in Known(k)
    /\ vendor = "aws" \/ (vendor = "lex" /\ sess[k].orphan) => "callback" \in Known(k)
    /\ vendor = "verbio" => {"mutex", "again"} \subseteq Known(k)
    /\ sess[k].orphan => "pool" \in Known(k)
  BY DEF Known

\* What a step adds to the history is known, and what is known stays so.
LEMMA RecordedKept ==
  ASSUME Recorded, NEW k \in Sessions, k <= made, made' \in Nat, made \in Nat, made <= made',
         NEW W \in SUBSET Misuses, W \subseteq Known(k), Hurt(k, W), UNCHANGED <<vendor, mode>>,
         \A j \in Sessions : j <= made /\ sess[j].orphan => sess'[j].orphan,
         1..made \subseteq Sessions
  PROVE  Recorded'
<1>1. hurt' = hurt \cup ({k} \X W)
  BY DEF Hurt
<1>2. \A j \in 1..made : Known(j) \subseteq Known(j)'
  BY DEF Known
<1>3. k \in 1..made /\ 1..made \subseteq 1..made'
  BY DEF Sessions
<1>4. hurt' \subseteq (1..made') \X Misuses
  BY <1>1, <1>3 DEF Recorded
<1>5. \A h \in hurt' : h[1] \in 1..made /\ h[2] \in Known(h[1])
  BY <1>1, <1>3 DEF Recorded, StreamSafe
<1>6. StreamSafe'
  BY <1>2, <1>5 DEF StreamSafe
<1>7. QED BY <1>4, <1>6 DEF Recorded

LEMMA RecordedSame ==
  ASSUME Recorded, made' \in Nat, made \in Nat, made <= made',
         UNCHANGED <<vendor, mode, hurt>>, 1..made \subseteq Sessions,
         \A j \in Sessions : j <= made /\ sess[j].orphan => sess'[j].orphan
  PROVE  Recorded'
<1>1. \A j \in 1..made : Known(j) \subseteq Known(j)'
  BY DEF Known
<1>2. \A h \in hurt : h[1] \in 1..made /\ h[2] \in Known(h[1])
  BY DEF Recorded, StreamSafe
<1>3. StreamSafe'
  BY <1>1, <1>2 DEF StreamSafe
<1>4. QED BY <1>3 DEF Recorded

-----------------------------------------------------------------------------
(* Steps of one session: its thread, the far end, and commands that only       *)
(* write to it.                                                            *)

Same(v, r) ==
  v.owner = r.owner /\ v.joined = r.joined /\ v.gone = r.gone /\ v.orphan = r.orphan

LEMMA SessionKept ==
  ASSUME Inv, NEW k \in Sessions, k <= made, NEW v \in Session, NEW x \in Readers,
         NEW W \in SUBSET Misuses, W \subseteq Known(k), Hurt(k, W),
         sess' = [sess EXCEPT ![k] = v], reader' = [reader EXCEPT ![k] = x],
         UNCHANGED <<vendor, mode, chan, made, thread, media>>,
         Same(v, sess[k]), v.done => sess[k].done \/ mode.single,
         Grpc => v.obj = sess[k].obj, Proper(v, x), reader[k] = "end" => x = "end"
  PROVE  Inv'
<1>1. /\ sess \in [Sessions -> Session] /\ reader \in [Sessions -> Readers] /\ made \in 0..MaxSessions
      /\ MaxSessions \in Nat /\ Numbered /\ HungUp /\ Mutexes /\ Bugs /\ Once /\ Recorded
      /\ \A t \in Callers : thread[t].k \in 0..made /\ (thread[t].pc \notin {"idle", "init"} => thread[t].k \in Sessions)
  BY Numbers DEF Inv, Shape, Numbered, Sessions, NULL
<1>2. /\ \A j \in Sessions : sess'[j] = IF j = k THEN v ELSE sess[j]
      /\ \A j \in Sessions : reader'[j] = IF j = k THEN x ELSE reader[j]
      /\ sess' \in [Sessions -> Session] /\ reader' \in [Sessions -> Readers]
  BY <1>1
<1>3. \A j \in Sessions : Same(sess'[j], sess[j])
  BY <1>2 DEF Same
<1>4. Shape'
  BY <1>2 DEF Inv, Shape
<1>5. Numbered'
  <2>1. thread["api"].pc = "add" => Fresh(thread["api"].k)'
    <3> SUFFICES ASSUME thread["api"].pc = "add" PROVE Fresh(thread["api"].k)'
      OBVIOUS
    <3>1. Fresh(thread["api"].k) /\ thread["api"].k \in Sessions
      BY <1>1 DEF Numbered, Callers
    <3>2. QED BY <1>2, <1>3, <3>1 DEF Fresh, Same, Grpc
  <2>2. \A j \in Sessions : j > made => j # k
    BY <1>1 DEF Sessions
  <2>3. QED BY <1>1, <1>2, <2>1, <2>2 DEF Numbered
<1>6. HungUp'
  BY <1>1 DEF HungUp
<1>7. \A j \in Sessions : j <= made => Proper(sess[j], reader[j])'
  <2>1. \A j \in Sessions : j <= made => Proper(sess'[j], reader'[j])
    BY <1>2 DEF Inv
  <2>2. QED BY <2>1 DEF Proper, Grpc
<1>8. Mutexes'
  <2>1. \A j \in Sessions : (sess'[j].done /\ ~mode.single) \/ (Grpc /\ sess'[j].obj = "deleted")
                             => (sess[j].done /\ ~mode.single) \/ (Grpc /\ sess[j].obj = "deleted")
    BY <1>2
  <2>2. \A j \in Sessions : sess'[j].done /\ ~mode.single => sess[j].done
    BY <1>2
  <2>3. media.pc = "write" => media.k \in Sessions
    BY <1>1, Numbers DEF HungUp, Inv, Shape, Media
  <2>4. QED BY <1>1, <1>3, <2>1, <2>2, <2>3 DEF Mutexes, Same, Grpc, Joins, Joining
<1>9. \A j \in Sessions : Over(j) => Over(j)'
  BY <1>2, <1>3 DEF Over, Same
<1>10. Bugs'
  BY <1>1, <1>3, <1>9 DEF Bugs, Same, Seeks, Joins, Joining
<1>11. Once'
  <2>1. chan.bug # NULL => chan.bug \in Sessions
    BY Numbers DEF Inv, Shape, Channel
  <2>2. QED BY <1>1, <1>3, <2>1 DEF Once, Same, Joins, Joining
<1>12. Recorded'
  BY <1>1, <1>3, RecordedKept DEF Same, Sessions
<1>13. QED BY <1>4, <1>5, <1>6, <1>7, <1>8, <1>10, <1>11, <1>12 DEF Inv

\* A thread that has begun is of a session that was made.
LEMMA ReaderIsMade ==
  ASSUME Inv, NEW k \in Sessions, reader[k] # "none" \/ sess[k].link # "none"
  PROVE  k <= made
  BY SessionForms, Numbers DEF Inv, Shape, Numbered, Sessions

LEMMA ReaderTypes ==
  ASSUME Inv, NEW k \in Sessions
  PROVE  /\ sess[k] \in Session /\ reader[k] \in Readers /\ vendor \in AllVendors
         /\ k <= made => Proper(sess[k], reader[k])
  BY ConstantsAssumption DEF Inv, Shape

\* A use of a session that changes nothing in it.
LEMMA UseKept ==
  ASSUME Inv, NEW k \in Sessions, k <= made, NEW x \in Readers, NEW W \in SUBSET Misuses,
         W \subseteq Known(k), Hurt(k, W), reader' = [reader EXCEPT ![k] = x],
         UNCHANGED <<vendor, mode, chan, sess, made, thread, media>>,
         Proper(sess[k], x), reader[k] = "end" => x = "end"
  PROVE  Inv'
<1>1. sess[k] \in Session /\ sess' = [sess EXCEPT ![k] = sess[k]]
  BY DEF Inv, Shape
<1>2. QED BY <1>1, SessionKept DEF Same

\* What a step that looks at the streamer and at the call's memory may find.
LEMMA UsesKnown ==
  ASSUME Inv, NEW k \in Sessions, k <= made, reader[k] # "end"
  PROVE  /\ If(chan.destroyed, "pool") \subseteq Known(k)
         /\ If(IsDeleted(k), "deleted") \subseteq Known(k)
         /\ If(chan.destroyed, "pool") \in SUBSET Misuses
         /\ If(IsDeleted(k), "deleted") \in SUBSET Misuses
<1>1. chan.destroyed => sess[k].orphan
  <2> SUFFICES ASSUME chan.destroyed PROVE sess[k].orphan
    OBVIOUS
  <2>1. chan.bug = NULL /\ \A t \in Callers : thread[t].pc = "idle"
    BY DEF Inv, HungUp
  <2>2. k # NULL /\ ~\E t \in Callers : Joins(t, k)
    BY <2>1, Numbers DEF Joins, Joining
  <2>3. QED BY <2>1, <2>2 DEF Inv, Bugs, Over, Callers
<1>2. IsDeleted(k) => vendor \in Sdk \/ (sess[k].orphan /\ vendor = "dialogflow")
  BY DEF Inv, Proper, IsDeleted, Grpc
<1>3. /\ If(chan.destroyed, "pool") \subseteq Known(k)
      /\ If(IsDeleted(k), "deleted") \subseteq Known(k)
  BY <1>1, <1>2, KnownForms DEF If
<1>4. QED BY <1>3 DEF If, Misuses

LEMMA ReaderKept ==
  ASSUME Inv, NEW k \in Sessions, ReaderNext(k) \/ ReaderGets(k)
  PROVE  Inv'
<1>1. /\ sess[k] \in Session /\ reader[k] \in Readers /\ vendor \in AllVendors /\ k <= made
      /\ Proper(sess[k], reader[k]) /\ mode.single \in BOOLEAN
  BY ReaderIsMade, ReaderTypes DEF ReaderNext, ReaderStarts, ReaderGets, ReaderDelivers,
     ReaderGetsError, ReaderGetsUtterance, ReaderQuits, ReaderEnds, ReaderFinishes, Inv, Shape, Mode
<1>2. {} \in SUBSET Misuses /\ {} \subseteq Known(k)
  OBVIOUS
<1>3. \A x \in {"end", "read", "result"} : reader[k] \in Reading => x \in Readers /\ Proper(sess[k], x)
  BY <1>1 DEF Readers, Reading, Working, Proper, Grpc, Sdk
<1>4. ASSUME NEW x \in {"end", "read", "result"}, Uses(k), reader' = [reader EXCEPT ![k] = x],
             reader[k] \in Reading, UNCHANGED <<vendor, mode, chan, sess, made, thread, media>>
      PROVE  Inv'
  <2> DEFINE W == If(IsDeleted(k), "deleted") \cup If(chan.destroyed, "pool")
  <2>1. reader[k] # "end"
    BY <1>4 DEF Reading
  <2>2. W \in SUBSET Misuses /\ W \subseteq Known(k) /\ Hurt(k, W)
    BY <1>1, <1>4, <2>1, UsesKnown DEF Uses
  <2> HIDE DEF W
  <2>3. QED BY <1>1, <1>3, <1>4, <2>1, <2>2, UseKept
<1>5. CASE ReaderStarts(k)
  BY <1>4, <1>5 DEF ReaderStarts, Reading
<1>6. CASE ReaderGets(k)
  BY <1>4, <1>6 DEF ReaderGets, Reading
<1>7. CASE ReaderDelivers(k)
  <2>1. Hurt(k, {}) /\ reader[k] \in Reading /\ reader[k] # "end"
    BY <1>7 DEF ReaderDelivers, Hurt, Reading
  <2>2. QED BY <1>1, <1>2, <1>3, <1>7, <2>1, UseKept DEF ReaderDelivers
<1>8. CASE ReaderGetsError(k)
  <2> DEFINE v == [sess[k] EXCEPT !.leaked = @ \/ ReaderOf[vendor].error = "keepsLock"]
             x == IF ReaderOf[vendor].error = "leaves" THEN "end" ELSE "read"
  <2>1. sess' = [sess EXCEPT ![k] = v] /\ reader' = [reader EXCEPT ![k] = x] /\ Hurt(k, {})
        /\ reader[k] \in Reading /\ reader[k] # "end"
    BY <1>8 DEF ReaderGetsError, Hurt, Reading
  <2>2. v \in Session /\ Same(v, sess[k]) /\ v.done = sess[k].done /\ v.obj = sess[k].obj
    BY <1>1 DEF Session, Same
  <2>3. Proper(v, x) /\ x \in Readers
    BY <1>1, <2>1 DEF Proper, Session, Readers, Reading, Working, Grpc, Sdk
  <2> HIDE DEF v, x
  <2>4. QED BY <1>1, <1>2, <1>8, <2>1, <2>2, <2>3, SessionKept DEF ReaderGetsError
<1>9. CASE ReaderGetsUtterance(k)
  <2> DEFINE v == [sess[k] EXCEPT !.utter = TRUE]
             x == IF sess[k].done THEN "read" ELSE "quit"
  <2>1. sess' = [sess EXCEPT ![k] = v] /\ reader' = [reader EXCEPT ![k] = x] /\ Hurt(k, {})
        /\ reader[k] \in Reading /\ reader[k] # "end" /\ mode.single
    BY <1>9 DEF ReaderGetsUtterance, Hurt, Reading
  <2>2. v \in Session /\ Same(v, sess[k]) /\ v.done = sess[k].done /\ v.obj = sess[k].obj
    BY <1>1 DEF Session, Same
  <2>3. Proper(v, x) /\ x \in Readers
    BY <1>1, <2>1 DEF Proper, Session, Readers, Reading, Working
  <2> HIDE DEF v, x
  <2>4. QED BY <1>1, <1>2, <1>9, <2>1, <2>2, <2>3, SessionKept DEF ReaderGetsUtterance
<1>10. CASE ReaderQuits(k)
  <2> DEFINE v == [sess[k] EXCEPT !.done = TRUE]
             W == If(sess[k].done, "twice")
  <2>1. sess' = [sess EXCEPT ![k] = v] /\ reader' = [reader EXCEPT ![k] = "read"] /\ Hurt(k, W)
        /\ reader[k] \in Reading /\ reader[k] # "end" /\ mode.single
    BY <1>1, <1>10 DEF ReaderQuits, Reading, Proper
  <2>2. v \in Session /\ Same(v, sess[k]) /\ v.obj = sess[k].obj
    BY <1>1 DEF Session, Same
  <2>3. Proper(v, "read") /\ "read" \in Readers
    BY <1>1, <2>1 DEF Proper, Session, Readers, Reading, Working
  <2>4. W \in SUBSET Misuses /\ W \subseteq Known(k)
    BY <2>1, KnownForms DEF If, Misuses
  <2> HIDE DEF v, W
  <2>5. QED BY <1>1, <1>10, <2>1, <2>2, <2>3, <2>4, SessionKept DEF ReaderQuits
<1>11. CASE ReaderEnds(k)
  <2>1. CASE ReaderOf[vendor].finishes /\ ~chan.hung /\ ~sess[k].finished
    <3> DEFINE W == If(IsDeleted(k), "deleted") \cup If(chan.destroyed, "pool")
    <3>1. reader' = [reader EXCEPT ![k] = "finish"] /\ reader[k] = "read" /\ Hurt(k, W)
      BY <1>11, <2>1 DEF ReaderEnds, Uses
    <3>2. W \in SUBSET Misuses /\ W \subseteq Known(k)
      BY <1>1, <3>1, UsesKnown
    <3>3. Proper(sess[k], "finish") /\ "finish" \in Readers
      BY <1>1, <2>1, <3>1 DEF Proper, Readers, Reading, Working
    <3> HIDE DEF W
    <3>4. QED BY <1>1, <1>11, <3>1, <3>2, <3>3, UseKept DEF ReaderEnds
  <2>2. CASE ~(ReaderOf[vendor].finishes /\ ~chan.hung /\ ~sess[k].finished)
    BY <1>4, <1>11, <2>2 DEF ReaderEnds, Reading
  <2>3. QED BY <2>1, <2>2
<1>12. CASE ReaderFinishes(k)
  <2> DEFINE v == [sess[k] EXCEPT !.finished = TRUE]
             W == If(sess[k].finished, "twice") \cup If(IsDeleted(k), "deleted")
  <2>1. sess' = [sess EXCEPT ![k] = v] /\ reader' = [reader EXCEPT ![k] = "end"] /\ Hurt(k, W)
        /\ reader[k] = "finish"
    BY <1>12 DEF ReaderFinishes
  <2>2. v \in Session /\ Same(v, sess[k]) /\ v.done = sess[k].done /\ v.obj = sess[k].obj
    BY <1>1 DEF Session, Same
  <2>3. Proper(v, "end") /\ "end" \in Readers
    BY <1>1, <2>1 DEF Proper, Session, Readers, Reading, Working, Grpc, Sdk
  <2>4. sess[k].finished => "twice" \in Known(k)
    BY <1>1, <2>1, KnownForms DEF Proper
  <2>5. W \in SUBSET Misuses /\ W \subseteq Known(k)
    BY <1>1, <2>1, <2>4, UsesKnown DEF If, Misuses
  <2> HIDE DEF v, W
  <2>6. QED BY <1>1, <1>12, <2>1, <2>2, <2>3, <2>5, SessionKept DEF ReaderFinishes
<1>13. QED BY <1>5, <1>6, <1>7, <1>8, <1>9, <1>10, <1>11, <1>12 DEF ReaderNext

LEMMA FarEndKept ==
  ASSUME Inv, NEW k \in Sessions, FarEndEnds(k) \/ StreamReady(k)
  PROVE  Inv'
<1>1. /\ sess[k] \in Session /\ reader[k] \in Readers /\ vendor \in AllVendors /\ k <= made
      /\ Proper(sess[k], reader[k]) /\ reader \in [Sessions -> Readers]
  BY ReaderIsMade, ReaderTypes DEF FarEndEnds, StreamReady, Open, Inv, Shape
<1>2. reader = [reader EXCEPT ![k] = reader[k]]
  BY <1>1
<1>3. IsDeleted(k) /\ ~sess[k].ended /\ vendor \in Sdk => "callback" \in Known(k)
  BY <1>1, KnownForms DEF IsDeleted, Proper, Sdk
<1>4. CASE FarEndEnds(k)
  <2> DEFINE v == [sess[k] EXCEPT !.ended = TRUE]
             W == If(vendor \in Sdk /\ IsDeleted(k), "callback")
  <2>1. sess' = [sess EXCEPT ![k] = v] /\ reader' = [reader EXCEPT ![k] = reader[k]] /\ Hurt(k, W)
    BY <1>2, <1>4 DEF FarEndEnds
  <2>2. v \in Session /\ Same(v, sess[k]) /\ v.done = sess[k].done /\ v.obj = sess[k].obj
    BY <1>1 DEF Session, Same
  <2>3. Proper(v, reader[k])
    BY <1>1 DEF Proper, Session
  <2>4. W \in SUBSET Misuses /\ W \subseteq Known(k)
    BY <1>3, <1>4 DEF If, Misuses, FarEndEnds, Open
  <2> HIDE DEF v, W
  <2>5. QED BY <1>1, <1>4, <2>1, <2>2, <2>3, <2>4, SessionKept DEF FarEndEnds
<1>5. CASE StreamReady(k)
  <2> DEFINE v == [sess[k] EXCEPT !.link = IF IsDeleted(k) THEN "closed" ELSE "up"]
             W == If(IsDeleted(k), "callback")
  <2>1. sess' = [sess EXCEPT ![k] = v] /\ reader' = [reader EXCEPT ![k] = reader[k]] /\ Hurt(k, W)
        /\ sess[k].link = "asked" /\ ~sess[k].ended
    BY <1>2, <1>5 DEF StreamReady
  <2>2. v \in Session /\ Same(v, sess[k]) /\ v.done = sess[k].done /\ v.obj = sess[k].obj
    BY <1>1 DEF Session, Same
  <2>3. Proper(v, reader[k])
    BY <1>1 DEF Proper, Session
  <2>4. vendor \in Sdk
    BY <1>1, <2>1 DEF Proper, Grpc
  <2>5. W \in SUBSET Misuses /\ W \subseteq Known(k)
    BY <1>3, <2>1, <2>4 DEF If, Misuses
  <2> HIDE DEF v, W
  <2>6. QED BY <1>1, <1>5, <2>1, <2>2, <2>3, <2>5, SessionKept DEF StreamReady
<1>6. QED BY <1>4, <1>5

\* A streamer that is made, and one that is connected.
LEMMA ConnectedForms ==
  ASSUME NEW r \in Session, vendor \in AllVendors
  PROVE  LET q == Connected(r) IN
         /\ q \in Session /\ Same(q, r) /\ q.done = r.done /\ q.obj = r.obj /\ q.ptr = r.ptr
         /\ q.played = r.played /\ q.finished = r.finished /\ q.ended = r.ended
         /\ q.link \in {"up", "asked"} /\ (vendor \notin Sdk => q.told /\ q.link = "up")
<1> DEFINE q == Connected(r)
           l == ConnectOf[vendor].link
           b == vendor \notin Sdk
<1>1. l \in {"up", "asked"} /\ (l = "asked" => vendor \in Sdk) /\ b \in BOOLEAN
  BY ConnectForms
<1>2. q = [r EXCEPT !.link = l, !.told = b] /\ b = (vendor \notin Sdk)
  BY DEF Connected
<1> HIDE DEF q, l, b
<1>3. /\ q \in Session /\ Same(q, r) /\ q.done = r.done /\ q.obj = r.obj /\ q.ptr = r.ptr
      /\ q.played = r.played /\ q.finished = r.finished /\ q.ended = r.ended
      /\ q.link = l /\ q.told = b
  BY <1>1, <1>2 DEF Session, Same
<1>4. QED BY <1>1, <1>2, <1>3 DEF q

LEMMA NewStreamerForms ==
  ASSUME NEW r \in Session, vendor \in AllVendors, mode \in Mode
  PROVE  LET q == NewStreamer(r) IN
         /\ q \in Session /\ Same(q, r) /\ q.done = r.done /\ q.obj = "live" /\ q.ptr
         /\ q.played = r.played /\ q.finished = r.finished /\ q.ended = r.ended
         /\ q.link \in {r.link, "up", "asked"}
         /\ vendor \notin Sdk => q.link \in {r.link, "up"}
         /\ vendor \notin Sdk /\ ~mode.vad => q.link = "up"
         /\ vendor = "dialogflow" => q.told
<1> DEFINE s == [r EXCEPT !.ptr = TRUE, !.obj = "live"]
<1>1. /\ s \in Session /\ Same(s, r) /\ s.done = r.done /\ s.obj = "live" /\ s.ptr
      /\ s.played = r.played /\ s.finished = r.finished /\ s.ended = r.ended /\ s.link = r.link
  BY DEF Session, Same
<1>2. NewStreamer(r) = IF SetupOf[vendor].opens # "no" \/ ~mode.vad THEN Connected(s) ELSE s
  BY DEF NewStreamer
<1> HIDE DEF s
<1>3. LET q == Connected(s) IN
         /\ q \in Session /\ Same(q, s) /\ q.done = s.done /\ q.obj = s.obj /\ q.ptr = s.ptr
         /\ q.played = s.played /\ q.finished = s.finished /\ q.ended = s.ended
         /\ q.link \in {"up", "asked"} /\ (vendor \notin Sdk => q.told /\ q.link = "up")
  BY <1>1, ConnectedForms
<1>4. "dialogflow" \notin Sdk
  BY DEF Sdk
<1>5. QED BY <1>1, <1>2, <1>3, <1>4, SetupForms DEF Same

LEMMA WorkerKept ==
  ASSUME Inv, NEW k \in Sessions, WorkerNext(k)
  PROVE  Inv'
<1>1. reader[k] \in Working
  BY DEF WorkerNext, WorkerStarts, WorkerLeaves, WorkerClears, WorkerShuts, WorkerPlays, Working
<1>2. /\ sess[k] \in Session /\ reader[k] \in Readers /\ vendor \in AllVendors /\ k <= made
      /\ Proper(sess[k], reader[k]) /\ mode \in Mode /\ reader \in [Sessions -> Readers]
      /\ vendor \in Sdk /\ vendor # "dialogflow" /\ vendor # "nuance"
  BY <1>1, ReaderIsMade, ReaderTypes DEF Working, Proper, Grpc, Inv, Shape, Sdk
<1>3. /\ If(IsDeleted(k), "deleted") \subseteq Known(k) /\ If(IsDeleted(k), "deleted") \in SUBSET Misuses
      /\ If(chan.destroyed, "pool") \subseteq Known(k) /\ If(chan.destroyed, "pool") \in SUBSET Misuses
  BY <1>1, <1>2, UsesKnown DEF Working
<1>4. reader[k] # "end" /\ reader[k] # "none"
  BY <1>1 DEF Working
<1>5. CASE WorkerStarts(k)
  <2> DEFINE v == NewStreamer(sess[k])
  <2>1. /\ sess' = [sess EXCEPT ![k] = v] /\ reader' = [reader EXCEPT ![k] = "loop"]
        /\ Hurt(k, If(chan.destroyed, "pool")) /\ reader[k] = "start"
    BY <1>5 DEF WorkerStarts
  <2>2. v \in Session /\ Same(v, sess[k]) /\ v.done = sess[k].done /\ v.obj = "live"
        /\ v.played = sess[k].played
    BY <1>2, NewStreamerForms
  <2> HIDE DEF v
  <2>3. Proper(v, "loop") /\ "loop" \in Readers
    BY <1>2, <2>2 DEF Proper, Same, Readers, Reading, Working, Grpc
  <2>4. QED BY <1>2, <1>3, <1>4, <1>5, <2>1, <2>2, <2>3, SessionKept DEF WorkerStarts, Grpc
<1>6. CASE WorkerLeaves(k)
  <2> DEFINE v == [sess[k] EXCEPT !.obj = "deleted"]
  <2>1. /\ sess' = [sess EXCEPT ![k] = v] /\ reader' = [reader EXCEPT ![k] = "clear"]
        /\ Hurt(k, If(IsDeleted(k), "deleted")) /\ (vendor = "lex" => sess[k].ended)
    BY <1>6 DEF WorkerLeaves, Leaves
  <2>2. v \in Session /\ Same(v, sess[k]) /\ v.done = sess[k].done
    BY <1>2 DEF Session, Same
  <2>3. Proper(v, "clear") /\ "clear" \in Readers
    BY <1>2, <2>1 DEF Proper, Session, Readers, Reading, Working, Grpc
  <2> HIDE DEF v
  <2>4. QED BY <1>2, <1>3, <1>4, <1>6, <2>1, <2>2, <2>3, SessionKept DEF WorkerLeaves, Grpc
<1>7. CASE WorkerClears(k)
  <2> DEFINE v == [sess[k] EXCEPT !.ptr = FALSE]
  <2>1. /\ sess' = [sess EXCEPT ![k] = v] /\ reader' = [reader EXCEPT ![k] = "end"]
        /\ Hurt(k, If(chan.destroyed, "pool")) /\ reader[k] = "clear"
    BY <1>7 DEF WorkerClears
  <2>2. v \in Session /\ Same(v, sess[k]) /\ v.done = sess[k].done
    BY <1>2 DEF Session, Same
  <2>3. Proper(v, "end") /\ "end" \in Readers
    BY <1>2, <2>1 DEF Proper, Session, Readers, Reading, Working, Grpc
  <2> HIDE DEF v
  <2>4. QED BY <1>2, <1>3, <1>4, <1>7, <2>1, <2>2, <2>3, SessionKept DEF WorkerClears, Grpc
<1>8. CASE WorkerShuts(k)
  <2> DEFINE v == [sess[k] EXCEPT !.link = IF @ = "up" THEN "closed" ELSE @]
  <2>1. /\ sess' = [sess EXCEPT ![k] = v] /\ reader' = [reader EXCEPT ![k] = "shut"]
        /\ Hurt(k, If(IsDeleted(k), "deleted")) /\ reader[k] = "loop"
    BY <1>8 DEF WorkerShuts
  <2>2. v \in Session /\ Same(v, sess[k]) /\ v.done = sess[k].done
    BY <1>2 DEF Session, Same
  <2>3. Proper(v, "shut") /\ "shut" \in Readers
    BY <1>2, <2>1 DEF Proper, Session, Readers, Reading, Working, Grpc
  <2> HIDE DEF v
  <2>4. QED BY <1>2, <1>3, <1>4, <1>8, <2>1, <2>2, <2>3, SessionKept DEF WorkerShuts, Grpc
<1>9. CASE WorkerPlays(k)
  <2> DEFINE v == [sess[k] EXCEPT !.played = FALSE]
             W == If(sess[k].link # "up", "null") \cup If(IsDeleted(k), "deleted")
  <2>1. /\ sess' = [sess EXCEPT ![k] = v] /\ reader' = [reader EXCEPT ![k] = reader[k]]
        /\ Hurt(k, W) /\ vendor = "lex" /\ reader[k] = "loop"
    BY <1>2, <1>9 DEF WorkerPlays, Proper
  <2>2. v \in Session /\ Same(v, sess[k]) /\ v.done = sess[k].done
    BY <1>2 DEF Session, Same
  <2>3. Proper(v, reader[k])
    BY <1>2, <2>1 DEF Proper, Session, Readers, Reading, Working, Grpc
  <2>4. W \in SUBSET Misuses /\ W \subseteq Known(k)
    BY <1>3, <2>1, KnownForms DEF If, Misuses
  <2> HIDE DEF v, W
  <2>5. QED BY <1>2, <1>4, <1>9, <2>1, <2>2, <2>3, <2>4, SessionKept DEF WorkerPlays, Grpc
<1>10. QED BY <1>5, <1>6, <1>7, <1>8, <1>9 DEF WorkerNext

\* The commands that only nuance and lex have.
LEMMA CommandKept ==
  ASSUME Inv, StartTimers \/ LexDtmf \/ LexPlayDone
  PROVE  Inv'
<1> DEFINE b == chan.bug
<1>1. PICK k \in Sessions : k = b
  BY Numbers DEF StartTimers, LexDtmf, LexPlayDone, Inv, Shape, Channel
<1>2. k <= made /\ sess \in [Sessions -> Session] /\ reader \in [Sessions -> Readers]
  BY <1>1, Numbers DEF Inv, Shape, Numbered, Sessions
<1>3. /\ sess[k] \in Session /\ reader[k] \in Readers /\ vendor \in AllVendors
      /\ Proper(sess[k], reader[k]) /\ mode \in Mode
      /\ sess = [sess EXCEPT ![k] = sess[k]] /\ reader = [reader EXCEPT ![k] = reader[k]]
  BY <1>2, ReaderTypes DEF Inv, Shape
<1>4. CASE StartTimers
  <2> DEFINE W == If(sess[k].ptr /\ sess[k].link = "none", "null")
  <2>1. Hurt(k, W) /\ vendor = "nuance"
    BY <1>1, <1>4 DEF StartTimers
  <2>2. sess[k].ptr /\ sess[k].link = "none" => mode.vad
    BY <1>3, <2>1 DEF Proper
  <2>3. W \in SUBSET Misuses /\ W \subseteq Known(k)
    BY <2>1, <2>2, KnownForms DEF If, Misuses
  <2> HIDE DEF W
  <2>4. QED BY <1>2, <1>3, <1>4, <2>1, <2>3, UseKept DEF StartTimers
<1>5. CASE LexDtmf
  <2> DEFINE W == If(sess[k].ptr /\ IsDeleted(k), "deleted") \cup
                  If(sess[k].ptr /\ ~sess[k].told /\ ~sess[k].ended /\ sess[k].link # "up", "null")
  <2>1. Hurt(k, W) /\ vendor = "lex"
    BY <1>1, <1>5 DEF LexDtmf
  <2>2. W \in SUBSET Misuses /\ W \subseteq Known(k)
    BY <2>1, KnownForms DEF If, Misuses, Sdk
  <2> HIDE DEF W
  <2>3. QED BY <1>2, <1>3, <1>5, <2>1, <2>2, UseKept DEF LexDtmf
<1>6. CASE LexPlayDone
  <2> DEFINE v == [sess[k] EXCEPT !.played = TRUE]
             W == If(IsDeleted(k), "deleted")
  <2>1. Hurt(k, W) /\ vendor = "lex" /\ sess' = [sess EXCEPT ![k] = v]
    BY <1>1, <1>6 DEF LexPlayDone
  <2>2. v \in Session /\ Same(v, sess[k]) /\ v.done = sess[k].done /\ v.obj = sess[k].obj
    BY <1>3 DEF Session, Same
  <2>3. Proper(v, reader[k])
    BY <1>3, <2>1 DEF Proper, Session
  <2>4. W \in SUBSET Misuses /\ W \subseteq Known(k)
    BY <2>1, KnownForms DEF If, Misuses, Sdk
  <2> HIDE DEF v, W
  <2>5. QED BY <1>2, <1>3, <1>6, <2>1, <2>2, <2>3, <2>4, SessionKept DEF LexPlayDone
<1>7. QED BY <1>4, <1>5, <1>6

-----------------------------------------------------------------------------
(* Steps of a caller.                                                      *)

LEMMA Basics ==
  ASSUME Inv
  PROVE  /\ vendor \in AllVendors /\ mode \in Mode /\ chan \in Channel /\ made \in 0..MaxSessions
         /\ MaxSessions \in Nat /\ sess \in [Sessions -> Session] /\ reader \in [Sessions -> Readers]
         /\ thread \in [Callers -> Thread] /\ media \in Media
         /\ Shape /\ Numbered /\ HungUp /\ Mutexes /\ Bugs /\ Once /\ Recorded
         /\ \A t \in Callers : /\ thread[t].k \in 0..made
                               /\ thread[t].pc \notin {"idle", "init"} => thread[t].k \in Sessions
         /\ media.pc # "idle" => media.k \in Sessions /\ media.k <= made
         /\ chan.bug # NULL => chan.bug \in Sessions /\ chan.bug <= made
         /\ 1..made \subseteq Sessions
         /\ \A k \in Sessions : k <= made => Proper(sess[k], reader[k])
  BY ConstantsAssumption, Numbers DEF Inv, Shape, Numbered, HungUp, Sessions, NULL

\* A call that begins, seeks a session, or returns.
LEMMA CallerKept ==
  ASSUME Inv, NEW t \in Callers, NEW y \in Thread, thread' = [thread EXCEPT ![t] = y],
         UNCHANGED <<vendor, mode, chan, sess, made, media, reader>>, Recorded',
         thread[t].pc \in {"idle", "init", "find", "lock"},
         y.pc \in {"idle", "init", "find", "lock"},
         y.k \in {NULL, thread[t].k, chan.bug},
         t = "hup" /\ ~chan.hung => y.pc = "idle", chan.destroyed => y.pc = "idle",
         y.pc \in {"find", "lock"} => y.k # NULL /\ chan.bug \in {NULL, y.k},
         t = "api" /\ (y.pc = "init" \/ y.starts) => made < MaxSessions,
         t = "api" /\ y.pc = "init" => chan.bug = NULL,
         chan.hung /\ chan.bug # NULL /\ Seeks(t, chan.bug) => y.pc \in {"find", "lock"}
  PROVE  Inv'
<1>1. /\ \A u \in Callers : thread'[u] = IF u = t THEN y ELSE thread[u]
      /\ thread' \in [Callers -> Thread]
  BY Basics
<1>2. \A k \in Sessions : k <= made => Proper(sess[k], reader[k])'
  BY Basics DEF Proper, Grpc
<1>3. Shape'
  BY <1>1, Basics DEF Shape
<1>4. Numbered'
  <2>1. y.k \in 0..made
    BY Basics DEF Numbered, NULL
  <2>2. thread'["api"].pc = "add" => Fresh(thread["api"].k)'
    <3> SUFFICES ASSUME thread'["api"].pc = "add" PROVE Fresh(thread["api"].k)'
      OBVIOUS
    <3>1. t = "hup" /\ thread["api"].pc = "add" /\ thread'["api"] = thread["api"]
          /\ thread'["hup"] = y
      BY <1>1 DEF Callers
    <3>2. Fresh(thread["api"].k) /\ thread["api"].k # NULL
      BY <3>1, Basics, Numbers DEF Numbered, Callers
    <3>3. y.k # thread["api"].k
      BY <3>1, <3>2 DEF Fresh
    <3>4. QED BY <3>1, <3>2, <3>3 DEF Fresh, Grpc
  <2>3. thread'["api"].starts \/ thread'["api"].pc = "init" => made < MaxSessions
    BY <1>1, Basics DEF Numbered, Callers
  <2>4. QED BY <1>1, <2>1, <2>2, <2>3, Basics DEF Numbered
<1>5. HungUp'
  BY <1>1, Basics DEF HungUp
<1>6. Mutexes'
  BY <1>1, Basics DEF Mutexes, Joins, Joining, Grpc
<1>7. \A u \in Callers, k \in Sessions : Joins(u, k)' <=> Joins(u, k)
  BY <1>1 DEF Joins, Joining
<1>8. Bugs'
  <2>1. \A k \in Sessions : Over(k)' <=> Over(k)
    BY DEF Over
  <2>2. \A u \in Callers : Seeks(u, thread[u].k)' \/ Joins(u, thread[u].k)' =>
          chan.bug \in {NULL, thread'[u].k}
    BY <1>1, Basics DEF Bugs, Seeks, Joins, Joining
  <2>3. \A u \in Callers : thread'[u].pc \in {"remove", "destroy"} =>
          chan.bug = NULL /\ Over(thread[u].k)'
    BY <1>1, <2>1, Basics DEF Bugs
  <2>4. thread'["api"].pc \in {"init", "add"} => chan.bug = NULL
    BY <1>1, Basics DEF Bugs, Callers
  <2>5. chan.hung /\ chan.bug # NULL => \E u \in Callers : Seeks(u, chan.bug)' \/ Joins(u, chan.bug)'
    <3> SUFFICES ASSUME chan.hung, chan.bug # NULL
                 PROVE \E u \in Callers : Seeks(u, chan.bug)' \/ Joins(u, chan.bug)'
      OBVIOUS
    <3>1. PICK u \in Callers : Seeks(u, chan.bug) \/ Joins(u, chan.bug)
      BY Basics DEF Bugs
    <3>2. QED BY <1>1, <3>1 DEF Seeks, Joins, Joining
  <2>6. \A k \in Sessions : k <= made =>
          \/ chan.bug = k \/ Over(k)' \/ \E u \in Callers : Joins(u, k)'
          \/ thread'["api"].pc = "add" /\ thread'["api"].k = k
    BY <1>1, <1>7, <2>1, Basics DEF Bugs, Callers
  <2>7. \A u \in Callers : Joins(u, thread[u].k)' => chan.bug = NULL \/ StopOf[vendor].late
    BY <1>1, Basics DEF Bugs, Joins, Joining
  <2>8. QED BY <2>1, <2>2, <2>3, <2>4, <2>5, <2>6, <2>7, Basics DEF Bugs
<1>9. Once'
  BY <1>1, Basics DEF Once, Joins, Joining
<1>10. QED BY <1>2, <1>3, <1>4, <1>5, <1>6, <1>8, <1>9 DEF Inv

\* A stop under the mutex tells the streamer that no more audio comes.
LEMMA HoldKept ==
  ASSUME Inv, NEW t \in Callers, NEW k \in Sessions, thread[t].k = k, thread[t].pc \in Joining,
         NEW q \in {"done", "finish", "join"}, NEW v \in Session,
         thread' = [thread EXCEPT ![t].pc = q], sess' = [sess EXCEPT ![k] = v],
         UNCHANGED <<vendor, mode, chan, made, media, reader>>, Recorded',
         Same(v, sess[k]), v.obj = sess[k].obj, Proper(v, reader[k]),
         q = "done" => ~v.done \/ mode.single \/ vendor = "dialogflow",
         q = "finish" => vendor = "dialogflow"
  PROVE  Inv'
<1>1. /\ \A j \in Sessions : sess'[j] = IF j = k THEN v ELSE sess[j]
      /\ \A j \in Sessions : Same(sess'[j], sess[j]) /\ sess'[j].obj = sess[j].obj
      /\ \A u \in Callers : thread'[u].k = thread[u].k /\ thread'[u].starts = thread[u].starts
      /\ \A u \in Callers : thread'[u].pc = IF u = t THEN q ELSE thread[u].pc
      /\ sess' \in [Sessions -> Session] /\ thread' \in [Callers -> Thread]
      /\ k <= made /\ sess[k].owner = t /\ thread[t].pc \notin {"idle", "init", "add"}
      /\ \A u \in Callers, j \in Sessions : (Joins(u, j)' <=> Joins(u, j)) /\ (Seeks(u, j)' <=> Seeks(u, j))
  BY Basics DEF Same, Thread, Mutexes, Joins, Seeks, Joining, Sessions
<1>2. Shape'
  BY <1>1, Basics DEF Shape
<1>3. Numbered'
  <2>1. thread["api"].pc = "add" => Fresh(thread["api"].k)'
    <3> SUFFICES ASSUME thread["api"].pc = "add" PROVE Fresh(thread["api"].k)'
      OBVIOUS
    <3>1. Fresh(thread["api"].k) /\ thread["api"].k \in Sessions
      BY Basics DEF Numbered, Callers
    <3>2. thread["api"].k # k
      BY <1>1, <3>1 DEF Fresh, Callers
    <3>3. QED BY <1>1, <3>1, <3>2 DEF Fresh, Grpc, Callers
  <2>2. \A j \in Sessions : j > made => j # k
    BY <1>1, Basics DEF Sessions
  <2>3. thread'["api"].pc \in {"add", "init"} => thread'["api"] = thread["api"]
    BY <1>1, Basics DEF Callers
  <2>4. QED BY <1>1, <2>1, <2>2, <2>3, Basics DEF Numbered, Callers
<1>4. HungUp'
  BY <1>1, Basics DEF HungUp, Callers
<1>5. \A j \in Sessions : j <= made => Proper(sess[j], reader[j])'
  <2>1. \A j \in Sessions : j <= made => Proper(sess'[j], reader[j])
    BY <1>1, Basics
  <2>2. QED BY <2>1 DEF Proper, Grpc
<1>6. Mutexes'
  <2>1. \A u \in Callers : thread'[u].pc \in Joining \cup {"remove"} => sess'[thread'[u].k].owner = u
    BY <1>1, Basics DEF Mutexes, Joins, Joining, Same
  <2>2. media.pc = "write" => sess'[media.k].owner = "media"
    BY <1>1, Basics DEF Mutexes, Same
  <2>3. \A j \in Sessions : (sess'[j].done /\ ~mode.single) \/ (Grpc /\ sess'[j].obj = "deleted") =>
          sess'[j].owner \in Callers \/ (chan.attached # j /\ media.k # j)
    BY <1>1, Basics DEF Mutexes, Same
  <2>4. \A u \in Callers : thread'[u].pc = "done" /\ ~mode.single /\ vendor # "dialogflow" =>
          ~sess'[thread'[u].k].done
    BY <1>1, Basics DEF Mutexes, Joins, Joining
  <2>5. \A u \in Callers : /\ thread'[u].pc = "finish" => vendor = "dialogflow"
                           /\ thread'[u].pc = "destroy" => vendor = "verbio"
    BY <1>1, Basics DEF Mutexes
  <2>6. QED BY <2>1, <2>2, <2>3, <2>4, <2>5 DEF Mutexes, Grpc, Joins
<1>7. Bugs'
  <2>1. \A j \in Sessions : (Over(j)' <=> Over(j)) /\ (sess'[j].gone <=> sess[j].gone)
    BY <1>1 DEF Over, Same
  <2>2. thread'["api"].pc \in {"init", "add"} => thread["api"].pc \in {"init", "add"}
    BY <1>1 DEF Callers
  <2>3. \A u \in Callers : thread'[u].pc \in {"remove", "destroy"} => thread[u].pc \in {"remove", "destroy"}
    BY <1>1
  <2>4. \A u \in Callers : Seeks(u, thread[u].k)' \/ Joins(u, thread[u].k)' =>
          Seeks(u, thread[u].k) \/ Joins(u, thread[u].k)
    BY <1>1 DEF Seeks, Joins, Joining
  <2>5. \A j \in Sessions : thread["api"].pc = "add" /\ thread["api"].k = j =>
          thread'["api"].pc = "add" /\ thread'["api"].k = j
    BY <1>1 DEF Callers
  <2>6. \A u \in Callers : thread'[u].pc \in {"remove", "destroy"} =>
          chan.bug = NULL /\ Over(thread[u].k)'
    BY <1>1, <2>1, <2>3, Basics DEF Bugs
  <2>7. \A u \in Callers : Seeks(u, thread[u].k)' \/ Joins(u, thread[u].k)' =>
          chan.bug \in {NULL, thread'[u].k}
    BY <1>1, <2>4, Basics DEF Bugs
  <2>8. chan.hung /\ chan.bug # NULL => \E u \in Callers : Seeks(u, chan.bug)' \/ Joins(u, chan.bug)'
    BY <1>1, Basics DEF Bugs
  <2>9. \A j \in Sessions : j <= made =>
          \/ chan.bug = j \/ Over(j)' \/ \E u \in Callers : Joins(u, j)'
          \/ thread'["api"].pc = "add" /\ thread'["api"].k = j
    BY <1>1, <2>1, <2>5, Basics DEF Bugs
  <2>10. \A u \in Callers : Joins(u, thread[u].k)' => chan.bug = NULL \/ StopOf[vendor].late
    BY <1>1, Basics DEF Bugs, Joins, Joining
  <2>11. QED BY <2>1, <2>2, <2>6, <2>7, <2>8, <2>9, <2>10, Basics DEF Bugs
<1>8. Once'
  BY <1>1, Basics DEF Once, Joins, Joining, Same
<1>9. QED BY <1>2, <1>3, <1>4, <1>5, <1>6, <1>7, <1>8 DEF Inv

LEMMA ReturnedForms ==
  ASSUME NEW t \in Callers
  PROVE  /\ Returned(t) \in Thread /\ Returned(t).k = NULL /\ ~Returned(t).starts
         /\ Returned(t).pc = IF thread[t].starts THEN "init" ELSE "idle"
  BY ThreadForms DEF Returned

\* A caller that is in a call keeps the call's memory; the hang-up runs when the
\* call is hung up.
LEMMA InCall ==
  ASSUME Inv, NEW t \in Callers, thread[t].pc # "idle"
  PROVE  ~chan.destroyed /\ (t = "hup" => chan.hung)
  BY Basics DEF HungUp

\* A call that found its session gone, or its bug, returns.
LEMMA ReturnKept ==
  ASSUME Inv, NEW t \in Callers, thread[t].pc \in {"find", "lock"}, chan.bug = NULL,
         thread' = [thread EXCEPT ![t] = Returned(t)],
         UNCHANGED <<vendor, mode, chan, sess, made, media, reader>>, Recorded'
  PROVE  Inv'
<1>1. ~chan.destroyed /\ (t = "hup" => chan.hung)
  BY InCall
<1>2. t = "api" /\ Returned(t).pc = "init" => made < MaxSessions
  BY ReturnedForms, Basics DEF Numbered
<1>3. /\ Returned(t) \in Thread /\ Returned(t).k = NULL /\ ~Returned(t).starts
      /\ Returned(t).pc \in {"idle", "init"}
  BY ReturnedForms
<1>4. QED BY <1>1, <1>2, <1>3, CallerKept

LEMMA RecordedStays ==
  ASSUME Inv, UNCHANGED <<vendor, mode, made, hurt>>,
         \A j \in Sessions : j <= made /\ sess[j].orphan => sess'[j].orphan
  PROVE  Recorded'
  BY Basics, RecordedSame

LEMMA RecordedGrows ==
  ASSUME Inv, UNCHANGED <<vendor, mode, made>>, NEW k \in Sessions, k <= made,
         NEW W \in SUBSET Misuses, W \subseteq Known(k), Hurt(k, W),
         \A j \in Sessions : j <= made /\ sess[j].orphan => sess'[j].orphan
  PROVE  Recorded'
  BY Basics, RecordedKept

LEMMA CommandsKept ==
  ASSUME Inv, StartCapture \/ StopCommand \/ InitFails
  PROVE  Inv'
<1>1. thread["api"].pc \in {"idle", "init"} /\ UNCHANGED <<vendor, mode, chan, sess, made, media, reader, hurt>>
  BY DEF StartCapture, StopCommand, InitFails, TakesCommand
<1>2. Recorded'
  BY <1>1, RecordedStays
<1>3. "api" \in Callers /\ ~Seeks("api", chan.bug)
  BY <1>1 DEF Callers, Seeks
<1>4. ASSUME NEW y \in Thread, thread' = [thread EXCEPT !["api"] = y],
             y.pc \in {"idle", "init", "find"}, y.k \in {NULL, chan.bug},
             chan.destroyed => y.pc = "idle", y.pc = "find" => y.k # NULL /\ y.k = chan.bug,
             y.pc = "init" \/ y.starts => made < MaxSessions, y.pc = "init" => chan.bug = NULL
      PROVE  Inv'
  BY <1>1, <1>2, <1>3, <1>4, CallerKept
<1>5. CASE InitFails
  BY <1>4, <1>5, ThreadForms DEF InitFails
<1>6. ~chan.hung => ~chan.destroyed
  BY Basics DEF HungUp
<1>7. CASE StopCommand
  <2> DEFINE y == [Idle EXCEPT !.pc = "find", !.k = chan.bug]
  <2>1. y \in Thread /\ y.pc = "find" /\ y.k = chan.bug /\ ~y.starts
    BY ThreadForms, Basics DEF Thread, Channel
  <2>2. thread' = [thread EXCEPT !["api"] = y] /\ ~chan.hung /\ chan.bug # NULL
    BY <1>7 DEF StopCommand, TakesCommand
  <2> HIDE DEF y
  <2>3. QED BY <1>4, <1>6, <2>1, <2>2
<1>8. CASE StartCapture /\ chan.bug # NULL
  <2> DEFINE y == [pc |-> "find", k |-> chan.bug, starts |-> TRUE]
  <2>1. y \in Thread /\ y.pc = "find" /\ y.k = chan.bug
    BY Basics DEF Thread, Channel
  <2>2. thread' = [thread EXCEPT !["api"] = y] /\ ~chan.hung /\ chan.bug # NULL /\ made < MaxSessions
    BY <1>8 DEF StartCapture, TakesCommand
  <2> HIDE DEF y
  <2>3. QED BY <1>4, <1>6, <2>1, <2>2
<1>9. CASE StartCapture /\ chan.bug = NULL
  <2>1. thread' = [thread EXCEPT !["api"] = [Idle EXCEPT !.pc = "init"]] /\ ~chan.hung
        /\ made < MaxSessions
    BY <1>9 DEF StartCapture, TakesCommand
  <2>2. QED BY <1>4, <1>6, <1>9, <2>1, ThreadForms
<1>10. QED BY <1>5, <1>7, <1>8, <1>9

LEMMA FindsKept ==
  ASSUME Inv, NEW t \in Callers, StopFinds(t)
  PROVE  Inv'
<1>1. /\ thread[t] \in Thread /\ thread[t].pc = "find" /\ thread[t].k # NULL
      /\ chan.bug \in {NULL, thread[t].k}
      /\ UNCHANGED <<vendor, mode, chan, sess, made, media, reader, hurt>>
  BY Basics DEF StopFinds, Bugs, Seeks, Shape
<1>2. Recorded' /\ ~chan.destroyed /\ (t = "hup" => chan.hung)
  BY <1>1, RecordedStays, InCall
<1>3. ASSUME chan.bug = NULL, thread' = [thread EXCEPT ![t] = Returned(t)] PROVE Inv'
  BY <1>1, <1>2, <1>3, ReturnKept
<1>4. ASSUME NEW k \in {thread[t].k}, thread' = [thread EXCEPT ![t] = [thread[t] EXCEPT !.pc = "lock", !.k = k]]
      PROVE  Inv'
  <2> DEFINE y == [thread[t] EXCEPT !.pc = "lock", !.k = k]
  <2>1. y \in Thread /\ y.pc = "lock" /\ y.k = thread[t].k /\ y.starts = thread[t].starts
    BY <1>1 DEF Thread
  <2>2. thread' = [thread EXCEPT ![t] = y]
    BY <1>4
  <2> HIDE DEF y
  <2>3. t = "api" /\ y.starts => made < MaxSessions
    BY <2>1, Basics DEF Numbered
  <2>4. QED BY <1>1, <1>2, <2>1, <2>2, <2>3, CallerKept
<1>5. CASE StopOf[vendor].finds = "passed"
  <2>1. [thread[t] EXCEPT !.pc = "lock"] = [thread[t] EXCEPT !.pc = "lock", !.k = thread[t].k]
    BY <1>1 DEF Thread
  <2>2. thread' = [thread EXCEPT ![t] = [thread[t] EXCEPT !.pc = "lock"]]
    BY <1>5 DEF StopFinds
  <2>3. QED BY <1>4, <2>1, <2>2
<1>6. CASE StopOf[vendor].finds # "passed" /\ chan.bug = NULL
  BY <1>3, <1>6 DEF StopFinds, NoBug
<1>7. CASE StopOf[vendor].finds # "passed" /\ chan.bug # NULL
  BY <1>1, <1>4, <1>7 DEF StopFinds, NoBug
<1>8. QED BY <1>5, <1>6, <1>7

LEMMA LocksKept ==
  ASSUME Inv, NEW t \in Callers, StopLocks(t)
  PROVE  Inv'
<1>1. PICK k \in Sessions : k = thread[t].k /\ k <= made /\ k # NULL
  BY Basics, Numbers DEF StopLocks, Sessions
<1>2. /\ thread[t] \in Thread /\ thread[t].pc = "lock" /\ sess[k] \in Session
      /\ chan.bug \in {NULL, k} /\ chan \in Channel
      /\ Hurt(k, If(sess[k].gone, "mutex")) /\ UNCHANGED <<vendor, mode, made, media, reader>>
  BY <1>1, Basics DEF StopLocks, Bugs, Seeks
<1>3. ~chan.destroyed /\ (t = "hup" => chan.hung)
  BY <1>2, InCall
<1>4. sess[k].gone => vendor = "verbio" /\ chan.bug # k
  BY <1>1, Basics DEF Proper, Bugs
<1>5. If(sess[k].gone, "mutex") \in SUBSET Misuses /\ If(sess[k].gone, "mutex") \subseteq Known(k)
  BY <1>4, KnownForms DEF If, Misuses
<1>6. ASSUME \A j \in Sessions : j <= made /\ sess[j].orphan => sess'[j].orphan PROVE Recorded'
  BY <1>1, <1>2, <1>5, <1>6, RecordedGrows
<1>7. CASE sess[k].gone \/ (StopOf[vendor].rechecks /\ chan.bug = NULL)
  <2>1. thread' = [thread EXCEPT ![t] = Returned(t)] /\ UNCHANGED <<chan, sess>>
    BY <1>1, <1>7 DEF StopLocks
  <2>2. chan.bug = NULL
    BY <1>2, <1>4, <1>7
  <2>3. QED BY <1>2, <1>6, <2>1, <2>2, ReturnKept
<1>8. CASE ~sess[k].gone /\ ~(StopOf[vendor].rechecks /\ chan.bug = NULL)
  <2> DEFINE v == [sess[k] EXCEPT !.owner = t]
             d == IF StopOf[vendor].late THEN chan ELSE [chan EXCEPT !.bug = NULL]
  <2>1. /\ thread' = [thread EXCEPT ![t].pc = "tell"] /\ sess' = [sess EXCEPT ![k] = v]
        /\ chan' = d /\ sess[k].owner = "free"
    BY <1>1, <1>8 DEF StopLocks
  <2>2. /\ v \in Session /\ v.owner = t /\ v.joined = sess[k].joined /\ v.gone = sess[k].gone
        /\ v.orphan = sess[k].orphan /\ v.done = sess[k].done /\ v.obj = sess[k].obj
    BY <1>2 DEF Session
  <2>3. Proper(v, reader[k])
    BY <1>1, <1>2, Basics DEF Proper, Session
  <2>4. d \in Channel /\ d.attached = chan.attached /\ d.hung = chan.hung
        /\ d.destroyed = chan.destroyed /\ d.bug \in {NULL, chan.bug}
        /\ (~StopOf[vendor].late => d.bug = NULL)
    BY <1>2, Numbers DEF Channel
  <2> HIDE DEF v, d
  <2>5. /\ \A j \in Sessions : sess'[j] = IF j = k THEN v ELSE sess[j]
        /\ \A u \in Callers : thread'[u].k = thread[u].k /\ thread'[u].starts = thread[u].starts
        /\ \A u \in Callers : thread'[u].pc = IF u = t THEN "tell" ELSE thread[u].pc
        /\ sess' \in [Sessions -> Session] /\ thread' \in [Callers -> Thread]
    BY <1>2, <2>1, <2>2, Basics DEF Thread
  <2>6. /\ \A u \in Callers, j \in Sessions : Joins(u, j)' <=> Joins(u, j) \/ (u = t /\ j = k)
        /\ \A u \in Callers, j \in Sessions : Seeks(u, j)' <=> Seeks(u, j) /\ u # t
    BY <1>1, <1>2, <2>5 DEF Joins, Seeks, Joining
  <2>7. Shape'
    BY <1>2, <2>1, <2>4, <2>5, Basics DEF Shape
  <2>8. Numbered'
    <3>1. thread["api"].pc = "add" => Fresh(thread["api"].k)'
      <4> SUFFICES ASSUME thread["api"].pc = "add" PROVE Fresh(thread["api"].k)'
        OBVIOUS
      <4>1. Fresh(thread["api"].k) /\ thread["api"].k \in Sessions /\ t = "hup"
        BY <1>2, Basics DEF Numbered, Callers
      <4>2. thread["api"].k # k /\ thread["api"].k # NULL
        BY <1>1, <4>1, Numbers DEF Fresh
      <4>3. QED BY <1>2, <2>1, <2>4, <2>5, <4>1, <4>2 DEF Fresh, Grpc, Callers
    <3>2. \A j \in Sessions : j > made => j # k
      BY <1>1, Basics DEF Sessions
    <3>3. thread'["api"].pc \in {"add", "init"} => thread["api"].pc = thread'["api"].pc
      BY <2>5 DEF Callers
    <3>4. d.bug \in 0..made
      BY <2>4, Basics DEF Numbered, NULL
    <3>5. QED BY <1>2, <2>1, <2>4, <2>5, <3>1, <3>2, <3>3, <3>4, Basics DEF Numbered, Callers
  <2>9. HungUp'
    BY <1>2, <1>3, <2>1, <2>4, <2>5, Basics DEF HungUp, Callers
  <2>10. \A j \in Sessions : j <= made => Proper(sess[j], reader[j])'
    <3>1. \A j \in Sessions : j <= made => Proper(sess'[j], reader[j])
      BY <2>3, <2>5, Basics
    <3>2. QED BY <1>2, <3>1 DEF Proper, Grpc
  <2>11. Mutexes'
    <3>1. \A u \in Callers : thread'[u].pc \in Joining \cup {"remove"} => sess'[thread'[u].k].owner = u
      <4>1. \A u \in Callers : u # t /\ thread[u].pc \in Joining \cup {"remove"} => thread[u].k # k
        BY <2>1, Basics DEF Mutexes, Joins, Joining, Callers
      <4>2. QED BY <1>1, <2>2, <2>5, <4>1, Basics DEF Mutexes, Joins, Joining
    <3>2. media.pc = "write" => sess'[media.k].owner = "media"
      BY <2>1, <2>5, Basics DEF Mutexes
    <3>3. \A j \in Sessions : (sess'[j].done /\ ~mode.single) \/ (Grpc /\ sess'[j].obj = "deleted") =>
            sess'[j].owner \in Callers \/ (chan.attached # j /\ media.k # j)
      BY <2>2, <2>5, Basics DEF Mutexes
    <3>4. \A u \in Callers : thread'[u].pc = "done" /\ ~mode.single /\ vendor # "dialogflow" =>
            ~sess'[thread'[u].k].done
      BY <2>2, <2>5, Basics DEF Mutexes
    <3>5. \A u \in Callers : /\ thread'[u].pc = "finish" => vendor = "dialogflow"
                             /\ thread'[u].pc = "destroy" => vendor = "verbio"
      BY <2>5, Basics DEF Mutexes
    <3>6. QED BY <1>2, <2>1, <2>4, <3>1, <3>2, <3>3, <3>4, <3>5 DEF Mutexes, Grpc, Joins
  <2>12. Bugs'
    <3>1. \A j \in Sessions : (Over(j)' <=> Over(j)) /\ (sess'[j].gone <=> sess[j].gone)
      BY <1>2, <2>2, <2>5 DEF Over
    <3>2. \A u \in Callers : Seeks(u, thread[u].k)' \/ Joins(u, thread[u].k)' =>
            chan'.bug \in {NULL, thread'[u].k}
      BY <1>1, <1>2, <2>1, <2>4, <2>5, <2>6, Basics DEF Bugs, Seeks, Joins, Joining
    <3>3. \A u \in Callers : thread'[u].pc \in {"remove", "destroy"} =>
            chan'.bug = NULL /\ Over(thread[u].k)'
      BY <2>1, <2>4, <2>5, <3>1, Basics DEF Bugs
    <3>4. thread'["api"].pc \in {"init", "add"} => chan'.bug = NULL
      BY <2>1, <2>4, <2>5, Basics DEF Bugs, Callers
    <3>5. chan'.hung /\ chan'.bug # NULL => \E u \in Callers : Seeks(u, chan.bug)' \/ Joins(u, chan.bug)'
      BY <1>1, <1>2, <2>1, <2>4, <2>5 DEF Joins, Joining
    <3>6. \A j \in Sessions : j <= made =>
            \/ chan'.bug = j \/ Over(j)' \/ \E u \in Callers : Joins(u, j)'
            \/ thread'["api"].pc = "add" /\ thread'["api"].k = j
      BY <1>2, <2>1, <2>4, <2>5, <2>6, <3>1, Basics DEF Bugs, Callers
    <3>7. /\ ~chan'.hung => chan'.bug \in {NULL, chan'.attached}
          /\ chan'.attached # NULL => chan'.bug \in {NULL, chan'.attached}
      BY <2>1, <2>4, Basics DEF Bugs
    <3>8. \A j \in Sessions : sess'[j].gone => chan'.bug # j /\ Over(j)'
      BY <2>1, <2>4, <3>1, Basics, Numbers DEF Bugs
    <3>9. \A u \in Callers : Joins(u, thread[u].k)' => chan'.bug = NULL \/ StopOf[vendor].late
      BY <2>1, <2>4
    <3>10. QED BY <1>2, <3>2, <3>3, <3>4, <3>5, <3>6, <3>7, <3>8, <3>9 DEF Bugs
  <2>13. Once'
    <3> SUFFICES ASSUME vendor # "verbio", ~StopOf[vendor].late
                 PROVE /\ chan'.bug # NULL => ~sess'[chan'.bug].joined /\ sess'[chan'.bug].owner \notin Callers
                       /\ \A u \in Callers : Joins(u, thread[u].k)' => ~sess'[thread'[u].k].joined
      BY <1>2 DEF Once
    <3>1. chan'.bug = NULL /\ ~sess[k].joined
      BY <1>1, <1>2, <1>8, <2>1, <2>4, StopForms, Basics DEF Once
    <3>2. QED BY <1>1, <2>2, <2>5, <3>1, Basics DEF Once, Joins, Joining
  <2>14. Recorded'
    BY <1>6, <2>2, <2>5
  <2>15. QED BY <1>2, <2>7, <2>8, <2>9, <2>10, <2>11, <2>12, <2>13, <2>14 DEF Inv
<1>9. QED BY <1>7, <1>8

LEMMA TellsKept ==
  ASSUME Inv, NEW t \in Callers, StopTellsGrpc(t) \/ StopWritesDone(t) \/ StopFinishes(t) \/ StopTellsSdk(t)
  PROVE  Inv'
<1>1. PICK k \in Sessions : k = thread[t].k /\ k <= made
  <2>1. thread[t].pc \notin {"idle", "init"}
    BY DEF StopTellsGrpc, StopWritesDone, StopFinishes, StopTellsSdk
  <2>2. QED BY <2>1, Basics, Numbers DEF Sessions
<1>2. /\ thread[t] \in Thread /\ thread[t].pc \in Joining /\ sess[k] \in Session
      /\ Proper(sess[k], reader[k]) /\ vendor \in AllVendors /\ sess \in [Sessions -> Session]
      /\ UNCHANGED <<vendor, mode, chan, made, media, reader>>
  BY <1>1, Basics DEF StopTellsGrpc, StopWritesDone, StopFinishes, StopTellsSdk, Joining
<1>3. ASSUME NEW v \in Session, NEW q \in {"done", "finish", "join"}, NEW W \in SUBSET Misuses,
             W \subseteq Known(k), Hurt(k, W), thread' = [thread EXCEPT ![t].pc = q],
             sess' = [sess EXCEPT ![k] = v], Same(v, sess[k]), v.obj = sess[k].obj,
             Proper(v, reader[k]), q = "done" => ~v.done \/ mode.single \/ vendor = "dialogflow",
             q = "finish" => vendor = "dialogflow"
      PROVE  Inv'
  <2>1. \A j \in Sessions : j <= made /\ sess[j].orphan => sess'[j].orphan
    BY <1>2, <1>3 DEF Same
  <2>2. Recorded'
    BY <1>1, <1>2, <1>3, <2>1, RecordedGrows
  <2>3. QED BY <1>1, <1>2, <1>3, <2>2, HoldKept
<1>4. CASE StopTellsGrpc(t)
  <2> DEFINE v == ToldGrpc(sess[k])
             q == IF EndsAudio(sess[k]) THEN "done" ELSE "join"
  <2>1. /\ thread' = [thread EXCEPT ![t].pc = q] /\ sess' = [sess EXCEPT ![k] = v] /\ Hurt(k, {})
    BY <1>1, <1>4 DEF StopTellsGrpc, Hurt
  <2>2. /\ v \in Session /\ Same(v, sess[k]) /\ v.obj = sess[k].obj /\ v.done = sess[k].done
        /\ v.finished = sess[k].finished /\ v.link = sess[k].link /\ v.played = sess[k].played
        /\ v.ptr = sess[k].ptr /\ v.ended = sess[k].ended /\ (sess[k].told => v.told)
    <3> DEFINE w == [sess[k] EXCEPT !.told = TRUE]
    <3>1. v = IF sess[k].ptr /\ sess[k].link = "none" THEN w ELSE sess[k]
      BY DEF ToldGrpc
    <3>2. /\ w \in Session /\ Same(w, sess[k]) /\ w.obj = sess[k].obj /\ w.done = sess[k].done
          /\ w.finished = sess[k].finished /\ w.link = sess[k].link /\ w.played = sess[k].played
          /\ w.ptr = sess[k].ptr /\ w.ended = sess[k].ended /\ w.told
      BY <1>2 DEF Session, Same
    <3> HIDE DEF w, v
    <3>3. QED BY <1>2, <3>1, <3>2 DEF Same
  <2>3. q = "done" => ~v.done \/ vendor = "dialogflow"
    BY <1>2, <2>2, StopForms DEF EndsAudio
  <2>4. q \in {"done", "finish", "join"} /\ q # "finish"
    OBVIOUS
  <2> HIDE DEF v, q
  <2>5. Proper(v, reader[k])
    BY <1>2, <2>2 DEF Proper, Same
  <2>6. QED BY <1>3, <2>1, <2>2, <2>3, <2>4, <2>5
<1>5. CASE StopWritesDone(t)
  <2> DEFINE v == [sess[k] EXCEPT !.done = TRUE]
             q == IF StopOf[vendor].tells = "both" /\ ~sess[k].finished THEN "finish" ELSE "join"
             W == If(sess[k].done, "twice")
  <2>1. /\ thread' = [thread EXCEPT ![t].pc = q] /\ sess' = [sess EXCEPT ![k] = v] /\ Hurt(k, W)
        /\ thread[t].pc = "done"
    BY <1>1, <1>5 DEF StopWritesDone
  <2>2. v \in Session /\ Same(v, sess[k]) /\ v.obj = sess[k].obj
    BY <1>2 DEF Session, Same
  <2>3. sess[k].done => mode.single \/ vendor = "dialogflow"
    BY <1>1, <2>1, Basics DEF Mutexes
  <2>4. W \in SUBSET Misuses /\ W \subseteq Known(k)
    BY <2>3, KnownForms DEF If, Misuses
  <2>5. q \in {"finish", "join"} /\ (q = "finish" => vendor = "dialogflow")
    BY <1>2, StopForms
  <2>6. Proper(v, reader[k])
    BY <1>2 DEF Proper, Session
  <2> HIDE DEF v, q, W
  <2>7. QED BY <1>3, <2>1, <2>2, <2>4, <2>5, <2>6
<1>6. CASE StopFinishes(t)
  <2> DEFINE v == [sess[k] EXCEPT !.finished = TRUE]
             W == If(sess[k].finished, "twice")
  <2>1. /\ thread' = [thread EXCEPT ![t].pc = "join"] /\ sess' = [sess EXCEPT ![k] = v] /\ Hurt(k, W)
        /\ thread[t].pc = "finish"
    BY <1>1, <1>6 DEF StopFinishes
  <2>2. v \in Session /\ Same(v, sess[k]) /\ v.obj = sess[k].obj
    BY <1>2 DEF Session, Same
  <2>3. vendor = "dialogflow"
    BY <2>1, Basics DEF Mutexes
  <2>4. W \in SUBSET Misuses /\ W \subseteq Known(k)
    BY <2>3, KnownForms DEF If, Misuses
  <2>5. Proper(v, reader[k])
    BY <1>2, <2>3 DEF Proper, Session
  <2> HIDE DEF v, W
  <2>6. QED BY <1>3, <2>1, <2>2, <2>4, <2>5
<1>7. CASE StopTellsSdk(t)
  <2> DEFINE v == [sess[k] EXCEPT !.told = @ \/ sess[k].ptr]
             W == If(sess[k].ptr /\ IsDeleted(k), "deleted")
  <2>1. /\ thread' = [thread EXCEPT ![t].pc = "join"] /\ sess' = [sess EXCEPT ![k] = v] /\ Hurt(k, W)
        /\ vendor \in Sdk
    BY <1>1, <1>7 DEF StopTellsSdk
  <2>2. v \in Session /\ Same(v, sess[k]) /\ v.obj = sess[k].obj
    BY <1>2 DEF Session, Same
  <2>3. W \in SUBSET Misuses /\ W \subseteq Known(k)
    BY <2>1, KnownForms DEF If, Misuses
  <2>4. Proper(v, reader[k])
    BY <1>2 DEF Proper, Session
  <2> HIDE DEF v, W
  <2>5. QED BY <1>3, <2>1, <2>2, <2>3, <2>4
<1>8. QED BY <1>4, <1>5, <1>6, <1>7

\* The thread has ended when the stop deletes the streamer; it forgets the bug now
\* if it has not before.
LEMMA JoinsKept ==
  ASSUME Inv, NEW t \in Callers, StopJoins(t)
  PROVE  Inv'
<1>1. PICK k \in Sessions : k = thread[t].k /\ k <= made /\ k # NULL
  BY Basics, Numbers DEF StopJoins, Sessions
<1>2. /\ thread[t] \in Thread /\ thread[t].pc = "join" /\ sess[k] \in Session /\ Joins(t, k)
      /\ Proper(sess[k], reader[k]) /\ vendor \in AllVendors /\ sess \in [Sessions -> Session]
      /\ chan.bug \in {NULL, k} /\ chan \in Channel /\ sess[k].owner = t
      /\ UNCHANGED <<vendor, mode, made, media, reader>>
  BY <1>1, Basics DEF StopJoins, Joins, Joining, Bugs, Mutexes
<1>3. ~chan.destroyed /\ (t = "hup" => chan.hung)
  BY <1>2, InCall
<1>4. Over(k) /\ (~Grpc => reader[k] = "end") /\ (reader[k] # "end" => vendor = "dialogflow" /\ sess[k].orphan)
  BY <1>1, <1>2 DEF StopJoins, HasEnded, Over, Proper, Grpc, Sdk
<1> DEFINE v == Cleared(sess[k])
           d == IF StopOf[vendor].late THEN [chan EXCEPT !.bug = NULL] ELSE chan
           W == If(sess[k].joined /\ ~StopOf[vendor].late, "again")
<1>5. /\ thread' = [thread EXCEPT ![t].pc = "remove"] /\ sess' = [sess EXCEPT ![k] = v]
      /\ chan' = d /\ Hurt(k, W)
  BY <1>1 DEF StopJoins
<1>6. /\ v \in Session /\ v.owner = t /\ v.gone = sess[k].gone
      /\ v.orphan = sess[k].orphan /\ v.done = sess[k].done /\ v.obj = "deleted"
  BY <1>2 DEF Session, Cleared
<1>7. Proper(v, reader[k])
  BY <1>2, <1>4 DEF Proper, Session, Cleared, Grpc, Sdk
<1>8. d \in Channel /\ d.attached = chan.attached /\ d.hung = chan.hung
      /\ d.destroyed = chan.destroyed /\ d.bug \in {NULL, chan.bug}
      /\ (StopOf[vendor].late => d.bug = NULL)
  BY <1>2, Numbers DEF Channel
<1>9. W \in SUBSET Misuses /\ W \subseteq Known(k)
  <2>1. sess[k].joined /\ ~StopOf[vendor].late => vendor = "verbio"
    BY <1>1, <1>2, Basics DEF Once
  <2>2. QED BY <2>1, KnownForms DEF If, Misuses
<1> HIDE DEF v, d, W
<1>10. /\ \A j \in Sessions : sess'[j] = IF j = k THEN v ELSE sess[j]
       /\ \A u \in Callers : thread'[u].k = thread[u].k /\ thread'[u].starts = thread[u].starts
       /\ \A u \in Callers : thread'[u].pc = IF u = t THEN "remove" ELSE thread[u].pc
       /\ sess' \in [Sessions -> Session] /\ thread' \in [Callers -> Thread]
  BY <1>2, <1>5, <1>6, Basics DEF Thread
<1>11. /\ \A u \in Callers, j \in Sessions : Joins(u, j)' <=> Joins(u, j) /\ u # t
       /\ \A u \in Callers, j \in Sessions : Seeks(u, j)' <=> Seeks(u, j)
       /\ \A u \in Callers : u # t /\ thread[u].pc \in Joining \cup {"remove"} => thread[u].k # k
  BY <1>2, <1>10, Basics DEF Joins, Seeks, Joining, Mutexes, Callers
<1>12. d.bug = NULL
  <2>1. CASE StopOf[vendor].late
    BY <1>8, <2>1
  <2>2. CASE ~StopOf[vendor].late
    BY <1>1, <1>2, <1>8, <2>2, Basics DEF Bugs
  <2>3. QED BY <2>1, <2>2
<1>13. Shape'
  BY <1>2, <1>5, <1>8, <1>10, Basics DEF Shape
<1>14. Numbered'
  <2>1. thread["api"].pc = "add" => Fresh(thread["api"].k)'
    <3> SUFFICES ASSUME thread["api"].pc = "add" PROVE Fresh(thread["api"].k)'
      OBVIOUS
    <3>1. Fresh(thread["api"].k) /\ thread["api"].k \in Sessions /\ t = "hup"
      BY <1>2, Basics DEF Numbered, Callers
    <3>2. thread["api"].k # k /\ thread["api"].k # NULL
      BY <1>1, <3>1, Numbers DEF Fresh
    <3>3. QED BY <1>2, <1>5, <1>8, <1>10, <3>1, <3>2 DEF Fresh, Grpc, Callers
  <2>2. \A j \in Sessions : j > made => j # k
    BY <1>1, Basics DEF Sessions
  <2>3. thread'["api"].pc \in {"add", "init"} => thread["api"].pc = thread'["api"].pc
    BY <1>10 DEF Callers
  <2>4. d.bug \in 0..made
    BY <1>8, Basics DEF Numbered, NULL
  <2>5. QED BY <1>2, <1>5, <1>8, <1>10, <2>1, <2>2, <2>3, <2>4, Basics DEF Numbered, Callers
<1>15. HungUp'
  BY <1>2, <1>3, <1>5, <1>8, <1>10, Basics DEF HungUp, Callers
<1>16. \A j \in Sessions : j <= made => Proper(sess[j], reader[j])'
  <2>1. \A j \in Sessions : j <= made => Proper(sess'[j], reader[j])
    BY <1>7, <1>10, Basics
  <2>2. QED BY <1>2, <2>1 DEF Proper, Grpc
<1>17. Mutexes'
  <2>1. \A u \in Callers : thread'[u].pc \in Joining \cup {"remove"} => sess'[thread'[u].k].owner = u
    BY <1>1, <1>6, <1>10, <1>11, Basics DEF Mutexes, Joins, Joining
  <2>2. media.pc = "write" => sess'[media.k].owner = "media"
    <3>1. media.pc = "write" => media.k # k
      BY <1>2, Basics DEF Mutexes, Callers
    <3>2. QED BY <1>10, <3>1, Basics DEF Mutexes
  <2>3. \A j \in Sessions : (sess'[j].done /\ ~mode.single) \/ (Grpc /\ sess'[j].obj = "deleted") =>
          sess'[j].owner \in Callers \/ (chan.attached # j /\ media.k # j)
    BY <1>6, <1>10, Basics DEF Mutexes
  <2>4. \A u \in Callers : thread'[u].pc = "done" /\ ~mode.single /\ vendor # "dialogflow" =>
          ~sess'[thread'[u].k].done
    BY <1>6, <1>10, Basics DEF Mutexes
  <2>5. \A u \in Callers : /\ thread'[u].pc = "finish" => vendor = "dialogflow"
                           /\ thread'[u].pc = "destroy" => vendor = "verbio"
    BY <1>10, Basics DEF Mutexes
  <2>6. QED BY <1>2, <1>5, <1>8, <2>1, <2>2, <2>3, <2>4, <2>5 DEF Mutexes, Grpc, Joins
<1>18. Bugs'
  <2>1. \A j \in Sessions : (Over(j)' <=> Over(j)) /\ (sess'[j].gone <=> sess[j].gone)
    BY <1>2, <1>6, <1>10 DEF Over
  <2>2. \A u \in Callers : thread'[u].pc \in {"remove", "destroy"} =>
          chan'.bug = NULL /\ Over(thread[u].k)'
    BY <1>1, <1>4, <1>5, <1>10, <1>12, <2>1, Basics DEF Bugs
  <2>3. \A j \in Sessions : j <= made =>
          \/ chan'.bug = j \/ Over(j)' \/ \E u \in Callers : Joins(u, j)'
          \/ thread'["api"].pc = "add" /\ thread'["api"].k = j
    <3>1. \A j \in Sessions, u \in Callers : Joins(u, j) => Joins(u, j)' \/ j = k
      BY <1>1, <1>2, <1>11 DEF Joins
    <3>2. \A j \in Sessions : chan.bug = j => j = k
      BY <1>2, Numbers
    <3>3. thread["api"].pc = "add" => thread'["api"].pc = "add" /\ thread'["api"].k = thread["api"].k
      BY <1>2, <1>10 DEF Callers
    <3>4. Over(k)'
      BY <1>4, <2>1
    <3>5. QED BY <1>2, <2>1, <3>1, <3>2, <3>3, <3>4, Basics DEF Bugs
  <2>4. \A j \in Sessions : sess'[j].gone => chan'.bug # j /\ Over(j)'
    BY <1>5, <1>12, <2>1, Basics, Numbers DEF Bugs
  <2>5. QED BY <1>2, <1>5, <1>12, <2>2, <2>3, <2>4 DEF Bugs
<1>19. Once'
  <2> SUFFICES ASSUME vendor # "verbio", ~StopOf[vendor].late
               PROVE \A u \in Callers : Joins(u, thread[u].k)' => ~sess'[thread'[u].k].joined
    BY <1>2, <1>5, <1>12 DEF Once
  <2>1. QED BY <1>10, <1>11, Basics DEF Once, Joins, Joining
<1>20. Recorded'
  BY <1>1, <1>2, <1>5, <1>6, <1>9, <1>10, RecordedGrows
<1>21. QED BY <1>2, <1>13, <1>14, <1>15, <1>16, <1>17, <1>18, <1>19, <1>20 DEF Inv

\* The bug is off and no frame is in it when the mutex is left.
LEMMA RemovesKept ==
  ASSUME Inv, NEW t \in Callers, StopRemoves(t)
  PROVE  Inv'
<1>1. PICK k \in Sessions : k = thread[t].k /\ k <= made /\ k # NULL
  <2>1. thread[t].pc \notin {"idle", "init"}
    BY DEF StopRemoves
  <2>2. QED BY <2>1, Basics, Numbers DEF Sessions
<1>2. /\ thread[t] \in Thread /\ thread[t].pc = "remove" /\ sess[k] \in Session
      /\ Proper(sess[k], reader[k]) /\ vendor \in AllVendors /\ sess \in [Sessions -> Session]
      /\ chan.bug = NULL /\ Over(k) /\ chan \in Channel /\ sess[k].owner = t
      /\ UNCHANGED <<vendor, mode, made, media, reader, hurt>>
  BY <1>1, Basics DEF StopRemoves, Bugs, Mutexes
<1>3. ~chan.destroyed /\ (t = "hup" => chan.hung)
  BY <1>2, InCall
<1> DEFINE v == [sess[k] EXCEPT !.owner = "free"]
           d == [chan EXCEPT !.attached = IF t = "api" THEN NULL ELSE @]
           y == IF StopOf[vendor].destroys THEN [thread[t] EXCEPT !.pc = "destroy"] ELSE Returned(t)
<1>4. /\ thread' = [thread EXCEPT ![t] = y] /\ sess' = [sess EXCEPT ![k] = v]
      /\ chan' = d /\ (t = "api" => media.pc = "idle")
  BY <1>1 DEF StopRemoves
<1>5. /\ v \in Session /\ v.owner = "free" /\ v.gone = sess[k].gone /\ v.joined = sess[k].joined
      /\ v.orphan = sess[k].orphan /\ v.done = sess[k].done /\ v.obj = sess[k].obj
      /\ Proper(v, reader[k])
  BY <1>2 DEF Session, Proper
<1>6. d \in Channel /\ d.attached = NULL /\ d.hung = chan.hung
      /\ d.destroyed = chan.destroyed /\ d.bug = NULL /\ media.pc = "idle" /\ media.k = NULL
  BY <1>2, <1>3, <1>4, Basics, Numbers DEF Channel, HungUp, Callers
<1>7. /\ y \in Thread /\ y.pc \in {"destroy", "idle", "init"}
      /\ y.pc = "destroy" => vendor = "verbio" /\ y.k = k /\ y.starts = thread[t].starts
      /\ y.pc # "destroy" => y.k = NULL /\ ~y.starts
      /\ y.pc = "init" => thread[t].starts
  BY <1>1, <1>2, ReturnedForms, StopForms DEF Thread
<1> HIDE DEF v, d, y
<1>8. /\ \A j \in Sessions : sess'[j] = IF j = k THEN v ELSE sess[j]
      /\ \A u \in Callers : thread'[u] = IF u = t THEN y ELSE thread[u]
      /\ sess' \in [Sessions -> Session] /\ thread' \in [Callers -> Thread]
  BY <1>4, <1>5, <1>7, Basics
<1>9. /\ \A u \in Callers, j \in Sessions : (Joins(u, j)' <=> Joins(u, j)) /\ (Seeks(u, j)' <=> Seeks(u, j))
      /\ \A u \in Callers : u # t /\ thread[u].pc \in Joining \cup {"remove"} => thread[u].k # k
  BY <1>2, <1>7, <1>8, Basics DEF Joins, Seeks, Joining, Mutexes, Callers
<1>10. Shape'
  BY <1>1, <1>2, <1>4, <1>6, <1>7, <1>8, Basics DEF Shape
<1>11. Numbered'
  <2>1. thread'["api"].pc = "add" => Fresh(thread["api"].k)'
    <3> SUFFICES ASSUME thread'["api"].pc = "add" PROVE Fresh(thread["api"].k)'
      OBVIOUS
    <3>1. t = "hup" /\ thread["api"].pc = "add" /\ thread'["api"] = thread["api"] /\ thread'["hup"] = y
      BY <1>7, <1>8 DEF Callers
    <3>2. Fresh(thread["api"].k) /\ thread["api"].k \in Sessions
      BY <3>1, Basics DEF Numbered, Callers
    <3>3. thread["api"].k # k /\ thread["api"].k # NULL
      BY <1>1, <3>1, <3>2, Numbers DEF Fresh
    <3>4. y.k # thread["api"].k
      BY <1>7, <3>3
    <3>5. QED BY <1>2, <1>4, <1>6, <1>8, <3>1, <3>2, <3>3, <3>4 DEF Fresh, Grpc
  <2>2. \A j \in Sessions : j > made => j # k
    BY <1>1, Basics DEF Sessions
  <2>3. thread'["api"].starts \/ thread'["api"].pc = "init" => made < MaxSessions
    BY <1>7, <1>8, Basics DEF Numbered, Callers
  <2>4. y.k \in 0..made
    BY <1>1, <1>7, Basics DEF NULL, Numbered
  <2>5. QED BY <1>2, <1>4, <1>6, <1>8, <2>1, <2>2, <2>3, <2>4, Basics DEF Numbered, NULL
<1>12. HungUp'
  BY <1>2, <1>3, <1>4, <1>6, <1>8, Basics DEF HungUp, Callers
<1>13. \A j \in Sessions : j <= made => Proper(sess[j], reader[j])'
  <2>1. \A j \in Sessions : j <= made => Proper(sess'[j], reader[j])
    BY <1>5, <1>8, Basics
  <2>2. QED BY <1>2, <2>1 DEF Proper, Grpc
<1>14. Mutexes'
  <2>1. \A u \in Callers : thread'[u].pc \in Joining \cup {"remove"} => sess'[thread'[u].k].owner = u
    BY <1>1, <1>7, <1>8, <1>9, Basics DEF Mutexes, Joins, Joining
  <2>2. \A u \in Callers : thread'[u].pc = "done" /\ ~mode.single /\ vendor # "dialogflow" =>
          ~sess'[thread'[u].k].done
    BY <1>5, <1>7, <1>8, Basics DEF Mutexes
  <2>3. \A u \in Callers : /\ thread'[u].pc = "finish" => vendor = "dialogflow"
                           /\ thread'[u].pc = "destroy" => vendor = "verbio"
    BY <1>7, <1>8, Basics DEF Mutexes
  <2>4. \A j \in Sessions : chan'.attached # j /\ media.k # j
    BY <1>4, <1>6, Numbers
  <2>5. QED BY <1>2, <1>6, <2>1, <2>2, <2>3, <2>4 DEF Mutexes, Grpc, Joins
<1>15. Bugs'
  <2>1. \A j \in Sessions : (Over(j)' <=> Over(j)) /\ (sess'[j].gone <=> sess[j].gone)
    BY <1>2, <1>5, <1>8 DEF Over
  <2>2. \A u \in Callers : thread'[u].pc \in {"remove", "destroy"} => Over(thread[u].k)'
    BY <1>1, <1>2, <1>7, <1>8, <2>1, Basics DEF Bugs
  <2>3. \A j \in Sessions : j <= made =>
          \/ chan'.bug = j \/ Over(j)' \/ \E u \in Callers : Joins(u, j)'
          \/ thread'["api"].pc = "add" /\ thread'["api"].k = j
    <3>1. thread["api"].pc = "add" => thread'["api"] = thread["api"]
      BY <1>2, <1>8 DEF Callers
    <3>2. \A j \in Sessions : chan.bug # j
      BY <1>2, Numbers
    <3>3. QED BY <1>2, <1>9, <2>1, <3>1, <3>2, Basics DEF Bugs
  <2>4. \A j \in Sessions : sess'[j].gone => chan'.bug # j /\ Over(j)'
    BY <1>4, <1>6, <2>1, Basics, Numbers DEF Bugs
  <2>5. chan'.bug = NULL
    BY <1>4, <1>6
  <2>6. QED BY <1>2, <2>2, <2>3, <2>4, <2>5 DEF Bugs
<1>16. Once'
  <2> SUFFICES ASSUME vendor # "verbio", ~StopOf[vendor].late
               PROVE \A u \in Callers : Joins(u, thread[u].k)' => ~sess'[thread'[u].k].joined
    BY <1>2, <1>4, <1>6 DEF Once
  <2>1. QED BY <1>5, <1>7, <1>8, Basics DEF Once, Joins, Joining
<1>17. Recorded'
  BY <1>2, <1>5, <1>8, RecordedStays
<1>18. QED BY <1>2, <1>10, <1>11, <1>12, <1>13, <1>14, <1>15, <1>16, <1>17 DEF Inv

\* verbio destroys the mutex of a session that is over.
LEMMA DestroysKept ==
  ASSUME Inv, NEW t \in Callers, StopDestroys(t)
  PROVE  Inv'
<1>1. PICK k \in Sessions : k = thread[t].k /\ k <= made /\ k # NULL
  <2>1. thread[t].pc \notin {"idle", "init"}
    BY DEF StopDestroys
  <2>2. QED BY <2>1, Basics, Numbers DEF Sessions
<1>2. /\ thread[t] \in Thread /\ thread[t].pc = "destroy" /\ sess[k] \in Session
      /\ Proper(sess[k], reader[k]) /\ sess \in [Sessions -> Session]
      /\ chan.bug = NULL /\ Over(k) /\ vendor = "verbio"
      /\ UNCHANGED <<vendor, mode, chan, made, media, reader>>
  BY <1>1, Basics DEF StopDestroys, Bugs, Mutexes
<1>3. ~chan.destroyed /\ (t = "hup" => chan.hung)
  BY <1>2, InCall
<1> DEFINE v == [sess[k] EXCEPT !.gone = TRUE]
           y == Returned(t)
           W == If(sess[k].owner # "free" \/ sess[k].gone, "mutex")
<1>4. thread' = [thread EXCEPT ![t] = y] /\ sess' = [sess EXCEPT ![k] = v] /\ Hurt(k, W)
  BY <1>1 DEF StopDestroys
<1>5. /\ v \in Session /\ v.owner = sess[k].owner /\ v.joined = sess[k].joined
      /\ v.orphan = sess[k].orphan /\ v.done = sess[k].done /\ v.obj = sess[k].obj
      /\ Proper(v, reader[k])
  BY <1>2 DEF Session, Proper
<1>6. /\ y \in Thread /\ y.pc \in {"idle", "init"} /\ y.k = NULL /\ ~y.starts
      /\ y.pc = "init" => thread[t].starts
  BY ReturnedForms
<1>7. W \in SUBSET Misuses /\ W \subseteq Known(k)
  BY <1>2, KnownForms DEF If, Misuses
<1> HIDE DEF v, y, W
<1>8. /\ \A j \in Sessions : sess'[j] = IF j = k THEN v ELSE sess[j]
      /\ \A u \in Callers : thread'[u] = IF u = t THEN y ELSE thread[u]
      /\ sess' \in [Sessions -> Session] /\ thread' \in [Callers -> Thread]
  BY <1>4, <1>5, <1>6, Basics
<1>9. \A u \in Callers, j \in Sessions : (Joins(u, j)' <=> Joins(u, j)) /\ (Seeks(u, j)' <=> Seeks(u, j))
  BY <1>2, <1>6, <1>8 DEF Joins, Seeks, Joining
<1>10. Shape'
  BY <1>2, <1>6, <1>8, Basics DEF Shape
<1>11. Numbered'
  <2>1. thread'["api"].pc = "add" => Fresh(thread["api"].k)'
    <3> SUFFICES ASSUME thread'["api"].pc = "add" PROVE Fresh(thread["api"].k)'
      OBVIOUS
    <3>1. t = "hup" /\ thread["api"].pc = "add" /\ thread'["api"] = thread["api"] /\ thread'["hup"] = y
      BY <1>6, <1>8 DEF Callers
    <3>2. Fresh(thread["api"].k) /\ thread["api"].k \in Sessions
      BY <3>1, Basics DEF Numbered, Callers
    <3>3. thread["api"].k # k /\ thread["api"].k # NULL
      BY <1>1, <3>1, <3>2, Numbers DEF Fresh
    <3>4. QED BY <1>2, <1>6, <1>8, <3>1, <3>2, <3>3 DEF Fresh, Grpc
  <2>2. \A j \in Sessions : j > made => j # k
    BY <1>1, Basics DEF Sessions
  <2>3. thread'["api"].starts \/ thread'["api"].pc = "init" => made < MaxSessions
    BY <1>6, <1>8, Basics DEF Numbered, Callers
  <2>4. y.k \in 0..made
    BY <1>6, Basics DEF NULL
  <2>5. QED BY <1>2, <1>8, <2>1, <2>2, <2>3, <2>4, Basics DEF Numbered
<1>12. HungUp'
  BY <1>2, <1>3, <1>8, Basics DEF HungUp, Callers
<1>13. \A j \in Sessions : j <= made => Proper(sess[j], reader[j])'
  <2>1. \A j \in Sessions : j <= made => Proper(sess'[j], reader[j])
    BY <1>5, <1>8, Basics
  <2>2. QED BY <1>2, <2>1 DEF Proper, Grpc
<1>14. Mutexes'
  <2>1. \A j \in Sessions : /\ sess'[j].owner = sess[j].owner /\ sess'[j].done = sess[j].done
                            /\ sess'[j].obj = sess[j].obj
    BY <1>5, <1>8
  <2>2. QED BY <1>2, <1>6, <1>8, <2>1, Basics DEF Mutexes, Grpc, Joins, Joining
<1>15. Bugs'
  <2>1. \A j \in Sessions : (Over(j)' <=> Over(j)) /\ (sess'[j].gone <=> sess[j].gone \/ j = k)
    BY <1>2, <1>4, <1>5, <1>8, Basics DEF Over, v, Session
  <2>2. \A u \in Callers : thread'[u].pc \in {"remove", "destroy"} => Over(thread[u].k)'
    BY <1>6, <1>8, <2>1, Basics DEF Bugs
  <2>3. \A j \in Sessions : j <= made =>
          \/ chan'.bug = j \/ Over(j)' \/ \E u \in Callers : Joins(u, j)'
          \/ thread'["api"].pc = "add" /\ thread'["api"].k = j
    <3>1. thread["api"].pc = "add" => thread'["api"] = thread["api"]
      BY <1>2, <1>8 DEF Callers
    <3>2. \A j \in Sessions : chan.bug # j
      BY <1>2, Numbers
    <3>3. QED BY <1>2, <1>9, <2>1, <3>1, <3>2, Basics DEF Bugs
  <2>4. \A j \in Sessions : sess'[j].gone => chan'.bug # j /\ Over(j)'
    BY <1>2, <2>1, Basics, Numbers DEF Bugs
  <2>5. QED BY <1>2, <2>2, <2>3, <2>4 DEF Bugs
<1>16. Once'
  BY <1>2 DEF Once
<1>17. Recorded'
  BY <1>1, <1>2, <1>4, <1>5, <1>7, <1>8, RecordedGrows
<1>18. QED BY <1>2, <1>10, <1>11, <1>12, <1>13, <1>14, <1>15, <1>16, <1>17 DEF Inv

LEMMA StopKept ==
  ASSUME Inv, NEW t \in Callers, StopNext(t)
  PROVE  Inv'
  BY FindsKept, LocksKept, TellsKept, JoinsKept, RemovesKept, DestroysKept DEF StopNext

-----------------------------------------------------------------------------
(* Frames.                                                                 *)

\* A frame that enters or leaves a bug, or takes or leaves the mutex.
LEMMA FrameKept ==
  ASSUME Inv, NEW k \in Sessions, k <= made, k \in {media.k, chan.attached}, NEW m \in Media,
         NEW v \in Session, media' = m, sess' = [sess EXCEPT ![k] = v],
         UNCHANGED <<vendor, mode, chan, made, thread, reader>>, Recorded',
         v.joined = sess[k].joined, v.gone = sess[k].gone, v.orphan = sess[k].orphan,
         v.done = sess[k].done, v.obj = sess[k].obj, Proper(v, reader[k]),
         v.owner = sess[k].owner \/ {v.owner, sess[k].owner} \cap Callers = {},
         m.pc = "idle" => m.k = NULL, m.pc # "idle" => m.k = k /\ ~chan.hung,
         m.pc = "write" => v.owner = "media", media.pc = "write" => media.k = k
  PROVE  Inv'
<1>1. /\ \A j \in Sessions : sess'[j] = IF j = k THEN v ELSE sess[j]
      /\ sess' \in [Sessions -> Session] /\ k # NULL /\ m.k \in {NULL, k}
      /\ \A j \in Sessions : /\ sess'[j].joined = sess[j].joined /\ sess'[j].gone = sess[j].gone
                             /\ sess'[j].orphan = sess[j].orphan /\ sess'[j].done = sess[j].done
                             /\ sess'[j].obj = sess[j].obj
                             /\ sess'[j].owner \in Callers \/ sess[j].owner \in Callers =>
                                  sess'[j].owner = sess[j].owner
  BY Basics, Numbers
<1>2. Shape'
  BY <1>1, Basics DEF Shape
<1>3. Numbered'
  <2>1. thread["api"].pc = "add" => Fresh(thread["api"].k)'
    <3> SUFFICES ASSUME thread["api"].pc = "add" PROVE Fresh(thread["api"].k)'
      OBVIOUS
    <3>1. Fresh(thread["api"].k) /\ thread["api"].k \in Sessions /\ thread["api"].k # NULL
      BY Basics, Numbers DEF Numbered, Callers
    <3>2. thread["api"].k # k
      BY <3>1 DEF Fresh
    <3>3. QED BY <1>1, <3>1, <3>2 DEF Fresh, Grpc
  <2>2. m.k \in 0..made
    BY <1>1, Basics DEF Sessions, NULL
  <2>3. \A j \in Sessions : j > made => j # k
    BY Basics DEF Sessions
  <2>4. QED BY <1>1, <2>1, <2>2, <2>3, Basics DEF Numbered
<1>4. HungUp'
  BY <1>1, Basics DEF HungUp
<1>5. \A j \in Sessions : j <= made => Proper(sess[j], reader[j])'
  <2>1. \A j \in Sessions : j <= made => Proper(sess'[j], reader[j])
    BY <1>1, Basics
  <2>2. QED BY <2>1 DEF Proper, Grpc
<1>6. Mutexes'
  <2>1. \A t \in Callers : thread[t].pc \in Joining \cup {"remove"} => sess'[thread[t].k].owner = t
    BY <1>1, Basics DEF Mutexes, Joins, Joining
  <2>2. m.pc = "write" => sess'[m.k].owner = "media"
    BY <1>1
  <2>3. ASSUME NEW j \in Sessions,
               (sess'[j].done /\ ~mode.single) \/ (Grpc /\ sess'[j].obj = "deleted")
        PROVE  sess'[j].owner \in Callers \/ (chan.attached # j /\ m.k # j)
    <3>1. sess[j].owner \in Callers \/ (chan.attached # j /\ media.k # j)
      BY <1>1, <2>3, Basics DEF Mutexes
    <3>2. QED BY <1>1, <3>1, Numbers
  <2>4. \A t \in Callers : thread[t].pc = "done" /\ ~mode.single /\ vendor # "dialogflow" =>
          ~sess'[thread[t].k].done
    BY <1>1, Basics DEF Mutexes
  <2>5. QED BY <2>1, <2>2, <2>3, <2>4, Basics DEF Mutexes, Grpc, Joins, Joining
<1>7. Bugs'
  BY <1>1, Basics DEF Bugs, Seeks, Joins, Joining, Over
<1>8. Once'
  BY <1>1, Basics DEF Once, Joins, Joining
<1>9. QED BY <1>2, <1>3, <1>4, <1>5, <1>6, <1>7, <1>8 DEF Inv

LEMMA FramesKept ==
  ASSUME Inv, FrameEnters \/ FrameGivesUp \/ FrameLocks
  PROVE  Inv'
<1>1. UNCHANGED <<vendor, mode, chan, made, thread, reader, hurt>>
  BY DEF FrameEnters, FrameGivesUp, FrameLocks
<1>2. NoFrame \in Media /\ NoFrame.pc = "idle" /\ NoFrame.k = NULL
  BY Numbers DEF NoFrame, Media
<1>3. CASE FrameEnters
  <2>1. PICK k \in Sessions : k = chan.attached /\ k <= made /\ k # NULL /\ ~chan.hung
    BY <1>3, Basics, Numbers DEF FrameEnters, Channel, Numbered, HungUp, Sessions
  <2> DEFINE m == [pc |-> "enter", k |-> k]
  <2>2. m \in Media /\ m.pc = "enter" /\ m.k = k /\ media' = m /\ media.pc = "idle"
    BY <1>3, <2>1, Numbers DEF FrameEnters, Media
  <2>3. sess' = [sess EXCEPT ![k] = sess[k]] /\ sess[k] \in Session /\ Proper(sess[k], reader[k])
        /\ UNCHANGED sess
    BY <1>3, <2>1, Basics DEF FrameEnters
  <2>4. Recorded'
    BY <1>1, <2>3, RecordedStays
  <2> HIDE DEF m
  <2>5. QED BY <1>1, <2>1, <2>2, <2>3, <2>4, FrameKept
<1>4. ASSUME media.pc = "enter" PROVE \E k \in Sessions : k = media.k /\ k <= made /\ ~chan.hung
  BY <1>4, Basics DEF HungUp
<1>5. CASE FrameGivesUp
  <2>1. PICK k \in Sessions : k = media.k /\ k <= made /\ ~chan.hung
    BY <1>4, <1>5 DEF FrameGivesUp
  <2>2. sess' = [sess EXCEPT ![k] = sess[k]] /\ sess[k] \in Session /\ Proper(sess[k], reader[k])
        /\ UNCHANGED sess /\ media' = NoFrame
    BY <1>5, <2>1, Basics DEF FrameGivesUp
  <2>3. Recorded'
    BY <1>1, <2>2, RecordedStays
  <2>4. QED BY <1>1, <1>2, <2>1, <2>2, <2>3, FrameKept
<1>6. CASE FrameLocks
  <2>1. PICK k \in Sessions : k = media.k /\ k <= made /\ ~chan.hung
    BY <1>4, <1>6 DEF FrameLocks
  <2>2. sess[k].owner = "free" /\ sess[k] \in Session /\ Proper(sess[k], reader[k])
        /\ media.pc = "enter" /\ media \in Media
    BY <1>6, <2>1, Basics DEF FrameLocks
  <2>3. CASE media' = NoFrame /\ UNCHANGED sess
    <3>1. sess' = [sess EXCEPT ![k] = sess[k]]
      BY <2>1, <2>3, Basics
    <3>2. Recorded'
      BY <1>1, <2>3, RecordedStays
    <3>3. QED BY <1>1, <1>2, <2>1, <2>2, <2>3, <3>1, <3>2, FrameKept
  <2>4. CASE media' = [media EXCEPT !.pc = "write"] /\ sess' = [sess EXCEPT ![k].owner = "media"]
    <3> DEFINE m == [media EXCEPT !.pc = "write"]
               v == [sess[k] EXCEPT !.owner = "media"]
    <3>1. m \in Media /\ m.pc = "write" /\ m.k = k
      BY <2>1, <2>2 DEF Media
    <3>2. /\ v \in Session /\ v.owner = "media" /\ v.joined = sess[k].joined
          /\ v.gone = sess[k].gone /\ v.orphan = sess[k].orphan /\ v.done = sess[k].done
          /\ v.obj = sess[k].obj /\ Proper(v, reader[k])
      BY <2>2 DEF Session, Proper
    <3>3. media' = m /\ sess' = [sess EXCEPT ![k] = v]
      BY <2>4
    <3> HIDE DEF m, v
    <3>4. \A j \in Sessions : sess'[j].orphan = sess[j].orphan
      BY <3>2, <3>3, Basics
    <3>5. Recorded'
      BY <1>1, <3>4, RecordedStays
    <3>6. QED BY <1>1, <2>1, <2>2, <3>1, <3>2, <3>3, <3>5, FrameKept DEF Callers
  <2>5. QED BY <1>6, <2>1, <2>3, <2>4 DEF FrameLocks
<1>7. QED BY <1>3, <1>5, <1>6

\* What a frame may find, between the mutex and its release.
LEMMA MisusedKnown ==
  ASSUME Inv, NEW k \in Sessions, k <= made, k = media.k, media.pc = "write"
  PROVE  Misused(k) \in SUBSET Misuses /\ Misused(k) \subseteq Known(k)
<1>1. /\ sess[k].owner = "media" /\ Proper(sess[k], reader[k]) /\ vendor \in AllVendors
      /\ sess[k] \in Session
  BY Basics DEF Mutexes
<1>2. (~sess[k].done \/ mode.single) /\ (IsDeleted(k) => vendor \in Sdk)
  BY <1>1, Basics DEF Mutexes, Callers, Grpc, IsDeleted
<1>3. ~ConnectOf[vendor].keeps /\ ~sess[k].told => vendor = "lex"
  BY <1>1, ConnectForms DEF Proper
<1>4. QED BY <1>2, <1>3, KnownForms DEF Misused, If, Misuses

LEMMA FrameWritesKept ==
  ASSUME Inv, FrameWrites
  PROVE  Inv'
<1>1. PICK k \in Sessions : k = media.k /\ k <= made /\ media.pc = "write"
  BY Basics DEF FrameWrites
<1>2. /\ sess[k].owner = "media" /\ Proper(sess[k], reader[k]) /\ vendor \in AllVendors
      /\ sess[k] \in Session /\ media' = NoFrame /\ Hurt(k, Misused(k))
      /\ UNCHANGED <<vendor, mode, chan, made, thread, reader>>
  BY <1>1, Basics DEF Mutexes, FrameWrites
<1>3. NoFrame \in Media /\ NoFrame.pc = "idle" /\ NoFrame.k = NULL
  BY Numbers DEF NoFrame, Media
<1> DEFINE r == [sess[k] EXCEPT !.owner = IF @ = "media" THEN "free" ELSE @]
<1>4. /\ r \in Session /\ r.owner = "free" /\ r.joined = sess[k].joined
      /\ r.gone = sess[k].gone /\ r.orphan = sess[k].orphan /\ r.done = sess[k].done
      /\ r.obj = sess[k].obj /\ Proper(r, reader[k])
  BY <1>2 DEF Session, Proper
<1>5. PICK v \in {r, Connected(r)} : sess' = [sess EXCEPT ![k] = v]
  BY <1>1 DEF FrameWrites
<1> HIDE DEF r
<1>6. LET q == Connected(r) IN
         /\ q \in Session /\ Same(q, r) /\ q.done = r.done /\ q.obj = r.obj /\ q.ptr = r.ptr
         /\ q.played = r.played /\ q.finished = r.finished /\ q.ended = r.ended
         /\ q.link \in {"up", "asked"} /\ (vendor \notin Sdk => q.told /\ q.link = "up")
  BY <1>2, <1>4, ConnectedForms
<1>7. Proper(Connected(r), reader[k])
  BY <1>4, <1>6 DEF Proper, Same, Grpc, Sdk
<1>8. /\ v \in Session /\ v.owner = "free" /\ v.joined = sess[k].joined
      /\ v.gone = sess[k].gone /\ v.orphan = sess[k].orphan /\ v.done = sess[k].done
      /\ v.obj = sess[k].obj /\ Proper(v, reader[k])
  BY <1>4, <1>5, <1>6, <1>7 DEF Same
<1>9. \A j \in Sessions : sess'[j].orphan = sess[j].orphan
  BY <1>5, <1>8, Basics
<1>10. Recorded'
  BY <1>1, <1>2, <1>9, MisusedKnown, RecordedGrows
<1>11. QED BY <1>1, <1>2, <1>3, <1>5, <1>8, <1>10, FrameKept DEF Callers

-----------------------------------------------------------------------------
(* A start, a hang-up and the end of the call.                             *)

\* A session as a start makes it, and the place of its thread.
LEMMA MadeForms ==
  ASSUME vendor \in AllVendors, mode \in Mode
  PROVE  LET new == [NoSession EXCEPT !.owner = "free"]
             v == IF InitOf[vendor].makes THEN NewStreamer(new) ELSE new
             x == IF InitOf[vendor].makes THEN "wait" ELSE "start" IN
         /\ v \in Session /\ v.owner = "free" /\ ~v.joined /\ ~v.gone /\ ~v.done /\ ~v.orphan
         /\ v.obj # "deleted" /\ x \in Readers /\ Proper(v, x)
<1> DEFINE new == [NoSession EXCEPT !.owner = "free"]
           q == NewStreamer(new)
<1>1. /\ new \in Session /\ new.owner = "free" /\ ~new.joined /\ ~new.gone /\ ~new.done
      /\ ~new.orphan /\ new.obj = "none" /\ new.link = "none" /\ ~new.played /\ ~new.ptr
      /\ ~new.ended /\ ~new.finished
  BY DEF NoSession, Session
<1>2. /\ q \in Session /\ Same(q, new) /\ q.done = new.done /\ q.obj = "live" /\ q.ptr
      /\ q.played = new.played /\ q.finished = new.finished /\ q.ended = new.ended
      /\ vendor \notin Sdk => q.link \in {new.link, "up"}
      /\ vendor \notin Sdk /\ ~mode.vad => q.link = "up"
      /\ vendor = "dialogflow" => q.told
  BY <1>1, NewStreamerForms
<1> HIDE DEF new, q
<1>3. "wait" \in Readers /\ "start" \in Readers
  BY DEF Readers, Reading, Working
<1>4. CASE vendor \notin Sdk
  <2>1. Proper(q, "wait")
    BY <1>1, <1>2, <1>4 DEF Proper, Same, Grpc, Reading, Working, Sdk
  <2>2. QED BY <1>1, <1>2, <1>3, <1>4, <2>1, InitForms DEF Same, new, q
<1>5. CASE vendor \in Sdk
  <2>1. Proper(new, "start")
    BY <1>1, <1>5 DEF Proper, Grpc, Reading, Working, Sdk
  <2>2. QED BY <1>1, <1>3, <1>5, <2>1, InitForms DEF new
<1>6. QED BY <1>4, <1>5

LEMMA InitSessionKept ==
  ASSUME Inv, InitSession
  PROVE  Inv'
<1>1. /\ thread["api"].pc = "init" /\ made < MaxSessions /\ "api" \in Callers /\ chan.bug = NULL
      /\ made \in 0..MaxSessions /\ MaxSessions \in Nat
      /\ UNCHANGED <<vendor, mode, chan, media, hurt>>
  BY Basics DEF InitSession, Numbered, Bugs, Callers
<1> DEFINE k == made + 1
           v == IF InitOf[vendor].makes THEN NewStreamer([NoSession EXCEPT !.owner = "free"])
                ELSE [NoSession EXCEPT !.owner = "free"]
           x == IF InitOf[vendor].makes THEN "wait" ELSE "start"
           y == [pc |-> "add", k |-> k, starts |-> FALSE]
<1>2. /\ v \in Session /\ v.owner = "free" /\ ~v.joined /\ ~v.gone /\ ~v.done /\ ~v.orphan
      /\ v.obj # "deleted" /\ x \in Readers /\ Proper(v, x)
  BY Basics, MadeForms
<1>3. k \in Sessions /\ k # NULL /\ k \notin 0..made /\ 0..made \subseteq 0..k /\ k \in 0..MaxSessions
      /\ k \in 0..k /\ k \in Nat /\ made <= k
  BY <1>1 DEF Sessions, NULL
<1>4. y \in Thread /\ y.pc = "add" /\ y.k = k /\ ~y.starts
  BY <1>3 DEF Thread
<1>5. /\ made' = k /\ sess' = [sess EXCEPT ![k] = v] /\ reader' = [reader EXCEPT ![k] = x]
      /\ thread' = [thread EXCEPT !["api"] = y]
  BY DEF InitSession
<1>6. \A j \in Sessions : j <= made <=> j # k /\ j <= k
  BY <1>1 DEF Sessions
<1> HIDE DEF k, v, x, y
<1>7. /\ \A j \in Sessions : sess'[j] = IF j = k THEN v ELSE sess[j]
      /\ \A j \in Sessions : reader'[j] = IF j = k THEN x ELSE reader[j]
      /\ \A t \in Callers : thread'[t] = IF t = "api" THEN y ELSE thread[t]
      /\ sess' \in [Sessions -> Session] /\ reader' \in [Sessions -> Readers]
      /\ thread' \in [Callers -> Thread]
  BY <1>2, <1>4, <1>5, Basics
<1>8. /\ chan.bug # k /\ chan.attached # k /\ media.k # k
      /\ \A t \in Callers : thread[t].k # k
  BY <1>3, Basics DEF Numbered
<1>9. Shape'
  BY <1>1, <1>3, <1>4, <1>5, <1>7, Basics DEF Shape
<1>10. Numbered'
  <2>1. Fresh(thread["api"].k)'
    BY <1>1, <1>2, <1>4, <1>7, <1>3, <1>8 DEF Fresh, Callers
  <2>2. \A j \in Sessions : j > k => j > made /\ j # k
    BY <1>1, <1>5 DEF Sessions, k
  <2>3. /\ chan.bug \in 0..k /\ chan.attached \in 0..k /\ media.k \in 0..k
        /\ \A t \in Callers : thread'[t].k \in 0..k
    BY <1>3, <1>4, <1>7, Basics DEF Numbered
  <2>4. QED BY <1>1, <1>4, <1>5, <1>7, <2>1, <2>2, <2>3, Basics DEF Numbered
<1>11. HungUp'
  <2>1. ~chan.destroyed
    BY <1>1, InCall
  <2>2. QED BY <1>1, <1>7, <2>1, Basics DEF HungUp, Callers
<1>12. \A j \in Sessions : j <= made' => Proper(sess[j], reader[j])'
  <2>1. \A j \in Sessions : j <= k => Proper(sess'[j], reader'[j])
    BY <1>2, <1>6, <1>7, Basics
  <2>2. QED BY <1>1, <1>5, <2>1 DEF Proper, Grpc
<1>13. Mutexes'
  <2>1. \A t \in Callers : thread'[t].pc \in Joining \cup {"remove"} =>
          t # "api" /\ thread'[t] = thread[t] /\ sess'[thread'[t].k].owner = t
    BY <1>4, <1>7, <1>8, Basics DEF Mutexes, Joins, Joining
  <2>2. media.pc = "write" => sess'[media.k].owner = "media"
    BY <1>7, <1>8, Basics DEF Mutexes
  <2>3. \A j \in Sessions : (sess'[j].done /\ ~mode.single) \/ (Grpc /\ sess'[j].obj = "deleted") =>
          sess'[j].owner \in Callers \/ (chan.attached # j /\ media.k # j)
    BY <1>2, <1>7, Basics DEF Mutexes
  <2>4. \A t \in Callers : thread'[t].pc = "done" /\ ~mode.single /\ vendor # "dialogflow" =>
          ~sess'[thread'[t].k].done
    BY <1>4, <1>7, <1>8, Basics DEF Mutexes
  <2>5. \A t \in Callers : /\ thread'[t].pc = "finish" => vendor = "dialogflow"
                           /\ thread'[t].pc = "destroy" => vendor = "verbio"
    BY <1>4, <1>7, Basics DEF Mutexes
  <2>6. QED BY <1>1, <2>1, <2>2, <2>3, <2>4, <2>5 DEF Mutexes, Grpc, Joins
<1>14. Bugs'
  <2>1. \A t \in Callers, j \in Sessions : Joins(t, j)' <=> Joins(t, j)
    BY <1>1, <1>4, <1>7 DEF Joins, Joining
  <2>2. \A t \in Callers : Seeks(t, thread[t].k)' \/ Joins(t, thread[t].k)' \/
                           thread'[t].pc \in {"remove", "destroy"} =>
          t # "api" /\ thread'[t] = thread[t] /\ thread[t].k \in Sessions
    BY <1>4, <1>7, Basics DEF Seeks, Joins, Joining
  <2>3. \A j \in Sessions : j # k => (Over(j)' <=> Over(j)) /\ (sess'[j].gone <=> sess[j].gone)
    BY <1>7 DEF Over
  <2>4. \A t \in Callers : thread'[t].pc \in {"remove", "destroy"} => Over(thread[t].k)'
    BY <1>8, <2>2, <2>3, Basics DEF Bugs
  <2>5. \A j \in Sessions : sess'[j].gone => chan.bug # j /\ Over(j)'
    BY <1>2, <1>7, <2>3, Basics DEF Bugs
  <2>6. \A j \in Sessions : j <= k =>
          \/ chan.bug = j \/ Over(j)' \/ \E t \in Callers : Joins(t, j)'
          \/ thread'["api"].pc = "add" /\ thread'["api"].k = j
    BY <1>1, <1>4, <1>6, <1>7, <2>1, <2>3, Basics DEF Bugs
  <2>7. QED BY <1>1, <1>5, <2>2, <2>4, <2>5, <2>6, Basics DEF Bugs
<1>15. Once'
  <2> SUFFICES ASSUME vendor # "verbio", ~StopOf[vendor].late
               PROVE \A t \in Callers : Joins(t, thread[t].k)' => ~sess'[thread'[t].k].joined
    BY <1>1 DEF Once
  <2>1. QED BY <1>4, <1>7, <1>8, Basics DEF Once, Joins, Joining
<1>16. Recorded'
  <2>1. \A j \in Sessions : j <= made /\ sess[j].orphan => sess'[j].orphan
    BY <1>6, <1>7
  <2>2. QED BY <1>1, <1>3, <1>5, <2>1, Basics, RecordedSame
<1>17. QED BY <1>9, <1>10, <1>11, <1>12, <1>13, <1>14, <1>15, <1>16 DEF Inv

\* The bug cannot be added: nobody will stop or join this session.
LEMMA KilledForms ==
  ASSUME NEW r \in Session, NEW x \in Readers, Proper(r, x), vendor \in AllVendors
  PROVE  LET v == Killed(r) IN
         /\ v \in Session /\ Proper(v, x) /\ v.orphan /\ v.owner = r.owner
         /\ v.joined = r.joined /\ v.gone = r.gone /\ v.done = r.done
         /\ v.obj # r.obj => vendor \in {"dialogflow", "lex"}
<1> DEFINE v == [r EXCEPT !.ptr = FALSE, !.obj = "deleted", !.orphan = TRUE]
           w == [r EXCEPT !.orphan = TRUE]
<1>1. Killed(r) = IF StartOf[vendor].kills /\ r.ptr THEN v ELSE w
  BY DEF Killed
<1>2. StartOf[vendor].kills => vendor \in {"dialogflow", "lex"}
  BY StartForms
<1>3. /\ v \in Session /\ v.orphan /\ v.owner = r.owner /\ v.joined = r.joined
      /\ v.gone = r.gone /\ v.done = r.done
  BY DEF Session
<1>4. /\ w \in Session /\ w.orphan /\ w.owner = r.owner /\ w.joined = r.joined
      /\ w.gone = r.gone /\ w.done = r.done /\ w.obj = r.obj
  BY DEF Session
<1>5. Proper(w, x)
  BY DEF Proper, Session
<1>6. vendor \in {"dialogflow", "lex"} => Proper(v, x)
  BY DEF Proper, Session, Grpc, Sdk
<1> HIDE DEF v, w
<1>7. QED BY <1>1, <1>2, <1>3, <1>4, <1>5, <1>6

LEMMA AddBugKept ==
  ASSUME Inv, AddBug
  PROVE  Inv'
<1>1. PICK k \in Sessions : k = thread["api"].k /\ k <= made /\ k # NULL
  BY Basics, Numbers DEF AddBug, Callers, Sessions
<1>2. /\ thread["api"].pc = "add" /\ "api" \in Callers /\ chan.bug = NULL /\ Fresh(k)
      /\ sess[k] \in Session /\ reader[k] \in Readers /\ Proper(sess[k], reader[k])
      /\ vendor \in AllVendors /\ chan \in Channel /\ ~chan.destroyed
      /\ thread' = [thread EXCEPT !["api"] = Idle]
      /\ UNCHANGED <<vendor, mode, made, media, reader, hurt>>
  BY <1>1, Basics, InCall DEF AddBug, Numbered, Bugs, Callers
<1> DEFINE v == IF chan.hung THEN Killed(sess[k]) ELSE sess[k]
           d == IF chan.hung THEN chan ELSE [chan EXCEPT !.bug = k, !.attached = k]
<1>3. sess' = [sess EXCEPT ![k] = v] /\ chan' = d
  BY <1>1, Basics DEF AddBug
<1>4. /\ v \in Session /\ Proper(v, reader[k]) /\ v.owner = "free" /\ ~v.joined /\ ~v.gone
      /\ v.done = sess[k].done /\ (v.obj # sess[k].obj => chan.hung)
      /\ chan.hung => v.orphan
      /\ sess[k].orphan => v.orphan
  BY <1>2, KilledForms DEF Fresh
<1>5. /\ d \in Channel /\ d.hung = chan.hung /\ ~d.destroyed
      /\ chan.hung => d.bug = NULL /\ d.attached = NULL /\ chan.attached = NULL
      /\ ~chan.hung => d.bug = k /\ d.attached = k
  BY <1>1, <1>2, Numbers, Basics DEF Channel, HungUp
<1> HIDE DEF v, d
<1>6. /\ \A j \in Sessions : sess'[j] = IF j = k THEN v ELSE sess[j]
      /\ \A t \in Callers : thread'[t] = IF t = "api" THEN Idle ELSE thread[t]
      /\ sess' \in [Sessions -> Session] /\ thread' \in [Callers -> Thread]
      /\ \A t \in Callers : t # "api" => thread[t].k # k
      /\ media.k # k
  BY <1>2, <1>3, <1>4, Basics, ThreadForms DEF Fresh, Callers
<1>7. Shape'
  BY <1>2, <1>3, <1>5, <1>6, Basics, ThreadForms DEF Shape
<1>8. Numbered'
  <2>1. \A j \in Sessions : j > made => j # k
    BY <1>1, Basics DEF Sessions
  <2>2. d.bug \in 0..made /\ d.attached \in 0..made
    BY <1>1, <1>5, Basics DEF NULL, Sessions
  <2>3. \A t \in Callers : thread'[t].k \in 0..made
    BY <1>6, Basics, ThreadForms DEF NULL
  <2>4. ~thread'["api"].starts /\ thread'["api"].pc = "idle"
    BY <1>2, <1>6, ThreadForms
  <2>5. QED BY <1>2, <1>3, <1>6, <2>1, <2>2, <2>3, <2>4, Basics DEF Numbered
<1>9. HungUp'
  BY <1>2, <1>3, <1>5, <1>6, Basics, ThreadForms DEF HungUp, Callers
<1>10. \A j \in Sessions : j <= made => Proper(sess[j], reader[j])'
  <2>1. \A j \in Sessions : j <= made => Proper(sess'[j], reader[j])
    BY <1>4, <1>6, Basics
  <2>2. QED BY <1>2, <2>1 DEF Proper, Grpc
<1>11. Mutexes'
  <2>1. \A t \in Callers : thread'[t].pc # "idle" => t # "api" /\ thread'[t] = thread[t]
    BY <1>6, ThreadForms
  <2>2. \A t \in Callers : thread'[t].pc \in Joining \cup {"remove"} => sess'[thread'[t].k].owner = t
    BY <1>6, <2>1, Basics DEF Mutexes, Joins, Joining
  <2>3. media.pc = "write" => sess'[media.k].owner = "media"
    BY <1>6, Basics DEF Mutexes
  <2>4. ASSUME NEW j \in Sessions,
               (sess'[j].done /\ ~mode.single) \/ (Grpc /\ sess'[j].obj = "deleted")
        PROVE  sess'[j].owner \in Callers \/ (d.attached # j /\ media.k # j)
    <3>1. CASE j = k
      BY <1>1, <1>2, <1>4, <1>5, <1>6, <2>4, <3>1 DEF Fresh
    <3>2. CASE j # k
      BY <1>5, <1>6, <2>4, <3>2, Basics DEF Mutexes
    <3>3. QED BY <3>1, <3>2
  <2>5. \A t \in Callers : thread'[t].pc = "done" /\ ~mode.single /\ vendor # "dialogflow" =>
          ~sess'[thread'[t].k].done
    BY <1>6, <2>1, Basics DEF Mutexes
  <2>6. QED BY <1>2, <1>3, <2>1, <2>2, <2>3, <2>4, <2>5, Basics DEF Mutexes, Grpc, Joins
<1>12. Bugs'
  <2>1. \A t \in Callers : thread'[t].pc # "idle" => /\ t # "api" /\ t = "hup" /\ chan.hung
                                                     /\ thread'[t] = thread[t]
    BY <1>6, ThreadForms, InCall DEF Callers
  <2>2. \A t \in Callers, j \in Sessions : Joins(t, j) <=> Joins(t, j)'
    BY <1>2, <1>6, ThreadForms DEF Joins, Joining
  <2>3. \A j \in Sessions : /\ Over(j) => Over(j)'
                            /\ sess'[j].gone => sess[j].gone /\ j # k
    BY <1>2, <1>4, <1>6 DEF Over
  <2>4. chan.hung => Over(k)'
    BY <1>4, <1>6 DEF Over
  <2>5. \A t \in Callers : Seeks(t, thread[t].k)' \/ Joins(t, thread[t].k)' => d.bug = NULL
    BY <1>5, <2>1 DEF Seeks, Joins, Joining
  <2>6. \A t \in Callers : thread'[t].pc \in {"remove", "destroy"} =>
          d.bug = NULL /\ Over(thread[t].k)'
    BY <1>5, <2>1, <2>3, Basics DEF Bugs
  <2>7. \A j \in Sessions : sess'[j].gone => d.bug # j /\ Over(j)'
    BY <1>5, <2>3, Basics, Numbers DEF Bugs
  <2>8. \A j \in Sessions : j <= made =>
          d.bug = j \/ Over(j)' \/ \E t \in Callers : Joins(t, j)'
    <3>1. \A j \in Sessions : chan.bug # j
      BY <1>2, Numbers
    <3>2. QED BY <1>1, <1>5, <2>2, <2>3, <2>4, <3>1, Basics DEF Bugs
  <2>9. thread'["api"].pc = "idle"
    BY <1>2, <1>6, ThreadForms
  <2>10. d.bug \in {NULL, d.attached} /\ (d.hung => d.bug = NULL)
    BY <1>5
  <2>11. \A t \in Callers : Joins(t, thread[t].k)' => d.bug = NULL \/ StopOf[vendor].late
    BY <2>5
  <2>12. QED BY <1>2, <1>3, <2>5, <2>6, <2>7, <2>8, <2>9, <2>10, <2>11 DEF Bugs
<1>13. Once'
  <2>1. \A t \in Callers : Joins(t, thread[t].k)' => t # "api" /\ Joins(t, thread[t].k)
    BY <1>6, ThreadForms DEF Joins, Joining
  <2>2. d.bug # NULL => d.bug = k
    BY <1>5
  <2>3. QED BY <1>2, <1>3, <1>4, <1>6, <2>1, <2>2, Basics DEF Once, Callers, Joins, Joining
<1>14. Recorded'
  BY <1>2, <1>4, <1>6, RecordedStays
<1>15. QED BY <1>2, <1>7, <1>8, <1>9, <1>10, <1>11, <1>12, <1>13, <1>14 DEF Inv

LEMMA HangupKept ==
  ASSUME Inv, Hangup
  PROVE  Inv'
<1>1. /\ ~chan.hung /\ media.pc = "idle" /\ media.k = NULL /\ chan \in Channel /\ ~chan.destroyed
      /\ thread["hup"].pc = "idle" /\ "hup" \in Callers /\ "api" \in Callers
      /\ UNCHANGED <<vendor, mode, sess, made, media, reader, hurt>>
  BY Basics DEF Hangup, HungUp, Callers
<1> DEFINE d == [chan EXCEPT !.hung = TRUE, !.attached = NULL]
           y == IF chan.attached = NULL THEN thread["hup"]
                ELSE [Idle EXCEPT !.pc = "find", !.k = chan.attached]
<1>2. chan' = d /\ thread' = [thread EXCEPT !["hup"] = y]
  BY Basics DEF Hangup
<1>3. d \in Channel /\ d.hung /\ d.attached = NULL /\ d.bug = chan.bug /\ ~d.destroyed
  BY <1>1, Numbers DEF Channel
<1>4. /\ y \in Thread
      /\ chan.attached = NULL => y = thread["hup"]
      /\ chan.attached # NULL => y.pc = "find" /\ y.k = chan.attached
  BY <1>1, ThreadForms, Basics DEF Thread, Channel
<1> HIDE DEF d, y
<1>5. /\ \A t \in Callers : thread'[t] = IF t = "hup" THEN y ELSE thread[t]
      /\ thread' \in [Callers -> Thread] /\ y.pc \in {"idle", "find"}
      /\ \A t \in Callers, j \in Sessions : Joins(t, j)' <=> Joins(t, j)
  BY <1>1, <1>2, <1>4, Basics DEF Joins, Joining
<1>6. chan.bug \in {NULL, chan.attached}
  BY <1>1, Basics DEF Bugs
<1>7. Shape'
  BY <1>1, <1>2, <1>3, <1>4, <1>5, Basics DEF Shape
<1>8. Numbered'
  <2>1. thread["api"].pc = "add" => Fresh(thread["api"].k)'
    <3> SUFFICES ASSUME thread["api"].pc = "add" PROVE Fresh(thread["api"].k)'
      OBVIOUS
    <3>1. Fresh(thread["api"].k) /\ thread["api"].k \in Sessions /\ thread["api"].k # NULL
      BY <1>1, Basics, Numbers DEF Numbered
    <3>2. QED BY <1>1, <1>2, <1>3, <1>4, <1>5, <3>1 DEF Fresh, Grpc
  <2>2. \A t \in Callers : thread'[t].k \in 0..made
    BY <1>1, <1>4, <1>5, Basics DEF Numbered
  <2>3. thread'["api"] = thread["api"]
    BY <1>1, <1>5
  <2>4. QED BY <1>1, <1>2, <1>3, <2>1, <2>2, <2>3, Basics DEF Numbered, NULL
<1>9. HungUp'
  BY <1>1, <1>2, <1>3, Basics DEF HungUp
<1>10. \A j \in Sessions : j <= made => Proper(sess[j], reader[j])'
  BY <1>1, Basics DEF Proper, Grpc
<1>11. Mutexes'
  <2>1. \A j \in Sessions : d.attached # j /\ media.k # j
    BY <1>1, <1>3, Numbers
  <2>2. QED BY <1>1, <1>2, <1>5, <2>1, Basics DEF Mutexes, Grpc, Joins, Joining
<1>12. Bugs'
  <2>1. \A j \in Sessions : Over(j)' <=> Over(j)
    BY <1>1 DEF Over
  <2>2. \A t \in Callers : Seeks(t, thread[t].k)' \/ Joins(t, thread[t].k)' =>
          chan.bug \in {NULL, thread'[t].k}
    BY <1>4, <1>5, <1>6, Basics DEF Bugs, Seeks, Joins, Joining
  <2>3. \A t \in Callers : thread'[t].pc \in {"remove", "destroy"} =>
          chan.bug = NULL /\ Over(thread[t].k)'
    BY <1>5, <2>1, Basics DEF Bugs
  <2>4. \A t \in Callers : Joins(t, thread[t].k)' => chan.bug = NULL \/ StopOf[vendor].late
    BY <1>5, Basics DEF Bugs, Joins, Joining
  <2>5. thread'["api"] = thread["api"]
    BY <1>1, <1>5
  <2>6. chan.bug # NULL => Seeks("hup", chan.bug)'
    BY <1>1, <1>2, <1>3, <1>4, <1>5, <1>6 DEF Seeks
  <2>7. QED BY <1>1, <1>2, <1>3, <1>5, <2>1, <2>2, <2>3, <2>4, <2>5, <2>6, Basics DEF Bugs
<1>13. Once'
  BY <1>1, <1>2, <1>3, <1>5, Basics DEF Once, Joins, Joining
<1>14. Recorded'
  BY <1>1, RecordedStays
<1>15. QED BY <1>1, <1>7, <1>8, <1>9, <1>10, <1>11, <1>12, <1>13, <1>14 DEF Inv

LEMMA DestroyKept ==
  ASSUME Inv, Destroy
  PROVE  Inv'
<1>1. /\ chan.hung /\ chan \in Channel /\ chan.attached = NULL
      /\ \A t \in Callers : thread[t].pc = "idle"
      /\ UNCHANGED <<vendor, mode, sess, made, thread, media, reader, hurt>>
  BY Basics DEF Destroy, HungUp
<1>2. chan.bug = NULL
  BY <1>1, Basics DEF Bugs, Seeks, Joins, Joining
<1> DEFINE d == [chan EXCEPT !.destroyed = TRUE, !.bug = NULL]
<1>3. /\ chan' = d /\ d \in Channel /\ d.hung /\ d.attached = NULL /\ d.bug = NULL
  BY <1>1, Numbers DEF Destroy, Channel
<1> HIDE DEF d
<1>4. Shape' /\ HungUp'
  BY <1>1, <1>3, Basics DEF Shape, HungUp
<1>5. Numbered'
  BY <1>1, <1>2, <1>3, Basics DEF Numbered, Callers
<1>6. \A j \in Sessions : j <= made => Proper(sess[j], reader[j])'
  BY <1>1, Basics DEF Proper, Grpc
<1>7. Mutexes'
  BY <1>1, <1>3, Basics DEF Mutexes, Grpc, Joins, Joining
<1>8. Bugs'
  BY <1>1, <1>2, <1>3, Basics DEF Bugs, Seeks, Joins, Joining, Over, Callers
<1>9. Once'
  BY <1>1, <1>2, <1>3, Basics DEF Once, Joins, Joining
<1>10. Recorded'
  BY <1>1, RecordedStays
<1>11. QED BY <1>1, <1>4, <1>5, <1>6, <1>7, <1>8, <1>9, <1>10 DEF Inv

-----------------------------------------------------------------------------
LEMMA InitInv == Init => Inv
<1> SUFFICES ASSUME Init PROVE Inv
  OBVIOUS
<1>1. vendor \in AllVendors /\ mode \in Mode
  BY InitForms, ConstantsAssumption DEF Init, Mode
<1> DEFINE d == [bug |-> NULL, attached |-> NULL, hung |-> FALSE, destroyed |-> FALSE]
<1>2. /\ d \in Channel /\ d.bug = NULL /\ d.attached = NULL /\ ~d.hung /\ ~d.destroyed
      /\ NoFrame \in Media /\ NoFrame.pc = "idle" /\ NoFrame.k = NULL
  BY Numbers DEF Channel, Media, NoFrame
<1>3. /\ chan = d /\ media = NoFrame /\ made = 0 /\ hurt = {} /\ vendor \in Vendors
      /\ thread = [t \in Callers |-> Idle] /\ sess = [k \in Sessions |-> NoSession]
      /\ reader = [k \in Sessions |-> "none"]
  BY DEF Init
<1> HIDE DEF d
<1>4. /\ \A t \in Callers : thread[t] = Idle
      /\ \A k \in Sessions : sess[k] = NoSession /\ reader[k] = "none" /\ ~(k <= made)
      /\ 0 \in 0..MaxSessions /\ NULL \in 0..made
  BY <1>3, Numbers DEF Sessions, NULL
<1>5. Shape
  BY <1>1, <1>2, <1>3, <1>4, Numbers, ThreadForms, SessionForms DEF Shape, Readers
<1>6. Numbered
  BY <1>2, <1>3, <1>4, ThreadForms DEF Numbered, Callers
<1>7. HungUp
  BY <1>2, <1>3, <1>4, ThreadForms DEF HungUp, Callers
<1>8. Mutexes
  BY <1>2, <1>3, <1>4, ThreadForms, SessionForms DEF Mutexes, Joins, Joining
<1>9. Bugs
  BY <1>2, <1>3, <1>4, ThreadForms, SessionForms DEF Bugs, Seeks, Joins, Joining, Callers
<1>10. Once
  BY <1>2, <1>3, <1>4, ThreadForms DEF Once, Joins, Joining
<1>11. Recorded
  BY <1>3 DEF Recorded, StreamSafe
<1>12. QED BY <1>4, <1>5, <1>6, <1>7, <1>8, <1>9, <1>10, <1>11 DEF Inv

LEMMA NextInv == Inv /\ [Next]_vars => Inv'
<1> SUFFICES ASSUME Inv, [Next]_vars PROVE Inv'
  OBVIOUS
<1>1. CASE StartCapture \/ StopCommand \/ InitFails \/ StartTimers \/ LexDtmf \/ LexPlayDone
  BY <1>1, CommandsKept, CommandKept
<1>2. CASE InitSession \/ AddBug \/ Hangup \/ Destroy
  BY <1>2, InitSessionKept, AddBugKept, HangupKept, DestroyKept
<1>3. CASE FrameEnters \/ FrameGoesOn
  BY <1>3, FramesKept, FrameWritesKept DEF FrameGoesOn
<1>4. CASE \E t \in Callers : StopNext(t)
  BY <1>4, StopKept
<1>5. CASE \E k \in Sessions : \/ ReaderNext(k) \/ ReaderGets(k) \/ WorkerNext(k)
                               \/ FarEndEnds(k) \/ StreamReady(k)
  BY <1>5, ReaderKept, WorkerKept, FarEndKept
<1>6. CASE UNCHANGED vars
  <2>1. UNCHANGED <<vendor, mode, chan, sess, made, thread, media, reader, hurt>>
    BY <1>6 DEF vars
  <2>2. Shape' /\ Numbered' /\ HungUp' /\ Mutexes'
    BY <2>1, Basics DEF Shape, Numbered, Fresh, Grpc, HungUp, Mutexes, Joins
  <2>3. Bugs' /\ Once'
    BY <2>1, Basics DEF Bugs, Once, Seeks, Joins, Over
  <2>4. Recorded'
    BY <2>1, RecordedStays
  <2>5. \A j \in Sessions : j <= made => Proper(sess[j], reader[j])'
    BY <2>1, Basics DEF Proper, Grpc
  <2>6. QED BY <2>1, <2>2, <2>3, <2>4, <2>5 DEF Inv
<1>7. QED BY <1>1, <1>2, <1>3, <1>4, <1>5, <1>6 DEF Next, StartGoesOn

LEMMA InvHolds == Spec => []Inv
<1>1. QED BY InitInv, NextInv, PTL DEF Spec

-----------------------------------------------------------------------------
(* The theorems.                                                           *)

\* Type correctness, for any of the ten modules and any number of sessions; a
\* stop, or the close of a hang-up, that is under way has a session.
THEOREM TypeCorrect == Spec => []TypeOK
<1>1. Inv => TypeOK
  <2> SUFFICES ASSUME Inv PROVE TypeOK
    OBVIOUS
  <2>1. 1..made \subseteq Sessions /\ Shape /\ hurt \subseteq (1..made) \X Misuses
    BY Basics DEF Recorded
  <2>2. hurt \subseteq Sessions \X Misuses
    BY <2>1
  <2>3. QED BY <2>1, <2>2 DEF Shape, TypeOK, Readers, Mode
<1>2. QED BY <1>1, InvHolds, PTL

\* The mutex of session_cleanup, session_stop and frame, their second look at the
\* channel's bug, and the join of the thread keep a stream from being ended twice
\* or written after its end, a session from being joined twice, and the streamer,
\* the mutex and the call's memory from being used when they are gone, but for
\* what Known says of each module; whatever stops, starts, frames, hang-up, the
\* reading threads and the far end do.
THEOREM StreamSafeHolds == Spec => []StreamSafe
<1>1. Inv => StreamSafe
  BY DEF Inv, Recorded
<1>2. QED BY <1>1, InvHolds, PTL
=============================================================================
