-------------------------- MODULE TtsTransferProofs --------------------------
(***************************************************************************)
(* Proofs about TtsTransfer for any of the vendors, any number of feeds    *)
(* and any length of a download.                                           *)
(***************************************************************************)
EXTENDS TtsTransfer, TLAPS, SequenceTheorems

-----------------------------------------------------------------------------
(* Type correctness.                                                       *)

\* What a callback in progress, and a feed, may rely on.
Carried ==
  /\ worker.pc \in {"write", "insert", "end", "close"} => worker.conn \in Feeds
  /\ worker.pc \in {"write", "insert"} => conns[worker.conn].chunks \in 1..MaxChunks
  /\ session.pc = "feeding" => session.feeds \in Feeds

Types == TypeOK /\ Carried

LEMMA EmptyBuf ==
  /\ <<>> \in Seq(Samples)
  /\ [alive |-> TRUE, data |-> <<>>] \in Bufs /\ [alive |-> FALSE, data |-> <<>>] \in Bufs
  BY EmptySeq DEF Bufs

LEMMA Members ==
  /\ NULL \in MaybeFeed /\ Feeds \subseteq MaybeFeed
  /\ 0 \in Codes /\ 200 \in Codes /\ 400 \in Codes
  /\ 0 \in 0..MaxChunks /\ 0 \in 0..MaxFeeds /\ Feeds \subseteq 0..MaxFeeds
  BY ConstantsAssumption DEF MaybeFeed, Codes, Feeds, NULL

LEMMA NoConnType == NoConn \in Conns /\ GoneConn \in Conns
<1>1. NoConn \in Conns
  BY Members DEF NoConn, Conns
<1>2. QED BY <1>1 DEF GoneConn, Conns

LEMMA StartedType ==
  ASSUME conns \in [Feeds -> Conns]
  PROVE  /\ Started \in [Feeds -> Conns]
         /\ \A k \in Feeds : /\ Started[k].chunks = conns[k].chunks
                             /\ Started[k].flushed = conns[k].flushed
                             /\ Started[k].file = conns[k].file
                             /\ Started[k].code = conns[k].code
<1>1. \A r \in Conns : [r EXCEPT !.at = "running"] \in Conns
  BY DEF Conns
<1>2. QED BY <1>1 DEF Started, Conns

LEMMA InitTypes == Init => Types
<1> SUFFICES ASSUME Init PROVE Types
  OBVIOUS
<1>1. tts \in Handles
  BY Members DEF Init, Handles
<1>2. session \in Sessions /\ worker \in Workers
  BY Members DEF Init, Sessions, Workers
<1>3. TypeOK
  BY <1>1, <1>2, EmptyBuf, NoConnType DEF TypeOK, Init
<1>4. Carried
  BY DEF Init, Carried
<1>5. QED BY <1>3, <1>4 DEF Types

LEMMA FeedTypes == ASSUME Types, Feed PROVE Types'
<1>1. session \in Sessions /\ tts \in Handles /\ session.feeds \in 0..MaxFeeds
  BY DEF Types, TypeOK, Sessions
<1>2. session.feeds + 1 \in Feeds
  BY <1>1, ConstantsAssumption DEF Feed, Feeds
<1> DEFINE k == session.feeds + 1
<1>3. k \in Feeds /\ k \in MaybeFeed /\ k \in 0..MaxFeeds
  BY <1>2, Members
<1>4. PICK opened \in BOOLEAN, given \in SUBSET FeedOf[vendor].needs, decodes \in BOOLEAN :
       /\ session' = [session EXCEPT !.feeds = k, !.pc =
            IF given = FeedOf[vendor].needs /\ decodes THEN "feeding" ELSE "ended"]
       /\ tts' = [FreshHandle(k) EXCEPT !.cache = k, !.file = IF opened THEN k ELSE @]
       /\ files' = [files EXCEPT ![k] = IF opened THEN "open" ELSE "none"]
       /\ disk' = IF opened THEN disk \cup {k} ELSE disk
       /\ badOpen' = (badOpen \/ ~opened)
       /\ overlapped' = (overlapped \/ InCurl # {})
  BY DEF Feed
<1> HIDE DEF k
<1>5. session' \in Sessions /\ session'.feeds = k
  BY <1>1, <1>3, <1>4 DEF Sessions
<1>6. tts' \in Handles
  <2>1. FreshHandle(k) \in Handles
    BY ZenonT(30), <1>1, Members DEF FreshHandle, Handles
  <2>2. \A r \in Handles, f \in MaybeFeed : [r EXCEPT !.cache = k, !.file = f] \in Handles
    BY <1>3 DEF Handles
  <2>3. (IF opened THEN k ELSE FreshHandle(k).file) \in MaybeFeed
    BY <1>3, <2>1 DEF Handles
  <2>4. tts' = [FreshHandle(k) EXCEPT !.cache = k,
                                      !.file = IF opened THEN k ELSE FreshHandle(k).file]
    BY <1>4
  <2>5. QED BY <2>1, <2>2, <2>3, <2>4
<1>7. files' \in [Feeds -> {"none", "open", "closed"}] /\ disk' \subseteq Feeds
  BY <1>3, <1>4 DEF TypeOK, Types
<1>8. TypeOK'
  BY <1>4, <1>5, <1>6, <1>7 DEF Types, TypeOK, Feed
<1>9. Carried'
  BY <1>3, <1>5 DEF Types, Carried, Feed
<1>10. QED BY <1>8, <1>9 DEF Types

LEMMA BeginTypes == ASSUME Types, Begin PROVE Types'
<1>1. /\ session \in Sessions /\ tts \in Handles /\ conns \in [Feeds -> Conns]
      /\ session.feeds \in Feeds /\ session.feeds \in MaybeFeed
  BY Members DEF Types, TypeOK, Carried, Begin
<1> DEFINE k == session.feeds
<1>2. PICK added \in BOOLEAN :
       /\ conns' = [conns EXCEPT ![k] = [@ EXCEPT !.at = IF added THEN "added" ELSE "leaked",
                                                   !.file = tts.file]]
       /\ bufs' = [bufs EXCEPT ![k] = [alive |-> TRUE, data |-> <<>>]]
       /\ tts' = [tts EXCEPT !.conn = k, !.buffer = k]
       /\ timer' = (timer \/ added)
       /\ session' = [session EXCEPT !.pc = IF added THEN "speaking" ELSE "ended"]
  BY DEF Begin
<1> HIDE DEF k
<1>3. conns' \in [Feeds -> Conns] /\ \A c \in Feeds : conns'[c].chunks = conns[c].chunks
  <2> DEFINE v == [conns[k] EXCEPT !.at = IF added THEN "added" ELSE "leaked", !.file = tts.file]
  <2>1. \A r \in Conns, f \in MaybeFeed, a \in {"added", "leaked"} :
          /\ [r EXCEPT !.at = a, !.file = f] \in Conns
          /\ [r EXCEPT !.at = a, !.file = f].chunks = r.chunks
    BY DEF Conns
  <2>2. k \in Feeds /\ conns[k] \in Conns /\ tts.file \in MaybeFeed
    BY <1>1 DEF k, Handles
  <2>3. v \in Conns /\ v.chunks = conns[k].chunks
    BY <2>1, <2>2
  <2>4. conns' = [conns EXCEPT ![k] = v]
    BY <1>2
  <2> HIDE DEF v
  <2>5. QED BY <1>1, <2>2, <2>3, <2>4
<1>4. bufs' \in [Feeds -> Bufs]
  BY <1>1, <1>2, EmptyBuf DEF Types, TypeOK, k
<1>5. tts' \in Handles
  BY <1>1, <1>2 DEF Handles, k
<1>6. session' \in Sessions /\ session'.pc # "feeding"
  BY <1>1, <1>2 DEF Sessions
<1>7. TypeOK'
  BY <1>2, <1>3, <1>4, <1>5, <1>6 DEF Types, TypeOK, Begin, historyVars
<1>8. Carried'
  BY <1>3, <1>6 DEF Types, Carried, Begin
<1>9. QED BY <1>7, <1>8 DEF Types

LEMMA ReadTypes == ASSUME Types, ReadEnds \/ ReadAudio PROVE Types'
<1>1. CASE ReadEnds
  <2>1. session' \in Sessions /\ session'.pc = "ended"
    BY <1>1 DEF ReadEnds, Types, TypeOK, Sessions
  <2>2. QED BY <1>1, <2>1 DEF ReadEnds, Types, TypeOK, Carried, historyVars
<1>2. CASE ReadAudio
  <2>1. bufs' \in [Feeds -> Bufs]
    <3>1. \A r \in Bufs : r.data # <<>> => [r EXCEPT !.data = Tail(r.data)] \in Bufs
      BY HeadTailProperties DEF Bufs
    <3> DEFINE b == tts.buffer
               v == [bufs[b] EXCEPT !.data = Tail(bufs[b].data)]
    <3>2. bufs' = [bufs EXCEPT ![b] = v]
      BY <1>2 DEF ReadAudio
    <3>3. b \in Feeds => bufs[b] \in Bufs /\ bufs[b].data # <<>>
      BY <1>2 DEF ReadAudio, Types, TypeOK
    <3>4. b \in Feeds => v \in Bufs
      BY <3>1, <3>3
    <3> HIDE DEF b, v
    <3>5. QED BY <3>2, <3>4 DEF Types, TypeOK
  <2>2. QED BY <1>2, <2>1 DEF ReadAudio, Types, TypeOK, Carried, historyVars
<1>3. QED BY <1>1, <1>2

LEMMA FlushTypes == ASSUME Types, Flush \/ Interrupt \/ Clear PROVE Types'
<1>1. session \in Sessions /\ tts \in Handles /\ conns \in [Feeds -> Conns]
  BY DEF Types, TypeOK
<1>2. CASE Flush
  <2>1. tts.conn \in MaybeFeed
    BY <1>1 DEF Handles
  <2>2. session' \in Sessions /\ session'.pc = "flushing"
    BY <1>1, <1>2, <2>1 DEF Flush, Sessions
  <2>3. tts' \in Handles
    BY <1>1, <1>2, Members DEF Flush, Handles
  <2>4. bufs' \in [Feeds -> Bufs]
    BY <1>2, EmptyBuf DEF Flush, Types, TypeOK
  <2>5. QED BY <1>2, <2>2, <2>3, <2>4 DEF Flush, Types, TypeOK, Carried, historyVars
<1>3. CASE Interrupt
  <2> DEFINE c == session.conn
  <2>1. c \in MaybeFeed /\ (c # NULL => c \in Feeds /\ conns[c] \in Conns)
    BY <1>1 DEF Sessions, MaybeFeed
  <2>2. session' \in Sessions /\ session'.pc = "closing"
    <3>1. \A f \in MaybeFeed : /\ [session EXCEPT !.pc = "closing", !.file = f] \in Sessions
                               /\ [session EXCEPT !.pc = "closing", !.file = f].pc = "closing"
      BY <1>1 DEF Sessions
    <3>2. (IF c # NULL /\ ~session.complete THEN conns[c].file ELSE NULL) \in MaybeFeed
      BY <2>1, Members DEF Conns
    <3>3. session' = [session EXCEPT !.pc = "closing", !.file =
                        IF c # NULL /\ ~session.complete THEN conns[c].file ELSE NULL]
      BY <1>3 DEF Interrupt
    <3>4. QED BY <3>1, <3>2, <3>3
  <2>3. conns' \in [Feeds -> Conns] /\ \A k \in Feeds : conns'[k].chunks = conns[k].chunks
    <3>1. \A r \in Conns : /\ [r EXCEPT !.flushed = TRUE] \in Conns
                           /\ [r EXCEPT !.flushed = TRUE].chunks = r.chunks
      BY DEF Conns
    <3> DEFINE v == [conns[c] EXCEPT !.flushed = TRUE]
    <3>2. conns' = conns \/ (c \in Feeds /\ conns' = [conns EXCEPT ![c] = v])
      BY <1>3, <2>1 DEF Interrupt
    <3>3. c \in Feeds => v \in Conns /\ v.chunks = conns[c].chunks
      BY <1>1, <3>1
    <3> HIDE DEF v
    <3>4. QED BY <1>1, <3>2, <3>3
  <2>4. cut' \subseteq Feeds
    BY <1>3, <2>1 DEF Interrupt, Types, TypeOK
  <2>5. QED BY <1>3, <2>2, <2>3, <2>4 DEF Interrupt, Types, TypeOK, Carried
<1>4. CASE Clear
  <2>1. session' \in Sessions /\ session'.pc = "idle"
    BY <1>1, <1>4, Members DEF Clear, Sessions
  <2>2. tts' \in Handles
    <3>1. /\ [tts EXCEPT !.cache = NULL, !.file = NULL] \in Handles
          /\ [tts EXCEPT !.cache = NULL, !.file = tts.file] \in Handles
      BY ZenonT(30), <1>1, Members DEF Handles
    <3>2. QED BY <1>4, <3>1 DEF Clear
  <2>3. conns' \in [Feeds -> Conns] /\ \A k \in Feeds : conns'[k].chunks = conns[k].chunks
    <3>1. \A r \in Conns : /\ [r EXCEPT !.file = NULL] \in Conns
                           /\ [r EXCEPT !.file = NULL].chunks = r.chunks
      BY Members DEF Conns
    <3> DEFINE c == session.conn
               v == [conns[c] EXCEPT !.file = NULL]
    <3>2. conns' = conns \/ conns' = [conns EXCEPT ![c] = v]
      BY <1>4 DEF Clear
    <3>3. c \in Feeds => v \in Conns /\ v.chunks = conns[c].chunks
      BY <1>1, <3>1
    <3> HIDE DEF c, v
    <3>4. QED BY <1>1, <3>2, <3>3
  <2>4. files' \in [Feeds -> {"none", "open", "closed"}] /\ hurt' \subseteq Feeds /\ disk' \subseteq Feeds
    <3>1. session.file \in MaybeFeed
      BY <1>1 DEF Sessions
    <3>2. QED BY <1>4, <3>1 DEF Clear, CloseFile, Types, TypeOK, MaybeFeed
  <2>5. QED BY <1>4, <2>1, <2>2, <2>3, <2>4 DEF Clear, Types, TypeOK, Carried
<1>5. QED BY <1>2, <1>3, <1>4

LEMMA StartTypes ==
  ASSUME Types, TimerCb \/ (\E k \in Feeds : HeaderCb(k) \/ WriteCb(k) \/ Finish(k))
  PROVE  Types'
<1>1. /\ conns \in [Feeds -> Conns] /\ Started \in [Feeds -> Conns]
      /\ tts \in Handles /\ worker \in Workers
      /\ \A k \in Feeds : Started[k].chunks = conns[k].chunks
  BY StartedType DEF Types, TypeOK
<1>2. CASE TimerCb
  BY <1>1, <1>2 DEF TimerCb, Types, TypeOK, Carried, historyVars
<1>3. ASSUME NEW k \in Feeds, HeaderCb(k) PROVE Types'
  <2>1. PICK code \in Codes \ {0} : /\ conns' = [Started EXCEPT ![k].code = code]
                                    /\ tts' = [tts EXCEPT !.code = code]
    BY <1>3 DEF HeaderCb
  <2>2. \A r \in Conns : [r EXCEPT !.code = code] \in Conns
    BY DEF Conns
  <2>3. conns' \in [Feeds -> Conns]
    BY <1>1, <2>1, <2>2
  <2>4. tts' \in Handles
    BY <1>1, <2>1 DEF Handles
  <2>5. QED BY <1>3, <2>3, <2>4 DEF HeaderCb, Types, TypeOK, Carried, historyVars
<1>4. ASSUME NEW k \in Feeds, WriteCb(k) PROVE Types'
  <2>1. conns[k].chunks \in 0..MaxChunks /\ conns[k].chunks + 1 \in 1..MaxChunks
    <3>1. conns[k].chunks \in 0..MaxChunks /\ conns[k].chunks < MaxChunks
      BY <1>1, <1>4 DEF WriteCb, Conns
    <3>2. QED BY <3>1, ConstantsAssumption
  <2>2. /\ conns' \in [Feeds -> Conns]
        /\ conns'[k].chunks = conns[k].chunks + 1
    <3>1. \A r \in Conns, n \in 0..MaxChunks : /\ [r EXCEPT !.chunks = n] \in Conns
                                               /\ [r EXCEPT !.chunks = n].chunks = n
      BY DEF Conns
    <3>2. conns' = [Started EXCEPT ![k] = [Started[k] EXCEPT !.chunks = conns[k].chunks + 1]]
      BY <1>1, <1>4 DEF WriteCb
    <3>3. conns[k].chunks + 1 \in 0..MaxChunks
      BY <2>1
    <3>4. QED BY <1>1, <3>1, <3>2, <3>3
  <2>3. /\ worker' \in Workers /\ tts' \in Handles
        /\ worker'.pc \in {"end", "write"} /\ worker'.conn = k
    <3>1. k \in MaybeFeed /\ tts.buffer \in MaybeFeed
      BY <1>1, Members DEF Handles
    <3>2. CASE FlushedOrGone(k)
      <4>1. worker' = [worker EXCEPT !.pc = "end", !.conn = k] /\ tts' = tts
        BY <1>4, <3>2 DEF WriteCb
      <4>2. QED BY <1>1, <3>1, <4>1 DEF Workers
    <3>3. CASE ~FlushedOrGone(k)
      <4>1. worker' = [worker EXCEPT !.pc = "write", !.conn = k, !.buf = tts.buffer,
                                     !.first = WriteOf[vendor].wav /\ tts.reads = 0]
        BY <1>4, <3>3 DEF WriteCb
      <4>2. (WriteOf[vendor].wav /\ tts.reads = 0) \in BOOLEAN
        OBVIOUS
      <4>3. worker' \in Workers /\ worker'.pc = "write" /\ worker'.conn = k
        BY <1>1, <3>1, <4>1, <4>2 DEF Workers
      <4>4. Counted \in Handles
        BY <1>1 DEF Counted, Handles
      <4>5. tts' \in Handles
        BY <1>1, <1>4, <3>3, <4>4 DEF WriteCb
      <4>6. QED BY <4>3, <4>5
    <3>4. QED BY <3>2, <3>3
  <2>4. TypeOK'
    BY <1>4, <2>2, <2>3 DEF WriteCb, Types, TypeOK, historyVars
  <2>5. Carried'
    BY <1>4, <2>1, <2>2, <2>3 DEF WriteCb, Types, Carried
  <2>6. QED BY <2>4, <2>5 DEF Types
<1>5. ASSUME NEW k \in Feeds, Finish(k) PROVE Types'
  <2>1. worker' \in Workers /\ worker'.pc = "end" /\ worker'.conn = k
    BY <1>1, <1>5, Members DEF Finish, Workers
  <2>2. QED BY <1>1, <1>5, <2>1 DEF Finish, Types, TypeOK, Carried, historyVars
<1>6. QED BY <1>2, <1>3, <1>4, <1>5

LEMMA WorkerTypes == ASSUME Types, WorkerGoesOn PROVE Types'
<1>1. /\ conns \in [Feeds -> Conns] /\ tts \in Handles /\ worker \in Workers
      /\ bufs \in [Feeds -> Bufs]
  BY DEF Types, TypeOK
<1>2. CASE WriteFile
  <2>1. /\ worker' \in Workers /\ worker'.conn = worker.conn /\ worker'.pc \in {"insert", "end"}
    <3>1. /\ [worker EXCEPT !.pc = "insert"] \in Workers
          /\ [worker EXCEPT !.pc = "insert"].conn = worker.conn
          /\ [worker EXCEPT !.pc = "insert"].pc = "insert"
      BY <1>1 DEF Workers
    <3>2. /\ [worker EXCEPT !.pc = "end", !.buf = NULL, !.first = FALSE] \in Workers
          /\ [worker EXCEPT !.pc = "end", !.buf = NULL, !.first = FALSE].conn = worker.conn
          /\ [worker EXCEPT !.pc = "end", !.buf = NULL, !.first = FALSE].pc = "end"
      BY <1>1, Members DEF Workers
    <3>3. QED BY <1>2, <3>1, <3>2 DEF WriteFile
  <2>2. hurt' \subseteq Feeds
    <3>1. worker.conn \in Feeds
      BY <1>2 DEF WriteFile, Types, Carried
    <3>2. conns[worker.conn].file \in MaybeFeed
      BY <1>1, <3>1 DEF Conns
    <3>3. QED BY <1>2, <3>2 DEF WriteFile, Types, TypeOK, MaybeFeed
  <2>3. QED BY <1>2, <2>1, <2>2 DEF WriteFile, Types, TypeOK, Carried
<1>3. CASE Insert
  <2>1. worker.conn \in Feeds /\ conns[worker.conn].chunks \in 1..MaxChunks /\ worker.first \in BOOLEAN
    BY <1>1, <1>3 DEF Insert, Types, Carried, Workers
  <2>2. <<worker.conn, conns[worker.conn].chunks, worker.first>> \in Samples
    BY <2>1 DEF Samples
  <2>3. bufs' \in [Feeds -> Bufs]
    <3>1. \A r \in Bufs, s \in Samples : [r EXCEPT !.data = Append(r.data, s)] \in Bufs
      BY AppendProperties DEF Bufs
    <3> DEFINE b == worker.buf
               s == <<worker.conn, conns[worker.conn].chunks, worker.first>>
               v == [bufs[b] EXCEPT !.data = Append(bufs[b].data, s)]
    <3>2. bufs' = bufs \/ bufs' = [bufs EXCEPT ![b] = v]
      BY <1>3 DEF Insert
    <3> HIDE DEF s
    <3>3. b \in Feeds => v \in Bufs
      BY <1>1, <2>2, <3>1 DEF s
    <3> HIDE DEF b, v
    <3>4. QED BY <1>1, <3>2, <3>3
  <2>4. tts' \in Handles
    BY <1>1, <1>3 DEF Insert, Counted, Handles
  <2>5. worker' \in Workers /\ worker'.pc \in {"tell", "idle"}
    BY <1>1, <1>3, Members DEF Insert, Workers
  <2>6. QED BY <1>3, <2>3, <2>4, <2>5 DEF Insert, Types, TypeOK, Carried, historyVars
<1>4. CASE Tell
  <2>1. worker' \in Workers /\ worker'.pc = "idle"
    BY <1>1, <1>4 DEF Tell, Workers
  <2>2. told' \subseteq Feeds
    <3>1. tts.cache \in MaybeFeed
      BY <1>1 DEF Handles
    <3>2. QED BY <1>4, <3>1 DEF Tell, Types, TypeOK, MaybeFeed
  <2>3. tts' \in Handles
    <3>1. WriteOf[vendor].remembers \in BOOLEAN
      <4>1. vendor \in AllVendors
        BY ConstantsAssumption DEF Types, TypeOK
      <4>2. \A v \in AllVendors : WriteOf[v].remembers \in BOOLEAN
        <5>1. WriteOf["deepgram"].remembers \in BOOLEAN
          BY DEF WriteOf, DeepgramWrite
        <5>2. WriteOf["rimelabs"].remembers \in BOOLEAN
          BY DEF WriteOf, RimelabsWrite
        <5>3. WriteOf["verbio"].remembers \in BOOLEAN
          BY DEF WriteOf, VerbioWrite
        <5>4. WriteOf["whisper"].remembers \in BOOLEAN
          BY DEF WriteOf, WhisperWrite
        <5>5. WriteOf["playht"].remembers \in BOOLEAN
          BY DEF WriteOf, PlayhtWrite
        <5>6. WriteOf["elevenlabs"].remembers \in BOOLEAN
          BY DEF WriteOf, ElevenlabsWrite
        <5>7. WriteOf["custom"].remembers \in BOOLEAN
          BY DEF WriteOf, CustomWrite
        <5>8. QED
          BY <5>1, <5>2, <5>3, <5>4, <5>5, <5>6, <5>7 DEF AllVendors
      <4>3. QED BY <4>1, <4>2
    <3>2. \A b \in BOOLEAN : [tts EXCEPT !.started = b] \in Handles
      BY <1>1 DEF Handles
    <3>3. QED BY <1>1, <1>4, <3>1, <3>2 DEF Tell
  <2>4. QED BY <1>4, <2>1, <2>2, <2>3 DEF Tell, Types, TypeOK, Carried
<1>5. CASE CheckMultiInfo
  <2>1. worker.conn \in Feeds
    BY <1>5 DEF CheckMultiInfo, Types, Carried
  <2>2. conns[worker.conn].code \in Codes /\ conns[worker.conn].file \in MaybeFeed
    BY <1>1, <2>1 DEF Conns
  <2>3. PICK last \in BOOLEAN :
          /\ tts' = [tts EXCEPT !.code = conns[worker.conn].code]
          /\ worker' = [worker EXCEPT !.pc = "close", !.file = conns[worker.conn].file, !.last = last]
    BY <1>5 DEF CheckMultiInfo, FileToClose
  <2>4. tts' \in Handles
    BY <1>1, <2>2, <2>3 DEF Handles
  <2>5. worker' \in Workers /\ worker'.pc = "close" /\ worker'.conn = worker.conn
    BY <1>1, <2>2, <2>3 DEF Workers
  <2>6. QED BY <1>5, <2>1, <2>4, <2>5 DEF CheckMultiInfo, Types, TypeOK, Carried, historyVars
<1>6. CASE CleanupConn
  <2>1. tts' \in Handles
    BY ZenonT(30), <1>1, <1>6, Members DEF CleanupConn, DetachedHandle, Handles
  <2>2. worker' \in Workers /\ worker'.pc = "event"
    BY <1>1, <1>6, Members DEF CleanupConn, Workers
  <2>3. conns' \in [Feeds -> Conns]
    BY <1>1, <1>6, NoConnType DEF CleanupConn
  <2>4. files' \in [Feeds -> {"none", "open", "closed"}] /\ hurt' \subseteq Feeds
    <3>1. worker.file \in MaybeFeed
      BY <1>1 DEF Workers
    <3>2. QED BY <1>6, <3>1 DEF CleanupConn, CloseFile, Types, TypeOK, MaybeFeed
  <2>5. QED BY <1>6, <2>1, <2>2, <2>3, <2>4 DEF CleanupConn, Types, TypeOK, Carried
<1>7. CASE EventCb
  <2>1. worker' \in Workers /\ worker'.pc = "idle"
    BY <1>1, <1>7 DEF EventCb, Workers
  <2>2. QED BY <1>7, <2>1 DEF EventCb, Types, TypeOK, Carried, historyVars
<1>8. QED BY <1>2, <1>3, <1>4, <1>5, <1>6, <1>7 DEF WorkerGoesOn

LEMMA NextTypes == ASSUME Types, [Next]_vars PROVE Types'
<1>1. CASE SessionNext
  BY <1>1, FeedTypes, BeginTypes, ReadTypes, FlushTypes DEF SessionNext
<1>2. CASE TimerCb \/ WorkerGoesOn \/ (\E k \in Feeds : Transfer(k))
  BY <1>2, StartTypes, WorkerTypes DEF Transfer
<1>3. CASE UNCHANGED vars
  BY <1>3 DEF vars, Types, TypeOK, Carried
<1>4. QED BY <1>1, <1>2, <1>3 DEF Next

\* Every variable keeps its type, and a callback that is under way belongs to a
\* transfer: for any number of texts and any length of a download.
THEOREM TypeCorrect == Spec => []TypeOK
<1>1. Types => TypeOK
  BY DEF Types
<1>2. QED BY <1>1, InitTypes, NextTypes, PTL DEF Spec

-----------------------------------------------------------------------------
(* What flush has stopped.                                                 *)

\* The buffer that exists is the handle's; there is none from a flush to the
\* next transfer; a callback that holds the address of a buffer that exists is of
\* a transfer that has not been flushed, and no callback holds the address of the
\* buffer a feed is about to make.
OneBuffer ==
  /\ \A b \in Feeds : bufs[b].alive => tts.buffer = b
  /\ session.pc \in {"idle", "feeding", "flushing", "closing"} => tts.buffer = NULL

Unflushed ==
  worker.pc \in {"write", "insert"} =>
    \A b \in Feeds : worker.buf = b /\ bufs[b].alive => ~conns[worker.conn].flushed

Numbered ==
  /\ tts.buffer <= session.feeds /\ worker.buf <= session.feeds
  /\ session.pc = "feeding" => worker.buf < session.feeds

Silence == OneBuffer /\ Unflushed /\ Numbered

LEMMA NullIsNoFeed == \A b \in Feeds : b # NULL /\ b \in Nat /\ b > 0
  BY ConstantsAssumption DEF Feeds, NULL

\* What is read of a record without a look at the rest.
LEMMA RecordFields ==
  ASSUME TypeOK
  PROVE  /\ tts.buffer \in MaybeFeed /\ tts.buffer \in Nat /\ tts.conn \in MaybeFeed
         /\ tts.file \in MaybeFeed
         /\ session.feeds \in Nat /\ session.conn \in MaybeFeed
         /\ worker.buf \in MaybeFeed /\ worker.buf \in Nat
         /\ \A b \in Feeds : bufs[b].data \in Seq(Samples) /\ Len(bufs[b].data) \in Nat
<1>1. MaybeFeed \subseteq Nat
  BY NullIsNoFeed DEF MaybeFeed, NULL
<1>2. tts.buffer \in MaybeFeed /\ tts.conn \in MaybeFeed /\ tts.file \in MaybeFeed
  BY DEF TypeOK, Handles
<1>3. session.feeds \in 0..MaxFeeds /\ session.conn \in MaybeFeed
  BY DEF TypeOK, Sessions
<1>4. worker.buf \in MaybeFeed
  BY DEF TypeOK, Workers
<1>5. \A b \in Feeds : bufs[b].data \in Seq(Samples)
  BY DEF TypeOK, Bufs
<1>6. \A b \in Feeds : Len(bufs[b].data) \in Nat
  BY <1>5, LenProperties
<1>7. session.feeds \in Nat
  BY <1>3, ConstantsAssumption
<1>8. QED BY <1>1, <1>2, <1>3, <1>4, <1>5, <1>6, <1>7

\* A step that makes no buffer, feeds nothing and flags no transfer.
LEMMA SilenceKept ==
  ASSUME Types, Silence, tts'.buffer = tts.buffer, session'.feeds = session.feeds,
         \A b \in Feeds : bufs'[b].alive => bufs[b].alive,
         \A k \in Feeds : conns'[k].flushed => conns[k].flushed,
         session'.pc \in {"idle", "feeding", "flushing", "closing"} =>
           session.pc \in {"idle", "feeding", "flushing", "closing"},
         session'.pc = "feeding" => session.pc = "feeding",
         worker'.buf \in {worker.buf, NULL},
         worker'.pc \in {"write", "insert"} =>
           worker.pc \in {"write", "insert"} /\ worker'.buf = worker.buf
             /\ worker'.conn = worker.conn
  PROVE  Silence'
<1>1. worker.pc \in {"write", "insert"} => worker.conn \in Feeds
  BY DEF Types, Carried
<1>2. OneBuffer'
  BY DEF Silence, OneBuffer
<1>3. Unflushed'
  BY <1>1 DEF Silence, Unflushed
<1>4. Numbered'
  <2>1. session.pc = "feeding" => session.feeds > 0
    BY NullIsNoFeed DEF Types, Carried
  <2>2. QED BY <2>1, RecordFields DEF Types, Silence, Numbered, NULL
<1>5. QED BY <1>2, <1>3, <1>4 DEF Silence

LEMMA SilenceOfSession ==
  ASSUME Types, Silence, SessionNext
  PROVE  Silence' /\ \A b \in Feeds : ~(Len(bufs'[b].data) > Len(bufs[b].data))
<1>1. /\ session \in Sessions /\ tts \in Handles /\ conns \in [Feeds -> Conns]
      /\ bufs \in [Feeds -> Bufs] /\ worker \in Workers
  BY DEF Types, TypeOK
<1>2. \A b \in Feeds : ~(Len(bufs[b].data) > Len(bufs[b].data))
  BY RecordFields DEF Types
<1>3. \A b \in Feeds : bufs'[b].data = <<>> => ~(Len(bufs'[b].data) > Len(bufs[b].data))
  <2>1. Len(<<>>) = 0
    BY EmptySeq
  <2>2. QED BY <2>1, RecordFields DEF Types
<1>4. CASE Feed
  <2>1. /\ tts'.buffer = tts.buffer /\ session'.pc \in {"feeding", "ended"}
        /\ session'.feeds = session.feeds + 1
    BY <1>1, <1>4 DEF Feed, FreshHandle, Handles, Sessions
  <2>2. bufs' = bufs /\ conns' = conns /\ worker' = worker /\ session.pc = "idle"
    BY <1>4 DEF Feed
  <2>3. OneBuffer' /\ Unflushed'
    BY <2>1, <2>2 DEF Silence, OneBuffer, Unflushed
  <2>4. Numbered'
    BY <2>1, <2>2, RecordFields DEF Types, Silence, Numbered
  <2>5. QED BY <1>2, <2>2, <2>3, <2>4 DEF Silence
<1>5. CASE Begin
  <2> DEFINE k == session.feeds
             new == [alive |-> TRUE, data |-> <<>>]
  <2>1. k \in Feeds /\ k # NULL
    BY <1>5, NullIsNoFeed DEF Begin, Types, Carried
  <2>2. /\ bufs' = [bufs EXCEPT ![k] = new] /\ worker' = worker
        /\ tts'.buffer = k /\ session'.pc \in {"speaking", "ended"} /\ session'.feeds = k
    BY <1>1, <1>5 DEF Begin, Handles, Sessions
  <2>3. \A b \in Feeds : ~bufs[b].alive
    BY <1>5, NullIsNoFeed DEF Begin, Silence, OneBuffer
  <2>4. worker.buf < k
    BY <1>5 DEF Begin, Silence, Numbered
  <2>5. new.alive /\ new.data = <<>>
    OBVIOUS
  <2> HIDE DEF k, new
  <2>6. \A b \in Feeds : bufs'[b] = IF b = k THEN new ELSE bufs[b]
    BY <1>1, <2>1, <2>2
  <2>7. OneBuffer'
    BY <2>2, <2>3, <2>6 DEF OneBuffer
  <2>8. worker.buf # k /\ k \in Nat
    BY <2>1, <2>4, NullIsNoFeed, RecordFields DEF Types
  <2>9. Unflushed'
    BY <2>2, <2>3, <2>6, <2>8 DEF Unflushed
  <2>10. Numbered'
    BY <2>2, <2>4, <2>8, RecordFields DEF Types, Numbered
  <2>11. \A b \in Feeds : ~(Len(bufs'[b].data) > Len(bufs[b].data))
    BY <1>2, <1>3, <2>5, <2>6
  <2>12. QED BY <2>7, <2>9, <2>10, <2>11 DEF Silence
<1>6. CASE ReadEnds
  <2>1. session'.pc = "ended" /\ session'.feeds = session.feeds
    BY <1>1, <1>6 DEF ReadEnds, Sessions
  <2>2. QED BY <1>2, <1>6, <2>1, SilenceKept DEF ReadEnds
<1>7. CASE ReadAudio
  <2> DEFINE c == tts.buffer
             v == [bufs[c] EXCEPT !.data = Tail(bufs[c].data)]
  <2>1. bufs' = [bufs EXCEPT ![c] = v] /\ bufs[c].data # <<>>
    BY <1>7 DEF ReadAudio
  <2>2. c \in Feeds => v.alive = bufs[c].alive /\ v.data = Tail(bufs[c].data)
    BY <1>1 DEF Bufs
  <2>3. c \in Feeds => Len(v.data) = Len(bufs[c].data) - 1
    BY <2>1, <2>2, RecordFields, HeadTailProperties DEF Types
  <2> HIDE DEF c, v
  <2>4. \A b \in Feeds : bufs'[b] = IF b = c THEN v ELSE bufs[b]
    BY <1>1, <2>1
  <2>5. \A b \in Feeds : ~(Len(bufs'[b].data) > Len(bufs[b].data))
    BY <2>3, <2>4, RecordFields DEF Types
  <2>6. \A b \in Feeds : bufs'[b].alive => bufs[b].alive
    BY <2>2, <2>4
  <2>7. QED BY <1>7, <2>5, <2>6, SilenceKept DEF ReadAudio
<1>8. CASE Flush
  <2> DEFINE c == tts.buffer
             v == [alive |-> FALSE, data |-> <<>>]
  <2>1. bufs' = IF c = NULL THEN bufs ELSE [bufs EXCEPT ![c] = v]
    BY <1>8 DEF Flush
  <2>2. ~v.alive /\ v.data = <<>>
    OBVIOUS
  <2>3. /\ tts'.buffer = NULL /\ session'.pc = "flushing" /\ session'.feeds = session.feeds
        /\ conns' = conns /\ worker' = worker
    BY <1>1, <1>8 DEF Flush, Handles, Sessions
  <2> HIDE DEF c, v
  <2>4. \A b \in Feeds : bufs'[b] = v \/ (bufs'[b] = bufs[b] /\ b # c)
    BY <1>1, <2>1, NullIsNoFeed
  <2>5. \A b \in Feeds : ~bufs'[b].alive
    BY <2>2, <2>4 DEF Silence, OneBuffer, c
  <2>6. OneBuffer' /\ Unflushed'
    BY <2>3, <2>5 DEF OneBuffer, Unflushed
  <2>7. Numbered'
    BY <2>3, RecordFields DEF Types, Silence, Numbered, NULL
  <2>8. \A b \in Feeds : ~(Len(bufs'[b].data) > Len(bufs[b].data))
    BY <1>2, <1>3, <2>2, <2>4
  <2>9. QED BY <2>6, <2>7, <2>8 DEF Silence
<1>9. CASE Interrupt
  <2>1. session.pc = "flushing" /\ bufs' = bufs /\ tts' = tts /\ worker' = worker
    BY <1>9 DEF Interrupt
  <2>2. session'.pc = "closing" /\ session'.feeds = session.feeds
    BY <1>1, <1>9 DEF Interrupt, Sessions
  <2>3. \A b \in Feeds : ~bufs[b].alive
    BY <2>1, NullIsNoFeed DEF Silence, OneBuffer
  <2>4. OneBuffer' /\ Unflushed' /\ Numbered'
    BY <2>1, <2>2, <2>3 DEF Silence, OneBuffer, Unflushed, Numbered
  <2>5. QED BY <1>2, <2>1, <2>4 DEF Silence
<1>10. CASE Clear
  <2>1. /\ session'.pc = "idle" /\ session'.feeds = session.feeds /\ session.pc = "closing"
        /\ tts'.buffer = tts.buffer /\ bufs' = bufs /\ worker' = worker
    BY <1>1, <1>10 DEF Clear, Sessions, Handles
  <2>2. \A k \in Feeds : conns'[k].flushed = conns[k].flushed
    <3> DEFINE c == session.conn
               v == [conns[c] EXCEPT !.file = NULL]
    <3>1. conns' = conns \/ conns' = [conns EXCEPT ![c] = v]
      BY <1>10 DEF Clear
    <3>2. c \in Feeds => v.flushed = conns[c].flushed
      BY <1>1 DEF Conns
    <3> HIDE DEF c, v
    <3>3. QED BY <1>1, <3>1, <3>2
  <2>3. QED BY <1>2, <2>1, <2>2, SilenceKept
<1>11. QED BY <1>4, <1>5, <1>6, <1>7, <1>8, <1>9, <1>10 DEF SessionNext

LEMMA SilenceOfStart ==
  ASSUME Types, Silence, TimerCb \/ (\E k \in Feeds : Transfer(k))
  PROVE  Silence' /\ bufs' = bufs
<1>1. /\ tts \in Handles /\ conns \in [Feeds -> Conns] /\ worker \in Workers
      /\ Started \in [Feeds -> Conns]
      /\ \A c \in Feeds : Started[c].flushed = conns[c].flushed
  BY StartedType DEF Types, TypeOK
<1>2. CASE TimerCb
  BY <1>1, <1>2, SilenceKept DEF TimerCb
<1>3. ASSUME NEW k \in Feeds, HeaderCb(k) PROVE Silence' /\ bufs' = bufs
  <2>1. PICK code \in Codes \ {0} : /\ conns' = [Started EXCEPT ![k].code = code]
                                    /\ tts' = [tts EXCEPT !.code = code]
    BY <1>3 DEF HeaderCb
  <2> DEFINE v == [Started[k] EXCEPT !.code = code]
  <2>2. v.flushed = Started[k].flushed
    BY <1>1 DEF Conns
  <2>3. conns' = [Started EXCEPT ![k] = v]
    BY <2>1
  <2> HIDE DEF v
  <2>4. \A c \in Feeds : conns'[c].flushed = conns[c].flushed
    BY <1>1, <2>2, <2>3
  <2>5. tts'.buffer = tts.buffer
    BY <1>1, <2>1 DEF Handles
  <2>6. QED BY <1>3, <2>4, <2>5, SilenceKept DEF HeaderCb
<1>4. ASSUME NEW k \in Feeds, WriteCb(k) PROVE Silence' /\ bufs' = bufs
  <2> DEFINE v == [Started[k] EXCEPT !.chunks = conns[k].chunks + 1]
  <2>1. v.flushed = Started[k].flushed
    BY <1>1 DEF Conns
  <2>2. conns' = [Started EXCEPT ![k] = v]
    <3>1. conns' = [Started EXCEPT ![k].chunks = @ + 1] /\ Started[k].chunks = conns[k].chunks
      BY <1>4, StartedType DEF WriteCb, Types, TypeOK
    <3>2. QED BY <3>1
  <2> HIDE DEF v
  <2>3. \A c \in Feeds : conns'[c].flushed = conns[c].flushed
    BY <1>1, <2>1, <2>2
  <2>4. session' = session /\ bufs' = bufs
    BY <1>4 DEF WriteCb
  <2>5. CASE FlushedOrGone(k)
    <3>1. tts' = tts /\ worker'.pc = "end" /\ worker'.buf = worker.buf
      BY <1>1, <1>4, <2>5 DEF WriteCb, Workers
    <3>2. QED BY <2>3, <2>4, <3>1, SilenceKept
  <2>6. CASE ~FlushedOrGone(k)
    <3>1. /\ worker'.buf = tts.buffer /\ worker'.conn = k
          /\ tts'.buffer = tts.buffer
      BY <1>1, <1>4, <2>6 DEF WriteCb, Workers, Handles, Counted
    <3>2. ~conns'[k].flushed
      BY <2>3, <2>6 DEF FlushedOrGone
    <3>3. OneBuffer' /\ Unflushed'
      BY <2>4, <3>1, <3>2 DEF Silence, OneBuffer, Unflushed
    <3>4. Numbered'
      <4>1. session.pc = "feeding" => session.feeds > 0 /\ tts.buffer = 0
        BY NullIsNoFeed DEF Types, Carried, Silence, OneBuffer, NULL
      <4>2. QED BY <2>4, <3>1, <4>1 DEF Silence, Numbered
    <3>5. QED BY <2>4, <3>3, <3>4 DEF Silence
  <2>7. QED BY <2>5, <2>6
<1>5. ASSUME NEW k \in Feeds, Finish(k) PROVE Silence' /\ bufs' = bufs
  <2>1. worker'.pc = "end" /\ worker'.buf = worker.buf
    BY <1>1, <1>5 DEF Finish, Workers
  <2>2. QED BY <1>1, <1>5, <2>1, SilenceKept DEF Finish
<1>6. QED BY <1>2, <1>3, <1>4, <1>5 DEF Transfer

LEMMA SilenceOfWorker ==
  ASSUME Types, Silence, WorkerGoesOn
  PROVE  /\ Silence'
         /\ \A b \in Feeds : Len(bufs'[b].data) > Len(bufs[b].data) => ~conns[worker.conn].flushed
<1>1. /\ tts \in Handles /\ conns \in [Feeds -> Conns] /\ worker \in Workers
      /\ bufs \in [Feeds -> Bufs]
  BY DEF Types, TypeOK
<1>2. bufs' = bufs => \A b \in Feeds : ~(Len(bufs'[b].data) > Len(bufs[b].data))
  BY RecordFields DEF Types
<1>3. CASE WriteFile
  <2>1. \/ worker'.pc = "insert" /\ worker'.buf = worker.buf /\ worker'.conn = worker.conn
        \/ worker'.pc = "end" /\ worker'.buf = NULL
    BY <1>1, <1>3 DEF WriteFile, Workers
  <2>2. QED BY <1>2, <1>3, <2>1, SilenceKept DEF WriteFile
<1>4. CASE Insert
  <2> DEFINE b == worker.buf
             s == <<worker.conn, conns[worker.conn].chunks, worker.first>>
             v == [bufs[b] EXCEPT !.data = Append(bufs[b].data, s)]
  <2>1. bufs' = bufs \/ (b # NULL /\ bufs[b].alive /\ bufs' = [bufs EXCEPT ![b] = v])
    BY <1>4 DEF Insert
  <2>2. b \in Feeds => v.alive = bufs[b].alive
    BY <1>1 DEF Bufs
  <2>3. b \in Feeds /\ bufs[b].alive => ~conns[worker.conn].flushed
    BY <1>4 DEF Insert, Silence, Unflushed
  <2>4. b \in MaybeFeed
    BY RecordFields DEF Types
  <2> HIDE DEF b, v
  <2>5. \A c \in Feeds : bufs'[c].alive = bufs[c].alive
    BY <1>1, <2>1, <2>2
  <2>6. \A c \in Feeds : Len(bufs'[c].data) > Len(bufs[c].data) => ~conns[worker.conn].flushed
    BY <1>2, <2>1, <2>3, <2>4 DEF MaybeFeed
  <2>7. tts'.buffer = tts.buffer /\ worker'.pc \in {"tell", "idle"} /\ worker'.buf = NULL
    BY <1>1, <1>4 DEF Insert, Counted, Handles, Workers
  <2>8. QED BY <1>4, <2>5, <2>6, <2>7, SilenceKept DEF Insert
<1>5. CASE Tell
  <2>1. worker'.pc = "idle" /\ worker'.buf = worker.buf /\ tts'.buffer = tts.buffer
    BY <1>1, <1>5 DEF Tell, Workers, Handles
  <2>2. QED BY <1>2, <1>5, <2>1, SilenceKept DEF Tell
<1>6. CASE CheckMultiInfo
  <2>1. worker'.pc = "close" /\ worker'.buf = worker.buf /\ tts'.buffer = tts.buffer
    BY <1>1, <1>6 DEF CheckMultiInfo, Workers, Handles
  <2>2. QED BY <1>2, <1>6, <2>1, SilenceKept DEF CheckMultiInfo
<1>7. CASE CleanupConn
  <2>1. worker'.pc = "event" /\ worker'.buf = worker.buf /\ tts'.buffer = tts.buffer
    BY <1>1, <1>7 DEF CleanupConn, DetachedHandle, Workers, Handles
  <2>2. ~GoneConn.flushed
    BY DEF GoneConn, NoConn
  <2>3. \A c \in Feeds : conns'[c].flushed => conns[c].flushed
    BY <1>1, <1>7, <2>2 DEF CleanupConn
  <2>4. QED BY <1>2, <1>7, <2>1, <2>3, SilenceKept DEF CleanupConn
<1>8. CASE EventCb
  <2>1. worker'.pc = "idle" /\ worker'.buf = worker.buf
    BY <1>1, <1>8 DEF EventCb, Workers
  <2>2. QED BY <1>2, <1>8, <2>1, SilenceKept DEF EventCb
<1>9. QED BY <1>3, <1>4, <1>5, <1>6, <1>7, <1>8 DEF WorkerGoesOn

\* A download that flush has stopped adds nothing to any buffer, although
\* write_cb reads the buffer's address before it takes the mutex and flush deletes
\* the buffer without it, in all seven copies and for any number of texts.
THEOREM FlushedStaysSilentHolds == Spec => FlushedStaysSilent
<1>1. Init => Silence
  <2> SUFFICES ASSUME Init PROVE Silence
    OBVIOUS
  <2>1. \A b \in Feeds : ~bufs[b].alive
    BY DEF Init
  <2>2. QED BY <2>1 DEF Init, Silence, OneBuffer, Unflushed, Numbered, NULL
<1>2. Types /\ Silence /\ [Next]_vars => Silence'
  <2>1. Types /\ Silence /\ UNCHANGED vars => Silence'
    BY DEF vars, Silence, OneBuffer, Unflushed, Numbered
  <2>2. QED BY <2>1, SilenceOfSession, SilenceOfStart, SilenceOfWorker DEF Next
<1>3. Types /\ Silence /\ [Next]_vars =>
        [\A b \in Feeds : Len(bufs'[b].data) > Len(bufs[b].data) => ~conns[worker.conn].flushed]_vars
  <2>1. bufs' = bufs /\ Types => \A b \in Feeds : ~(Len(bufs'[b].data) > Len(bufs[b].data))
    BY RecordFields DEF Types
  <2>2. QED BY <2>1, SilenceOfSession, SilenceOfStart, SilenceOfWorker DEF Next
<1>4. QED BY <1>1, <1>2, <1>3, InitTypes, NextTypes, PTL DEF Spec, FlushedStaysSilent

-----------------------------------------------------------------------------
(* Who closes the cache file.                                              *)

\* An open cache file is known to its feed, then to its transfer, and to whoever
\* has taken it from the transfer to close it.
KnownTo(k) ==
  /\ conns[k].at # "gone"
  /\ conns[k].at # "none" => conns[k].file = k
  /\ session.pc = "feeding" /\ session.feeds = k => tts.file = k
  /\ session.pc = "closing" /\ session.conn = k /\ session.file # NULL => session.file = k
  /\ worker.pc = "close" /\ worker.conn = k => worker.file = k

OpenIsKnown == \A k \in Feeds : files[k] = "open" => KnownTo(k)

\* Transfers are made in order, and a callback belongs to one that is running.
ConnsInOrder ==
  /\ \A k \in Feeds : conns[k].at = "none" => conns[k].file = NULL
  /\ \A k \in Feeds : conns[k].at # "none" =>
       k <= session.feeds /\ (session.pc = "feeding" => k < session.feeds)
  /\ worker.pc \in {"write", "insert", "end", "close"} => conns[worker.conn].at = "running"

Filed == OpenIsKnown /\ ConnsInOrder

\* A step that neither feeds nor closes, nor takes a transfer or its file.
LEMMA FiledKept ==
  ASSUME Types, Filed, files' = files, tts'.file = tts.file, session'.feeds = session.feeds,
         session'.pc = "feeding" => session.pc = "feeding",
         session'.pc = "closing" => session.pc = "closing" /\ session'.conn = session.conn
                                      /\ session'.file = session.file,
         worker'.pc = "close" => worker.pc = "close" /\ worker'.conn = worker.conn
                                   /\ worker'.file = worker.file,
         \A k \in Feeds : conns'[k].file = conns[k].file
                          /\ (conns'[k].at = conns[k].at
                              \/ (conns[k].at = "added" /\ conns'[k].at = "running")),
         worker'.pc \in {"write", "insert", "end", "close"} =>
           worker'.conn \in Feeds /\ conns[worker'.conn].at = "running"
  PROVE  Filed'
<1>1. OpenIsKnown'
  BY DEF Filed, OpenIsKnown, KnownTo
<1>2. ConnsInOrder'
  BY DEF Filed, ConnsInOrder
<1>3. QED BY <1>1, <1>2 DEF Filed

LEMMA FiledOfSession == ASSUME Types, Filed, SessionNext PROVE Filed'
<1>1. /\ session \in Sessions /\ tts \in Handles /\ conns \in [Feeds -> Conns]
      /\ files \in [Feeds -> {"none", "open", "closed"}] /\ worker \in Workers
  BY DEF Types, TypeOK
<1>2. /\ worker.pc \in {"write", "insert", "end", "close"} =>
           worker.conn \in Feeds /\ conns[worker.conn].at = "running"
  BY DEF Types, Carried, Filed, ConnsInOrder
<1>3. CASE Feed
  <2> DEFINE k == session.feeds + 1
  <2>1. PICK opened \in BOOLEAN :
          /\ tts' = [FreshHandle(k) EXCEPT !.cache = k, !.file = IF opened THEN k ELSE @]
          /\ files' = [files EXCEPT ![k] = IF opened THEN "open" ELSE "none"]
    BY <1>3 DEF Feed
  <2>2. session'.feeds = k /\ session'.pc \in {"feeding", "ended"} /\ session.pc = "idle"
    BY <1>1, <1>3 DEF Feed, Sessions
  <2>3. k \in Nat /\ k > session.feeds /\ k = session.feeds + 1
    BY RecordFields DEF Types
  <2>4. opened => tts'.file = k
    <3>1. FreshHandle(k) \in Handles
      BY ZenonT(30), <1>1, Members DEF FreshHandle, Handles
    <3>2. \A r \in Handles, f \in Feeds \cup {k} : [r EXCEPT !.cache = k, !.file = f].file = f
      BY DEF Handles
    <3>3. QED BY <2>1, <3>1, <3>2
  <2>5. conns' = conns /\ worker' = worker
    BY <1>3 DEF Feed
  <2> HIDE DEF k
  <2>6. \A j \in Feeds : conns[j].at # "none" => j # k /\ j <= k /\ j < k
    <3>1. \A j \in Feeds : conns[j].at # "none" => j \in Nat /\ j <= session.feeds
      BY NullIsNoFeed DEF Filed, ConnsInOrder
    <3>2. QED BY <2>3, <3>1, RecordFields DEF Types
  <2>7. ConnsInOrder'
    BY <2>2, <2>5, <2>6 DEF Filed, ConnsInOrder
  <2>8. ASSUME NEW j \in Feeds, files'[j] = "open" PROVE KnownTo(j)'
    <3>1. CASE j = k
      <4>1. conns[k].at = "none" /\ opened
        BY <1>1, <2>1, <2>6, <2>8, <3>1
      <4>2. ~(worker.pc = "close" /\ worker.conn = k)
        BY <1>2, <4>1
      <4>3. QED BY <2>2, <2>4, <2>5, <3>1, <4>1, <4>2 DEF KnownTo
    <3>2. CASE j # k
      <4>1. files[j] = "open"
        BY <1>1, <2>1, <2>8, <3>2
      <4>2. QED BY <2>2, <2>5, <3>2, <4>1 DEF Filed, OpenIsKnown, KnownTo
    <3>3. QED BY <3>1, <3>2
  <2>9. QED BY <2>7, <2>8 DEF Filed, OpenIsKnown
<1>4. CASE Begin
  <2> DEFINE k == session.feeds
  <2>1. k \in Feeds /\ session.pc = "feeding" /\ conns[k] \in Conns
    BY <1>1, <1>4 DEF Begin, Types, Carried
  <2>2. PICK a \in {"added", "leaked"} :
          conns' = [conns EXCEPT ![k] = [@ EXCEPT !.at = a, !.file = tts.file]]
    BY <1>4 DEF Begin
  <2>3. /\ session'.feeds = k /\ session'.pc \in {"speaking", "ended"}
        /\ files' = files /\ worker' = worker /\ tts'.file = tts.file
    BY <1>1, <1>4 DEF Begin, Sessions, Handles
  <2> DEFINE v == [conns[k] EXCEPT !.at = a, !.file = tts.file]
  <2>4. v.at = a /\ v.file = tts.file
    BY <2>1, <2>2 DEF Conns
  <2>5. conns' = [conns EXCEPT ![k] = v]
    BY <2>2
  <2> HIDE DEF v
  <2>6. \A j \in Feeds : conns'[j] = IF j = k THEN v ELSE conns[j]
    BY <1>1, <2>1, <2>5
  <2>7. k <= k /\ conns[k].at = "none"
    <3>1. k \in Nat /\ ~(k < k)
      BY RecordFields DEF Types
    <3>2. QED BY <2>1, <3>1 DEF Filed, ConnsInOrder
  <2> HIDE DEF k
  <2>8. ConnsInOrder'
    <3>1. worker.pc \in {"write", "insert", "end", "close"} => worker.conn # k
      BY <1>2, <2>7
    <3>2. \A j \in Feeds : conns'[j].at # "none" => j <= k
      BY <2>6, <2>7 DEF Filed, ConnsInOrder, k
    <3>3. QED BY <1>2, <2>3, <2>4, <2>6, <3>1, <3>2 DEF Filed, ConnsInOrder
  <2>9. ASSUME NEW j \in Feeds, files'[j] = "open" PROVE KnownTo(j)'
    <3>1. KnownTo(j)
      BY <2>3, <2>9 DEF Filed, OpenIsKnown
    <3>2. CASE j = k
      <4>1. tts.file = k /\ ~(worker.pc = "close" /\ worker.conn = k)
        BY <1>2, <2>1, <2>7, <3>1, <3>2 DEF KnownTo, k
      <4>2. QED BY <2>3, <2>4, <2>6, <3>2, <4>1 DEF KnownTo
    <3>3. CASE j # k
      BY <2>3, <2>6, <3>1, <3>3 DEF KnownTo
    <3>4. QED BY <3>2, <3>3
  <2>10. QED BY <2>8, <2>9 DEF Filed, OpenIsKnown
<1>5. CASE ReadEnds \/ ReadAudio
  <2>1. session' = session \/ session' = [session EXCEPT !.pc = "ended"]
    BY <1>5 DEF ReadEnds, ReadAudio
  <2>2. session'.feeds = session.feeds /\ (session' = session \/ session'.pc = "ended")
    BY <1>1, <2>1 DEF Sessions
  <2>3. tts' = tts /\ conns' = conns /\ files' = files /\ worker' = worker
    BY <1>5 DEF ReadEnds, ReadAudio
  <2>4. QED BY <1>2, <2>2, <2>3, FiledKept
<1>6. CASE Flush
  <2>1. session'.pc = "flushing" /\ session'.feeds = session.feeds /\ tts'.file = tts.file
    BY <1>1, <1>6 DEF Flush, Sessions, Handles
  <2>2. conns' = conns /\ files' = files /\ worker' = worker
    BY <1>6 DEF Flush
  <2>3. QED BY <1>2, <2>1, <2>2, FiledKept
<1>7. CASE Interrupt
  <2> DEFINE c == session.conn
             v == [conns[c] EXCEPT !.flushed = TRUE]
  <2>1. /\ session'.pc = "closing" /\ session'.feeds = session.feeds /\ session'.conn = c
        /\ session'.file = IF c # NULL /\ ~session.complete THEN conns[c].file ELSE NULL
    BY <1>1, <1>7 DEF Interrupt, Sessions
  <2>2. /\ files' = files /\ tts' = tts /\ worker' = worker
        /\ conns' = conns \/ conns' = [conns EXCEPT ![c] = v]
    BY <1>7 DEF Interrupt
  <2>3. c \in Feeds => v.file = conns[c].file /\ v.at = conns[c].at
    BY <1>1 DEF Conns
  <2>4. c \in MaybeFeed
    BY RecordFields DEF Types
  <2> HIDE DEF c, v
  <2>5. \A j \in Feeds : conns'[j].file = conns[j].file /\ conns'[j].at = conns[j].at
    BY <1>1, <2>2, <2>3
  <2>6. ConnsInOrder'
    BY <1>2, <2>1, <2>2, <2>5 DEF Filed, ConnsInOrder
  <2>7. ASSUME NEW j \in Feeds, files[j] = "open" PROVE KnownTo(j)'
    <3>1. KnownTo(j) /\ (conns[j].at = "none" => conns[j].file = NULL)
      BY <2>7 DEF Filed, OpenIsKnown, ConnsInOrder
    <3>2. session'.conn = j /\ session'.file # NULL => session'.file = j
      BY <2>1, <3>1 DEF KnownTo
    <3>3. QED BY <2>1, <2>2, <2>5, <3>1, <3>2 DEF KnownTo
  <2>8. QED BY <2>2, <2>6, <2>7 DEF Filed, OpenIsKnown
<1>8. CASE Clear
  <2> DEFINE c == session.conn
             f == session.file
             v == [conns[c] EXCEPT !.file = NULL]
  <2>1. /\ session.pc = "closing" /\ worker' = worker
        /\ session'.pc = "idle" /\ session'.feeds = session.feeds
    BY <1>1, <1>8 DEF Clear, Sessions
  <2>2. /\ files' = IF f = NULL THEN files ELSE [files EXCEPT ![f] = "closed"]
        /\ conns' = IF f = NULL THEN conns ELSE [conns EXCEPT ![c] = v]
    BY <1>8 DEF Clear, CloseFile
  <2>3. c \in Feeds => v.file = NULL /\ v.at = conns[c].at
    BY <1>1 DEF Conns
  <2>4. \A j \in Feeds : files[j] = "open" /\ c = j /\ f # NULL => f = j
    BY <2>1 DEF Filed, OpenIsKnown, KnownTo
  <2> HIDE DEF c, f, v
  <2>5. \A j \in Feeds : /\ conns'[j].at = conns[j].at
                         /\ conns'[j].file = conns[j].file \/ (j = c /\ f # NULL /\ conns'[j].file = NULL)
    BY <1>1, <2>2, <2>3
  <2>6. \A j \in Feeds : files'[j] = "open" => files[j] = "open" /\ j # f
    BY <1>1, <2>2, NullIsNoFeed
  <2>7. ConnsInOrder'
    BY <1>2, <2>1, <2>5 DEF Filed, ConnsInOrder
  <2>8. OpenIsKnown'
    BY <2>1, <2>4, <2>5, <2>6 DEF Filed, OpenIsKnown, KnownTo
  <2>9. QED BY <2>7, <2>8 DEF Filed
<1>9. QED BY <1>3, <1>4, <1>5, <1>6, <1>7, <1>8 DEF SessionNext

LEMMA FiledOfWorker ==
  ASSUME Types, Filed, TimerCb \/ WorkerGoesOn \/ (\E k \in Feeds : Transfer(k))
  PROVE  Filed'
<1>1. /\ tts \in Handles /\ conns \in [Feeds -> Conns] /\ worker \in Workers
      /\ files \in [Feeds -> {"none", "open", "closed"}]
      /\ Started \in [Feeds -> Conns]
      /\ \A c \in Feeds : Started[c].file = conns[c].file
  BY StartedType DEF Types, TypeOK
<1>2. \A c \in Feeds : Started[c].at = conns[c].at
                       \/ (conns[c].at = "added" /\ Started[c].at = "running")
  <2>1. \A r \in Conns : [r EXCEPT !.at = "running"].at = "running"
    BY DEF Conns
  <2>2. \A c \in Feeds : conns[c] \in Conns
    BY <1>1
  <2>3. QED BY <2>1, <2>2 DEF Started
<1>3. worker.pc \in {"write", "insert", "end", "close"} =>
        worker.conn \in Feeds /\ conns[worker.conn].at = "running"
  BY DEF Types, Carried, Filed, ConnsInOrder
<1>4. CASE TimerCb
  BY <1>1, <1>2, <1>3, <1>4, FiledKept DEF TimerCb
<1>5. ASSUME NEW k \in Feeds, Transfer(k) PROVE Filed'
  <2>1. /\ worker.pc = "idle" /\ conns[k].at = "running" /\ session' = session /\ files' = files
    BY <1>5 DEF Transfer, HeaderCb, WriteCb, Finish
  <2>2. \A c \in Feeds : conns'[c].file = Started[c].file /\ conns'[c].at = Started[c].at
    <3>1. CASE Finish(k)
      BY <3>1 DEF Finish
    <3>2. CASE HeaderCb(k)
      <4>1. PICK code : conns' = [Started EXCEPT ![k].code = code]
        BY <3>2 DEF HeaderCb
      <4> DEFINE v == [Started[k] EXCEPT !.code = code]
      <4>2. v.file = Started[k].file /\ v.at = Started[k].at
        BY <1>1 DEF Conns
      <4>3. conns' = [Started EXCEPT ![k] = v]
        BY <4>1
      <4> HIDE DEF v
      <4>4. QED BY <1>1, <4>2, <4>3
    <3>3. CASE WriteCb(k)
      <4> DEFINE v == [Started[k] EXCEPT !.chunks = Started[k].chunks + 1]
      <4>1. v.file = Started[k].file /\ v.at = Started[k].at
        BY <1>1 DEF Conns
      <4>2. conns' = [Started EXCEPT ![k] = v]
        BY <3>3 DEF WriteCb
      <4> HIDE DEF v
      <4>3. QED BY <1>1, <4>1, <4>2
    <3>4. QED BY <1>5, <3>1, <3>2, <3>3 DEF Transfer
  <2>3. tts'.file = tts.file
    BY ZenonT(30), <1>1, <1>5 DEF Transfer, HeaderCb, WriteCb, Finish, Counted, Handles
  <2>4. worker' = worker \/ (worker'.pc \in {"end", "write"} /\ worker'.conn = k)
    BY ZenonT(30), <1>1, <1>5 DEF Transfer, HeaderCb, WriteCb, Finish, Workers
  <2>5. QED BY SMTT(30), <1>1, <1>2, <2>1, <2>2, <2>3, <2>4, FiledKept
<1>6. CASE WriteFile \/ Insert \/ Tell \/ EventCb
  <2>1. /\ files' = files /\ session' = session /\ conns' = conns
        /\ tts'.file = tts.file
    BY <1>1, <1>6 DEF WriteFile, Insert, Tell, EventCb, Counted, Handles
  <2>2. worker'.pc \notin {"write", "close"}
        /\ (worker'.pc \in {"insert", "end"} => worker.pc = "write" /\ worker'.conn = worker.conn)
    BY <1>1, <1>6 DEF WriteFile, Insert, Tell, EventCb, Workers
  <2>3. \/ worker'.pc \notin {"write", "insert", "end", "close"}
        \/ worker'.pc \in {"insert", "end"} /\ worker'.conn \in Feeds
             /\ conns[worker'.conn].at = "running"
    BY <1>3, <2>2
  <2>4. QED BY <2>1, <2>3, FiledKept
<1>7. CASE CheckMultiInfo
  <2> DEFINE c == worker.conn
  <2>1. /\ files' = files /\ session' = session /\ conns' = conns
        /\ tts'.file = tts.file /\ c \in Feeds /\ conns[c].at = "running"
    BY <1>1, <1>3, <1>7 DEF CheckMultiInfo, Handles
  <2>2. worker'.pc = "close" /\ worker'.conn = c /\ worker'.file = conns[c].file
    BY <1>1, <1>7 DEF CheckMultiInfo, FileToClose, Workers
  <2> HIDE DEF c
  <2>3. ConnsInOrder'
    BY <2>1, <2>2 DEF Filed, ConnsInOrder
  <2>4. OpenIsKnown'
    BY <2>1, <2>2 DEF Filed, OpenIsKnown, KnownTo
  <2>5. QED BY <2>3, <2>4 DEF Filed
<1>8. CASE CleanupConn
  <2> DEFINE c == worker.conn
             f == worker.file
  <2>1. /\ session' = session /\ tts'.file = tts.file /\ c \in Feeds /\ conns[c].at = "running"
        /\ worker.pc = "close" /\ worker'.pc = "event"
    BY <1>1, <1>3, <1>8 DEF CleanupConn, DetachedHandle, Handles, Workers
  <2>2. /\ files' = IF f = NULL THEN files ELSE [files EXCEPT ![f] = "closed"]
        /\ conns' = [conns EXCEPT ![c] = GoneConn]
    BY <1>8 DEF CleanupConn, CloseFile
  <2>3. \A j \in Feeds : files[j] = "open" /\ c = j => f = j
    BY <2>1 DEF Filed, OpenIsKnown, KnownTo
  <2>4. GoneConn.at = "gone"
    BY DEF GoneConn, NoConn
  <2> HIDE DEF c, f
  <2>5. \A j \in Feeds : conns'[j] = IF j = c THEN GoneConn ELSE conns[j]
    BY <1>1, <2>1, <2>2
  <2>6. \A j \in Feeds : files'[j] = "open" => files[j] = "open" /\ j # c
    BY <1>1, <2>2, <2>3, NullIsNoFeed
  <2>7. ConnsInOrder'
    BY <2>1, <2>4, <2>5 DEF Filed, ConnsInOrder
  <2>8. OpenIsKnown'
    BY <2>1, <2>5, <2>6 DEF Filed, OpenIsKnown, KnownTo
  <2>9. QED BY <2>7, <2>8 DEF Filed
<1>9. QED BY <1>4, <1>5, <1>6, <1>7, <1>8 DEF WorkerGoesOn

\* The cache file of a download that is gone is closed: cleanupConn and flush
\* both take the file from the transfer's record, in whatever order they come,
\* and a handle that kept an earlier file hands it to no later one.
THEOREM FilesSettleHolds == Spec => []FilesSettle
<1>1. Init => Filed
  BY DEF Init, NoConn, Filed, OpenIsKnown, ConnsInOrder
<1>2. Types /\ Filed /\ [Next]_vars => Filed'
  <2>1. Types /\ Filed /\ UNCHANGED vars => Filed'
    BY DEF vars, Filed, OpenIsKnown, KnownTo, ConnsInOrder
  <2>2. QED BY <2>1, FiledOfSession, FiledOfWorker DEF Next
<1>3. Filed => FilesSettle
  BY DEF Filed, OpenIsKnown, KnownTo, FilesSettle
<1>4. QED BY <1>1, <1>2, <1>3, InitTypes, NextTypes, PTL DEF Spec

-----------------------------------------------------------------------------
(* Whose end the reader is told of.                                        *)

\* A transfer that has not begun was not flushed; what the handle and a flush
\* refer to has begun.
Begun ==
  /\ \A k \in Feeds : conns[k].at = "none" => ~conns[k].flushed
  /\ tts.conn \in Feeds => conns[tts.conn].at # "none"
  /\ session.pc \in {"flushing", "closing"} /\ session.conn \in Feeds
       => conns[session.conn].at # "none"

\* Between a feed and its flush the handle is the feed's.
Speaking ==
  session.pc = "speaking" =>
    /\ session.feeds \in Feeds /\ tts.buffer = session.feeds
    /\ tts.conn \in {session.feeds, NULL} /\ ~conns[session.feeds].flushed

\* As long as downloads did not overlap, libcurl has the last one only, and
\* draining is about it.
LastOnly ==
  overlapped \/
  /\ \A k \in Feeds : conns[k].at \in {"added", "running"} => k = session.feeds
  /\ session.pc = "feeding" => ~tts.draining
  /\ session.pc = "speaking" /\ tts.draining => conns[session.feeds].at = "gone"

Own == Begun /\ Speaking /\ LastOnly

\* A step that neither moves the session's thread nor ends a download.
LEMMA OwnKept ==
  ASSUME Types, Own, session' = session, overlapped' = overlapped,
         tts'.buffer = tts.buffer, tts'.conn = tts.conn, tts'.draining = tts.draining,
         \A k \in Feeds : conns'[k].flushed = conns[k].flushed
                          /\ (conns'[k].at = conns[k].at
                              \/ (conns[k].at = "added" /\ conns'[k].at = "running"))
  PROVE  Own'
<1>1. Begun'
  BY DEF Own, Begun
<1>2. Speaking'
  BY DEF Own, Speaking
<1>3. LastOnly'
  <2>1. session.pc \in {"feeding", "speaking"} => session.feeds \in Feeds
    BY DEF Own, Speaking, Types, Carried
  <2>2. QED BY <2>1 DEF Own, LastOnly
<1>4. QED BY <1>1, <1>2, <1>3 DEF Own

LEMMA OwnOfSession == ASSUME Types, Filed, Own, SessionNext PROVE Own'
<1>1. /\ session \in Sessions /\ tts \in Handles /\ conns \in [Feeds -> Conns]
  BY DEF Types, TypeOK
<1>2. CASE Feed
  <2> DEFINE k == session.feeds + 1
  <2>1. /\ session'.feeds = k /\ session'.pc \in {"feeding", "ended"} /\ session.pc = "idle"
        /\ session'.conn = session.conn /\ conns' = conns
        /\ overlapped' = (overlapped \/ InCurl # {})
    BY <1>1, <1>2 DEF Feed, Sessions
  <2>2. tts'.conn = tts.conn /\ ~tts'.draining
    <3>1. FreshHandle(k) \in Handles /\ FreshHandle(k).conn = tts.conn /\ ~FreshHandle(k).draining
      BY ZenonT(30), <1>1, Members DEF FreshHandle, Handles
    <3>2. PICK file : tts' = [FreshHandle(k) EXCEPT !.cache = k, !.file = file]
      BY <1>2 DEF Feed
    <3>3. QED BY <3>1, <3>2 DEF Handles
  <2> HIDE DEF k
  <2>3. Begun'
    BY <2>1, <2>2 DEF Own, Begun
  <2>4. Speaking' /\ LastOnly'
    BY <2>1, <2>2 DEF Speaking, LastOnly, InCurl
  <2>5. QED BY <2>3, <2>4 DEF Own
<1>3. CASE Begin
  <2> DEFINE k == session.feeds
  <2>1. k \in Feeds /\ k # NULL /\ session.pc = "feeding" /\ conns[k] \in Conns
    BY <1>1, <1>3, NullIsNoFeed DEF Begin, Types, Carried
  <2>2. PICK a \in {"added", "leaked"} :
          conns' = [conns EXCEPT ![k] = [@ EXCEPT !.at = a, !.file = tts.file]]
    BY <1>3 DEF Begin
  <2>3. /\ session'.feeds = k /\ session'.pc \in {"speaking", "ended"}
        /\ overlapped' = overlapped
        /\ tts'.conn = k /\ tts'.buffer = k /\ tts'.draining = tts.draining
    BY <1>1, <1>3 DEF Begin, Sessions, Handles, historyVars
  <2> DEFINE v == [conns[k] EXCEPT !.at = a, !.file = tts.file]
  <2>4. v.at = a /\ v.flushed = conns[k].flushed
    BY <2>1, <2>2 DEF Conns
  <2>5. conns' = [conns EXCEPT ![k] = v]
    BY <2>2
  <2> HIDE DEF v
  <2>6. \A j \in Feeds : conns'[j] = IF j = k THEN v ELSE conns[j]
    BY <1>1, <2>1, <2>5
  <2>7. conns[k].at = "none" /\ ~conns[k].flushed
    <3>1. k \in Nat /\ ~(k < k)
      BY RecordFields DEF Types
    <3>2. conns[k].at = "none"
      BY <2>1, <3>1 DEF Filed, ConnsInOrder
    <3>3. QED BY <2>1, <3>2 DEF Own, Begun
  <2>8. overlapped \/ \A j \in Feeds : j # k => conns[j].at \notin {"added", "running"}
    BY DEF Own, LastOnly
  <2>9. overlapped \/ ~tts.draining
    BY <2>1 DEF Own, LastOnly
  <2> HIDE DEF k
  <2>10. Begun'
    BY <2>1, <2>3, <2>4, <2>6, <2>7 DEF Own, Begun
  <2>11. Speaking'
    BY <2>1, <2>3, <2>4, <2>6, <2>7 DEF Speaking
  <2>12. LastOnly'
    BY <2>3, <2>6, <2>8, <2>9 DEF LastOnly
  <2>13. QED BY <2>10, <2>11, <2>12 DEF Own
<1>4. CASE ReadEnds
  <2>1. /\ session'.pc = "ended" /\ session'.feeds = session.feeds
        /\ conns' = conns /\ tts' = tts /\ overlapped' = overlapped
    BY <1>1, <1>4 DEF ReadEnds, Sessions, historyVars
  <2>2. QED BY <2>1 DEF Own, Begun, Speaking, LastOnly
<1>5. CASE ReadAudio
  BY <1>5, OwnKept DEF ReadAudio, historyVars
<1>6. CASE Flush
  <2>1. /\ session'.pc = "flushing" /\ session'.feeds = session.feeds /\ session'.conn = tts.conn
        /\ tts'.conn = tts.conn /\ conns' = conns /\ overlapped' = overlapped
    BY <1>1, <1>6 DEF Flush, Sessions, Handles, historyVars
  <2>2. QED BY <2>1 DEF Own, Begun, Speaking, LastOnly
<1>7. CASE Interrupt
  <2> DEFINE c == session.conn
             v == [conns[c] EXCEPT !.flushed = TRUE]
  <2>1. /\ session.pc = "flushing" /\ session'.pc = "closing"
        /\ session'.feeds = session.feeds /\ session'.conn = c
        /\ tts' = tts /\ overlapped' = overlapped
        /\ conns' = conns \/ conns' = [conns EXCEPT ![c] = v]
    BY <1>1, <1>7 DEF Interrupt, Sessions
  <2>2. c \in Feeds => v.at = conns[c].at /\ conns[c].at # "none"
    BY <1>1, <2>1 DEF Conns, Own, Begun
  <2> HIDE DEF c, v
  <2>3. \A j \in Feeds : conns'[j].at = conns[j].at
                         /\ (conns'[j].flushed = conns[j].flushed \/ conns[j].at # "none")
    BY <1>1, <2>1, <2>2
  <2>4. Begun'
    <3>1. c \in Feeds => conns'[c].at # "none"
      BY <2>2, <2>3
    <3>2. QED BY <2>1, <2>3, <3>1 DEF Own, Begun
  <2>5. Speaking' /\ LastOnly'
    BY <2>1, <2>3 DEF Own, Speaking, LastOnly
  <2>6. QED BY <2>4, <2>5 DEF Own
<1>8. CASE Clear
  <2> DEFINE c == session.conn
             v == [conns[c] EXCEPT !.file = NULL]
  <2>1. /\ session'.pc = "idle" /\ session'.feeds = session.feeds
        /\ tts'.conn = tts.conn /\ overlapped' = overlapped
        /\ conns' = conns \/ conns' = [conns EXCEPT ![c] = v]
    BY <1>1, <1>8 DEF Clear, Sessions, Handles
  <2>2. c \in Feeds => v.at = conns[c].at /\ v.flushed = conns[c].flushed
    BY <1>1 DEF Conns
  <2> HIDE DEF c, v
  <2>3. \A j \in Feeds : conns'[j].at = conns[j].at /\ conns'[j].flushed = conns[j].flushed
    BY <1>1, <2>1, <2>2
  <2>4. QED BY <2>1, <2>3 DEF Own, Begun, Speaking, LastOnly
<1>9. QED BY <1>2, <1>3, <1>4, <1>5, <1>6, <1>7, <1>8 DEF SessionNext

LEMMA OwnOfWorker ==
  ASSUME Types, Filed, Own, TimerCb \/ WorkerGoesOn \/ (\E k \in Feeds : Transfer(k))
  PROVE  Own'
<1>1. /\ tts \in Handles /\ conns \in [Feeds -> Conns]
      /\ Started \in [Feeds -> Conns]
      /\ \A c \in Feeds : Started[c].flushed = conns[c].flushed
  BY StartedType DEF Types, TypeOK
<1>2. \A c \in Feeds : Started[c].at = conns[c].at
                       \/ (conns[c].at = "added" /\ Started[c].at = "running")
  <2>1. \A r \in Conns : [r EXCEPT !.at = "running"].at = "running"
    BY DEF Conns
  <2>2. \A c \in Feeds : conns[c] \in Conns
    BY <1>1
  <2>3. QED BY <2>1, <2>2 DEF Started
<1>3. CASE TimerCb
  BY <1>1, <1>2, <1>3, OwnKept DEF TimerCb, historyVars
<1>4. ASSUME NEW k \in Feeds, Transfer(k) PROVE Own'
  <2>1. session' = session /\ overlapped' = overlapped
    BY <1>4 DEF Transfer, HeaderCb, WriteCb, Finish, historyVars
  <2>2. \A c \in Feeds : conns'[c].flushed = Started[c].flushed /\ conns'[c].at = Started[c].at
    <3>1. CASE Finish(k)
      BY <3>1 DEF Finish
    <3>2. CASE HeaderCb(k)
      <4>1. PICK code : conns' = [Started EXCEPT ![k].code = code]
        BY <3>2 DEF HeaderCb
      <4> DEFINE v == [Started[k] EXCEPT !.code = code]
      <4>2. v.flushed = Started[k].flushed /\ v.at = Started[k].at
        BY <1>1 DEF Conns
      <4>3. conns' = [Started EXCEPT ![k] = v]
        BY <4>1
      <4> HIDE DEF v
      <4>4. QED BY <1>1, <4>2, <4>3
    <3>3. CASE WriteCb(k)
      <4> DEFINE v == [Started[k] EXCEPT !.chunks = Started[k].chunks + 1]
      <4>1. v.flushed = Started[k].flushed /\ v.at = Started[k].at
        BY <1>1 DEF Conns
      <4>2. conns' = [Started EXCEPT ![k] = v]
        BY <3>3 DEF WriteCb
      <4> HIDE DEF v
      <4>3. QED BY <1>1, <4>1, <4>2
    <3>4. QED BY <1>4, <3>1, <3>2, <3>3 DEF Transfer
  <2>3. tts'.buffer = tts.buffer /\ tts'.conn = tts.conn /\ tts'.draining = tts.draining
    BY ZenonT(30), <1>1, <1>4 DEF Transfer, HeaderCb, WriteCb, Finish, Counted, Handles
  <2>4. QED BY SMTT(30), <1>1, <1>2, <2>1, <2>2, <2>3, OwnKept
<1>5. CASE WriteFile \/ Insert \/ Tell \/ CheckMultiInfo \/ EventCb
  <2>1. session' = session /\ conns' = conns /\ overlapped' = overlapped
    BY <1>5 DEF WriteFile, Insert, Tell, CheckMultiInfo, EventCb, historyVars
  <2>2. tts'.buffer = tts.buffer /\ tts'.conn = tts.conn /\ tts'.draining = tts.draining
    BY <1>1, <1>5 DEF WriteFile, Insert, Tell, CheckMultiInfo, EventCb, Counted, Handles
  <2>3. QED BY <2>1, <2>2, OwnKept
<1>6. CASE CleanupConn
  <2> DEFINE c == worker.conn
  <2>1. /\ session' = session /\ overlapped' = overlapped /\ c \in Feeds
        /\ conns[c].at = "running"
    BY <1>6 DEF CleanupConn, Types, Carried, Filed, ConnsInOrder
  <2>2. tts'.conn = NULL /\ tts'.draining /\ tts'.buffer = tts.buffer
    BY <1>1, <1>6 DEF CleanupConn, DetachedHandle, Handles
  <2>3. GoneConn.at = "gone" /\ ~GoneConn.flushed
    BY DEF GoneConn, NoConn
  <2>4. conns' = [conns EXCEPT ![c] = GoneConn]
    BY <1>6 DEF CleanupConn
  <2> HIDE DEF c
  <2>5. \A j \in Feeds : conns'[j] = IF j = c THEN GoneConn ELSE conns[j]
    BY <1>1, <2>1, <2>4
  <2>6. Begun'
    BY <2>1, <2>2, <2>3, <2>5, NullIsNoFeed DEF Own, Begun
  <2>7. Speaking'
    BY <2>1, <2>2, <2>3, <2>5 DEF Own, Speaking
  <2>8. LastOnly'
    <3>1. overlapped \/ c = session.feeds
      BY <2>1 DEF Own, LastOnly
    <3>2. session.pc = "feeding" => c # session.feeds
      <4>1. session.feeds \in Nat /\ ~(session.feeds < session.feeds)
        BY RecordFields DEF Types
      <4>2. QED BY <2>1, <4>1 DEF Filed, ConnsInOrder
    <3>3. QED BY <2>1, <2>3, <2>5, <3>1, <3>2 DEF Own, LastOnly
  <2>9. QED BY <2>6, <2>7, <2>8 DEF Own
<1>7. QED BY <1>3, <1>4, <1>5, <1>6 DEF WorkerGoesOn

LEMMA InitOthers == Init => Silence /\ Filed /\ Own
<1> SUFFICES ASSUME Init PROVE Silence /\ Filed /\ Own
  OBVIOUS
<1>1. \A b \in Feeds : ~bufs[b].alive
  BY DEF Init
<1>2. Silence
  BY <1>1 DEF Init, Silence, OneBuffer, Unflushed, Numbered, NULL
<1>3. Filed
  BY DEF Init, NoConn, Filed, OpenIsKnown, ConnsInOrder
<1>4. tts.conn \notin Feeds
  BY NullIsNoFeed DEF Init
<1>5. Own
  BY <1>4 DEF Init, NoConn, Own, Begun, Speaking, LastOnly
<1>6. QED BY <1>2, <1>3, <1>5

LEMMA NextSilence == ASSUME Types, Silence, [Next]_vars PROVE Silence'
<1>1. UNCHANGED vars => Silence'
  BY DEF vars, Silence, OneBuffer, Unflushed, Numbered
<1>2. QED BY <1>1, SilenceOfSession, SilenceOfStart, SilenceOfWorker DEF Next

LEMMA NextFiled == ASSUME Types, Filed, [Next]_vars PROVE Filed'
<1>1. UNCHANGED vars => Filed'
  BY DEF vars, Filed, OpenIsKnown, KnownTo, ConnsInOrder
<1>2. QED BY <1>1, FiledOfSession, FiledOfWorker DEF Next

LEMMA NextOwn == ASSUME Types, Filed, Own, [Next]_vars PROVE Own'
<1>1. UNCHANGED vars => Own'
  BY DEF vars, Own, Begun, Speaking, LastOnly
<1>2. QED BY <1>1, OwnOfSession, OwnOfWorker DEF Next

\* Unless a text is fed while an earlier download runs, a reader that meets no
\* error is told that the utterance is over only when its own download is gone and
\* everything it brought has been read, although draining and the handle's
\* reference are set by the worker with no lock.
THEOREM EndsWithOwnDownloadHolds == Spec => EndsWithOwnDownload
<1>1. Types /\ Own /\ [Next]_vars =>
        [ReadEnds /\ OK(tts.code) =>
           overlapped \/ (conns[session.feeds].at = "gone" /\ bufs[session.feeds].data = <<>>)]_vars
  <2> SUFFICES ASSUME Own, ReadEnds, OK(tts.code), ~overlapped
               PROVE  conns[session.feeds].at = "gone" /\ bufs[session.feeds].data = <<>>
    OBVIOUS
  <2>1. session.pc = "speaking" /\ Over
    BY DEF ReadEnds
  <2>2. Exhausted
    BY <2>1 DEF Over, Own, Speaking
  <2>3. QED BY <2>1, <2>2 DEF Exhausted, Own, Speaking, LastOnly
<1>2. Types /\ Filed /\ [Next]_vars => Filed'
  BY NextFiled
<1>3. Types /\ Filed /\ Own /\ [Next]_vars => Own'
  BY NextOwn
<1>4. QED BY <1>1, <1>2, <1>3, InitTypes, NextTypes, InitOthers, PTL DEF Spec, EndsWithOwnDownload

-----------------------------------------------------------------------------
(* What the reader hears.                                                  *)

Wav == WriteOf[vendor].wav

\* The audio of transfer k in a buffer: nothing else, in order, one header cut.
Sound(d, k) ==
  \A i \in 1..Len(d) :
    /\ d[i][1] = k
    /\ i > 1 => d[i][2] = d[i - 1][2] + 1
    /\ d[i][3] <=> Wav /\ d[i][2] = 1

InWrite(k) == worker.pc \in {"write", "insert"} /\ worker.conn = k
Ending(k) == worker.pc \in {"end", "close"} /\ worker.conn = k

\* A deleted buffer is empty, the buffer there is is of the last feed, and a
\* transfer that has not begun has brought nothing.
Heard ==
  /\ \A k \in Feeds : ~bufs[k].alive => bufs[k].data = <<>>
  /\ tts.buffer \in {session.feeds, NULL}
  /\ \A k \in Feeds : conns[k].at = "none" => conns[k].chunks = 0

\* The buffer ends with the chunk before the one libcurl brings next; no chunk
\* is counted on the handle before the first of the last transfer; a chunk under
\* way goes to the buffer of its own transfer.
Flow(k) ==
  /\ Sound(bufs[k].data, k)
  /\ conns[k].at \in {"added", "running"} /\ ~Ending(k) /\ bufs[k].data # <<>> =>
       bufs[k].data[Len(bufs[k].data)][2] + (IF InWrite(k) THEN 1 ELSE 0) = conns[k].chunks
  /\ Wav /\ k = session.feeds /\ conns[k].at \in {"none", "added", "running"} /\ ~Ending(k) =>
       (tts.reads = 0 <=> conns[k].chunks = 0)
  /\ InWrite(k) => worker.buf = k /\ (worker.first <=> Wav /\ conns[k].chunks = 1)

Clean == Heard /\ (overlapped \/ \A k \in Feeds : Flow(k))

LEMMA EmptySound == \A k : Sound(<<>>, k)
<1>1. Len(<<>>) = 0
  BY EmptySeq
<1>2. QED BY <1>1 DEF Sound

LEMMA TailSound ==
  ASSUME NEW d \in Seq(Samples), d # <<>>, NEW k, Sound(d, k)
  PROVE  /\ Sound(Tail(d), k)
         /\ Tail(d) # <<>> => Tail(d)[Len(Tail(d))] = d[Len(d)]
<1>1. /\ Len(d) \in Nat /\ Len(d) # 0 /\ Tail(d) \in Seq(Samples) /\ Len(Tail(d)) = Len(d) - 1
      /\ \A i \in 1..Len(Tail(d)) : Tail(d)[i] = d[i + 1]
  BY HeadTailProperties, EmptySeq
<1> DEFINE t == Tail(d)
<1> HIDE DEF t
<1>2. /\ Len(t) = Len(d) - 1 /\ \A i \in 1..Len(t) : t[i] = d[i + 1]
  BY <1>1 DEF t
<1>3. ASSUME NEW i \in 1..Len(t)
      PROVE  /\ t[i][1] = k
             /\ i > 1 => t[i][2] = t[i - 1][2] + 1
             /\ t[i][3] <=> Wav /\ t[i][2] = 1
  <2>1. i + 1 \in 1..Len(d) /\ t[i] = d[i + 1]
    BY <1>1, <1>2
  <2>2. i > 1 => i - 1 \in 1..Len(t) /\ t[i - 1] = d[i] /\ (i + 1) - 1 = i
    BY <1>1, <1>2
  <2>3. i + 1 > 1
    BY <1>1, <1>2
  <2>4. /\ d[i + 1][1] = k /\ d[i + 1][2] = d[(i + 1) - 1][2] + 1
        /\ d[i + 1][3] <=> Wav /\ d[i + 1][2] = 1
    BY <2>1, <2>3 DEF Sound
  <2>5. QED BY <2>1, <2>2, <2>4
<1>4. t # <<>> => t[Len(t)] = d[Len(d)]
  <2>1. t # <<>> => Len(t) # 0
    BY <1>1, EmptySeq DEF t
  <2>2. t # <<>> => Len(t) \in 1..Len(t) /\ Len(t) + 1 = Len(d)
    BY <1>1, <1>2, <2>1
  <2>3. QED BY <1>2, <2>2
<1>5. QED BY <1>3, <1>4 DEF Sound, t

LEMMA AppendSound ==
  ASSUME NEW d \in Seq(Samples), NEW k, Sound(d, k), NEW n, NEW h,
         <<k, n, h>> \in Samples, h <=> Wav /\ n = 1,
         d # <<>> => n = d[Len(d)][2] + 1
  PROVE  /\ Sound(Append(d, <<k, n, h>>), k)
         /\ Append(d, <<k, n, h>>)[Len(Append(d, <<k, n, h>>))][2] = n
<1> DEFINE e == <<k, n, h>>
           a == Append(d, e)
<1>1. e[1] = k /\ e[2] = n /\ e[3] = h
  OBVIOUS
<1> HIDE DEF e
<1>2. /\ Len(d) \in Nat /\ Len(a) = Len(d) + 1 /\ a[Len(d) + 1] = e
      /\ \A i \in 1..Len(d) : a[i] = d[i]
  BY AppendProperties, LenProperties DEF e
<1> HIDE DEF a
<1>3. ASSUME NEW i \in 1..Len(a)
      PROVE  /\ a[i][1] = k
             /\ i > 1 => a[i][2] = a[i - 1][2] + 1
             /\ a[i][3] <=> Wav /\ a[i][2] = 1
  <2>1. CASE i \in 1..Len(d)
    <3>1. a[i] = d[i] /\ (i > 1 => i - 1 \in 1..Len(d) /\ a[i - 1] = d[i - 1])
      BY <1>2, <2>1
    <3>2. /\ d[i][1] = k /\ (i > 1 => d[i][2] = d[i - 1][2] + 1)
          /\ d[i][3] <=> Wav /\ d[i][2] = 1
      BY <2>1 DEF Sound
    <3>3. QED BY <3>1, <3>2
  <2>2. CASE i = Len(d) + 1
    <3>1. a[i] = e
      BY <1>2, <2>2
    <3>2. i > 1 => d # <<>> /\ a[i - 1] = d[Len(d)]
      <4>1. i > 1 => Len(d) \in 1..Len(d) /\ i - 1 = Len(d) /\ Len(d) # 0
        BY <1>2, <2>2
      <4>2. QED BY <1>2, <4>1, EmptySeq
    <3>3. QED BY <1>1, <3>1, <3>2
  <2>3. QED BY <1>2, <2>1, <2>2
<1>4. a[Len(a)][2] = n
  BY <1>1, <1>2
<1>5. QED BY <1>3, <1>4 DEF Sound, a, e

LEMMA SoundNext ==
  ASSUME vendor' = vendor, NEW k \in Feeds, Sound(bufs'[k].data, k)
  PROVE  Sound(bufs[k].data, k)'
BY DEF Sound, Wav

\* A step that brings no chunk, takes none away and makes no buffer.
LEMMA CleanKept ==
  ASSUME Types, Clean, vendor' = vendor, session'.feeds = session.feeds,
         overlapped' = overlapped, tts'.buffer \in {tts.buffer, NULL}, tts'.reads = tts.reads,
         \A k \in Feeds : bufs'[k] = bufs[k] \/ bufs'[k].data = <<>>,
         \A k \in Feeds :
           \/ conns'[k].at = "gone" /\ ~InWrite(k)'
           \/ /\ conns'[k].chunks = conns[k].chunks
              /\ conns'[k].at = conns[k].at
                 \/ (conns[k].at = "added" /\ conns'[k].at = "running")
              /\ Ending(k) => Ending(k)'
              /\ InWrite(k) /\ ~Ending(k)' => InWrite(k)'
              /\ InWrite(k)' => InWrite(k) /\ worker'.first = worker.first
                                           /\ worker'.buf = worker.buf
  PROVE  Clean'
<1>1. Heard'
  BY DEF Clean, Heard
<1>2. ASSUME NEW k \in Feeds, Flow(k) PROVE Flow(k)'
  <2>1. Sound(bufs[k].data, k)' /\ Wav' = Wav
    <3>1. Wav' = Wav
      BY DEF Wav
    <3>2. \A d : Sound(d, k) => Sound(d, k)'
      BY <3>1 DEF Sound
    <3>3. Sound(bufs'[k].data, k)
      BY <1>2, EmptySound DEF Flow
    <3>4. QED BY <3>1, <3>3 DEF Sound
  <2>2. CASE conns'[k].at = "gone" /\ ~InWrite(k)'
    BY <2>1, <2>2 DEF Flow
  <2>3. CASE ~(conns'[k].at = "gone" /\ ~InWrite(k)')
    <3>1. /\ conns'[k].chunks = conns[k].chunks
          /\ conns'[k].at = conns[k].at \/ (conns[k].at = "added" /\ conns'[k].at = "running")
          /\ Ending(k) => Ending(k)'
          /\ InWrite(k) /\ ~Ending(k)' => InWrite(k)'
          /\ InWrite(k)' => InWrite(k) /\ worker'.first = worker.first /\ worker'.buf = worker.buf
      BY <2>3
    <3>2. bufs'[k].data # <<>> => bufs'[k] = bufs[k]
      OBVIOUS
    <3>3. ASSUME conns'[k].at \in {"added", "running"}, ~Ending(k)', bufs'[k].data # <<>>
          PROVE  bufs'[k].data[Len(bufs'[k].data)][2] + (IF InWrite(k)' THEN 1 ELSE 0)
                   = conns'[k].chunks
      <4>1. InWrite(k)' <=> InWrite(k)
        BY <3>1, <3>3
      <4>2. conns[k].at \in {"added", "running"} /\ ~Ending(k)
        BY <3>1, <3>3
      <4>3. QED BY <1>2, <3>1, <3>2, <3>3, <4>1, <4>2 DEF Flow
    <3>4. ASSUME Wav', k = session'.feeds, conns'[k].at \in {"none", "added", "running"}, ~Ending(k)'
          PROVE  tts'.reads = 0 <=> conns'[k].chunks = 0
      BY <1>2, <2>1, <3>1, <3>4 DEF Flow
    <3>5. InWrite(k)' => worker'.buf = k /\ (worker'.first <=> Wav' /\ conns'[k].chunks = 1)
      BY <1>2, <2>1, <3>1 DEF Flow
    <3>6. QED BY <2>1, <3>3, <3>4, <3>5 DEF Flow
  <2>4. QED BY <2>2, <2>3
<1>3. QED BY <1>1, <1>2 DEF Clean

LEMMA CleanOfFeed == ASSUME Types, Silence, Filed, Clean, Feed PROVE Clean'
<1>1. /\ session \in Sessions /\ tts \in Handles
  BY DEF Types, TypeOK
<1> DEFINE k == session.feeds + 1
<1>2. /\ session'.feeds = k /\ session.pc = "idle" /\ conns' = conns /\ bufs' = bufs
      /\ worker' = worker /\ vendor' = vendor /\ overlapped' = (overlapped \/ InCurl # {})
  BY <1>1 DEF Feed, Sessions
<1>3. tts'.buffer = NULL /\ tts'.reads = 0
  <2>1. tts.buffer = NULL
    BY <1>2 DEF Silence, OneBuffer
  <2>2. FreshHandle(k) \in Handles /\ FreshHandle(k).buffer = tts.buffer /\ FreshHandle(k).reads = 0
    BY <1>1, Members DEF FreshHandle, Handles
  <2>3. PICK opened \in BOOLEAN :
          /\ tts' = [FreshHandle(k) EXCEPT !.cache = k, !.file = IF opened THEN k ELSE @]
          /\ files' = [files EXCEPT ![k] = IF opened THEN "open" ELSE "none"]
    <3>1. Feed
      OBVIOUS
    <3>2. QED BY <3>1 DEF Feed
  <2>4. QED BY <2>1, <2>2, <2>3 DEF Handles
<1>4. k \in Feeds => conns[k].at = "none"
  <2>1. k \in Nat /\ ~(k <= session.feeds)
    BY RecordFields DEF Types
  <2>2. QED BY <2>1 DEF Filed, ConnsInOrder
<1> HIDE DEF k
<1>5. Heard'
  BY <1>2, <1>3 DEF Clean, Heard
<1>6. ASSUME NEW j \in Feeds, ~overlapped' PROVE Flow(j)'
  <2>1. conns[j].at \notin {"added", "running"} /\ Flow(j)
    BY <1>2, <1>6 DEF InCurl, Clean
  <2>2. ~InWrite(j) /\ InWrite(j)' = InWrite(j) /\ Ending(j)' = Ending(j)
    BY <1>2, <2>1 DEF InWrite, Ending, Filed, ConnsInOrder
  <2>3. Sound(bufs[j].data, j)'
    BY <1>2, <2>1 DEF Flow, Sound, Wav
  <2>4. j = k => conns[j].chunks = 0
    BY <1>4 DEF Clean, Heard
  <2>5. conns[j].at = "none" => j = k \/ j # session'.feeds
    BY <1>2
  <2>6. QED BY <1>2, <1>3, <2>1, <2>2, <2>3, <2>4 DEF Flow
<1>7. QED BY <1>5, <1>6 DEF Clean

LEMMA CleanOfBegin == ASSUME Types, Filed, Clean, Begin PROVE Clean'
<1>1. /\ session \in Sessions /\ tts \in Handles /\ conns \in [Feeds -> Conns]
      /\ bufs \in [Feeds -> Bufs]
  BY DEF Types, TypeOK
<1> DEFINE k == session.feeds
           new == [alive |-> TRUE, data |-> <<>>]
<1>2. k \in Feeds /\ conns[k] \in Conns /\ session.pc = "feeding"
  BY <1>1 DEF Begin, Types, Carried
<1>3. PICK a \in {"added", "leaked"} :
        conns' = [conns EXCEPT ![k] = [@ EXCEPT !.at = a, !.file = tts.file]]
  BY DEF Begin
<1>4. /\ session'.feeds = k /\ bufs' = [bufs EXCEPT ![k] = new] /\ worker' = worker
      /\ vendor' = vendor /\ overlapped' = overlapped
      /\ tts'.buffer = k /\ tts'.reads = tts.reads
  BY <1>1 DEF Begin, Sessions, Handles, historyVars
<1> DEFINE v == [conns[k] EXCEPT !.at = a, !.file = tts.file]
<1>5. v.at = a /\ v.chunks = conns[k].chunks /\ new.data = <<>> /\ new.alive
  BY <1>2, <1>3 DEF Conns
<1>6. conns' = [conns EXCEPT ![k] = v]
  BY <1>3
<1>7. conns[k].at = "none"
  <2>1. k \in Nat /\ ~(k < k)
    BY RecordFields DEF Types
  <2>2. QED BY <1>2, <2>1 DEF Filed, ConnsInOrder
<1> HIDE DEF v, new
<1>8. \A j \in Feeds : /\ conns'[j] = IF j = k THEN v ELSE conns[j]
                       /\ bufs'[j] = IF j = k THEN new ELSE bufs[j]
  BY <1>1, <1>2, <1>4, <1>6
<1> HIDE DEF k
<1>9. Heard'
  BY <1>2, <1>4, <1>5, <1>8 DEF Clean, Heard
<1>10. ASSUME NEW j \in Feeds, Flow(j) PROVE Flow(j)'
  <2>1. InWrite(j)' = InWrite(j) /\ Ending(j)' = Ending(j) /\ Wav' = Wav
    BY <1>4 DEF InWrite, Ending, Wav
  <2>2. CASE j = k
    <3>1. ~InWrite(j) /\ ~Ending(j)
      BY <1>7, <2>2 DEF InWrite, Ending, Filed, ConnsInOrder
    <3>2. bufs'[j].data = <<>> /\ conns'[j].chunks = conns[j].chunks
      BY <1>5, <1>8, <2>2
    <3>3. Sound(bufs[j].data, j)'
      <4>1. Len(<<>>) = 0
        BY EmptySeq
      <4>2. QED BY <3>2, <4>1 DEF Sound
    <3>4. Wav => (tts'.reads = 0 <=> conns'[j].chunks = 0)
      BY <1>4, <1>7, <1>10, <2>2, <3>1, <3>2 DEF Flow, k
    <3>5. QED BY <2>1, <3>1, <3>2, <3>3, <3>4 DEF Flow
  <2>3. CASE j # k
    <3>1. bufs'[j] = bufs[j] /\ conns'[j] = conns[j]
      BY <1>8, <2>3
    <3>2. Sound(bufs[j].data, j)'
      BY <1>10, <2>1, <3>1 DEF Flow, Sound
    <3>3. QED BY <1>4, <1>10, <2>1, <2>3, <3>1, <3>2 DEF Flow, k
  <2>4. QED BY <2>2, <2>3
<1>11. QED BY <1>4, <1>9, <1>10 DEF Clean

LEMMA CleanOfRead == ASSUME Types, Clean, ReadAudio PROVE Clean'
<1>1. bufs \in [Feeds -> Bufs]
  BY DEF Types, TypeOK
<1> DEFINE c == tts.buffer
           v == [bufs[c] EXCEPT !.data = Tail(bufs[c].data)]
<1>2. /\ bufs' = [bufs EXCEPT ![c] = v] /\ bufs[c].data # <<>>
      /\ UNCHANGED <<vendor, tts, conns, session, worker, overlapped>>
  BY DEF ReadAudio, historyVars
<1>3. c \in Feeds => v.alive = bufs[c].alive /\ v.data = Tail(bufs[c].data)
                     /\ bufs[c].data \in Seq(Samples)
  BY <1>1 DEF Bufs
<1>4. c \in Feeds => bufs[c].alive
  BY <1>2 DEF Clean, Heard
<1> HIDE DEF c, v
<1>5. \A j \in Feeds : bufs'[j] = IF j = c THEN v ELSE bufs[j]
  BY <1>1, <1>2
<1>6. Heard'
  BY <1>2, <1>3, <1>4, <1>5 DEF Clean, Heard
<1>7. ASSUME NEW j \in Feeds, Flow(j) PROVE Flow(j)'
  <2>1. InWrite(j)' = InWrite(j) /\ Ending(j)' = Ending(j) /\ Wav' = Wav
    BY <1>2 DEF InWrite, Ending, Wav
  <2>2. /\ Sound(bufs'[j].data, j)
        /\ bufs'[j].data # <<>> => /\ bufs[j].data # <<>>
             /\ bufs'[j].data[Len(bufs'[j].data)] = bufs[j].data[Len(bufs[j].data)]
    <3>1. Sound(bufs[j].data, j)
      BY <1>7 DEF Flow
    <3>2. CASE j = c
      <4>1. bufs'[j].data = Tail(bufs[j].data) /\ bufs[j].data # <<>>
            /\ bufs[j].data \in Seq(Samples)
        BY <1>2, <1>3, <1>5, <3>2
      <4>2. QED BY <3>1, <4>1, TailSound
    <3>3. CASE j # c
      BY <1>5, <3>1, <3>3
    <3>4. QED BY <3>2, <3>3
  <2>3. Sound(bufs[j].data, j)'
    BY <2>1, <2>2 DEF Sound
  <2>4. QED BY <1>2, <1>7, <2>1, <2>2, <2>3 DEF Flow
<1>8. QED BY <1>2, <1>6, <1>7 DEF Clean

LEMMA CleanOfWriteCb ==
  ASSUME Types, Filed, Own, Clean, NEW k \in Feeds, WriteCb(k)
  PROVE  Clean'
<1>1. /\ tts \in Handles /\ conns \in [Feeds -> Conns] /\ worker \in Workers
      /\ Started \in [Feeds -> Conns]
      /\ \A j \in Feeds : Started[j].chunks = conns[j].chunks
      /\ conns[k].chunks \in Nat
  <2>1. \A r \in Conns : r.chunks \in 0..MaxChunks
    BY DEF Conns
  <2>2. conns[k].chunks \in Nat
    BY <2>1, ConstantsAssumption DEF Types, TypeOK
  <2>3. QED BY <2>2, StartedType DEF Types, TypeOK
<1>2. \A j \in Feeds : Started[j].at = conns[j].at
                       \/ (conns[j].at = "added" /\ Started[j].at = "running")
  <2>1. \A r \in Conns : [r EXCEPT !.at = "running"].at = "running"
    BY DEF Conns
  <2>2. QED BY <1>1, <2>1 DEF Started
<1>3. /\ worker.pc = "idle" /\ conns[k].at = "running"
      /\ UNCHANGED <<vendor, bufs, session, overlapped>>
  BY DEF WriteCb, historyVars
<1> DEFINE v == [Started[k] EXCEPT !.chunks = Started[k].chunks + 1]
<1>4. v.chunks = conns[k].chunks + 1 /\ v.at = Started[k].at
  BY <1>1 DEF Conns
<1>5. conns' = [Started EXCEPT ![k] = v]
  BY DEF WriteCb
<1> HIDE DEF v
<1>6. \A j \in Feeds : /\ conns'[j].at = conns[j].at
                          \/ (conns[j].at = "added" /\ conns'[j].at = "running")
                       /\ conns'[j].chunks = IF j = k THEN conns[k].chunks + 1 ELSE conns[j].chunks
  BY <1>1, <1>2, <1>4, <1>5
<1>7. \A j \in Feeds : ~InWrite(j) /\ ~Ending(j)
  BY <1>3 DEF InWrite, Ending
<1>8. \/ /\ FlushedOrGone(k) /\ worker'.pc = "end" /\ worker'.conn = k /\ tts' = tts
      \/ /\ ~FlushedOrGone(k) /\ worker'.pc = "write" /\ worker'.conn = k
         /\ worker'.buf = tts.buffer /\ worker'.first = (Wav /\ tts.reads = 0)
         /\ tts'.buffer = tts.buffer /\ tts'.reads = IF Wav THEN 1 ELSE tts.reads
  <2>1. CASE FlushedOrGone(k)
    BY <1>1, <2>1 DEF WriteCb, Workers
  <2>2. CASE ~FlushedOrGone(k)
    <3>1. worker' = [worker EXCEPT !.pc = "write", !.conn = k, !.buf = tts.buffer,
                                   !.first = Wav /\ tts.reads = 0]
          /\ tts' = IF Wav THEN Counted ELSE tts
      BY <2>2 DEF WriteCb, Wav
    <3>2. Counted.buffer = tts.buffer /\ Counted.reads = 1
      BY <1>1 DEF Counted, Handles
    <3>3. worker'.pc = "write" /\ worker'.conn = k /\ worker'.buf = tts.buffer
          /\ worker'.first = (Wav /\ tts.reads = 0)
      BY <1>1, <3>1 DEF Workers
    <3>4. QED BY <2>2, <3>1, <3>2, <3>3
  <2>3. QED BY <2>1, <2>2
<1>9. Heard'
  BY <1>3, <1>6, <1>8 DEF Clean, Heard
<1>10. ASSUME ~overlapped, NEW j \in Feeds PROVE Flow(j)'
  <2>1. Flow(j) /\ k = session.feeds
    BY <1>3, <1>10 DEF Clean, Own, LastOnly
  <2>2. Sound(bufs[j].data, j)'
    BY <1>3, <2>1 DEF Flow, Sound, Wav
  <2>3. Wav' = Wav
    BY <1>3 DEF Wav
  <2>4. CASE j # k
    <3>1. ~InWrite(j)' /\ ~Ending(j)'
      BY <1>8, <2>4 DEF InWrite, Ending
    <3>2. QED BY <1>3, <1>6, <1>7, <2>1, <2>2, <2>4, <3>1 DEF Flow
  <2>5. CASE j = k /\ FlushedOrGone(k)
    <3>1. ~InWrite(j)' /\ Ending(j)'
      BY <1>8, <2>5 DEF InWrite, Ending
    <3>2. QED BY <2>2, <3>1 DEF Flow
  <2>6. CASE j = k /\ ~FlushedOrGone(k)
    <3>1. InWrite(j)' /\ ~Ending(j)'
      BY <1>8, <2>6 DEF InWrite, Ending
    <3>2. worker'.buf = k /\ worker'.first = (Wav /\ tts.reads = 0)
      BY <1>8, <2>1, <2>6 DEF FlushedOrGone, Clean, Heard
    <3>3. Wav => (tts.reads = 0 <=> conns[k].chunks = 0)
      BY <1>3, <1>7, <2>1, <2>6 DEF Flow
    <3>4. worker'.first <=> Wav /\ conns'[k].chunks = 1
      <4>0. conns'[k].chunks = conns[k].chunks + 1
        BY <1>6
      <4>1. conns[k].chunks = 0 <=> conns'[k].chunks = 1
        BY <1>1, <4>0
      <4>2. worker'.first <=> Wav /\ tts.reads = 0
        BY <3>2, Zenon
      <4>3. QED BY <3>3, <4>1, <4>2, Zenon
    <3>5. Wav => tts'.reads = 1 /\ conns'[k].chunks # 0
      BY <1>1, <1>6, <1>8, <2>6
    <3>6. bufs'[k].data # <<>> => bufs'[k].data[Len(bufs'[k].data)][2] + 1 = conns'[k].chunks
      <4>1. bufs[k].data # <<>> => bufs[k].data[Len(bufs[k].data)][2] + 0 = conns[k].chunks
        BY <1>3, <1>7, <2>1, <2>6 DEF Flow
      <4>2. bufs[k].data # <<>> => bufs[k].data[Len(bufs[k].data)][2] \in Nat
        <5>1. bufs[k].data \in Seq(Samples) /\ Len(bufs[k].data) \in Nat
          BY RecordFields DEF Types
        <5>2. bufs[k].data # <<>> => Len(bufs[k].data) \in 1..Len(bufs[k].data)
          BY <5>1, EmptySeq
        <5>3. bufs[k].data # <<>> => bufs[k].data[Len(bufs[k].data)] \in Samples
          BY <5>1, <5>2, ElementOfSeq
        <5>4. \A e \in Samples : e[2] \in Nat
          BY ConstantsAssumption DEF Samples
        <5>5. QED BY <5>3, <5>4
      <4>3. QED BY <1>1, <1>3, <1>6, <4>1, <4>2
    <3>7. QED BY <2>2, <2>3, <2>6, <3>1, <3>2, <3>4, <3>5, <3>6 DEF Flow
  <2>7. QED BY <2>4, <2>5, <2>6
<1>11. QED BY <1>3, <1>9, <1>10 DEF Clean

LEMMA CleanOfInsert == ASSUME Types, Filed, Own, Clean, Insert PROVE Clean'
<1>1. /\ tts \in Handles /\ conns \in [Feeds -> Conns] /\ worker \in Workers
      /\ bufs \in [Feeds -> Bufs]
  BY DEF Types, TypeOK
<1> PICK k \in Feeds : k = worker.conn
  BY DEF Insert, Types, Carried
<1> DEFINE b == worker.buf
           n == conns[k].chunks
           h == worker.first
           e == <<k, n, h>>
           v == [bufs[b] EXCEPT !.data = Append(bufs[b].data, e)]
<1>2. /\ worker.pc = "insert" /\ k \in Feeds /\ conns[k].at = "running"
      /\ n \in 1..MaxChunks /\ n \in Nat /\ n # 0 /\ h \in BOOLEAN
      /\ UNCHANGED <<vendor, conns, session, overlapped>>
  <2>1. worker.pc = "insert" /\ UNCHANGED <<vendor, conns, session, overlapped>>
    BY DEF Insert, historyVars
  <2>2. k \in Feeds /\ n \in 1..MaxChunks
    BY <2>1 DEF Types, Carried
  <2>3. n \in Nat /\ n # 0
    BY <2>2, ConstantsAssumption
  <2>4. QED BY <1>1, <2>1, <2>2, <2>3 DEF Filed, ConnsInOrder, Workers
<1>3. /\ tts'.reads = 1 /\ tts'.buffer = tts.buffer /\ worker'.pc \in {"tell", "idle"}
  BY <1>1 DEF Insert, Counted, Handles, Workers
<1>4. bufs' = IF b # NULL /\ bufs[b].alive THEN [bufs EXCEPT ![b] = v] ELSE bufs
  BY DEF Insert
<1>5. b \in Feeds => v.alive = bufs[b].alive /\ v.data = Append(bufs[b].data, e)
  BY <1>1 DEF Bufs
<1>6. e \in Samples
  BY <1>2 DEF Samples
<1> HIDE DEF v
<1>7. \A j \in Feeds : bufs'[j] = IF j = b /\ bufs[b].alive THEN v ELSE bufs[j]
  BY <1>1, <1>4, NullIsNoFeed
<1>8. Heard'
  BY <1>2, <1>3, <1>5, <1>7 DEF Clean, Heard
<1>9. ASSUME ~overlapped, NEW j \in Feeds PROVE Flow(j)'
  <2>1. Flow(j) /\ Flow(k) /\ k = session.feeds
    BY <1>2, <1>9 DEF Clean, Own, LastOnly
  <2>2. ~InWrite(j)' /\ ~Ending(j)' /\ Wav' = Wav
    BY <1>2, <1>3 DEF InWrite, Ending, Wav
  <2>3. InWrite(k) /\ ~Ending(k) /\ b = k /\ (h <=> Wav /\ n = 1)
    BY <1>2, <2>1 DEF InWrite, Ending, Flow
  <2>4. CASE j # k
    <3>1. bufs'[j] = bufs[j] /\ ~InWrite(j) /\ ~Ending(j)
      BY <1>2, <1>7, <2>3, <2>4 DEF InWrite, Ending
    <3>2. Sound(bufs[j].data, j)'
      BY <2>1, <2>2, <3>1 DEF Flow, Sound
    <3>3. QED BY <1>2, <2>1, <2>2, <2>4, <3>1, <3>2 DEF Flow
  <2>5. CASE j = k
    <3> DEFINE d == bufs[k].data
               a == bufs'[k].data
    <3>1. Sound(a, k) /\ (a # <<>> => a[Len(a)][2] = n)
      <4>1. CASE bufs[k].alive
        <5>1. a = Append(d, e) /\ d \in Seq(Samples) /\ Sound(d, k)
          BY <1>2, <1>5, <1>7, <2>1, <2>3, <4>1, RecordFields DEF Types, Flow
        <5>2. d # <<>> => n = d[Len(d)][2] + 1
          BY <1>2, <2>1, <2>3 DEF Flow
        <5> HIDE DEF a, d, n, h
        <5>3. QED BY <1>6, <2>3, <5>1, <5>2, AppendSound
      <4>2. CASE ~bufs[k].alive
        <5>1. a = <<>>
          BY <1>2, <1>7, <2>3, <4>2 DEF Clean, Heard
        <5>2. QED BY <5>1, EmptySound
      <4>3. QED BY <4>1, <4>2
    <3>2. Sound(bufs[k].data, k)'
      BY <1>2, <3>1, SoundNext
    <3>3. conns'[k].chunks = n /\ n # 0 /\ tts'.reads = 1
      BY <1>2, <1>3
    <3>4. a # <<>> => a[Len(a)][2] + 0 = n
      BY <1>2, <3>1
    <3>5. ~InWrite(k)'
      BY <2>2, <2>5
    <3> HIDE DEF n
    <3>6. Flow(k)'
      BY <3>2, <3>3, <3>4, <3>5 DEF Flow
    <3>7. QED BY <2>5, <3>6
  <2>6. QED BY <2>4, <2>5
<1>10. QED BY <1>2, <1>8, <1>9 DEF Clean

LEMMA CleanOfSession == ASSUME Types, Silence, Filed, Own, Clean, SessionNext PROVE Clean'
<1>1. /\ session \in Sessions /\ tts \in Handles /\ conns \in [Feeds -> Conns]
      /\ bufs \in [Feeds -> Bufs]
  BY DEF Types, TypeOK
<1>2. CASE Feed
  BY <1>2, CleanOfFeed
<1>3. CASE Begin
  BY <1>3, CleanOfBegin
<1>4. CASE ReadAudio
  BY <1>4, CleanOfRead
<1>5. CASE ReadEnds
  <2>1. session'.feeds = session.feeds
        /\ UNCHANGED <<vendor, tts, conns, bufs, worker, overlapped>>
    BY <1>1, <1>5 DEF ReadEnds, Sessions, historyVars
  <2>2. QED BY <2>1, CleanKept DEF InWrite, Ending
<1>6. CASE Flush
  <2> DEFINE c == tts.buffer
             v == [alive |-> FALSE, data |-> <<>>]
  <2>1. session'.feeds = session.feeds /\ tts'.buffer = NULL /\ tts'.reads = tts.reads
        /\ UNCHANGED <<vendor, conns, worker, overlapped>>
    BY <1>1, <1>6 DEF Flush, Sessions, Handles, historyVars
  <2>2. bufs' = IF c = NULL THEN bufs ELSE [bufs EXCEPT ![c] = v]
    BY <1>6 DEF Flush
  <2>3. v.data = <<>>
    OBVIOUS
  <2> HIDE DEF c, v
  <2>4. \A j \in Feeds : bufs'[j] = bufs[j] \/ bufs'[j].data = <<>>
    BY <1>1, <2>2, <2>3
  <2>5. QED BY <2>1, <2>4, CleanKept DEF InWrite, Ending
<1>7. CASE Interrupt
  <2> DEFINE c == session.conn
             v == [conns[c] EXCEPT !.flushed = TRUE]
  <2>1. session'.feeds = session.feeds
        /\ UNCHANGED <<vendor, tts, bufs, worker, overlapped>>
        /\ (conns' = conns \/ conns' = [conns EXCEPT ![c] = v])
    BY <1>1, <1>7 DEF Interrupt, Sessions
  <2>2. c \in Feeds => v.at = conns[c].at /\ v.chunks = conns[c].chunks
    BY <1>1 DEF Conns
  <2> HIDE DEF c, v
  <2>3. \A j \in Feeds : conns'[j].at = conns[j].at /\ conns'[j].chunks = conns[j].chunks
    BY <1>1, <2>1, <2>2
  <2>4. QED BY <2>1, <2>3, CleanKept DEF InWrite, Ending
<1>8. CASE Clear
  <2> DEFINE c == session.conn
             v == [conns[c] EXCEPT !.file = NULL]
  <2>1. session'.feeds = session.feeds /\ tts'.buffer = tts.buffer /\ tts'.reads = tts.reads
        /\ UNCHANGED <<vendor, bufs, worker, overlapped>>
        /\ (conns' = conns \/ conns' = [conns EXCEPT ![c] = v])
    BY <1>1, <1>8 DEF Clear, Sessions, Handles
  <2>2. c \in Feeds => v.at = conns[c].at /\ v.chunks = conns[c].chunks
    BY <1>1 DEF Conns
  <2> HIDE DEF c, v
  <2>3. \A j \in Feeds : conns'[j].at = conns[j].at /\ conns'[j].chunks = conns[j].chunks
    BY <1>1, <2>1, <2>2
  <2>4. QED BY <2>1, <2>3, CleanKept DEF InWrite, Ending
<1>9. QED BY <1>2, <1>3, <1>4, <1>5, <1>6, <1>7, <1>8 DEF SessionNext

LEMMA CleanOfWorker ==
  ASSUME Types, Filed, Own, Clean, TimerCb \/ WorkerGoesOn \/ (\E k \in Feeds : Transfer(k))
  PROVE  Clean'
<1>1. /\ tts \in Handles /\ conns \in [Feeds -> Conns] /\ worker \in Workers
      /\ Started \in [Feeds -> Conns]
      /\ \A c \in Feeds : Started[c].chunks = conns[c].chunks
  BY StartedType DEF Types, TypeOK
<1>2. \A c \in Feeds : Started[c].at = conns[c].at
                       \/ (conns[c].at = "added" /\ Started[c].at = "running")
  <2>1. \A r \in Conns : [r EXCEPT !.at = "running"].at = "running"
    BY DEF Conns
  <2>2. QED BY <1>1, <2>1 DEF Started
<1>3. CASE TimerCb
  <2>1. conns' = Started /\ UNCHANGED <<vendor, tts, bufs, session, worker, overlapped>>
    BY <1>3 DEF TimerCb, historyVars
  <2>2. QED BY <1>1, <1>2, <2>1, CleanKept DEF InWrite, Ending
<1>4. ASSUME NEW k \in Feeds, WriteCb(k) PROVE Clean'
  BY <1>4, CleanOfWriteCb
<1>5. ASSUME NEW k \in Feeds, HeaderCb(k) \/ Finish(k) PROVE Clean'
  <2>1. /\ UNCHANGED <<vendor, bufs, session, overlapped>> /\ worker.pc = "idle"
        /\ tts'.buffer = tts.buffer /\ tts'.reads = tts.reads
        /\ worker' = worker \/ worker'.pc = "end"
    BY <1>1, <1>5 DEF HeaderCb, Finish, Handles, Workers, historyVars
  <2>2. \A c \in Feeds : conns'[c].chunks = Started[c].chunks /\ conns'[c].at = Started[c].at
    <3>1. CASE Finish(k)
      BY <3>1 DEF Finish
    <3>2. CASE HeaderCb(k)
      <4>1. PICK code : conns' = [Started EXCEPT ![k].code = code]
        BY <3>2 DEF HeaderCb
      <4> DEFINE v == [Started[k] EXCEPT !.code = code]
      <4>2. v.chunks = Started[k].chunks /\ v.at = Started[k].at
        BY <1>1 DEF Conns
      <4>3. conns' = [Started EXCEPT ![k] = v]
        BY <4>1
      <4> HIDE DEF v
      <4>4. QED BY <1>1, <4>2, <4>3
    <3>3. QED BY <1>5, <3>1, <3>2
  <2>3. \A j \in Feeds : ~InWrite(j) /\ ~Ending(j) /\ ~InWrite(j)'
    BY <2>1 DEF InWrite, Ending
  <2>4. QED BY <1>1, <1>2, <2>1, <2>2, <2>3, CleanKept
<1>6. CASE WriteFile \/ Tell \/ CheckMultiInfo \/ EventCb
  <2>1. UNCHANGED <<vendor, bufs, session, conns, overlapped>>
    <3>1. CASE WriteFile \/ Tell
      BY <3>1 DEF WriteFile, Tell
    <3>2. CASE CheckMultiInfo \/ EventCb
      BY <3>2 DEF CheckMultiInfo, EventCb, historyVars
    <3>3. QED BY <1>6, <3>1, <3>2
  <2>a. tts'.buffer = tts.buffer /\ tts'.reads = tts.reads
    <3>1. CASE WriteFile \/ EventCb
      BY <3>1 DEF WriteFile, EventCb
    <3>2. CASE Tell
      BY <1>1, <3>2 DEF Tell, Handles
    <3>3. CASE CheckMultiInfo
      BY <1>1, <3>3 DEF CheckMultiInfo, Handles
    <3>4. QED BY <1>6, <3>1, <3>2, <3>3
  <2>2. \/ worker.pc = "write" /\ worker'.pc \in {"insert", "end"} /\ worker'.conn = worker.conn
           /\ (worker'.pc = "insert" => worker'.first = worker.first /\ worker'.buf = worker.buf)
        \/ worker.pc \in {"tell", "event"} /\ worker'.pc = "idle"
        \/ worker.pc = "end" /\ worker'.pc = "close" /\ worker'.conn = worker.conn
    <3>1. CASE WriteFile
      BY <1>1, <3>1 DEF WriteFile, Workers
    <3>2. CASE Tell \/ EventCb
      BY <1>1, <3>2 DEF Tell, EventCb, Workers
    <3>3. CASE CheckMultiInfo
      BY <1>1, <3>3 DEF CheckMultiInfo, Workers
    <3>4. QED BY <1>6, <3>1, <3>2, <3>3
  <2>3. \A j \in Feeds : /\ Ending(j) => Ending(j)'
                         /\ InWrite(j) /\ ~Ending(j)' => InWrite(j)'
                         /\ InWrite(j)' => InWrite(j) /\ worker'.first = worker.first
                                                      /\ worker'.buf = worker.buf
    BY <2>2 DEF InWrite, Ending
  <2>4. QED BY <2>1, <2>a, <2>3, CleanKept
<1>7. CASE Insert
  BY <1>7, CleanOfInsert
<1>8. CASE CleanupConn
  <2> DEFINE c == worker.conn
  <2>1. /\ UNCHANGED <<vendor, bufs, session, overlapped>> /\ c \in Feeds
        /\ worker.pc = "close" /\ worker'.pc = "event"
        /\ tts'.buffer = tts.buffer /\ tts'.reads = tts.reads
    BY <1>1, <1>8 DEF CleanupConn, DetachedHandle, Handles, Workers, Types, Carried
  <2>2. GoneConn.at = "gone"
    BY DEF GoneConn, NoConn
  <2>3. conns' = [conns EXCEPT ![c] = GoneConn]
    BY <1>8 DEF CleanupConn
  <2>4. \A j \in Feeds : /\ ~InWrite(j) /\ ~InWrite(j)'
                         /\ Ending(j) => j = c
    BY <2>1 DEF InWrite, Ending
  <2> HIDE DEF c
  <2>5. \A j \in Feeds : IF j = c THEN conns'[j].at = "gone" ELSE conns'[j] = conns[j]
    BY <1>1, <2>1, <2>2, <2>3
  <2>6. QED BY <2>1, <2>4, <2>5, CleanKept
<1>9. QED BY <1>3, <1>4, <1>5, <1>6, <1>7, <1>8 DEF WorkerGoesOn, Transfer

\* Unless a text is fed while an earlier download runs, what is left to read is
\* audio of the utterance's own download, in order, and the first chunk of a WAV
\* stream and no other has lost its header, in all seven copies and for any number of
\* texts and chunks.
THEOREM CleanAudioHolds == Spec => []CleanAudio
<1>1. Init => Clean
  <2> SUFFICES ASSUME Init PROVE Clean
    OBVIOUS
  <2>1. \A k \in Feeds : conns[k] = NoConn /\ bufs[k] = [alive |-> FALSE, data |-> <<>>]
    BY DEF Init
  <2>2. NoConn.at = "none" /\ NoConn.chunks = 0 /\ tts.reads = 0 /\ tts.buffer = NULL
        /\ worker.pc = "idle"
    BY DEF Init, NoConn
  <2>3. QED BY <2>1, <2>2, EmptySound DEF Clean, Heard, Flow, InWrite, Ending
<1>2. Types /\ Silence /\ Filed /\ Own /\ Clean /\ [Next]_vars => Clean'
  <2>1. Types /\ Clean /\ UNCHANGED vars => Clean'
    BY CleanKept DEF vars, InWrite, Ending
  <2>2. QED BY <2>1, CleanOfSession, CleanOfWorker DEF Next
<1>3. Types /\ Clean => CleanAudio
  <2> SUFFICES ASSUME Types, Clean, ~overlapped, NEW b \in Feeds, NEW i \in DOMAIN bufs[b].data
               PROVE  /\ bufs[b].data[i][1] = b
                      /\ i > 1 => bufs[b].data[i][2] = bufs[b].data[i - 1][2] + 1
                      /\ bufs[b].data[i][3] <=> Wav /\ bufs[b].data[i][2] = 1
    BY DEF CleanAudio, Wav
  <2>1. i \in 1..Len(bufs[b].data)
    BY RecordFields, LenProperties DEF Types
  <2>2. Sound(bufs[b].data, b)
    BY DEF Clean, Flow
  <2>3. QED BY <2>1, <2>2 DEF Sound
<1>4. Types /\ Silence /\ [Next]_vars => Silence'
  BY NextSilence
<1>5. Types /\ Filed /\ [Next]_vars => Filed'
  BY NextFiled
<1>6. Types /\ Filed /\ Own /\ [Next]_vars => Own'
  BY NextOwn
<1>7. QED BY <1>1, <1>2, <1>3, <1>4, <1>5, <1>6, InitTypes, NextTypes, InitOthers, PTL DEF Spec

-----------------------------------------------------------------------------
(* Who may still hold a closed cache file.                                 *)

\* The handle does not hand an earlier feed's file to a transfer.
OwnFiles == badOpen => vendor = "elevenlabs"

\* In a handle of which that is true, a file is the feed's, then its transfer's,
\* then flush's or the worker's; flush takes it only from a transfer that is cut
\* off; and a closed file belongs to a transfer that was cut off or is gone.
Holders ==
  /\ tts.file \in {session.feeds, NULL}
  /\ session.pc = "idle" /\ vendor = "elevenlabs" => tts.file = NULL
  /\ \A k \in Feeds : conns[k].file \in {k, NULL}
  /\ worker.pc = "close" => worker.file \in {worker.conn, NULL}
  /\ session.pc = "closing" /\ session.file # NULL =>
       session.file = session.conn /\ session.conn \in cut

ClosedOnce ==
  /\ \A k \in Feeds : files[k] = "closed" => k \in cut \/ conns[k].at = "gone"
  /\ hurt \subseteq cut

Kept == OwnFiles => Holders /\ ClosedOnce

\* A step that opens, closes and hands over no file.
LEMMA KeptKept ==
  ASSUME Types, Kept, UNCHANGED <<vendor, badOpen, files, hurt, cut>>,
         tts'.file = tts.file, session'.feeds = session.feeds,
         session'.pc = "idle" => session.pc = "idle",
         session'.pc = "closing" => session' = session,
         worker'.pc = "close" => worker' = worker,
         \A k \in Feeds : conns'[k].file = conns[k].file
                          /\ (conns[k].at = "gone" => conns'[k].at = "gone")
  PROVE  Kept'
<1> SUFFICES ASSUME OwnFiles PROVE Holders' /\ ClosedOnce'
  BY DEF Kept, OwnFiles
<1>1. Holders'
  BY DEF Kept, Holders
<1>2. ClosedOnce'
  BY DEF Kept, ClosedOnce
<1>3. QED BY <1>1, <1>2

LEMMA KeptOfFeed == ASSUME Types, Kept, Feed PROVE Kept'
<1>1. tts \in Handles /\ session \in Sessions /\ files \in [Feeds -> {"none", "open", "closed"}]
  BY DEF Types, TypeOK
<1> DEFINE k == session.feeds + 1
<1>2. PICK opened \in BOOLEAN :
        /\ tts' = [FreshHandle(k) EXCEPT !.cache = k, !.file = IF opened THEN k ELSE @]
        /\ files' = [files EXCEPT ![k] = IF opened THEN "open" ELSE "none"]
        /\ badOpen' = (badOpen \/ ~opened)
  BY DEF Feed
<1>3. /\ session'.feeds = k /\ session'.pc \in {"feeding", "ended"} /\ session.pc = "idle"
      /\ UNCHANGED <<vendor, conns, worker, hurt, cut>>
  BY <1>1 DEF Feed, Sessions
<1>4. tts'.file = IF opened THEN k ELSE tts.file
  <2>1. FreshHandle(k) \in Handles /\ FreshHandle(k).file = tts.file
    BY <1>1, Members DEF FreshHandle, Handles
  <2>2. \A r \in Handles : \A f : [r EXCEPT !.cache = k, !.file = f].file = f
    BY DEF Handles
  <2>3. QED BY <1>2, <2>1, <2>2
<1> HIDE DEF k
<1> SUFFICES ASSUME OwnFiles' PROVE Holders' /\ ClosedOnce'
  BY DEF Kept
<1>5. OwnFiles
  BY <1>2, <1>3 DEF OwnFiles
<1>6. ~opened => tts.file = NULL
  BY <1>2, <1>3, <1>5 DEF OwnFiles, Kept, Holders
<1>7. Holders'
  BY <1>3, <1>4, <1>5, <1>6 DEF Kept, Holders
<1>8. \A j \in Feeds : files'[j] = "closed" => files[j] = "closed"
  BY <1>1, <1>2
<1>9. ClosedOnce'
  BY <1>3, <1>5, <1>8 DEF Kept, ClosedOnce
<1>10. QED BY <1>7, <1>9

LEMMA KeptOfBegin == ASSUME Types, Filed, Kept, Begin PROVE Kept'
<1>1. tts \in Handles /\ session \in Sessions /\ conns \in [Feeds -> Conns]
  BY DEF Types, TypeOK
<1> DEFINE k == session.feeds
<1>2. k \in Feeds /\ session.pc = "feeding" /\ conns[k] \in Conns
  BY <1>1 DEF Begin, Types, Carried
<1>3. PICK a \in {"added", "leaked"} :
        conns' = [conns EXCEPT ![k] = [@ EXCEPT !.at = a, !.file = tts.file]]
  BY DEF Begin
<1>4. /\ session'.feeds = k /\ session'.pc \in {"speaking", "ended"} /\ tts'.file = tts.file
      /\ UNCHANGED <<vendor, files, worker, hurt, cut, badOpen>>
  BY <1>1 DEF Begin, Sessions, Handles, historyVars
<1> DEFINE v == [conns[k] EXCEPT !.at = a, !.file = tts.file]
<1>5. v.at = a /\ v.file = tts.file
  BY <1>2, <1>3 DEF Conns
<1>6. conns' = [conns EXCEPT ![k] = v]
  BY <1>3
<1> HIDE DEF v
<1>7. \A j \in Feeds : conns'[j] = IF j = k THEN v ELSE conns[j]
  BY <1>1, <1>2, <1>6
<1>8. conns[k].at = "none"
  <2>1. k \in Nat /\ ~(k < k)
    BY RecordFields DEF Types
  <2>2. QED BY <1>2, <2>1 DEF Filed, ConnsInOrder
<1> SUFFICES ASSUME OwnFiles PROVE Holders' /\ ClosedOnce'
  BY <1>4 DEF Kept, OwnFiles
<1>9. Holders'
  BY <1>4, <1>5, <1>7 DEF Kept, Holders
<1> HIDE DEF k
<1>10. ClosedOnce'
  BY <1>4, <1>7, <1>8 DEF Kept, ClosedOnce
<1>11. QED BY <1>9, <1>10

LEMMA KeptOfInterrupt == ASSUME Types, Kept, Interrupt PROVE Kept'
<1>1. session \in Sessions /\ conns \in [Feeds -> Conns] /\ cut \subseteq Feeds
  BY DEF Types, TypeOK
<1> DEFINE c == session.conn
           v == [conns[c] EXCEPT !.flushed = TRUE]
<1>2. /\ session'.pc = "closing" /\ session'.feeds = session.feeds /\ session'.conn = c
      /\ session'.file = IF c # NULL /\ ~session.complete THEN conns[c].file ELSE NULL
  BY <1>1 DEF Interrupt, Sessions
<1>3. /\ UNCHANGED <<vendor, tts, files, worker, hurt, badOpen>>
      /\ conns' = conns \/ conns' = [conns EXCEPT ![c] = v]
      /\ cut' = IF c = NULL \/ session.complete THEN cut ELSE cut \cup {c}
  BY DEF Interrupt
<1>4. c \in Feeds => v.file = conns[c].file /\ v.at = conns[c].at
  BY <1>1 DEF Conns
<1>5. c \in MaybeFeed
  BY RecordFields DEF Types
<1> HIDE DEF c, v
<1>6. \A j \in Feeds : conns'[j].file = conns[j].file /\ conns'[j].at = conns[j].at
  BY <1>1, <1>3, <1>4
<1> SUFFICES ASSUME OwnFiles PROVE Holders' /\ ClosedOnce'
  BY <1>3 DEF Kept, OwnFiles
<1>7. session'.file # NULL => session'.file = c /\ c \in cut'
  BY <1>2, <1>3, <1>5 DEF Kept, Holders, MaybeFeed
<1>8. Holders'
  BY <1>2, <1>3, <1>6, <1>7 DEF Kept, Holders
<1>9. ClosedOnce'
  BY <1>3, <1>6 DEF Kept, ClosedOnce
<1>10. QED BY <1>8, <1>9

LEMMA KeptOfClear == ASSUME Types, Kept, Clear PROVE Kept'
<1>1. /\ session \in Sessions /\ conns \in [Feeds -> Conns] /\ tts \in Handles
      /\ files \in [Feeds -> {"none", "open", "closed"}]
  BY DEF Types, TypeOK
<1> DEFINE c == session.conn
           f == session.file
           v == [conns[c] EXCEPT !.file = NULL]
<1>2. /\ session.pc = "closing" /\ UNCHANGED <<vendor, worker, cut, badOpen>>
      /\ session'.pc = "idle" /\ session'.feeds = session.feeds
  BY <1>1 DEF Clear, Sessions
<1>3. /\ files' = IF f = NULL THEN files ELSE [files EXCEPT ![f] = "closed"]
      /\ hurt' = IF f # NULL /\ files[f] = "closed" THEN hurt \cup {f} ELSE hurt
      /\ conns' = IF f = NULL THEN conns ELSE [conns EXCEPT ![c] = v]
  BY DEF Clear, CloseFile
<1>4. c \in Feeds => v.file = NULL /\ v.at = conns[c].at
  BY <1>1 DEF Conns
<1>5. tts'.file = IF "file" \in ClearOf[vendor] THEN NULL ELSE tts.file
  BY <1>1 DEF Clear, Handles
<1>6. vendor = "elevenlabs" => "file" \in ClearOf[vendor]
  BY DEF ClearOf, ElevenlabsClear
<1> SUFFICES ASSUME OwnFiles PROVE Holders' /\ ClosedOnce'
  BY <1>2 DEF Kept, OwnFiles
<1>7. f # NULL => f \in cut
  BY <1>2 DEF Kept, Holders
<1> HIDE DEF c, f, v
<1>8. \A j \in Feeds : conns'[j].at = conns[j].at /\ conns'[j].file \in {conns[j].file, NULL}
  BY <1>1, <1>3, <1>4
<1>9. Holders'
  BY <1>2, <1>5, <1>6, <1>8 DEF Kept, Holders
<1>10. \A j \in Feeds : files'[j] = "closed" => files[j] = "closed" \/ j \in cut
  BY <1>1, <1>3, <1>7
<1>11. ClosedOnce'
  BY <1>2, <1>3, <1>7, <1>8, <1>10 DEF Kept, ClosedOnce
<1>12. QED BY <1>9, <1>11

LEMMA KeptOfSession == ASSUME Types, Filed, Kept, SessionNext PROVE Kept'
<1>1. session \in Sessions /\ tts \in Handles
  BY DEF Types, TypeOK
<1>2. CASE ReadEnds \/ ReadAudio
  <2>1. session' = session \/ session' = [session EXCEPT !.pc = "ended"]
    BY <1>2 DEF ReadEnds, ReadAudio
  <2>2. session'.feeds = session.feeds /\ (session' = session \/ session'.pc = "ended")
    BY <1>1, <2>1 DEF Sessions
  <2>3. UNCHANGED <<vendor, tts, conns, files, worker, hurt, cut, badOpen>>
    BY <1>2 DEF ReadEnds, ReadAudio, historyVars
  <2>4. QED BY <2>2, <2>3, KeptKept
<1>3. CASE Flush
  <2>1. session'.pc = "flushing" /\ session'.feeds = session.feeds /\ tts'.file = tts.file
    BY <1>1, <1>3 DEF Flush, Sessions, Handles
  <2>2. UNCHANGED <<vendor, conns, files, worker, hurt, cut, badOpen>>
    BY <1>3 DEF Flush, historyVars
  <2>3. QED BY <2>1, <2>2, KeptKept
<1>4. QED BY <1>2, <1>3, KeptOfFeed, KeptOfBegin, KeptOfInterrupt, KeptOfClear DEF SessionNext

LEMMA KeptOfWorker ==
  ASSUME Types, Filed, Kept, TimerCb \/ WorkerGoesOn \/ (\E k \in Feeds : Transfer(k))
  PROVE  Kept'
<1>1. /\ tts \in Handles /\ conns \in [Feeds -> Conns] /\ worker \in Workers
      /\ files \in [Feeds -> {"none", "open", "closed"}]
      /\ Started \in [Feeds -> Conns]
      /\ \A c \in Feeds : Started[c].file = conns[c].file
  BY StartedType DEF Types, TypeOK
<1>2. \A c \in Feeds : conns[c].at = "gone" => Started[c].at = "gone"
  BY DEF Started
<1>3. worker.pc \in {"write", "insert", "end", "close"} =>
        worker.conn \in Feeds /\ conns[worker.conn].at = "running"
  BY DEF Types, Carried, Filed, ConnsInOrder
<1>4. CASE TimerCb
  BY <1>1, <1>2, <1>4, KeptKept DEF TimerCb, historyVars
<1>5. ASSUME NEW k \in Feeds, Transfer(k) PROVE Kept'
  <2>1. UNCHANGED <<vendor, session, files, hurt, cut, badOpen>>
    BY <1>5 DEF Transfer, HeaderCb, WriteCb, Finish, historyVars
  <2>2. \A c \in Feeds : conns'[c].file = Started[c].file /\ conns'[c].at = Started[c].at
    <3>1. CASE Finish(k)
      BY <3>1 DEF Finish
    <3>2. CASE HeaderCb(k)
      <4>1. PICK code : conns' = [Started EXCEPT ![k].code = code]
        BY <3>2 DEF HeaderCb
      <4> DEFINE v == [Started[k] EXCEPT !.code = code]
      <4>2. v.file = Started[k].file /\ v.at = Started[k].at
        BY <1>1 DEF Conns
      <4>3. conns' = [Started EXCEPT ![k] = v]
        BY <4>1
      <4> HIDE DEF v
      <4>4. QED BY <1>1, <4>2, <4>3
    <3>3. CASE WriteCb(k)
      <4> DEFINE v == [Started[k] EXCEPT !.chunks = Started[k].chunks + 1]
      <4>1. v.file = Started[k].file /\ v.at = Started[k].at
        BY <1>1 DEF Conns
      <4>2. conns' = [Started EXCEPT ![k] = v]
        BY <3>3 DEF WriteCb
      <4> HIDE DEF v
      <4>3. QED BY <1>1, <4>1, <4>2
    <3>4. QED BY <1>5, <3>1, <3>2, <3>3 DEF Transfer
  <2>3. tts'.file = tts.file
    BY ZenonT(30), <1>1, <1>5 DEF Transfer, HeaderCb, WriteCb, Finish, Counted, Handles
  <2>4. worker' = worker \/ worker'.pc \in {"end", "write"}
    BY <1>1, <1>5 DEF Transfer, HeaderCb, WriteCb, Finish, Workers
  <2>5. QED BY SMTT(30), <1>1, <1>2, <2>1, <2>2, <2>3, <2>4, KeptKept
<1>6. CASE Insert \/ Tell \/ EventCb
  <2>1. UNCHANGED <<vendor, session, conns, files, hurt, cut, badOpen>> /\ tts'.file = tts.file
    BY <1>1, <1>6 DEF Insert, Tell, EventCb, Counted, Handles, historyVars
  <2>2. worker'.pc # "close"
    BY <1>1, <1>6 DEF Insert, Tell, EventCb, Workers
  <2>3. QED BY <2>1, <2>2, KeptKept
<1>7. CASE WriteFile
  <2> DEFINE f == conns[worker.conn].file
  <2>1. /\ UNCHANGED <<vendor, tts, session, conns, files, cut, badOpen>>
        /\ hurt' = hurt \/ (hurt' = hurt \cup {f} /\ f # NULL /\ files[f] = "closed")
        /\ worker.pc = "write"
    BY <1>7 DEF WriteFile
  <2>2. worker'.pc # "close"
    BY <1>1, <1>7 DEF WriteFile, Workers
  <2> SUFFICES ASSUME OwnFiles PROVE Holders' /\ ClosedOnce'
    BY <2>1 DEF Kept, OwnFiles
  <2>3. f \in {worker.conn, NULL}
    BY <1>3, <2>1 DEF Kept, Holders
  <2>4. hurt' \subseteq cut
    BY <1>3, <2>1, <2>3 DEF Kept, ClosedOnce
  <2> HIDE DEF f
  <2>5. QED BY <2>1, <2>2, <2>4 DEF Kept, Holders, ClosedOnce
<1>8. CASE CheckMultiInfo
  <2> DEFINE c == worker.conn
  <2>1. /\ UNCHANGED <<vendor, session, conns, files, hurt, cut, badOpen>>
        /\ tts'.file = tts.file /\ c \in Feeds
    BY <1>1, <1>3, <1>8 DEF CheckMultiInfo, Handles, historyVars
  <2>2. worker'.conn = c /\ worker'.file = conns[c].file
    BY <1>1, <1>8 DEF CheckMultiInfo, FileToClose, Workers
  <2> HIDE DEF c
  <2> SUFFICES ASSUME OwnFiles PROVE Holders' /\ ClosedOnce'
    BY <2>1 DEF Kept, OwnFiles
  <2>3. QED BY <2>1, <2>2 DEF Kept, Holders, ClosedOnce
<1>9. CASE CleanupConn
  <2> DEFINE c == worker.conn
             f == worker.file
  <2>1. /\ UNCHANGED <<vendor, session, cut, badOpen>> /\ tts'.file = tts.file
        /\ c \in Feeds /\ conns[c].at = "running" /\ worker.pc = "close" /\ worker'.pc = "event"
    BY <1>1, <1>3, <1>9 DEF CleanupConn, DetachedHandle, Handles, Workers
  <2>2. /\ files' = IF f = NULL THEN files ELSE [files EXCEPT ![f] = "closed"]
        /\ hurt' = IF f # NULL /\ files[f] = "closed" THEN hurt \cup {f} ELSE hurt
        /\ conns' = [conns EXCEPT ![c] = GoneConn]
    BY <1>9 DEF CleanupConn, CloseFile
  <2>3. GoneConn.at = "gone" /\ GoneConn.file = NULL
    BY DEF GoneConn, NoConn
  <2> SUFFICES ASSUME OwnFiles PROVE Holders' /\ ClosedOnce'
    BY <2>1 DEF Kept, OwnFiles
  <2>4. f \in {c, NULL}
    BY <2>1 DEF Kept, Holders
  <2> HIDE DEF c, f
  <2>5. \A j \in Feeds : conns'[j] = IF j = c THEN GoneConn ELSE conns[j]
    BY <1>1, <2>1, <2>2
  <2>6. Holders'
    BY <2>1, <2>3, <2>5 DEF Kept, Holders
  <2>7. \A j \in Feeds : files'[j] = "closed" => files[j] = "closed" \/ j = c
    BY <1>1, <2>2, <2>4
  <2>8. hurt' \subseteq cut
    BY <2>1, <2>2, <2>4 DEF Kept, ClosedOnce
  <2>9. ClosedOnce'
    BY <2>1, <2>3, <2>5, <2>7, <2>8 DEF Kept, ClosedOnce
  <2>10. QED BY <2>6, <2>9
<1>10. QED BY <1>4, <1>5, <1>6, <1>7, <1>8, <1>9 DEF WorkerGoesOn

\* Three places use a cache file's FILE, on two threads with no lock: a file that
\* was closed is written or closed once more only for a download that flush cut off,
\* and, in six of the copies, after an open that failed: for any number of texts,
\* overlapping downloads included.
THEOREM FileSafeHolds == Spec => []FileSafe
<1>1. Init => Kept
  BY DEF Init, NoConn, Kept, Holders, ClosedOnce
<1>2. Types /\ Filed /\ Kept /\ [Next]_vars => Kept'
  <2>1. Types /\ Kept /\ UNCHANGED vars => Kept'
    BY KeptKept DEF vars
  <2>2. QED BY <2>1, KeptOfSession, KeptOfWorker DEF Next
<1>3. Types /\ Kept => FileSafe
  BY DEF Kept, OwnFiles, ClosedOnce, FileSafe
<1>4. Types /\ Filed /\ [Next]_vars => Filed'
  BY NextFiled
<1>5. QED BY <1>1, <1>2, <1>3, <1>4, InitTypes, NextTypes, InitOthers, PTL DEF Spec

-----------------------------------------------------------------------------
(* Which cache files have been announced.                                  *)

\* In the modules that remember having sent PLAYBACK_START: from a feed to the end
\* of its flush the handle names the feed's cache file, and no file otherwise; a file
\* the handle says it has announced was announced, and so was every file in the
\* cache that the handle does not name.
NamesOwn ==
  tts.cache = IF session.pc = "idle" THEN NULL ELSE session.feeds

Said ==
  /\ tts.started /\ tts.cache # NULL => tts.cache \in told
  /\ \A k \in disk : k # tts.cache => k \in told

Announced == WriteOf[vendor].remembers => NamesOwn /\ Said

\* A step that names, keeps and removes no cache file.
LEMMA AnnouncedKept ==
  ASSUME Announced, UNCHANGED <<vendor, disk, told>>,
         tts'.cache = tts.cache, tts'.started = tts.started, session'.feeds = session.feeds,
         session'.pc = "idle" <=> session.pc = "idle"
  PROVE  Announced'
<1> SUFFICES ASSUME WriteOf[vendor].remembers PROVE NamesOwn' /\ Said'
  BY DEF Announced
<1>1. NamesOwn'
  BY DEF Announced, NamesOwn
<1>2. Said'
  BY DEF Announced, Said
<1>3. QED BY <1>1, <1>2

\* A module that remembers removes the file of which it remembers nothing.
LEMMA RemembersAndRemoves ==
  ASSUME TypeOK, WriteOf[vendor].remembers
  PROVE  FlushOf[vendor].removes = "unannounced"
<1>1. vendor \in AllVendors
  BY ConstantsAssumption DEF TypeOK
<1>2. CASE vendor \in {"verbio", "custom"}
  BY <1>2 DEF WriteOf, VerbioWrite, CustomWrite
<1>3. CASE vendor = "deepgram"
  BY <1>3 DEF FlushOf, DeepgramFlush
<1>4. CASE vendor = "whisper"
  BY <1>4 DEF FlushOf, WhisperFlush
<1>5. CASE vendor = "playht"
  BY <1>5 DEF FlushOf, PlayhtFlush
<1>6. CASE vendor = "rimelabs"
  BY <1>6 DEF FlushOf, RimelabsFlush
<1>7. CASE vendor = "elevenlabs"
  BY <1>7 DEF FlushOf, ElevenlabsFlush
<1>8. QED BY <1>1, <1>2, <1>3, <1>4, <1>5, <1>6, <1>7 DEF AllVendors

LEMMA AnnouncedOfSession == ASSUME Types, Announced, SessionNext PROVE Announced'
<1>1. session \in Sessions /\ tts \in Handles /\ disk \subseteq Feeds
  BY DEF Types, TypeOK
<1>2. CASE Feed
  <2> DEFINE k == session.feeds + 1
  <2>1. PICK opened \in BOOLEAN :
          /\ tts' = [FreshHandle(k) EXCEPT !.cache = k, !.file = IF opened THEN k ELSE @]
          /\ disk' = IF opened THEN disk \cup {k} ELSE disk
    BY <1>2 DEF Feed
  <2>2. /\ session'.feeds = k /\ session'.pc \in {"feeding", "ended"} /\ session.pc = "idle"
        /\ UNCHANGED <<vendor, told>>
    BY <1>1, <1>2 DEF Feed, Sessions
  <2>3. tts'.cache = k /\ ~tts'.started
    <3>1. FreshHandle(k) \in Handles /\ ~FreshHandle(k).started
      BY <1>1, Members DEF FreshHandle, Handles
    <3>2. \A r \in Handles : \A f : [r EXCEPT !.cache = k, !.file = f].cache = k
                                /\ [r EXCEPT !.cache = k, !.file = f].started = r.started
      BY DEF Handles
    <3>3. QED BY <2>1, <3>1, <3>2
  <2> HIDE DEF k
  <2> SUFFICES ASSUME WriteOf[vendor].remembers PROVE NamesOwn' /\ Said'
    BY <2>2 DEF Announced
  <2>4. NamesOwn'
    BY <2>2, <2>3 DEF NamesOwn
  <2>5. \A j \in disk : j \in told
    BY <1>1, <2>2, NullIsNoFeed DEF Announced, NamesOwn, Said
  <2>6. Said'
    BY <2>1, <2>2, <2>3, <2>5 DEF Said
  <2>7. QED BY <2>4, <2>6
<1>3. CASE Begin
  <2>1. session'.feeds = session.feeds /\ session'.pc # "idle" /\ session.pc # "idle"
    BY <1>1, <1>3 DEF Begin, Sessions
  <2>2. tts'.cache = tts.cache /\ tts'.started = tts.started /\ UNCHANGED <<vendor, disk, told>>
    BY <1>1, <1>3 DEF Begin, Handles, historyVars
  <2>3. QED BY <2>1, <2>2, AnnouncedKept
<1>4. CASE ReadEnds \/ ReadAudio
  <2>1. session'.feeds = session.feeds /\ session'.pc # "idle" /\ session.pc # "idle"
    BY <1>1, <1>4 DEF ReadEnds, ReadAudio, Sessions
  <2>2. UNCHANGED <<vendor, tts, disk, told>>
    BY <1>4 DEF ReadEnds, ReadAudio, historyVars
  <2>3. QED BY <2>1, <2>2, AnnouncedKept
<1>5. CASE Flush
  <2>1. session'.feeds = session.feeds /\ session'.pc # "idle" /\ session.pc # "idle"
    BY <1>1, <1>5 DEF Flush, Sessions
  <2>2. tts'.cache = tts.cache /\ tts'.started = tts.started /\ UNCHANGED <<vendor, disk, told>>
    BY <1>1, <1>5 DEF Flush, Handles, historyVars
  <2>3. QED BY <2>1, <2>2, AnnouncedKept
<1>6. CASE Interrupt
  <2>1. session'.feeds = session.feeds /\ session'.pc # "idle" /\ session.pc # "idle"
    BY <1>1, <1>6 DEF Interrupt, Sessions
  <2>2. UNCHANGED <<vendor, tts, disk, told>>
    BY <1>6 DEF Interrupt
  <2>3. QED BY <2>1, <2>2, AnnouncedKept
<1>7. CASE Clear
  <2>1. session.pc = "closing" /\ session'.pc = "idle" /\ UNCHANGED <<vendor, told>>
    BY <1>1, <1>7 DEF Clear, Sessions
  <2>2. tts'.cache = NULL
    BY <1>1, <1>7 DEF Clear, Handles
  <2>3. disk' = IF Removes THEN disk \ {tts.cache} ELSE disk
    BY <1>7 DEF Clear
  <2> SUFFICES ASSUME WriteOf[vendor].remembers PROVE NamesOwn' /\ Said'
    BY <2>1 DEF Announced
  <2>4. Removes <=> ~tts.started
    BY RemembersAndRemoves DEF Types, Removes
  <2>5. \A j \in disk' : j \in told
    BY <1>1, <2>3, <2>4, NullIsNoFeed DEF Announced, Said
  <2>6. QED BY <2>1, <2>2, <2>5 DEF NamesOwn, Said
<1>8. QED BY <1>2, <1>3, <1>4, <1>5, <1>6, <1>7 DEF SessionNext

LEMMA AnnouncedOfWorker ==
  ASSUME Types, Announced, TimerCb \/ WorkerGoesOn \/ (\E k \in Feeds : Transfer(k))
  PROVE  Announced'
<1>1. tts \in Handles
  BY DEF Types, TypeOK
<1>2. CASE TimerCb \/ WriteFile \/ EventCb
  <2>1. UNCHANGED <<vendor, tts, session, disk, told>>
    BY <1>2 DEF TimerCb, WriteFile, EventCb, historyVars
  <2>2. QED BY <2>1, AnnouncedKept
<1>3. CASE Insert \/ CheckMultiInfo \/ CleanupConn
  <2>1. UNCHANGED <<vendor, session, disk, told>>
    BY <1>3 DEF Insert, CheckMultiInfo, CleanupConn, historyVars
  <2>2. tts'.cache = tts.cache /\ tts'.started = tts.started
    BY ZenonT(30), <1>1, <1>3 DEF Insert, CheckMultiInfo, CleanupConn, Counted, DetachedHandle, Handles
  <2>3. QED BY SMTT(30), <2>1, <2>2, AnnouncedKept
<1>4. CASE \E k \in Feeds : Transfer(k)
  <2>1. UNCHANGED <<vendor, session, disk, told>>
    BY <1>4 DEF Transfer, HeaderCb, WriteCb, Finish, historyVars
  <2>2. tts'.cache = tts.cache /\ tts'.started = tts.started
    BY <1>1, <1>4 DEF Transfer, HeaderCb, WriteCb, Finish, Counted, Handles
  <2>3. QED BY <2>1, <2>2, AnnouncedKept
<1>5. CASE Tell
  <2>1. UNCHANGED <<vendor, session, disk>>
    BY <1>5 DEF Tell
  <2>2. CASE UNCHANGED <<tts, told>>
    BY <2>1, <2>2, AnnouncedKept
  <2>3. CASE /\ told' = told \cup ({tts.cache} \ {NULL})
             /\ tts' = [tts EXCEPT !.started = WriteOf[vendor].remembers]
    <3>1. tts'.cache = tts.cache
      BY <1>1, <2>3 DEF Handles
    <3>2. QED BY <2>1, <2>3, <3>1 DEF Announced, NamesOwn, Said
  <2>4. QED BY <1>5, <2>2, <2>3 DEF Tell
<1>6. QED BY <1>2, <1>3, <1>4, <1>5 DEF WorkerGoesOn

\* A file that stays in the cache after its utterance was flushed was named by a
\* PLAYBACK_START event, in the five modules that keep the flag, although the worker
\* sets the flag and the session's thread resets and reads it with no lock.
THEOREM CacheAnnouncedHolds == Spec => []CacheAnnounced
<1>1. Init => Announced
  BY DEF Init, Announced, NamesOwn, Said
<1>2. Types /\ Announced /\ [Next]_vars => Announced'
  <2>1. Announced /\ UNCHANGED vars => Announced'
    BY AnnouncedKept DEF vars
  <2>2. QED BY <2>1, AnnouncedOfSession, AnnouncedOfWorker DEF Next
<1>3. Types /\ Announced => CacheAnnounced
  <2> SUFFICES ASSUME Types, Announced, WriteOf[vendor].remembers, NEW k \in disk,
                      session.feeds > k \/ session.pc = "idle"
               PROVE  k \in told
    BY DEF CacheAnnounced
  <2>1. k \in Feeds /\ k \in Nat /\ k # NULL /\ session.feeds \in Nat
    BY NullIsNoFeed, RecordFields DEF Types, TypeOK
  <2>2. tts.cache # k
    BY <2>1 DEF Announced, NamesOwn
  <2>3. QED BY <2>2 DEF Announced, Said
<1>4. QED BY <1>1, <1>2, <1>3, InitTypes, NextTypes, PTL DEF Spec
=============================================================================
