-------------------------- MODULE ForkStreamProofs --------------------------
(***************************************************************************)
(* Proofs about ForkStream for any number of marks, files and cleanups,    *)
(* any buffer sizes and any audio.                                         *)
(***************************************************************************)
EXTENDS ForkStream, TLAPS, SequenceTheorems, FunctionTheorems, FiniteSetTheorems

-----------------------------------------------------------------------------
(* Sequences: what the queue and buffer operations keep.                   *)

LEMMA ConcatType ==
  ASSUME NEW S, NEW s \in Seq(S), NEW t \in Seq(S)
  PROVE  /\ s \o t \in Seq(S) /\ Len(s \o t) = Len(s) + Len(t)
         /\ DOMAIN (s \o t) = 1..(Len(s) + Len(t))
         /\ \A i \in 1..Len(s) + Len(t) :
              (s \o t)[i] = IF i <= Len(s) THEN s[i] ELSE t[i - Len(s)]
  BY ConcatProperties, LenProperties

LEMMA DropType ==
  ASSUME NEW S, NEW s \in Seq(S), NEW n \in 0..Len(s)
  PROVE  /\ DropFirst(s, n) \in Seq(S) /\ Len(DropFirst(s, n)) = Len(s) - n
         /\ \A i \in 1..(Len(s) - n) : DropFirst(s, n)[i] = s[i + n]
<1>1. Len(s) \in Nat /\ \A i \in 1..Len(s) : s[i] \in S
  BY LenProperties
<1>2. /\ SubSeq(s, n + 1, Len(s)) \in Seq(S)
      /\ Len(SubSeq(s, n + 1, Len(s)))
           = IF n + 1 <= Len(s) THEN Len(s) - (n + 1) + 1 ELSE 0
      /\ \A i \in 1..(Len(s) - (n + 1) + 1) :
           SubSeq(s, n + 1, Len(s))[i] = s[(n + 1) + i - 1]
  BY <1>1, SubSeqProperties
<1>3. QED BY <1>1, <1>2 DEF DropFirst

LEMMA TakeType ==
  ASSUME NEW S, NEW s \in Seq(S), NEW n \in 0..Len(s)
  PROVE  /\ SubSeq(s, 1, n) \in Seq(S) /\ Len(SubSeq(s, 1, n)) = n
         /\ \A i \in 1..n : SubSeq(s, 1, n)[i] = s[i]
<1>1. Len(s) \in Nat /\ \A i \in 1..Len(s) : s[i] \in S
  BY LenProperties
<1>2. /\ SubSeq(s, 1, n) \in Seq(S)
      /\ Len(SubSeq(s, 1, n)) = IF 1 <= n THEN n - 1 + 1 ELSE 0
      /\ \A i \in 1..(n - 1 + 1) : SubSeq(s, 1, n)[i] = s[1 + i - 1]
  BY <1>1, SubSeqProperties
<1>3. QED BY <1>1, <1>2

LEMMA LeastType ==
  ASSUME NEW m \in Nat, NEW n \in Nat
  PROVE  Least(m, n) \in 0..m /\ Least(m, n) \in 0..n /\ Least(m, n) \in Nat
  BY DEF Least

\* The number of markers in any buffer is a number.
LEMMA NumMarkersType ==
  ASSUME NEW S, NEW s \in Seq(S)
  PROVE  NumMarkers(s) \in Nat
<1>1. DOMAIN s = 1..Len(s) /\ Len(s) \in Nat
  BY LenProperties
<1>2. IsFiniteSet(1..Len(s))
  BY <1>1, FS_Interval
<1>3. {i \in DOMAIN s : IsMarker(s[i])} \in SUBSET (1..Len(s))
  BY <1>1
<1>4. IsFiniteSet({i \in DOMAIN s : IsMarker(s[i])})
  BY <1>2, <1>3, FS_Subset
<1>5. QED BY <1>4, FS_CardinalityType DEF NumMarkers

-----------------------------------------------------------------------------
(* Type correctness.                                                       *)

\* The bounds were checked when the message was taken.
Carried ==
  /\ Handles("mark") => marks < MaxMarks
  /\ Handles("playAudio") => written < MaxFiles
  /\ svc.at = "append" => written > 0

Types == TypeOK /\ Carried

LEMMA SampleTypes ==
  /\ \A s \in Seq(MarkNumbers) : s \in Seq(Sample)
  /\ \A a \in Audio : a \in Seq(Sample)
<1>1. MaxMarks \in Nat /\ Audio \subseteq Seq({-1, 0})
  BY StreamAssumption
<1>2. MarkNumbers \subseteq Sample /\ {-1, 0} \subseteq Sample
  BY <1>1 DEF MarkNumbers, Sample
<1>3. QED BY <1>1, <1>2, SeqMonotonic

LEMMA IdleType ==
  /\ Idle \in [at : {"idle", "found", "push", "restore", "append"},
               msg : {"none", "mark", "clearMarks", "killAudio", "binary", "playAudio"},
               data : Seq(Sample), left : Seq(Sample)]
  /\ Idle.at = "idle"
<1>1. <<>> \in Seq(Sample)
  BY EmptySeq
<1>2. QED BY <1>1 DEF Idle

LEMMA InitTypes == Init => Types
<1> SUFFICES ASSUME Init PROVE Types
  OBVIOUS
<1>1. /\ <<>> \in Seq(MarkNumbers) /\ <<>> \in Seq(Sample) /\ Len(<<>>) = 0
  BY EmptySeq
<1>2. threshold \in Nat
  <2>1. HighMark \in Nat /\ factor \in {1, 2} /\ threshold = HighMark * factor
    BY StreamAssumption DEF Init
  <2>2. CASE factor = 1
    BY <2>1, <2>2
  <2>3. CASE factor = 2
    BY <2>1, <2>3
  <2>4. QED BY <2>1, <2>2, <2>3
<1>3. TypeOK
  <2>1. /\ mode \in {"stream", "play"} /\ factor \in {1, 2}
        /\ marks \in 0..MaxMarks /\ written \in 0..MaxFiles
        /\ Len(inUse) + Len(inventory) <= MAX_MARKS
    BY <1>1, StreamAssumption DEF Init
  <2>2. /\ files \subseteq 1..written /\ onDisk \subseteq 1..written
        /\ captured \in [Cleaners -> SUBSET (1..written)]
    BY DEF Init
  <2>3. QED BY <1>1, <1>2, <2>1, <2>2, IdleType DEF Init, TypeOK
<1>4. Carried
  BY IdleType DEF Init, Carried, Handles
<1>5. QED BY <1>3, <1>4 DEF Types

USE DEF Types

LEMMA ReceiveTypes == ASSUME Types, Receive PROVE Types'
<1>1. PICK msg \in {"mark", "clearMarks", "killAudio", "binary", "playAudio"},
           data \in Audio \cup {<<>>} :
        /\ Receives(msg, data)
        /\ msg = "mark" => marks < MaxMarks
        /\ msg = "playAudio" => written < MaxFiles
  BY DEF Receive
<1>2. data \in Seq(Sample) /\ <<>> \in Seq(Sample)
  BY SampleTypes, EmptySeq
<1>3. svc' = [at |-> "found", msg |-> msg, data |-> data, left |-> <<>>]
  BY <1>1 DEF Receives, Idle
<1>4. UNCHANGED <<sessionVars, markVars, audioVars, mutex, fileVars, cleaner, histVars>>
  BY <1>1 DEF Receives
<1>5. TypeOK'
  BY <1>2, <1>3, <1>4 DEF TypeOK, sessionVars, markVars, audioVars, fileVars, histVars
<1>6. Carried'
  BY <1>1, <1>3, <1>4 DEF Carried, Handles, markVars, fileVars
<1>7. QED BY <1>5, <1>6

\* A step that ends the message and leaves the queues to be typed.
LEMMA EndsMessage ==
  ASSUME svc' = Idle PROVE Carried'
  BY IdleType DEF Carried, Handles

LEMMA TakeMarkTypes == ASSUME Types, TakeMark PROVE Types'
<1>1. marks + 1 \in MarkNumbers /\ marks' = marks + 1 /\ svc' = Idle
  BY StreamAssumption DEF TakeMark, Handles, TypeOK, Carried, MarkNumbers
<1>2. /\ inventory' \in Seq(MarkNumbers)
      /\ Len(inUse) + Len(inventory') <= MAX_MARKS
  <2>1. CASE MarkCountExceeded
    BY <2>1 DEF TakeMark, TypeOK
  <2>2. CASE ~MarkCountExceeded
    <3>1. /\ Append(inventory, marks + 1) \in Seq(MarkNumbers)
          /\ Len(Append(inventory, marks + 1)) = Len(inventory) + 1
      BY <1>1, AppendProperties DEF TypeOK
    <3>2. Len(inUse) \in Nat /\ Len(inventory) \in Nat
      BY LenProperties DEF TypeOK
    <3>3. Len(inUse) + Len(inventory) < MAX_MARKS
      BY <2>2, <3>2, StreamAssumption DEF MarkCountExceeded
    <3>4. QED BY <2>2, <3>1, <3>2, <3>3, StreamAssumption DEF TakeMark
  <2>3. QED BY <2>1, <2>2
<1>3. marks' \in 0..MaxMarks
  BY <1>1, StreamAssumption DEF MarkNumbers
<1>4. TypeOK'
  BY <1>1, <1>2, <1>3, IdleType DEF TakeMark, TypeOK, sessionVars, audioVars, fileVars, histVars
<1>5. QED BY <1>1, <1>4, EndsMessage

LEMMA TakeClearMarksTypes == ASSUME Types, TakeClearMarks PROVE Types'
<1>1. cleared \o inUse \o inventory \in Seq(MarkNumbers)
  BY ConcatType DEF TypeOK
<1>2. <<>> \in Seq(MarkNumbers) /\ Len(<<>>) = 0
  BY EmptySeq
<1>3. TypeOK'
  BY SMTT(30), <1>1, <1>2, IdleType, StreamAssumption
     DEF TakeClearMarks, TypeOK, sessionVars, audioVars, fileVars
<1>4. QED BY <1>3, EndsMessage DEF TakeClearMarks

LEMMA TakeKillAudioTypes == ASSUME Types, TakeKillAudio PROVE Types'
<1>1. TypeOK'
  BY IdleType DEF TakeKillAudio, TypeOK, sessionVars, markVars, fileVars
<1>2. QED BY <1>1, EndsMessage DEF TakeKillAudio

\* The parts of a buffer that TakeBinary keeps and hands on.
LEMMA BinaryParts ==
  ASSUME NEW s \in Seq(Sample), factor \in {1, 2}
  PROVE  LET complete == (Len(s) \div factor) * factor
         IN /\ complete \in 0..Len(s)
            /\ SubSeq(s, 1, complete) \in Seq(Sample)
            /\ DropFirst(s, complete) \in Seq(Sample)
            /\ Resampled(complete) \subseteq Seq(Sample)
<1> DEFINE complete == (Len(s) \div factor) * factor
<1>1. Len(s) \in Nat
  BY LenProperties
<1>2. complete \in 0..Len(s)
  <2>1. CASE factor = 1
    BY <1>1, <2>1
  <2>2. CASE factor = 2
    BY <1>1, <2>2
  <2>3. QED BY <2>1, <2>2
<1>3. SubSeq(s, 1, complete) \in Seq(Sample) /\ DropFirst(s, complete) \in Seq(Sample)
  <2> HIDE DEF complete
  <2>1. QED BY <1>2, TakeType, DropType
<1>4. Resampled(complete) \subseteq Seq(Sample)
  <2>1. complete \div 2 \in Nat
    <3> HIDE DEF complete
    <3>1. complete \in Nat
      BY <1>1, <1>2
    <3>2. QED BY <3>1
  <2>2. {0, Genuine} \subseteq Sample
    BY StreamAssumption DEF Genuine, Sample
  <2> HIDE DEF complete
  <2>3. QED BY <2>1, <2>2, IsASeq DEF Resampled
<1>5. QED BY <1>2, <1>3, <1>4

LEMMA TakeBinaryTypes == ASSUME Types, TakeBinary PROVE Types'
<1> DEFINE buffer == pre \o inventory \o svc.data
           complete == (Len(buffer) \div factor) * factor
<1>1. buffer \in Seq(Sample) /\ factor \in {1, 2}
  BY SampleTypes, ConcatType DEF TypeOK
<1>2. /\ SubSeq(buffer, 1, complete) \in Seq(Sample)
      /\ DropFirst(buffer, complete) \in Seq(Sample)
      /\ Resampled(complete) \subseteq Seq(Sample)
  <2> HIDE DEF buffer
  <2>1. QED BY <1>1, BinaryParts
<1>3. LowMark * factor \in Nat
  <2>1. CASE factor = 1
    BY <2>1, StreamAssumption
  <2>2. CASE factor = 2
    BY <2>2, StreamAssumption
  <2>3. QED BY <1>1, <2>1, <2>2
<1>4. InUseNow \in Seq(MarkNumbers) /\ Len(InUseNow) = Len(inUse) + Len(inventory)
  BY ConcatType DEF TypeOK, InUseNow
<1>5. <<>> \in Seq(MarkNumbers) /\ Len(<<>>) = 0 /\ Len(InUseNow) \in Nat
  BY <1>4, EmptySeq, LenProperties
<1>6. Len(inUse') + Len(inventory') <= MAX_MARKS
  BY <1>4, <1>5, StreamAssumption DEF TypeOK, TakeBinary, NoneQueued
<1>7. /\ pre' \in Seq(Sample) /\ threshold' \in Nat
      /\ \/ svc' = Idle
         \/ \E out \in Seq(Sample) :
              svc' = [at |-> "push", msg |-> "binary", data |-> out,
                      left |-> DropFirst(buffer, complete)]
  <2>1. CASE Len(buffer) < threshold
    BY <1>1, <2>1 DEF TakeBinary, TypeOK
  <2>2. CASE ~(Len(buffer) < threshold)
    <3>1. pre' = SubSeq(buffer, 1, complete) /\ threshold' = LowMark * factor
      BY <2>2 DEF TakeBinary
    <3>2. PICK out \in IF factor = 1 THEN {pre'} ELSE Resampled(complete) :
            svc' = [at |-> "push", msg |-> "binary", data |-> out,
                    left |-> DropFirst(buffer, complete)]
      BY <2>2 DEF TakeBinary
    <3>3. out \in Seq(Sample)
      BY <1>2, <3>1
    <3>4. QED BY <1>2, <1>3, <3>1, <3>2, <3>3
  <2>3. QED BY <2>1, <2>2
<1>8. svc' \in [at : {"idle", "found", "push", "restore", "append"},
               msg : {"none", "mark", "clearMarks", "killAudio", "binary", "playAudio"},
               data : Seq(Sample), left : Seq(Sample)]
  <2> HIDE DEF complete, buffer
  <2>1. CASE svc' = Idle
    BY <2>1, IdleType
  <2>2. CASE \E out \in Seq(Sample) :
               svc' = [at |-> "push", msg |-> "binary", data |-> out,
                       left |-> DropFirst(buffer, complete)]
    BY <1>2, <2>2
  <2>3. QED BY <1>7, <2>1, <2>2
<1>9. disturbed' \in BOOLEAN
  BY DEF TakeBinary, TypeOK
<1>10. TypeOK'
  BY <1>4, <1>5, <1>6, <1>7, <1>8, <1>9 DEF TakeBinary, NoneQueued, TypeOK, sessionVars, fileVars
<1>11. Carried'
  <2> HIDE DEF complete, buffer
  <2>1. CASE svc' = Idle
    BY <2>1, EndsMessage
  <2>2. CASE svc'.at = "push"
    BY <2>2 DEF Carried, Handles
  <2>3. QED BY <1>7, <2>1, <2>2
<1>12. QED BY <1>10, <1>11

LEMMA UsesFreedBufferTypes == ASSUME Types, UsesFreedBuffer PROVE Types'
<1>1. TypeOK'
  BY IdleType DEF UsesFreedBuffer, TypeOK, sessionVars, markVars, audioVars, fileVars
<1>2. QED BY <1>1, EndsMessage DEF UsesFreedBuffer

LEMMA PushTypes == ASSUME Types, Push PROVE Types'
<1>1. playout' \in Seq(Sample) /\ <<>> \in Seq(Sample)
  BY ConcatType, EmptySeq DEF Push, TypeOK
<1>2. /\ svc' \in [at : {"idle", "found", "push", "restore", "append"},
               msg : {"none", "mark", "clearMarks", "killAudio", "binary", "playAudio"},
               data : Seq(Sample), left : Seq(Sample)]
      /\ svc'.at = "restore"
  BY <1>1 DEF Push, TypeOK
<1>3. TypeOK'
  BY <1>1, <1>2 DEF Push, TypeOK, sessionVars, markVars, fileVars, histVars
<1>4. QED BY <1>2, <1>3 DEF Carried, Handles

LEMMA RestoreTypes == ASSUME Types, Restore PROVE Types'
<1>1. TypeOK'
  BY IdleType DEF Restore, TypeOK, sessionVars, markVars, fileVars, histVars
<1>2. QED BY <1>1, EndsMessage DEF Restore

LEMMA BusyTypes == ASSUME Types, Busy PROVE Types'
<1>1. TypeOK'
  BY IdleType DEF Busy, Waiting, TypeOK, sessionVars, markVars, fileVars, histVars
<1>2. QED BY <1>1, EndsMessage DEF Busy

LEMMA WriteFileTypes == ASSUME Types, WriteFile PROVE Types'
<1>1. /\ written \in 0..MaxFiles /\ written < MaxFiles /\ written' = written + 1
      /\ MaxFiles \in Nat
  BY StreamAssumption DEF WriteFile, TypeOK, Carried
<1>2. /\ written' \in 0..MaxFiles /\ written' > 0 /\ written + 1 \in 1..written'
      /\ 1..written \subseteq 1..written'
  BY <1>1
<1>3. /\ onDisk' \subseteq 1..written' /\ files' \subseteq 1..written'
      /\ captured' \in [Cleaners -> SUBSET (1..written')]
  <2>1. captured \in [Cleaners -> SUBSET (1..written)] /\ captured' = captured
    BY DEF WriteFile, TypeOK
  <2>2. \A c \in Cleaners : captured[c] \subseteq 1..written'
    BY <1>2, <2>1
  <2>3. QED BY <1>2, <2>1, <2>2 DEF WriteFile, TypeOK
<1>4. /\ svc' \in [at : {"idle", "found", "push", "restore", "append"},
               msg : {"none", "mark", "clearMarks", "killAudio", "binary", "playAudio"},
               data : Seq(Sample), left : Seq(Sample)]
      /\ svc'.at = "append"
  BY DEF WriteFile, TypeOK
<1>5. TypeOK'
  BY <1>2, <1>3, <1>4 DEF WriteFile, TypeOK, sessionVars, markVars, audioVars, histVars
<1>6. QED BY <1>2, <1>4, <1>5 DEF Carried, Handles

LEMMA AppendFileTypes == ASSUME Types, AppendFile PROVE Types'
<1>1. written \in 1..written
  BY DEF AppendFile, TypeOK, Carried
<1>2. TypeOK'
  BY <1>1, IdleType
     DEF AppendFile, TypeOK, sessionVars, markVars, audioVars, histVars
<1>3. QED BY <1>2, EndsMessage DEF AppendFile

\* What a marker takes from the queues and reports.
LEMMA PassMarkersTypes ==
  ASSUME TypeOK, NEW n \in Nat, PassMarkers(n)
  PROVE  /\ cleared' \in Seq(MarkNumbers) /\ inUse' \in Seq(MarkNumbers)
         /\ reported' \in Seq(MarkNumbers)
         /\ Len(inUse') <= Len(inUse) /\ Len(inUse') \in Nat
<1> DEFINE silent == Least(n, Len(cleared))
           heard  == Least(n - silent, Len(inUse))
<1>1. Len(cleared) \in Nat /\ Len(inUse) \in Nat
  BY LenProperties DEF TypeOK
<1>2. silent \in 0..Len(cleared) /\ n - silent \in Nat
  BY <1>1 DEF Least
<1>3. heard \in 0..Len(inUse)
  <2> HIDE DEF silent
  <2>1. QED BY <1>1, <1>2, LeastType
<1> HIDE DEF silent, heard
<1>4. /\ cleared' = DropFirst(cleared, silent) /\ inUse' = DropFirst(inUse, heard)
      /\ reported' = reported \o SubSeq(inUse, 1, heard)
  BY DEF PassMarkers, silent, heard
<1>5. DropFirst(cleared, silent) \in Seq(MarkNumbers)
  BY <1>2, DropType DEF TypeOK
<1>6. DropFirst(inUse, heard) \in Seq(MarkNumbers) /\ Len(inUse') = Len(inUse) - heard
  <2>1. inUse \in Seq(MarkNumbers)
    BY DEF TypeOK
  <2>2. QED BY <1>3, <1>4, <2>1, DropType
<1>7. reported \o SubSeq(inUse, 1, heard) \in Seq(MarkNumbers)
  BY <1>3, TakeType, ConcatType DEF TypeOK
<1>8. QED BY <1>1, <1>3, <1>4, <1>5, <1>6, <1>7

\* What is mixed into a frame.
LEMMA TakenType ==
  ASSUME TypeOK
  PROVE  /\ Taken \in Seq(Sample) /\ Len(Taken) \in 0..Len(playout)
         /\ DropFirst(playout, Len(Taken)) \in Seq(Sample)
<1>1. Len(playout) \in Nat /\ FrameSize \in Nat
  BY LenProperties, StreamAssumption DEF TypeOK
<1>2. Least(Len(playout), FrameSize) \in 0..Len(playout)
  BY <1>1, LeastType
<1>3. Taken \in Seq(Sample) /\ Len(Taken) = Least(Len(playout), FrameSize)
  BY <1>2, TakeType DEF TypeOK, Taken
<1>4. QED BY <1>2, <1>3, DropType DEF TypeOK

LEMMA FrameTypes == ASSUME Types, Frame PROVE Types'
<1>1. playout' \in Seq(Sample)
  BY TakenType DEF Frame
<1>2. /\ cleared' \in Seq(MarkNumbers) /\ inUse' \in Seq(MarkNumbers)
      /\ inventory' \in Seq(MarkNumbers) /\ reported' \in Seq(MarkNumbers)
      /\ Len(inUse') + Len(inventory') <= MAX_MARKS
  <2>0. Len(inUse) \in Nat /\ Len(inventory) \in Nat /\ MAX_MARKS \in Nat
    BY LenProperties, StreamAssumption DEF TypeOK
  <2>1. CASE PassMarkers(NumMarkers(Taken)) /\ UNCHANGED inventory
    <3>1. NumMarkers(Taken) \in Nat
      BY TakenType, NumMarkersType
    <3>2. QED BY SMTT(30), <2>0, <2>1, <3>1, PassMarkersTypes DEF TypeOK
  <2>2. CASE inventory # <<>> /\ ReportUnplayed
    <3>1. /\ Head(inventory) \in MarkNumbers /\ Tail(inventory) \in Seq(MarkNumbers)
          /\ Len(Tail(inventory)) = Len(inventory) - 1
      BY <2>2, HeadTailProperties DEF TypeOK
    <3>2. Append(reported, Head(inventory)) \in Seq(MarkNumbers)
      BY <3>1, AppendProperties DEF TypeOK
    <3>3. QED BY <2>0, <2>2, <3>1, <3>2 DEF ReportUnplayed, TypeOK
  <2>3. CASE UNCHANGED <<inUse, cleared, inventory, reported>>
    BY <2>3 DEF TypeOK
  <2>4. QED BY <2>1, <2>2, <2>3 DEF Frame
<1>3. TypeOK'
  BY <1>1, <1>2 DEF Frame, TypeOK, sessionVars, fileVars, histVars
<1>4. QED BY <1>3 DEF Frame, Carried, Handles, fileVars

LEMMA ClearBufferTypes == ASSUME Types, ClearBuffer PROVE Types'
<1>1. reported \o inUse \o inventory \in Seq(MarkNumbers)
  BY ConcatType DEF TypeOK
<1>2. <<>> \in Seq(Sample)
  BY EmptySeq
<1>3. TypeOK'
  BY ZenonT(30), <1>1, <1>2 DEF ClearBuffer, TypeOK, sessionVars, fileVars, histVars
<1>4. QED BY <1>3 DEF ClearBuffer, Carried, Handles, fileVars

LEMMA ClearMarksTypes == ASSUME Types, ClearMarks PROVE Types'
<1>1. cleared \o inUse \in Seq(MarkNumbers)
  BY ConcatType DEF TypeOK
<1>2. <<>> \in Seq(MarkNumbers) /\ Len(<<>>) = 0
  BY EmptySeq
<1>3. TypeOK'
  BY <1>1, <1>2, StreamAssumption
     DEF ClearMarks, TypeOK, sessionVars, audioVars, fileVars, histVars
<1>4. QED BY <1>3 DEF ClearMarks, Carried, Handles, fileVars

LEMMA StopPlayTypes == ASSUME Types, StopPlay PROVE Types'
<1>1. <<>> \in Seq(Sample)
  BY EmptySeq
<1>2. TypeOK'
  BY <1>1 DEF StopPlay, TypeOK, sessionVars, markVars, fileVars
<1>3. QED BY <1>2 DEF StopPlay, Carried, Handles, markVars, fileVars

LEMMA ReadTypes == ASSUME Types, ReadLock \/ ReadUnlock PROVE Types'
<1>1. TypeOK'
  BY DEF ReadLock, ReadUnlock, TypeOK, sessionVars, markVars, audioVars, fileVars, histVars
<1>2. QED BY <1>1 DEF ReadLock, ReadUnlock, Carried, Handles, markVars, fileVars

\* The types, part by part.
MarkTypes ==
  /\ marks \in 0..MaxMarks
  /\ inventory \in Seq(MarkNumbers) /\ inUse \in Seq(MarkNumbers)
  /\ Len(inUse) + Len(inventory) <= MAX_MARKS
  /\ cleared \in Seq(MarkNumbers) /\ reported \in Seq(MarkNumbers)

SessionTypes ==
  /\ mode \in {"stream", "play"} /\ factor \in {1, 2}
  /\ attached \in BOOLEAN /\ alive \in BOOLEAN
  /\ disturbed \in BOOLEAN /\ faults \subseteq {"streamingPreBuffer"}

AudioTypes ==
  /\ pre \in Seq(Sample) /\ playout \in Seq(Sample)
  /\ threshold \in Nat /\ clearFlag \in BOOLEAN
  /\ mutex \in {"free", "read", "clear"}

CarriedTypes ==
  svc \in [at : {"idle", "found", "push", "restore", "append"},
           msg : {"none", "mark", "clearMarks", "killAudio", "binary", "playAudio"},
           data : Seq(Sample), left : Seq(Sample)]

FileTypes ==
  /\ written \in 0..MaxFiles /\ files \subseteq 1..written /\ onDisk \subseteq 1..written
  /\ captured \in [Cleaners -> SUBSET (1..written)]

CleanerPlaces ==
  cleaner \in [Cleaners -> {"idle", "found", "unlinked", "captured", "removing", "done"}]

AllTypes ==
  MarkTypes /\ SessionTypes /\ AudioTypes /\ CarriedTypes /\ FileTypes /\ CleanerPlaces

LEMMA TypeParts == (TypeOK <=> AllTypes) /\ (TypeOK' <=> AllTypes')
<1>1. TypeOK <=> AllTypes
  BY DEF TypeOK, AllTypes, MarkTypes, SessionTypes, AudioTypes, CarriedTypes, FileTypes,
         CleanerPlaces
<1>2. TypeOK' <=> AllTypes'
  BY DEF TypeOK, AllTypes, MarkTypes, SessionTypes, AudioTypes, CarriedTypes, FileTypes,
         CleanerPlaces
<1>3. QED BY <1>1, <1>2

LEMMA PartsKept ==
  /\ UNCHANGED markVars /\ MarkTypes => MarkTypes'
  /\ UNCHANGED <<sessionVars, histVars>> /\ SessionTypes => SessionTypes'
  /\ UNCHANGED <<audioVars, mutex>> /\ AudioTypes => AudioTypes'
  /\ UNCHANGED svc /\ CarriedTypes => CarriedTypes'
  /\ UNCHANGED fileVars /\ FileTypes => FileTypes'
<1>1. UNCHANGED markVars /\ MarkTypes => MarkTypes'
  BY DEF markVars, MarkTypes
<1>2. UNCHANGED <<sessionVars, histVars>> /\ SessionTypes => SessionTypes'
  BY DEF sessionVars, histVars, SessionTypes
<1>3. UNCHANGED <<audioVars, mutex>> /\ AudioTypes => AudioTypes'
  BY DEF audioVars, AudioTypes
<1>4. UNCHANGED svc /\ CarriedTypes => CarriedTypes'
  BY DEF CarriedTypes
<1>5. UNCHANGED fileVars /\ FileTypes => FileTypes'
  BY DEF fileVars, FileTypes
<1>6. QED BY <1>1, <1>2, <1>3, <1>4, <1>5

LEMMA CarriedKept ==
  ASSUME Carried, UNCHANGED <<marks, written, svc>>
  PROVE  Carried'
  BY DEF Carried, Handles

LEMMA CleanerTypes ==
  ASSUME Types, NEW c \in Cleaners, FindBug(c) \/ CleanerStep(c)
  PROVE  Types'
<1>1. AllTypes /\ Carried
  BY TypeParts DEF Types
<1>2. CleanerPlaces'
  BY <1>1 DEF FindBug, CleanerStep, Unlink, Capture, Destroy, RemoveFiles, Moves,
              AllTypes, CleanerPlaces
<1>3. UNCHANGED <<svc, marks, written>> /\ CarriedTypes'
  <2>1. UNCHANGED <<svc, marks, written>>
    BY DEF FindBug, CleanerStep, Unlink, Capture, Destroy, RemoveFiles, markVars, fileVars
  <2>2. QED BY <1>1, <2>1, PartsKept DEF AllTypes
<1>4. Carried'
  BY <1>1, <1>3, CarriedKept
<1>5. MarkTypes' /\ AudioTypes'
  <2>1. CASE UNCHANGED <<markVars, audioVars, mutex>>
    BY <1>1, <2>1, PartsKept DEF AllTypes
  <2>2. CASE Destroy(c)
    <3>1. /\ <<>> \in Seq(MarkNumbers) /\ <<>> \in Seq(Sample)
          /\ Len(<<>>) + Len(<<>>) <= MAX_MARKS
      BY EmptySeq, StreamAssumption
    <3>2. MarkTypes'
      BY <1>1, <2>2, <3>1 DEF Destroy, AllTypes, MarkTypes
    <3>3. AudioTypes'
      BY <1>1, <2>2, <3>1 DEF Destroy, AllTypes, AudioTypes
    <3>4. QED BY <3>2, <3>3
  <2>3. QED BY <2>1, <2>2 DEF FindBug, CleanerStep, Unlink, Capture, RemoveFiles
<1>6. SessionTypes'
  <2>1. CASE UNCHANGED <<sessionVars, histVars>>
    BY <1>1, <2>1, PartsKept DEF AllTypes
  <2>2. CASE Unlink(c) \/ Destroy(c)
    BY <1>1, <2>2 DEF Unlink, Destroy, histVars, AllTypes, SessionTypes
  <2>3. QED BY <2>1, <2>2 DEF FindBug, CleanerStep, Capture, RemoveFiles
<1>7. FileTypes'
  <2>1. CASE UNCHANGED fileVars
    BY <1>1, <2>1, PartsKept DEF AllTypes
  <2>2. CASE Capture(c)
    BY <1>1, <2>2 DEF Capture, Reset, AllTypes, FileTypes
  <2>3. CASE RemoveFiles(c)
    BY <1>1, <2>3 DEF RemoveFiles, AllTypes, FileTypes
  <2>4. QED BY <2>1, <2>2, <2>3 DEF FindBug, CleanerStep, Unlink, Destroy
<1>8. QED BY <1>2, <1>3, <1>4, <1>5, <1>6, <1>7, TypeParts DEF Types, AllTypes

LEMMA NextTypes == ASSUME Types, [Next]_vars PROVE Types'
<1>1. CASE Receive
  BY <1>1, ReceiveTypes
<1>2. CASE ServiceStep
  BY <1>2, TakeMarkTypes, TakeClearMarksTypes, TakeKillAudioTypes, TakeBinaryTypes,
     UsesFreedBufferTypes, PushTypes, RestoreTypes, BusyTypes, WriteFileTypes,
     AppendFileTypes DEF ServiceStep
<1>3. CASE ReadLock \/ ReadUnlock \/ DubStep \/ ClearMarks \/ StopPlay
  BY <1>3, ReadTypes, FrameTypes, ClearBufferTypes, ClearMarksTypes, StopPlayTypes
     DEF DubStep
<1>4. CASE \E c \in Cleaners : FindBug(c) \/ CleanerStep(c)
  BY <1>4, CleanerTypes
<1>5. CASE UNCHANGED vars
  BY <1>5 DEF vars, sessionVars, markVars, audioVars, fileVars, histVars, TypeOK,
              Carried, Handles
<1>6. QED BY <1>1, <1>2, <1>3, <1>4, <1>5 DEF Next

\* lws_glue.cpp: the queues of marks never hold more than MAX_MARKS together,
\* and every buffer, list and program counter keeps its type.
THEOREM TypeCorrect == Spec => []TypeOK
<1>1. Spec => []Types
  BY InitTypes, NextTypes, PTL DEF Spec
<1>2. Types => TypeOK
  OBVIOUS
<1>3. QED BY <1>1, <1>2, PTL

-----------------------------------------------------------------------------
(* The list of files is taken over once.                                   *)

\* A file that is being announced is in no list yet.
Fresh == svc.at = "append" => /\ written \notin files
                              /\ \A c \in Cleaners : written \notin captured[c]
FilesInv == Types /\ CapturedOnce /\ Fresh

LEMMA InitFiles == Init => FilesInv
<1> SUFFICES ASSUME Init PROVE FilesInv
  OBVIOUS
<1>1. CapturedOnce
  BY DEF Init, CapturedOnce
<1>2. Fresh
  BY IdleType DEF Init, Fresh
<1>3. QED BY <1>1, <1>2, InitTypes DEF FilesInv

\* A step that leaves the lists alone and announces nothing.
LEMMA ListsUntouched ==
  ASSUME FilesInv, Types', UNCHANGED <<files, captured, written>>,
         svc'.at = "append" => svc.at = "append"
  PROVE  FilesInv'
  BY DEF FilesInv, CapturedOnce, Fresh

LEMMA NextFiles == ASSUME FilesInv, [Next]_vars PROVE FilesInv'
<1>0. Types'
  BY NextTypes DEF FilesInv
<1>1. CASE Receive
  <2>1. UNCHANGED <<files, captured, written>> /\ svc'.at = "found"
    BY <1>1 DEF Receive, Receives, Idle, fileVars
  <2>2. QED BY <1>0, <2>1, ListsUntouched
<1>2. CASE WriteFile
  <2>1. written' = written + 1 /\ files' = files /\ captured' = captured
    BY <1>2 DEF WriteFile
  <2>2. /\ written \in Nat /\ files \subseteq 1..written
        /\ \A c \in Cleaners : captured[c] \subseteq 1..written
    BY DEF FilesInv, TypeOK
  <2>3. written + 1 \notin 1..written
    BY <2>2
  <2>4. QED BY <1>0, <2>1, <2>2, <2>3 DEF FilesInv, CapturedOnce, Fresh
<1>3. CASE AppendFile
  <2>1. files' = files \cup {written} /\ captured' = captured /\ svc.at = "append"
    BY <1>3 DEF AppendFile
  <2>2. svc'.at = "idle"
    BY <1>3, IdleType DEF AppendFile
  <2>3. QED BY <1>0, <2>1, <2>2 DEF FilesInv, CapturedOnce, Fresh
<1>4. CASE TakeMark \/ TakeClearMarks \/ TakeKillAudio \/ UsesFreedBuffer \/ Restore \/ Busy
  <2>1. UNCHANGED <<files, captured, written>> /\ svc'.at = "idle"
    BY <1>4, IdleType
       DEF TakeMark, TakeClearMarks, TakeKillAudio, UsesFreedBuffer, Restore, Busy, fileVars
  <2>2. QED BY <1>0, <2>1, ListsUntouched
<1>5. CASE TakeBinary
  <2>1. UNCHANGED <<files, captured, written>>
    BY <1>5 DEF TakeBinary, fileVars
  <2>2. svc'.at \in {"idle", "push"}
    <3>1. svc' = Idle \/ \E d, l : svc' = [at |-> "push", msg |-> "binary",
                                          data |-> d, left |-> l]
      BY <1>5, Zenon DEF TakeBinary
    <3>2. QED BY <3>1, IdleType
  <2>3. QED BY <1>0, <2>1, <2>2, ListsUntouched
<1>6. CASE Push
  <2>1. UNCHANGED <<files, captured, written>> /\ svc'.at = "restore"
    BY <1>6 DEF Push, fileVars, FilesInv, TypeOK
  <2>2. QED BY <1>0, <2>1, ListsUntouched
<1>7. CASE ReadLock \/ ReadUnlock \/ DubStep \/ ClearMarks \/ StopPlay
  <2>1. UNCHANGED <<files, captured, written, svc>>
    BY <1>7
       DEF ReadLock, ReadUnlock, DubStep, Frame, ClearBuffer, ClearMarks, StopPlay, fileVars
  <2>2. QED BY <1>0, <2>1, ListsUntouched
<1>8. ASSUME NEW c \in Cleaners, FindBug(c) \/ Unlink(c) \/ Destroy(c) \/ RemoveFiles(c)
      PROVE  FilesInv'
  <2>1. UNCHANGED <<files, captured, written, svc>>
    BY <1>8 DEF FindBug, Unlink, Destroy, RemoveFiles, fileVars
  <2>2. QED BY <1>0, <2>1, ListsUntouched
<1>9. ASSUME NEW c \in Cleaners, Capture(c)
      PROVE  FilesInv'
  <2>1. /\ captured' = [captured EXCEPT ![c] = files] /\ files' = {}
        /\ written' = written /\ svc' = svc
    BY <1>9 DEF Capture, Reset
  <2>2. captured \in [Cleaners -> SUBSET (1..written)]
    BY DEF FilesInv, TypeOK
  <2>3. \A d \in Cleaners : captured'[d] = IF d = c THEN files ELSE captured[d]
    BY <2>1, <2>2
  <2>4. CapturedOnce'
    BY <2>1, <2>3 DEF FilesInv, CapturedOnce
  <2>5. Fresh'
    BY <2>1, <2>3 DEF FilesInv, Fresh
  <2>6. QED BY <1>0, <2>4, <2>5 DEF FilesInv
<1>10. CASE UNCHANGED vars
  <2>1. UNCHANGED <<files, captured, written, svc>>
    BY <1>10 DEF vars, fileVars
  <2>2. QED BY <1>0, <2>1, ListsUntouched
<1>11. QED BY <1>1, <1>2, <1>3, <1>4, <1>5, <1>6, <1>7, <1>8, <1>9, <1>10
           DEF Next, ServiceStep, CleanerStep

\* lws_glue.cpp, fork_session_cleanup: no temporary file is in two lists.
THEOREM CapturedOnceHolds == Spec => []CapturedOnce
<1>1. Spec => []FilesInv
  BY InitFiles, NextFiles, PTL DEF Spec
<1>2. FilesInv => CapturedOnce
  BY DEF FilesInv
<1>3. QED BY <1>1, <1>2, PTL

-----------------------------------------------------------------------------
(* The order of the reports.                                               *)

Increasing(s) == \A i, j \in 1..Len(s) : i < j => s[i] < s[j]
Before(s, t) == \A i \in 1..Len(s), j \in 1..Len(t) : s[i] < t[j]
UpTo(s, n) == \A i \in 1..Len(s) : s[i] <= n

\* The queues are in order of arrival, one behind the other, and what was
\* reported is before both; only while killAudio's clearing is between its two
\* halves are marks reported that are still queued.
Order ==
  /\ Increasing(reported) /\ Increasing(inUse) /\ Increasing(inventory)
  /\ Before(inUse, inventory)
  /\ UpTo(reported, marks) /\ UpTo(inUse, marks) /\ UpTo(inventory, marks)
  /\ mutex # "clear" => Before(reported, inUse) /\ Before(reported, inventory)

OrderInv == Types /\ Order

LEMMA MarkValues ==
  ASSUME NEW s \in Seq(MarkNumbers)
  PROVE  Len(s) \in Nat /\ \A i \in 1..Len(s) : s[i] \in Nat
<1>1. Len(s) \in Nat /\ \A i \in 1..Len(s) : s[i] \in MarkNumbers
  BY LenProperties
<1>2. MarkNumbers \subseteq Nat
  BY StreamAssumption DEF MarkNumbers
<1>3. QED BY <1>1, <1>2

LEMMA ConcatOrder ==
  ASSUME NEW s \in Seq(MarkNumbers), NEW t \in Seq(MarkNumbers)
  PROVE  /\ Increasing(s) /\ Increasing(t) /\ Before(s, t) => Increasing(s \o t)
         /\ \A n : UpTo(s, n) /\ UpTo(t, n) => UpTo(s \o t, n)
         /\ \A u \in Seq(MarkNumbers) :
              /\ Before(s, u) /\ Before(t, u) => Before(s \o t, u)
              /\ Before(u, s) /\ Before(u, t) => Before(u, s \o t)
<1>1. /\ Len(s) \in Nat /\ Len(t) \in Nat /\ Len(s \o t) = Len(s) + Len(t)
      /\ \A i \in 1..Len(s) + Len(t) :
           (s \o t)[i] = IF i <= Len(s) THEN s[i] ELSE t[i - Len(s)]
  BY MarkValues, ConcatType
<1>2. \A i \in 1..Len(s) + Len(t) : ~(i <= Len(s)) => i - Len(s) \in 1..Len(t)
  BY <1>1
<1>3. \A i \in 1..Len(s) + Len(t) : i <= Len(s) => i \in 1..Len(s)
  BY <1>1
<1>4. Increasing(s) /\ Increasing(t) /\ Before(s, t) => Increasing(s \o t)
  <2> SUFFICES ASSUME Increasing(s), Increasing(t), Before(s, t),
                      NEW i \in 1..(Len(s) + Len(t)), NEW j \in 1..(Len(s) + Len(t)), i < j
               PROVE  (s \o t)[i] < (s \o t)[j]
    BY <1>1 DEF Increasing
  <2>1. CASE j <= Len(s)
    <3>1. i <= Len(s)
      BY <1>1, <2>1
    <3>2. QED BY <1>1, <1>3, <2>1, <3>1 DEF Increasing
  <2>2. CASE i <= Len(s) /\ ~(j <= Len(s))
    BY <1>1, <1>2, <1>3, <2>2 DEF Before
  <2>3. CASE ~(i <= Len(s)) /\ ~(j <= Len(s))
    <3>1. i - Len(s) < j - Len(s)
      BY <1>1
    <3>2. QED BY <1>1, <1>2, <2>3, <3>1 DEF Increasing
  <2>4. ~(i <= Len(s)) => ~(j <= Len(s))
    BY <1>1
  <2>5. QED BY <2>1, <2>2, <2>3, <2>4
<1>5. \A n : UpTo(s, n) /\ UpTo(t, n) => UpTo(s \o t, n)
  BY <1>1, <1>2, <1>3 DEF UpTo
<1>6. ASSUME NEW u \in Seq(MarkNumbers)
      PROVE  /\ Before(s, u) /\ Before(t, u) => Before(s \o t, u)
             /\ Before(u, s) /\ Before(u, t) => Before(u, s \o t)
  BY <1>1, <1>2, <1>3 DEF Before
<1>7. QED BY <1>4, <1>5, <1>6

LEMMA SplitOrder ==
  ASSUME NEW s \in Seq(MarkNumbers), NEW n \in 0..Len(s), Increasing(s)
  PROVE  /\ Increasing(SubSeq(s, 1, n)) /\ Increasing(DropFirst(s, n))
         /\ Before(SubSeq(s, 1, n), DropFirst(s, n))
         /\ \A m : UpTo(s, m) => UpTo(SubSeq(s, 1, n), m) /\ UpTo(DropFirst(s, n), m)
         /\ \A u \in Seq(MarkNumbers) :
              /\ Before(s, u) => Before(SubSeq(s, 1, n), u) /\ Before(DropFirst(s, n), u)
              /\ Before(u, s) => Before(u, SubSeq(s, 1, n)) /\ Before(u, DropFirst(s, n))
<1> DEFINE front == SubSeq(s, 1, n)
           back  == DropFirst(s, n)
<1>1. /\ Len(s) \in Nat /\ Len(front) = n /\ Len(back) = Len(s) - n
      /\ \A i \in 1..n : front[i] = s[i]
      /\ \A i \in 1..(Len(s) - n) : back[i] = s[i + n]
  BY MarkValues, TakeType, DropType
<1>2. /\ \A i \in 1..n : i \in 1..Len(s)
      /\ \A i \in 1..(Len(s) - n) : i + n \in 1..Len(s) /\ \A j \in 1..n : j < i + n
  BY <1>1
<1> HIDE DEF front, back
<1>3. Increasing(front) /\ Increasing(back) /\ Before(front, back)
  <2>1. Increasing(front)
    BY <1>1, <1>2 DEF Increasing
  <2>2. Increasing(back)
    <3> SUFFICES ASSUME NEW i \in 1..(Len(s) - n), NEW j \in 1..(Len(s) - n), i < j
                 PROVE  back[i] < back[j]
      BY <1>1 DEF Increasing
    <3>1. i + n < j + n
      BY <1>1
    <3>2. QED BY <1>1, <1>2, <3>1 DEF Increasing
  <2>3. Before(front, back)
    BY <1>1, <1>2 DEF Increasing, Before
  <2>4. QED BY <2>1, <2>2, <2>3
<1>4. \A m : UpTo(s, m) => UpTo(front, m) /\ UpTo(back, m)
  BY <1>1, <1>2 DEF UpTo
<1>5. ASSUME NEW u \in Seq(MarkNumbers)
      PROVE  /\ Before(s, u) => Before(front, u) /\ Before(back, u)
             /\ Before(u, s) => Before(u, front) /\ Before(u, back)
  BY <1>1, <1>2 DEF Before
<1>6. QED BY <1>3, <1>4, <1>5 DEF front, back

LEMMA EmptyOrder ==
  /\ <<>> \in Seq(MarkNumbers) /\ Increasing(<<>>)
  /\ \A s : Before(s, <<>>) /\ Before(<<>>, s)
  /\ \A n : UpTo(<<>>, n)
<1>1. Len(<<>>) = 0 /\ <<>> \in Seq(MarkNumbers)
  BY EmptySeq
<1>2. QED BY <1>1 DEF Increasing, Before, UpTo

LEMMA InitOrder == Init => OrderInv
<1> SUFFICES ASSUME Init PROVE OrderInv
  OBVIOUS
<1>1. inventory = <<>> /\ inUse = <<>> /\ reported = <<>>
  BY DEF Init
<1>2. Order
  BY <1>1, EmptyOrder, Zenon DEF Order
<1>3. QED BY <1>2, InitTypes DEF OrderInv

\* A step that leaves the queues, the reports and the mutex alone.
LEMMA QueuesUntouched ==
  ASSUME OrderInv, Types', UNCHANGED <<markVars, mutex>>
  PROVE  OrderInv'
  BY DEF OrderInv, Order, Increasing, Before, UpTo, markVars

\* A step that empties the queues without a report.
LEMMA QueuesEmptied ==
  ASSUME OrderInv, Types', inUse' = <<>>, inventory' = <<>>,
         reported' = reported, marks' = marks
  PROVE  OrderInv'
<1>1. Increasing(reported)' /\ UpTo(reported, marks)'
  BY DEF OrderInv, Order, Increasing, UpTo
<1>2. /\ Increasing(inUse)' /\ Increasing(inventory)' /\ Before(inUse, inventory)'
      /\ UpTo(inUse, marks)' /\ UpTo(inventory, marks)'
      /\ Before(reported, inUse)' /\ Before(reported, inventory)'
  BY EmptyOrder DEF Increasing, Before, UpTo
<1>3. QED BY <1>1, <1>2, Zenon DEF OrderInv, Order

LEMMA QueueTypes ==
  ASSUME Types
  PROVE  /\ reported \in Seq(MarkNumbers) /\ inUse \in Seq(MarkNumbers)
         /\ inventory \in Seq(MarkNumbers) /\ marks \in Nat
  BY StreamAssumption DEF TypeOK

LEMMA TakeMarkOrder == ASSUME OrderInv, Types', TakeMark PROVE OrderInv'
<1>1. /\ reported \in Seq(MarkNumbers) /\ inUse \in Seq(MarkNumbers)
      /\ inventory \in Seq(MarkNumbers) /\ marks \in Nat
  BY QueueTypes DEF OrderInv
<1>2. /\ reported' = reported /\ inUse' = inUse /\ mutex' = mutex /\ marks' = marks + 1
      /\ inventory' \in {inventory, Append(inventory, marks + 1)}
  BY DEF TakeMark
<1>3. /\ Increasing(reported) /\ Increasing(inUse) /\ Increasing(inventory)
      /\ Before(inUse, inventory)
      /\ UpTo(reported, marks) /\ UpTo(inUse, marks) /\ UpTo(inventory, marks)
      /\ mutex # "clear" => Before(reported, inUse) /\ Before(reported, inventory)
  BY DEF OrderInv, Order
<1>4. /\ Len(reported) \in Nat /\ \A i \in 1..Len(reported) : reported[i] \in Nat
      /\ Len(inUse) \in Nat /\ \A i \in 1..Len(inUse) : inUse[i] \in Nat
      /\ Len(inventory) \in Nat /\ \A i \in 1..Len(inventory) : inventory[i] \in Nat
  BY <1>1, MarkValues
<1>5. /\ UpTo(reported, marks + 1) /\ UpTo(inUse, marks + 1) /\ UpTo(inventory, marks + 1)
  BY <1>1, <1>3, <1>4 DEF UpTo
<1>6. CASE inventory' = inventory
  BY <1>2, <1>3, <1>5, <1>6 DEF OrderInv, Order, Increasing, Before, UpTo
<1>7. CASE inventory' = Append(inventory, marks + 1)
  <2> DEFINE new == Append(inventory, marks + 1)
  <2>1. /\ Len(new) = Len(inventory) + 1
        /\ \A i \in 1..Len(inventory) : new[i] = inventory[i]
        /\ new[Len(inventory) + 1] = marks + 1
    BY <1>1, AppendProperties
  <2>2. \A i \in 1..Len(new) : i \in 1..Len(inventory) \/ i = Len(inventory) + 1
    BY <1>4, <2>1
  <2>3. /\ \A i \in 1..Len(reported) : reported[i] < marks + 1
        /\ \A i \in 1..Len(inUse) : inUse[i] < marks + 1
        /\ \A i \in 1..Len(inventory) : inventory[i] < marks + 1
    BY <1>1, <1>3, <1>4 DEF UpTo
  <2> HIDE DEF new
  <2>4. Increasing(new)
    <3>1. \A i, j \in 1..Len(new) : i < j => i \in 1..Len(inventory)
      BY <1>4, <2>1, <2>2
    <3>2. QED BY <1>3, <2>1, <2>2, <2>3, <3>1 DEF Increasing
  <2>5. UpTo(new, marks + 1)
    BY <1>1, <1>5, <2>1, <2>2 DEF UpTo
  <2>6. /\ Before(inUse, new)
        /\ Before(reported, inventory) => Before(reported, new)
    BY <1>3, <2>1, <2>2, <2>3 DEF Before
  <2>7. inventory' = new
    BY <1>7 DEF new
  <2>8. /\ Increasing(reported)' /\ Increasing(inUse)' /\ Before(inUse, inventory)'
        /\ UpTo(reported, marks)' /\ UpTo(inUse, marks)'
    BY <1>2, <1>3, <1>5, <2>6, <2>7 DEF Increasing, Before, UpTo
  <2>9. Increasing(inventory)' /\ UpTo(inventory, marks)'
    BY <1>2, <2>4, <2>5, <2>7 DEF Increasing, UpTo
  <2>10. (mutex # "clear" => Before(reported, inUse) /\ Before(reported, inventory))'
    BY <1>2, <1>3, <2>6, <2>7 DEF Before
  <2>11. QED BY <2>8, <2>9, <2>10 DEF OrderInv, Order
<1>8. QED BY <1>2, <1>6, <1>7

LEMMA TakeBinaryOrder == ASSUME OrderInv, Types', TakeBinary PROVE OrderInv'
<1>1. /\ inUse' = inUse \o inventory /\ inventory' = <<>>
      /\ UNCHANGED <<reported, marks, mutex>>
  BY DEF TakeBinary, NoneQueued, InUseNow
<1>2. /\ reported \in Seq(MarkNumbers) /\ inUse \in Seq(MarkNumbers)
      /\ inventory \in Seq(MarkNumbers)
  BY QueueTypes DEF OrderInv
<1>3. /\ Increasing(inUse \o inventory) /\ UpTo(inUse \o inventory, marks)
      /\ mutex # "clear" => Before(reported, inUse \o inventory)
  BY <1>2, ConcatOrder DEF OrderInv, Order
<1>4. /\ Before(inUse \o inventory, <<>>) /\ Before(reported, <<>>)
      /\ Increasing(<<>>) /\ UpTo(<<>>, marks)
  BY EmptyOrder
<1>5. QED BY <1>1, <1>3, <1>4 DEF OrderInv, Order, Increasing, Before, UpTo

\* The first marks in use leave the queue as they are reported.
LEMMA FrameOrder == ASSUME OrderInv, Types', Frame PROVE OrderInv'
<1>1. /\ reported \in Seq(MarkNumbers) /\ inUse \in Seq(MarkNumbers)
      /\ inventory \in Seq(MarkNumbers) /\ marks' = marks /\ mutex' = mutex
      /\ mutex # "clear"
  BY QueueTypes DEF OrderInv, Frame
<1>2. /\ Increasing(reported) /\ Increasing(inUse) /\ Increasing(inventory)
      /\ Before(inUse, inventory) /\ Before(reported, inUse) /\ Before(reported, inventory)
      /\ UpTo(reported, marks) /\ UpTo(inUse, marks) /\ UpTo(inventory, marks)
  BY <1>1 DEF OrderInv, Order
<1>3. CASE PassMarkers(NumMarkers(Taken)) /\ UNCHANGED inventory
  <2> DEFINE silent == Least(NumMarkers(Taken), Len(cleared))
             heard  == Least(NumMarkers(Taken) - silent, Len(inUse))
             front  == SubSeq(inUse, 1, heard)
             back   == DropFirst(inUse, heard)
  <2>1. heard \in 0..Len(inUse)
    <3>1. NumMarkers(Taken) \in Nat
      BY TakenType, NumMarkersType DEF OrderInv
    <3>2. Len(cleared) \in Nat /\ Len(inUse) \in Nat
      BY LenProperties DEF OrderInv, TypeOK
    <3>3. NumMarkers(Taken) - silent \in Nat
      BY <3>1, <3>2 DEF Least
    <3> HIDE DEF silent
    <3>4. QED BY <3>2, <3>3, LeastType
  <2>2. reported' = reported \o front /\ inUse' = back /\ inventory' = inventory
    BY <1>3 DEF PassMarkers
  <2> HIDE DEF heard
  <2>3. front \in Seq(MarkNumbers) /\ back \in Seq(MarkNumbers)
    BY <1>1, <2>1, TakeType, DropType
  <2>4. /\ Increasing(front) /\ Increasing(back) /\ Before(front, back)
        /\ UpTo(front, marks) /\ UpTo(back, marks)
        /\ Before(front, inventory) /\ Before(back, inventory)
        /\ Before(reported, front) /\ Before(reported, back)
    BY <1>1, <1>2, <2>1, SplitOrder
  <2> HIDE DEF front, back
  <2>5. /\ Increasing(reported \o front) /\ UpTo(reported \o front, marks)
        /\ Before(reported \o front, back) /\ Before(reported \o front, inventory)
    BY <1>1, <1>2, <2>3, <2>4, ConcatOrder
  <2>6. QED BY <1>1, <1>2, <2>2, <2>4, <2>5
             DEF OrderInv, Order, Increasing, Before, UpTo
<1>4. CASE ~HasMarkers /\ inventory # <<>> /\ ReportUnplayed
  <2> DEFINE new == Append(reported, Head(inventory))
             rest == Tail(inventory)
  <2>1. /\ reported' = new /\ inventory' = rest /\ inUse' = inUse
    BY <1>4 DEF ReportUnplayed
  <2>2. Len(inUse) = 0
    <3>1. Len(inUse) \in Nat /\ Len(cleared) \in Nat
      BY LenProperties DEF OrderInv, TypeOK
    <3>2. QED BY <1>4, <3>1 DEF HasMarkers
  <2>3. /\ Head(inventory) = inventory[1] /\ Head(inventory) \in MarkNumbers
        /\ Len(rest) = Len(inventory) - 1 /\ Len(inventory) \in Nat /\ Len(inventory) > 0
        /\ \A i \in 1..Len(rest) : rest[i] = inventory[i + 1]
    BY <1>1, <1>4, HeadTailProperties, EmptySeq, LenProperties
  <2>4. /\ Len(new) = Len(reported) + 1 /\ Len(reported) \in Nat
        /\ \A i \in 1..Len(reported) : new[i] = reported[i]
        /\ new[Len(reported) + 1] = inventory[1]
    BY <1>1, <2>3, AppendProperties, MarkValues
  <2>5. /\ \A i \in 1..Len(new) : i \in 1..Len(reported) \/ i = Len(reported) + 1
        /\ 1 \in 1..Len(inventory)
        /\ \A i \in 1..Len(rest) : i + 1 \in 1..Len(inventory) /\ 1 < i + 1
    BY <2>3, <2>4
  <2> HIDE DEF new, rest
  <2>6. Increasing(new)
    <3>1. \A i \in 1..Len(reported) : reported[i] < inventory[1]
      BY <1>2, <2>5 DEF Before
    <3>2. \A i, j \in 1..Len(new) : i < j => i \in 1..Len(reported)
      BY <2>4, <2>5
    <3>3. QED BY <1>2, <2>4, <2>5, <3>1, <3>2 DEF Increasing
  <2>7. Increasing(rest) /\ UpTo(rest, marks) /\ UpTo(new, marks)
    <3>1. \A i, j \in 1..Len(rest) : i < j => i + 1 < j + 1
      BY <2>3
    <3>2. Increasing(rest)
      BY <1>2, <2>3, <2>5, <3>1 DEF Increasing
    <3>3. QED BY <1>2, <2>3, <2>4, <2>5, <3>2 DEF UpTo
  <2>8. Before(new, rest)
    <3>1. ASSUME NEW i \in 1..Len(new), NEW j \in 1..Len(rest)
          PROVE  new[i] < rest[j]
      <4>1. CASE i \in 1..Len(reported)
        BY <1>2, <2>3, <2>4, <2>5, <4>1 DEF Before
      <4>2. CASE i = Len(reported) + 1
        BY <1>2, <2>3, <2>4, <2>5, <4>2 DEF Increasing
      <4>3. QED BY <2>5, <4>1, <4>2
    <3>2. QED BY <3>1 DEF Before
  <2>9. Before(new, inUse) /\ Before(inUse, rest)
    BY <2>2 DEF Before
  <2>10. QED BY <1>1, <1>2, <2>1, <2>6, <2>7, <2>8, <2>9
              DEF OrderInv, Order, Increasing, Before, UpTo
<1>5. CASE UNCHANGED <<inUse, cleared, inventory, reported>>
  BY <1>1, <1>5, QueuesUntouched DEF markVars
<1>6. QED BY <1>3, <1>4, <1>5 DEF Frame

LEMMA ClearBufferOrder == ASSUME OrderInv, Types', ClearBuffer PROVE OrderInv'
<1>1. /\ reported \in Seq(MarkNumbers) /\ inUse \in Seq(MarkNumbers)
      /\ inventory \in Seq(MarkNumbers) /\ mutex # "clear"
      /\ UNCHANGED <<marks, inventory, inUse>>
      /\ reported' = (reported \o inUse) \o inventory
      /\ mutex' # "clear" => Len(inUse) + Len(inventory) <= 0
  <2>1. Len(inUse) \in Nat /\ Len(inventory) \in Nat
    BY LenProperties DEF OrderInv, TypeOK
  <2>2. QED BY <2>1, QueueTypes DEF OrderInv, ClearBuffer
<1>2. /\ Increasing(reported) /\ Increasing(inUse) /\ Increasing(inventory)
      /\ Before(inUse, inventory) /\ Before(reported, inUse) /\ Before(reported, inventory)
      /\ UpTo(reported, marks) /\ UpTo(inUse, marks) /\ UpTo(inventory, marks)
  BY <1>1 DEF OrderInv, Order
<1>3. /\ reported \o inUse \in Seq(MarkNumbers)
      /\ Increasing(reported \o inUse) /\ UpTo(reported \o inUse, marks)
      /\ Before(reported \o inUse, inventory)
  BY <1>1, <1>2, ConcatType, ConcatOrder
<1>4. Increasing((reported \o inUse) \o inventory) /\ UpTo((reported \o inUse) \o inventory, marks)
  BY <1>1, <1>2, <1>3, ConcatOrder
<1>5. mutex' # "clear" => Len(inUse) = 0 /\ Len(inventory) = 0
  BY <1>1, MarkValues
<1>6. QED BY SMTT(30), <1>1, <1>2, <1>4, <1>5 DEF OrderInv, Order, Increasing, Before, UpTo

LEMMA NextOrder == ASSUME OrderInv, [Next]_vars PROVE OrderInv'
<1>0. Types'
  BY NextTypes DEF OrderInv
<1>1. CASE TakeMark
  BY <1>0, <1>1, TakeMarkOrder
<1>2. CASE TakeClearMarks
  <2>1. inUse' = <<>> /\ inventory' = <<>> /\ reported' = reported /\ marks' = marks
    BY <1>2 DEF TakeClearMarks
  <2>2. QED BY <1>0, <2>1, QueuesEmptied
<1>3. CASE TakeBinary
  BY <1>0, <1>3, TakeBinaryOrder
<1>4. CASE Frame
  BY <1>0, <1>4, FrameOrder
<1>5. CASE ClearBuffer
  BY <1>0, <1>5, ClearBufferOrder
<1>6. CASE ClearMarks
  <2>1. inUse' = <<>> /\ inventory' = <<>> /\ reported' = reported /\ marks' = marks
    BY <1>6 DEF ClearMarks
  <2>2. QED BY <1>0, <2>1, QueuesEmptied
<1>7. CASE ReadLock
  <2>1. UNCHANGED markVars /\ mutex # "clear"
    BY <1>7 DEF ReadLock
  <2>2. QED BY <1>0, <2>1 DEF OrderInv, Order, Increasing, Before, UpTo, markVars
<1>8. CASE ReadUnlock
  <2>1. UNCHANGED markVars /\ mutex # "clear"
    BY <1>8 DEF ReadUnlock
  <2>2. QED BY <1>0, <2>1 DEF OrderInv, Order, Increasing, Before, UpTo, markVars
<1>9. CASE Receive \/ StopPlay
  BY <1>0, <1>9, QueuesUntouched DEF Receive, Receives, StopPlay
<1>10. CASE TakeKillAudio \/ UsesFreedBuffer \/ Push \/ Restore \/ Busy \/ WriteFile \/ AppendFile
  BY <1>0, <1>10, QueuesUntouched
     DEF TakeKillAudio, UsesFreedBuffer, Push, Restore, Busy, WriteFile, AppendFile
<1>11. ASSUME NEW c \in Cleaners, FindBug(c) \/ Unlink(c) \/ Capture(c) \/ RemoveFiles(c)
       PROVE  OrderInv'
  BY <1>0, <1>11, QueuesUntouched DEF FindBug, Unlink, Capture, RemoveFiles
<1>12. ASSUME NEW c \in Cleaners, Destroy(c)
       PROVE  OrderInv'
  BY <1>0, <1>12, QueuesEmptied DEF Destroy
<1>13. CASE UNCHANGED vars
  BY <1>0, <1>13, QueuesUntouched DEF vars
<1>14. QED BY <1>1, <1>2, <1>3, <1>4, <1>5, <1>6, <1>7, <1>8, <1>9, <1>10, <1>11, <1>12, <1>13
           DEF Next, ServiceStep, DubStep, CleanerStep

\* lws_glue.cpp, dub_speech_frame: the events of the marks go out in the order
\* in which the marks came in, each at most once.
THEOREM ReportedInOrderHolds == Spec => []ReportedInOrder
<1>1. Spec => []OrderInv
  BY InitOrder, NextOrder, PTL DEF Spec
<1>2. OrderInv => ReportedInOrder
  <2> SUFFICES ASSUME OrderInv PROVE ReportedInOrder
    OBVIOUS
  <2>1. DOMAIN reported = 1..Len(reported) /\ Increasing(reported)
    BY LenProperties DEF OrderInv, Order, TypeOK
  <2>2. QED BY <2>1 DEF Increasing, ReportedInOrder
<1>3. QED BY <1>1, <1>2, PTL

-----------------------------------------------------------------------------
(* The markers in the buffers.                                             *)

\* Every marker of s is smaller than every marker of t.
Precede(s, t) == \A x \in MarkersIn(s), y \in MarkersIn(t) : x < y

LEMMA MarkerPlaces ==
  ASSUME NEW S, NEW s \in Seq(S)
  PROVE  /\ Len(s) \in Nat /\ DOMAIN s = 1..Len(s)
         /\ \A i \in 1..Len(s) : s[i] # 0 => s[i] \in MarkersIn(s)
         /\ \A x \in MarkersIn(s) : x # 0 /\ \E i \in 1..Len(s) : x = s[i]
<1>1. Len(s) \in Nat /\ DOMAIN s = 1..Len(s)
  BY LenProperties
<1>2. QED BY <1>1 DEF MarkersIn, ToSet, IsMarker

LEMMA SampleValues ==
  ASSUME NEW s \in Seq(Sample)
  PROVE  /\ \A i \in 1..Len(s) : s[i] \in Int
         /\ \A x \in MarkersIn(s) : x \in Int
<1>1. \A i \in 1..Len(s) : s[i] \in Sample
  BY ElementOfSeq
<1>2. Sample \subseteq Int
  BY StreamAssumption DEF Sample
<1>3. QED BY ZenonT(30), <1>1, <1>2, MarkerPlaces

LEMMA ConcatMarkers ==
  ASSUME NEW s \in Seq(Sample), NEW t \in Seq(Sample)
  PROVE  /\ s \o t \in Seq(Sample)
         /\ MarkersIn(s \o t) = MarkersIn(s) \cup MarkersIn(t)
         /\ InOrder(s \o t) <=> InOrder(s) /\ InOrder(t) /\ Precede(s, t)
<1> DEFINE u == s \o t
<1>1. /\ u \in Seq(Sample) /\ Len(u) = Len(s) + Len(t)
      /\ \A i \in 1..Len(s) + Len(t) : u[i] = IF i <= Len(s) THEN s[i] ELSE t[i - Len(s)]
  BY ConcatProperties
<1>2. Len(s) \in Nat /\ Len(t) \in Nat
  BY LenProperties
<1> HIDE DEF u
<1>3. /\ \A i \in 1..Len(s) : i \in 1..Len(u) /\ u[i] = s[i]
      /\ \A i \in 1..Len(t) : i + Len(s) \in 1..Len(u) /\ u[i + Len(s)] = t[i]
  <2>1. ASSUME NEW i \in 1..Len(s) PROVE i \in 1..Len(u) /\ u[i] = s[i]
    BY <1>1, <1>2
  <2>2. ASSUME NEW i \in 1..Len(t) PROVE i + Len(s) \in 1..Len(u) /\ u[i + Len(s)] = t[i]
    <3>1. /\ i + Len(s) \in 1..Len(s) + Len(t) /\ ~(i + Len(s) <= Len(s))
          /\ (i + Len(s)) - Len(s) = i
      BY <1>2
    <3>2. QED BY <1>1, <3>1
  <2>3. QED BY <2>1, <2>2
<1>4. \A i \in 1..Len(u) : \/ i \in 1..Len(s) /\ u[i] = s[i]
                           \/ i > Len(s) /\ i - Len(s) \in 1..Len(t) /\ u[i] = t[i - Len(s)]
  BY <1>1, <1>2
<1>5. MarkersIn(u) = MarkersIn(s) \cup MarkersIn(t)
  <2>1. ASSUME NEW x \in MarkersIn(u) PROVE x \in MarkersIn(s) \cup MarkersIn(t)
    <3>1. PICK i \in 1..Len(u) : x = u[i] /\ x # 0
      BY <1>1, MarkerPlaces
    <3>2. CASE i \in 1..Len(s) /\ u[i] = s[i]
      BY <3>1, <3>2, MarkerPlaces
    <3>3. CASE i - Len(s) \in 1..Len(t) /\ u[i] = t[i - Len(s)]
      BY <3>1, <3>3, MarkerPlaces
    <3>4. QED BY <1>4, <3>2, <3>3
  <2>2. ASSUME NEW x \in MarkersIn(s) PROVE x \in MarkersIn(u)
    <3>1. PICK i \in 1..Len(s) : x = s[i] /\ x # 0
      BY MarkerPlaces
    <3>2. i \in 1..Len(u) /\ u[i] = x
      BY <1>3, <3>1
    <3>3. QED BY <1>1, <3>1, <3>2, MarkerPlaces
  <2>3. ASSUME NEW x \in MarkersIn(t) PROVE x \in MarkersIn(u)
    <3>1. PICK i \in 1..Len(t) : x = t[i] /\ x # 0
      BY MarkerPlaces
    <3>2. i + Len(s) \in 1..Len(u) /\ u[i + Len(s)] = x
      BY <1>3, <3>1
    <3>3. QED BY <1>1, <3>1, <3>2, MarkerPlaces
  <2>4. QED BY <2>1, <2>2, <2>3
<1>6. /\ InOrder(u) <=> \A i, j \in 1..Len(u) : i < j /\ u[i] # 0 /\ u[j] # 0 => u[i] < u[j]
      /\ InOrder(s) <=> \A i, j \in 1..Len(s) : i < j /\ s[i] # 0 /\ s[j] # 0 => s[i] < s[j]
      /\ InOrder(t) <=> \A i, j \in 1..Len(t) : i < j /\ t[i] # 0 /\ t[j] # 0 => t[i] < t[j]
  BY <1>1, MarkerPlaces DEF InOrder, IsMarker
<1>7. ASSUME InOrder(u) PROVE InOrder(s) /\ InOrder(t) /\ Precede(s, t)
  <2>1. InOrder(s)
    BY <1>3, <1>6, <1>7
  <2>2. InOrder(t)
    <3>1. \A i, j \in 1..Len(t) : i < j => i + Len(s) < j + Len(s)
      BY <1>2
    <3>2. QED BY <1>3, <1>6, <1>7, <3>1
  <2>3. ASSUME NEW x \in MarkersIn(s), NEW y \in MarkersIn(t) PROVE x < y
    <3>1. PICK i \in 1..Len(s) : x = s[i] /\ x # 0
      BY MarkerPlaces
    <3>2. PICK j \in 1..Len(t) : y = t[j] /\ y # 0
      BY MarkerPlaces
    <3>3. i < j + Len(s)
      BY <1>2
    <3>4. QED BY <1>3, <1>6, <1>7, <3>1, <3>2, <3>3
  <2>4. QED BY <2>1, <2>2, <2>3 DEF Precede
<1>8. ASSUME InOrder(s), InOrder(t), Precede(s, t) PROVE InOrder(u)
  <2>1. SUFFICES ASSUME NEW i \in 1..Len(u), NEW j \in 1..Len(u),
                        i < j, u[i] # 0, u[j] # 0
                 PROVE  u[i] < u[j]
    BY <1>6
  <2>2. CASE i \in 1..Len(s) /\ j \in 1..Len(s)
    BY <1>3, <1>6, <1>8, <2>1, <2>2
  <2>3. CASE i \in 1..Len(s) /\ j > Len(s)
    <3>1. u[i] \in MarkersIn(s)
      BY <1>3, <2>1, <2>3, MarkerPlaces
    <3>2. u[j] \in MarkersIn(t)
      <4>1. j - Len(s) \in 1..Len(t) /\ u[j] = t[j - Len(s)]
        BY <1>2, <1>4, <2>3
      <4>2. QED BY <2>1, <4>1, MarkerPlaces
    <3>3. QED BY <1>8, <3>1, <3>2 DEF Precede
  <2>4. CASE i > Len(s)
    <3>1. /\ i - Len(s) \in 1..Len(t) /\ u[i] = t[i - Len(s)]
          /\ j - Len(s) \in 1..Len(t) /\ u[j] = t[j - Len(s)]
          /\ i - Len(s) < j - Len(s)
      BY <1>2, <1>4, <2>1, <2>4
    <3>2. QED BY <1>6, <1>8, <2>1, <3>1
  <2>5. QED BY <1>2, <1>4, <2>1, <2>2, <2>3, <2>4
<1>9. QED BY <1>1, <1>5, <1>7, <1>8 DEF u

LEMMA Regroup ==
  \A s, t, u \in Seq(Sample) : (s \o t) \o u = s \o (t \o u)
<1> SUFFICES ASSUME NEW s \in Seq(Sample), NEW t \in Seq(Sample), NEW u \in Seq(Sample)
             PROVE  (s \o t) \o u = s \o (t \o u)
  OBVIOUS
<1>1. QED BY ConcatAssociative

LEMMA LeastBelow ==
  ASSUME NEW m \in Nat, NEW n \in Nat, m <= n
  PROVE  Least(m, 0) = 0 /\ Least(m - 0, n) = m
  BY DEF Least

\* A buffer without markers, and a queue of marks read as a buffer of markers.
LEMMA PlainAudio ==
  ASSUME NEW s \in Seq({-1, 0}), Genuine \notin ToSet(s)
  PROVE  MarkersIn(s) = {} /\ InOrder(s)
<1>1. \A i \in 1..Len(s) : s[i] = 0
  <2>1. DOMAIN s = 1..Len(s) /\ \A i \in 1..Len(s) : s[i] \in {-1, 0}
    BY LenProperties, ElementOfSeq
  <2>2. QED BY <2>1 DEF ToSet, Genuine
<1>2. QED BY <1>1, MarkerPlaces DEF InOrder, IsMarker

LEMMA QueueMarkers ==
  ASSUME NEW s \in Seq(MarkNumbers)
  PROVE  /\ MarkersIn(s) = ToSet(s)
         /\ \A x \in ToSet(s) : \E i \in 1..Len(s) : x = s[i]
         /\ \A i \in 1..Len(s) : s[i] \in ToSet(s)
         /\ InOrder(s) <=> Increasing(s)
<1>1. DOMAIN s = 1..Len(s) /\ \A i \in 1..Len(s) : s[i] \in MarkNumbers
  BY LenProperties, ElementOfSeq
<1>2. 0 \notin MarkNumbers
  BY StreamAssumption DEF MarkNumbers
<1>3. \A i \in 1..Len(s) : s[i] # 0
  BY <1>1, <1>2
<1>4. QED BY <1>1, <1>3 DEF MarkersIn, ToSet, IsMarker, InOrder, Increasing

LEMMA NoMarkers ==
  /\ <<>> \in Seq(Sample) /\ MarkersIn(<<>>) = {} /\ InOrder(<<>>)
  /\ \A s : Precede(<<>>, s) /\ Precede(s, <<>>)
<1>1. <<>> \in Seq(Sample) /\ DOMAIN <<>> = {}
  BY EmptySeq
<1>2. MarkersIn(<<>>) = {} /\ InOrder(<<>>)
  BY <1>1 DEF MarkersIn, ToSet, InOrder
<1>3. QED BY <1>1, <1>2 DEF Precede

\* The markers in the front of a buffer are as many as the marks of a queue
\* that they stand for, and those are the first of the queue.
LEMMA FrontMarks ==
  ASSUME NEW s \in Seq(Sample), NEW t \in Seq(Sample), NEW q \in Seq(MarkNumbers),
         Increasing(q), InOrder(s \o t), MarkersIn(s \o t) = ToSet(q)
  PROVE  /\ NumMarkers(s) \in 0..Len(q)
         /\ \A k \in 1..Len(q) : q[k] \in MarkersIn(s) <=> k <= NumMarkers(s)
<1> DEFINE places == {i \in 1..Len(s) : s[i] # 0}
           marked == {k \in 1..Len(q) : q[k] \in MarkersIn(s)}
           n == NumMarkers(s)
<1>1. /\ Len(s) \in Nat /\ Len(q) \in Nat /\ DOMAIN s = 1..Len(s)
      /\ \A i \in 1..Len(s) : s[i] \in Int
      /\ \A k \in 1..Len(q) : q[k] \in Nat
  BY LenProperties, SampleValues, MarkValues
<1>2. /\ MarkersIn(s) \cup MarkersIn(t) = ToSet(q)
      /\ InOrder(s) /\ Precede(s, t)
  BY ConcatMarkers
<1>3. /\ \A x \in ToSet(q) : \E k \in 1..Len(q) : x = q[k]
      /\ \A k \in 1..Len(q) : q[k] \in ToSet(q)
  BY QueueMarkers
<1>4. IsFiniteSet(places) /\ IsFiniteSet(marked) /\ Cardinality(places) = n
  <2>1. IsFiniteSet(1..Len(s)) /\ IsFiniteSet(1..Len(q))
    BY <1>1, FS_Interval
  <2>2. places \in SUBSET (1..Len(s)) /\ marked \in SUBSET (1..Len(q))
    OBVIOUS
  <2>3. IsFiniteSet(places) /\ IsFiniteSet(marked)
    BY <2>1, <2>2, FS_Subset
  <2>4. Cardinality(places) = NumMarkers(s)
    BY <1>1 DEF NumMarkers, IsMarker
  <2>5. QED BY <2>3, <2>4
<1>5. \A i \in places : \E k \in marked : s[i] = q[k]
  <2>1. ASSUME NEW i \in places PROVE \E k \in marked : s[i] = q[k]
    <3>1. s[i] \in MarkersIn(s) /\ s[i] \in ToSet(q)
      BY <1>2, MarkerPlaces
    <3>2. PICK k \in 1..Len(q) : s[i] = q[k]
      BY <1>3, <3>1
    <3>3. k \in marked
      BY <3>1, <3>2
    <3>4. QED BY <3>2, <3>3
  <2>2. QED BY <2>1
<1>6. Cardinality(marked) = n
  <2> DEFINE F == [i \in places |-> CHOOSE k \in marked : s[i] = q[k]]
  <2>1. \A i \in places : F[i] \in marked /\ s[i] = q[F[i]]
    BY <1>5
  <2>2. F \in [places -> marked]
    BY <2>1
  <2> HIDE DEF F
  <2>3. ASSUME NEW i \in places, NEW j \in places, F[i] = F[j] PROVE i = j
    <3>1. s[i] = s[j] /\ s[i] \in Int /\ s[i] # 0
      BY <1>1, <2>1, <2>3
    <3>2. i \in 1..Len(s) /\ j \in 1..Len(s) /\ s[j] # 0
      BY <3>1
    <3>3. ~(i < j) /\ ~(j < i)
      <4>1. \A k, l \in 1..Len(s) : k < l /\ s[k] # 0 /\ s[l] # 0 => s[k] < s[l]
        BY <1>1, <1>2 DEF InOrder, IsMarker
      <4>2. ~(s[i] < s[j]) /\ ~(s[j] < s[i])
        BY <3>1
      <4> HIDE DEF places
      <4>3. QED BY <3>1, <3>2, <4>1, <4>2
    <3>4. QED BY <1>1, <3>2, <3>3
  <2>4. ASSUME NEW k \in marked PROVE \E i \in places : F[i] = k
    <3>1. PICK i \in 1..Len(s) : q[k] = s[i] /\ s[i] # 0
      BY MarkerPlaces
    <3>2. F[i] \in marked /\ q[F[i]] = q[k]
      BY <2>1, <3>1
    <3>3. F[i] \in 1..Len(q) /\ k \in 1..Len(q)
      BY <3>2
    <3>4. ~(F[i] < k) /\ ~(k < F[i])
      BY <1>1, <3>2, <3>3 DEF Increasing
    <3>5. F[i] = k
      BY <1>1, <3>3, <3>4
    <3>6. QED BY <3>1, <3>5
  <2> HIDE DEF places, marked
  <2>5. F \in Bijection(places, marked)
    BY <2>2, <2>3, <2>4, Fun_IsBij
  <2>6. ExistsBijection(places, marked)
    BY <2>5 DEF ExistsBijection
  <2>7. QED BY <1>4, <2>6, FS_Bijection
<1>7. \A k \in marked : \A j \in 1..Len(q) : j < k => j \in marked
  <2> SUFFICES ASSUME NEW k \in marked, NEW j \in 1..Len(q), j < k, q[j] \in MarkersIn(t)
               PROVE  FALSE
    BY <1>2, <1>3
  <2>1. q[j] < q[k]
    BY DEF Increasing
  <2>2. q[k] < q[j]
    BY <1>2 DEF Precede
  <2>3. QED BY <1>1, <2>1, <2>2
<1> HIDE DEF places, n
<1>8. n \in Nat
  BY <1>4, FS_CardinalityType
<1>9. \A k \in marked : k <= n
  <2>1. ASSUME NEW k \in marked PROVE k <= n
    <3>1. (1..k) \in SUBSET marked
      BY <1>1, <1>7
    <3>2. Cardinality(1..k) <= n
      BY SMTT(30), <1>4, <1>6, <3>1, FS_Subset
    <3>3. Cardinality(1..k) = k
      BY <1>1, FS_Interval
    <3>4. QED BY <3>2, <3>3
  <2>2. QED BY <2>1
<1>10. marked = 1..n
  <2>1. marked \in SUBSET (1..n)
    BY <1>1, <1>8, <1>9
  <2>2. IsFiniteSet(1..n) /\ Cardinality(1..n) = n
    BY <1>8, FS_Interval
  <2> HIDE DEF marked
  <2>3. QED BY <1>6, <2>1, <2>2, FS_Subset
<1>11. n \in 0..Len(q)
  <2>1. CASE n = 0
    BY <1>1, <2>1
  <2>2. CASE n > 0
    <3>1. n \in marked
      BY <1>8, <1>10, <2>2
    <3>2. QED BY <1>8, <3>1
  <2>3. QED BY <1>8, <2>1, <2>2
<1>12. \A k \in 1..Len(q) : q[k] \in MarkersIn(s) <=> k <= n
  BY <1>1, <1>8, <1>10
<1>13. QED BY <1>11, <1>12 DEF n

\* The audio of a message that was not handled yet holds no marker.
Plain == svc.at = "found" => svc.data \in Seq({-1, 0})

\* Without a resampler the whole prebuffer is what is pushed, and nothing is
\* left over: the markers of the marks in use are in the playout buffer and
\* behind it in the prebuffer, unless Push has just put them there.
Matched ==
  /\ factor = 1 /\ ~clearFlag /\ mutex # "clear" /\ cleared = <<>>
  /\ svc.at = "push" => svc.data = pre /\ svc.left = <<>>
  /\ svc.at = "restore" => svc.left = <<>>
  /\ MarkersIn(Underway) = ToSet(inUse) /\ InOrder(Underway)

MarksInv == OrderInv /\ Plain /\ (alive /\ ~disturbed => Matched)

LEMMA UnderwayParts ==
  ASSUME Types
  PROVE  /\ playout \in Seq(Sample) /\ pre \in Seq(Sample)
         /\ inUse \in Seq(MarkNumbers) /\ inventory \in Seq(MarkNumbers)
         /\ inventory \in Seq(Sample) /\ Underway \in Seq(Sample)
         /\ Underway = playout \o (IF svc.at = "restore" THEN <<>> ELSE pre)
<1>1. playout \in Seq(Sample) /\ pre \in Seq(Sample)
      /\ inUse \in Seq(MarkNumbers) /\ inventory \in Seq(MarkNumbers)
  BY DEF TypeOK
<1>2. inventory \in Seq(Sample)
  BY <1>1, SampleTypes
<1>3. playout \o <<>> = playout /\ playout \o pre \in Seq(Sample)
  BY <1>1, ConcatEmptySeq, ConcatProperties
<1>4. QED BY <1>1, <1>2, <1>3 DEF Underway

LEMMA InitMarks == Init => MarksInv
<1> SUFFICES ASSUME Init PROVE MarksInv
  OBVIOUS
<1>1. OrderInv
  BY InitOrder
<1>2. /\ svc.at = "idle" /\ ~clearFlag /\ mutex # "clear" /\ cleared = <<>>
      /\ inUse = <<>> /\ playout = <<>> /\ pre = <<>> /\ disturbed = (factor # 1)
  BY IdleType DEF Init
<1>3. Underway = <<>>
  <2>1. <<>> \o <<>> = <<>>
    BY NoMarkers, ConcatEmptySeq
  <2>2. QED BY <1>2, <2>1 DEF Underway
<1>4. MarkersIn(Underway) = ToSet(inUse) /\ InOrder(Underway)
  <2>1. ToSet(<<>>) = {}
    BY EmptySeq DEF ToSet
  <2>2. QED BY <1>2, <1>3, <2>1, NoMarkers
<1>5. QED BY <1>1, <1>2, <1>4 DEF MarksInv, Plain, Matched

\* A step that leaves the buffers, the marks in use and the handling of audio alone.
LEMMA MarksUntouched ==
  ASSUME MarksInv,
         UNCHANGED <<factor, alive, disturbed, clearFlag, inUse, cleared, pre, playout>>,
         mutex' = "clear" => mutex = "clear",
         svc' = svc \/ (svc.at \notin {"push", "restore"} /\ svc'.at \notin {"push", "restore"})
  PROVE  (alive /\ ~disturbed => Matched)'
<1> SUFFICES ASSUME alive, ~disturbed PROVE Matched'
  OBVIOUS
<1>1. Matched
  BY DEF MarksInv
<1>2. Underway' = Underway
  BY DEF Underway
<1>3. MarkersIn(Underway)' = MarkersIn(Underway) /\ InOrder(Underway)' = InOrder(Underway)
      /\ ToSet(inUse)' = ToSet(inUse)
  BY <1>2 DEF MarkersIn, InOrder, ToSet
<1>4. QED BY <1>1, <1>3 DEF Matched

\* The markers of the queued marks go behind those of the marks in use.
LEMMA TakeBinaryMarks ==
  ASSUME MarksInv, Types', TakeBinary
  PROVE  (alive /\ ~disturbed => Matched)'
<1> SUFFICES ASSUME alive', ~disturbed' PROVE Matched'
  OBVIOUS
<1>1. /\ alive /\ ~disturbed /\ Genuine \notin ToSet(svc.data)
      /\ inUse' = inUse \o inventory
      /\ UNCHANGED <<factor, clearFlag, mutex, cleared, playout>>
  BY DEF TakeBinary, InUseNow, sessionVars, MarksInv, OrderInv, TypeOK
<1>2. Matched /\ OrderInv /\ svc.at = "found" /\ svc.data \in Seq({-1, 0})
  BY <1>1 DEF MarksInv, Plain, TakeBinary, Handles
<1> DEFINE tail == inventory \o svc.data
           whole == pre \o inventory \o svc.data
<1>3. /\ playout \in Seq(Sample) /\ pre \in Seq(Sample) /\ svc.data \in Seq(Sample)
      /\ inUse \in Seq(MarkNumbers) /\ inventory \in Seq(MarkNumbers)
      /\ inventory \in Seq(Sample) /\ Underway = playout \o pre
  BY <1>2, UnderwayParts DEF OrderInv, TypeOK
<1>4. /\ tail \in Seq(Sample) /\ whole \in Seq(Sample) /\ whole = pre \o tail
      /\ playout \o whole = (playout \o pre) \o tail
  <2>1. tail \in Seq(Sample) /\ (pre \o inventory) \o svc.data = pre \o tail
    <3>1. inventory \o svc.data \in Seq(Sample)
      BY <1>3, ConcatProperties
    <3>2. (pre \o inventory) \o svc.data = pre \o (inventory \o svc.data)
      <4>1. pre \in Seq(Sample) /\ inventory \in Seq(Sample) /\ svc.data \in Seq(Sample)
        BY <1>3
      <4>2. QED BY <4>1, Regroup
    <3>3. QED BY <3>1, <3>2
  <2>2. whole = pre \o tail /\ pre \o tail \in Seq(Sample)
    BY <1>3, <2>1, ConcatProperties
  <2>3. playout \o (pre \o tail) = (playout \o pre) \o tail
    <3> HIDE DEF tail
    <3>1. playout \in Seq(Sample) /\ pre \in Seq(Sample) /\ tail \in Seq(Sample)
      BY <1>3, <2>1
    <3>2. QED BY <3>1, Regroup
  <2>4. QED BY <2>1, <2>2, <2>3
<1>5. MarkersIn(tail) = ToSet(inventory) /\ InOrder(tail)
  <2>1. MarkersIn(svc.data) = {} /\ InOrder(svc.data)
    BY <1>1, <1>2, PlainAudio
  <2>2. MarkersIn(inventory) = ToSet(inventory) /\ InOrder(inventory)
    BY <1>2, <1>3, QueueMarkers DEF OrderInv, Order
  <2>3. Precede(inventory, svc.data)
    BY <2>1 DEF Precede
  <2>4. /\ MarkersIn(inventory \o svc.data) = MarkersIn(inventory) \cup MarkersIn(svc.data)
        /\ InOrder(inventory \o svc.data)
    BY <1>3, <2>1, <2>2, <2>3, ConcatMarkers
  <2>5. QED BY <2>1, <2>2, <2>4
<1>6. Precede(playout \o pre, tail)
  <2>1. MarkersIn(playout \o pre) = ToSet(inUse) /\ Before(inUse, inventory)
    BY <1>2, <1>3 DEF Matched, OrderInv, Order
  <2>2. QED BY SMTT(30), <1>3, <1>5, <2>1, QueueMarkers DEF Precede, Before
<1> HIDE DEF tail
<1>7. /\ MarkersIn(playout \o whole) = ToSet(inUse) \cup ToSet(inventory)
      /\ InOrder(playout \o whole)
  <2>1. playout \o pre \in Seq(Sample)
    BY <1>3, ConcatMarkers
  <2>2. MarkersIn(playout \o pre) = ToSet(inUse) /\ InOrder(playout \o pre)
    BY <1>2, <1>3 DEF Matched
  <2> HIDE DEF whole
  <2>3. QED BY <1>4, <1>5, <1>6, <2>1, <2>2, ConcatMarkers
<1>8. ToSet(inUse') = ToSet(inUse) \cup ToSet(inventory)
  <2>1. inUse \in Seq(Sample)
    BY <1>3, SampleTypes
  <2>2. MarkersIn(inUse \o inventory) = MarkersIn(inUse) \cup MarkersIn(inventory)
    BY <1>3, <2>1, ConcatMarkers
  <2>3. inUse \o inventory \in Seq(MarkNumbers)
    BY <1>3, ConcatProperties
  <2>4. QED BY <1>1, <1>3, <2>2, <2>3, QueueMarkers
<1>9. /\ pre' = whole
      /\ \/ svc' = Idle
         \/ svc' = [at |-> "push", msg |-> "binary", data |-> whole, left |-> <<>>]
  <2> DEFINE complete == (Len(whole) \div factor) * factor
  <2>1. factor = 1 /\ Len(whole) \in Nat
    BY <1>2, <1>4, LenProperties DEF Matched
  <2>2. complete = Len(whole)
    <3> HIDE DEF whole
    <3>1. QED BY <2>1
  <2>3. SubSeq(whole, 1, Len(whole)) = whole /\ DropFirst(whole, Len(whole)) = <<>>
    <3> HIDE DEF whole
    <3>1. SubSeq(whole, Len(whole) + 1, Len(whole)) = <<>>
      BY <2>1, SubSeqEmpty
    <3>2. QED BY <1>4, <3>1, SubSeqFull DEF DropFirst
  <2>4. CASE Len(whole) < threshold
    BY <2>4 DEF TakeBinary
  <2>5. CASE ~(Len(whole) < threshold)
    <3>1. /\ pre' = SubSeq(whole, 1, complete)
          /\ \E out \in {pre'} :
               svc' = [at |-> "push", msg |-> "binary", data |-> out,
                       left |-> DropFirst(whole, complete)]
      BY <2>1, <2>5 DEF TakeBinary
    <3> HIDE DEF whole, complete
    <3>2. QED BY <2>2, <2>3, <3>1
  <2>6. QED BY <2>4, <2>5
<1> HIDE DEF whole
<1>10. svc'.at # "restore" /\ (svc'.at = "push" => svc'.data = pre' /\ svc'.left = <<>>)
  BY <1>9, IdleType
<1>11. Underway' = playout \o whole
  BY <1>1, <1>9, <1>10 DEF Underway
<1>12. MarkersIn(Underway)' = ToSet(inUse)' /\ InOrder(Underway)'
  BY <1>7, <1>8, <1>11 DEF MarkersIn, InOrder, ToSet
<1>13. QED BY <1>1, <1>2, <1>10, <1>12 DEF Matched

LEMMA PushMarks ==
  ASSUME MarksInv, Push
  PROVE  (alive /\ ~disturbed => Matched)'
<1> SUFFICES ASSUME alive', ~disturbed' PROVE Matched'
  OBVIOUS
<1>1. /\ Matched /\ svc.at = "push" /\ playout' = playout \o svc.data
      /\ UNCHANGED <<factor, clearFlag, mutex, cleared, inUse>>
      /\ svc'.at = "restore" /\ svc'.left = svc.left
  BY DEF Push, MarksInv, OrderInv, TypeOK, sessionVars, markVars, histVars
<1>2. Underway' = Underway
  BY <1>1 DEF Underway, Matched
<1>3. MarkersIn(Underway)' = ToSet(inUse)' /\ InOrder(Underway)'
  BY <1>1, <1>2 DEF Matched, MarkersIn, InOrder, ToSet
<1>4. QED BY <1>1, <1>3 DEF Matched

LEMMA RestoreMarks ==
  ASSUME MarksInv, Restore
  PROVE  (alive /\ ~disturbed => Matched)'
<1> SUFFICES ASSUME alive', ~disturbed' PROVE Matched'
  OBVIOUS
<1>1. /\ Matched /\ svc.at = "restore" /\ pre' = svc.left /\ svc'.at = "idle"
      /\ UNCHANGED <<factor, clearFlag, mutex, cleared, inUse, playout>>
  BY IdleType DEF Restore, MarksInv, sessionVars, markVars, histVars
<1>2. playout \o <<>> = playout
  BY ConcatEmptySeq DEF MarksInv, OrderInv, TypeOK
<1>3. Underway' = Underway
  BY <1>1, <1>2 DEF Underway, Matched
<1>4. MarkersIn(Underway)' = ToSet(inUse)' /\ InOrder(Underway)'
  BY <1>1, <1>3 DEF Matched, MarkersIn, InOrder, ToSet
<1>5. QED BY <1>1, <1>4 DEF Matched

\* The audio that has to wait for the mutex stays in the prebuffer.
LEMMA BusyMarks ==
  ASSUME MarksInv, Busy
  PROVE  (alive /\ ~disturbed => Matched)'
<1> SUFFICES ASSUME alive', ~disturbed' PROVE Matched'
  OBVIOUS
<1>1. /\ Matched /\ svc.at = "push" /\ pre' = pre /\ svc'.at = "idle"
      /\ UNCHANGED <<factor, clearFlag, mutex, cleared, inUse, playout>>
  BY IdleType DEF Busy, Waiting, MarksInv, sessionVars, markVars, histVars
<1>2. Underway' = Underway
  BY <1>1 DEF Underway
<1>3. MarkersIn(Underway)' = ToSet(inUse)' /\ InOrder(Underway)'
  BY <1>1, <1>2 DEF Matched, MarkersIn, InOrder, ToSet
<1>4. QED BY <1>1, <1>3 DEF Matched

\* A frame takes the front of what is under way.
LEMMA TakenFirst ==
  ASSUME Types
  PROVE  LET pending == IF svc.at = "restore" THEN <<>> ELSE pre
             passed  == DropFirst(playout, Len(Taken))
         IN  /\ Taken \in Seq(Sample) /\ passed \in Seq(Sample)
             /\ passed \o pending \in Seq(Sample)
             /\ Underway = Taken \o (passed \o pending)
<1> DEFINE pending == IF svc.at = "restore" THEN <<>> ELSE pre
           passed  == DropFirst(playout, Len(Taken))
           rest    == passed \o pending
<1>2. Types
  OBVIOUS
<1>3. /\ playout \in Seq(Sample) /\ pending \in Seq(Sample)
      /\ Underway = playout \o pending
  BY <1>2, UnderwayParts, NoMarkers
<1>4. Taken \in Seq(Sample) /\ passed \in Seq(Sample) /\ playout = Taken \o passed
  <2>1. /\ Taken \in Seq(Sample) /\ Len(Taken) \in 0..Len(playout)
        /\ passed \in Seq(Sample)
    BY <1>2, TakenType
  <2>2. Taken = SubSeq(playout, 1, Len(Taken))
    <3>1. Len(playout) \in Nat /\ FrameSize \in Nat
      BY <1>3, LenProperties, StreamAssumption
    <3>2. Least(Len(playout), FrameSize) \in 0..Len(playout)
      BY <3>1, LeastType
    <3>3. Len(Taken) = Least(Len(playout), FrameSize)
      BY <1>3, <3>2, TakeType DEF Taken
    <3>4. QED BY <3>3 DEF Taken
  <2>3. SubSeq(playout, 1, Len(Taken)) \o SubSeq(playout, Len(Taken) + 1, Len(playout))
          = SubSeq(playout, 1, Len(playout))
    <3>1. Len(playout) \in Nat
      BY <1>3, LenProperties
    <3>2. 1 \in 1..(Len(playout) + 1) /\ Len(Taken) \in (1 - 1)..Len(playout)
          /\ Len(playout) \in Len(Taken)..Len(playout)
      BY <2>1, <3>1
    <3>3. QED BY <1>3, <3>2, ConcatAdjacentSubSeq
  <2>4. QED BY <1>3, <2>1, <2>2, <2>3, SubSeqFull DEF DropFirst
<1>5. rest \in Seq(Sample) /\ Underway = Taken \o rest
  <2> HIDE DEF pending, passed
  <2>1. QED BY SMTT(30), <1>3, <1>4, ConcatMarkers, ConcatAssociative
<1>6. QED BY <1>4, <1>5

\* What dub_speech_frame does, its alternatives told apart by what they do to
\* the marks in use while no mark was cleared.
LEMMA FrameMarks ==
  ASSUME MarksInv, Frame
  PROVE  (alive /\ ~disturbed => Matched)'
<1> SUFFICES ASSUME alive', ~disturbed' PROVE Matched'
  OBVIOUS
<1> DEFINE pending == IF svc.at = "restore" THEN <<>> ELSE pre
           passed  == DropFirst(playout, Len(Taken))
           rest    == passed \o pending
           n       == NumMarkers(Taken)
<1>1. /\ Matched /\ alive /\ playout' = passed
      /\ UNCHANGED <<factor, clearFlag, mutex, pre, svc>>
  BY DEF Frame, MarksInv, sessionVars, histVars
<1>2. Types /\ Increasing(inUse)
  BY DEF MarksInv, OrderInv, Order
<1>3. /\ playout \in Seq(Sample) /\ pending \in Seq(Sample) /\ inUse \in Seq(MarkNumbers)
      /\ Underway = playout \o pending
  BY <1>2, UnderwayParts, NoMarkers
<1>4. Taken \in Seq(Sample) /\ passed \in Seq(Sample)
  BY <1>2, TakenFirst
<1>5. rest \in Seq(Sample) /\ Underway = Taken \o rest
  BY <1>2, TakenFirst
<1>6. /\ MarkersIn(Underway) = ToSet(inUse) /\ InOrder(Underway) /\ cleared = <<>>
      /\ MarkersIn(Underway) = MarkersIn(Taken) \cup MarkersIn(rest)
      /\ InOrder(rest) /\ Precede(Taken, rest)
  <2> HIDE DEF rest
  <2>1. QED BY <1>1, <1>4, <1>5, ConcatMarkers DEF Matched
<1>7. Underway' = rest
  BY <1>1, <1>2, UnderwayParts, ConcatEmptySeq, <1>4 DEF Underway
<1>8. cleared' = <<>> /\ MarkersIn(rest) = ToSet(inUse')
  <2>1. Len(inUse) \in Nat /\ Len(cleared) = 0 /\ DOMAIN inUse = 1..Len(inUse)
    BY <1>3, <1>6, EmptySeq, LenProperties
  <2>2. CASE HasMarkers /\ PassMarkers(n)
    <3>1. /\ n \in 0..Len(inUse)
          /\ \A k \in 1..Len(inUse) : inUse[k] \in MarkersIn(Taken) <=> k <= n
      <4> HIDE DEF rest
      <4>1. QED BY <1>2, <1>3, <1>4, <1>5, <1>6, FrontMarks
    <3> HIDE DEF n
    <3>2. Least(n, 0) = 0 /\ Least(n - 0, Len(inUse)) = n
      <4>1. n \in Nat /\ n <= Len(inUse) /\ Len(inUse) \in Nat
        BY <2>1, <3>1
      <4>2. QED BY <4>1, LeastBelow
    <3>3. inUse' = DropFirst(inUse, n) /\ cleared' = DropFirst(cleared, 0)
      BY <2>1, <2>2, <3>2 DEF PassMarkers, n
    <3>4. cleared' = <<>>
      BY <1>6, <2>1, <3>3, SubSeqEmpty DEF DropFirst
    <3>5. /\ DropFirst(inUse, n) \in Seq(MarkNumbers)
          /\ Len(DropFirst(inUse, n)) = Len(inUse) - n
          /\ \A i \in 1..(Len(inUse) - n) : DropFirst(inUse, n)[i] = inUse[i + n]
      BY <1>3, <3>1, DropType
    <3> DEFINE back == DropFirst(inUse, n)
    <3> HIDE DEF back, rest
    <3>6. ASSUME NEW x \in MarkersIn(rest) PROVE x \in ToSet(back)
      <4>1. PICK k \in 1..Len(inUse) : x = inUse[k]
        BY <1>3, <1>6, QueueMarkers
      <4>2. x \notin MarkersIn(Taken)
        <5>1. x \in Int
          BY <1>3, <4>1, MarkValues
        <5>2. QED BY <1>6, <5>1 DEF Precede
      <4>3. k - n \in 1..(Len(inUse) - n) /\ (k - n) + n = k
        BY <2>1, <3>1, <4>1, <4>2
      <4>4. back[k - n] = x
        BY <3>5, <4>1, <4>3 DEF back
      <4>5. QED BY <3>5, <4>3, <4>4, QueueMarkers DEF back
    <3>7. ASSUME NEW x \in ToSet(back) PROVE x \in MarkersIn(rest)
      <4>1. PICK i \in 1..(Len(inUse) - n) : x = back[i]
        BY <3>5, QueueMarkers DEF back
      <4>2. i + n \in 1..Len(inUse) /\ ~(i + n <= n) /\ x = inUse[i + n]
        BY <2>1, <3>1, <3>5, <4>1 DEF back
      <4>3. x \in ToSet(inUse) /\ x \notin MarkersIn(Taken)
        BY <1>3, <3>1, <4>2, QueueMarkers
      <4>4. QED BY <1>6, <4>3
    <3>8. QED BY <3>3, <3>4, <3>6, <3>7 DEF back
  <2>3. CASE ~HasMarkers /\ UNCHANGED <<inUse, cleared>>
    <3>1. Len(inUse) = 0
      BY <2>1, <2>3 DEF HasMarkers
    <3>2. ToSet(inUse) = {}
      BY <2>1, <3>1 DEF ToSet
    <3> HIDE DEF rest
    <3>3. QED BY <1>6, <2>3, <3>2
  <2>4. QED BY <2>2, <2>3 DEF Frame, ReportUnplayed
<1>9. MarkersIn(Underway)' = ToSet(inUse)' /\ InOrder(Underway)'
  <2> HIDE DEF rest
  <2>1. QED BY <1>6, <1>7, <1>8 DEF MarkersIn, InOrder, ToSet
<1>10. QED BY <1>1, <1>8, <1>9 DEF Matched

LEMMA PlainKept == ASSUME MarksInv, [Next]_vars PROVE Plain'
<1>1. CASE Receive
  <2>1. \A a \in Audio : a \in Seq({-1, 0})
    BY StreamAssumption
  <2>2. <<>> \in Seq({-1, 0})
    BY EmptySeq
  <2>3. PICK msg \in {"mark", "clearMarks", "killAudio", "binary", "playAudio"},
             data \in Audio \cup {<<>>} : Receives(msg, data)
    BY <1>1 DEF Receive
  <2>4. svc'.data = data
    BY <2>3 DEF Receives, Idle
  <2>5. QED BY <2>1, <2>2, <2>4 DEF Plain
<1>2. CASE svc' = svc
  BY <1>2 DEF MarksInv, Plain
<1>3. CASE svc'.at # "found"
  BY <1>3 DEF Plain
<1>4. CASE TakeBinary
  <2>1. svc' = Idle \/ \E out, rest : svc' = [at |-> "push", msg |-> "binary", data |-> out,
                                              left |-> rest]
    BY <1>4 DEF TakeBinary
  <2>2. QED BY <2>1, IdleType DEF Plain
<1>5. CASE TakeMark \/ TakeClearMarks \/ TakeKillAudio \/ UsesFreedBuffer \/ Restore
           \/ Busy \/ AppendFile
  BY <1>3, <1>5, IdleType
     DEF TakeMark, TakeClearMarks, TakeKillAudio, UsesFreedBuffer, Restore, Busy, AppendFile
<1>6. CASE Push \/ WriteFile
  BY <1>3, <1>6 DEF Push, WriteFile, MarksInv, OrderInv, TypeOK
<1>7. CASE ReadLock \/ ReadUnlock \/ DubStep \/ ClearMarks \/ StopPlay
  BY <1>2, <1>7
     DEF ReadLock, ReadUnlock, DubStep, Frame, ClearBuffer, ClearMarks, StopPlay
<1>8. ASSUME NEW c \in Cleaners, FindBug(c) \/ CleanerStep(c) PROVE Plain'
  BY <1>2, <1>8 DEF FindBug, CleanerStep, Unlink, Capture, Destroy, RemoveFiles
<1>9. CASE UNCHANGED vars
  BY <1>2, <1>9 DEF vars
<1>10. QED BY <1>1, <1>4, <1>5, <1>6, <1>7, <1>8, <1>9 DEF Next, ServiceStep

LEMMA NextMarks == ASSUME MarksInv, [Next]_vars PROVE MarksInv'
<1>0. OrderInv' /\ Types' /\ Plain'
  BY NextOrder, PlainKept DEF MarksInv, OrderInv
<1>a. SUFFICES (alive /\ ~disturbed => Matched)'
  BY <1>0 DEF MarksInv
<1>1. CASE TakeBinary
  BY <1>0, <1>1, TakeBinaryMarks
<1>2. CASE Push
  BY <1>2, PushMarks
<1>3. CASE Restore
  BY <1>3, RestoreMarks
<1>4. CASE Busy
  BY <1>4, BusyMarks
<1>5. CASE Frame
  BY <1>5, FrameMarks
<1>6. CASE TakeClearMarks \/ TakeKillAudio \/ StopPlay
  BY <1>6 DEF TakeClearMarks, TakeKillAudio, StopPlay
<1>7. CASE ClearBuffer \/ ClearMarks
  <2>1. ~(alive /\ ~disturbed)
    BY <1>7 DEF ClearBuffer, ClearMarks, MarksInv, Matched
  <2>2. UNCHANGED <<alive, disturbed>>
    BY <1>7 DEF ClearBuffer, ClearMarks, sessionVars, histVars
  <2>3. QED BY <2>1, <2>2
<1>8. CASE UsesFreedBuffer
  BY <1>8 DEF UsesFreedBuffer, sessionVars
<1>9. CASE Receive
  <2>1. PICK msg, data : Receives(msg, data)
    BY <1>9 DEF Receive
  <2>2. svc.at = "idle" /\ svc'.at = "found"
    BY <2>1, IdleType DEF Receives, Idle
  <2>3. QED BY <2>1, <2>2, MarksUntouched
             DEF Receives, sessionVars, markVars, audioVars, histVars
<1>10. CASE TakeMark
  BY <1>10, IdleType, MarksUntouched
     DEF TakeMark, Handles, sessionVars, audioVars, histVars
<1>11. CASE WriteFile \/ AppendFile
  <2>1. svc.at \notin {"push", "restore"} /\ svc'.at \notin {"push", "restore"}
    BY <1>11, IdleType DEF WriteFile, AppendFile, Handles, MarksInv, OrderInv, TypeOK
  <2>2. QED BY <1>11, <2>1, MarksUntouched
             DEF WriteFile, AppendFile, sessionVars, markVars, audioVars, histVars
<1>12. CASE ReadLock \/ ReadUnlock
  BY <1>12, MarksUntouched
     DEF ReadLock, ReadUnlock, sessionVars, markVars, audioVars, histVars
<1>13. ASSUME NEW c \in Cleaners, FindBug(c) \/ Unlink(c) \/ Capture(c) \/ RemoveFiles(c)
       PROVE  (alive /\ ~disturbed => Matched)'
  BY <1>13, MarksUntouched
     DEF FindBug, Unlink, Capture, RemoveFiles, sessionVars, markVars, audioVars, histVars
<1>14. ASSUME NEW c \in Cleaners, Destroy(c)
       PROVE  (alive /\ ~disturbed => Matched)'
  BY <1>14 DEF Destroy
<1>15. CASE UNCHANGED vars
  BY <1>15, MarksUntouched DEF vars, sessionVars, markVars, audioVars, histVars
<1>16. QED BY <1>1, <1>2, <1>3, <1>4, <1>5, <1>6, <1>7, <1>8, <1>9, <1>10, <1>11, <1>12,
              <1>13, <1>14, <1>15
           DEF Next, ServiceStep, DubStep, CleanerStep

\* lws_glue.cpp, processIncomingBinary and dub_speech_frame: as long as no audio
\* was dropped, the markers in the two buffers are those of the marks in use and
\* in their order, whichever thread found the mutex taken and however the audio
\* was cut into messages and frames.
THEOREM MarkersMatchMarksInUseHolds == Spec => []MarkersMatchMarksInUse
<1>1. Spec => []MarksInv
  BY InitMarks, NextMarks, PTL DEF Spec
<1>2. MarksInv => MarkersMatchMarksInUse
  <2> SUFFICES ASSUME MarksInv, alive, ~disturbed
               PROVE  /\ MarkersIn(Underway) = ToSet(inUse)
                      /\ InOrder(Underway) /\ InOrder(inUse)
                      /\ cleared = <<>>
    BY DEF MarkersMatchMarksInUse
  <2>1. Matched /\ inUse \in Seq(MarkNumbers) /\ Increasing(inUse)
    BY DEF MarksInv, OrderInv, Order, TypeOK
  <2>2. QED BY <2>1, QueueMarkers DEF Matched
<1>3. QED BY <1>1, <1>2, PTL
\* What a frame tells the far end: the marks whose markers it takes out of the
\* buffer, and no others, unless there is nothing to play and no mark in use.
PlayedIsReported ==
  Frame /\ alive /\ ~disturbed =>
    \/ ToSet(reported') = ToSet(reported) \cup MarkersIn(Taken)
    \/ Taken = <<>> /\ inUse = <<>> /\ reported' = Append(reported, Head(inventory))

LEMMA ReportedFront ==
  ASSUME NEW q \in Seq(MarkNumbers), NEW r \in Seq(MarkNumbers), NEW n \in 0..Len(q)
  PROVE  ToSet(r \o SubSeq(q, 1, n)) = ToSet(r) \cup {q[k] : k \in 1..n}
<1> DEFINE f == SubSeq(q, 1, n)
<1>1. /\ f \in Seq(MarkNumbers) /\ Len(f) = n /\ \A k \in 1..n : f[k] = q[k]
      /\ Len(r) \in Nat /\ n \in Nat
  BY LenProperties, SubSeqProperties
<1> HIDE DEF f
<1>2. /\ r \o f \in Seq(MarkNumbers) /\ Len(r \o f) = Len(r) + n
      /\ \A i \in 1..(Len(r) + n) : (r \o f)[i] = IF i <= Len(r) THEN r[i] ELSE f[i - Len(r)]
  BY <1>1, ConcatProperties
<1> DEFINE c == r \o f
<1> HIDE DEF c
<1>3. /\ \A x \in ToSet(c) : \E i \in 1..Len(c) : x = c[i]
      /\ \A i \in 1..Len(c) : c[i] \in ToSet(c)
      /\ \A x \in ToSet(r) : \E i \in 1..Len(r) : x = r[i]
      /\ \A i \in 1..Len(r) : r[i] \in ToSet(r)
  BY <1>2, QueueMarkers DEF c
<1>4. ASSUME NEW x \in ToSet(c) PROVE x \in ToSet(r) \cup {q[k] : k \in 1..n}
  <2>1. PICK i \in 1..(Len(r) + n) : x = c[i]
    BY <1>2, <1>3 DEF c
  <2>2. CASE i <= Len(r)
    BY <1>1, <1>2, <1>3, <2>1, <2>2 DEF c
  <2>3. CASE ~(i <= Len(r))
    <3>1. i - Len(r) \in 1..n
      BY <1>1, <2>3
    <3>2. QED BY <1>1, <1>2, <2>1, <2>3, <3>1 DEF c
  <2>4. QED BY <2>2, <2>3
<1>5. ASSUME NEW x \in ToSet(r) PROVE x \in ToSet(c)
  <2>1. PICK i \in 1..Len(r) : x = r[i]
    BY <1>3
  <2>2. i \in 1..(Len(r) + n) /\ i <= Len(r)
    BY <1>1
  <2>3. QED BY <1>2, <1>3, <2>1, <2>2 DEF c
<1>6. ASSUME NEW k \in 1..n PROVE q[k] \in ToSet(c)
  <2>1. Len(r) + k \in 1..(Len(r) + n) /\ ~(Len(r) + k <= Len(r)) /\ (Len(r) + k) - Len(r) = k
    BY <1>1
  <2>2. c[Len(r) + k] = q[k]
    BY <1>1, <1>2, <2>1 DEF c
  <2>3. QED BY <1>2, <1>3, <2>1, <2>2 DEF c
<1>7. QED BY <1>4, <1>5, <1>6 DEF c, f

LEMMA FrameReports ==
  ASSUME MarksInv, Frame, alive, ~disturbed
  PROVE  \/ ToSet(reported') = ToSet(reported) \cup MarkersIn(Taken)
         \/ Taken = <<>> /\ inUse = <<>> /\ reported' = Append(reported, Head(inventory))
<1> DEFINE rest == DropFirst(playout, Len(Taken)) \o (IF svc.at = "restore" THEN <<>> ELSE pre)
           n    == NumMarkers(Taken)
<1>1. Matched /\ Types /\ Increasing(inUse)
  BY DEF MarksInv, OrderInv, Order
<1>2. /\ Taken \in Seq(Sample) /\ rest \in Seq(Sample) /\ Underway = Taken \o rest
      /\ inUse \in Seq(MarkNumbers) /\ reported \in Seq(MarkNumbers)
  BY <1>1, TakenFirst, UnderwayParts DEF TypeOK
<1> HIDE DEF rest
<1>3. /\ MarkersIn(Taken) \subseteq ToSet(inUse) /\ cleared = <<>>
      /\ MarkersIn(Taken \o rest) = ToSet(inUse) /\ InOrder(Taken \o rest)
  BY <1>1, <1>2, ConcatMarkers DEF Matched
<1>4. /\ n \in 0..Len(inUse)
      /\ \A k \in 1..Len(inUse) : inUse[k] \in MarkersIn(Taken) <=> k <= n
  BY <1>1, <1>2, <1>3, FrontMarks
<1>5. Len(inUse) \in Nat /\ Len(cleared) = 0
  BY <1>2, <1>3, EmptySeq, LenProperties
<1>6. CASE HasMarkers /\ PassMarkers(n)
  <2> HIDE DEF n
  <2>1. Least(n, 0) = 0 /\ Least(n - 0, Len(inUse)) = n
    <3>1. n \in Nat /\ n <= Len(inUse)
      BY <1>4, <1>5
    <3>2. QED BY <1>5, <3>1, LeastBelow
  <2>2. reported' = reported \o SubSeq(inUse, 1, n)
    BY <1>5, <1>6, <2>1 DEF PassMarkers
  <2>3. ToSet(reported') = ToSet(reported) \cup {inUse[k] : k \in 1..n}
    BY <1>2, <1>4, <2>2, ReportedFront
  <2>4. \A x \in MarkersIn(Taken) : \E k \in 1..Len(inUse) : x = inUse[k]
    BY <1>2, <1>3, QueueMarkers
  <2>5. MarkersIn(Taken) = {inUse[k] : k \in 1..n}
    BY <1>4, <1>5, <2>4
  <2>6. QED BY <2>3, <2>5
<1>7. CASE ~HasMarkers
  <2>1. Len(inUse) = 0
    BY <1>5, <1>7 DEF HasMarkers
  <2>2. inUse = <<>> /\ ToSet(inUse) = {}
    <3>1. inUse = <<>>
      BY <1>2, <2>1, EmptySeq
    <3>2. QED BY <3>1 DEF ToSet
  <2>3. CASE Taken = <<>> /\ ReportUnplayed
    BY <2>2, <2>3 DEF ReportUnplayed
  <2>4. CASE reported' = reported
    BY <1>3, <2>2, <2>4
  <2>5. QED BY <1>7, <2>3, <2>4 DEF Frame
<1>8. QED BY <1>6, <1>7 DEF Frame, n

\* lws_glue.cpp, dub_speech_frame: as long as no audio was dropped, the far end
\* is told of a mark in the very frame that plays the end of its audio, not
\* before and not later, although the frame only counts the markers it takes and the
\* names lie in a queue of their own.
THEOREM PlayedIsReportedHolds == Spec => [][PlayedIsReported]_vars
<1>1. Spec => []MarksInv
  BY InitMarks, NextMarks, PTL DEF Spec
<1>2. MarksInv /\ [Next]_vars => [PlayedIsReported]_vars
  BY FrameReports DEF PlayedIsReported
<1>3. QED BY <1>1, <1>2, PTL DEF Spec
=============================================================================
