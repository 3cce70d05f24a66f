-------------------------- MODULE ConnectionProofs --------------------------
(***************************************************************************)
(* What holds of a connection for any number of answers, of events and of  *)
(* frames, and any capacity of its channels.  The invariant has six parts, *)
(* each with its lemma for a step: Typed, which needs the next two for its *)
(* counters; Accounted, what the WaitGroup counts; Limited, what the       *)
(* semaphore counts; Dropped, the frames dropped, which needs Limited;     *)
(* InOrder, the send channel; Whole, the streams of the answers.           *)
(***************************************************************************)
EXTENDS Connection, FiniteSetTheorems, SequenceTheorems, TLAPS

-----------------------------------------------------------------------------
(* Types *)

\* The drain loop counted at least the frame it is about to write; a transcript that is
\* being committed is of some event.
WithinLimits ==
  /\ writer = "drain" => toDrain > 0
  /\ hearer \in {"commit", "track"} => events > 0

Typed == TypeOK /\ WithinLimits

LEMMA SendersHere == "reader" \in Senders /\ "hearer" \in Senders /\ Answers \subseteq Senders
  BY DEF Senders

LEMMA ReplyIsFrame == Reply \in Frame
  BY DEF Frame

LEMMA InitTyped == Init => Typed
<1> SUFFICES ASSUME Init PROVE Typed
  OBVIOUS
<1>1. StreamTypeOK
  BY StreamAssumption DEF Init, StreamInit, StreamTypeOK, Item
<1>2. cancelled \in BOOLEAN /\ client \in BOOLEAN /\ wsOpen \in BOOLEAN /\ stt \in BOOLEAN
  BY Zenon DEF Init
<1>3. genDone \in [Answers -> BOOLEAN]
  BY Zenon DEF Init
<1>4. answer \in [Answers -> AnswerPCs] /\ chunks \in [Answers -> Nat]
  BY StreamAssumption DEF Init, AnswerPCs
<1>5. send \in Seq(Frame) /\ Len(send) <= SendBuffer
  BY LimitsAssumption DEF Init, Frame
<1>6. recording \subseteq Records
  BY DEF Init
<1>7. lastSeq \in Sequences \cup {0} /\ shown \in Sequences \cup {0}
  BY DEF Init
<1>8. WithinLimits
  BY DEF Init, WithinLimits
<1>9. sending \in [Senders -> SendPCs] /\ outgoing \in [Senders -> Frame]
  BY ReplyIsFrame DEF Init, SendPCs
<1> QED
  BY <1>1, <1>2, <1>3, <1>4, <1>5, <1>6, <1>7, <1>8, <1>9, LimitsAssumption
     DEF Init, Typed, TypeOK

\* A call of sendMessage offers the frame or does nothing.
LEMMA SendTyped ==
  ASSUME Typed, NEW s \in Senders, NEW m \in Frame, SendMessage(s, m)
  PROVE  /\ UNCHANGED <<cancelled, send, drops>>
         /\ sending' \in [Senders -> SendPCs]
         /\ outgoing' \in [Senders -> Frame]
<1>1. sending \in [Senders -> SendPCs] /\ outgoing \in [Senders -> Frame]
  BY DEF Typed, TypeOK
<1> QED
  BY <1>1 DEF SendMessage, SendPCs

\* What sendMessage leaves alone once it offers its frame; it revives no context.
LEMMA SendLeaves ==
  ASSUME NEW s \in Senders, SendStep(s)
  PROVE  /\ UNCHANGED <<client, wsOpen, main, wg, reader, writer, toDrain, hearer, speaker,
                        audio, lastSeq, answer, chunks, genDone, slots, producer, parts, stream,
                        recording, stt, session, shown, events, frames>>
         /\ cancelled => cancelled'
BY DEF SendStep, Buffers, GivesUp, Overflows, Resets, Counts, Cancels, Sends,
       pumpVars, answerVars, boundVars, streamVars

LEMMA SendStepTyped ==
  ASSUME Typed, NEW s \in Senders, SendStep(s)
  PROVE  Typed'
<1> USE LimitsAssumption
<1>1. /\ sending \in [Senders -> SendPCs] /\ outgoing \in [Senders -> Frame]
      /\ send \in Seq(Frame) /\ Len(send) <= SendBuffer /\ drops \in Nat
  BY DEF Typed, TypeOK
<1>2. /\ sending' \in [Senders -> SendPCs]
      /\ outgoing' \in [Senders -> Frame]
  <2>1. PICK there \in SendPCs : sending' = [sending EXCEPT ![s] = there]
    BY DEF SendStep, Buffers, GivesUp, Overflows, Resets, Counts, Cancels, Sends, SendPCs
  <2>2. outgoing' = [outgoing EXCEPT ![s] = Reply]
    BY DEF SendStep, Buffers, GivesUp, Overflows, Resets, Counts, Cancels, Sends
  <2> QED
    BY <1>1, <2>1, <2>2, ReplyIsFrame
<1>3. send' \in Seq(Frame) /\ Len(send') <= SendBuffer
  <2>1. CASE UNCHANGED send
    BY <1>1, <2>1
  <2>2. CASE Buffers(s)
    BY <1>1, <2>2 DEF Buffers
  <2> QED
    BY <2>1, <2>2 DEF SendStep, GivesUp, Overflows, Resets, Counts, Cancels
<1>4. drops' \in Nat
  BY <1>1 DEF SendStep, Buffers, GivesUp, Overflows, Resets, Counts, Cancels
<1>5. cancelled' \in BOOLEAN
  <2>1. cancelled \in BOOLEAN
    BY DEF Typed, TypeOK
  <2>2. cancelled' = cancelled \/ cancelled' = TRUE
    BY Zenon DEF SendStep, Buffers, GivesUp, Overflows, Resets, Counts, Cancels
  <2> QED
    BY <2>1, <2>2, Zenon
<1>6. UNCHANGED <<client, wsOpen, main, wg, reader, writer, toDrain, hearer, speaker, audio,
                  lastSeq, answer, chunks, genDone, slots, producer, parts, stream,
                  recording, stt, session, shown, events, frames>>
  BY SendLeaves
<1>7. StreamTypeOK'
  BY <1>6 DEF Typed, TypeOK, StreamTypeOK
<1>8. WithinLimits'
  BY <1>6 DEF Typed, WithinLimits
<1> QED
  BY <1>2, <1>3, <1>4, <1>5, <1>6, <1>7, <1>8 DEF Typed, TypeOK

\* What a receive from a stream leaves behind.
LEMMA ReceiveTyped ==
  ASSUME StreamTypeOK, NEW a \in Answers, NEW item, Receives(a, item)
  PROVE  /\ stream' \in [Answers -> Seq(Item)]
         /\ \A b \in Answers : Len(stream'[b]) <= StreamBuffer
<1>1. Tail(stream[a]) \in Seq(Item) /\ Len(Tail(stream[a])) <= StreamBuffer
  BY StreamAssumption DEF StreamTypeOK, Receives
<1> QED
  BY <1>1 DEF StreamTypeOK, Receives

LEMMA StepTyped ==
  Typed /\ wg' \in Nat /\ slots' \in 0..MaxConcurrent /\ [Next]_vars => Typed'
<1> SUFFICES ASSUME Typed, wg' \in Nat, slots' \in 0..MaxConcurrent, [Next]_vars PROVE Typed'
  OBVIOUS
<1> USE LimitsAssumption, StreamAssumption
    DEF Typed, TypeOK, WithinLimits, StreamTypeOK,
        pumpVars, outVars, answerVars, boundVars, streamVars, AnswerPCs, Item
<1>r. /\ Reply \in Frame /\ Sequences \subseteq Frame
      /\ "reader" \in Senders /\ "hearer" \in Senders /\ Answers \subseteq Senders
  BY SendersHere, ReplyIsFrame DEF Frame
<1>1. ASSUME Start PROVE Typed'
  <2>1. <<Reply>> \in Seq(Frame) /\ Len(<<Reply>>) <= SendBuffer
    BY <1>r
  <2> QED
    BY <1>1, <2>1 DEF Start
<1>2. ASSUME Wait PROVE Typed'
  BY <1>2 DEF Wait
<1>3. ASSUME Wake PROVE Typed'
  BY <1>3 DEF Wake
<1>4. ASSUME CloseSTT PROVE Typed'
  <2>1. stt' \in BOOLEAN
    BY <1>4, Zenon DEF CloseSTT
  <2> QED
    BY <1>4, <2>1 DEF CloseSTT
<1>5. ASSUME DeleteSession PROVE Typed'
  BY <1>5 DEF DeleteSession
<1>6. ASSUME CloseSession PROVE Typed'
  BY <1>6 DEF CloseSession
<1>7. ASSUME ReaderTop PROVE Typed'
  BY <1>7 DEF ReaderTop
<1>8. ASSUME ReaderExits PROVE Typed'
  BY <1>8 DEF ReaderExits, Exit, Done
<1>9. ASSUME ReadsAudio PROVE Typed'
  BY <1>9 DEF ReadsAudio, Reads, AnotherFrame
<1>10. ASSUME ReadsAndReplies PROVE Typed'
  BY <1>10, <1>r, SendTyped DEF ReadsAndReplies, Reads, AnotherFrame
<1>11. ASSUME NEW a \in Answers, ReadsGenerate(a) PROVE Typed'
  BY <1>11 DEF ReadsGenerate, Reads
<1>12. ASSUME NEW a \in Answers, RefusesGenerate(a) PROVE Typed'
  BY <1>12, <1>r, SendTyped DEF RefusesGenerate, Reads
<1>13. ASSUME WriterSends PROVE Typed'
  <2>1. /\ send # <<>>
        /\ send' \in Seq(Frame)
        /\ Len(send') = Len(send) - 1
        /\ Head(send) \in Frame
    BY <1>13 DEF WriterSends, Writes
  <2>2. shown' \in Sequences \cup {0}
    BY <1>13, <2>1 DEF WriterSends, Writes, Frame, Reply
  <2>3. toDrain' \in 0..SendBuffer
    BY <1>13, <2>1 DEF WriterSends
  <2> QED
    BY <1>13, <2>1, <2>2, <2>3 DEF WriterSends, WriterUnchanged
<1>14. ASSUME WriterDrains PROVE Typed'
  <2>1. /\ send # <<>>
        /\ send' \in Seq(Frame)
        /\ Len(send') = Len(send) - 1
        /\ Head(send) \in Frame
    BY <1>14 DEF WriterDrains, Writes
  <2>2. shown' \in Sequences \cup {0}
    BY <1>14, <2>1 DEF WriterDrains, Writes, Frame, Reply
  <2> QED
    BY <1>14, <2>1, <2>2 DEF WriterDrains, WriterUnchanged
<1>15. ASSUME WriterExits PROVE Typed'
  <2>1. cancelled' \in BOOLEAN /\ wsOpen' \in BOOLEAN /\ cancelled'
    BY <1>15, Zenon DEF WriterExits, Exit
  <2> QED
    BY <1>15, <2>1 DEF WriterExits, Exit, Done
<1>16. ASSUME ClientStops PROVE Typed'
  <2>1. client' \in BOOLEAN
    BY <1>16, Zenon DEF ClientStops
  <2> QED
    BY <1>16, <2>1 DEF ClientStops
<1>17. ASSUME HearsLate PROVE Typed'
  BY <1>17 DEF HearsLate, AnotherEvent, Late
<1>18. ASSUME NEW final \in BOOLEAN, Hears(final) PROVE Typed'
  BY <1>18, <1>r, SendTyped DEF Hears, AnotherEvent, Late
<1>19. ASSUME HearerCommits PROVE Typed'
  BY <1>19 DEF HearerCommits
<1>20. ASSUME HearerTracks PROVE Typed'
  <2>1. <<"transcript", events>> \in Records
    BY <1>20 DEF HearerTracks, Records
  <2>2. recording' \subseteq Records
    BY <1>20, <2>1 DEF HearerTracks
  <2> QED
    BY <1>20, <2>2 DEF HearerTracks
<1>21. ASSUME HearerExits PROVE Typed'
  BY <1>21 DEF HearerExits, Exit, Done
<1>22. ASSUME SpeakerTakes PROVE Typed'
  BY <1>22 DEF SpeakerTakes
<1>23. ASSUME SpeakerSent PROVE Typed'
  BY <1>23 DEF SpeakerSent
<1>24. ASSUME SpeakerExits PROVE Typed'
  BY <1>24 DEF SpeakerExits, Exit, Done
<1>25. ASSUME NEW a \in Answers, AnswerStarts(a) PROVE Typed'
  BY <1>25 DEF AnswerStarts, At, Request, Produces
<1>26. ASSUME NEW a \in Answers, AnswerRefused(a) PROVE Typed'
  BY <1>26, <1>r, SendTyped DEF AnswerRefused, At
<1>27. ASSUME NEW a \in Answers, AnswerReceives(a) PROVE Typed'
  <2>1. answer' \in [Answers -> AnswerPCs]
    BY <1>27 DEF AnswerReceives, At
  <2>2. stream' \in [Answers -> Seq(Item)] /\ \A b \in Answers : Len(stream'[b]) <= StreamBuffer
    BY <1>27, ReceiveTyped DEF AnswerReceives
  <2>3. UNCHANGED <<genDone, producer, parts, client, wsOpen, stt>>
    BY <1>27 DEF AnswerReceives, At, Receives
  <2>4. CASE Receives(a, "text") /\ chunks' = [chunks EXCEPT ![a] = @ + 1] /\ SendMessage(a, Reply)
    <3>1. chunks' \in [Answers -> Nat]
      BY <2>4
    <3>2. /\ UNCHANGED <<cancelled, send, drops>>
          /\ sending' \in [Senders -> SendPCs] /\ outgoing' \in [Senders -> Frame]
      BY <2>4, <1>r, SendTyped
    <3> QED
      BY <1>27, <2>1, <2>2, <2>3, <3>1, <3>2 DEF AnswerReceives, At
  <2>5. CASE Receives(a, "final") /\ UNCHANGED <<cancelled, outVars, chunks>>
    BY <1>27, <2>1, <2>2, <2>3, <2>5 DEF AnswerReceives, At
  <2> QED
    BY <1>27, <2>4, <2>5 DEF AnswerReceives
<1>28. ASSUME NEW a \in Answers, AnswerFails(a) PROVE Typed'
  <2>1. answer' \in [Answers -> AnswerPCs]
    BY <1>28 DEF AnswerFails, At
  <2>2. stream' \in [Answers -> Seq(Item)] /\ \A b \in Answers : Len(stream'[b]) <= StreamBuffer
    BY <1>28, ReceiveTyped DEF AnswerFails
  <2>3. UNCHANGED <<chunks, genDone, producer, parts, client, wsOpen, stt>>
    BY <1>28 DEF AnswerFails, At, Receives
  <2>4. /\ UNCHANGED <<cancelled, send, drops>>
        /\ sending' \in [Senders -> SendPCs] /\ outgoing' \in [Senders -> Frame]
    BY <1>28, <1>r, SendTyped DEF AnswerFails
  <2> QED
    BY <1>28, <2>1, <2>2, <2>3, <2>4 DEF AnswerFails, At
<1>29. ASSUME NEW a \in Answers, AnswerStreamed(a) PROVE Typed'
  BY <1>29 DEF AnswerStreamed, At
<1>30. ASSUME NEW a \in Answers, AnswerAcks(a) PROVE Typed'
  BY <1>30, <1>r, SendTyped DEF AnswerAcks, At
<1>31. ASSUME NEW a \in Answers, AnswerRemembered(a) PROVE Typed'
  BY <1>31 DEF AnswerRemembered, At
<1>32. ASSUME NEW a \in Answers, AnswerTracks(a) PROVE Typed'
  <2>1. recording' \subseteq Records
    BY <1>32 DEF AnswerTracks, Records
  <2> QED
    BY <1>32, <2>1 DEF AnswerTracks, At
<1>33. ASSUME NEW a \in Answers, AnswerReleases(a) PROVE Typed'
  BY <1>33 DEF AnswerReleases, At, Ends, Forget
<1>34. ASSUME NEW a \in Answers, GenerationTimesOut(a) PROVE Typed'
  BY <1>34 DEF GenerationTimesOut, Ends
<1>35. ASSUME NEW a \in Answers, LLMStops(a) PROVE Typed'
  BY <1>35 DEF LLMStops, ProducerStops, StreamUnchanged, Produces
<1>36. ASSUME NEW a \in Answers, LLMPuts(a) PROVE Typed'
  BY <1>36 DEF LLMPuts, ProducerPuts, StreamUnchanged, Produces, Onwards
<1>37. ASSUME NEW a \in Answers, LLMSpeaks(a) PROVE Typed'
  <2>1. CASE ProducerReads(a)
    <3>1. PICK item \in Item :
            /\ Produces(a, "read", item)
            /\ item = "text" => parts[a] < MaxChunks
            /\ parts' = [parts EXCEPT ![a] = IF item = "text" THEN @ + 1 ELSE @]
      BY <2>1 DEF ProducerReads
    <3> QED
      BY <1>37, <2>1, <3>1 DEF LLMSpeaks, ProducerReads, Produces, StreamUnchanged
  <2>2. CASE ProducerFinishes(a)
    BY <1>37, <2>2 DEF LLMSpeaks, ProducerFinishes, Produces, StreamUnchanged
  <2> QED
    BY <1>37, <2>1, <2>2 DEF LLMSpeaks
<1>38. ASSUME NEW r \in Records, Record(r) PROVE Typed'
  BY <1>38 DEF Record, Done
<1>39. ASSUME UNCHANGED vars PROVE Typed'
  BY <1>39 DEF vars, pumpVars, outVars, answerVars, boundVars, streamVars
<1>40. ASSUME NEW s \in Senders, SendStep(s) PROVE Typed'
  BY <1>40, SendStepTyped
<1> QED
  BY <1>1, <1>2, <1>3, <1>4, <1>5, <1>6, <1>7, <1>8, <1>9, <1>10, <1>11, <1>12, <1>13,
     <1>14, <1>15, <1>16, <1>17, <1>18, <1>19, <1>20, <1>21, <1>22, <1>23, <1>24, <1>25,
     <1>26, <1>27, <1>28, <1>29, <1>30, <1>31, <1>32, <1>33, <1>34, <1>35, <1>36, <1>37,
     <1>38, <1>39, <1>40
     DEF Next, MainStep, ReaderStep, WriterStep, HearerStep, SpeakerStep, AnswerStep, LLMStep

-----------------------------------------------------------------------------
(* What the WaitGroup counts *)

Running(pump) == IF pump \in {"off", "exited"} THEN 0 ELSE 1

AllOff == reader = "off" /\ writer = "off" /\ hearer = "off" /\ speaker = "off"

NoneOff == reader # "off" /\ writer # "off" /\ hearer # "off" /\ speaker # "off"

AllExited == reader = "exited" /\ writer = "exited" /\ hearer = "exited" /\ speaker = "exited"

\* The counter is the number of pumps that run and of records under way; no record is
\* launched twice; and once Wait was woken the pumps and the records of transcripts are
\* over.  (That it is woken at zero is not enough: the record of an answer may raise the
\* counter again.)
Accounted ==
  /\ IsFiniteSet(recording)
  /\ wg = Running(reader) + Running(writer) + Running(hearer) + Running(speaker)
          + Cardinality(recording)
  /\ main = "start" => AllOff /\ recording = {}
  /\ main # "start" => NoneOff
  /\ \A n \in 1..MaxEvents :
       <<"transcript", n>> \in recording
         => n <= events /\ (hearer \in {"commit", "track"} => n < events)
  /\ \A a \in Answers : <<"answer", a>> \in recording => answer[a] \in {"release", "done"}
  /\ main = "start" => \A a \in Answers : answer[a] = "none"
  /\ main = "woken" \/ CleaningUp => AllExited /\ recording \cap Spoken = {}

LEMMA InitAccounted == Init => Accounted
<1> SUFFICES ASSUME Init PROVE Accounted
  OBVIOUS
<1>1. IsFiniteSet({}) /\ Cardinality({}) = 0
  BY FS_EmptySet
<1> QED
  BY <1>1 DEF Init, Accounted, AllOff, Running, CleaningUp

LEMMA CountedWaits == Accounted => wg \in Nat
<1> SUFFICES ASSUME Accounted PROVE wg \in Nat
  OBVIOUS
<1>1. Cardinality(recording) \in Nat
  BY FS_CardinalityType DEF Accounted
<1> QED
  BY <1>1 DEF Accounted, Running

LEMMA StepAccounted == Typed /\ Accounted /\ [Next]_vars => Accounted'
<1> SUFFICES ASSUME Typed, Accounted, [Next]_vars PROVE Accounted'
  OBVIOUS
<1>a. events \in Nat /\ answer \in [Answers -> AnswerPCs]
  BY LimitsAssumption DEF Typed, TypeOK
<1>b. recording \subseteq Records /\ hearer \in {"off", "select", "commit", "track", "exited"}
  BY DEF Typed, TypeOK
<1>c. Cardinality(recording) \in Nat
  BY FS_CardinalityType DEF Accounted
<1>d. hearer \in {"commit", "track"} => events > 0
  BY DEF Typed, WithinLimits
<1>e. Cardinality(recording) = 0 => recording = {}
  BY FS_EmptySet DEF Accounted
<1> USE <1>a, <1>c
    DEF Accounted, Running, AllOff, NoneOff, AllExited, CleaningUp,
        pumpVars, outVars, answerVars, boundVars, streamVars
<1>1. ASSUME Start PROVE Accounted'
  BY <1>1, FS_EmptySet DEF Start
<1>2. ASSUME Wait PROVE Accounted'
  <2>1. wg = 0 => AllExited /\ recording = {}
    <3> SUFFICES ASSUME wg = 0 PROVE AllExited /\ recording = {}
      OBVIOUS
    <3>1. Cardinality(recording) = 0
      BY <1>2 DEF Wait
    <3>2. recording = {}
      BY <3>1, FS_EmptySet
    <3> QED
      BY <1>2, <3>1, <3>2 DEF Wait
  <2> QED
    BY <1>2, <2>1 DEF Wait
<1>3. ASSUME Wake PROVE Accounted'
  <2>1. wg = 0 => AllExited /\ recording = {}
    <3> SUFFICES ASSUME wg = 0 PROVE AllExited /\ recording = {}
      OBVIOUS
    <3>1. Cardinality(recording) = 0
      BY <1>3 DEF Wake
    <3>2. recording = {}
      BY <3>1, FS_EmptySet
    <3> QED
      BY <1>3, <3>1, <3>2 DEF Wake
  <2> QED
    BY <1>3, <2>1 DEF Wake
<1>4. ASSUME CloseSTT PROVE Accounted'
  BY <1>4 DEF CloseSTT
<1>5. ASSUME DeleteSession PROVE Accounted'
  BY <1>5 DEF DeleteSession
<1>6. ASSUME CloseSession PROVE Accounted'
  BY <1>6 DEF CloseSession
<1>7. ASSUME ReaderTop PROVE Accounted'
  BY <1>7 DEF ReaderTop
<1>8. ASSUME ReaderExits PROVE Accounted'
  <2>1. /\ reader \in {"top", "blocked"} /\ reader' = "exited"
        /\ wg' = wg - 1 /\ main' = IF wg = 1 /\ main = "waiting" THEN "woken" ELSE main
        /\ UNCHANGED <<writer, hearer, speaker, recording, answer, events>>
    BY <1>8 DEF ReaderExits, Exit, Done
  <2> QED
    BY <2>1, <1>e
<1>9. ASSUME ReadsAudio PROVE Accounted'
  BY <1>9 DEF ReadsAudio, Reads, AnotherFrame
<1>10. ASSUME ReadsAndReplies PROVE Accounted'
  BY <1>10 DEF ReadsAndReplies, Reads, AnotherFrame
<1>11. ASSUME NEW a \in Answers, ReadsGenerate(a) PROVE Accounted'
  BY <1>11 DEF ReadsGenerate, Reads
<1>12. ASSUME NEW a \in Answers, RefusesGenerate(a) PROVE Accounted'
  BY <1>12 DEF RefusesGenerate, Reads
<1>13. ASSUME WriterSends PROVE Accounted'
  BY <1>13 DEF WriterSends, Writes, WriterUnchanged
<1>14. ASSUME WriterDrains PROVE Accounted'
  BY <1>14 DEF WriterDrains, Writes, WriterUnchanged
<1>15. ASSUME WriterExits PROVE Accounted'
  BY <1>15, <1>e DEF WriterExits, Exit, Done
<1>16. ASSUME ClientStops PROVE Accounted'
  BY <1>16 DEF ClientStops
<1>17. ASSUME HearsLate PROVE Accounted'
  BY <1>17 DEF HearsLate, AnotherEvent, Late
<1>18. ASSUME NEW final \in BOOLEAN, Hears(final) PROVE Accounted'
  BY <1>18 DEF Hears, AnotherEvent, Late
<1>19. ASSUME HearerCommits PROVE Accounted'
  BY <1>19 DEF HearerCommits
<1>20. ASSUME HearerTracks PROVE Accounted'
  <2>1. <<"transcript", events>> \notin recording
    BY <1>20, <1>b, <1>d DEF HearerTracks, Records
  <2>2. /\ IsFiniteSet(recording')
        /\ Cardinality(recording') = Cardinality(recording) + 1
    BY <1>20, <2>1, FS_AddElement DEF HearerTracks
  <2>3. main' # "woken" /\ ~CleaningUp'
    BY <1>20 DEF HearerTracks
  <2>4. main # "start"
    BY <1>20 DEF HearerTracks
  <2>5. \A n \in 1..MaxEvents : <<"transcript", n>> \in recording' => n <= events'
    BY <1>20 DEF HearerTracks
  <2>6. \A a \in Answers : <<"answer", a>> \in recording' => <<"answer", a>> \in recording
    BY <1>20 DEF HearerTracks
  <2> QED
    BY <1>20, <2>2, <2>3, <2>4, <2>5, <2>6 DEF HearerTracks
<1>21. ASSUME HearerExits PROVE Accounted'
  BY <1>21, <1>e DEF HearerExits, Exit, Done
<1>22. ASSUME SpeakerTakes PROVE Accounted'
  BY <1>22 DEF SpeakerTakes
<1>23. ASSUME SpeakerSent PROVE Accounted'
  BY <1>23 DEF SpeakerSent
<1>24. ASSUME SpeakerExits PROVE Accounted'
  BY <1>24, <1>e DEF SpeakerExits, Exit, Done
<1>25. ASSUME NEW a \in Answers, AnswerStarts(a) PROVE Accounted'
  BY <1>25 DEF AnswerStarts, At
<1>26. ASSUME NEW a \in Answers, AnswerRefused(a) PROVE Accounted'
  BY <1>26 DEF AnswerRefused, At
<1>27. ASSUME NEW a \in Answers, AnswerReceives(a) PROVE Accounted'
  BY <1>27 DEF AnswerReceives, At
<1>28. ASSUME NEW a \in Answers, AnswerFails(a) PROVE Accounted'
  BY <1>28 DEF AnswerFails, At
<1>29. ASSUME NEW a \in Answers, AnswerStreamed(a) PROVE Accounted'
  BY <1>29 DEF AnswerStreamed, At
<1>30. ASSUME NEW a \in Answers, AnswerAcks(a) PROVE Accounted'
  BY <1>30 DEF AnswerAcks, At
<1>31. ASSUME NEW a \in Answers, AnswerRemembered(a) PROVE Accounted'
  BY <1>31 DEF AnswerRemembered, At
<1>32. ASSUME NEW a \in Answers, AnswerTracks(a) PROVE Accounted'
  <2>1. <<"answer", a>> \notin recording
    BY <1>32 DEF AnswerTracks, At
  <2>2. /\ IsFiniteSet(recording')
        /\ Cardinality(recording') = Cardinality(recording) + 1
    BY <1>32, <2>1, FS_AddElement DEF AnswerTracks
  <2>3. recording' \cap Spoken = recording \cap Spoken
    BY <1>32 DEF AnswerTracks, Spoken
  <2>4. main # "start"
    BY <1>32 DEF AnswerTracks, At
  <2>5. \A n \in 1..MaxEvents :
          <<"transcript", n>> \in recording' => <<"transcript", n>> \in recording
    BY <1>32 DEF AnswerTracks
  <2>6. \A b \in Answers : <<"answer", b>> \in recording' => b = a \/ <<"answer", b>> \in recording
    BY <1>32 DEF AnswerTracks
  <2> QED
    BY <1>32, <2>2, <2>3, <2>4, <2>5, <2>6 DEF AnswerTracks, At
<1>33. ASSUME NEW a \in Answers, AnswerReleases(a) PROVE Accounted'
  BY <1>33 DEF AnswerReleases, At
<1>34. ASSUME NEW a \in Answers, GenerationTimesOut(a) PROVE Accounted'
  BY <1>34 DEF GenerationTimesOut
<1>35. ASSUME NEW a \in Answers, LLMStops(a) PROVE Accounted'
  BY <1>35 DEF LLMStops, StreamUnchanged
<1>36. ASSUME NEW a \in Answers, LLMPuts(a) PROVE Accounted'
  BY <1>36 DEF LLMPuts, StreamUnchanged
<1>37. ASSUME NEW a \in Answers, LLMSpeaks(a) PROVE Accounted'
  BY <1>37 DEF LLMSpeaks, StreamUnchanged
<1>38. ASSUME NEW r \in Records, Record(r) PROVE Accounted'
  <2>1. /\ IsFiniteSet(recording')
        /\ Cardinality(recording') = Cardinality(recording) - 1
    BY <1>38, FS_RemoveElement DEF Record
  <2>2. recording' \subseteq recording /\ recording # {}
    BY <1>38 DEF Record
  <2>3. Cardinality(recording') = 0 => recording' = {}
    BY <2>1, FS_EmptySet
  <2>4. wg' = wg - 1 /\ wg' = Running(reader) + Running(writer) + Running(hearer)
                               + Running(speaker) + Cardinality(recording')
    BY <1>38, <2>1 DEF Record, Done
  <2>5. CASE wg = 1 /\ main = "waiting"
    <3>1. AllExited /\ Cardinality(recording') = 0
      <4>1. Cardinality(recording') \in Nat
        BY <2>1, FS_CardinalityType
      <4> QED
        BY <2>1, <2>4, <2>5, <4>1
    <3> QED
      BY <1>38, <2>1, <2>2, <2>3, <2>4, <2>5, <3>1 DEF Record, Done
  <2>6. CASE ~(wg = 1 /\ main = "waiting")
    BY <1>38, <2>1, <2>2, <2>4, <2>6 DEF Record, Done
  <2> QED
    BY <2>5, <2>6
<1>39. ASSUME UNCHANGED vars PROVE Accounted'
  BY <1>39 DEF vars, pumpVars, outVars, answerVars, boundVars, streamVars
<1>40. ASSUME NEW s \in Senders, SendStep(s) PROVE Accounted'
  BY <1>40, SendLeaves
<1> QED
  BY <1>1, <1>2, <1>3, <1>4, <1>5, <1>6, <1>7, <1>8, <1>9, <1>10, <1>11, <1>12, <1>13,
     <1>14, <1>15, <1>16, <1>17, <1>18, <1>19, <1>20, <1>21, <1>22, <1>23, <1>24, <1>25,
     <1>26, <1>27, <1>28, <1>29, <1>30, <1>31, <1>32, <1>33, <1>34, <1>35, <1>36, <1>37,
     <1>38, <1>39, <1>40
     DEF Next, MainStep, ReaderStep, WriterStep, HearerStep, SpeakerStep, AnswerStep, LLMStep

-----------------------------------------------------------------------------
(* The slots of the semaphore *)

Busy == {a \in Answers : answer[a] \notin {"none", "done"}}

\* Every slot taken is that of one answer under way.
Limited == IsFiniteSet(Busy) /\ slots = Cardinality(Busy) /\ slots <= MaxConcurrent

LEMMA InitLimited == Init => Limited
<1> SUFFICES ASSUME Init PROVE Limited
  OBVIOUS
<1>1. Busy = {}
  BY DEF Init, Busy
<1> QED
  BY <1>1, FS_EmptySet, LimitsAssumption DEF Init, Limited

LEMMA SlotsInRange == Limited => slots \in 0..MaxConcurrent
  BY FS_CardinalityType, LimitsAssumption DEF Limited

\* An answer that moves from one step of the work to the next keeps its slot.
LEMMA StillBusy ==
  ASSUME Limited, NEW a \in Answers, NEW here, NEW there, At(a, here, there),
         here \notin {"none", "done"}, there \notin {"none", "done"},
         answer \in [Answers -> AnswerPCs], UNCHANGED slots
  PROVE  Limited'
<1>1. Busy' = Busy
  BY DEF At, Busy
<1> QED
  BY <1>1 DEF Limited

LEMMA StepLimited == Typed /\ Limited /\ [Next]_vars => Limited'
<1> SUFFICES ASSUME Typed, Limited, [Next]_vars PROVE Limited'
  OBVIOUS
<1>a. answer \in [Answers -> AnswerPCs] /\ slots \in Int /\ Cardinality(Busy) \in Nat
  BY FS_CardinalityType, LimitsAssumption DEF Typed, TypeOK, Limited
<1>b. ASSUME UNCHANGED <<answer, slots>> PROVE Limited'
  BY <1>b DEF Limited, Busy
<1>1. ASSUME Start PROVE Limited'
  BY <1>1, <1>b DEF Start, answerVars
<1>2. ASSUME Wait PROVE Limited'
  BY <1>2, <1>b DEF Wait, answerVars
<1>3. ASSUME Wake PROVE Limited'
  BY <1>3, <1>b DEF Wake, answerVars
<1>4. ASSUME CloseSTT PROVE Limited'
  BY <1>4, <1>b DEF CloseSTT, answerVars
<1>5. ASSUME DeleteSession PROVE Limited'
  BY <1>5, <1>b DEF DeleteSession, answerVars
<1>6. ASSUME CloseSession PROVE Limited'
  BY <1>6, <1>b DEF CloseSession, answerVars
<1>7. ASSUME ReaderTop PROVE Limited'
  BY <1>7, <1>b DEF ReaderTop, answerVars
<1>8. ASSUME ReaderExits PROVE Limited'
  BY <1>8, <1>b DEF ReaderExits, answerVars
<1>9. ASSUME ReadsAudio PROVE Limited'
  BY <1>9, <1>b DEF ReadsAudio, Reads, answerVars
<1>10. ASSUME ReadsAndReplies PROVE Limited'
  BY <1>10, <1>b DEF ReadsAndReplies, Reads, answerVars
<1>11. ASSUME NEW a \in Answers, ReadsGenerate(a) PROVE Limited'
  <2>1. a \notin Busy
    BY <1>11 DEF ReadsGenerate, Busy
  <2>2. Busy' = Busy \cup {a}
    BY <1>11, <1>a DEF ReadsGenerate, Busy
  <2>3. IsFiniteSet(Busy') /\ Cardinality(Busy') = Cardinality(Busy) + 1
    BY <2>1, <2>2, FS_AddElement DEF Limited
  <2> QED
    BY <1>11, <1>a, <2>3, LimitsAssumption DEF ReadsGenerate, Limited
<1>12. ASSUME NEW a \in Answers, RefusesGenerate(a) PROVE Limited'
  <2>1. Busy' = Busy
    BY <1>12, <1>a DEF RefusesGenerate, Busy
  <2> QED
    BY <1>12, <2>1 DEF RefusesGenerate, Limited
<1>13. ASSUME WriterSends PROVE Limited'
  BY <1>13, <1>b DEF WriterSends, WriterUnchanged, answerVars
<1>14. ASSUME WriterDrains PROVE Limited'
  BY <1>14, <1>b DEF WriterDrains, WriterUnchanged, answerVars
<1>15. ASSUME WriterExits PROVE Limited'
  BY <1>15, <1>b DEF WriterExits, answerVars
<1>16. ASSUME ClientStops PROVE Limited'
  BY <1>16, <1>b DEF ClientStops, answerVars
<1>17. ASSUME HearsLate PROVE Limited'
  BY <1>17, <1>b DEF HearsLate, answerVars
<1>18. ASSUME NEW final \in BOOLEAN, Hears(final) PROVE Limited'
  BY <1>18, <1>b DEF Hears, answerVars
<1>19. ASSUME HearerCommits PROVE Limited'
  BY <1>19, <1>b DEF HearerCommits, answerVars
<1>20. ASSUME HearerTracks PROVE Limited'
  BY <1>20, <1>b DEF HearerTracks, answerVars
<1>21. ASSUME HearerExits PROVE Limited'
  BY <1>21, <1>b DEF HearerExits, answerVars
<1>22. ASSUME SpeakerTakes PROVE Limited'
  BY <1>22, <1>b DEF SpeakerTakes, answerVars
<1>23. ASSUME SpeakerSent PROVE Limited'
  BY <1>23, <1>b DEF SpeakerSent, answerVars
<1>24. ASSUME SpeakerExits PROVE Limited'
  BY <1>24, <1>b DEF SpeakerExits, answerVars
<1>25. ASSUME NEW a \in Answers, AnswerStarts(a) PROVE Limited'
  BY <1>25, <1>a, StillBusy DEF AnswerStarts
<1>26. ASSUME NEW a \in Answers, AnswerRefused(a) PROVE Limited'
  BY <1>26, <1>a, StillBusy DEF AnswerRefused
<1>27. ASSUME NEW a \in Answers, AnswerReceives(a) PROVE Limited'
  BY <1>27, <1>a, StillBusy DEF AnswerReceives
<1>28. ASSUME NEW a \in Answers, AnswerFails(a) PROVE Limited'
  BY <1>28, <1>a, StillBusy DEF AnswerFails
<1>29. ASSUME NEW a \in Answers, AnswerStreamed(a) PROVE Limited'
  BY <1>29, <1>a, StillBusy DEF AnswerStreamed
<1>30. ASSUME NEW a \in Answers, AnswerAcks(a) PROVE Limited'
  BY <1>30, <1>a, StillBusy DEF AnswerAcks
<1>31. ASSUME NEW a \in Answers, AnswerRemembered(a) PROVE Limited'
  BY <1>31, <1>a, StillBusy DEF AnswerRemembered
<1>32. ASSUME NEW a \in Answers, AnswerTracks(a) PROVE Limited'
  BY <1>32, <1>a, StillBusy DEF AnswerTracks
<1>33. ASSUME NEW a \in Answers, AnswerReleases(a) PROVE Limited'
  <2>1. a \in Busy
    BY <1>33 DEF AnswerReleases, At, Busy
  <2>2. Busy' = Busy \ {a}
    BY <1>33, <1>a DEF AnswerReleases, At, Busy
  <2>3. IsFiniteSet(Busy') /\ Cardinality(Busy') = Cardinality(Busy) - 1
    BY <2>1, <2>2, FS_RemoveElement DEF Limited
  <2> QED
    BY <1>33, <1>a, <2>3, LimitsAssumption DEF AnswerReleases, Limited
<1>34. ASSUME NEW a \in Answers, GenerationTimesOut(a) PROVE Limited'
  BY <1>34, <1>b DEF GenerationTimesOut
<1>35. ASSUME NEW a \in Answers, LLMStops(a) PROVE Limited'
  BY <1>35, <1>b DEF LLMStops, StreamUnchanged
<1>36. ASSUME NEW a \in Answers, LLMPuts(a) PROVE Limited'
  BY <1>36, <1>b DEF LLMPuts, StreamUnchanged
<1>37. ASSUME NEW a \in Answers, LLMSpeaks(a) PROVE Limited'
  BY <1>37, <1>b DEF LLMSpeaks, StreamUnchanged
<1>38. ASSUME NEW r \in Records, Record(r) PROVE Limited'
  BY <1>38, <1>b DEF Record, answerVars
<1>39. ASSUME UNCHANGED vars PROVE Limited'
  BY <1>39, <1>b DEF vars, pumpVars, outVars, answerVars, boundVars, streamVars
<1>40. ASSUME NEW s \in Senders, SendStep(s) PROVE Limited'
  BY <1>40, <1>b, SendLeaves
<1> QED
  BY <1>1, <1>2, <1>3, <1>4, <1>5, <1>6, <1>7, <1>8, <1>9, <1>10, <1>11, <1>12, <1>13,
     <1>14, <1>15, <1>16, <1>17, <1>18, <1>19, <1>20, <1>21, <1>22, <1>23, <1>24, <1>25,
     <1>26, <1>27, <1>28, <1>29, <1>30, <1>31, <1>32, <1>33, <1>34, <1>35, <1>36, <1>37,
     <1>38, <1>39, <1>40
     DEF Next, MainStep, ReaderStep, WriterStep, HearerStep, SpeakerStep, AnswerStep, LLMStep

-----------------------------------------------------------------------------
(* The drops *)

\* The goroutines about to count a drop, and those whose count was past the limit.
Counting == {s \in Senders : sending[s] = "count"}
Cancelling == {s \in Senders : sending[s] = "cancel"}

\* Only answers under way send.  A count past the limit has a goroutine that is about to
\* cancel for it; once cancelled, those that are yet to count are all that may.
Dropped ==
  /\ \A a \in Answers : ~Idle(a) => a \in Busy
  /\ ~cancelled => drops <= MaxDrops + Cardinality(Cancelling)
  /\ cancelled => drops + Cardinality(Counting) <= MaxDrops + 2 + MaxConcurrent

\* The two pumps and the answers under way are all that may be in sendMessage.
LEMMA FewSend ==
  ASSUME Limited, Dropped
  PROVE  /\ IsFiniteSet(Counting) /\ IsFiniteSet(Cancelling)
         /\ Cardinality(Counting) \in Nat /\ Cardinality(Cancelling) \in Nat
         /\ Cardinality(Counting) + Cardinality(Cancelling) <= 2 + MaxConcurrent
<1> DEFINE Two == (Busy \cup {"reader"}) \cup {"hearer"}
<1>1. Counting \cup Cancelling \subseteq Two
  BY DEF Counting, Cancelling, Senders, Dropped, Idle
<1>a. ASSUME NEW S, NEW x, IsFiniteSet(S)
      PROVE  /\ IsFiniteSet(S \cup {x})
             /\ Cardinality(S) \in Nat /\ Cardinality(S \cup {x}) \in Nat
             /\ Cardinality(S \cup {x}) <= Cardinality(S) + 1
  <2>1. /\ IsFiniteSet(S \cup {x})
        /\ Cardinality(S \cup {x}) = IF x \in S THEN Cardinality(S) ELSE Cardinality(S) + 1
    BY <1>a, FS_AddElement
  <2>2. Cardinality(S) \in Nat /\ Cardinality(S \cup {x}) \in Nat
    BY <1>a, <2>1, FS_CardinalityType
  <2> QED
    BY <2>1, <2>2
<1>2. IsFiniteSet(Two) /\ Cardinality(Two) <= 2 + Cardinality(Busy)
  <2>1. /\ IsFiniteSet(Busy \cup {"reader"}) /\ Cardinality(Busy) \in Nat
        /\ Cardinality(Busy \cup {"reader"}) <= Cardinality(Busy) + 1
    BY <1>a DEF Limited
  <2>2. /\ IsFiniteSet(Two) /\ Cardinality(Two) \in Nat
        /\ Cardinality(Busy \cup {"reader"}) \in Nat
        /\ Cardinality(Two) <= Cardinality(Busy \cup {"reader"}) + 1
    BY <1>a, <2>1
  <2> QED
    BY <2>1, <2>2
<1> HIDE DEF Two
<1>3. IsFiniteSet(Counting) /\ IsFiniteSet(Cancelling)
      /\ Cardinality(Counting \cup Cancelling) <= Cardinality(Two)
  BY <1>1, <1>2, FS_Subset
<1>4. Counting \cap Cancelling = {}
  BY DEF Counting, Cancelling
<1>5. Cardinality(Counting \cup Cancelling) = Cardinality(Counting) + Cardinality(Cancelling)
  <2>1. /\ Cardinality(Counting \cup Cancelling)
             = Cardinality(Counting) + Cardinality(Cancelling) - Cardinality(Counting \cap Cancelling)
    BY <1>3, FS_Union
  <2>2. Cardinality(Counting \cap Cancelling) = 0
    BY <1>4, FS_EmptySet
  <2> QED
    BY <1>3, <2>1, <2>2, FS_CardinalityType
<1>6. /\ Cardinality(Counting) \in Nat /\ Cardinality(Cancelling) \in Nat
      /\ Cardinality(Two) \in Nat /\ Cardinality(Busy) \in Nat
  BY <1>2, <1>3, FS_CardinalityType DEF Limited
<1>7. slots = Cardinality(Busy) /\ slots <= MaxConcurrent
  BY DEF Limited
<1> QED
  BY <1>2, <1>3, <1>5, <1>6, <1>7, LimitsAssumption

LEMMA InitDropped == Init => Dropped
<1> SUFFICES ASSUME Init PROVE Dropped
  OBVIOUS
<1>1. Cancelling = {}
  BY DEF Init, Cancelling
<1>2. Cardinality(Cancelling) = 0
  BY <1>1, FS_EmptySet
<1> QED
  BY <1>2, SendersHere, LimitsAssumption DEF Init, Dropped, Idle

\* A step outside sendMessage, or a call of it.
LEMMA CountStays ==
  ASSUME Typed, Limited, Dropped, UNCHANGED drops, cancelled => cancelled',
         Counting' = Counting, Cancelling' = Cancelling,
         \A a \in Answers : ~Idle(a)' => a \in Busy'
  PROVE  Dropped'
<1>1. drops \in Nat
  BY DEF Typed, TypeOK
<1> QED
  BY <1>1, FewSend, LimitsAssumption DEF Dropped

\* One less.
LEMMA Leaves ==
  ASSUME NEW S, IsFiniteSet(S), NEW s \in S
  PROVE  Cardinality(S \ {s}) = Cardinality(S) - 1
BY FS_RemoveElement

LEMMA SendStepDropped ==
  ASSUME Typed, Limited, Dropped, NEW s \in Senders, SendStep(s)
  PROVE  Dropped'
<1>t. sending \in [Senders -> SendPCs] /\ drops \in Nat /\ MaxDrops \in Nat /\ MaxConcurrent \in Nat
  BY LimitsAssumption DEF Typed, TypeOK
<1>f. /\ IsFiniteSet(Counting) /\ IsFiniteSet(Cancelling)
      /\ Cardinality(Counting) \in Nat /\ Cardinality(Cancelling) \in Nat
      /\ Cardinality(Counting) + Cardinality(Cancelling) <= 2 + MaxConcurrent
  BY FewSend
<1>b. \A a \in Answers : ~Idle(a)' => a \in Busy'
  <2>1. \A a \in Answers : ~Idle(a)' => ~Idle(a)
    BY <1>t, SendersHere
       DEF Idle, SendStep, Buffers, GivesUp, Overflows, Resets, Counts, Cancels, Sends
  <2>2. Busy' = Busy
    BY SendLeaves DEF Busy
  <2> QED
    BY <2>1, <2>2 DEF Dropped
<1>1. CASE Buffers(s) \/ GivesUp(s)
  <2>1. Counting' = Counting /\ Cancelling' = Cancelling /\ UNCHANGED <<drops, cancelled>>
    BY <1>1, <1>t DEF Buffers, GivesUp, Sends, Counting, Cancelling
  <2> QED
    BY <1>b, <2>1, CountStays
<1>2. CASE Overflows(s)
  <2>1. Cancelling' = Cancelling /\ UNCHANGED <<drops, cancelled>> /\ ~cancelled
    BY <1>2, <1>t DEF Overflows, Sends, Cancelling
  <2> QED
    BY <1>b, <2>1 DEF Dropped
<1>3. CASE Resets(s)
  <2>1. Counting' = Counting /\ Cancelling' = Cancelling /\ cancelled' = cancelled /\ drops' = 0
    BY <1>3, <1>t DEF Resets, Sends, Counting, Cancelling
  <2> QED
    BY <1>b, <1>f, <1>t, <2>1 DEF Dropped
<1>4. CASE Counts(s)
  <2>1. /\ s \in Counting /\ Counting' = Counting \ {s}
        /\ cancelled' = cancelled /\ drops' = drops + 1
    BY <1>4, <1>t DEF Counts, Sends, Counting
  <2>2. Cardinality(Counting') = Cardinality(Counting) - 1
    BY <1>f, <2>1, Leaves
  <2>3. CASE drops + 1 > MaxDrops
    <3>1. s \notin Cancelling /\ Cancelling' = Cancelling \cup {s}
      BY <1>4, <1>t, <2>3 DEF Counts, Sends, Cancelling
    <3>2. Cardinality(Cancelling') = Cardinality(Cancelling) + 1
      BY <1>f, <3>1, FS_AddElement
    <3> QED
      BY <1>b, <1>f, <1>t, <2>1, <2>2, <3>2 DEF Dropped
  <2>4. CASE ~(drops + 1 > MaxDrops)
    <3>1. Cancelling' = Cancelling
      BY <1>4, <1>t, <2>4 DEF Counts, Sends, Cancelling
    <3> QED
      BY <1>b, <1>f, <1>t, <2>1, <2>2, <2>4, <3>1 DEF Dropped
  <2> QED
    BY <2>3, <2>4
<1>5. CASE Cancels(s)
  <2>1. Counting' = Counting /\ cancelled' /\ drops' = drops
    BY <1>5, <1>t DEF Cancels, Sends, Counting
  <2> QED
    BY <1>b, <1>f, <1>t, <2>1 DEF Dropped
<1> QED
  BY <1>1, <1>2, <1>3, <1>4, <1>5 DEF SendStep

LEMMA StepDropped == Typed /\ Limited /\ Dropped /\ [Next]_vars => Dropped'
<1> SUFFICES ASSUME Typed, Limited, Dropped, [Next]_vars PROVE Dropped'
  OBVIOUS
<1>t. /\ sending \in [Senders -> SendPCs] /\ answer \in [Answers -> AnswerPCs]
      /\ "reader" \in Senders /\ "hearer" \in Senders /\ Answers \subseteq Senders
      /\ "reader" \notin Answers /\ "hearer" \notin Answers
  BY SendersHere, SendersAssumption DEF Typed, TypeOK
\* No goroutine moves in sendMessage.
<1>a. ASSUME UNCHANGED <<sending, drops>>, cancelled => cancelled',
             \A a \in Answers : ~Idle(a) /\ a \in Busy => a \in Busy'
      PROVE  Dropped'
  <2>1. Counting' = Counting /\ Cancelling' = Cancelling
        /\ \A a \in Answers : ~Idle(a)' => a \in Busy'
    BY <1>a DEF Counting, Cancelling, Idle, Dropped
  <2> QED
    BY <1>a, <2>1, CountStays
\* One calls it, or not.
<1>b. ASSUME NEW s \in Senders, NEW m, SendMessage(s, m), s \in Answers => s \in Busy',
             \A a \in Answers \ {s} : ~Idle(a) /\ a \in Busy => a \in Busy'
      PROVE  Dropped'
  <2>1. Counting' = Counting /\ Cancelling' = Cancelling /\ UNCHANGED <<drops, cancelled>>
    BY <1>b, <1>t DEF SendMessage, Idle, Counting, Cancelling
  <2>2. \A a \in Answers : ~Idle(a)' => a \in Busy'
    BY <1>b, <1>t DEF SendMessage, Idle, Dropped
  <2> QED
    BY <2>1, <2>2, CountStays
<1>c. ASSUME UNCHANGED answer PROVE Busy' = Busy
  BY <1>c DEF Busy
<1> USE DEF outVars, answerVars
<1>1. ASSUME MainStep PROVE Dropped'
  BY <1>1, <1>a, <1>c
     DEF MainStep, Start, Wait, Wake, CloseSTT, DeleteSession, CloseSession
<1>2. ASSUME ReaderTop \/ ReaderExits \/ ReadsAudio PROVE Dropped'
  BY <1>2, <1>a, <1>c DEF ReaderTop, ReaderExits, Exit, ReadsAudio, Reads
<1>3. ASSUME ReadsAndReplies PROVE Dropped'
  BY <1>3, <1>b, <1>c, <1>t DEF ReadsAndReplies
<1>4. ASSUME NEW a \in Answers, ReadsGenerate(a) PROVE Dropped'
  <2>1. Busy \subseteq Busy'
    BY <1>4, <1>t DEF ReadsGenerate, Busy
  <2> QED
    BY <1>4, <1>a, <2>1 DEF ReadsGenerate, Reads
<1>5. ASSUME NEW a \in Answers, RefusesGenerate(a) PROVE Dropped'
  <2>1. Busy \subseteq Busy'
    BY <1>5, <1>t DEF RefusesGenerate, Busy
  <2> QED
    BY <1>5, <1>b, <1>t, <2>1 DEF RefusesGenerate
<1>6. ASSUME WriterStep PROVE Dropped'
  BY <1>6, <1>a, <1>c
     DEF WriterStep, WriterSends, WriterDrains, WriterUnchanged, WriterExits, Exit
<1>7. ASSUME HearsLate \/ HearerCommits \/ HearerTracks \/ HearerExits PROVE Dropped'
  BY <1>7, <1>a, <1>c DEF HearsLate, HearerCommits, HearerTracks, HearerExits, Exit
<1>8. ASSUME NEW final \in BOOLEAN, Hears(final) PROVE Dropped'
  BY <1>8, <1>b, <1>c, <1>t DEF Hears
<1>9. ASSUME SpeakerStep PROVE Dropped'
  BY <1>9, <1>a, <1>c DEF SpeakerStep, SpeakerTakes, SpeakerSent, SpeakerExits, Exit
\* An answer goes on, and may send as long as it is under way.
<1>d. ASSUME NEW a \in Answers, NEW here, NEW there, At(a, here, there), there # "none"
      PROVE  /\ Idle(a)
             /\ \A b \in Answers \ {a} : b \in Busy => b \in Busy'
             /\ there # "done" => a \in Busy'
  BY <1>d, <1>t DEF At, Busy
<1>10. ASSUME NEW a \in Answers, AnswerStep(a) PROVE Dropped'
  <2>1. CASE UNCHANGED <<cancelled, outVars>>
    <3>1. Idle(a) /\ \A b \in Answers \ {a} : b \in Busy => b \in Busy'
      BY <1>10, <1>d
         DEF AnswerStep, AnswerStarts, AnswerRefused, AnswerReceives, AnswerFails,
             AnswerStreamed, AnswerAcks, AnswerRemembered, AnswerTracks, AnswerReleases
    <3> QED
      BY <1>a, <2>1, <3>1
  <2>2. CASE SendMessage(a, Reply) /\ (AnswerRefused(a) \/ AnswerReceives(a)
                                        \/ AnswerFails(a) \/ AnswerAcks(a))
    <3>1. a \in Busy' /\ \A b \in Answers \ {a} : b \in Busy => b \in Busy'
      BY <2>2, <1>d DEF AnswerRefused, AnswerReceives, AnswerFails, AnswerAcks
    <3> QED
      BY <1>b, <1>t, <2>2, <3>1
  <2> QED
    BY <1>10, <2>1, <2>2
       DEF AnswerStep, AnswerStarts, AnswerRefused, AnswerReceives, AnswerFails,
           AnswerStreamed, AnswerAcks, AnswerRemembered, AnswerTracks, AnswerReleases
<1>11. ASSUME NEW a \in Answers, LLMStep(a) \/ GenerationTimesOut(a) PROVE Dropped'
  BY <1>11, <1>a, <1>c
     DEF LLMStep, LLMSpeaks, LLMPuts, LLMStops, StreamUnchanged, GenerationTimesOut
<1>12. ASSUME NEW r \in Records, Record(r) PROVE Dropped'
  BY <1>12, <1>a, <1>c DEF Record
<1>13. ASSUME ClientStops \/ UNCHANGED vars PROVE Dropped'
  BY <1>13, <1>a, <1>c DEF ClientStops, vars
<1>14. ASSUME NEW s \in Senders, SendStep(s) PROVE Dropped'
  BY <1>14, SendStepDropped
<1> QED
  BY <1>1, <1>2, <1>3, <1>4, <1>5, <1>6, <1>7, <1>8, <1>9, <1>10, <1>11, <1>12, <1>13, <1>14
     DEF Next, ReaderStep, HearerStep

-----------------------------------------------------------------------------
(* The order of the transcripts *)

\* Nothing that is shown or queued is later than the last event heard, and the only
\* numbered frame in hand is that event's: so it may go to the end of the queue, whatever
\* the other goroutines put there before it.
QueueInOrder ==
  /\ shown <= lastSeq
  /\ \A i \in DOMAIN send : /\ send[i] <= lastSeq
                            /\ send[i] > 0 => shown <= send[i]
  /\ \A i, j \in DOMAIN send : i < j /\ send[j] > 0 => send[i] <= send[j]

HandInOrder ==
  \A s \in Senders :
    outgoing[s] # Reply => s = "hearer" /\ sending[s] = "offer" /\ outgoing[s] = lastSeq

InOrder == QueueInOrder /\ HandInOrder

LEMMA InitInOrder == Init => InOrder
  BY DEF Init, InOrder, QueueInOrder, HandInOrder

LEMMA Numbers ==
  ASSUME TypeOK
  PROVE  /\ send \in Seq(Frame) /\ lastSeq \in Nat /\ shown \in Nat
         /\ \A i \in DOMAIN send : send[i] \in Nat
<1>1. Frame \subseteq Nat /\ lastSeq \in Nat /\ shown \in Nat
  BY LimitsAssumption DEF TypeOK, Frame, Reply
<1>2. send \in Seq(Frame)
  BY DEF TypeOK
<1>3. \A i \in DOMAIN send : send[i] \in Frame
  BY <1>2
<1> QED
  BY <1>1, <1>2, <1>3

\* The last event, or a frame without a number, keeps the order at the end of the queue.
LEMMA BufferInOrder ==
  ASSUME Typed, QueueInOrder, NEW m \in Frame, send' = Append(send, m),
         UNCHANGED <<shown, lastSeq>>, m # Reply => m = lastSeq
  PROVE  QueueInOrder'
<1>a. /\ send \in Seq(Frame) /\ lastSeq \in Nat /\ shown \in Nat /\ m \in Nat
      /\ \A i \in DOMAIN send : send[i] \in Nat
  BY Numbers, LimitsAssumption DEF Typed, Frame, Reply
<1>b. m <= lastSeq /\ (m > 0 => m = lastSeq)
  BY <1>a DEF Reply
<1>1. /\ DOMAIN send' = DOMAIN send \cup {Len(send) + 1}
      /\ \A i \in DOMAIN send : send'[i] = send[i] /\ i < Len(send) + 1
      /\ send'[Len(send) + 1] = m
  BY <1>a
<1>2. \A i, j \in DOMAIN send' : i < j => i \in DOMAIN send
  BY <1>a
<1> QED
  BY <1>1, <1>2, <1>a, <1>b DEF QueueInOrder

LEMMA SendStepInOrder ==
  ASSUME Typed, InOrder, NEW s \in Senders, SendStep(s)
  PROVE  InOrder'
<1>a. UNCHANGED <<shown, lastSeq>>
  BY SendLeaves
<1>t. sending \in [Senders -> SendPCs] /\ outgoing \in [Senders -> Frame]
  BY DEF Typed, TypeOK
<1>1. QueueInOrder'
  <2>1. CASE UNCHANGED send
    BY <1>a, <2>1 DEF InOrder, QueueInOrder
  <2>2. CASE Buffers(s)
    BY <1>a, <1>t, <2>2, BufferInOrder DEF Buffers, InOrder, HandInOrder
  <2> QED
    BY <2>1, <2>2 DEF SendStep, GivesUp, Overflows, Resets, Counts, Cancels
<1>2. HandInOrder'
  <2>1. /\ outgoing' = [outgoing EXCEPT ![s] = Reply]
        /\ \A r \in Senders \ {s} : sending'[r] = sending[r]
    BY <1>t DEF SendStep, Buffers, GivesUp, Overflows, Resets, Counts, Cancels, Sends
  <2> QED
    BY <1>a, <1>t, <2>1 DEF InOrder, HandInOrder
<1> QED
  BY <1>1, <1>2 DEF InOrder

\* A call of sendMessage with a frame without a number.
LEMMA OfferInOrder ==
  ASSUME Typed, InOrder, NEW s \in Senders, SendMessage(s, Reply), UNCHANGED <<shown, lastSeq>>
  PROVE  InOrder'
<1>t. sending \in [Senders -> SendPCs] /\ outgoing \in [Senders -> Frame]
  BY DEF Typed, TypeOK
<1>1. QueueInOrder'
  BY DEF SendMessage, InOrder, QueueInOrder
<1>2. HandInOrder'
  BY <1>t DEF SendMessage, InOrder, HandInOrder
<1> QED
  BY <1>1, <1>2 DEF InOrder

\* An event that is not late is offered.
LEMMA EventInOrder ==
  ASSUME Typed, InOrder, NEW n \in Sequences, SendMessage("hearer", n), UNCHANGED shown,
         lastSeq' = IF n > 0 THEN n ELSE lastSeq, ~Late(n)
  PROVE  InOrder'
<1>t. /\ sending \in [Senders -> SendPCs] /\ outgoing \in [Senders -> Frame]
      /\ "hearer" \in Senders
  BY SendersHere DEF Typed, TypeOK
<1>a. /\ send \in Seq(Frame) /\ lastSeq \in Nat /\ shown \in Nat /\ n \in Nat
      /\ \A i \in DOMAIN send : send[i] \in Nat
  BY Numbers, LimitsAssumption DEF Typed
<1>b. lastSeq <= lastSeq' /\ (n > 0 => lastSeq' = n)
  BY <1>a DEF Late
<1>1. QueueInOrder'
  BY <1>a, <1>b DEF SendMessage, InOrder, QueueInOrder
<1>2. \A s \in Senders : outgoing[s] = Reply
  BY DEF SendMessage, Idle, InOrder, HandInOrder
<1>3. HandInOrder'
  BY <1>t, <1>a, <1>b, <1>2 DEF SendMessage, HandInOrder, Reply
<1> QED
  BY <1>1, <1>3 DEF InOrder

\* So does the head of the queue going out.
LEMMA WriteInOrder ==
  ASSUME Typed, InOrder, Writes, UNCHANGED <<lastSeq, sending, outgoing>>
  PROVE  InOrder'
<1>a. /\ send \in Seq(Frame) /\ lastSeq \in Nat /\ shown \in Nat
      /\ \A i \in DOMAIN send : send[i] \in Nat
  BY Numbers DEF Typed
<1>1. /\ 1 \in DOMAIN send
      /\ Head(send) = send[1]
      /\ \A i \in DOMAIN send' :
           i \in Nat /\ i + 1 \in DOMAIN send /\ send'[i] = send[i + 1] /\ 1 < i + 1
  BY <1>a DEF Writes
<1>3. \A i, j \in DOMAIN send' : i < j /\ send'[j] > 0 => send'[i] <= send'[j]
  BY <1>1, <1>a DEF InOrder, QueueInOrder
<1>4. \A i \in DOMAIN send' : send'[i] <= lastSeq'
  BY <1>1 DEF InOrder, QueueInOrder
<1>5. shown' <= lastSeq'
  BY <1>1 DEF InOrder, QueueInOrder, Writes
<1>6. \A i \in DOMAIN send' : send'[i] > 0 => shown' <= send'[i]
  BY <1>1, <1>a DEF InOrder, QueueInOrder, Writes
<1>7. HandInOrder'
  BY DEF InOrder, HandInOrder
<1> QED
  BY <1>3, <1>4, <1>5, <1>6, <1>7 DEF InOrder, QueueInOrder

LEMMA OrderFollows == TypeOK /\ InOrder => TranscriptsInOrder
<1> SUFFICES ASSUME TypeOK, InOrder,
                    NEW i \in DOMAIN Order, NEW j \in DOMAIN Order, i < j, Order[j] > 0
             PROVE  Order[i] <= Order[j]
  BY DEF TranscriptsInOrder
<1>1. /\ send \in Seq(Frame) /\ shown \in Nat
      /\ \A k \in DOMAIN send : send[k] \in Nat
  BY Numbers
<1>2. /\ DOMAIN Order = 1..(Len(send) + 1)
      /\ Order[1] = shown
      /\ \A k \in 2..(Len(send) + 1) : Order[k] = send[k - 1] /\ k - 1 \in DOMAIN send
  BY <1>1 DEF Order
<1> QED
  BY <1>1, <1>2 DEF InOrder, QueueInOrder

LEMMA StepInOrder == Typed /\ InOrder /\ [Next]_vars => InOrder'
<1> SUFFICES ASSUME Typed, InOrder, [Next]_vars PROVE InOrder'
  OBVIOUS
<1>a. ASSUME UNCHANGED <<send, shown, lastSeq, sending, outgoing>> PROVE InOrder'
  BY <1>a DEF InOrder, QueueInOrder, HandInOrder
<1>b. ASSUME NEW s \in Senders, SendMessage(s, Reply), UNCHANGED <<shown, lastSeq>>
      PROVE  InOrder'
  BY <1>b, OfferInOrder
<1>s. "reader" \in Senders /\ "hearer" \in Senders /\ Answers \subseteq Senders
  BY SendersHere
<1>1. ASSUME Start PROVE InOrder'
  <2>1. 0 <= lastSeq
    BY Numbers DEF Typed
  <2>2. send' = <<0>> /\ UNCHANGED <<shown, lastSeq, sending, outgoing>>
    BY <1>1 DEF Start, Reply
  <2> QED
    BY <2>1, <2>2 DEF InOrder, QueueInOrder, HandInOrder
<1>2. ASSUME Wait PROVE InOrder'
  BY <1>2, <1>a DEF Wait, outVars
<1>3. ASSUME Wake PROVE InOrder'
  BY <1>3, <1>a DEF Wake, outVars
<1>4. ASSUME CloseSTT PROVE InOrder'
  BY <1>4, <1>a DEF CloseSTT, outVars
<1>5. ASSUME DeleteSession PROVE InOrder'
  BY <1>5, <1>a DEF DeleteSession, outVars
<1>6. ASSUME CloseSession PROVE InOrder'
  BY <1>6, <1>a DEF CloseSession, outVars
<1>7. ASSUME ReaderTop PROVE InOrder'
  BY <1>7, <1>a DEF ReaderTop, outVars
<1>8. ASSUME ReaderExits PROVE InOrder'
  BY <1>8, <1>a DEF ReaderExits, Exit, outVars
<1>9. ASSUME ReadsAudio PROVE InOrder'
  BY <1>9, <1>a DEF ReadsAudio, Reads, outVars
<1>10. ASSUME ReadsAndReplies PROVE InOrder'
  BY <1>10, <1>b, <1>s DEF ReadsAndReplies, Reads
<1>11. ASSUME NEW a \in Answers, ReadsGenerate(a) PROVE InOrder'
  BY <1>11, <1>a DEF ReadsGenerate, Reads, outVars
<1>12. ASSUME NEW a \in Answers, RefusesGenerate(a) PROVE InOrder'
  BY <1>12, <1>b, <1>s DEF RefusesGenerate, Reads
<1>13. ASSUME WriterSends PROVE InOrder'
  BY <1>13, WriteInOrder DEF WriterSends, WriterUnchanged
<1>14. ASSUME WriterDrains PROVE InOrder'
  BY <1>14, WriteInOrder DEF WriterDrains, WriterUnchanged
<1>15. ASSUME WriterExits PROVE InOrder'
  BY <1>15, <1>a DEF WriterExits, Exit, outVars
<1>16. ASSUME ClientStops PROVE InOrder'
  BY <1>16, <1>a DEF ClientStops, outVars
<1>17. ASSUME HearsLate PROVE InOrder'
  BY <1>17, <1>a DEF HearsLate, outVars
<1>18. ASSUME NEW final \in BOOLEAN, Hears(final) PROVE InOrder'
  <2>1. PICK n \in Sequences : /\ ~Late(n)
                               /\ lastSeq' = IF n > 0 THEN n ELSE lastSeq
                               /\ SendMessage("hearer", n)
    BY <1>18 DEF Hears
  <2> QED
    BY <1>18, <2>1, EventInOrder DEF Hears
<1>19. ASSUME HearerCommits PROVE InOrder'
  BY <1>19, <1>a DEF HearerCommits, outVars
<1>20. ASSUME HearerTracks PROVE InOrder'
  BY <1>20, <1>a DEF HearerTracks, outVars
<1>21. ASSUME HearerExits PROVE InOrder'
  BY <1>21, <1>a DEF HearerExits, Exit, outVars
<1>22. ASSUME SpeakerTakes PROVE InOrder'
  BY <1>22, <1>a DEF SpeakerTakes, outVars
<1>23. ASSUME SpeakerSent PROVE InOrder'
  BY <1>23, <1>a DEF SpeakerSent, outVars
<1>24. ASSUME SpeakerExits PROVE InOrder'
  BY <1>24, <1>a DEF SpeakerExits, Exit, outVars
<1>25. ASSUME NEW a \in Answers, AnswerStarts(a) PROVE InOrder'
  BY <1>25, <1>a DEF AnswerStarts, At, outVars
<1>26. ASSUME NEW a \in Answers, AnswerRefused(a) PROVE InOrder'
  BY <1>26, <1>b, <1>s DEF AnswerRefused, At
<1>27. ASSUME NEW a \in Answers, AnswerReceives(a) PROVE InOrder'
  <2>1. CASE SendMessage(a, Reply)
    BY <1>27, <2>1, <1>b, <1>s DEF AnswerReceives, At
  <2>2. CASE UNCHANGED <<cancelled, outVars, chunks>>
    BY <1>27, <2>2, <1>a DEF AnswerReceives, At, outVars
  <2> QED
    BY <1>27, <2>1, <2>2 DEF AnswerReceives
<1>28. ASSUME NEW a \in Answers, AnswerFails(a) PROVE InOrder'
  BY <1>28, <1>b, <1>s DEF AnswerFails, At
<1>29. ASSUME NEW a \in Answers, AnswerStreamed(a) PROVE InOrder'
  BY <1>29, <1>a DEF AnswerStreamed, At, outVars
<1>30. ASSUME NEW a \in Answers, AnswerAcks(a) PROVE InOrder'
  BY <1>30, <1>b, <1>s DEF AnswerAcks, At
<1>31. ASSUME NEW a \in Answers, AnswerRemembered(a) PROVE InOrder'
  BY <1>31, <1>a DEF AnswerRemembered, At, outVars
<1>32. ASSUME NEW a \in Answers, AnswerTracks(a) PROVE InOrder'
  BY <1>32, <1>a DEF AnswerTracks, At, outVars
<1>33. ASSUME NEW a \in Answers, AnswerReleases(a) PROVE InOrder'
  BY <1>33, <1>a DEF AnswerReleases, At, outVars
<1>34. ASSUME NEW a \in Answers, GenerationTimesOut(a) PROVE InOrder'
  BY <1>34, <1>a DEF GenerationTimesOut, outVars
<1>35. ASSUME NEW a \in Answers, LLMStops(a) PROVE InOrder'
  BY <1>35, <1>a DEF LLMStops, StreamUnchanged, outVars
<1>36. ASSUME NEW a \in Answers, LLMPuts(a) PROVE InOrder'
  BY <1>36, <1>a DEF LLMPuts, StreamUnchanged, outVars
<1>37. ASSUME NEW a \in Answers, LLMSpeaks(a) PROVE InOrder'
  BY <1>37, <1>a DEF LLMSpeaks, StreamUnchanged, outVars
<1>38. ASSUME NEW r \in Records, Record(r) PROVE InOrder'
  BY <1>38, <1>a DEF Record, outVars
<1>39. ASSUME UNCHANGED vars PROVE InOrder'
  BY <1>39, <1>a DEF vars, pumpVars, outVars, answerVars, boundVars, streamVars
<1>40. ASSUME NEW s \in Senders, SendStep(s) PROVE InOrder'
  BY <1>40, SendStepInOrder
<1> QED
  BY <1>1, <1>2, <1>3, <1>4, <1>5, <1>6, <1>7, <1>8, <1>9, <1>10, <1>11, <1>12, <1>13,
     <1>14, <1>15, <1>16, <1>17, <1>18, <1>19, <1>20, <1>21, <1>22, <1>23, <1>24, <1>25,
     <1>26, <1>27, <1>28, <1>29, <1>30, <1>31, <1>32, <1>33, <1>34, <1>35, <1>36, <1>37,
     <1>38, <1>39, <1>40
     DEF Next, MainStep, ReaderStep, WriterStep, HearerStep, SpeakerStep, AnswerStep, LLMStep

-----------------------------------------------------------------------------
(* The chunks of an answer *)

\* The texts in a stream, in which only the last item can be something else.
Texts(str) ==
  IF str = <<>> THEN 0 ELSE IF str[Len(str)] = "text" THEN Len(str) ELSE Len(str) - 1

InHand(a) == IF producer[a] = "text" THEN 1 ELSE 0

Alive(a) == ~cancelled /\ ~genDone[a]

\* Nothing is put into the channel after an end mark or an error; and while the context
\* lives, what has been read is put together, in the channel or in hand.
WholeSoFar(a) ==
  /\ \A i \in 1..(Len(stream[a]) - 1) : stream[a][i] = "text"
  /\ stream[a] # <<>> /\ stream[a][Len(stream[a])] # "text" => producer[a] = "ended"
  /\ answer[a] \in {"none", "context"}
       => producer[a] = "off" /\ parts[a] = 0 /\ chunks[a] = 0 /\ stream[a] = <<>>
  /\ answer[a] = "stream" /\ Alive(a) => chunks[a] + Texts(stream[a]) + InHand(a) = parts[a]
  /\ answer[a] \in {"ack", "remember", "track"} => producer[a] = "ended"
  /\ answer[a] \in {"ack", "remember", "track"} /\ Alive(a) => chunks[a] = parts[a]

Whole == \A a \in Answers : WholeSoFar(a)

LEMMA InitWhole == Init => Whole
<1> SUFFICES ASSUME Init, NEW a \in Answers PROVE WholeSoFar(a)
  BY DEF Whole
<1>1. /\ stream[a] = <<>> /\ producer[a] = "off" /\ parts[a] = 0
      /\ answer[a] = "none" /\ chunks[a] = 0
  BY DEF Init, StreamInit
<1>2. Len(stream[a]) = 0
  BY <1>1
<1> QED
  BY <1>1, <1>2 DEF WholeSoFar, Alive

\* Types of what one answer has.
LEMMA AnswerTyped ==
  ASSUME TypeOK, NEW a \in Answers
  PROVE  /\ stream[a] \in Seq(Item) /\ parts[a] \in Nat /\ chunks[a] \in Nat
         /\ Len(stream[a]) \in Nat
         /\ producer[a] \in {"off", "read", "ended", "text", "final", "error"}
         /\ answer[a] \in AnswerPCs
  BY StreamAssumption DEF TypeOK, StreamTypeOK, Item

\* A step that leaves an answer and its stream alone, and revives no context.
LEMMA LeftAlone ==
  ASSUME NEW a \in Answers, WholeSoFar(a), cancelled => cancelled', genDone[a] => genDone'[a],
         answer'[a] = answer[a], chunks'[a] = chunks[a], producer'[a] = producer[a],
         parts'[a] = parts[a], stream'[a] = stream[a]
  PROVE  WholeSoFar(a)'
  BY DEF WholeSoFar, Alive, InHand, Texts

LEMMA NoRevival == \A s, m : SendMessage(s, m) => (cancelled => cancelled')
  BY DEF SendMessage

LEMMA NoItems == \A str \in Seq(Item) : str = <<>> <=> Len(str) = 0
  OBVIOUS

\* The head of a stream is received.
LEMMA OneLess ==
  ASSUME NEW str \in Seq(Item), str # <<>>,
         \A i \in 1..(Len(str) - 1) : str[i] = "text"
  PROVE  /\ \A i \in 1..(Len(Tail(str)) - 1) : Tail(str)[i] = "text"
         /\ Tail(str) # <<>> => Tail(str)[Len(Tail(str))] = str[Len(str)]
         /\ Head(str) = "text" => Texts(Tail(str)) = Texts(str) - 1
         /\ Head(str) # "text" => Tail(str) = <<>> /\ Texts(str) = 0
<1>1. /\ Len(Tail(str)) = Len(str) - 1 /\ Len(str) \in Nat /\ Len(str) > 0
      /\ \A i \in 1..(Len(str) - 1) : Tail(str)[i] = str[i + 1]
      /\ Head(str) = str[1]
  OBVIOUS
<1>2. Tail(str) = <<>> <=> Len(str) = 1
  <2>1. Tail(str) \in Seq(Item)
    OBVIOUS
  <2>2. Tail(str) = <<>> <=> Len(Tail(str)) = 0
    BY <2>1, NoItems, Zenon
  <2>3. Len(Tail(str)) = 0 <=> Len(str) = 1
    BY <1>1
  <2> QED
    BY <2>2, <2>3, Zenon
<1> QED
  BY <1>1, <1>2 DEF Texts

\* An item is put into a stream that has not ended.
LEMMA OneMore ==
  ASSUME NEW str \in Seq(Item), NEW item \in Item, NEW longer, longer = Append(str, item),
         \A i \in 1..Len(str) : str[i] = "text"
  PROVE  /\ \A i \in 1..(Len(longer) - 1) : longer[i] = "text"
         /\ longer # <<>> /\ longer[Len(longer)] = item
         /\ Texts(str) = Len(str)
         /\ Texts(longer) = Len(str) + (IF item = "text" THEN 1 ELSE 0)
<1>1. /\ Len(longer) = Len(str) + 1 /\ Len(str) \in Nat
      /\ \A i \in 1..Len(str) : longer[i] = str[i]
      /\ longer[Len(str) + 1] = item
  OBVIOUS
<1>2. longer # <<>>
  BY AppendProperties, Zenon
<1> QED
  BY <1>1, <1>2 DEF Texts

LEMMA WholeFollows == Whole => AnswersAreWhole
  BY DEF Whole, WholeSoFar, Alive, AnswersAreWhole

LEMMA StepWhole == Typed /\ Whole /\ [Next]_vars => Whole'
<1> SUFFICES ASSUME Typed, Whole, [Next]_vars PROVE Whole'
  OBVIOUS
<1>a. /\ answer \in [Answers -> AnswerPCs] /\ chunks \in [Answers -> Nat]
      /\ genDone \in [Answers -> BOOLEAN]
      /\ producer \in [Answers -> {"off", "read", "ended"} \cup Item]
      /\ parts \in [Answers -> 0..MaxChunks] /\ stream \in [Answers -> Seq(Item)]
  BY DEF Typed, TypeOK, StreamTypeOK
<1>b. ASSUME UNCHANGED <<answer, chunks, genDone, producer, parts, stream>>,
             cancelled => cancelled'
      PROVE  Whole'
  BY <1>b, LeftAlone DEF Whole
<1>c. ASSUME NEW a \in Answers, WholeSoFar(a)', cancelled => cancelled',
             \A b \in Answers \ {a} :
               /\ genDone[b] => genDone'[b]
               /\ answer'[b] = answer[b] /\ chunks'[b] = chunks[b]
               /\ producer'[b] = producer[b] /\ parts'[b] = parts[b] /\ stream'[b] = stream[b]
      PROVE  Whole'
  <2>1. ASSUME NEW b \in Answers \ {a} PROVE WholeSoFar(b)'
    BY <1>c, <2>1, LeftAlone DEF Whole
  <2> QED
    BY <1>c, <2>1 DEF Whole
<1>1. ASSUME Start PROVE Whole'
  BY <1>1, <1>b DEF Start, answerVars, streamVars
<1>2. ASSUME Wait PROVE Whole'
  BY <1>2, <1>b DEF Wait, answerVars, streamVars
<1>3. ASSUME Wake PROVE Whole'
  BY <1>3, <1>b DEF Wake, answerVars, streamVars
<1>4. ASSUME CloseSTT PROVE Whole'
  BY <1>4, <1>b DEF CloseSTT, answerVars, streamVars
<1>5. ASSUME DeleteSession PROVE Whole'
  BY <1>5, <1>b DEF DeleteSession, answerVars, streamVars
<1>6. ASSUME CloseSession PROVE Whole'
  BY <1>6, <1>b DEF CloseSession, answerVars, streamVars
<1>7. ASSUME ReaderTop PROVE Whole'
  BY <1>7, <1>b DEF ReaderTop, answerVars, streamVars
<1>8. ASSUME ReaderExits PROVE Whole'
  BY <1>8, <1>b DEF ReaderExits, Exit, answerVars, streamVars
<1>9. ASSUME ReadsAudio PROVE Whole'
  BY <1>9, <1>b DEF ReadsAudio, Reads, answerVars, streamVars
<1>10. ASSUME ReadsAndReplies PROVE Whole'
  BY <1>10, <1>b, NoRevival DEF ReadsAndReplies, Reads, answerVars, streamVars
<1>11. ASSUME NEW a \in Answers, ReadsGenerate(a) PROVE Whole'
  <2>1. WholeSoFar(a)'
    BY <1>11, <1>a
       DEF ReadsGenerate, Reads, streamVars, Whole, WholeSoFar, Alive, InHand, Texts
  <2> QED
    BY <1>11, <1>a, <1>c, <2>1 DEF ReadsGenerate, Reads, streamVars
<1>12. ASSUME NEW a \in Answers, RefusesGenerate(a) PROVE Whole'
  <2>1. WholeSoFar(a)'
    BY <1>12, <1>a
       DEF RefusesGenerate, Reads, streamVars, Whole, WholeSoFar, Alive, InHand, Texts
  <2> QED
    BY <1>12, <1>a, <1>c, <2>1, NoRevival DEF RefusesGenerate, Reads, streamVars
<1>13. ASSUME WriterSends PROVE Whole'
  BY <1>13, <1>b DEF WriterSends, WriterUnchanged, answerVars, streamVars
<1>14. ASSUME WriterDrains PROVE Whole'
  BY <1>14, <1>b DEF WriterDrains, WriterUnchanged, answerVars, streamVars
<1>15. ASSUME WriterExits PROVE Whole'
  BY <1>15, <1>b DEF WriterExits, Exit, answerVars, streamVars
<1>16. ASSUME ClientStops PROVE Whole'
  BY <1>16, <1>b DEF ClientStops, answerVars, streamVars
<1>17. ASSUME HearsLate PROVE Whole'
  BY <1>17, <1>b DEF HearsLate, answerVars, streamVars
<1>18. ASSUME NEW final \in BOOLEAN, Hears(final) PROVE Whole'
  BY <1>18, <1>b, NoRevival DEF Hears, answerVars, streamVars
<1>19. ASSUME HearerCommits PROVE Whole'
  BY <1>19, <1>b DEF HearerCommits, answerVars, streamVars
<1>20. ASSUME HearerTracks PROVE Whole'
  BY <1>20, <1>b DEF HearerTracks, answerVars, streamVars
<1>21. ASSUME HearerExits PROVE Whole'
  BY <1>21, <1>b DEF HearerExits, Exit, answerVars, streamVars
<1>22. ASSUME SpeakerTakes PROVE Whole'
  BY <1>22, <1>b DEF SpeakerTakes, answerVars, streamVars
<1>23. ASSUME SpeakerSent PROVE Whole'
  BY <1>23, <1>b DEF SpeakerSent, answerVars, streamVars
<1>24. ASSUME SpeakerExits PROVE Whole'
  BY <1>24, <1>b DEF SpeakerExits, Exit, answerVars, streamVars
<1>25. ASSUME NEW a \in Answers, AnswerStarts(a) PROVE Whole'
  <2>1. WholeSoFar(a)'
    BY <1>25, <1>a
       DEF AnswerStarts, At, Request, Produces, Whole, WholeSoFar, Alive, InHand, Texts
  <2> QED
    BY <1>25, <1>a, <1>c, <2>1 DEF AnswerStarts, At, Request, Produces
<1>26. ASSUME NEW a \in Answers, AnswerRefused(a) PROVE Whole'
  <2>1. WholeSoFar(a)'
    BY <1>26, <1>a
       DEF AnswerRefused, At, streamVars, Whole, WholeSoFar, Alive, InHand, Texts
  <2> QED
    BY <1>26, <1>a, <1>c, <2>1, NoRevival DEF AnswerRefused, At, streamVars
<1>27. ASSUME NEW a \in Answers, AnswerReceives(a) PROVE Whole'
  <2>a. WholeSoFar(a) /\ TypeOK
    BY <1>27 DEF Whole, Typed
  <2>b. \A b \in Answers \ {a} :
          /\ genDone[b] => genDone'[b]
          /\ answer'[b] = answer[b] /\ chunks'[b] = chunks[b]
          /\ producer'[b] = producer[b] /\ parts'[b] = parts[b] /\ stream'[b] = stream[b]
    BY <1>27, <1>a DEF AnswerReceives, At, Receives
  <2>c. /\ stream'[a] = Tail(stream[a]) /\ stream[a] # <<>>
        /\ answer[a] = "stream" /\ answer'[a] = "stream"
        /\ UNCHANGED <<genDone, producer, parts>>
    BY <1>27, <1>a DEF AnswerReceives, At, Receives
  <2>d. stream[a] \in Seq(Item) /\ \A i \in 1..(Len(stream[a]) - 1) : stream[a][i] = "text"
    BY <2>a, AnswerTyped DEF WholeSoFar
  <2>e. /\ \A i \in 1..(Len(stream'[a]) - 1) : stream'[a][i] = "text"
        /\ stream'[a] # <<>> => stream'[a][Len(stream'[a])] = stream[a][Len(stream[a])]
        /\ Head(stream[a]) = "text" => Texts(stream'[a]) = Texts(stream[a]) - 1
        /\ Head(stream[a]) # "text" => Texts(stream'[a]) = 0 /\ Texts(stream[a]) = 0
    BY <2>c, <2>d, OneLess DEF Texts
  <2>f. Texts(stream[a]) \in Int /\ chunks[a] \in Nat /\ parts[a] \in Nat /\ InHand(a) \in Int
    BY <2>a, AnswerTyped DEF Texts, InHand
  <2>1. CASE Receives(a, "text") /\ chunks' = [chunks EXCEPT ![a] = @ + 1] /\ SendMessage(a, Reply)
    <3>1. chunks'[a] = chunks[a] + 1 /\ Head(stream[a]) = "text" /\ (cancelled => cancelled')
      BY <2>1, <1>a, NoRevival DEF Receives
    <3>2. Alive(a)' => chunks'[a] + Texts(stream'[a]) + InHand(a)' = parts'[a]
      BY <2>a, <2>c, <2>e, <2>f, <3>1 DEF WholeSoFar, Alive, InHand
    <3>3. WholeSoFar(a)'
      BY <2>a, <2>c, <2>e, <3>2 DEF WholeSoFar
    <3> QED
      BY <1>c, <2>b, <3>1, <3>3
  <2>2. CASE Receives(a, "final") /\ UNCHANGED <<cancelled, outVars, chunks>>
    <3>1. Head(stream[a]) # "text"
      BY <2>2 DEF Receives
    <3>2. WholeSoFar(a)'
      BY <2>a, <2>c, <2>e, <2>f, <2>2, <3>1 DEF WholeSoFar, Alive, InHand
    <3> QED
      BY <1>c, <2>b, <2>2, <3>2
  <2> QED
    BY <1>27, <2>1, <2>2 DEF AnswerReceives
<1>28. ASSUME NEW a \in Answers, AnswerFails(a) PROVE Whole'
  <2>1. /\ stream'[a] = Tail(stream[a]) /\ stream[a] # <<>>
        /\ answer'[a] = "release" /\ UNCHANGED producer
    BY <1>28, <1>a DEF AnswerFails, At, Receives
  <2>2. WholeSoFar(a)'
    BY <2>1, OneLess, AnswerTyped DEF Typed, Whole, WholeSoFar
  <2> QED
    BY <1>28, <1>a, <1>c, <2>2, NoRevival DEF AnswerFails, At, Receives
<1>29. ASSUME NEW a \in Answers, AnswerStreamed(a) PROVE Whole'
  <2>1. /\ stream[a] = <<>> /\ producer[a] = "ended" /\ answer[a] = "stream"
        /\ answer'[a] \in {"ack", "release"}
        /\ UNCHANGED <<cancelled, chunks, producer, parts, stream>>
    BY <1>29, <1>a DEF AnswerStreamed, StreamIsOver, At, streamVars
  <2>2. genDone'[a] = genDone[a]
    BY <1>29 DEF AnswerStreamed
  <2>3. chunks[a] \in Nat /\ parts[a] \in Nat
    BY <1>a
  <2>4. WholeSoFar(a)'
    BY <2>1, <2>2, <2>3 DEF Whole, WholeSoFar, Alive, InHand, Texts
  <2> QED
    BY <1>29, <1>a, <1>c, <2>1, <2>4 DEF AnswerStreamed, At
<1>30. ASSUME NEW a \in Answers, AnswerAcks(a) PROVE Whole'
  <2>1. WholeSoFar(a)'
    BY <1>30, <1>a, NoRevival
       DEF AnswerAcks, At, streamVars, Whole, WholeSoFar, Alive, InHand, Texts
  <2> QED
    BY <1>30, <1>a, <1>c, <2>1, NoRevival DEF AnswerAcks, At, streamVars
<1>31. ASSUME NEW a \in Answers, AnswerRemembered(a) PROVE Whole'
  <2>1. WholeSoFar(a)'
    BY <1>31, <1>a
       DEF AnswerRemembered, At, streamVars, Whole, WholeSoFar, Alive, InHand, Texts
  <2> QED
    BY <1>31, <1>a, <1>c, <2>1 DEF AnswerRemembered, At, streamVars
<1>32. ASSUME NEW a \in Answers, AnswerTracks(a) PROVE Whole'
  <2>1. WholeSoFar(a)'
    BY <1>32, <1>a
       DEF AnswerTracks, At, streamVars, Whole, WholeSoFar, Alive, InHand, Texts
  <2> QED
    BY <1>32, <1>a, <1>c, <2>1 DEF AnswerTracks, At, streamVars
<1>33. ASSUME NEW a \in Answers, AnswerReleases(a) PROVE Whole'
  <2>1. WholeSoFar(a)'
    BY <1>33, <1>a
       DEF AnswerReleases, At, Ends, Forget, Whole, WholeSoFar, Alive, InHand, Texts
  <2> QED
    BY <1>33, <1>a, <1>c, <2>1 DEF AnswerReleases, At, Ends, Forget
<1>34. ASSUME NEW a \in Answers, GenerationTimesOut(a) PROVE Whole'
  <2>1. WholeSoFar(a)'
    BY <1>34, <1>a
       DEF GenerationTimesOut, Ends, streamVars, Whole, WholeSoFar, Alive, InHand, Texts
  <2> QED
    BY <1>34, <1>a, <1>c, <2>1 DEF GenerationTimesOut, Ends, streamVars
<1>35. ASSUME NEW a \in Answers, LLMStops(a) PROVE Whole'
  <2>1. WholeSoFar(a)'
    BY <1>35, <1>a
       DEF LLMStops, ProducerStops, Produces, StreamUnchanged, Item,
           Whole, WholeSoFar, Alive, InHand, Texts
  <2> QED
    BY <1>35, <1>a, <1>c, <2>1 DEF LLMStops, ProducerStops, Produces, StreamUnchanged, Item
<1>36. ASSUME NEW a \in Answers, LLMPuts(a) PROVE Whole'
  <2>a. WholeSoFar(a) /\ TypeOK
    BY <1>36 DEF Whole, Typed
  <2>1. PICK item \in Item : /\ Produces(a, item, Onwards(item))
                             /\ stream' = [stream EXCEPT ![a] = Append(@, item)]
                             /\ UNCHANGED parts
    BY <1>36 DEF LLMPuts, ProducerPuts
  <2>2. /\ producer[a] = item /\ producer'[a] = Onwards(item) /\ item \in Item
        /\ stream'[a] = Append(stream[a], item)
        /\ UNCHANGED <<cancelled, answer, chunks, genDone, parts>>
    BY <1>36, <2>1, <1>a DEF LLMPuts, StreamUnchanged, Produces
  <2>3. /\ stream[a] \in Seq(Item) /\ \A i \in 1..Len(stream[a]) : stream[a][i] = "text"
        /\ stream'[a] = Append(stream[a], item) /\ item \in Item
    BY <2>a, <2>2, AnswerTyped DEF WholeSoFar, Item
  <2>4. /\ \A i \in 1..(Len(stream'[a]) - 1) : stream'[a][i] = "text"
        /\ stream'[a] # <<>> /\ stream'[a][Len(stream'[a])] = item
        /\ Texts(stream[a]) = Len(stream[a])
        /\ Texts(stream'[a]) = Len(stream[a]) + (IF item = "text" THEN 1 ELSE 0)
    BY <2>3, OneMore
  <2>5. /\ Len(stream[a]) \in Nat /\ parts[a] \in Nat /\ chunks[a] \in Nat
        /\ answer[a] # "none" /\ answer[a] # "context" /\ item # "ended"
        /\ answer[a] \notin {"ack", "remember", "track"}
    BY <2>a, <2>2, AnswerTyped DEF WholeSoFar, Item
  <2>6. answer[a] = "stream" /\ Alive(a)' =>
          chunks[a] + Texts(stream'[a]) + InHand(a)' = parts[a]
    <3> SUFFICES ASSUME answer[a] = "stream", Alive(a)'
                 PROVE  chunks[a] + Texts(stream'[a]) + InHand(a)' = parts[a]
      OBVIOUS
    <3>1. producer[a] = item /\ producer'[a] # "text"
      BY <2>2 DEF Onwards
    <3>2. Alive(a)
      BY <2>2 DEF Alive
    <3>3. chunks[a] + Texts(stream[a]) + InHand(a) = parts[a]
      BY <2>a, <3>2, Zenon DEF WholeSoFar
    <3>4. InHand(a)' = 0 /\ InHand(a) = (IF item = "text" THEN 1 ELSE 0)
      BY <3>1 DEF InHand
    <3>5. Texts(stream'[a]) = Texts(stream[a]) + InHand(a) /\ Texts(stream[a]) \in Nat
      BY <2>4, <2>5, <3>4
    <3>6. InHand(a) \in Nat /\ chunks[a] \in Nat /\ parts[a] \in Nat
      BY <2>5, <3>4
    <3>7. chunks[a] + Texts(stream'[a]) = parts[a]
      BY <3>3, <3>5, <3>6
    <3> QED
      BY <3>4, <3>6, <3>7
  <2>7. item # "text" => producer'[a] = "ended"
    BY <2>2 DEF Onwards
  <2>8. WholeSoFar(a)'
    BY <2>2, <2>4, <2>5, <2>6, <2>7 DEF WholeSoFar
  <2> QED
    BY <1>36, <1>a, <1>c, <2>1, <2>8 DEF LLMPuts, StreamUnchanged, Produces
<1>37. ASSUME NEW a \in Answers, LLMSpeaks(a) PROVE Whole'
  <2>a. WholeSoFar(a) /\ TypeOK
    BY <1>37 DEF Whole, Typed
  <2>1. CASE ProducerReads(a)
    <3>1. PICK item \in Item :
            /\ Produces(a, "read", item)
            /\ parts' = [parts EXCEPT ![a] = IF item = "text" THEN @ + 1 ELSE @]
            /\ UNCHANGED stream
      BY <2>1 DEF ProducerReads
    <3>2. /\ producer[a] = "read" /\ producer'[a] = item
          /\ parts'[a] = IF item = "text" THEN parts[a] + 1 ELSE parts[a]
          /\ UNCHANGED <<cancelled, answer, chunks, genDone, stream>>
      BY <1>37, <1>a, <3>1 DEF LLMSpeaks, StreamUnchanged, Produces
    <3>3. Texts(stream[a]) \in Int
      BY <2>a, AnswerTyped DEF Texts
    <3>4. WholeSoFar(a)'
      BY <2>a, <3>2, <3>3, AnswerTyped DEF WholeSoFar, Alive, InHand, Item
    <3> QED
      BY <1>37, <1>a, <1>c, <3>1, <3>4 DEF LLMSpeaks, StreamUnchanged, Produces
  <2>2. CASE ProducerFinishes(a)
    <3>1. WholeSoFar(a)'
      BY <1>37, <2>a, <2>2, <1>a
         DEF LLMSpeaks, StreamUnchanged, ProducerFinishes, Produces, WholeSoFar, Alive, InHand
    <3> QED
      BY <1>37, <1>a, <1>c, <2>2, <3>1 DEF LLMSpeaks, StreamUnchanged, ProducerFinishes, Produces
  <2> QED
    BY <1>37, <2>1, <2>2 DEF LLMSpeaks
<1>38. ASSUME NEW r \in Records, Record(r) PROVE Whole'
  BY <1>38, <1>b DEF Record, answerVars, streamVars
<1>39. ASSUME UNCHANGED vars PROVE Whole'
  BY <1>39, <1>b DEF vars, pumpVars, outVars, answerVars, boundVars, streamVars
<1>40. ASSUME NEW s \in Senders, SendStep(s) PROVE Whole'
  BY <1>40, <1>b, SendLeaves
<1> QED
  BY <1>1, <1>2, <1>3, <1>4, <1>5, <1>6, <1>7, <1>8, <1>9, <1>10, <1>11, <1>12, <1>13,
     <1>14, <1>15, <1>16, <1>17, <1>18, <1>19, <1>20, <1>21, <1>22, <1>23, <1>24, <1>25,
     <1>26, <1>27, <1>28, <1>29, <1>30, <1>31, <1>32, <1>33, <1>34, <1>35, <1>36, <1>37,
     <1>38, <1>39, <1>40
     DEF Next, MainStep, ReaderStep, WriterStep, HearerStep, SpeakerStep, AnswerStep, LLMStep

-----------------------------------------------------------------------------
(* The theorems *)

ConnectionInv == Typed /\ Accounted /\ Limited /\ Dropped /\ InOrder /\ Whole

LEMMA InvInit == Init => ConnectionInv
  BY InitTyped, InitAccounted, InitLimited, InitDropped, InitInOrder, InitWhole DEF ConnectionInv

\* The counters in the next state.
LEMMA NextCounters == (Accounted => wg \in Nat)' /\ (Limited => slots \in 0..MaxConcurrent)'
  BY CountedWaits, SlotsInRange, PTL

LEMMA InvStep == ConnectionInv /\ [Next]_vars => ConnectionInv'
<1> SUFFICES ASSUME ConnectionInv, [Next]_vars PROVE ConnectionInv'
  OBVIOUS
<1>1. Accounted' /\ Limited' /\ Dropped' /\ InOrder' /\ Whole'
  BY StepAccounted, StepLimited, StepDropped, StepInOrder, StepWhole DEF ConnectionInv
<1>2. wg' \in Nat
  BY <1>1, NextCounters
<1>3. slots' \in 0..MaxConcurrent
  BY <1>1, NextCounters
<1>4. Typed'
  BY <1>2, <1>3, StepTyped DEF ConnectionInv
<1> QED
  BY <1>1, <1>4 DEF ConnectionInv

LEMMA InvHolds == Spec => []ConnectionInv
  BY InvInit, InvStep, PTL DEF Spec

\* Nothing leaves its type: the WaitGroup's counter is never negative and the semaphore's
\* never below zero, however the goroutines they count end (connection.go:84-95, 192-199).
THEOREM ConnectionTyped == Spec => []TypeOK
<1>1. ConnectionInv => TypeOK
  BY DEF ConnectionInv, Typed
<1> QED
  BY <1>1, InvHolds, PTL

\* Frames are dropped in a row at most MaxDrops times and once more for each goroutine that
\* may be in sendMessage at the same time, for any number of answers that are asked for:
\* the semaphore bounds those under way (connection.go:99-127, read_pump.go:63-67).
THEOREM DropsStayBounded == Spec => []DropsAreBounded
<1>1. ConnectionInv => DropsAreBounded
  <2> SUFFICES ASSUME ConnectionInv PROVE DropsAreBounded
    OBVIOUS
  <2>1. /\ Cardinality(Counting) \in Nat /\ Cardinality(Cancelling) \in Nat
        /\ Cardinality(Counting) + Cardinality(Cancelling) <= 2 + MaxConcurrent
    BY FewSend DEF ConnectionInv
  <2> QED
    BY <2>1, LimitsAssumption DEF ConnectionInv, Typed, TypeOK, Dropped, DropsAreBounded
<1> QED
  BY <1>1, InvHolds, PTL

\* cleanup runs when no pump does (connection.go:89-96).
THEOREM CleanupIsAlone == Spec => []PumpsAreOver
<1>1. ConnectionInv => PumpsAreOver
  BY DEF ConnectionInv, Accounted, PumpsAreOver, AllExited
<1> QED
  BY <1>1, InvHolds, PTL

\* cleanup runs after the record of every transcript (connection.go:192-214).
THEOREM CleanupAfterTranscripts == Spec => []TranscriptsAreRecorded
<1>1. ConnectionInv => TranscriptsAreRecorded
  BY DEF ConnectionInv, Accounted, TranscriptsAreRecorded
<1> QED
  BY <1>1, InvHolds, PTL

\* Wait finds the counter raised again only by the record of an answer, so that a
\* connection that asks for none never panics there, however its pumps and the records of
\* its transcripts end (connection.go:95, 192-199; read_pump.go:170-178).
THEOREM OnlyAnswersAddLate == Spec => []OnlyAnswersReuseWait
<1>1. ConnectionInv => OnlyAnswersReuseWait
  <2> SUFFICES ASSUME ConnectionInv, main = "woken", wg # 0
               PROVE  \E a \in Answers : <<"answer", a>> \in recording
    BY DEF OnlyAnswersReuseWait
  <2>1. AllExited /\ recording \cap Spoken = {} /\ recording \subseteq Records
    BY DEF ConnectionInv, Accounted, Typed, TypeOK
  <2>2. wg = Cardinality(recording)
    <3>1. IsFiniteSet(recording)
      BY DEF ConnectionInv, Accounted
    <3>2. Cardinality(recording) \in Nat
      BY <3>1, FS_CardinalityType
    <3> QED
      BY <2>1, <3>2 DEF ConnectionInv, Accounted, AllExited, Running
  <2>3. PICK r \in recording : TRUE
    BY <2>2, FS_EmptySet
  <2>4. r \in Records /\ r \notin Spoken
    BY <2>1, <2>3
  <2> QED
    BY <2>4 DEF Records, Spoken
<1> QED
  BY <1>1, InvHolds, PTL

\* The client is shown the transcripts in their order, whatever is dropped
\* (connection.go:170-184).
THEOREM ClientSeesOrder == Spec => []TranscriptsInOrder
<1>1. ConnectionInv => TranscriptsInOrder
  BY OrderFollows DEF ConnectionInv, Typed
<1> QED
  BY <1>1, InvHolds, PTL

\* The semaphore limits the answers under way, whatever way each of them ends
\* (read_pump.go:50-67).
THEOREM SemaphoreLimits == Spec => []AnswersAreLimited
<1>1. ConnectionInv => AnswersAreLimited
  BY DEF ConnectionInv, Limited, Busy, AnswersAreLimited
<1> QED
  BY <1>1, InvHolds, PTL

\* An answer whose context lives loses no chunk between the LLM and the record, for
\* any capacity of the channel and any number of chunks (read_pump.go:139-160).
THEOREM AnswersLoseNothing == Spec => []AnswersAreWhole
<1>1. ConnectionInv => AnswersAreWhole
  BY WholeFollows DEF ConnectionInv
<1> QED
  BY <1>1, InvHolds, PTL
-----------------------------------------------------------------------------
(* The use of the provider *)

\* Every step is one of ProviderUse, or none that it sees: by Accounted the provider is
\* closed after the pumps, and the numbers rise because an event that is late is skipped.
LEMMA StepIsUse == ConnectionInv /\ [Next]_vars => [Use!Next]_(Use!vars)
<1> DEFINE Used == [Use!Next]_(Use!vars)
<1> SUFFICES ASSUME ConnectionInv, [Next]_vars PROVE Used
  OBVIOUS
<1>t. /\ cancelled \in BOOLEAN /\ cancelled' \in BOOLEAN /\ stt \in BOOLEAN
      /\ lastSeq \in Nat
  <2>1. ConnectionInv'
    BY InvStep
  <2> QED
    BY <2>1, LimitsAssumption DEF ConnectionInv, Typed, TypeOK
<1>a. ASSUME UNCHANGED <<speaker, hearer, lastSeq, stt>>, cancelled => cancelled'
      PROVE  Used
  BY <1>a, <1>t DEF Use!vars, Use!Next, Use!Cancel
<1>b. \A s, m : SendMessage(s, m) => (cancelled => cancelled')
  BY NoRevival
<1>n. Doing("off") = "idle" /\ Doing("select") = "idle" /\ Doing("exited") = "over"
      /\ \A p \in {"sending", "commit", "track"} : Doing(p) = "busy"
  BY DEF Doing
<1> USE DEF pumpVars, outVars, answerVars, boundVars, Exit, Done
<1>1. ASSUME MainStep PROVE Used
  <2>1. ASSUME Start PROVE Used
    <3>1. /\ Doing(speaker') = Doing(speaker) /\ Doing(hearer') = Doing(hearer)
          /\ UNCHANGED <<lastSeq, stt>> /\ (cancelled => cancelled')
      BY <2>1, <1>b, <1>n DEF Start, ConnectionInv, Accounted, AllOff
    <3> QED
      BY <3>1, <1>t DEF Use!vars, Use!Next, Use!Cancel
  <2>2. ASSUME CloseSTT PROVE Used
    <3>1. speaker = "exited" /\ hearer = "exited" /\ UNCHANGED <<cancelled, speaker, hearer, lastSeq>>
          /\ stt' = FALSE
      BY <2>2 DEF CloseSTT, ConnectionInv, Accounted, AllExited, CleaningUp
    <3> QED
      BY <3>1, <1>n, <1>t DEF Use!vars, Use!Next, Use!Close
  <2> QED
    BY <1>1, <1>a, <2>1, <2>2 DEF MainStep, Wait, Wake, DeleteSession, CloseSession
<1>2. ASSUME ReaderStep PROVE Used
  BY <1>2, <1>a, <1>b DEF ReaderStep, ReaderTop, ReaderExits, ReadsAudio, ReadsAndReplies,
     Reads, ReadsGenerate, RefusesGenerate
<1>3. ASSUME WriterStep PROVE Used
  BY <1>3, <1>a DEF WriterStep, WriterSends, WriterDrains, WriterExits, WriterUnchanged
<1>4. ASSUME HearerStep PROVE Used
  <2>1. ASSUME HearsLate PROVE Used
    BY <2>1, <1>a DEF HearsLate
  <2>2. ASSUME NEW final \in BOOLEAN, Hears(final) PROVE Used
    <3>1. PICK n \in Sequences : /\ ~Late(n)
                                 /\ lastSeq' = IF n > 0 THEN n ELSE lastSeq
                                 /\ SendMessage("hearer", n)
      BY <2>2 DEF Hears
    <3>2. lastSeq' >= lastSeq /\ (cancelled => cancelled')
      BY <3>1, <1>b, <1>t, LimitsAssumption DEF Late
    <3>3. hearer = "select" /\ hearer' \in {"commit", "select"} /\ UNCHANGED <<speaker, stt>>
      BY <2>2 DEF Hears
    <3> QED
      BY <3>2, <3>3, <1>n DEF Use!Next, Use!Hear, Use!Moves
  <2>3. ASSUME HearerCommits PROVE Used
    BY <2>3, <1>n, <1>t DEF HearerCommits, Use!vars
  <2>4. ASSUME HearerTracks PROVE Used
    BY <2>4, <1>n, <1>t DEF HearerTracks, Use!Next, Use!Hear, Use!Moves
  <2>5. ASSUME HearerExits PROVE Used
    BY <2>5, <1>n, <1>t DEF HearerExits, Use!Next, Use!Hear, Use!Moves
  <2> QED
    BY <1>4, <2>1, <2>2, <2>3, <2>4, <2>5 DEF HearerStep
<1>5. ASSUME SpeakerStep PROVE Used
  BY <1>5, <1>n DEF SpeakerStep, SpeakerTakes, SpeakerSent, SpeakerExits,
     Use!Next, Use!Speak, Use!Moves
<1>6. ASSUME NEW a \in Answers, AnswerStep(a) PROVE Used
  BY <1>6, <1>a, <1>b DEF AnswerStep, AnswerStarts, AnswerRefused, AnswerReceives, AnswerFails,
     AnswerStreamed, AnswerAcks, AnswerRemembered, AnswerTracks, AnswerReleases, At
<1>7. ASSUME NEW a \in Answers, LLMStep(a) \/ GenerationTimesOut(a) PROVE Used
  BY <1>7, <1>a DEF LLMStep, LLMSpeaks, LLMPuts, LLMStops, StreamUnchanged, GenerationTimesOut
<1>8. ASSUME NEW r \in Records, Record(r) PROVE Used
  BY <1>8, <1>a DEF Record
<1>9. ASSUME ClientStops \/ UNCHANGED vars PROVE Used
  BY <1>9, <1>a DEF ClientStops, vars
<1>10. ASSUME NEW s \in Senders, SendStep(s) PROVE Used
  BY <1>10, <1>a, SendLeaves
<1> QED
  BY <1>1, <1>2, <1>3, <1>4, <1>5, <1>6, <1>7, <1>8, <1>9, <1>10 DEF Next

\* What a provider may take for granted of its connection is so: AudioPipeline models
\* the providers under this assumption (connection.go:130-183, 216-217).
THEOREM ConnectionUsesProvider == Spec => UseSpec
<1>1. Init => Use!Init
  BY DEF Init, Use!Init, Doing
<1>2. ConnectionInv /\ [Next]_vars => [Use!Next]_(Use!vars)
  BY StepIsUse
<1> QED
  BY <1>1, <1>2, InvHolds, PTL DEF Spec, UseSpec, Use!Spec
=============================================================================
