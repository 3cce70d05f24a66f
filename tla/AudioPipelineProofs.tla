------------------------ MODULE AudioPipelineProofs ------------------------
(***************************************************************************)
(* What holds of the audio pipeline for buffers of any capacity, any       *)
(* number of chunks and any sample phrases.  The invariant has three parts *)
(* beside the types: Closing, who is over when the provider closes;        *)
(* Rising, the numbers of the events; Speaking, the phrases of the fake    *)
(* provider.                                                               *)
(***************************************************************************)
EXTENDS AudioPipeline, SequenceTheorems, TLAPS

-----------------------------------------------------------------------------
(* Types *)

\* The event in the read loop's hands has been numbered.
Typed == TypeOK /\ (reader \in {"check", "put"} => seq > 0)

LEMMA InitTyped == Init => Typed
<1> SUFFICES ASSUME Init PROVE Typed
  OBVIOUS
<1>1. cancelled \in BOOLEAN /\ ended \in BOOLEAN /\ closed \in BOOLEAN /\ panicked \in BOOLEAN
      /\ pctx \in BOOLEAN
  BY Zenon DEF Init, ClientInit, DeepgramInit
<1>2. channel \in Seq(Event) /\ Len(channel) <= EventBuffer
  BY BuffersAssumption DEF Init, ClientInit
<1> QED
  BY <1>1, <1>2, BuffersAssumption, SocketAssumption
     DEF Init, ClientInit, DeepgramInit, FakeInit,
         Typed, TypeOK, ClientTypeOK, DeepgramTypeOK, FakeTypeOK

\* The phrase that is being spoken has words.
LEMMA PhrasesHaveWords ==
  ASSUME NEW p \in Nat
  PROVE  /\ (p % Len(Words)) + 1 \in 1..Len(Words)
         /\ Words[(p % Len(Words)) + 1] \in Nat \ {0}
<1>1. Len(Words) \in Nat /\ Len(Words) > 0
  BY WordsAssumption
<1>2. p % Len(Words) \in 0..(Len(Words) - 1)
  BY <1>1
<1> QED
  BY <1>1, <1>2, WordsAssumption

\* A step is one of the words of its phrase, counted from 1.
LEMMA StepsAreWords ==
  ASSUME TypeOK, NEW c \in Nat
  PROVE  Length \in Nat \ {0} /\ Step(c) \in Nat \ {0}
<1>1. Length \in Nat \ {0}
  BY PhrasesHaveWords DEF Length, TypeOK, FakeTypeOK
<1>2. c \div 2 \in Nat
  OBVIOUS
<1>3. (c \div 2) % (Length + 1) \in Nat
  BY <1>1, <1>2
<1> QED
  BY <1>1, <1>3 DEF Step

LEMMA StepTyped == Typed /\ [Next]_vars => Typed'
<1> SUFFICES ASSUME Typed, [Next]_vars PROVE Typed'
  OBVIOUS
<1> USE BuffersAssumption, SocketAssumption
    DEF Typed, TypeOK, ClientTypeOK, DeepgramTypeOK, FakeTypeOK,
        clientVars, providerVars, deepgramVars, fakeVars
<1>1. ASSUME Speaks, UNCHANGED <<provider, deepgramVars, fakeVars>>
      PROVE  Typed'
  BY <1>1 DEF Speaks
<1>2. ASSUME Cancel, UNCHANGED <<provider, deepgramVars, fakeVars>>
      PROVE  Typed'
  <2>1. cancelled' \in BOOLEAN
    BY <1>2, Zenon DEF Cancel
  <2> QED
    BY <1>2, <2>1 DEF Cancel
<1>3. ASSUME SpeakerTakes, UNCHANGED <<provider, deepgramVars, fakeVars>>
      PROVE  Typed'
  BY <1>3 DEF SpeakerTakes
<1>4. ASSUME SpeakerExits, UNCHANGED <<provider, deepgramVars, fakeVars>>
      PROVE  Typed'
  BY <1>4 DEF SpeakerExits
<1>5. ASSUME HearerTakes, UNCHANGED <<provider, deepgramVars, fakeVars>>
      PROVE  Typed'
  <2>1. /\ channel' \in Seq(Event) /\ Len(channel') <= EventBuffer
        /\ Head(channel) \in Event
    BY <1>5 DEF HearerTakes
  <2>2. lastSeq' \in Nat /\ hearer' \in {"select", "handle", "exited"}
    BY <1>5, <2>1 DEF HearerTakes, Event
  <2> QED
    BY <1>5, <2>1, <2>2 DEF HearerTakes
<1>6. ASSUME HearerHandled, UNCHANGED <<provider, deepgramVars, fakeVars>>
      PROVE  Typed'
  BY <1>6 DEF HearerHandled
<1>7. ASSUME HearerExits, UNCHANGED <<provider, deepgramVars, fakeVars>>
      PROVE  Typed'
  BY <1>7 DEF HearerExits
<1>8. ASSUME provider = "deepgram", SendAudioRefused, UNCHANGED <<provider, fakeVars>>
      PROVE  Typed'
  BY <1>8 DEF SendAudioRefused, Sends
<1>9. ASSUME provider = "deepgram", SendAudioLocks, UNCHANGED <<provider, fakeVars>>
      PROVE  Typed'
  BY <1>9 DEF SendAudioLocks, Sends
<1>10. ASSUME provider = "deepgram", SendAudioWrites, UNCHANGED <<provider, fakeVars>>
      PROVE  Typed'
  BY <1>10 DEF SendAudioWrites, Sends
<1>11. ASSUME provider = "deepgram", ReadLoopTop, UNCHANGED <<provider, fakeVars>>
      PROVE  Typed'
  BY <1>11 DEF ReadLoopTop, Reads
<1>12. ASSUME provider = "deepgram", ReadLoopReads, UNCHANGED <<provider, fakeVars>>
      PROVE  Typed'
  BY <1>12 DEF ReadLoopReads, Reads
<1>13. ASSUME provider = "deepgram", ReadLoopFails, UNCHANGED <<provider, fakeVars>>
      PROVE  Typed'
  BY <1>13 DEF ReadLoopFails, Reads
<1>14. ASSUME provider = "deepgram", ReadLoopEnds, UNCHANGED <<provider, fakeVars>>
      PROVE  Typed'
  BY <1>14 DEF ReadLoopEnds, Reads
<1>15. ASSUME provider = "deepgram", ReadLoopChecks, UNCHANGED <<provider, fakeVars>>
      PROVE  Typed'
  BY <1>15 DEF ReadLoopChecks, Reads
<1>16. ASSUME provider = "deepgram", ReadLoopPuts, UNCHANGED <<provider, fakeVars>>
      PROVE  Typed'
  <2>1. [n |-> seq, phrase |-> 0, step |-> 0] \in Event
    BY <1>16 DEF ReadLoopPuts, Reads, Event
  <2>2. channel' \in Seq(Event) /\ Len(channel') <= EventBuffer
    <3>1. CASE ended
      BY <1>16, <3>1 DEF ReadLoopPuts
    <3>2. CASE ~ended
      BY <1>16, <2>1, <3>2 DEF ReadLoopPuts
    <3> QED
      BY <3>1, <3>2
  <2>3. panicked' \in BOOLEAN
    BY <1>16, Zenon DEF ReadLoopPuts
  <2> QED
    BY <1>16, <2>2, <2>3 DEF ReadLoopPuts, Reads
<1>17. ASSUME provider = "deepgram", ReadLoopGivesUp, UNCHANGED <<provider, fakeVars>>
      PROVE  Typed'
  BY <1>17 DEF ReadLoopGivesUp, Reads
<1>18. ASSUME provider = "deepgram", CloseLocks, UNCHANGED <<provider, fakeVars>>
      PROVE  Typed'
  <2>1. pctx' \in BOOLEAN /\ closed' \in BOOLEAN
    BY <1>18, Zenon DEF CloseLocks, MarksClosed
  <2> QED
    BY <1>18, <2>1 DEF CloseLocks, MarksClosed
<1>19. ASSUME provider = "deepgram", CloseSocket, UNCHANGED <<provider, fakeVars>>
      PROVE  Typed'
  BY <1>19 DEF CloseSocket
<1>20. ASSUME provider = "deepgram", CloseChannel, UNCHANGED <<provider, fakeVars>>
      PROVE  Typed'
  <2>1. ended' \in BOOLEAN
    BY <1>20, Zenon DEF CloseChannel, EndsChannel
  <2> QED
    BY <1>20, <2>1 DEF CloseChannel, EndsChannel
<1>21. ASSUME provider = "deepgram", ServiceTakes, UNCHANGED <<provider, fakeVars>>
      PROVE  Typed'
  BY <1>21 DEF ServiceTakes
<1>22. ASSUME provider = "deepgram", SocketFails, UNCHANGED <<provider, fakeVars>>
      PROVE  Typed'
  BY <1>22 DEF SocketFails
<1>23. ASSUME provider = "fake", FakeSendAudio, UNCHANGED <<provider, deepgramVars>>
      PROVE  Typed'
  <2> DEFINE c == chunkCount + 1
             event == [n |-> seq + 1, phrase |-> phraseIndex, step |-> Step(c)]
  <2>1. c \in Nat /\ Step(c) \in Nat /\ event \in Event
    BY StepsAreWords DEF Event
  <2>2. chunkCount' \in Nat /\ phraseIndex' \in Nat /\ seq' \in Nat /\ seq <= seq'
    BY <1>23, <2>1 DEF FakeSendAudio, Offer, Advance
  <2>3. channel' \in Seq(Event) /\ Len(channel') <= EventBuffer
    <3>1. CASE UNCHANGED channel
      BY <3>1
    <3>2. CASE Offer(event)
      BY <2>1, <3>2 DEF Offer
    <3> QED
      BY <1>23, <3>1, <3>2 DEF FakeSendAudio
  <2>4. /\ UNCHANGED <<cancelled, chunks, audio, hearer, lastSeq>>
        /\ UNCHANGED <<closer, ended, closed, panicked>>
        /\ speaker' = "select"
    BY <1>23 DEF FakeSendAudio, Sends
  <2> QED
    BY <1>23, <2>2, <2>3, <2>4
<1>24. ASSUME provider = "fake", FakeCloseMarks, UNCHANGED <<provider, deepgramVars>>
      PROVE  Typed'
  <2>1. closed' \in BOOLEAN
    BY <1>24, Zenon DEF FakeCloseMarks, MarksClosed
  <2> QED
    BY <1>24, <2>1 DEF FakeCloseMarks, MarksClosed
<1>25. ASSUME provider = "fake", FakeCloseChannel, UNCHANGED <<provider, deepgramVars>>
      PROVE  Typed'
  <2>1. ended' \in BOOLEAN
    BY <1>25, Zenon DEF FakeCloseChannel, EndsChannel
  <2> QED
    BY <1>25, <2>1 DEF FakeCloseChannel, EndsChannel
<1>26. ASSUME UNCHANGED vars PROVE Typed'
  BY <1>26 DEF vars
<1> QED
  BY <1>1, <1>2, <1>3, <1>4, <1>5, <1>6, <1>7, <1>8, <1>9, <1>10, <1>11, <1>12, <1>13,
     <1>14, <1>15, <1>16, <1>17, <1>18, <1>19, <1>20, <1>21, <1>22, <1>23, <1>24,
     <1>25, <1>26
     DEF Next, Client, ClientStep, HearerStep, OfDeepgram, DeepgramStep, SendAudio,
         ReadLoop, Close, OfFake, FakeStep, FakeClose

-----------------------------------------------------------------------------
(* Closing *)

\* Close is called when the pumps are over, and closes the channel when the read loop
\* is; what would put an event into it is gone by then.
Closing ==
  /\ closer # "wait" => speaker = "exited" /\ hearer = "exited"
  /\ ended <=> closer = "done"
  /\ provider = "deepgram" /\ ended => reader = "exited"
  /\ ~panicked

LEMMA InitClosing == Init => Closing
<1> SUFFICES ASSUME Init PROVE Closing
  OBVIOUS
<1>1. ~ended /\ ~panicked /\ closer = "wait"
  BY Zenon DEF Init, ClientInit
<1> QED
  BY <1>1 DEF Closing

LEMMA StepClosing == Typed /\ Closing /\ [Next]_vars => Closing'
<1> SUFFICES ASSUME Typed, Closing, [Next]_vars PROVE Closing'
  OBVIOUS
<1>a. provider \in {"deepgram", "fake"} /\ ended \in BOOLEAN /\ panicked \in BOOLEAN
  BY DEF Typed, TypeOK, ClientTypeOK
<1> USE <1>a DEF Closing, clientVars, providerVars, deepgramVars, fakeVars
<1>1. ASSUME Speaks, UNCHANGED <<provider, deepgramVars, fakeVars>>
      PROVE  Closing'
  BY <1>1 DEF Speaks
<1>2. ASSUME Cancel, UNCHANGED <<provider, deepgramVars, fakeVars>>
      PROVE  Closing'
  BY <1>2 DEF Cancel
<1>3. ASSUME SpeakerTakes, UNCHANGED <<provider, deepgramVars, fakeVars>>
      PROVE  Closing'
  BY <1>3 DEF SpeakerTakes
<1>4. ASSUME SpeakerExits, UNCHANGED <<provider, deepgramVars, fakeVars>>
      PROVE  Closing'
  BY <1>4 DEF SpeakerExits
<1>5. ASSUME HearerTakes, UNCHANGED <<provider, deepgramVars, fakeVars>>
      PROVE  Closing'
  BY <1>5 DEF HearerTakes
<1>6. ASSUME HearerHandled, UNCHANGED <<provider, deepgramVars, fakeVars>>
      PROVE  Closing'
  BY <1>6 DEF HearerHandled
<1>7. ASSUME HearerExits, UNCHANGED <<provider, deepgramVars, fakeVars>>
      PROVE  Closing'
  BY <1>7 DEF HearerExits
<1>8. ASSUME provider = "deepgram", SendAudioRefused, UNCHANGED <<provider, fakeVars>>
      PROVE  Closing'
  BY <1>8 DEF SendAudioRefused, Sends
<1>9. ASSUME provider = "deepgram", SendAudioLocks, UNCHANGED <<provider, fakeVars>>
      PROVE  Closing'
  BY <1>9 DEF SendAudioLocks, Sends
<1>10. ASSUME provider = "deepgram", SendAudioWrites, UNCHANGED <<provider, fakeVars>>
      PROVE  Closing'
  BY <1>10 DEF SendAudioWrites, Sends
<1>11. ASSUME provider = "deepgram", ReadLoopTop, UNCHANGED <<provider, fakeVars>>
      PROVE  Closing'
  BY <1>11 DEF ReadLoopTop, Reads
<1>12. ASSUME provider = "deepgram", ReadLoopReads, UNCHANGED <<provider, fakeVars>>
      PROVE  Closing'
  BY <1>12 DEF ReadLoopReads, Reads
<1>13. ASSUME provider = "deepgram", ReadLoopFails, UNCHANGED <<provider, fakeVars>>
      PROVE  Closing'
  BY <1>13 DEF ReadLoopFails, Reads
<1>14. ASSUME provider = "deepgram", ReadLoopEnds, UNCHANGED <<provider, fakeVars>>
      PROVE  Closing'
  BY <1>14 DEF ReadLoopEnds, Reads
<1>15. ASSUME provider = "deepgram", ReadLoopChecks, UNCHANGED <<provider, fakeVars>>
      PROVE  Closing'
  BY <1>15 DEF ReadLoopChecks, Reads
<1>16. ASSUME provider = "deepgram", ReadLoopPuts, UNCHANGED <<provider, fakeVars>>
      PROVE  Closing'
  <2>1. ~ended
    BY <1>16 DEF ReadLoopPuts, Reads
  <2>2. ~panicked'
    BY <1>16, <2>1, Zenon DEF ReadLoopPuts
  <2> QED
    BY <1>16, <2>1, <2>2 DEF ReadLoopPuts, Reads
<1>17. ASSUME provider = "deepgram", ReadLoopGivesUp, UNCHANGED <<provider, fakeVars>>
      PROVE  Closing'
  BY <1>17 DEF ReadLoopGivesUp, Reads
<1>18. ASSUME provider = "deepgram", CloseLocks, UNCHANGED <<provider, fakeVars>>
      PROVE  Closing'
  BY <1>18 DEF CloseLocks, MarksClosed
<1>19. ASSUME provider = "deepgram", CloseSocket, UNCHANGED <<provider, fakeVars>>
      PROVE  Closing'
  BY <1>19 DEF CloseSocket
<1>20. ASSUME provider = "deepgram", CloseChannel, UNCHANGED <<provider, fakeVars>>
      PROVE  Closing'
  <2>1. ended' /\ closer' = "done" /\ UNCHANGED panicked
    BY <1>20, Zenon DEF CloseChannel, EndsChannel, clientVars
  <2> QED
    BY <1>20, <2>1 DEF CloseChannel, EndsChannel
<1>21. ASSUME provider = "deepgram", ServiceTakes, UNCHANGED <<provider, fakeVars>>
      PROVE  Closing'
  BY <1>21 DEF ServiceTakes
<1>22. ASSUME provider = "deepgram", SocketFails, UNCHANGED <<provider, fakeVars>>
      PROVE  Closing'
  BY <1>22 DEF SocketFails
<1>23. ASSUME provider = "fake", FakeSendAudio, UNCHANGED <<provider, deepgramVars>>
      PROVE  Closing'
  BY <1>23 DEF FakeSendAudio, Sends
<1>24. ASSUME provider = "fake", FakeCloseMarks, UNCHANGED <<provider, deepgramVars>>
      PROVE  Closing'
  BY <1>24 DEF FakeCloseMarks, MarksClosed
<1>25. ASSUME provider = "fake", FakeCloseChannel, UNCHANGED <<provider, deepgramVars>>
      PROVE  Closing'
  <2>1. ended' /\ closer' = "done" /\ UNCHANGED panicked
    BY <1>25, Zenon DEF FakeCloseChannel, EndsChannel, clientVars
  <2> QED
    BY <1>25, <2>1 DEF FakeCloseChannel, EndsChannel
<1>26. ASSUME UNCHANGED vars PROVE Closing'
  BY <1>26 DEF vars
<1> QED
  BY <1>1, <1>2, <1>3, <1>4, <1>5, <1>6, <1>7, <1>8, <1>9, <1>10, <1>11, <1>12, <1>13,
     <1>14, <1>15, <1>16, <1>17, <1>18, <1>19, <1>20, <1>21, <1>22, <1>23, <1>24,
     <1>25, <1>26
     DEF Next, Client, ClientStep, HearerStep, OfDeepgram, DeepgramStep, SendAudio,
         ReadLoop, Close, OfFake, FakeStep, FakeClose

-----------------------------------------------------------------------------
(* The numbers of the events *)

\* What is in the channel is later than what the pump has seen, rises, and was counted;
\* what the read loop is about to put in is later still.
Rising ==
  /\ lastSeq <= seq
  /\ \A i \in DOMAIN channel : lastSeq < channel[i].n /\ channel[i].n <= seq
  /\ \A i, j \in DOMAIN channel : i < j => channel[i].n < channel[j].n
  /\ provider = "deepgram" /\ reader \in {"check", "put"} =>
       /\ lastSeq < seq
       /\ \A i \in DOMAIN channel : channel[i].n < seq
  /\ provider = "fake" => reader = "top"

LEMMA InitRising == Init => Rising
  BY DEF Init, ClientInit, DeepgramInit, Rising

LEMMA Numbered ==
  ASSUME TypeOK
  PROVE  /\ channel \in Seq(Event) /\ Len(channel) \in Nat /\ seq \in Nat /\ lastSeq \in Nat
         /\ \A i \in DOMAIN channel : channel[i] \in Event /\ channel[i].n \in Nat
<1>1. channel \in Seq(Event) /\ seq \in Nat /\ lastSeq \in Nat
  BY DEF TypeOK, ClientTypeOK
<1>2. \A e \in Event : e.n \in Nat
  BY DEF Event
<1> QED
  BY <1>1, <1>2

\* An event with a later number goes to the end of the channel.
LEMMA PutRising ==
  ASSUME TypeOK, Rising, NEW e \in Event, channel' = Append(channel, e),
         \A i \in DOMAIN channel : channel[i].n < e.n
  PROVE  /\ \A i \in DOMAIN channel' : i \in DOMAIN channel \/ channel'[i] = e
         /\ \A i \in DOMAIN channel : channel'[i] = channel[i]
         /\ \A i, j \in DOMAIN channel' : i < j => channel'[i].n < channel'[j].n
<1>1. channel \in Seq(Event) /\ \A i \in DOMAIN channel : channel[i].n \in Nat
  BY Numbered
<1>2. /\ DOMAIN channel' = DOMAIN channel \cup {Len(channel) + 1}
      /\ \A i \in DOMAIN channel : channel'[i] = channel[i] /\ i < Len(channel) + 1
      /\ channel'[Len(channel) + 1] = e
      /\ \A i, j \in DOMAIN channel' : i < j => i \in DOMAIN channel
  BY <1>1
<1> QED
  BY <1>2 DEF Rising

\* The head of the channel is later than what was seen, so that it is never skipped.
LEMMA HeadIsLater ==
  ASSUME TypeOK, Rising, channel # <<>>
  PROVE  /\ Head(channel) = channel[1] /\ 1 \in DOMAIN channel
         /\ Head(channel).n \in Nat /\ lastSeq < Head(channel).n /\ Head(channel).n <= seq
         /\ DOMAIN Tail(channel) = 1..(Len(channel) - 1)
         /\ \A i \in DOMAIN Tail(channel) :
              /\ i + 1 \in DOMAIN channel /\ 1 < i + 1 /\ Tail(channel)[i] = channel[i + 1]
<1>1. channel \in Seq(Event) /\ \A i \in DOMAIN channel : channel[i].n \in Nat
  BY Numbered
<1>2. /\ Head(channel) = channel[1] /\ 1 \in DOMAIN channel
      /\ DOMAIN Tail(channel) = 1..(Len(channel) - 1)
      /\ \A i \in DOMAIN Tail(channel) :
           /\ i + 1 \in DOMAIN channel /\ 1 < i + 1 /\ Tail(channel)[i] = channel[i + 1]
  BY <1>1
<1> QED
  BY <1>1, <1>2 DEF Rising

LEMMA StepRising == Typed /\ Closing /\ Rising /\ [Next]_vars => Rising'
<1> SUFFICES ASSUME Typed, Closing, Rising, [Next]_vars PROVE Rising'
  OBVIOUS
<1>a. /\ seq \in Nat /\ lastSeq \in Nat
      /\ \A i \in DOMAIN channel : channel[i].n \in Nat
  BY Numbered DEF Typed
<1>b. ASSUME UNCHANGED <<channel, lastSeq, seq, reader, provider>> PROVE Rising'
  BY <1>b DEF Rising
<1>c. ASSUME UNCHANGED <<channel, lastSeq, seq, provider>>, provider = "deepgram",
             reader' \in {"check", "put"} => reader \in {"check", "put"}
      PROVE  Rising'
  BY <1>c DEF Rising
<1> USE DEF clientVars, providerVars, deepgramVars, fakeVars
<1>1. ASSUME Speaks, UNCHANGED <<provider, deepgramVars, fakeVars>>
      PROVE  Rising'
  BY <1>1, <1>b DEF Speaks
<1>2. ASSUME Cancel, UNCHANGED <<provider, deepgramVars, fakeVars>>
      PROVE  Rising'
  BY <1>2, <1>b DEF Cancel
<1>3. ASSUME SpeakerTakes, UNCHANGED <<provider, deepgramVars, fakeVars>>
      PROVE  Rising'
  BY <1>3, <1>b DEF SpeakerTakes
<1>4. ASSUME SpeakerExits, UNCHANGED <<provider, deepgramVars, fakeVars>>
      PROVE  Rising'
  BY <1>4, <1>b DEF SpeakerExits
<1>5. ASSUME HearerTakes, UNCHANGED <<provider, deepgramVars, fakeVars>>
      PROVE  Rising'
  <2>1. /\ channel' = Tail(channel) /\ channel # <<>>
        /\ UNCHANGED <<seq, reader, provider>>
        /\ lastSeq' = IF Head(channel).n < lastSeq THEN lastSeq ELSE Head(channel).n
    BY <1>5 DEF HearerTakes
  <2>2. TypeOK
    BY DEF Typed
  <2>3. lastSeq' = Head(channel).n
    BY <1>a, <2>1, <2>2, HeadIsLater
  <2> QED
    BY <1>a, <2>1, <2>2, <2>3, HeadIsLater DEF Rising
<1>6. ASSUME HearerHandled, UNCHANGED <<provider, deepgramVars, fakeVars>>
      PROVE  Rising'
  BY <1>6, <1>b DEF HearerHandled
<1>7. ASSUME HearerExits, UNCHANGED <<provider, deepgramVars, fakeVars>>
      PROVE  Rising'
  BY <1>7, <1>b DEF HearerExits
<1>8. ASSUME provider = "deepgram", SendAudioRefused, UNCHANGED <<provider, fakeVars>>
      PROVE  Rising'
  BY <1>8, <1>b DEF SendAudioRefused, Sends
<1>9. ASSUME provider = "deepgram", SendAudioLocks, UNCHANGED <<provider, fakeVars>>
      PROVE  Rising'
  BY <1>9, <1>b DEF SendAudioLocks, Sends
<1>10. ASSUME provider = "deepgram", SendAudioWrites, UNCHANGED <<provider, fakeVars>>
      PROVE  Rising'
  BY <1>10, <1>b DEF SendAudioWrites, Sends
<1>11. ASSUME provider = "deepgram", ReadLoopTop, UNCHANGED <<provider, fakeVars>>
      PROVE  Rising'
  BY <1>11, <1>c DEF ReadLoopTop, Reads
<1>12. ASSUME provider = "deepgram", ReadLoopReads, UNCHANGED <<provider, fakeVars>>
      PROVE  Rising'
  <2>1. CASE Reads("read", "top") /\ UNCHANGED seq
    BY <1>12, <2>1, <1>c DEF ReadLoopReads, Reads
  <2>2. CASE Reads("read", "check") /\ seq' = seq + 1
    BY <1>12, <1>a, <2>2 DEF ReadLoopReads, Reads, Rising
  <2> QED
    BY <1>12, <2>1, <2>2 DEF ReadLoopReads
<1>13. ASSUME provider = "deepgram", ReadLoopFails, UNCHANGED <<provider, fakeVars>>
      PROVE  Rising'
  BY <1>13, <1>c DEF ReadLoopFails, Reads
<1>14. ASSUME provider = "deepgram", ReadLoopEnds, UNCHANGED <<provider, fakeVars>>
      PROVE  Rising'
  BY <1>14, <1>c DEF ReadLoopEnds, Reads
<1>15. ASSUME provider = "deepgram", ReadLoopChecks, UNCHANGED <<provider, fakeVars>>
      PROVE  Rising'
  BY <1>15, <1>c DEF ReadLoopChecks, Reads
<1>16. ASSUME provider = "deepgram", ReadLoopPuts, UNCHANGED <<provider, fakeVars>>
      PROVE  Rising'
  <2> DEFINE e == [n |-> seq, phrase |-> 0, step |-> 0]
  <2>1. e \in Event /\ e.n = seq
    BY <1>16 DEF ReadLoopPuts, Reads, Typed, TypeOK, ClientTypeOK, Event
  <2>2. channel' = Append(channel, e) /\ UNCHANGED <<lastSeq, seq, provider>>
    BY <1>16 DEF ReadLoopPuts, Reads, Closing
  <2>3. reader = "put" /\ reader' = "top"
    BY <1>16 DEF ReadLoopPuts, Reads
  <2>4. lastSeq < seq /\ \A i \in DOMAIN channel : channel[i].n < e.n
    BY <1>16, <2>1, <2>3 DEF Rising
  <2>5. TypeOK
    BY DEF Typed
  <2>6. /\ \A i \in DOMAIN channel' : i \in DOMAIN channel \/ channel'[i] = e
        /\ \A i \in DOMAIN channel : channel'[i] = channel[i]
        /\ \A i, j \in DOMAIN channel' : i < j => channel'[i].n < channel'[j].n
    BY <2>1, <2>2, <2>4, <2>5, PutRising
  <2> HIDE DEF e
  <2> QED
    BY <1>16, <1>a, <2>1, <2>2, <2>3, <2>4, <2>6 DEF Rising
<1>17. ASSUME provider = "deepgram", ReadLoopGivesUp, UNCHANGED <<provider, fakeVars>>
      PROVE  Rising'
  BY <1>17, <1>c DEF ReadLoopGivesUp, Reads
<1>18. ASSUME provider = "deepgram", CloseLocks, UNCHANGED <<provider, fakeVars>>
      PROVE  Rising'
  BY <1>18, <1>b DEF CloseLocks, MarksClosed
<1>19. ASSUME provider = "deepgram", CloseSocket, UNCHANGED <<provider, fakeVars>>
      PROVE  Rising'
  BY <1>19, <1>b DEF CloseSocket
<1>20. ASSUME provider = "deepgram", CloseChannel, UNCHANGED <<provider, fakeVars>>
      PROVE  Rising'
  BY <1>20, <1>b DEF CloseChannel, EndsChannel
<1>21. ASSUME provider = "deepgram", ServiceTakes, UNCHANGED <<provider, fakeVars>>
      PROVE  Rising'
  BY <1>21, <1>b DEF ServiceTakes
<1>22. ASSUME provider = "deepgram", SocketFails, UNCHANGED <<provider, fakeVars>>
      PROVE  Rising'
  BY <1>22, <1>b DEF SocketFails
<1>23. ASSUME provider = "fake", FakeSendAudio, UNCHANGED <<provider, deepgramVars>>
      PROVE  Rising'
  <2>1. CASE UNCHANGED <<channel, seq>>
    BY <1>23, <2>1, <1>b DEF FakeSendAudio, Sends
  <2>2. CASE Offer([n |-> seq + 1, phrase |-> phraseIndex, step |-> Step(chunkCount + 1)])
    <3> DEFINE e == [n |-> seq + 1, phrase |-> phraseIndex, step |-> Step(chunkCount + 1)]
    <3>1. TypeOK /\ phraseIndex \in Nat /\ chunkCount + 1 \in Nat
      BY DEF Typed, TypeOK, FakeTypeOK
    <3>2. e \in Event /\ e.n = seq + 1
      BY <1>a, <3>1, StepsAreWords DEF Event
    <3>3. /\ seq' = seq + 1 /\ UNCHANGED <<lastSeq, provider, reader>>
          /\ channel' = channel \/ channel' = Append(channel, e)
      BY <1>23, <2>2 DEF FakeSendAudio, Sends, Offer
    <3> HIDE DEF e
    <3>4. reader' = "top"
      BY <1>23, <3>3 DEF Rising
    <3>5. CASE channel' = channel
      BY <1>a, <3>3, <3>4, <3>5 DEF Rising
    <3>6. CASE channel' = Append(channel, e)
      <4>1. \A i \in DOMAIN channel : channel[i].n < e.n
        BY <1>a, <3>2 DEF Rising
      <4>2. /\ \A i \in DOMAIN channel' : i \in DOMAIN channel \/ channel'[i] = e
            /\ \A i \in DOMAIN channel : channel'[i] = channel[i]
            /\ \A i, j \in DOMAIN channel' : i < j => channel'[i].n < channel'[j].n
        BY <3>1, <3>2, <3>6, <4>1, PutRising
      <4> QED
        BY <1>a, <3>2, <3>3, <3>4, <4>2 DEF Rising
    <3> QED
      BY <3>3, <3>5, <3>6
  <2> QED
    BY <1>23, <2>1, <2>2 DEF FakeSendAudio
<1>24. ASSUME provider = "fake", FakeCloseMarks, UNCHANGED <<provider, deepgramVars>>
      PROVE  Rising'
  BY <1>24, <1>b DEF FakeCloseMarks, MarksClosed
<1>25. ASSUME provider = "fake", FakeCloseChannel, UNCHANGED <<provider, deepgramVars>>
      PROVE  Rising'
  BY <1>25, <1>b DEF FakeCloseChannel, EndsChannel
<1>26. ASSUME UNCHANGED vars PROVE Rising'
  BY <1>26, <1>b DEF vars
<1> QED
  BY <1>1, <1>2, <1>3, <1>4, <1>5, <1>6, <1>7, <1>8, <1>9, <1>10, <1>11, <1>12, <1>13,
     <1>14, <1>15, <1>16, <1>17, <1>18, <1>19, <1>20, <1>21, <1>22, <1>23, <1>24,
     <1>25, <1>26
     DEF Next, Client, ClientStep, HearerStep, OfDeepgram, DeepgramStep, SendAudio,
         ReadLoop, Close, OfFake, FakeStep, FakeClose

-----------------------------------------------------------------------------
(* The channel is a TranscriptStream *)

\* What the channel looks like from outside.
Numbers == [i \in DOMAIN channel |-> channel[i].n]

Newest == IF channel = <<>> THEN lastSeq ELSE channel[Len(channel)].n

LEMMA PutIsPut ==
  ASSUME Typed, Rising, NEW e \in Event, channel' = Append(channel, e), ~ended,
         lastSeq < e.n, \A i \in DOMAIN channel : channel[i].n < e.n,
         UNCHANGED ended
  PROVE  Stream!Put
<1>1. /\ channel \in Seq(Event) /\ Len(channel) \in Nat /\ lastSeq \in Nat
      /\ \A i \in DOMAIN channel : channel[i].n \in Nat
  BY Numbered DEF Typed
<1>2. e.n \in Nat
  BY DEF Event
<1>3. channel' # <<>> /\ Len(channel') = Len(channel) + 1 /\ channel'[Len(channel) + 1] = e
  BY <1>1, AppendProperties
<1>4. Newest' = e.n
  BY <1>3 DEF Newest
<1>5. Newest < e.n
  <2>1. CASE channel = <<>>
    BY <2>1 DEF Newest
  <2>2. CASE channel # <<>>
    <3>1. Len(channel) \in DOMAIN channel
      BY <1>1, <2>2, EmptySeq
    <3> QED
      BY <3>1, <2>2 DEF Newest
  <2> QED
    BY <2>1, <2>2
<1>6. Numbers' = Append(Numbers, e.n)
  BY <1>1, <1>2 DEF Numbers
<1> QED
  BY <1>2, <1>4, <1>5, <1>6 DEF Stream!Put, Numbers, Newest

LEMMA TakeIsTake ==
  ASSUME Typed, Rising, channel # <<>>, channel' = Tail(channel),
         lastSeq' = Head(channel).n, UNCHANGED ended
  PROVE  Stream!Take
<1>1. /\ channel \in Seq(Event) /\ Len(channel) \in Nat /\ TypeOK
      /\ \A i \in DOMAIN channel : channel[i].n \in Nat
  BY Numbered DEF Typed
<1>2. Head(channel) = channel[1] /\ Len(channel) > 0
  BY <1>1, EmptySeq
<1>t. /\ Tail(channel) \in Seq(Event) /\ Len(Tail(channel)) = Len(channel) - 1
      /\ \A i \in 1..Len(Tail(channel)) : Tail(channel)[i] = channel[i + 1]
  BY <1>1, HeadTailProperties
<1>3. Tail(channel) = <<>> <=> Len(channel) = 1
  <2>1. Tail(channel) = <<>> <=> Len(Tail(channel)) = 0
    <3>1. Len(<<>>) = 0
      BY EmptySeq
    <3>2. Tail(channel) # <<>> => Len(Tail(channel)) # 0
      BY <1>t, EmptySeq
    <3> QED
      BY <3>1, <3>2, Zenon
  <2>2. Len(Tail(channel)) = 0 <=> Len(channel) = 1
    BY <1>1, <1>t
  <2> QED
    BY <2>1, <2>2, Zenon
<1>4. Newest' = Newest
  <2>1. CASE Len(channel) = 1
    BY <1>2, <1>3, <2>1 DEF Newest
  <2>2. CASE Len(channel) # 1
    <3>1. /\ Len(Tail(channel)) = Len(channel) - 1
          /\ Tail(channel)[Len(channel) - 1] = channel[Len(channel)]
      <4>1. Len(channel) - 1 \in 1..Len(Tail(channel)) /\ (Len(channel) - 1) + 1 = Len(channel)
        BY <1>1, <1>2, <1>t, <2>2
      <4> QED
        BY <1>t, <4>1
    <3> QED
      BY <1>3, <2>2, <3>1 DEF Newest
  <2> QED
    BY <2>1, <2>2
<1>5. Numbers # <<>> /\ Numbers' = Tail(Numbers)
  BY <1>1, <1>2 DEF Numbers
<1> QED
  BY <1>4, <1>5 DEF Stream!Take, Numbers, Newest

LEMMA StepIsStreamed ==
  Typed /\ Closing /\ Rising /\ [Next]_vars => [Stream!Next]_(Stream!vars)
<1> DEFINE Streamed == [Stream!Next]_(Stream!vars)
<1> SUFFICES ASSUME Typed, Closing, Rising, [Next]_vars PROVE Streamed
  OBVIOUS
<1>a. ASSUME UNCHANGED <<channel, lastSeq, ended>> PROVE Streamed
  BY <1>a DEF Stream!vars
<1>b. ASSUME Stream!Put \/ Stream!Take PROVE Streamed
  BY <1>b DEF Stream!Next
<1>c. ASSUME NEW here, here # "done", EndsChannel(here) PROVE Streamed
  <2>1. ~ended /\ ended' = TRUE /\ UNCHANGED <<channel, lastSeq>>
    BY <1>c DEF EndsChannel, Closing, clientVars
  <2> QED
    BY <2>1 DEF Stream!Next, Stream!End
<1> HIDE DEF Streamed
<1> USE DEF clientVars, providerVars, deepgramVars, fakeVars
<1>1. ASSUME Speaks, UNCHANGED <<provider, deepgramVars, fakeVars>>
      PROVE  Streamed
  BY <1>1, <1>a DEF Speaks
<1>2. ASSUME Cancel, UNCHANGED <<provider, deepgramVars, fakeVars>>
      PROVE  Streamed
  BY <1>2, <1>a DEF Cancel
<1>3. ASSUME SpeakerTakes, UNCHANGED <<provider, deepgramVars, fakeVars>>
      PROVE  Streamed
  BY <1>3, <1>a DEF SpeakerTakes
<1>4. ASSUME SpeakerExits, UNCHANGED <<provider, deepgramVars, fakeVars>>
      PROVE  Streamed
  BY <1>4, <1>a DEF SpeakerExits
<1>5. ASSUME HearerTakes, UNCHANGED <<provider, deepgramVars, fakeVars>>
      PROVE  Streamed
  <2>1. /\ channel' = Tail(channel) /\ channel # <<>> /\ UNCHANGED ended
        /\ lastSeq' = IF Head(channel).n < lastSeq THEN lastSeq ELSE Head(channel).n
    BY <1>5 DEF HearerTakes
  <2>2. TypeOK /\ lastSeq \in Nat
    BY Numbered DEF Typed
  <2>3. lastSeq' = Head(channel).n
    BY <2>1, <2>2, HeadIsLater
  <2> QED
    BY <1>b, <2>1, <2>3, TakeIsTake
<1>6. ASSUME HearerHandled, UNCHANGED <<provider, deepgramVars, fakeVars>>
      PROVE  Streamed
  BY <1>6, <1>a DEF HearerHandled
<1>7. ASSUME HearerExits, UNCHANGED <<provider, deepgramVars, fakeVars>>
      PROVE  Streamed
  BY <1>7, <1>a DEF HearerExits
<1>8. ASSUME provider = "deepgram", SendAudioRefused, UNCHANGED <<provider, fakeVars>>
      PROVE  Streamed
  BY <1>8, <1>a DEF SendAudioRefused, Sends
<1>9. ASSUME provider = "deepgram", SendAudioLocks, UNCHANGED <<provider, fakeVars>>
      PROVE  Streamed
  BY <1>9, <1>a DEF SendAudioLocks, Sends
<1>10. ASSUME provider = "deepgram", SendAudioWrites, UNCHANGED <<provider, fakeVars>>
      PROVE  Streamed
  BY <1>10, <1>a DEF SendAudioWrites, Sends
<1>11. ASSUME provider = "deepgram", ReadLoopTop, UNCHANGED <<provider, fakeVars>>
      PROVE  Streamed
  BY <1>11, <1>a DEF ReadLoopTop, Reads
<1>12. ASSUME provider = "deepgram", ReadLoopReads, UNCHANGED <<provider, fakeVars>>
      PROVE  Streamed
  BY <1>12, <1>a DEF ReadLoopReads, Reads
<1>13. ASSUME provider = "deepgram", ReadLoopFails, UNCHANGED <<provider, fakeVars>>
      PROVE  Streamed
  BY <1>13, <1>a DEF ReadLoopFails, Reads
<1>14. ASSUME provider = "deepgram", ReadLoopEnds, UNCHANGED <<provider, fakeVars>>
      PROVE  Streamed
  BY <1>14, <1>a DEF ReadLoopEnds, Reads
<1>15. ASSUME provider = "deepgram", ReadLoopChecks, UNCHANGED <<provider, fakeVars>>
      PROVE  Streamed
  BY <1>15, <1>a DEF ReadLoopChecks, Reads
<1>16. ASSUME provider = "deepgram", ReadLoopPuts, UNCHANGED <<provider, fakeVars>>
      PROVE  Streamed
  <2> DEFINE e == [n |-> seq, phrase |-> 0, step |-> 0]
  <2>1. e \in Event /\ e.n = seq
    BY <1>16 DEF ReadLoopPuts, Reads, Typed, TypeOK, ClientTypeOK, Event
  <2>2. ~ended /\ UNCHANGED ended /\ channel' = Append(channel, e)
    BY <1>16 DEF ReadLoopPuts, Reads, Closing
  <2>3. lastSeq < e.n /\ \A i \in DOMAIN channel : channel[i].n < e.n
    BY <1>16, <2>1 DEF ReadLoopPuts, Reads, Rising
  <2> HIDE DEF e
  <2> QED
    BY <1>b, <2>1, <2>2, <2>3, PutIsPut
<1>17. ASSUME provider = "deepgram", ReadLoopGivesUp, UNCHANGED <<provider, fakeVars>>
      PROVE  Streamed
  BY <1>17, <1>a DEF ReadLoopGivesUp, Reads
<1>18. ASSUME provider = "deepgram", CloseLocks, UNCHANGED <<provider, fakeVars>>
      PROVE  Streamed
  BY <1>18, <1>a DEF CloseLocks, MarksClosed
<1>19. ASSUME provider = "deepgram", CloseSocket, UNCHANGED <<provider, fakeVars>>
      PROVE  Streamed
  BY <1>19, <1>a DEF CloseSocket
<1>20. ASSUME provider = "deepgram", CloseChannel, UNCHANGED <<provider, fakeVars>>
      PROVE  Streamed
  BY <1>20, <1>c DEF CloseChannel
<1>21. ASSUME provider = "deepgram", ServiceTakes, UNCHANGED <<provider, fakeVars>>
      PROVE  Streamed
  BY <1>21, <1>a DEF ServiceTakes
<1>22. ASSUME provider = "deepgram", SocketFails, UNCHANGED <<provider, fakeVars>>
      PROVE  Streamed
  BY <1>22, <1>a DEF SocketFails
<1>23. ASSUME provider = "fake", FakeSendAudio, UNCHANGED <<provider, deepgramVars>>
      PROVE  Streamed
  <2>1. CASE UNCHANGED <<channel, seq>>
    BY <1>23, <2>1, <1>a DEF FakeSendAudio, Sends
  <2>2. CASE Offer([n |-> seq + 1, phrase |-> phraseIndex, step |-> Step(chunkCount + 1)])
    <3> DEFINE e == [n |-> seq + 1, phrase |-> phraseIndex, step |-> Step(chunkCount + 1)]
    <3>1. /\ TypeOK /\ phraseIndex \in Nat /\ chunkCount + 1 \in Nat /\ seq \in Nat
          /\ \A i \in DOMAIN channel : channel[i].n \in Nat
      BY Numbered DEF Typed, TypeOK, FakeTypeOK
    <3>2. e \in Event /\ e.n = seq + 1
      BY <3>1, StepsAreWords DEF Event
    <3>3. /\ UNCHANGED <<lastSeq, ended>> /\ ~ended
          /\ channel' = channel \/ channel' = Append(channel, e)
      BY <1>23, <2>2 DEF FakeSendAudio, Sends, Offer, Closing
    <3>4. lastSeq < e.n /\ \A i \in DOMAIN channel : channel[i].n < e.n
      BY <3>1, <3>2, Numbered DEF Rising
    <3> HIDE DEF e
    <3>5. CASE channel' = channel
      BY <1>a, <3>3, <3>5
    <3>6. CASE channel' = Append(channel, e)
      BY <1>b, <3>2, <3>3, <3>4, <3>6, PutIsPut
    <3> QED
      BY <3>3, <3>5, <3>6
  <2> QED
    BY <1>23, <2>1, <2>2 DEF FakeSendAudio
<1>24. ASSUME provider = "fake", FakeCloseMarks, UNCHANGED <<provider, deepgramVars>>
      PROVE  Streamed
  BY <1>24, <1>a DEF FakeCloseMarks, MarksClosed
<1>25. ASSUME provider = "fake", FakeCloseChannel, UNCHANGED <<provider, deepgramVars>>
      PROVE  Streamed
  BY <1>25, <1>c DEF FakeCloseChannel
<1>26. ASSUME UNCHANGED vars PROVE Streamed
  BY <1>26, <1>a DEF vars
<1> QED
  BY <1>1, <1>2, <1>3, <1>4, <1>5, <1>6, <1>7, <1>8, <1>9, <1>10, <1>11, <1>12, <1>13,
     <1>14, <1>15, <1>16, <1>17, <1>18, <1>19, <1>20, <1>21, <1>22, <1>23, <1>24,
     <1>25, <1>26
     DEF Next, Client, ClientStep, HearerStep, OfDeepgram, DeepgramStep, SendAudio,
         ReadLoop, Close, OfFake, FakeStep, FakeClose

-----------------------------------------------------------------------------
(* The phrases of the fake provider *)

WordsOf(phrase) == Words[(phrase % Len(Words)) + 1]

Said == chunkCount \div 2

\* What follows a word: the next one, or the first one of the next phrase.
Follows(before, phrase, step) ==
  IF before.step < WordsOf(before.phrase)
  THEN phrase = before.phrase /\ step = before.step + 1
  ELSE phrase = before.phrase + 1 /\ step = 1

\* Fewer words than the phrase has have been said; and the next word follows the event
\* numbered last, if that one is still there.
Speaking ==
  provider = "fake" =>
    /\ Said < Length
    /\ \A i \in DOMAIN channel :
         channel[i].n = seq => Follows(channel[i], phraseIndex, Said + 1)
    /\ \A i \in DOMAIN channel :
         i > 1 /\ channel[i].n = channel[i - 1].n + 1
           => Follows(channel[i - 1], channel[i].phrase, channel[i].step)

LEMMA SpeakingFollows == Speaking => PhraseByPhrase
  BY DEF Speaking, PhraseByPhrase, Follows, WordsOf

LEMMA InitSpeaking == Init => Speaking
<1> SUFFICES ASSUME Init PROVE Speaking
  OBVIOUS
<1>1. Said = 0 /\ channel = <<>> /\ phraseIndex \in Nat
  BY DEF Init, ClientInit, FakeInit, Said
<1>2. Length \in Nat \ {0}
  BY <1>1, PhrasesHaveWords DEF Length
<1> QED
  BY <1>1, <1>2 DEF Speaking

\* Every second chunk says one more word, which its step names.
LEMMA ChunksSayWords ==
  ASSUME TypeOK, Said < Length
  PROVE  LET c == chunkCount + 1
         IN  /\ c % 2 # 0 => c \div 2 = Said
             /\ c % 2 = 0 => c \div 2 = Said + 1 /\ Step(c) = Said + 1
<1> DEFINE c == chunkCount + 1
<1>1. chunkCount \in Nat /\ Length \in Nat \ {0} /\ Said \in Nat
  <2>1. chunkCount \in Nat /\ phraseIndex \in Nat
    BY DEF TypeOK, FakeTypeOK
  <2>2. Length \in Nat \ {0}
    BY <2>1, PhrasesHaveWords DEF Length
  <2>3. Said \in Nat
    BY <2>1 DEF Said
  <2> QED
    BY <2>1, <2>2, <2>3
<1>2. c % 2 # 0 => c \div 2 = Said
  BY <1>1 DEF Said
<1>3. c % 2 = 0 => c \div 2 = Said + 1
  BY <1>1 DEF Said
<1>4. (Said + 1) % (Length + 1) = Said + 1
  BY <1>1
<1>5. c % 2 = 0 => Step(c) = Said + 1
  BY <1>1, <1>3, <1>4 DEF Step
<1> QED
  BY <1>2, <1>3, <1>5

LEMMA StepSpeaking == Typed /\ Rising /\ Speaking /\ [Next]_vars => Speaking'
<1> SUFFICES ASSUME Typed, Rising, Speaking, [Next]_vars PROVE Speaking'
  OBVIOUS
<1>a. ASSUME UNCHANGED <<channel, seq, provider, fakeVars>> PROVE Speaking'
  BY <1>a DEF Speaking, Said, Length, Follows, WordsOf, fakeVars
<1>b. ASSUME provider = "deepgram", UNCHANGED provider PROVE Speaking'
  BY <1>b DEF Speaking
<1>c. TypeOK
  BY DEF Typed
<1> USE DEF clientVars, providerVars
<1>1. ASSUME Speaks, UNCHANGED <<provider, deepgramVars, fakeVars>>
      PROVE  Speaking'
  BY <1>1, <1>a DEF Speaks
<1>2. ASSUME Cancel, UNCHANGED <<provider, deepgramVars, fakeVars>>
      PROVE  Speaking'
  BY <1>2, <1>a DEF Cancel
<1>3. ASSUME SpeakerTakes, UNCHANGED <<provider, deepgramVars, fakeVars>>
      PROVE  Speaking'
  BY <1>3, <1>a DEF SpeakerTakes
<1>4. ASSUME SpeakerExits, UNCHANGED <<provider, deepgramVars, fakeVars>>
      PROVE  Speaking'
  BY <1>4, <1>a DEF SpeakerExits
<1>5. ASSUME HearerTakes, UNCHANGED <<provider, deepgramVars, fakeVars>>
      PROVE  Speaking'
  <2>1. /\ channel' = Tail(channel) /\ channel # <<>>
        /\ UNCHANGED <<seq, provider, chunkCount, phraseIndex>>
    BY <1>5 DEF HearerTakes, fakeVars
  <2>2. /\ Said' = Said /\ Length' = Length
    BY <2>1 DEF Said, Length
  <2>3. \A i \in DOMAIN channel' :
          /\ i \in Nat /\ i + 1 \in DOMAIN channel /\ 1 < i + 1 /\ (i + 1) - 1 = i
          /\ channel'[i] = channel[i + 1]
          /\ i > 1 => i \in DOMAIN channel /\ channel'[i - 1] = channel[i]
    BY <1>c, <2>1, HeadIsLater, Numbered
  <2> QED
    BY <2>1, <2>2, <2>3 DEF Speaking
<1>6. ASSUME HearerHandled, UNCHANGED <<provider, deepgramVars, fakeVars>>
      PROVE  Speaking'
  BY <1>6, <1>a DEF HearerHandled
<1>7. ASSUME HearerExits, UNCHANGED <<provider, deepgramVars, fakeVars>>
      PROVE  Speaking'
  BY <1>7, <1>a DEF HearerExits
<1>8. ASSUME provider = "deepgram", SendAudioRefused, UNCHANGED <<provider, fakeVars>>
      PROVE  Speaking'
  BY <1>8, <1>b
<1>9. ASSUME provider = "deepgram", SendAudioLocks, UNCHANGED <<provider, fakeVars>>
      PROVE  Speaking'
  BY <1>9, <1>b
<1>10. ASSUME provider = "deepgram", SendAudioWrites, UNCHANGED <<provider, fakeVars>>
      PROVE  Speaking'
  BY <1>10, <1>b
<1>11. ASSUME provider = "deepgram", ReadLoopTop, UNCHANGED <<provider, fakeVars>>
      PROVE  Speaking'
  BY <1>11, <1>b
<1>12. ASSUME provider = "deepgram", ReadLoopReads, UNCHANGED <<provider, fakeVars>>
      PROVE  Speaking'
  BY <1>12, <1>b
<1>13. ASSUME provider = "deepgram", ReadLoopFails, UNCHANGED <<provider, fakeVars>>
      PROVE  Speaking'
  BY <1>13, <1>b
<1>14. ASSUME provider = "deepgram", ReadLoopEnds, UNCHANGED <<provider, fakeVars>>
      PROVE  Speaking'
  BY <1>14, <1>b
<1>15. ASSUME provider = "deepgram", ReadLoopChecks, UNCHANGED <<provider, fakeVars>>
      PROVE  Speaking'
  BY <1>15, <1>b
<1>16. ASSUME provider = "deepgram", ReadLoopPuts, UNCHANGED <<provider, fakeVars>>
      PROVE  Speaking'
  BY <1>16, <1>b
<1>17. ASSUME provider = "deepgram", ReadLoopGivesUp, UNCHANGED <<provider, fakeVars>>
      PROVE  Speaking'
  BY <1>17, <1>b
<1>18. ASSUME provider = "deepgram", CloseLocks, UNCHANGED <<provider, fakeVars>>
      PROVE  Speaking'
  BY <1>18, <1>b
<1>19. ASSUME provider = "deepgram", CloseSocket, UNCHANGED <<provider, fakeVars>>
      PROVE  Speaking'
  BY <1>19, <1>b
<1>20. ASSUME provider = "deepgram", CloseChannel, UNCHANGED <<provider, fakeVars>>
      PROVE  Speaking'
  BY <1>20, <1>b
<1>21. ASSUME provider = "deepgram", ServiceTakes, UNCHANGED <<provider, fakeVars>>
      PROVE  Speaking'
  BY <1>21, <1>b
<1>22. ASSUME provider = "deepgram", SocketFails, UNCHANGED <<provider, fakeVars>>
      PROVE  Speaking'
  BY <1>22, <1>b
<1>23. ASSUME provider = "fake", FakeSendAudio, UNCHANGED <<provider, deepgramVars>>
      PROVE  Speaking'
  <2> DEFINE c == chunkCount + 1
             e == [n |-> seq + 1, phrase |-> phraseIndex, step |-> Step(c)]
  <2>1. /\ UNCHANGED provider /\ Said < Length /\ phraseIndex \in Nat
        /\ Length \in Nat \ {0} /\ Said \in Nat /\ c \in Nat
    BY <1>23, <1>c, PhrasesHaveWords
       DEF FakeSendAudio, Speaking, TypeOK, FakeTypeOK, Length, Said
  <2>2. CASE UNCHANGED <<channel, seq, fakeVars>>
    BY <2>1, <2>2, <1>a
  <2>3. CASE c % 2 # 0 /\ chunkCount' = c /\ UNCHANGED <<channel, seq, phraseIndex>>
    <3>1. Said' = Said /\ Length' = Length
      BY <1>c, <2>1, <2>3, ChunksSayWords DEF Said, Length
    <3> QED
      BY <2>1, <2>3, <3>1 DEF Speaking
  <2>4. CASE /\ c % 2 = 0
             /\ Offer(e)
             /\ IF Step(c) < Length
                THEN chunkCount' = c /\ UNCHANGED phraseIndex ELSE Advance(c)
    <3>1. /\ e \in Event /\ e.n = seq + 1 /\ e.phrase = phraseIndex /\ e.step = Said + 1
          /\ Step(c) = Said + 1
      BY <1>c, <2>1, <2>4, ChunksSayWords, Numbered DEF Event
    <3>2. /\ Said' < Length'
          /\ Follows(e, phraseIndex', Said' + 1)
      <4>1. CASE Said + 1 < Length
        <5>1. Said' = Said + 1 /\ phraseIndex' = phraseIndex /\ Length' = Length
          BY <1>c, <2>1, <2>4, <3>1, <4>1, ChunksSayWords DEF Said, Length
        <5> QED
          BY <2>1, <3>1, <4>1, <5>1 DEF Follows, WordsOf, Length
      <4>2. CASE ~(Said + 1 < Length)
        <5>1. chunkCount' = 0 /\ phraseIndex' = phraseIndex + 1
          BY <2>4, <3>1, <4>2 DEF Advance
        <5>2. Said' = 0
          BY <5>1 DEF Said
        <5>3. Length' \in Nat \ {0}
          <6>1. phraseIndex' \in Nat
            BY <2>1, <5>1
          <6> QED
            BY <6>1, PhrasesHaveWords DEF Length
        <5> QED
          BY <2>1, <3>1, <4>2, <5>1, <5>2, <5>3 DEF Follows, WordsOf, Length
      <4> QED
        BY <4>1, <4>2
    <3>3. seq' = seq + 1 /\ (channel' = channel \/ channel' = Append(channel, e))
      BY <2>4 DEF Offer
    <3>n. seq \in Nat /\ \A i \in DOMAIN channel : channel[i].n \in Nat /\ channel[i].n <= seq
      BY <1>c, Numbered DEF Rising
    <3> HIDE DEF e, c
    <3>4. CASE channel' = channel
      BY <1>23, <2>1, <3>2, <3>3, <3>4, <3>n DEF Speaking
    <3>5. CASE channel' = Append(channel, e)
      <4>1. /\ DOMAIN channel' = DOMAIN channel \cup {Len(channel) + 1}
            /\ \A i \in DOMAIN channel : channel'[i] = channel[i]
            /\ channel'[Len(channel) + 1] = e
            /\ \A i \in DOMAIN channel' : i > 1 => i - 1 \in DOMAIN channel
            /\ \A i \in DOMAIN channel : i - 1 \in DOMAIN channel' => i - 1 \in DOMAIN channel
        BY <1>c, <3>1, <3>5, Numbered
      <4>2. ASSUME NEW i \in DOMAIN channel', channel'[i].n = seq'
            PROVE  Follows(channel'[i], phraseIndex', Said' + 1)
        BY <3>1, <3>2, <3>3, <3>n, <4>1, <4>2
      <4>3. ASSUME NEW i \in DOMAIN channel', i > 1, channel'[i].n = channel'[i - 1].n + 1
            PROVE  Follows(channel'[i - 1], channel'[i].phrase, channel'[i].step)
        <5>1. i - 1 \in DOMAIN channel /\ channel'[i - 1] = channel[i - 1]
          BY <4>1, <4>3
        <5>2. CASE i \in DOMAIN channel
          BY <1>23, <4>1, <4>3, <5>1, <5>2 DEF Speaking
        <5>3. CASE i = Len(channel) + 1
          <6>1. channel'[i] = e /\ channel[i - 1].n = seq
            BY <3>1, <3>n, <4>1, <4>3, <5>1, <5>3
          <6> QED
            BY <1>23, <3>1, <5>1, <6>1 DEF Speaking
        <5> QED
          BY <4>1, <5>2, <5>3
      <4> QED
        BY <3>2, <4>2, <4>3 DEF Speaking
    <3> QED
      BY <3>3, <3>4, <3>5
  <2> QED
    BY <1>23, <2>2, <2>3, <2>4 DEF FakeSendAudio
<1>24. ASSUME provider = "fake", FakeCloseMarks, UNCHANGED <<provider, deepgramVars>>
      PROVE  Speaking'
  BY <1>24, <1>a DEF FakeCloseMarks, MarksClosed
<1>25. ASSUME provider = "fake", FakeCloseChannel, UNCHANGED <<provider, deepgramVars>>
      PROVE  Speaking'
  BY <1>25, <1>a DEF FakeCloseChannel, EndsChannel
<1>26. ASSUME UNCHANGED vars PROVE Speaking'
  BY <1>26, <1>a DEF vars
<1> QED
  BY <1>1, <1>2, <1>3, <1>4, <1>5, <1>6, <1>7, <1>8, <1>9, <1>10, <1>11, <1>12, <1>13,
     <1>14, <1>15, <1>16, <1>17, <1>18, <1>19, <1>20, <1>21, <1>22, <1>23, <1>24,
     <1>25, <1>26
     DEF Next, Client, ClientStep, HearerStep, OfDeepgram, DeepgramStep, SendAudio,
         ReadLoop, Close, OfFake, FakeStep, FakeClose

-----------------------------------------------------------------------------
(* The theorems *)

PipelineInv == Typed /\ Closing /\ Rising /\ Speaking

LEMMA PipelineHolds == Spec => []PipelineInv
<1>1. Init => PipelineInv
  BY InitTyped, InitClosing, InitRising, InitSpeaking DEF PipelineInv
<1>2. PipelineInv /\ [Next]_vars => PipelineInv'
  BY StepTyped, StepClosing, StepRising, StepSpeaking DEF PipelineInv
<1> QED
  BY <1>1, <1>2, PTL DEF Spec

\* Nothing leaves its type: no queue, channel or socket holds more than its capacity.
THEOREM PipelineTyped == Spec => []TypeOK
<1>1. PipelineInv => TypeOK
  BY DEF PipelineInv, Typed
<1> QED
  BY <1>1, PipelineHolds, PTL

\* Close and the read loop never make the send on a closed channel that panics
\* (deepgram_provider.go:121-133, 178-180).
THEOREM CloseIsSafe == Spec => []NoPanic
<1>1. PipelineInv => NoPanic
  BY DEF PipelineInv, Closing, NoPanic
<1> QED
  BY <1>1, PipelineHolds, PTL

\* The fake provider speaks its phrases word by word, whatever is dropped
\* (fake_provider.go:69-110).
THEOREM WordsInOrder == Spec => []PhraseByPhrase
<1>1. PipelineInv => PhraseByPhrase
  BY SpeakingFollows DEF PipelineInv
<1> QED
  BY <1>1, PipelineHolds, PTL

\* Both providers' channels are a TranscriptStream: numbers rise, and nothing is put in
\* after the end.
THEOREM ChannelIsStream == Spec => StreamSpec
<1>1. Init => Stream!Init
  BY DEF Init, ClientInit, Stream!Init
<1>2. PipelineInv /\ [Next]_vars => [Stream!Next]_(Stream!vars)
  BY StepIsStreamed DEF PipelineInv
<1> QED
  BY <1>1, <1>2, PipelineHolds, PTL DEF Spec, StreamSpec, Stream!Spec
=============================================================================
