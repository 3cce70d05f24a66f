-------------------------- MODULE FakeSTTProvider --------------------------
(***************************************************************************)
(* internal/stt/fake_provider.go: the provider that makes its transcripts  *)
(* up.  Every second chunk of audio says one more word of a sample phrase; *)
(* with its last word the phrase is final.  An event that finds the        *)
(* channel full is dropped, though it was numbered and counted.            *)
(***************************************************************************)
EXTENDS AudioClient

CONSTANT Words       \* Words[i]: the number of words of the i-th sample phrase

ASSUME WordsAssumption ==
  /\ Words \in Seq(Nat \ {0})
  /\ Words # <<>>

VARIABLES
  chunkCount,        \* chunks of the phrase
  phraseIndex        \* phrases before it

fakeVars == <<chunkCount, phraseIndex>>

FakeTypeOK == chunkCount \in Nat /\ phraseIndex \in Nat

FakeInit == chunkCount = 0 /\ phraseIndex = 0

-----------------------------------------------------------------------------

Length == Words[(phraseIndex % Len(Words)) + 1]

\* The step that the count of chunks c stands for.
Step(c) ==
  LET step == (c \div 2) % (Length + 1)
  IN  IF step = 0 THEN 1 ELSE step

\* Mutant: the next phrase goes on with the count of the last one.
AdvanceOnly(c) ==
  /\ phraseIndex' = phraseIndex + 1
  /\ chunkCount' = c

\* After the last word, the next phrase begins.
Advance(c) ==
  /\ phraseIndex' = phraseIndex + 1
  /\ chunkCount' = 0

\* Mutant: the events of a phrase are numbered by their step.
OfferByStep(event) ==
  /\ seq' = event.n
  /\ channel' = IF Len(channel) < EventBuffer
                THEN Append(channel, [event EXCEPT !.n = event.step]) ELSE channel

\* Mutant: the counter is raised after its value was taken.
OfferBeforeCount(event) ==
  /\ seq' = event.n
  /\ channel' = IF Len(channel) < EventBuffer
                THEN Append(channel, [event EXCEPT !.n = seq]) ELSE channel

\* A non-blocking send: dropped when there is no room.
Offer(event) ==
  /\ seq' = event.n
  /\ channel' = IF Len(channel) < EventBuffer THEN Append(channel, event) ELSE channel

\* SendAudio: one step, all of it under the mutex and none of it waiting.
FakeSendAudio ==
  /\ Sends("send", "select")
  /\ UNCHANGED <<closer, ended, closed, panicked>>
  /\ LET c == chunkCount + 1
     IN  \/ /\ cancelled \/ closed
            /\ UNCHANGED <<channel, seq, fakeVars>>
         \/ /\ ~cancelled /\ ~closed
            /\ c % 2 # 0
            /\ chunkCount' = c
            /\ UNCHANGED <<channel, seq, phraseIndex>>
         \/ /\ ~cancelled /\ ~closed
            /\ c % 2 = 0
            /\ Offer([n |-> seq + 1, phrase |-> phraseIndex, step |-> Step(c)])
            /\ IF Step(c) < Length
               THEN chunkCount' = c /\ UNCHANGED phraseIndex
               ELSE Advance(c)

\* Close: the flag under the mutex, then the channel.
FakeCloseMarks ==
  /\ MarksClosed("join")
  /\ UNCHANGED fakeVars

FakeCloseChannel ==
  /\ EndsChannel("join")
  /\ UNCHANGED fakeVars

FakeClose == FakeCloseMarks \/ FakeCloseChannel

FakeStep == FakeSendAudio \/ FakeClose
=============================================================================
