--------------------------- MODULE AudioPipeline ---------------------------
(***************************************************************************)
(* The audio pipeline of one connection: audioPump, transcriptPump and     *)
(* cleanup with the STT provider that the factory of cmd/api chose for the *)
(* process, DeepgramProvider or FakeSTTProvider.                           *)
(***************************************************************************)
EXTENDS DeepgramProvider, FakeSTTProvider

VARIABLE provider     \* the provider that was chosen

vars == <<clientVars, providerVars, provider, deepgramVars, fakeVars>>

TypeOK ==
  /\ provider \in {"deepgram", "fake"}
  /\ ClientTypeOK
  /\ DeepgramTypeOK
  /\ FakeTypeOK

Init ==
  /\ provider \in {"deepgram", "fake"}
  /\ ClientInit
  /\ DeepgramInit
  /\ FakeInit

Client == ClientStep /\ UNCHANGED <<provider, deepgramVars, fakeVars>>

OfDeepgram(A) == provider = "deepgram" /\ A /\ UNCHANGED <<provider, fakeVars>>
OfFake(A)     == provider = "fake" /\ A /\ UNCHANGED <<provider, deepgramVars>>

Next ==
  \/ Client
  \/ OfDeepgram(DeepgramStep)
  \/ OfFake(FakeStep)

\* Goroutines keep running, what the transcript pump does for an event ends, and the
\* service takes audio when it can.  Nobody has to speak or to hang up, and no socket
\* has to fail.
Fairness ==
  /\ WF_vars((SpeakerTakes \/ SpeakerExits) /\ Client)
  /\ WF_vars(HearerStep /\ Client)
  /\ WF_vars(OfFake(FakeSendAudio))
  /\ WF_vars(OfFake(FakeClose))
  /\ WF_vars(OfDeepgram(SendAudio))
  /\ WF_vars(OfDeepgram(ReadLoop))
  /\ WF_vars(OfDeepgram(Close))
  /\ WF_vars(OfDeepgram(ServiceTakes))

Spec == Init /\ [][Next]_vars

FairSpec == Spec /\ Fairness

-----------------------------------------------------------------------------
(* Properties *)

\* Whichever provider it is, the channel is a TranscriptStream: numbers only rise, so
\* that transcriptPump never has to skip an event as late (connection.go:171), and
\* the read loop puts nothing in once Close has closed it (deepgram_provider.go:121-133,
\* 178-180, fake_provider.go:71-110).
Stream == INSTANCE TranscriptStream WITH
  queue <- [i \in DOMAIN channel |-> channel[i].n],
  last <- IF channel = <<>> THEN lastSeq ELSE channel[Len(channel)].n

StreamSpec == Stream!Spec

\* deepgram_provider.go:178: Close guarantees "zero panics": no event is ever sent on
\* the closed channel, wherever the read loop is when Close is called.
NoPanic == ~panicked

\* The fake provider speaks phrase by phrase and word by word, and ends each phrase
\* with its final event, though events in between may have been dropped: of two
\* consecutive numbers the second is the next word, or the first of the next phrase
\* (fake_provider.go:69-110).
PhraseByPhrase ==
  provider = "fake" =>
    \A i \in DOMAIN channel : i > 1 /\ channel[i].n = channel[i - 1].n + 1 =>
      LET before == channel[i - 1]
          length == Words[(before.phrase % Len(Words)) + 1]
      IN  IF before.step < length
          THEN channel[i].phrase = before.phrase /\ channel[i].step = before.step + 1
          ELSE channel[i].phrase = before.phrase + 1 /\ channel[i].step = 1

\* SendAudio always returns, which Connection takes for granted: it waits for the mutex,
\* which the read loop and the socket give back (deepgram_provider.go:143-160).
SendAudioReturns == speaker = "send" ~> speaker = "select"

\* A connection that was cancelled gets its provider closed: no pump stays inside
\* SendAudio and Close does not wait for the read loop for ever, whether it is reading,
\* waiting for the mutex or putting an event into a channel nobody takes from
\* (connection.go:95-96, 217, stt/provider.go:17-18).
ProviderIsClosed == cancelled ~> closer = "done"
=============================================================================
