---------------------------- MODULE AudioClient ----------------------------
(***************************************************************************)
(* The side of a connection that talks to its STT provider, and the state  *)
(* any provider has: internal/stt (STTProvider) as internal/websocket uses *)
(* it.  audioPump calls SendAudio, transcriptPump takes events from the    *)
(* channel, and cleanup calls Close once the pumps are over (see           *)
(* Connection, PumpsAreOver).  The other pumps are not here: all they do   *)
(* to this one is to queue audio and to cancel the connection's context.   *)
(***************************************************************************)
EXTENDS Integers, Sequences

CONSTANTS
  AudioBuffer,       \* capacity of audioQueue (100)
  EventBuffer,       \* capacity of transcriptChan (100)
  MaxChunks          \* bound: audio chunks of the client

ASSUME BuffersAssumption ==
  /\ AudioBuffer \in Nat \ {0}
  /\ EventBuffer \in Nat \ {0}
  /\ MaxChunks \in Nat

VARIABLES
  cancelled,    \* the connection's context is done
  chunks,       \* audio chunks so far
  audio,        \* chunks in audioQueue
  speaker,      \* audioPump; "send" and "write" are inside SendAudio
  hearer,       \* transcriptPump
  lastSeq,      \* lastTranscriptSeq
  closer,       \* cleanup; past "wait" it is inside Close
  channel,      \* transcriptChan
  ended,        \* it is closed
  seq,          \* the provider's event counter
  closed,       \* the provider's flag
  panicked      \* history: an event was put into the closed channel

clientVars   == <<cancelled, chunks, audio, speaker, hearer, lastSeq>>
providerVars == <<closer, channel, ended, seq, closed, panicked>>

\* An event: its number, and of which step of which phrase it is (0 if that is left open).
Event == [n : Nat \ {0}, phrase : Nat, step : Nat]

ClientTypeOK ==
  /\ cancelled \in BOOLEAN
  /\ chunks \in 0..MaxChunks
  /\ audio \in 0..AudioBuffer
  /\ speaker \in {"select", "send", "write", "exited"}
  /\ hearer \in {"select", "handle", "exited"}
  /\ lastSeq \in Nat
  /\ closer \in {"wait", "frame", "join", "done"}
  /\ channel \in Seq(Event) /\ Len(channel) <= EventBuffer
  /\ ended \in BOOLEAN
  /\ seq \in Nat
  /\ closed \in BOOLEAN
  /\ panicked \in BOOLEAN

ClientInit ==
  /\ cancelled = FALSE
  /\ chunks = 0 /\ audio = 0
  /\ speaker = "select" /\ hearer = "select" /\ lastSeq = 0
  /\ closer = "wait"
  /\ channel = <<>> /\ ended = FALSE
  /\ seq = 0 /\ closed = FALSE
  /\ panicked = FALSE

-----------------------------------------------------------------------------
(* The pumps *)

\* handleAudioChunk: the chunk is queued, or dropped when the queue is full.
Speaks ==
  /\ ~cancelled
  /\ chunks < MaxChunks
  /\ chunks' = chunks + 1
  /\ audio' = IF audio < AudioBuffer THEN audio + 1 ELSE audio
  /\ UNCHANGED <<cancelled, speaker, hearer, lastSeq, providerVars>>

\* Another pump ended, whatever the reason.
Cancel ==
  /\ ~cancelled
  /\ cancelled' = TRUE
  /\ UNCHANGED <<chunks, audio, speaker, hearer, lastSeq, providerVars>>

SpeakerTakes ==
  /\ speaker = "select"
  /\ audio > 0
  /\ audio' = audio - 1
  /\ speaker' = "send"
  /\ UNCHANGED <<cancelled, chunks, hearer, lastSeq, providerVars>>

SpeakerExits ==
  /\ speaker = "select"
  /\ cancelled
  /\ speaker' = "exited"
  /\ UNCHANGED <<cancelled, chunks, audio, hearer, lastSeq, providerVars>>

\* SendAudio goes on, or returns (to "select").
Sends(here, there) ==
  /\ speaker = here
  /\ speaker' = there
  /\ UNCHANGED <<cancelled, chunks, audio, hearer, lastSeq>>

\* An event is received; one with a number below the last one is skipped.
HearerTakes ==
  /\ hearer = "select"
  /\ channel # <<>>
  /\ channel' = Tail(channel)
  /\ IF Head(channel).n < lastSeq
     THEN UNCHANGED <<hearer, lastSeq>>
     ELSE /\ hearer' = "handle"
          /\ lastSeq' = Head(channel).n
  /\ UNCHANGED <<cancelled, chunks, audio, speaker, closer, ended, seq, closed, panicked>>

\* It was sent to the client, committed to the memory and recorded.
HearerHandled ==
  /\ hearer = "handle"
  /\ hearer' = "select"
  /\ UNCHANGED <<cancelled, chunks, audio, speaker, lastSeq, providerVars>>

\* (The channel is closed after this pump is over, so that it never sees that.)
HearerExits ==
  /\ hearer = "select"
  /\ cancelled
  /\ hearer' = "exited"
  /\ UNCHANGED <<cancelled, chunks, audio, speaker, lastSeq, providerVars>>

HearerStep == HearerTakes \/ HearerHandled \/ HearerExits

ClientStep == Speaks \/ Cancel \/ SpeakerTakes \/ SpeakerExits \/ HearerStep

-----------------------------------------------------------------------------
(* The provider *)

\* close(transcriptChan), on the way of Close from here to its end.
EndsChannel(here) ==
  /\ closer = here
  /\ closer' = "done"
  /\ ended' = TRUE
  /\ UNCHANGED <<clientVars, channel, seq, closed, panicked>>

\* Close sets the flag, once cleanup has waited for the pumps.
MarksClosed(there) ==
  /\ closer = "wait"
  /\ speaker = "exited" /\ hearer = "exited"
  /\ closed' = TRUE
  /\ closer' = there
  /\ UNCHANGED <<clientVars, channel, ended, seq, panicked>>
=============================================================================
