----------------------------- MODULE Connection -----------------------------
(***************************************************************************)
(* One realtime connection: internal/websocket (Connection, its four       *)
(* pumps, its answer goroutines, its asynchronous records) from Start to   *)
(* the end of cleanup.                                                     *)
(*                                                                         *)
(* The goroutines share the connection's context, the send buffer with its *)
(* drop counter, the audio queue, the LLM semaphore and the WaitGroup that *)
(* Start waits on.  What they say to the memory manager is one step here;  *)
(* MemoryManager opens it; so are SendAudio and an event, which            *)
(* AudioPipeline opens.  The goroutine that streams an answer from the LLM *)
(* is in LLMStream.  Outbound frames are reduced to their kind and to the  *)
(* sequence number of a transcript.                                        *)
(***************************************************************************)
EXTENDS LLMStream, FiniteSets

CONSTANTS
  MaxConcurrent,    \* maxConcurrentLLMCalls, the capacity of llmSemaphore
  SendBuffer,       \* capacity of the send channel (256)
  MaxDrops,         \* consecutive drops a client may cause (100)
  AudioBuffer,      \* capacity of audioQueue (100)
  Sequences,        \* the sequence numbers of transcript events
  MaxEvents,        \* bound: transcript events
  MaxFrames         \* bound: other frames of the client

\* NewConnection replaces a limit that is not positive by its default.
ASSUME LimitsAssumption ==
  /\ MaxConcurrent \in Nat \ {0}
  /\ SendBuffer \in Nat \ {0}
  /\ MaxDrops \in Nat
  /\ AudioBuffer \in Nat \ {0}
  /\ Sequences \subseteq Nat
  /\ MaxEvents \in Nat
  /\ MaxFrames \in Nat

\* The answers are not taken for the two pumps that send.
ASSUME SendersAssumption == Answers \cap {"reader", "hearer"} = {}

VARIABLES
  cancelled,    \* the connection's context is done
  client,       \* the client reads what it is sent and answers pings
  wsOpen,       \* the server has not closed the websocket
  main,         \* where Start is
  wg,           \* the WaitGroup's counter
  reader,       \* readPump
  writer,       \* writePump
  toDrain,      \* frames left to the drain loop of writePump
  hearer,       \* transcriptPump
  speaker,      \* audioPump
  send,         \* the send channel
  drops,        \* consecutiveDropCount
  sending,      \* where each goroutine that sends is in sendMessage
  outgoing,     \* the frame it offers there
  audio,        \* chunks in audioQueue
  lastSeq,      \* lastTranscriptSeq
  answer,       \* where the goroutine of each answer is
  chunks,       \* chunks it has put together
  genDone,      \* the context of its generation is done, even if the connection's is not
  slots,        \* tokens in llmSemaphore
  recording,    \* records on their way to PostgreSQL
  stt,          \* the STT provider is open
  session,      \* "active" until CloseSession
  shown,        \* history: sequence number of the last transcript on the wire
  events,       \* transcript events so far
  frames        \* other frames so far

pumpVars   == <<reader, writer, toDrain, hearer, speaker>>
outVars    == <<send, drops, sending, outgoing>>
answerVars == <<answer, chunks, genDone, slots, streamVars>>
boundVars  == <<events, frames>>
vars == <<cancelled, client, wsOpen, main, wg, pumpVars, outVars, audio, lastSeq,
          answerVars, recording, stt, session, shown, boundVars>>

\* A frame to the client is what the order of the transcripts sees of it: the sequence
\* number of a transcript, or 0 for one without and for every other frame.
Reply == 0

Frame == Sequences \cup {Reply}

\* The goroutines that call sendMessage once the pumps run, and where the call may be.
Senders == {"reader", "hearer"} \cup Answers

SendPCs == {"idle", "offer", "reset", "count", "cancel"}

AnswerPCs == {"none", "context", "stream", "ack", "remember", "track", "release", "done"}

\* A record of the n-th transcript event, or of an answer.
Records == {<<"transcript", n>> : n \in 1..MaxEvents} \cup {<<"answer", a>> : a \in Answers}

Spoken == {r \in Records : r[1] = "transcript"}

TypeOK ==
  /\ cancelled \in BOOLEAN /\ client \in BOOLEAN /\ wsOpen \in BOOLEAN
  /\ main \in {"start", "wait", "waiting", "woken", "panicked",
               "close_stt", "delete_session", "close_session", "done"}
  /\ wg \in Nat
  /\ reader \in {"off", "top", "blocked", "exited"}
  /\ writer \in {"off", "select", "drain", "exited"}
  /\ toDrain \in 0..SendBuffer
  /\ hearer \in {"off", "select", "commit", "track", "exited"}
  /\ speaker \in {"off", "select", "sending", "exited"}
  /\ send \in Seq(Frame) /\ Len(send) <= SendBuffer
  /\ drops \in Nat
  /\ sending \in [Senders -> SendPCs]
  /\ outgoing \in [Senders -> Frame]
  /\ audio \in 0..AudioBuffer
  /\ lastSeq \in Sequences \cup {0}
  /\ answer \in [Answers -> AnswerPCs]
  /\ chunks \in [Answers -> Nat]
  /\ genDone \in [Answers -> BOOLEAN]
  /\ StreamTypeOK
  /\ slots \in 0..MaxConcurrent
  /\ recording \subseteq Records
  /\ stt \in BOOLEAN
  /\ session \in {"active", "closed"}
  /\ shown \in Sequences \cup {0}
  /\ events \in 0..MaxEvents
  /\ frames \in 0..MaxFrames

Init ==
  /\ cancelled = FALSE /\ client = TRUE /\ wsOpen = TRUE
  /\ main = "start" /\ wg = 0
  /\ reader = "off" /\ writer = "off" /\ toDrain = 0
  /\ hearer = "off" /\ speaker = "off"
  /\ send = <<>> /\ drops = 0
  /\ sending = [s \in Senders |-> "idle"]
  /\ outgoing = [s \in Senders |-> Reply]
  /\ audio = 0 /\ lastSeq = 0
  /\ answer = [a \in Answers |-> "none"]
  /\ chunks = [a \in Answers |-> 0]
  /\ genDone = [a \in Answers |-> FALSE]
  /\ StreamInit
  /\ slots = 0
  /\ recording = {}
  /\ stt = TRUE /\ session = "active"
  /\ shown = 0 /\ events = 0 /\ frames = 0

-----------------------------------------------------------------------------
(* What the goroutines share *)

Idle(s) == sending[s] = "idle"

\* sendMessage: nothing once the context is done; else the frame is offered.
SendMessage(s, m) ==
  /\ Idle(s)
  /\ sending' = IF cancelled THEN sending ELSE [sending EXCEPT ![s] = "offer"]
  /\ outgoing' = IF cancelled THEN outgoing ELSE [outgoing EXCEPT ![s] = m]
  /\ UNCHANGED <<cancelled, send, drops>>

Sends(s, here, there) ==
  /\ sending[s] = here
  /\ sending' = [sending EXCEPT ![s] = there]
  /\ outgoing' = [outgoing EXCEPT ![s] = Reply]
  /\ UNCHANGED <<client, wsOpen, main, wg, pumpVars, audio, lastSeq, answerVars, recording,
                 stt, session, shown, boundVars>>

\* The select: the channel has room.
Buffers(s) ==
  /\ Sends(s, "offer", "reset")
  /\ Len(send) < SendBuffer
  /\ send' = Append(send, outgoing[s])
  /\ UNCHANGED <<cancelled, drops>>

\* The select: the context is done by now.
GivesUp(s) ==
  /\ Sends(s, "offer", "idle")
  /\ cancelled
  /\ UNCHANGED <<cancelled, send, drops>>

\* The select: neither, the frame is dropped.
Overflows(s) ==
  /\ Sends(s, "offer", "count")
  /\ ~cancelled
  /\ Len(send) = SendBuffer
  /\ UNCHANGED <<cancelled, send, drops>>

\* The frame was buffered: consecutiveDropCount.Store(0).
Resets(s) ==
  /\ Sends(s, "reset", "idle")
  /\ drops' = 0
  /\ UNCHANGED <<cancelled, send>>

\* Mutant: a drop past the limit is logged like the others.
CountsOnly(s) ==
  /\ Sends(s, "count", "idle")
  /\ drops' = drops + 1
  /\ UNCHANGED <<cancelled, send>>

\* consecutiveDropCount.Add(1), whose result is compared with the limit.
Counts(s) ==
  /\ Sends(s, "count", IF drops + 1 > MaxDrops THEN "cancel" ELSE "idle")
  /\ drops' = drops + 1
  /\ UNCHANGED <<cancelled, send>>

\* One drop too many ends the connection.
Cancels(s) ==
  /\ Sends(s, "cancel", "idle")
  /\ cancelled' = TRUE
  /\ UNCHANGED <<send, drops>>

SendStep(s) ==
  \/ Buffers(s) \/ GivesUp(s) \/ Overflows(s)
  \/ Resets(s) \/ Counts(s) \/ Cancels(s)

\* wg.Done: the last one lets Wait go.
Done ==
  /\ wg' = wg - 1
  /\ main' = IF wg = 1 /\ main = "waiting" THEN "woken" ELSE main

\* The deferred calls of a pump.
Exit == cancelled' = TRUE /\ Done

-----------------------------------------------------------------------------
(* Start *)

\* Mutant: a pump was added and the WaitGroup was not told.
StartThree ==
  /\ main = "start"
  /\ send' = <<Reply>>
  /\ wg' = 3
  /\ reader' = "top" /\ writer' = "select" /\ hearer' = "select" /\ speaker' = "select"
  /\ main' = "wait"
  /\ UNCHANGED <<cancelled, client, wsOpen, toDrain, drops, sending, outgoing, audio, lastSeq,
                 answerVars, recording, stt, session, shown, boundVars>>

\* The client is told (nobody else sends yet, and the send channel is empty); the pumps
\* are added to the WaitGroup and launched.
Start ==
  /\ main = "start"
  /\ send' = <<Reply>>
  /\ wg' = 4
  /\ reader' = "top" /\ writer' = "select" /\ hearer' = "select" /\ speaker' = "select"
  /\ main' = "wait"
  /\ UNCHANGED <<cancelled, client, wsOpen, toDrain, drops, sending, outgoing, audio, lastSeq,
                 answerVars, recording, stt, session, shown, boundVars>>

\* Mutant: Start does not wait for more than the end of the connection.
WaitForCancel ==
  /\ main = "wait"
  /\ cancelled
  /\ main' = "close_stt"
  /\ UNCHANGED <<cancelled, client, wsOpen, wg, pumpVars, outVars, audio, lastSeq,
                 answerVars, recording, stt, session, shown, boundVars>>

\* wg.Wait is called.
Wait ==
  /\ main = "wait"
  /\ main' = IF wg = 0 THEN "close_stt" ELSE "waiting"
  /\ UNCHANGED <<cancelled, client, wsOpen, wg, pumpVars, outVars, audio, lastSeq,
                 answerVars, recording, stt, session, shown, boundVars>>

\* wg.Wait returns.  A counter that was raised in between is a reuse of the
\* WaitGroup: it panics, net/http recovers, and cleanup is not called.
Wake ==
  /\ main = "woken"
  /\ main' = IF wg = 0 THEN "close_stt" ELSE "panicked"
  /\ UNCHANGED <<cancelled, client, wsOpen, wg, pumpVars, outVars, audio, lastSeq,
                 answerVars, recording, stt, session, shown, boundVars>>

CloseSTT ==
  /\ main = "close_stt"
  /\ main' = "delete_session"
  /\ stt' = FALSE
  /\ UNCHANGED <<cancelled, client, wsOpen, wg, pumpVars, outVars, audio, lastSeq,
                 answerVars, recording, session, shown, boundVars>>

DeleteSession ==
  /\ main = "delete_session"
  /\ main' = "close_session"
  /\ UNCHANGED <<cancelled, client, wsOpen, wg, pumpVars, outVars, audio, lastSeq,
                 answerVars, recording, stt, session, shown, boundVars>>

CloseSession ==
  /\ main = "close_session"
  /\ main' = "done"
  /\ session' = "closed"
  /\ UNCHANGED <<cancelled, client, wsOpen, wg, pumpVars, outVars, audio, lastSeq,
                 answerVars, recording, stt, shown, boundVars>>

MainStep == Start \/ Wait \/ Wake \/ CloseSTT \/ DeleteSession \/ CloseSession

-----------------------------------------------------------------------------
(* readPump *)

\* The head of the loop: the context is looked at here only, then ReadMessage blocks.
ReaderTop ==
  /\ reader = "top" /\ Idle("reader")
  /\ ~cancelled
  /\ reader' = "blocked"
  /\ UNCHANGED <<cancelled, client, wsOpen, main, wg, writer, toDrain, hearer, speaker,
                 outVars, audio, lastSeq, answerVars, recording, stt, session, shown,
                 boundVars>>

\* The context is done, or ReadMessage fails: the websocket was closed, or the
\* client went away or let the pong deadline pass.
ReaderExits ==
  /\ \/ reader = "top" /\ Idle("reader") /\ cancelled
     \/ reader = "blocked" /\ (~wsOpen \/ ~client)
  /\ reader' = "exited"
  /\ Exit
  /\ UNCHANGED <<client, wsOpen, writer, toDrain, hearer, speaker, outVars, audio, lastSeq,
                 answerVars, recording, stt, session, shown, boundVars>>

\* A frame has been read: the reader goes back to the head of its loop after it.
Reads ==
  /\ reader = "blocked"
  /\ wsOpen /\ client
  /\ reader' = "top"
  /\ UNCHANGED <<client, wsOpen, main, wg, writer, toDrain, hearer, speaker, lastSeq,
                 recording, stt, session, shown, events>>

AnotherFrame == frames < MaxFrames /\ frames' = frames + 1

\* A good audio chunk is queued, or dropped when the queue is full.  (An empty chunk
\* and a message of an unknown type change nothing, like a chunk dropped.)
ReadsAudio ==
  /\ Reads
  /\ AnotherFrame
  /\ audio' \in {audio} \cup (IF audio < AudioBuffer THEN {audio + 1} ELSE {})
  /\ UNCHANGED <<cancelled, outVars, answerVars>>

\* A frame that is answered at once: a ping, a bad chunk, bad JSON.
ReadsAndReplies ==
  /\ Reads
  /\ AnotherFrame
  /\ SendMessage("reader", Reply)
  /\ UNCHANGED <<audio, answerVars>>

\* Mutant: the semaphore is not tried, its count only raised.
ReadsGenerateUnlimited(a) ==
  /\ Reads
  /\ answer[a] = "none"
  /\ answer' = [answer EXCEPT ![a] = "context"]
  /\ slots' = slots + 1
  /\ UNCHANGED <<cancelled, outVars, audio, chunks, genDone, streamVars, frames>>

\* generate_answer: a goroutine is launched if the semaphore has a slot.
ReadsGenerate(a) ==
  /\ Reads
  /\ answer[a] = "none"
  /\ slots < MaxConcurrent
  /\ answer' = [answer EXCEPT ![a] = "context"]
  /\ slots' = slots + 1
  /\ UNCHANGED <<cancelled, outVars, audio, chunks, genDone, streamVars, frames>>

\* generate_answer: no slot, the command is refused.
RefusesGenerate(a) ==
  /\ Reads
  /\ answer[a] = "none"
  /\ slots = MaxConcurrent
  /\ SendMessage("reader", Reply)
  /\ answer' = [answer EXCEPT ![a] = "done"]
  /\ UNCHANGED <<audio, chunks, genDone, slots, streamVars, frames>>

ReaderStep ==
  \/ ReaderTop \/ ReaderExits
  \/ ReadsAudio \/ ReadsAndReplies
  \/ \E a \in Answers : ReadsGenerate(a) \/ RefusesGenerate(a)

-----------------------------------------------------------------------------
(* writePump *)

\* The head of the send channel goes out.
Writes ==
  /\ send # <<>>
  /\ send' = Tail(send)
  /\ shown' = IF Head(send) > 0 THEN Head(send) ELSE shown

WriterUnchanged ==
  UNCHANGED <<cancelled, client, wsOpen, main, wg, reader, hearer, speaker, drops,
              sending, outgoing, audio, lastSeq, answerVars, recording, stt, session,
              boundVars>>

\* One frame, then as many as are queued at that moment.
WriterSends ==
  /\ writer = "select"
  /\ Writes
  /\ toDrain' = Len(send')
  /\ writer' = IF toDrain' = 0 THEN "select" ELSE "drain"
  /\ WriterUnchanged

\* Nobody else takes from the channel: the drain loop finds what it counted.
WriterDrains ==
  /\ writer = "drain"
  /\ Writes
  /\ toDrain' = toDrain - 1
  /\ writer' = IF toDrain' = 0 THEN "select" ELSE "drain"
  /\ WriterUnchanged

\* The context is done, or a frame or a ping could not be written in time.  The
\* frame in hand is lost; the websocket is closed, which unblocks the reader.
WriterExits ==
  /\ \/ writer = "select" /\ cancelled
     \/ writer \in {"select", "drain"} /\ ~client
  /\ writer' = "exited"
  /\ toDrain' = 0
  /\ wsOpen' = FALSE
  /\ Exit
  /\ UNCHANGED <<client, reader, hearer, speaker, outVars, audio, lastSeq, answerVars,
                 recording, stt, session, shown, boundVars>>

WriterStep == WriterSends \/ WriterDrains \/ WriterExits

\* The client goes away, or stops reading and answering.
ClientStops ==
  /\ client
  /\ client' = FALSE
  /\ UNCHANGED <<cancelled, wsOpen, main, wg, pumpVars, outVars, audio, lastSeq,
                 answerVars, recording, stt, session, shown, boundVars>>

-----------------------------------------------------------------------------
(* transcriptPump *)

Late(n) == n > 0 /\ n < lastSeq

AnotherEvent == events < MaxEvents /\ events' = events + 1

\* An event older than the last one is skipped.
HearsLate ==
  /\ hearer = "select" /\ Idle("hearer")
  /\ AnotherEvent
  /\ \E n \in Sequences : Late(n)
  /\ UNCHANGED <<cancelled, client, wsOpen, main, wg, pumpVars, outVars, audio, lastSeq,
                 answerVars, recording, stt, session, shown, frames>>

\* Mutant: an event older than the last one is passed on.
HearsAny(final) ==
  /\ hearer = "select"
  /\ AnotherEvent
  /\ \E n \in Sequences :
       /\ lastSeq' = IF n > 0 THEN n ELSE lastSeq
       /\ SendMessage("hearer", n)
  /\ hearer' = IF final THEN "commit" ELSE "select"
  /\ UNCHANGED <<client, wsOpen, main, wg, reader, writer, toDrain, speaker, audio,
                 answerVars, recording, stt, session, shown, frames>>

\* An event goes to the client; a final one with a text is then committed.  (What a
\* partial one does to Level 1 of the memory is in MemoryManager.)
Hears(final) ==
  /\ hearer = "select"
  /\ AnotherEvent
  /\ \E n \in Sequences :
       /\ ~Late(n)
       /\ lastSeq' = IF n > 0 THEN n ELSE lastSeq
       /\ SendMessage("hearer", n)
  /\ hearer' = IF final THEN "commit" ELSE "select"
  /\ UNCHANGED <<client, wsOpen, main, wg, reader, writer, toDrain, speaker, audio,
                 answerVars, recording, stt, session, shown, frames>>

\* AddTranscript returns, well or with an error that is logged.
HearerCommits ==
  /\ hearer = "commit" /\ Idle("hearer")
  /\ hearer' = "track"
  /\ UNCHANGED <<cancelled, client, wsOpen, main, wg, reader, writer, toDrain, speaker,
                 outVars, audio, lastSeq, answerVars, recording, stt, session, shown,
                 boundVars>>

\* Mutant: the goroutine itself adds to the WaitGroup, once it runs and is past it.
HearerLaunches ==
  /\ hearer = "track"
  /\ hearer' = "select"
  /\ recording' = recording \cup {<<"transcript", events>>}
  /\ UNCHANGED <<cancelled, client, wsOpen, main, wg, reader, writer, toDrain, speaker,
                 outVars, audio, lastSeq, answerVars, stt, session, shown, boundVars>>

\* The record of the transcript is added to the WaitGroup and launched.
HearerTracks ==
  /\ hearer = "track"
  /\ hearer' = "select"
  /\ wg' = wg + 1
  /\ recording' = recording \cup {<<"transcript", events>>}
  /\ UNCHANGED <<cancelled, client, wsOpen, main, reader, writer, toDrain, speaker,
                 outVars, audio, lastSeq, answerVars, stt, session, shown, boundVars>>

HearerExits ==
  /\ hearer = "select" /\ Idle("hearer")
  /\ cancelled
  /\ hearer' = "exited"
  /\ Exit
  /\ UNCHANGED <<client, wsOpen, reader, writer, toDrain, speaker, outVars, audio, lastSeq,
                 answerVars, recording, stt, session, shown, boundVars>>

HearerStep ==
  \/ HearsLate \/ \E final \in BOOLEAN : Hears(final)
  \/ HearerCommits \/ HearerTracks \/ HearerExits

-----------------------------------------------------------------------------
(* audioPump *)

SpeakerTakes ==
  /\ speaker = "select"
  /\ audio > 0
  /\ audio' = audio - 1
  /\ speaker' = "sending"
  /\ UNCHANGED <<cancelled, client, wsOpen, main, wg, reader, writer, toDrain, hearer,
                 outVars, lastSeq, answerVars, recording, stt, session, shown, boundVars>>

\* SendAudio returns, well or with an error that is logged.
SpeakerSent ==
  /\ speaker = "sending"
  /\ speaker' = "select"
  /\ UNCHANGED <<cancelled, client, wsOpen, main, wg, reader, writer, toDrain, hearer,
                 outVars, audio, lastSeq, answerVars, recording, stt, session, shown,
                 boundVars>>

\* Mutant: the pump leaves without wg.Done.
SpeakerLeaves ==
  /\ speaker = "select"
  /\ cancelled
  /\ speaker' = "exited"
  /\ UNCHANGED <<cancelled, client, wsOpen, main, wg, reader, writer, toDrain, hearer,
                 outVars, audio, lastSeq, answerVars, recording, stt, session, shown,
                 boundVars>>

SpeakerExits ==
  /\ speaker = "select"
  /\ cancelled
  /\ speaker' = "exited"
  /\ Exit
  /\ UNCHANGED <<client, wsOpen, reader, writer, toDrain, hearer, outVars, audio, lastSeq,
                 answerVars, recording, stt, session, shown, boundVars>>

SpeakerStep == SpeakerTakes \/ SpeakerSent \/ SpeakerExits

-----------------------------------------------------------------------------
(* handleGenerateAnswer, in a goroutine the WaitGroup does not know of *)

At(a, here, there) ==
  /\ Idle(a)
  /\ answer[a] = here
  /\ answer' = [answer EXCEPT ![a] = there]
  /\ UNCHANGED <<client, wsOpen, pumpVars, audio, lastSeq, stt, session, shown, boundVars>>

\* GetContext, the prompt, and the request to the LLM.
AnswerStarts(a) ==
  /\ At(a, "context", "stream")
  /\ Request(a)
  /\ UNCHANGED <<cancelled, main, wg, outVars, chunks, genDone, slots, recording>>

\* The request fails: the client is told.
AnswerRefused(a) ==
  /\ At(a, "context", "release")
  /\ SendMessage(a, Reply)
  /\ UNCHANGED <<main, wg, chunks, genDone, slots, streamVars, recording>>

\* A chunk of the text is passed on; the one that ends the text has none.
AnswerReceives(a) ==
  /\ At(a, "stream", "stream")
  /\ \/ /\ Receives(a, "text")
        /\ chunks' = [chunks EXCEPT ![a] = @ + 1]
        /\ SendMessage(a, Reply)
     \/ /\ Receives(a, "final")
        /\ UNCHANGED <<cancelled, outVars, chunks>>
  /\ UNCHANGED <<main, wg, genDone, slots, recording>>

\* An error comes down the stream: the client is told, and what it was sent is no answer.
AnswerFails(a) ==
  /\ At(a, "stream", "release")
  /\ Receives(a, "error")
  /\ SendMessage(a, Reply)
  /\ UNCHANGED <<main, wg, chunks, genDone, slots, recording>>

\* The stream is over; without a text there is no answer.
AnswerStreamed(a) ==
  /\ StreamIsOver(a)
  /\ At(a, "stream", IF chunks[a] > 0 THEN "ack" ELSE "release")
  /\ UNCHANGED <<cancelled, main, wg, outVars, chunks, genDone, slots, streamVars, recording>>

AnswerAcks(a) ==
  /\ At(a, "ack", "remember")
  /\ SendMessage(a, Reply)
  /\ UNCHANGED <<main, wg, chunks, genDone, slots, streamVars, recording>>

\* AddMessage returns, well or with an error that is logged.
AnswerRemembered(a) ==
  /\ At(a, "remember", "track")
  /\ UNCHANGED <<cancelled, main, wg, outVars, chunks, genDone, slots, streamVars, recording>>

\* The record of the answer is added to the WaitGroup and launched.
AnswerTracks(a) ==
  /\ At(a, "track", "release")
  /\ wg' = wg + 1
  /\ recording' = recording \cup {<<"answer", a>>}
  /\ UNCHANGED <<cancelled, main, outVars, chunks, genDone, streamVars, slots>>

\* The context of a generation is done.
Ends(a) == genDone' = [genDone EXCEPT ![a] = TRUE]

\* However the answer returns: the deferred cancel of its context, then the deferred
\* receive, which gives the slot back; what the goroutine held is gone.
AnswerReleases(a) ==
  /\ At(a, "release", "done")
  /\ Ends(a)
  /\ slots' = slots - 1
  /\ chunks' = [chunks EXCEPT ![a] = 0]
  /\ Forget(a)
  /\ UNCHANGED <<cancelled, main, wg, outVars, recording>>

AnswerStep(a) ==
  \/ AnswerStarts(a) \/ AnswerRefused(a)
  \/ AnswerReceives(a) \/ AnswerFails(a) \/ AnswerStreamed(a)
  \/ AnswerAcks(a) \/ AnswerRemembered(a) \/ AnswerTracks(a) \/ AnswerReleases(a)

\* The 30 s of the generation are over.
GenerationTimesOut(a) ==
  /\ answer[a] = "stream"
  /\ ~genDone[a]
  /\ Ends(a)
  /\ UNCHANGED <<cancelled, client, wsOpen, main, wg, pumpVars, outVars, audio, lastSeq,
                 answer, chunks, slots, streamVars, recording, stt, session, shown, boundVars>>

StreamUnchanged ==
  UNCHANGED <<cancelled, client, wsOpen, main, wg, pumpVars, outVars, audio, lastSeq,
              answer, chunks, genDone, slots, recording, stt, session, shown, boundVars>>

\* Mutant: the channel is not closed.
LLMStopsOpen(a) ==
  /\ cancelled \/ genDone[a]
  /\ \E here \in {"read"} \cup Item : Produces(a, here, "off")
  /\ UNCHANGED <<parts, stream>>
  /\ StreamUnchanged

LLMStops(a) ==
  /\ cancelled \/ genDone[a]
  /\ ProducerStops(a)
  /\ StreamUnchanged

LLMPuts(a) == ProducerPuts(a) /\ StreamUnchanged

LLMSpeaks(a) == (ProducerReads(a) \/ ProducerFinishes(a)) /\ StreamUnchanged

LLMStep(a) == LLMSpeaks(a) \/ LLMPuts(a) \/ LLMStops(a)

-----------------------------------------------------------------------------

\* A record reaches PostgreSQL, or fails within its 5 seconds.
Record(r) ==
  /\ r \in recording
  /\ recording' = recording \ {r}
  /\ Done
  /\ UNCHANGED <<cancelled, client, wsOpen, pumpVars, outVars, audio, lastSeq, answerVars,
                 stt, session, shown, boundVars>>

Next ==
  \/ MainStep
  \/ ReaderStep
  \/ WriterStep
  \/ HearerStep
  \/ SpeakerStep
  \/ \E s \in Senders : SendStep(s)
  \/ \E a \in Answers : AnswerStep(a) \/ LLMStep(a) \/ GenerationTimesOut(a)
  \/ \E r \in Records : Record(r)
  \/ ClientStops

\* Goroutines keep running, and the calls they make return: to PostgreSQL within 5 s,
\* to Redis within the client's timeouts.  The LLM may say nothing at all: the 30 s of
\* a generation run out then, which ends its request and its stream.  SendAudio returns as
\* AudioPipeline!SendAudioReturns says: FakeSTTProvider's at once, DeepgramProvider's,
\* which has no deadline, as long as the service takes audio.  A pump whose context is
\* done leaves in the end, though select may serve what is queued first.  Nobody has to
\* send a frame or to speak.
Fairness ==
  /\ WF_vars(MainStep)
  /\ WF_vars(ReaderTop \/ ReaderExits \/ SendStep("reader"))
  /\ WF_vars(WriterStep)
  /\ WF_vars(HearerCommits \/ HearerTracks \/ HearerExits \/ SendStep("hearer"))
  /\ WF_vars(SpeakerStep)
  /\ \A a \in Answers : /\ WF_vars(AnswerStep(a) \/ SendStep(a))
                        /\ WF_vars(LLMPuts(a)) /\ WF_vars(LLMStops(a))
                        /\ WF_vars(GenerationTimesOut(a))
  /\ \A r \in Records : WF_vars(Record(r))

Spec == Init /\ [][Next]_vars

FairSpec == Spec /\ Fairness

-----------------------------------------------------------------------------
(* Properties *)

CleaningUp == main \in {"close_stt", "delete_session", "close_session", "done"}

\* cleanup has the connection to itself (connection.go:89-96): when the STT provider
\* is closed no pump is still using it, however the pumps ended and in what order.
PumpsAreOver ==
  CleaningUp => /\ reader = "exited" /\ writer = "exited"
                /\ hearer = "exited" /\ speaker = "exited"

\* Every record of a transcript that was launched is over before the session is
\* closed, even one launched while the last pumps were leaving (connection.go:192).
TranscriptsAreRecorded == CleaningUp => recording \cap Spoken = {}

\* When Wait is woken and finds the counter raised again, for which it panics, it was the
\* record of an answer that raised it: the records of transcripts, launched while other
\* pumps leave and over before or after them, never do (connection.go:95, 192).
OnlyAnswersReuseWait ==
  main = "woken" /\ wg # 0 => \E a \in Answers : <<"answer", a>> \in recording

\* What is on the wire, then in the send channel.
Order == <<shown>> \o send

\* Whatever the STT provider emits and whatever frames are dropped, the client is
\* never shown a numbered transcript after a later one (connection.go:170-184).
TranscriptsInOrder ==
  \A i, j \in DOMAIN Order : i < j /\ Order[j] > 0 => Order[i] <= Order[j]

\* What an STT provider may take for granted of its connection: nobody calls it once it
\* is being closed, no pump leaves in the middle of a call, and the number of the last
\* event that was taken never falls (connection.go:130-183, 216-217).
Doing(pump) == CASE pump \in {"off", "select"} -> "idle"
                 [] pump = "exited" -> "over"
                 [] OTHER -> "busy"

Use == INSTANCE ProviderUse WITH
  speaker <- Doing(speaker),
  hearer <- Doing(hearer),
  heard <- lastSeq,
  closing <- ~stt

UseSpec == Use!Spec

\* Never more than maxConcurrentLLMCalls answers are being made (connection.go:38).
AnswersAreLimited ==
  Cardinality({a \in Answers : answer[a] \notin {"none", "done"}}) <= MaxConcurrent

\* As long as its context lives, an answer that is sent to the client, remembered and
\* recorded is made of every chunk the provider read from the LLM: none is lost in the
\* channel or in hand (read_pump.go:139-160, openai_provider.go:192-225).
AnswersAreWhole ==
  \A a \in Answers :
    answer[a] \in {"ack", "remember", "track"} /\ ~cancelled /\ ~genDone[a]
      => chunks[a] = parts[a]

\* An answer goroutine always gives its slot back, whether the LLM answers, fails, says
\* nothing or is cut off by its time limit or the end of the connection, in the middle
\* of a read or of a put into a full channel (read_pump.go:62-67, openai_provider.go:171).
\* (A command is given once here, so that every answer that starts ends just when in the
\* end none is under way.)
AnswersEnd == <>[](\A a \in Answers : answer[a] \in {"none", "done"})

\* A connection whose client stopped, or that was cancelled for any other reason, is
\* cleaned up: no pump waits for another for ever (connection.go:82-97).  This is so
\* when no answer is asked for; the late record of an answer can make Wait panic.
IsCleanedUp == (cancelled \/ ~client) ~> main = "done"

\* A client for which more than MaxDrops frames in a row were dropped is disconnected and
\* cleaned up, though it may still answer pings and though another goroutine may buffer
\* a frame, and reset the count, before the one that counted cancels (connection.go:113-124).
SlowClientIsCutOff == drops > MaxDrops ~> main = "done"

\* Goroutines that drop at the same time count past the limit, each at most once: those
\* that passed the look at the context before the first cancel, which are the two pumps that
\* send and the answers that the semaphore let in (connection.go:100-124, read_pump.go:63).
DropsAreBounded == drops <= MaxDrops + 2 + MaxConcurrent
=============================================================================
