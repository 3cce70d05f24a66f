-------------------------- MODULE DeepgramProvider --------------------------
(***************************************************************************)
(* internal/stt/deepgram_provider.go: a session with the Deepgram service  *)
(* over one websocket.  SendAudio and Close hold the mutex while they      *)
(* write to the socket; the read loop takes it to look at the closed flag, *)
(* and puts the events into the channel without it.                        *)
(*                                                                         *)
(* The socket is two bounded buffers, one in each direction; writing into  *)
(* a full one blocks, and no write has a deadline.  The service takes      *)
(* audio and answers.                                                      *)
(***************************************************************************)
EXTENDS AudioClient

CONSTANTS
  SocketBuffer,          \* frames the socket holds in each direction
  ServiceKeepsReading    \* does it take audio while its answers are not taken?

ASSUME SocketAssumption ==
  /\ SocketBuffer \in Nat \ {0}
  /\ ServiceKeepsReading \in BOOLEAN

VARIABLES
  mu,        \* who holds the mutex
  pctx,      \* the provider's context is done
  socket,    \* "open", "failed", or "closed" by Close
  up,        \* audio frames the service has not taken
  down,      \* answers the read loop has not taken
  reader     \* readLoop

deepgramVars == <<mu, pctx, socket, up, down, reader>>

DeepgramTypeOK ==
  /\ mu \in {"nobody", "speaker", "closer"}
  /\ pctx \in BOOLEAN
  /\ socket \in {"open", "failed", "closed"}
  /\ up \in 0..SocketBuffer
  /\ down \in 0..SocketBuffer
  /\ reader \in {"top", "read", "error", "check", "put", "exited"}

DeepgramInit ==
  /\ mu = "nobody"
  /\ pctx = FALSE
  /\ socket = "open"
  /\ up = 0 /\ down = 0
  /\ reader = "top"

-----------------------------------------------------------------------------
(* SendAudio *)

\* The connection's context is done, or the provider is closed: nothing is written.
SendAudioRefused ==
  /\ mu = "nobody"
  /\ cancelled \/ closed
  /\ Sends("send", "select")
  /\ UNCHANGED <<providerVars, deepgramVars>>

\* The mutex is taken, and kept for the write.
SendAudioLocks ==
  /\ mu = "nobody"
  /\ ~cancelled /\ ~closed
  /\ mu' = "speaker"
  /\ Sends("send", "write")
  /\ UNCHANGED <<providerVars, pctx, socket, up, down, reader>>

\* Mutant: the return on an error leaves the mutex locked.
SendAudioWritesOrKeeps ==
  /\ \/ socket = "open" /\ up < SocketBuffer /\ up' = up + 1 /\ mu' = "nobody"
     \/ socket = "failed" /\ UNCHANGED <<up, mu>>
  /\ Sends("write", "select")
  /\ UNCHANGED <<providerVars, pctx, socket, down, reader>>

\* WriteMessage, as soon as there is room; at once, with an error, on a broken socket.
SendAudioWrites ==
  /\ \/ socket = "open" /\ up < SocketBuffer /\ up' = up + 1
     \/ socket = "failed" /\ UNCHANGED up
  /\ mu' = "nobody"
  /\ Sends("write", "select")
  /\ UNCHANGED <<providerVars, pctx, socket, down, reader>>

SendAudio == SendAudioRefused \/ SendAudioLocks \/ SendAudioWrites

-----------------------------------------------------------------------------
(* readLoop *)

Reads(here, there) ==
  /\ reader = here
  /\ reader' = there
  /\ UNCHANGED <<clientVars, closer, ended, closed, mu, pctx, socket, up>>

ReadLoopTop ==
  /\ Reads("top", IF pctx THEN "exited" ELSE "read")
  /\ UNCHANGED <<channel, seq, panicked, down>>

\* ReadMessage returns an answer: without a transcript, or one that becomes an event.
ReadLoopReads ==
  /\ socket = "open"
  /\ down > 0
  /\ down' = down - 1
  /\ \/ Reads("read", "top") /\ UNCHANGED seq
     \/ Reads("read", "check") /\ seq' = seq + 1
  /\ UNCHANGED <<channel, panicked>>

ReadLoopFails ==
  /\ socket # "open"
  /\ Reads("read", "error")
  /\ UNCHANGED <<channel, seq, panicked, down>>

\* The mutex is taken to tell an error from the end; the loop is over either way.
ReadLoopEnds ==
  /\ mu = "nobody"
  /\ Reads("error", "exited")
  /\ UNCHANGED <<channel, seq, panicked, down>>

\* The mutex is taken to look at the flag.
ReadLoopChecks ==
  /\ mu = "nobody"
  /\ Reads("check", IF closed THEN "exited" ELSE "put")
  /\ UNCHANGED <<channel, seq, panicked, down>>

\* The event goes into the channel, when it has room.  A closed one panics.
ReadLoopPuts ==
  /\ ended \/ Len(channel) < EventBuffer
  /\ panicked' = ended
  /\ channel' = IF ended THEN channel ELSE Append(channel, [n |-> seq, phrase |-> 0, step |-> 0])
  /\ Reads("put", "top")
  /\ UNCHANGED <<seq, down>>

\* The provider's context is done.
ReadLoopGivesUp ==
  /\ pctx
  /\ Reads("put", "exited")
  /\ UNCHANGED <<channel, seq, panicked, down>>

ReadLoop ==
  \/ ReadLoopTop \/ ReadLoopReads \/ ReadLoopFails \/ ReadLoopEnds
  \/ ReadLoopChecks \/ ReadLoopPuts \/ ReadLoopGivesUp

-----------------------------------------------------------------------------
(* Close *)

\* Mutant: the provider's context is not cancelled.
CloseKeepsContext ==
  /\ mu = "nobody"
  /\ MarksClosed("frame")
  /\ mu' = "closer"
  /\ UNCHANGED <<pctx, socket, up, down, reader>>

\* The mutex is taken, the flag set and the context cancelled.
CloseLocks ==
  /\ mu = "nobody"
  /\ MarksClosed("frame")
  /\ mu' = "closer"
  /\ pctx' = TRUE
  /\ UNCHANGED <<socket, up, down, reader>>

\* The close frame is written, as soon as there is room, and the socket closed.
CloseSocket ==
  /\ closer = "frame"
  /\ socket = "open" => up < SocketBuffer
  /\ closer' = "join"
  /\ socket' = "closed"
  /\ mu' = "nobody"
  /\ UNCHANGED <<clientVars, channel, ended, seq, closed, panicked, pctx, up, down, reader>>

\* Mutant: the read loop is not waited for.
CloseChannelAtOnce ==
  /\ EndsChannel("join")
  /\ UNCHANGED deepgramVars

\* readWg.Wait, then the channel is closed.
CloseChannel ==
  /\ reader = "exited"
  /\ EndsChannel("join")
  /\ UNCHANGED deepgramVars

Close == CloseLocks \/ CloseSocket \/ CloseChannel

-----------------------------------------------------------------------------
(* The service, and the network to it *)

\* An audio frame is taken, and may be answered.
ServiceTakes ==
  /\ socket = "open"
  /\ up > 0
  /\ up' = up - 1
  /\ \/ down < SocketBuffer /\ down' \in {down, down + 1}
     \/ down = SocketBuffer /\ ServiceKeepsReading /\ UNCHANGED down
  /\ UNCHANGED <<clientVars, providerVars, mu, pctx, socket, reader>>

SocketFails ==
  /\ socket = "open"
  /\ socket' = "failed"
  /\ UNCHANGED <<clientVars, providerVars, mu, pctx, up, down, reader>>

DeepgramStep == SendAudio \/ ReadLoop \/ Close \/ ServiceTakes \/ SocketFails
=============================================================================
