----------------------------- MODULE LLMStream -----------------------------
(***************************************************************************)
(* StreamGenerate of internal/llm, OpenAIProvider's and FakeLLMProvider's: *)
(* the goroutine that reads an answer from the LLM chunk by chunk and puts *)
(* the chunks into a channel, until the text is over, the LLM fails or the *)
(* context of the generation is done.  It closes the channel whichever it  *)
(* is; only a failure is told, as a chunk with an error.                   *)
(***************************************************************************)
EXTENDS Integers, Sequences

CONSTANTS
  Answers,          \* the generate_answer commands the client may send
  StreamBuffer,     \* capacity of the channel (50, or 32)
  MaxChunks         \* bound: chunks of an answer

ASSUME StreamAssumption ==
  /\ StreamBuffer \in Nat \ {0}
  /\ MaxChunks \in Nat

VARIABLES
  producer,    \* the goroutine of each answer, or the item it is putting into the
               \* channel, which is closed when the goroutine has "ended"
  parts,       \* chunks it has read from the LLM
  stream       \* the channel

streamVars == <<producer, parts, stream>>

\* A chunk with a text, the empty one that ends it, and one with an error.
Item == {"text", "final", "error"}

StreamTypeOK ==
  /\ producer \in [Answers -> {"off", "read", "ended"} \cup Item]
  /\ parts \in [Answers -> 0..MaxChunks]
  /\ stream \in [Answers -> Seq(Item)]
  /\ \A a \in Answers : Len(stream[a]) <= StreamBuffer

StreamInit ==
  /\ producer = [a \in Answers |-> "off"]
  /\ parts = [a \in Answers |-> 0]
  /\ stream = [a \in Answers |-> <<>>]

Produces(a, here, there) ==
  /\ producer[a] = here
  /\ producer' = [producer EXCEPT ![a] = there]

\* A text is not the end of the stream.
Onwards(item) == IF item = "text" THEN "read" ELSE "ended"

\* The LLM has accepted the request: the goroutine is launched.
Request(a) ==
  /\ Produces(a, "off", "read")
  /\ UNCHANGED <<parts, stream>>

\* A chunk, the end mark or an error has been read.
ProducerReads(a) ==
  /\ \E item \in Item :
       /\ Produces(a, "read", item)
       /\ item = "text" => parts[a] < MaxChunks
       /\ parts' = [parts EXCEPT ![a] = IF item = "text" THEN @ + 1 ELSE @]
  /\ UNCHANGED stream

\* The body is at its end, with an end mark or without.
ProducerFinishes(a) ==
  /\ Produces(a, "read", "ended")
  /\ UNCHANGED <<parts, stream>>

\* Mutant: an item that finds the channel full is dropped.
ProducerOffers(a) ==
  \E item \in Item :
    /\ Produces(a, item, Onwards(item))
    /\ stream' = IF Len(stream[a]) < StreamBuffer
                 THEN [stream EXCEPT ![a] = Append(@, item)] ELSE stream
    /\ UNCHANGED parts

\* The item in hand goes into the channel, when it has room.
ProducerPuts(a) ==
  \E item \in Item :
    /\ Produces(a, item, Onwards(item))
    /\ Len(stream[a]) < StreamBuffer
    /\ stream' = [stream EXCEPT ![a] = Append(@, item)]
    /\ UNCHANGED parts

\* The context is done: what is in hand is lost, and nobody is told.  (A read that is
\* under way fails, which may still be told: see ProducerReads.)
ProducerStops(a) ==
  /\ \E here \in {"read"} \cup Item : Produces(a, here, "ended")
  /\ UNCHANGED <<parts, stream>>

\* The consumer receives the oldest item.
Receives(a, item) ==
  /\ stream[a] # <<>>
  /\ item = Head(stream[a])
  /\ stream' = [stream EXCEPT ![a] = Tail(@)]
  /\ UNCHANGED <<producer, parts>>

\* Consumer and producer are over, and the channel with them.
Forget(a) ==
  /\ parts' = [parts EXCEPT ![a] = 0]
  /\ UNCHANGED <<producer, stream>>

\* The consumer finds the channel empty and closed.
StreamIsOver(a) == stream[a] = <<>> /\ producer[a] = "ended"
=============================================================================
