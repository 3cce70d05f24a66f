---------------------------- MODULE ProviderUse ----------------------------
(***************************************************************************)
(* How a connection uses its STT provider: what internal/websocket owes to *)
(* a provider, and what AudioPipeline takes for granted of the connection  *)
(* it opens a part of.  audioPump and transcriptPump work until the        *)
(* connection's context is done, neither leaves in the middle of a call,   *)
(* the numbers of the events that are taken never fall, and the provider   *)
(* is closed once, after both pumps are over.                              *)
(***************************************************************************)
EXTENDS Naturals

VARIABLES cancelled,     \* the connection's context is done
          speaker,       \* audioPump: "idle", "busy" in a call, or "over"
          hearer,        \* transcriptPump, the same
          heard,         \* the largest number of an event so far
          closing        \* Close was called

vars == <<cancelled, speaker, hearer, heard, closing>>

Init == /\ cancelled = FALSE
        /\ speaker = "idle" /\ hearer = "idle"
        /\ heard = 0
        /\ closing = FALSE

\* A pump that only leaves between two calls, and when it was told to.
Moves(here, there) == \/ here = "idle" /\ there = "busy"
                      \/ here = "busy" /\ there = "idle"
                      \/ here = "idle" /\ there = "over" /\ cancelled

Speak == /\ Moves(speaker, speaker')
         /\ UNCHANGED <<hearer, heard, closing>>

\* The hearer takes an event, with or without something to do for it.
Hear == /\ Moves(hearer, hearer') \/ (hearer = "idle" /\ UNCHANGED hearer)
        /\ heard' >= heard
        /\ heard' > heard => hearer = "idle"
        /\ UNCHANGED <<speaker, closing>>

Close == /\ speaker = "over" /\ hearer = "over"
         /\ ~closing
         /\ closing' = TRUE
         /\ UNCHANGED <<speaker, hearer, heard>>

Cancel == /\ cancelled' = TRUE
          /\ UNCHANGED <<speaker, hearer, heard, closing>>

\* The context may become done with any step, and stays done.
Next == /\ cancelled => cancelled'
        /\ Speak \/ Hear \/ Close \/ Cancel

Spec == Init /\ [][Next]_vars
=============================================================================
