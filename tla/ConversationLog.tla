-------------------------- MODULE ConversationLog --------------------------
(***************************************************************************)
(* What the 3-level memory of one session promises about the committed     *)
(* turns of the conversation, whatever is stored and whoever runs.         *)
(*                                                                         *)
(* The conversation is a log of turns.  A prefix of it, `folded' turns     *)
(* long, lives in the summary (Level 3); the rest is kept word for word    *)
(* (Level 2).  A turn enters at the end of the log and never moves; a      *)
(* summary may only move the boundary forward, and never up to the last    *)
(* turn.  Once the store has been overwritten by a stale value, or a value *)
(* has been lost by the store itself, the log is `damaged' and nothing is  *)
(* promised of it any more.                                                *)
(***************************************************************************)
EXTENDS Naturals, Sequences

CONSTANT Turn                \* the turns a conversation may hold

VARIABLES log,               \* the committed turns, oldest first
          folded,            \* how many of them the summary stands for
          damaged            \* a committed turn may have been lost

vars == <<log, folded, damaged>>

Init == /\ log = <<>>
        /\ folded = 0
        /\ damaged = FALSE

\* A turn is committed: it becomes the newest one.
Commit == /\ \E t \in Turn : log' = Append(log, t)
          /\ UNCHANGED <<folded, damaged>>

\* The summary takes over more of the oldest turns; the newest one stays raw.
Fold == /\ log' = log
        /\ folded' > folded
        /\ folded' < Len(log)
        /\ UNCHANGED damaged

\* A value that was not the current one is written, or the store loses its value.
Damage == damaged'

Next == (~damaged /\ (Commit \/ Fold)) \/ Damage

Spec == Init /\ [][Next]_vars
=============================================================================
