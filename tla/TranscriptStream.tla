-------------------------- MODULE TranscriptStream --------------------------
(***************************************************************************)
(* What an STT provider promises of the channel that TranscriptEvents      *)
(* returns: numbered events come out in the order they were put in, each   *)
(* number is larger than those before it (numbers may be skipped, an event *)
(* may be dropped before it is put in), and after the channel was closed   *)
(* nothing is put in any more.                                             *)
(***************************************************************************)
EXTENDS Naturals, Sequences

VARIABLES queue,             \* the numbers of the events in the channel
          last,              \* the number of the last event put in, 0 if none was
          ended              \* the channel is closed

vars == <<queue, last, ended>>

Init == /\ queue = <<>>
        /\ last = 0
        /\ ended = FALSE

Put == /\ ~ended
       /\ last' > last
       /\ queue' = Append(queue, last')
       /\ UNCHANGED ended

Take == /\ queue # <<>>
        /\ queue' = Tail(queue)
        /\ UNCHANGED <<last, ended>>

End == /\ ~ended
       /\ ended' = TRUE
       /\ UNCHANGED <<queue, last>>

Next == Put \/ Take \/ End

Spec == Init /\ [][Next]_vars
=============================================================================
