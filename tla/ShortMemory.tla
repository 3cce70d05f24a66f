---------------------------- MODULE ShortMemory ----------------------------
(***************************************************************************)
(* What both modes of the memory manager share (internal/memory): turns,   *)
(* their token estimates, and how CreateSummary splits the turns of Level  *)
(* 2 into those a summary takes over and those it leaves.                  *)
(***************************************************************************)
EXTENDS Integers, Sequences

CONSTANTS
  MaxMessages,             \* bound: turns committed over the session
  Tokens,                  \* Tokens[t]: the token estimate of turn t
  SummaryTokens,           \* the token estimate of a summary text
  MaxContextTokens,        \* a context this large is queued for summarization
  ShortMemoryTokens        \* recent tokens a summary leaves in Level 2

Turn == 1..MaxMessages

ASSUME MessagesAssumption == MaxMessages \in Nat

\* NewManager replaces a limit that is not positive by its default.
ASSUME TokensAssumption ==
  /\ Tokens \in [Turn -> Nat]
  /\ SummaryTokens \in Nat
  /\ MaxContextTokens \in Nat \ {0}
  /\ ShortMemoryTokens \in Nat \ {0}

\* Weight(s)[i]: the tokens of s from its i-th turn to its last.
Weight(s) ==
  LET w[i \in 1..(Len(s) + 1)] == IF i > Len(s) THEN 0 ELSE Tokens[s[i]] + w[i + 1]
  IN  w

\* The loop from the newest turn back stops at turn i: it is the first one at
\* which the tokens gathered reach shortMemoryTokens.
StopsAt(s, i) ==
  /\ Weight(s)[i] >= ShortMemoryTokens
  /\ \A j \in (i + 1)..Len(s) : Weight(s)[j] < ShortMemoryTokens

\* How many of the oldest turns the loop leaves to be summarized.
OlderThanRecent(s) ==
  IF \E i \in 1..Len(s) : StopsAt(s, i)
  THEN (CHOOSE i \in 1..Len(s) : StopsAt(s, i)) - 1
  ELSE Len(s) - 1

\* Mutant: without the branch for a loop that ran to the oldest turn.
SplitIndexUnchecked(s) == OlderThanRecent(s)

SplitIndex(s) ==
  IF OlderThanRecent(s) <= 0 THEN Len(s) \div 2 ELSE OlderThanRecent(s)

Older(s)  == SubSeq(s, 1, SplitIndex(s))
Recent(s) == SubSeq(s, SplitIndex(s) + 1, Len(s))
=============================================================================
