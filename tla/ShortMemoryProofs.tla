------------------------- MODULE ShortMemoryProofs -------------------------
(***************************************************************************)
(* How CreateSummary splits the turns, for every value of the constants:   *)
(* what the proofs about both modes of the memory manager rest on.         *)
(***************************************************************************)
EXTENDS ShortMemory, SequenceTheorems, TLAPS

\* The number of turns to summarize is at least one and leaves at least one: the
\* `len(messagesToSummarize) == 0' of manager.go:274 cannot be reached.
LEMMA SplitIndexRange ==
  ASSUME NEW s \in Seq(Turn), Len(s) > 1
  PROVE  SplitIndex(s) \in 1..(Len(s) - 1)
<1> DEFINE Stop == CHOOSE i \in 1..Len(s) : StopsAt(s, i)
<1>1. Len(s) \in Nat
  OBVIOUS
<1>2. OlderThanRecent(s) \in 0..(Len(s) - 1)
  <2>1. CASE \E i \in 1..Len(s) : StopsAt(s, i)
    <3>1. Stop \in 1..Len(s)
      BY <2>1, Zenon
    <3> QED
      BY <1>1, <2>1, <3>1 DEF OlderThanRecent
  <2>2. CASE ~ \E i \in 1..Len(s) : StopsAt(s, i)
    BY <1>1, <2>2 DEF OlderThanRecent
  <2> QED
    BY <2>1, <2>2
<1> HIDE DEF Stop
<1> QED
  BY <1>1, <1>2 DEF SplitIndex

\* The split loses nothing, and leaves both parts non-empty.
LEMMA SplitProperties ==
  ASSUME NEW s \in Seq(Turn), Len(s) > 1
  PROVE  /\ Older(s) \in Seq(Turn)
         /\ Recent(s) \in Seq(Turn)
         /\ Older(s) \o Recent(s) = s
         /\ Len(Older(s)) \in 1..(Len(s) - 1)
         /\ Len(Recent(s)) = Len(s) - Len(Older(s))
<1> DEFINE n == SplitIndex(s)
<1>1. n \in 1..(Len(s) - 1) /\ Len(s) \in Nat
  BY SplitIndexRange
<1> HIDE DEF n
<1>2. \A i \in 1..Len(s) : s[i] \in Turn
  OBVIOUS
<1>3. /\ SubSeq(s, 1, n) \in Seq(Turn)
      /\ Len(SubSeq(s, 1, n)) = n
  BY <1>1, <1>2, SubSeqProperties
<1>4. /\ SubSeq(s, n + 1, Len(s)) \in Seq(Turn)
      /\ Len(SubSeq(s, n + 1, Len(s))) = Len(s) - n
  BY <1>1, <1>2, SubSeqProperties
<1>5. SubSeq(s, 1, n) \o SubSeq(s, n + 1, Len(s)) = SubSeq(s, 1, Len(s))
  BY <1>1, ConcatAdjacentSubSeq
<1>6. SubSeq(s, 1, Len(s)) = s
  BY SubSeqFull
<1> QED
  BY <1>1, <1>3, <1>4, <1>5, <1>6 DEF Older, Recent, n
=============================================================================
