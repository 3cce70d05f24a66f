-------------------------- MODULE LocalMemoryProofs --------------------------
(***************************************************************************)
(* LocalMemory for every number of turns, writers and summaries, and every *)
(* estimate of tokens: the slices keep their type, and in an open session, *)
(* until a context is stored over another one than it was made from, the   *)
(* appends to shared arrays change no turn that anybody has in his hands,  *)
(* and the memory implements ConversationLog.                              *)
(*                                                                         *)
(* What depends on the arrays is stated of arrays h, so that it can be     *)
(* used of heap and of heap'.                                              *)
(***************************************************************************)
EXTENDS LocalMemory, ShortMemoryProofs, FiniteSetTheorems

-----------------------------------------------------------------------------
(* Slices of the arrays h *)

\* Turns, Capacity, Slice, Extended and HeapExtended of LocalMemory, in the arrays h.
CellsIn(h, s) == IF s = Nil THEN <<>> ELSE SubSeq(h[s.arr], s.off + 1, s.off + s.len)

CapacityIn(h, s) == IF s = Nil THEN 0 ELSE Len(h[s.arr]) - s.off

SliceIn(h) ==
  {Nil} \cup {s \in [arr : 1..Len(h), off : Nat, len : 0..MaxMessages] :
                /\ s.off + s.len <= Len(h[s.arr])
                /\ \A i \in (s.off + 1)..(s.off + s.len) : h[s.arr][i] # 0}

ExtendedIn(h, s, new) ==
  IF s.len + Len(new) <= CapacityIn(h, s)
  THEN [s EXCEPT !.len = @ + Len(new)]
  ELSE [arr |-> Len(h) + 1, off |-> 0, len |-> s.len + Len(new)]

HeapExtendedIn(h, s, new) ==
  IF s.len + Len(new) <= CapacityIn(h, s)
  THEN [h EXCEPT ![s.arr] =
          [i \in DOMAIN @ |-> IF i - s.off - s.len \in DOMAIN new THEN new[i - s.off - s.len] ELSE @[i]]]
  ELSE LET old  == CellsIn(h, s) \o new
           room == Larger(2 * CapacityIn(h, s), Len(old))
       IN  Append(h, [i \in 1..room |-> IF i <= Len(old) THEN old[i] ELSE 0])

\* In the program's arrays they are what LocalMemory says.
LEMMA Unfolded ==
  /\ \A s : Turns(s) = CellsIn(heap, s) /\ Capacity(s) = CapacityIn(heap, s)
  /\ Slice = SliceIn(heap)
  /\ \A s, new : /\ Extended(s, new) = ExtendedIn(heap, s, new)
                 /\ HeapExtended(s, new) = HeapExtendedIn(heap, s, new)
BY DEF Turns, CellsIn, Capacity, CapacityIn, Slice, SliceIn, Extended, ExtendedIn, HeapExtended, HeapExtendedIn

\* Where the cells of a slice are, and that they hold turns.
LEMMA SliceRange ==
  ASSUME NEW h \in Seq(Array), NEW s \in SliceIn(h), s # Nil
  PROVE  /\ s \in [arr : 1..Len(h), off : Nat, len : 0..MaxMessages]
         /\ s.arr \in 1..Len(h) /\ s.off \in Nat /\ s.len \in 0..MaxMessages
         /\ h[s.arr] \in Array /\ Len(h[s.arr]) \in Nat
         /\ s.off + s.len <= Len(h[s.arr])
         /\ \A i \in (s.off + 1)..(s.off + s.len) : h[s.arr][i] \in Turn
<1>1. Len(h) \in Nat /\ MaxMessages \in Nat
  BY MessagesAssumption
<1>2. s.arr \in 1..Len(h) /\ s.off \in Nat /\ s.len \in 0..MaxMessages
      /\ s.off + s.len <= Len(h[s.arr])
      /\ \A i \in (s.off + 1)..(s.off + s.len) : h[s.arr][i] # 0
      /\ s \in [arr : 1..Len(h), off : Nat, len : 0..MaxMessages]
  BY DEF SliceIn
<1>3. h[s.arr] \in Array
  BY <1>1, <1>2, ElementOfSeq
<1>4. Len(h[s.arr]) \in Nat /\ \A i \in 1..Len(h[s.arr]) : h[s.arr][i] \in Turn \cup {0}
  BY <1>3 DEF Array
<1>5. \A i \in (s.off + 1)..(s.off + s.len) : i \in 1..Len(h[s.arr])
  BY <1>1, <1>2, <1>4
<1>6. \A i \in (s.off + 1)..(s.off + s.len) : h[s.arr][i] \in Turn
  BY <1>2, <1>4, <1>5, Zenon
<1>7. s \in [arr : 1..Len(h), off : Nat, len : 0..MaxMessages]
  BY DEF SliceIn
<1> QED
  BY <1>2, <1>3, <1>4, <1>6, <1>7, Zenon

LEMMA NilFields == Nil.arr = 0 /\ Nil.off = 0 /\ Nil.len = 0
BY DEF Nil

\* The turns of a slice, one by one.
LEMMA CellsProperties ==
  ASSUME NEW h \in Seq(Array), NEW s \in SliceIn(h)
  PROVE  /\ CellsIn(h, s) \in Seq(Turn)
         /\ Len(CellsIn(h, s)) = s.len
         /\ s.len \in 0..MaxMessages /\ s.off \in Nat /\ s.arr \in 0..Len(h)
         /\ \A i \in 1..s.len : CellsIn(h, s)[i] = h[s.arr][s.off + i]
<1>1. CASE s = Nil
  <2>1. <<>> \in Seq(Turn) /\ Len(<<>>) = 0 /\ Len(h) \in Nat
    OBVIOUS
  <2> QED
    BY <1>1, <2>1, NilFields, MessagesAssumption DEF CellsIn
<1>2. CASE s # Nil
  <2>1. s.off \in Nat /\ s.len \in Nat /\ s.arr \in 1..Len(h) /\ s.len \in 0..MaxMessages
        /\ \A i \in (s.off + 1)..(s.off + s.len) : h[s.arr][i] \in Turn
    BY <1>2, SliceRange, MessagesAssumption
  <2> DEFINE m == s.off + 1
             n == s.off + s.len
  <2>2. CellsIn(h, s) = SubSeq(h[s.arr], m, n)
    BY <1>2 DEF CellsIn
  <2>3. m \in Int /\ n \in Int /\ n - m + 1 = s.len
    BY <2>1
  <2>4. /\ CellsIn(h, s) \in Seq(Turn)
        /\ Len(CellsIn(h, s)) = IF m <= n THEN n - m + 1 ELSE 0
        /\ \A i \in 1 .. (n - m + 1) : CellsIn(h, s)[i] = h[s.arr][m + i - 1]
    <3>1. \A i \in m..n : h[s.arr][i] \in Turn
      BY <2>1
    <3> HIDE DEF m, n, Turn
    <3> QED
      BY <2>2, <2>3, <3>1, SubSeqProperties
  <2>5. Len(CellsIn(h, s)) = s.len
    BY <2>1, <2>4
  <2>6. \A i \in 1..s.len : i \in 1 .. (n - m + 1) /\ m + i - 1 = s.off + i
    BY <2>1
  <2>7. Len(h) \in Nat
    OBVIOUS
  <2> QED
    BY <2>1, <2>4, <2>5, <2>6, <2>7
<1> QED
  BY <1>1, <1>2

-----------------------------------------------------------------------------
(* append *)

LEMMA CapacityType ==
  ASSUME NEW h \in Seq(Array), NEW s \in SliceIn(h)
  PROVE  CapacityIn(h, s) \in Nat /\ s.len <= CapacityIn(h, s)
<1>1. CASE s = Nil
  BY <1>1, NilFields DEF CapacityIn
<1>2. CASE s # Nil
  <2>1. s.off \in Nat /\ s.len \in Nat /\ Len(h[s.arr]) \in Nat /\ s.off + s.len <= Len(h[s.arr])
    BY <1>2, SliceRange, CellsProperties, MessagesAssumption
  <2> QED
    BY <1>2, <2>1 DEF CapacityIn
<1> QED
  BY <1>1, <1>2

\* Arrays only get longer in number, and a cell that was written stays written.
Grown(h, h2) ==
  /\ h2 \in Seq(Array)
  /\ Len(h) <= Len(h2)
  /\ \A a \in 1..Len(h) : /\ Len(h2[a]) = Len(h[a])
                          /\ \A i \in 1..Len(h[a]) : h[a][i] # 0 => h2[a][i] # 0

LEMMA GrownKeepsSlices ==
  ASSUME NEW h \in Seq(Array), NEW h2, Grown(h, h2), NEW s \in SliceIn(h)
  PROVE  s \in SliceIn(h2) /\ CapacityIn(h2, s) = CapacityIn(h, s)
<1>1. CASE s = Nil
  BY <1>1 DEF SliceIn, CapacityIn
<1>2. CASE s # Nil
  <2>1. /\ s \in [arr : 1..Len(h), off : Nat, len : 0..MaxMessages]
        /\ s.off + s.len <= Len(h[s.arr])
        /\ \A i \in (s.off + 1)..(s.off + s.len) : h[s.arr][i] # 0
        /\ s.arr \in 1..Len(h) /\ s.off \in Nat /\ s.len \in Nat
        /\ Len(h[s.arr]) \in Nat
    BY <1>2, SliceRange, MessagesAssumption DEF SliceIn
  <2>2. Len(h2[s.arr]) = Len(h[s.arr])
        /\ \A i \in 1..Len(h[s.arr]) : h[s.arr][i] # 0 => h2[s.arr][i] # 0
    BY <2>1 DEF Grown
  <2>3. \A i \in (s.off + 1)..(s.off + s.len) : h2[s.arr][i] # 0
    BY <2>1, <2>2
  <2>4. s \in [arr : 1..Len(h2), off : Nat, len : 0..MaxMessages]
    <3>1. 1..Len(h) \subseteq 1..Len(h2)
      BY DEF Grown
    <3> QED
      BY <2>1, <3>1
  <2> QED
    BY <1>2, <2>1, <2>2, <2>3, <2>4 DEF SliceIn, CapacityIn
<1> QED
  BY <1>1, <1>2

\* The cells of s are the same in h and h2.
SameCells(h, h2, s) ==
  \A i \in (s.off + 1)..(s.off + s.len) : h2[s.arr][i] = h[s.arr][i]

LEMMA SameCellsSameTurns ==
  ASSUME NEW h \in Seq(Array), NEW h2, Grown(h, h2), NEW s \in SliceIn(h), SameCells(h, h2, s)
  PROVE  CellsIn(h2, s) = CellsIn(h, s)
<1>1. s \in SliceIn(h2) /\ h2 \in Seq(Array)
  BY GrownKeepsSlices DEF Grown
<1>2. /\ CellsIn(h, s) \in Seq(Turn) /\ CellsIn(h2, s) \in Seq(Turn)
      /\ Len(CellsIn(h, s)) = s.len /\ Len(CellsIn(h2, s)) = s.len
      /\ s.len \in Nat /\ s.off \in Nat
      /\ \A i \in 1..s.len : CellsIn(h, s)[i] = h[s.arr][s.off + i]
      /\ \A i \in 1..s.len : CellsIn(h2, s)[i] = h2[s.arr][s.off + i]
  BY <1>1, CellsProperties, MessagesAssumption
<1>3. \A i \in 1..s.len : CellsIn(h2, s)[i] = CellsIn(h, s)[i]
  <2> SUFFICES ASSUME NEW i \in 1..s.len PROVE CellsIn(h2, s)[i] = CellsIn(h, s)[i]
    OBVIOUS
  <2>1. s.off + i \in (s.off + 1)..(s.off + s.len)
    BY <1>2
  <2>2. h2[s.arr][s.off + i] = h[s.arr][s.off + i]
    BY <2>1, Zenon DEF SameCells
  <2> QED
    BY <1>2, <2>2, Zenon
<1> HIDE DEF Turn
<1> QED
  BY <1>2, <1>3, SeqEqual

Fits(h, s, new) == s.len + Len(new) <= CapacityIn(h, s)

\* append in place.
LEMMA ExtendedInPlace ==
  ASSUME NEW h \in Seq(Array), NEW s \in SliceIn(h), NEW new \in Seq(Turn),
         new # <<>>, Fits(h, s, new)
  PROVE  LET h2 == HeapExtendedIn(h, s, new)
         IN  /\ Grown(h, h2)
             /\ Len(h2) = Len(h)
             /\ s # Nil
             /\ s.off + s.len + Len(new) <= Len(h[s.arr])
             /\ \A a \in 1..Len(h) : \A i \in 1..Len(h[a]) :
                  h2[a][i] = IF a = s.arr /\ i - s.off - s.len \in 1..Len(new)
                             THEN new[i - s.off - s.len] ELSE h[a][i]
<1> DEFINE cell(i) == IF i - s.off - s.len \in DOMAIN new THEN new[i - s.off - s.len]
                      ELSE h[s.arr][i]
           row == [i \in 1..Len(h[s.arr]) |-> cell(i)]
           h2 == HeapExtendedIn(h, s, new)
<1>1. Len(new) \in Nat /\ Len(new) # 0 /\ DOMAIN new = 1..Len(new)
      /\ \A j \in 1..Len(new) : new[j] \in Turn
  BY EmptySeq
<1>2. s # Nil
  BY <1>1, NilFields DEF Fits, CapacityIn
<1>3. /\ s.arr \in 1..Len(h) /\ s.off \in Nat /\ s.len \in Nat
      /\ h[s.arr] \in Seq(Turn \cup {0})
  BY <1>2, SliceRange, MessagesAssumption DEF Array
<1>4. Len(h[s.arr]) \in Nat /\ DOMAIN h[s.arr] = 1..Len(h[s.arr])
      /\ \A i \in 1..Len(h[s.arr]) : h[s.arr][i] \in Turn \cup {0}
  BY <1>3
<1>5. s.off + s.len + Len(new) <= Len(h[s.arr])
  BY <1>1, <1>2, <1>3, <1>4 DEF Fits, CapacityIn
<1>6. h2 = [h EXCEPT ![s.arr] = row]
  BY <1>4 DEF HeapExtendedIn, Fits
<1>7. row \in Array /\ Len(row) = Len(h[s.arr])
  <2>1. \A i \in 1..Len(h[s.arr]) : cell(i) \in Turn \cup {0}
    BY <1>1, <1>4, Zenon
  <2> HIDE DEF cell, Turn
  <2>2. row \in Seq(Turn \cup {0})
    BY <1>4, <2>1, IsASeq
  <2> QED
    BY <1>4, <2>2 DEF Array
<1>8. h2 \in Seq(Array) /\ Len(h2) = Len(h)
      /\ \A a \in 1..Len(h) : h2[a] = IF a = s.arr THEN row ELSE h[a]
  <2> HIDE DEF row, h2
  <2> QED
    BY <1>3, <1>6, <1>7, ExceptSeq
<1>9. \A i \in 1..Len(h[s.arr]) : row[i] = cell(i)
  OBVIOUS
<1> HIDE DEF row, h2
<1>10. \A a \in 1..Len(h) : \A i \in 1..Len(h[a]) :
         h2[a][i] = IF a = s.arr /\ i - s.off - s.len \in 1..Len(new)
                    THEN new[i - s.off - s.len] ELSE h[a][i]
  BY <1>1, <1>8, <1>9
<1>11. Grown(h, h2)
  <2>1. \A j \in 1..Len(new) : new[j] # 0
    BY <1>1 DEF Turn
  <2>2. \A a \in 1..Len(h) : Len(h2[a]) = Len(h[a])
    BY <1>7, <1>8
  <2>3. \A a \in 1..Len(h) : \A i \in 1..Len(h[a]) : h[a][i] # 0 => h2[a][i] # 0
    <3> SUFFICES ASSUME NEW a \in 1..Len(h), NEW i \in 1..Len(h[a]), h[a][i] # 0
                 PROVE  h2[a][i] # 0
      OBVIOUS
    <3>1. h2[a][i] = h[a][i] \/ \E j \in 1..Len(new) : h2[a][i] = new[j]
      BY <1>10
    <3> QED
      BY <2>1, <3>1
  <2>4. Len(h) \in Nat
    OBVIOUS
  <2> QED
    BY <1>8, <2>2, <2>3, <2>4 DEF Grown
<1> QED
  BY <1>2, <1>5, <1>8, <1>10, <1>11 DEF h2

\* append to a new array.
LEMMA ExtendedElsewhere ==
  ASSUME NEW h \in Seq(Array), NEW s \in SliceIn(h), NEW new \in Seq(Turn),
         ~Fits(h, s, new)
  PROVE  LET h2 == HeapExtendedIn(h, s, new)
         IN  /\ Grown(h, h2)
             /\ Len(h2) = Len(h) + 1
             /\ \A a \in 1..Len(h) : h2[a] = h[a]
             /\ s.len + Len(new) <= Len(h2[Len(h) + 1])
             /\ \A i \in 1..(s.len + Len(new)) :
                  h2[Len(h) + 1][i] = (CellsIn(h, s) \o new)[i]
             /\ \A i \in (s.len + Len(new) + 1)..Len(h2[Len(h) + 1]) : h2[Len(h) + 1][i] = 0
<1> DEFINE old == CellsIn(h, s) \o new
           room == Larger(2 * CapacityIn(h, s), Len(old))
           cell(i) == IF i <= Len(old) THEN old[i] ELSE 0
           row == [i \in 1..room |-> cell(i)]
           h2 == HeapExtendedIn(h, s, new)
<1>1. /\ old \in Seq(Turn) /\ Len(old) = s.len + Len(new) /\ Len(old) \in Nat
      /\ \A i \in 1..Len(old) : old[i] \in Turn
  <2>1. CellsIn(h, s) \in Seq(Turn) /\ Len(CellsIn(h, s)) = s.len
    BY CellsProperties
  <2> HIDE DEF Turn
  <2> QED
    BY <2>1, ConcatProperties
<1>2. room \in Nat /\ Len(old) <= room
  BY <1>1, CapacityType DEF Larger
<1>3. h2 = Append(h, row)
  BY DEF HeapExtendedIn, Fits
<1> HIDE DEF old, room
<1>4. row \in Array /\ Len(row) = room
  <2>1. \A i \in 1..room : cell(i) \in Turn \cup {0}
    BY <1>1, <1>2
  <2> HIDE DEF cell, Turn
  <2>2. row \in Seq(Turn \cup {0})
    BY <1>2, <2>1, IsASeq
  <2> QED
    BY <1>2, <2>2 DEF Array
<1>5. /\ \A i \in 1..Len(old) : row[i] = old[i]
      /\ \A i \in (Len(old) + 1)..room : row[i] = 0
  BY <1>1, <1>2
<1> HIDE DEF row, h2
<1>6. /\ h2 \in Seq(Array) /\ Len(h2) = Len(h) + 1
      /\ \A a \in 1..Len(h) : h2[a] = h[a]
      /\ h2[Len(h) + 1] = row
  BY <1>3, <1>4, AppendProperties
<1>7. Grown(h, h2)
  <2>1. Len(h) \in Nat
    OBVIOUS
  <2> QED
    BY <1>6, <2>1 DEF Grown
<1> QED
  BY <1>1, <1>2, <1>4, <1>5, <1>6, <1>7 DEF h2, old


\* What append returns: the turns of s and the new ones.
LEMMA ExtendedCells ==
  ASSUME NEW h \in Seq(Array), NEW s \in SliceIn(h), NEW new \in Seq(Turn),
         new # <<>>, s.len + Len(new) <= MaxMessages
  PROVE  LET h2 == HeapExtendedIn(h, s, new)
             e  == ExtendedIn(h, s, new)
         IN  /\ Grown(h, h2)
             /\ e \in SliceIn(h2)
             /\ e.len = s.len + Len(new)
             /\ CellsIn(h2, e) = CellsIn(h, s) \o new
             /\ IF Fits(h, s, new) THEN e.arr = s.arr /\ e.off = s.off
                                   ELSE e.arr = Len(h) + 1 /\ e.off = 0
<1> DEFINE h2 == HeapExtendedIn(h, s, new)
           e == ExtendedIn(h, s, new)
           all == CellsIn(h, s) \o new
<1>1. /\ CellsIn(h, s) \in Seq(Turn) /\ Len(CellsIn(h, s)) = s.len
      /\ s.len \in Nat /\ s.off \in Nat /\ s.arr \in 0..Len(h)
      /\ \A i \in 1..s.len : CellsIn(h, s)[i] = h[s.arr][s.off + i]
  BY CellsProperties, MessagesAssumption
<1>2. Len(new) \in Nat /\ Len(new) # 0 /\ Len(h) \in Nat
  BY EmptySeq
<1>3. /\ all \in Seq(Turn) /\ Len(all) = s.len + Len(new)
      /\ \A i \in 1..(s.len + Len(new)) :
           all[i] = IF i <= s.len THEN CellsIn(h, s)[i] ELSE new[i - s.len]
  <2> HIDE DEF Turn
  <2>1. /\ all \in Seq(Turn)
        /\ Len(all) = Len(CellsIn(h, s)) + Len(new)
        /\ \A i \in 1..(Len(CellsIn(h, s)) + Len(new)) :
             all[i] = IF i <= Len(CellsIn(h, s)) THEN CellsIn(h, s)[i]
                                                 ELSE new[i - Len(CellsIn(h, s))]
    BY <1>1, ConcatProperties
  <2> HIDE DEF all
  <2> QED
    BY <1>1, <2>1, Zenon
<1>4. Grown(h, h2) /\ h2 \in Seq(Array)
  BY ExtendedInPlace, ExtendedElsewhere DEF Grown
<1>5. /\ e \in [arr : 1..Len(h2), off : Nat, len : 0..MaxMessages]
      /\ e # Nil
      /\ e.off + e.len <= Len(h2[e.arr])
      /\ e.len = s.len + Len(new)
      /\ IF Fits(h, s, new) THEN e.arr = s.arr /\ e.off = s.off
                            ELSE e.arr = Len(h) + 1 /\ e.off = 0
      /\ \A i \in 1..e.len : h2[e.arr][e.off + i] = all[i]
  <2>1. CASE Fits(h, s, new)
    <3>1. /\ s # Nil
          /\ s.off + s.len + Len(new) <= Len(h[s.arr])
          /\ Len(h2) = Len(h)
          /\ \A a \in 1..Len(h) : \A i \in 1..Len(h[a]) :
               h2[a][i] = IF a = s.arr /\ i - s.off - s.len \in 1..Len(new)
                          THEN new[i - s.off - s.len] ELSE h[a][i]
      BY <2>1, ExtendedInPlace
    <3>2. s \in [arr : 1..Len(h), off : Nat, len : 0..MaxMessages] /\ s.arr \in 1..Len(h)
          /\ Len(h[s.arr]) \in Nat
      BY <3>1, SliceRange
    <3>3. e = [s EXCEPT !.len = @ + Len(new)]
      BY <2>1 DEF ExtendedIn, Fits
    <3>4. s.len + Len(new) \in 0..MaxMessages
      BY <1>1, <1>2, MessagesAssumption
    <3>5. /\ e \in [arr : 1..Len(h), off : Nat, len : 0..MaxMessages]
          /\ e.arr = s.arr /\ e.off = s.off /\ e.len = s.len + Len(new)
      <4> HIDE DEF e, h2
      <4> QED
        BY <3>2, <3>3, <3>4
    <3> HIDE DEF e, h2, all
    <3>6. Len(h2[s.arr]) = Len(h[s.arr])
      BY <1>4, <3>2 DEF Grown
    <3>7. ASSUME NEW i \in 1..(s.len + Len(new))
          PROVE  h2[s.arr][s.off + i] = all[i]
      <4>1. s.off + i \in 1..Len(h[s.arr])
        BY <1>1, <1>2, <3>1, <3>2
      <4>2. h2[s.arr][s.off + i] = IF i - s.len \in 1..Len(new)
                                   THEN new[i - s.len] ELSE h[s.arr][s.off + i]
        <5> DEFINE c == s.off + i
        <5>1. c - s.off - s.len = i - s.len
          BY <1>1
        <5>2. c \in 1..Len(h[s.arr])
          BY <4>1
        <5> HIDE DEF c
        <5>3. h2[s.arr][c] = IF s.arr = s.arr /\ c - s.off - s.len \in 1..Len(new)
                             THEN new[c - s.off - s.len] ELSE h[s.arr][c]
          BY <3>1, <3>2, <5>2, Zenon
        <5>4. h2[s.arr][c] = IF i - s.len \in 1..Len(new) THEN new[i - s.len] ELSE h[s.arr][c]
          BY <5>1, <5>3
        <5> QED
          BY <5>4 DEF c
      <4>3. CASE i <= s.len
        <5>1. i \in 1..s.len /\ ~(i - s.len \in 1..Len(new))
          BY <1>1, <1>2, <4>3
        <5>2. CellsIn(h, s)[i] = h[s.arr][s.off + i]
          BY <1>1, <5>1
        <5>3. all[i] = CellsIn(h, s)[i]
          BY <1>3, <4>3
        <5> QED
          BY <4>2, <5>1, <5>2, <5>3
      <4>4. CASE i > s.len
        <5>1. i - s.len \in 1..Len(new)
          BY <1>1, <1>2, <4>4
        <5>2. ~(i <= s.len)
          BY <1>1, <1>2, <4>4
        <5> QED
          BY <1>3, <4>2, <5>1, <5>2
      <4> QED
        BY <1>1, <1>2, <4>3, <4>4
    <3>8. e.arr # 0
      BY <3>2, <3>5
    <3> QED
      BY <1>1, <1>2, <2>1, <3>1, <3>2, <3>5, <3>6, <3>7, <3>8, NilFields
  <2>2. CASE ~Fits(h, s, new)
    <3>1. /\ Len(h2) = Len(h) + 1
          /\ s.len + Len(new) <= Len(h2[Len(h) + 1])
          /\ \A i \in 1..(s.len + Len(new)) : h2[Len(h) + 1][i] = all[i]
      BY <2>2, ExtendedElsewhere
    <3>2. e = [arr |-> Len(h) + 1, off |-> 0, len |-> s.len + Len(new)]
      BY <2>2 DEF ExtendedIn, Fits
    <3> HIDE DEF e, h2, all
    <3>3. s.len + Len(new) \in 0..MaxMessages /\ Len(h) + 1 \in 1..Len(h2)
      BY <1>1, <1>2, <3>1, MessagesAssumption
    <3>4. /\ e \in [arr : 1..Len(h2), off : Nat, len : 0..MaxMessages]
          /\ e.arr = Len(h) + 1 /\ e.off = 0 /\ e.len = s.len + Len(new)
      BY <3>2, <3>3
    <3>5. e # Nil
      BY <1>2, <3>4, NilFields
    <3>6. \A i \in 1..e.len : e.off + i = i
      BY <3>4
    <3> QED
      BY <1>1, <1>2, <2>2, <3>1, <3>4, <3>5, <3>6
  <2> QED
    BY <2>1, <2>2
<1> HIDE DEF e, h2, all
<1>6. e.off \in Nat /\ e.len \in Nat
  BY <1>1, <1>2, <1>5
<1>7. \A i \in (e.off + 1)..(e.off + e.len) : h2[e.arr][i] # 0
  <2> SUFFICES ASSUME NEW i \in (e.off + 1)..(e.off + e.len) PROVE h2[e.arr][i] # 0
    OBVIOUS
  <2> DEFINE j == i - e.off
  <2>1. j \in 1..e.len /\ e.off + j = i
    BY <1>6
  <2>2. all[j] \in Turn
    <3>1. \A n \in 1..Len(all) : all[n] \in Turn
      BY <1>3
    <3> QED
      BY <1>3, <1>5, <2>1, <3>1
  <2>3. h2[e.arr][e.off + j] = all[j]
    BY <1>5, <2>1
  <2> HIDE DEF j
  <2> QED
    BY <2>1, <2>2, <2>3 DEF Turn
<1>8. e \in SliceIn(h2)
  BY <1>5, <1>7 DEF SliceIn
<1>9. CellsIn(h2, e) = all
  <2>1. /\ CellsIn(h2, e) \in Seq(Turn) /\ Len(CellsIn(h2, e)) = e.len
        /\ \A i \in 1..e.len : CellsIn(h2, e)[i] = h2[e.arr][e.off + i]
    BY <1>4, <1>8, CellsProperties
  <2>2. \A i \in 1..e.len : CellsIn(h2, e)[i] = all[i]
    BY <1>5, <2>1
  <2> HIDE DEF Turn
  <2> QED
    BY <1>3, <1>5, <2>1, <2>2, SeqEqual
<1> QED
  BY <1>4, <1>5, <1>8, <1>9 DEF e, h2, all

-----------------------------------------------------------------------------
(* Types *)

\* The turns appended so far, by the pump and by the goroutines of answers.
PumpAppends   == IF wpc[Pump] \in {"get", "append"} THEN said - 1 ELSE said
AnswerAppends == {w \in Answers : wpc[w] \in {"save", "done"}}
Appends       == PumpAppends + Cardinality(AnswerAppends)

\* No slice is longer than what was appended, although slices are made of others.
Bounded ==
  /\ store.short.len <= Appends
  /\ \A w \in Writers : wctx[w].short.len <= Appends /\ wnew[w].len <= Appends
  /\ \A k \in Summarizers :
       /\ sctx[k].short.len <= Appends
       /\ sfresh[k].short.len <= Appends
       /\ recent[k].len <= Appends

\* The pump makes no prompt, and writes what was said.
PumpWrites ==
  /\ wpc[Pump] \in {"idle", "get", "append", "save"}
  /\ wpc[Pump] # "idle" => said > 0

\* recentMessages is the end of what CreateSummary read, and not all of it.
IsSplit(k) ==
  /\ recent[k].arr = sctx[k].short.arr
  /\ recent[k].len \in 1..(sctx[k].short.len - 1)
  /\ recent[k].off + recent[k].len = sctx[k].short.off + sctx[k].short.len

Splits ==
  \A k \in Summarizers :
    /\ spc[k] \in {"summarize", "reload", "compare", "merge"} => IsSplit(k)
    /\ spc[k] = "save" => recent[k].len > 0

\* The inductive invariant behind TypeOK.
Typed == TypeOK /\ Bounded /\ PumpWrites /\ Splits

LEMMA Constants ==
  /\ MaxMessages \in Nat /\ MaxUtterances \in 0..MaxMessages /\ MaxFaults \in Nat
  /\ Pump \in Writers /\ Pump \notin Answers
  /\ Answers \subseteq Writers /\ Answers \subseteq Turn
  /\ \A w \in Writers : w = Pump \/ w \in Answers
  /\ 1..MaxUtterances \subseteq Turn
BY MessagesAssumption, LocalAssumption DEF Pump, Writers, Answers, Turn

LEMMA ContextFields ==
  ASSUME NEW c \in Context
  PROVE  /\ c.version \in Nat \ {0}
         /\ c.long \in Seq(Turn)
         /\ c.short \in Slice
         /\ c.current \in {0} \cup Turn
BY DEF Context

LEMMA EmptyContext ==
  /\ Empty \in Context
  /\ Empty.version = 1 /\ Empty.long = <<>> /\ Empty.short = Nil /\ Empty.current = 0
<1>1. <<>> \in Seq(Turn) /\ Nil \in Slice
  BY DEF Slice
<1> QED
  BY <1>1 DEF Empty, Context

LEMMA AttachedContext ==
  ASSUME NEW c \in Context, turn \in {0} \cup Turn
  PROVE  /\ Attached(c) \in Context
         /\ Attached(c).version = c.version
         /\ Attached(c).long = c.long
         /\ Attached(c).short = c.short
         /\ Attached(c).current = IF turn = 0 THEN c.current ELSE turn
BY DEF Attached, Context

LEMMA DetachedContext ==
  ASSUME NEW c \in Context
  PROVE  LET d == [c EXCEPT !.current = 0]
         IN  /\ d \in Context
             /\ d.version = c.version
             /\ d.long = c.long
             /\ d.short = c.short
             /\ d.current = 0
BY DEF Context

\* AddMessage's context.
LEMMA AppendedContext ==
  ASSUME NEW c \in Context, NEW s \in Slice
  PROVE  LET d == [c EXCEPT !.short = s]
         IN  /\ d \in Context
             /\ d.version = c.version
             /\ d.long = c.long
             /\ d.short = s
             /\ d.current = c.current
BY DEF Context

\* CreateSummary's context.
Summarized(c, text, s) == [c EXCEPT !.version = @ + 1, !.long = text, !.short = s]

LEMMA SummarizedContext ==
  ASSUME NEW c \in Context, NEW text \in Seq(Turn), NEW s \in Slice
  PROVE  /\ Summarized(c, text, s) \in Context
         /\ Summarized(c, text, s).version = c.version + 1
         /\ Summarized(c, text, s).long = text
         /\ Summarized(c, text, s).short = s
         /\ Summarized(c, text, s).current = c.current
<1>1. c.version + 1 \in Nat \ {0}
  BY DEF Context
<1> QED
  BY <1>1 DEF Context, Summarized

LEMMA SameHeap ==
  ASSUME heap' = heap
  PROVE  Slice' = Slice /\ Context' = Context
BY DEF Slice, Context

LEMMA GrownHeap ==
  ASSUME heap \in Seq(Array), Grown(heap, heap')
  PROVE  Slice \subseteq Slice' /\ Context \subseteq Context'
<1>1. Slice \subseteq Slice'
  <2>1. Slice = SliceIn(heap) /\ Slice' = SliceIn(heap')
    BY DEF Slice, SliceIn
  <2> QED
    BY <2>1, GrownKeepsSlices
<1> QED
  BY <1>1 DEF Context

LEMMA TypedInit == Init => Typed
<1> SUFFICES ASSUME Init PROVE Typed
  OBVIOUS
<1>1. /\ heap = <<>> /\ store = Empty /\ turn = 0 /\ said = 0
      /\ wpc = [w \in Writers |-> "idle"]
      /\ wctx = [w \in Writers |-> Empty]
      /\ wnew = [w \in Writers |-> Nil]
      /\ spc = [k \in Summarizers |-> "idle"]
      /\ sctx = [k \in Summarizers |-> Empty]
      /\ summary = [k \in Summarizers |-> <<>>]
      /\ sfresh = [k \in Summarizers |-> Empty]
      /\ recent = [k \in Summarizers |-> Nil]
  BY DEF Init
<1>2. <<>> \in Seq(Turn) /\ <<>> \in Seq(Array) /\ Nil \in Slice
  BY DEF Slice
<1>3. TypeOK
  <2>1. summary \in [Summarizers -> Seq(Turn)]
    BY <1>1, <1>2, Zenon
  <2>2. 0 \in 0..MaxUtterances /\ 0 \in 0..MaxFaults
    BY Constants
  <2> QED
    BY <1>1, <1>2, <2>1, <2>2, EmptyContext DEF Init, TypeOK, WriterPCs, SummarizerPCs
<1>4. Appends = 0
  <2>1. AnswerAppends = {}
    BY <1>1, Constants DEF AnswerAppends
  <2>2. PumpAppends = 0
    BY <1>1, Constants DEF PumpAppends
  <2> QED
    BY <2>1, <2>2, FS_EmptySet DEF Appends
<1>5. Bounded
  BY <1>1, <1>4, EmptyContext, NilFields DEF Bounded
<1>6. PumpWrites /\ Splits
  BY <1>1, Constants DEF PumpWrites, Splits
<1> QED
  BY <1>3, <1>5, <1>6 DEF Typed

LEMMA AppendsBounded ==
  said \in 0..MaxUtterances /\ PumpWrites => Appends \in Nat /\ Appends <= MaxMessages
<1> SUFFICES ASSUME said \in 0..MaxUtterances, PumpWrites
             PROVE  Appends \in Nat /\ Appends <= MaxMessages
  OBVIOUS
<1>1. IsFiniteSet(Answers) /\ Cardinality(Answers) = MaxMessages - MaxUtterances
  <2>1. MaxUtterances + 1 \in Int /\ MaxMessages \in Int
    BY Constants
  <2>2. /\ IsFiniteSet(Answers)
        /\ Cardinality(Answers) = IF MaxUtterances + 1 > MaxMessages THEN 0
                                  ELSE MaxMessages - (MaxUtterances + 1) + 1
    BY <2>1, FS_Interval DEF Answers
  <2> QED
    BY <2>2, Constants
<1>2. AnswerAppends \in SUBSET Answers
  BY DEF AnswerAppends
<1>3. Cardinality(AnswerAppends) \in Nat /\ Cardinality(AnswerAppends) <= Cardinality(Answers)
  BY <1>1, <1>2, FS_Subset, FS_CardinalityType
<1>4. PumpAppends \in 0..MaxUtterances
  BY Constants DEF PumpWrites, PumpAppends
<1> QED
  BY <1>1, <1>3, <1>4, Constants DEF Appends

LEMMA AppendsGrow ==
  ASSUME TypeOK, AnswerAppends \subseteq AnswerAppends',
         said' \in Nat, PumpAppends <= PumpAppends'
  PROVE  /\ Appends' \in Int /\ Appends <= Appends'
         /\ AnswerAppends # AnswerAppends' \/ PumpAppends < PumpAppends'
              => Appends + 1 <= Appends'
<1>1. IsFiniteSet(Answers)
  BY Constants, FS_Interval DEF Answers
<1>2. AnswerAppends' \in SUBSET Answers
  BY DEF AnswerAppends
<1>3. IsFiniteSet(AnswerAppends') /\ Cardinality(AnswerAppends') \in Nat
  BY <1>1, <1>2, FS_Subset, FS_CardinalityType
<1>4. /\ Cardinality(AnswerAppends) <= Cardinality(AnswerAppends')
      /\ Cardinality(AnswerAppends) \in Nat
      /\ Cardinality(AnswerAppends) = Cardinality(AnswerAppends')
           => AnswerAppends' = AnswerAppends
  BY <1>3, FS_Subset, FS_CardinalityType
<1>5. PumpAppends \in Int /\ PumpAppends' \in Int
  BY Constants DEF TypeOK, PumpAppends
<1> QED
  BY <1>3, <1>4, <1>5 DEF Appends


\* The step of a writer that appends nothing, and of those that do.
LEMMA WriterAppends ==
  ASSUME TypeOK, PumpWrites, NEW w \in Writers, NEW here, NEW there,
         GoesTo(w, here, there), there \in WriterPCs,
         here \in {"save", "done"} => there \in {"save", "done"} \/ w = Pump,
         w = Pump => \/ here = "idle" /\ there = "get" /\ said' = said + 1
                     \/ here = "get" /\ there = "append" /\ said' = said
                     \/ here = "append" /\ there = "save" /\ said' = said
                     \/ here = "save" /\ there = "idle" /\ said' = said,
         w # Pump => said' = said
  PROVE  /\ Appends' \in Int /\ Appends <= Appends'
         /\ here = "append" /\ there = "save" => Appends + 1 <= Appends'
<1>1. /\ wpc \in [Writers -> WriterPCs] /\ wpc[w] = here /\ wpc' = [wpc EXCEPT ![w] = there]
      /\ said \in Nat
  BY Constants DEF TypeOK, GoesTo
<1>2. wpc'[w] = there /\ \A v \in Writers \ {w} : wpc'[v] = wpc[v]
  BY <1>1
<1>3. said' \in Nat
  BY <1>1
<1>4. AnswerAppends \subseteq AnswerAppends'
  BY <1>1, <1>2, Constants DEF AnswerAppends
<1>5. PumpAppends <= PumpAppends'
  <2>1. CASE w = Pump
    BY <1>1, <1>2, <2>1 DEF PumpAppends
  <2>2. CASE w # Pump
    <3>1. wpc'[Pump] = wpc[Pump] /\ said' = said
      BY <1>2, <2>2, Constants
    <3> QED
      BY <1>1, <3>1 DEF PumpAppends
  <2> QED
    BY <2>1, <2>2
<1>6. ASSUME here = "append", there = "save"
      PROVE  AnswerAppends # AnswerAppends' \/ PumpAppends < PumpAppends'
  <2>1. CASE w = Pump
    BY <1>1, <1>2, <1>6, <2>1 DEF PumpAppends
  <2>2. CASE w # Pump
    <3>1. w \in AnswerAppends' /\ w \notin AnswerAppends
      BY <1>1, <1>2, <1>6, <2>2, Constants DEF AnswerAppends
    <3> QED
      BY <3>1
  <2> QED
    BY <2>1, <2>2
<1> QED
  BY <1>3, <1>4, <1>5, <1>6, AppendsGrow

LEMMA AppendsSame ==
  ASSUME wpc' = wpc, said' = said
  PROVE  Appends' = Appends
BY DEF Appends, PumpAppends, AnswerAppends

\* append, in the arrays of the program.
LEMMA AppendType ==
  ASSUME heap \in Seq(Array), NEW s \in Slice, NEW new \in Seq(Turn),
         new # <<>>, s.len + Len(new) <= MaxMessages, heap' = HeapExtended(s, new)
  PROVE  /\ Grown(heap, heap')
         /\ Extended(s, new) \in Slice'
         /\ Extended(s, new).len = s.len + Len(new)
         /\ Extended(s, new).len \in 0..MaxMessages
<1>1. s \in SliceIn(heap) /\ heap' = HeapExtendedIn(heap, s, new)
      /\ Extended(s, new) = ExtendedIn(heap, s, new)
  BY Unfolded
<1>2. /\ Grown(heap, heap')
      /\ Extended(s, new) \in SliceIn(heap')
      /\ Extended(s, new).len = s.len + Len(new)
  BY <1>1, ExtendedCells
<1>3. Slice' = SliceIn(heap')
  BY DEF Slice, SliceIn
<1>4. heap' \in Seq(Array)
  BY <1>2 DEF Grown
<1> QED
  BY <1>2, <1>3, <1>4, CellsProperties

LEMMA SliceType ==
  ASSUME heap \in Seq(Array), NEW s \in Slice
  PROVE  /\ s.arr \in 0..Len(heap) /\ s.off \in Nat /\ s.len \in 0..MaxMessages
         /\ s.len \in Nat
         /\ Turns(s) \in Seq(Turn) /\ Len(Turns(s)) = s.len
         /\ Capacity(s) \in Nat /\ s.len <= Capacity(s)
BY Unfolded, CellsProperties, CapacityType, MessagesAssumption

LEMMA TypedDetails ==
  ASSUME Typed
  PROVE  /\ heap \in Seq(Array)
         /\ store \in Context /\ store.short \in Slice /\ store.long \in Seq(Turn)
         /\ turn \in {0} \cup Turn /\ said \in Nat
         /\ wpc \in [Writers -> WriterPCs] /\ wctx \in [Writers -> Context]
         /\ wnew \in [Writers -> Slice]
         /\ spc \in [Summarizers -> SummarizerPCs] /\ sctx \in [Summarizers -> Context]
         /\ summary \in [Summarizers -> Seq(Turn)]
         /\ sfresh \in [Summarizers -> Context] /\ recent \in [Summarizers -> Slice]
         /\ \A w \in Writers : wctx[w] \in Context /\ wctx[w].short \in Slice /\ wnew[w] \in Slice
         /\ \A k \in Summarizers : /\ sctx[k] \in Context /\ sctx[k].short \in Slice
                                   /\ sfresh[k] \in Context /\ sfresh[k].short \in Slice
                                   /\ recent[k] \in Slice /\ summary[k] \in Seq(Turn)
<1>1. turn \in {0} \cup Turn /\ said \in Nat
  BY Constants DEF Typed, TypeOK
<1> QED
  BY <1>1, ContextFields DEF Typed, TypeOK

\* The writers' steps that leave the arrays alone.
LEMMA TypedWriterReads ==
  ASSUME Typed, NEW w \in Writers,
         (w \in Answers /\ Ask(w)) \/ Attach(w) \/ Answered(w) \/ Get(w)
  PROVE  Typed'
<1> USE DEF WriterPCs
<1>1. Slice' = Slice /\ Context' = Context
  BY SameHeap DEF Ask, Attach, Answered, Get, memoryVars
<1>2. PICK here \in WriterPCs, there \in WriterPCs :
        /\ GoesTo(w, here, there)
        /\ here \notin {"save", "done"}
        /\ w = Pump => here = "get" /\ there = "append"
  BY Constants DEF Ask, Attach, Answered, Get, GoesTo, Typed, PumpWrites
<1>3. said' = said
  BY DEF Ask, Attach, Answered, Get
<1>4. Appends <= Appends' /\ Appends \in Nat /\ Appends' \in Int
  BY <1>2, <1>3, WriterAppends, AppendsBounded DEF Typed, TypeOK
<1>5. PICK c \in Context : wctx' = [wctx EXCEPT ![w] = c] /\ c.short.len <= Appends
  <2>1. CASE Ask(w)
    BY <2>1 DEF Ask, Typed, TypeOK, Bounded
  <2>2. CASE Attach(w)
    <3>1. Attached(wctx[w]) \in Context /\ Attached(wctx[w]).short = wctx[w].short
      BY TypedDetails, AttachedContext
    <3>2. wctx' = [wctx EXCEPT ![w] = Attached(wctx[w])]
      BY <2>2 DEF Attach
    <3> QED
      BY <3>1, <3>2, Zenon DEF Typed, Bounded
  <2>3. CASE Answered(w)
    <3>1. Empty \in Context /\ Empty.short.len <= Appends
      BY <1>4, EmptyContext, NilFields
    <3> QED
      BY <2>3, <3>1, Zenon DEF Answered
  <2>4. CASE Get(w)
    <3> DEFINE c == [store EXCEPT !.current = 0]
    <3>1. c \in Context /\ c.short = store.short
      BY TypedDetails, DetachedContext
    <3>2. wctx' = [wctx EXCEPT ![w] = c]
      BY <2>4 DEF Get
    <3> HIDE DEF c
    <3> QED
      BY <3>1, <3>2, Zenon DEF Typed, Bounded
  <2> QED
    BY <2>1, <2>2, <2>3, <2>4
<1>6. UNCHANGED <<heap, store, turn, said, closed, wnew, pending, spc, sctx, summary,
                  sfresh, recent, faults, damaged>>
  BY DEF Ask, Attach, Answered, Get, memoryVars, summarizerVars
<1>7. wpc' = [wpc EXCEPT ![w] = there]
  BY <1>2 DEF GoesTo
<1>8. TypeOK'
  BY <1>1, <1>5, <1>6, <1>7 DEF Typed, TypeOK
<1>9. PumpWrites'
  <2>1. CASE w = Pump
    BY <1>2, <1>6, <1>7, <2>1, Constants DEF Typed, TypeOK, PumpWrites, GoesTo
  <2>2. CASE w # Pump
    <3>1. wpc'[Pump] = wpc[Pump]
      BY <1>7, <2>2, Constants DEF Typed, TypeOK
    <3> QED
      BY <1>6, <3>1 DEF Typed, PumpWrites
  <2> QED
    BY <2>1, <2>2
<1>11. Bounded'
  <2>1. \A n \in Nat : n <= Appends => n <= Appends'
    BY <1>4
  <2>2. /\ store.short.len \in Nat
        /\ \A v \in Writers : wctx[v].short.len \in Nat /\ wnew[v].len \in Nat
        /\ \A k \in Summarizers : /\ sctx[k].short.len \in Nat
                                  /\ sfresh[k].short.len \in Nat /\ recent[k].len \in Nat
    BY TypedDetails, SliceType
  <2>3. c.short.len \in Nat
    BY TypedDetails, SliceType, ContextFields
  <2>4. \A v \in Writers : wctx'[v] = IF v = w THEN c ELSE wctx[v]
    BY <1>5, TypedDetails
  <2> QED
    BY <1>5, <1>6, <2>1, <2>2, <2>3, <2>4 DEF Typed, Bounded
<1>12. Splits'
  BY <1>6 DEF Typed, Splits, IsSplit
<1> QED
  BY <1>8, <1>9, <1>11, <1>12 DEF Typed

LEMMA Lengths ==
  ASSUME Typed
  PROVE  /\ Appends \in Nat /\ Appends <= MaxMessages
         /\ store.short.len \in 0..Appends
         /\ \A w \in Writers : wctx[w].short.len \in 0..Appends /\ wnew[w].len \in 0..Appends
         /\ \A k \in Summarizers : /\ sctx[k].short.len \in 0..Appends
                                   /\ sfresh[k].short.len \in 0..Appends
                                   /\ recent[k].len \in 0..Appends
<1>1. Appends \in Nat /\ Appends <= MaxMessages
  BY AppendsBounded DEF Typed, TypeOK
<1>2. \A s \in Slice : s.len \in Nat
  BY TypedDetails, SliceType
<1> QED
  BY <1>1, <1>2, TypedDetails DEF Typed, Bounded

LEMMA AddedType ==
  ASSUME Typed, NEW w \in Writers, wpc[w] = "append"
  PROVE  Added(w) \in Seq(Turn) /\ Len(Added(w)) = 1 /\ Added(w) # <<>>
<1>1. (IF w = Pump THEN said ELSE w) \in Turn
  <2>1. CASE w = Pump
    <3>1. said \in 1..MaxUtterances
      BY <2>1 DEF Typed, TypeOK, PumpWrites
    <3> QED
      BY <2>1, <3>1, Constants
  <2>2. CASE w # Pump
    BY <2>2, Constants
  <2> QED
    BY <2>1, <2>2
<1> QED
  BY <1>1 DEF Added

LEMMA TypedAppendTurn ==
  ASSUME Typed, NEW w \in Writers, AppendTurn(w)
  PROVE  Typed' /\ Grown(heap, heap')
<1> DEFINE s == wctx[w].short
           new == Added(w)
           e == Extended(s, new)
<1>1. GoesTo(w, "append", "save") /\ heap' = HeapExtended(s, new) /\ wnew' = [wnew EXCEPT ![w] = e]
      /\ damaged' = (damaged \/ ~IsStored(wctx[w]))
      /\ UNCHANGED <<store, turn, said, closed, wctx, pending, spc, sctx, summary, sfresh, recent, faults>>
  BY DEF AppendTurn, summarizerVars
<1>2. wpc[w] = "append" /\ wpc' = [wpc EXCEPT ![w] = "save"]
  BY <1>1 DEF GoesTo
<1>3. Appends' \in Int /\ Appends + 1 <= Appends'
  BY <1>1, WriterAppends DEF Typed, WriterPCs
<1>4. s \in Slice /\ s.len \in 0..Appends /\ Appends \in Nat
  BY TypedDetails, Lengths
<1>5. new \in Seq(Turn) /\ Len(new) = 1 /\ new # <<>>
  BY <1>2, AddedType
<1>6. PumpWrites'
  <2>1. wpc'[Pump] = IF w = Pump THEN "save" ELSE wpc[Pump]
    BY <1>2, TypedDetails, Constants
  <2>2. w = Pump => said > 0
    BY <1>2 DEF Typed, PumpWrites
  <2> QED
    BY <1>1, <2>1, <2>2 DEF Typed, PumpWrites
<1>7. Appends' <= MaxMessages
  <2>1. (said \in 0..MaxUtterances)'
    BY <1>1 DEF Typed, TypeOK
  <2>2. (said \in 0..MaxUtterances /\ PumpWrites => Appends \in Nat /\ Appends <= MaxMessages)'
    BY AppendsBounded, PTL
  <2> QED
    BY <1>6, <2>1, <2>2
<1> HIDE DEF s, new, e
<1>8. s.len + Len(new) <= MaxMessages
  BY <1>3, <1>4, <1>5, <1>7, Constants
<1>9. Grown(heap, heap') /\ e \in Slice' /\ e.len = s.len + Len(new)
  BY <1>1, <1>4, <1>5, <1>8, TypedDetails, AppendType DEF s, new, e
<1>10. heap' \in Seq(Array) /\ Slice \subseteq Slice' /\ Context \subseteq Context'
  BY <1>9, TypedDetails, GrownHeap DEF Grown
<1>11. wpc' \in [Writers -> WriterPCs]
  BY <1>2, TypedDetails DEF WriterPCs
<1>12. TypeOK'
  <2>1. wnew' \in [Writers -> Slice']
    BY <1>1, <1>9, <1>10, TypedDetails
  <2>2. wctx' \in [Writers -> Context'] /\ sctx' \in [Summarizers -> Context']
        /\ sfresh' \in [Summarizers -> Context'] /\ recent' \in [Summarizers -> Slice']
    BY <1>1, <1>10, TypedDetails
  <2>3. damaged' \in BOOLEAN
    BY <1>1 DEF Typed, TypeOK
  <2> QED
    BY <1>1, <1>10, <1>11, <2>1, <2>2, <2>3, Zenon DEF Typed, TypeOK
<1>13. Bounded'
  <2>1. \A n \in 0..Appends : n <= Appends'
    BY <1>3, <1>4
  <2>2. e.len <= Appends'
    BY <1>3, <1>4, <1>5, <1>9
  <2>3. \A v \in Writers : wnew'[v] = IF v = w THEN e ELSE wnew[v]
    BY <1>1, TypedDetails
  <2> QED
    BY <1>1, <2>1, <2>2, <2>3, Lengths DEF Bounded
<1>14. Splits'
  BY <1>1 DEF Typed, Splits, IsSplit
<1> QED
  BY <1>6, <1>9, <1>12, <1>13, <1>14 DEF Typed

LEMMA GrownReflexive ==
  ASSUME heap \in Seq(Array), heap' = heap
  PROVE  Grown(heap, heap')
<1>1. Len(heap) \in Nat
  OBVIOUS
<1> QED
  BY <1>1 DEF Grown

LEMMA TypedSaveTurn ==
  ASSUME Typed, NEW w \in Writers, SaveTurn(w)
  PROVE  Typed'
<1> DEFINE c == [wctx[w] EXCEPT !.short = wnew[w]]
           next == IF w = Pump THEN "idle" ELSE "done"
<1>1. /\ GoesTo(w, "save", next)
      /\ store' = c
      /\ damaged' = (damaged \/ ~IsStored(wctx[w]))
      /\ pending' = pending + IF OverLimit(store') THEN 1 ELSE 0
      /\ wctx' = [wctx EXCEPT ![w] = Empty]
      /\ wnew' = [wnew EXCEPT ![w] = Nil]
      /\ UNCHANGED <<heap, turn, said, closed, spc, sctx, summary, sfresh, recent, faults>>
  BY DEF SaveTurn, summarizerVars
<1>2. c \in Context /\ c.short = wnew[w]
  BY TypedDetails, AppendedContext
<1>3. Slice' = Slice /\ Context' = Context
  BY <1>1, SameHeap
<1>4. next \in WriterPCs /\ wpc[w] = "save" /\ wpc' = [wpc EXCEPT ![w] = next]
  BY <1>1 DEF GoesTo, WriterPCs
<1>5. Appends' \in Int /\ Appends <= Appends'
  BY <1>1, <1>4, WriterAppends DEF Typed
<1>6. Nil \in Slice /\ Nil.len = 0 /\ Empty \in Context /\ Empty.short = Nil
  BY EmptyContext, NilFields, ContextFields
<1> HIDE DEF c
<1>7. TypeOK'
  <2>1. pending' \in Nat
    BY <1>1 DEF Typed, TypeOK
  <2>2. damaged' \in BOOLEAN
    BY <1>1 DEF Typed, TypeOK
  <2>3. wpc' \in [Writers -> WriterPCs]
    BY <1>4, TypedDetails
  <2>4. wctx' \in [Writers -> Context] /\ wnew' \in [Writers -> Slice]
    BY <1>1, <1>6, TypedDetails
  <2> QED
    BY <1>1, <1>2, <1>3, <2>1, <2>2, <2>3, <2>4, Zenon DEF Typed, TypeOK
<1>8. PumpWrites'
  <2>1. wpc'[Pump] = IF w = Pump THEN next ELSE wpc[Pump]
    BY <1>4, TypedDetails, Constants
  <2> QED
    BY <1>1, <2>1 DEF Typed, PumpWrites
<1>9. Bounded'
  <2>1. \A n \in 0..Appends : n <= Appends'
    BY <1>5, Lengths
  <2>2. \A v \in Writers : /\ wctx'[v] = IF v = w THEN Empty ELSE wctx[v]
                           /\ wnew'[v] = IF v = w THEN Nil ELSE wnew[v]
    BY <1>1, TypedDetails
  <2>3. 0 \in 0..Appends
    BY Lengths
  <2> QED
    BY <1>1, <1>2, <1>6, <2>1, <2>2, <2>3, Lengths DEF Bounded
<1>10. Splits'
  BY <1>1 DEF Typed, Splits, IsSplit
<1> QED
  BY <1>7, <1>8, <1>9, <1>10 DEF Typed

LEMMA TypedConnection ==
  ASSUME Typed, PartialTranscript \/ FinalTranscript \/ DeleteSession \/ NothingToSummarize
  PROVE  Typed'
<1>1. /\ UNCHANGED <<heap, wctx, wnew, spc, sctx, summary, sfresh, recent, faults, damaged>>
      /\ store' = store \/ store' = Empty
  BY DEF PartialTranscript, FinalTranscript, DeleteSession, NothingToSummarize, SummarizerUnchanged,
         memoryVars, writerVars, summarizerVars
<1>2. Slice' = Slice /\ Context' = Context
  BY <1>1, SameHeap
<1>3. /\ turn' \in {0} \cup 1..MaxUtterances /\ said' \in 0..MaxUtterances
      /\ closed' \in BOOLEAN /\ pending' \in Nat
  <2> USE Constants DEF Typed, TypeOK
  <2>1. CASE PartialTranscript
    BY <2>1 DEF PartialTranscript
  <2>2. CASE FinalTranscript
    BY <2>2 DEF FinalTranscript
  <2>3. CASE DeleteSession
    BY <2>3 DEF DeleteSession
  <2>4. CASE NothingToSummarize
    BY <2>4 DEF NothingToSummarize, SummarizerUnchanged
  <2> QED
    BY <2>1, <2>2, <2>3, <2>4
<1>4. \/ wpc' = wpc /\ said' = said
      \/ GoesTo(Pump, "idle", "get") /\ said' = said + 1
  BY DEF PartialTranscript, FinalTranscript, DeleteSession, NothingToSummarize, SummarizerUnchanged, writerVars
<1>5. Appends' \in Int /\ Appends <= Appends'
  <2>1. CASE wpc' = wpc /\ said' = said
    BY <2>1, AppendsSame, Lengths
  <2>2. CASE GoesTo(Pump, "idle", "get") /\ said' = said + 1
    BY <2>2, WriterAppends, Constants DEF Typed, WriterPCs
  <2> QED
    BY <1>4, <2>1, <2>2
<1>6. wpc' \in [Writers -> WriterPCs] /\ PumpWrites'
  <2>1. CASE wpc' = wpc /\ said' = said
    BY <2>1 DEF Typed, TypeOK, PumpWrites
  <2>2. CASE GoesTo(Pump, "idle", "get") /\ said' = said + 1
    <3>1. wpc' = [wpc EXCEPT ![Pump] = "get"]
      BY <2>2 DEF GoesTo
    <3> QED
      BY <2>2, <3>1, TypedDetails, Constants DEF PumpWrites, WriterPCs
  <2> QED
    BY <1>4, <2>1, <2>2
<1>7. Empty \in Context /\ Empty.short.len = 0
  BY EmptyContext, NilFields
<1>8. TypeOK'
  BY <1>1, <1>2, <1>3, <1>6, <1>7, Zenon DEF Typed, TypeOK
<1>9. Bounded'
  <2>1. \A n \in 0..Appends : n <= Appends'
    BY <1>5, Lengths
  <2>2. 0 \in 0..Appends
    BY Lengths
  <2> QED
    BY <1>1, <1>7, <2>1, <2>2, Lengths DEF Bounded
<1>10. Splits'
  BY <1>1 DEF Typed, Splits, IsSplit
<1> QED
  BY <1>6, <1>8, <1>9, <1>10 DEF Typed

\* The last turns of a slice.
Suffix(s, n) == [s EXCEPT !.off = @ + n, !.len = @ - n]

LEMMA SuffixType ==
  ASSUME NEW h \in Seq(Array), NEW s \in SliceIn(h), NEW n \in 1..(s.len - 1)
  PROVE  LET e == Suffix(s, n)
         IN  e \in SliceIn(h) /\ e.arr = s.arr /\ e.off = s.off + n /\ e.len = s.len - n
<1> DEFINE e == Suffix(s, n)
<1>1. s # Nil
  BY NilFields
<1>2. /\ s \in [arr : 1..Len(h), off : Nat, len : 0..MaxMessages]
      /\ s.off + s.len <= Len(h[s.arr])
      /\ \A i \in (s.off + 1)..(s.off + s.len) : h[s.arr][i] # 0
      /\ Len(h[s.arr]) \in Nat
      /\ s.off \in Nat /\ s.len \in Nat /\ s.len <= MaxMessages /\ s.arr \in 1..Len(h)
  BY <1>1, SliceRange, MessagesAssumption DEF SliceIn
<1>3. /\ e.arr = s.arr /\ e.off = s.off + n /\ e.len = s.len - n
      /\ e \in [arr : 1..Len(h), off : Nat, len : 0..MaxMessages]
  <2>1. s.off + n \in Nat /\ s.len - n \in 0..MaxMessages
    BY <1>2, MessagesAssumption
  <2> QED
    BY <1>2, <2>1 DEF Suffix
<1> HIDE DEF e
<1>4. e.off + e.len = s.off + s.len /\ e.off >= s.off /\ e.off \in Nat /\ e.len \in Nat
  <2>1. n \in Nat /\ n < s.len
    BY <1>2
  <2>2. e.arr = s.arr /\ e.off = s.off + n /\ e.len = s.len - n
    BY <1>3
  <2>3. s.off \in Nat /\ s.len \in Nat
    BY <1>2
  <2> QED
    BY <2>1, <2>2, <2>3
<1>5. e \in SliceIn(h)
  <2>1. ASSUME NEW i \in (e.off + 1)..(e.off + e.len) PROVE h[e.arr][i] # 0
    <3>1. s.off \in Nat /\ s.len \in Nat
      BY <1>2
    <3>2. i \in (s.off + 1)..(s.off + s.len)
      BY <1>4, <3>1
    <3> QED
      BY <1>2, <1>3, <3>2
  <2>2. e.off + e.len <= Len(h[e.arr])
    BY <1>2, <1>3, <1>4
  <2> QED
    BY <1>3, <2>1, <2>2 DEF SliceIn
<1> QED
  BY <1>3, <1>5 DEF e

\* A slice is what its suffix leaves and its suffix.
LEMMA SuffixCells ==
  ASSUME NEW h \in Seq(Array), NEW s \in SliceIn(h), NEW e \in SliceIn(h),
         e.arr = s.arr, e.len \in 1..(s.len - 1), e.off + e.len = s.off + s.len
  PROVE  /\ CellsIn(h, s) = SubSeq(CellsIn(h, s), 1, s.len - e.len) \o CellsIn(h, e)
         /\ SubSeq(CellsIn(h, s), 1, s.len - e.len) \in Seq(Turn)
         /\ Len(SubSeq(CellsIn(h, s), 1, s.len - e.len)) = s.len - e.len
<1> DEFINE c == CellsIn(h, s)
           n == s.len - e.len
           m == n + 1
           z == s.len
<1>1. /\ c \in Seq(Turn) /\ Len(c) = s.len /\ s.len \in Nat /\ s.off \in Nat
      /\ \A i \in 1..s.len : c[i] = h[s.arr][s.off + i]
  BY CellsProperties, MessagesAssumption
<1>2. /\ CellsIn(h, e) \in Seq(Turn) /\ Len(CellsIn(h, e)) = e.len /\ e.off \in Nat
      /\ \A i \in 1..e.len : CellsIn(h, e)[i] = h[s.arr][e.off + i]
  BY CellsProperties
<1>3. /\ e.len \in Nat /\ n \in 1..(s.len - 1) /\ e.off = s.off + n
      /\ m \in Int /\ z \in Int /\ z - m + 1 = e.len /\ m <= z
  <2>1. /\ s.len \in Nat /\ s.off \in Nat /\ e.off \in Nat
        /\ e.len \in 1..(s.len - 1) /\ e.off + e.len = s.off + s.len
    BY <1>1, <1>2
  <2> DEFINE so == s.off  sl == s.len  eo == e.off  el == e.len
  <2>2. so \in Nat /\ sl \in Nat /\ eo \in Nat /\ el \in 1..(sl - 1) /\ eo + el = so + sl
    BY <2>1
  <2> HIDE DEF so, sl, eo, el
  <2>3. /\ el \in Nat /\ sl - el \in 1..(sl - 1) /\ eo = so + (sl - el)
        /\ sl - el + 1 \in Int /\ sl \in Int
        /\ sl - (sl - el + 1) + 1 = el /\ sl - el + 1 <= sl
    BY <2>2
  <2> QED
    BY <2>3 DEF so, sl, eo, el
<1> HIDE DEF c
<1>4. SubSeq(c, 1, n) \o SubSeq(c, m, z) = c
  <2>1. SubSeq(c, 1, n) \o SubSeq(c, m, z) = SubSeq(c, 1, z)
    <3>1. 1 \in 1..(Len(c) + 1) /\ n \in (1 - 1)..Len(c) /\ z \in n..Len(c)
      BY <1>1, <1>3
    <3> HIDE DEF n, z, Turn
    <3> QED
      BY <1>1, <3>1, ConcatAdjacentSubSeq DEF m
  <2> QED
    BY <1>1, <2>1, SubSeqFull
<1>5. SubSeq(c, m, z) = CellsIn(h, e)
  <2>1. \A i \in m..z : c[i] \in Turn
    BY <1>1, <1>3
  <2>2. \A i \in 1..e.len : c[m + i - 1] = h[s.arr][e.off + i]
    <3> SUFFICES ASSUME NEW i \in 1..e.len PROVE c[m + i - 1] = h[s.arr][e.off + i]
      OBVIOUS
    <3> DEFINE j == m + i - 1
    <3>1. j \in 1..s.len /\ s.off + j = e.off + i
      <4>1. s.len \in Nat /\ s.off \in Nat /\ e.len \in Nat /\ n \in 1..(s.len - 1)
            /\ e.off = s.off + n /\ i \in 1..e.len
        BY <1>1, <1>3
      <4> DEFINE so == s.off  sl == s.len  eo == e.off  el == e.len
      <4>2. /\ so \in Nat /\ sl \in Nat /\ eo \in Nat /\ el \in 1..(sl - 1) /\ i \in 1..el
            /\ eo + el = so + sl
        BY <1>2, <4>1
      <4> HIDE DEF so, sl, eo, el
      <4>3. /\ (sl - el + 1) + i - 1 \in 1..sl
            /\ so + ((sl - el + 1) + i - 1) = eo + i
        BY <4>2
      <4> QED
        BY <4>3, Zenon DEF so, sl, eo, el
    <3> HIDE DEF j
    <3>2. c[j] = h[s.arr][s.off + j]
      BY <1>1, <3>1
    <3>3. c[j] = h[s.arr][e.off + i]
      BY <3>1, <3>2
    <3> QED
      BY <3>3 DEF j
  <2> HIDE DEF m, z, n, Turn
  <2>3. /\ SubSeq(c, m, z) \in Seq(Turn)
        /\ Len(SubSeq(c, m, z)) = IF m <= z THEN z - m + 1 ELSE 0
        /\ \A i \in 1 .. (z - m + 1) : SubSeq(c, m, z)[i] = c[m + i - 1]
    BY <1>3, <2>1, SubSeqProperties
  <2>4. Len(SubSeq(c, m, z)) = e.len /\ \A i \in 1..e.len : SubSeq(c, m, z)[i] = CellsIn(h, e)[i]
    BY <1>2, <1>3, <2>2, <2>3
  <2> QED
    BY <1>2, <2>3, <2>4, SeqEqual
<1>6. SubSeq(c, 1, n) \in Seq(Turn) /\ Len(SubSeq(c, 1, n)) = n
  <2>1. \A i \in 1..n : c[i] \in Turn
    BY <1>1, <1>3
  <2>2. n \in Int /\ 1 <= n /\ n - 1 + 1 = n
    BY <1>3
  <2> HIDE DEF n, Turn
  <2> QED
    BY <2>1, <2>2, SubSeqProperties
<1> QED
  BY <1>4, <1>5, <1>6 DEF c

\* The turns after the first n, n being the length of an older slice.
LEMMA AddedTurns ==
  ASSUME NEW s \in Seq(Turn), NEW n \in Nat
  PROVE  LET new == SubSeq(s, n + 1, Len(s))
         IN  /\ new \in Seq(Turn)
             /\ Len(new) = IF n < Len(s) THEN Len(s) - n ELSE 0
             /\ new # <<>> => n < Len(s)
<1>1. Len(s) \in Nat /\ \A i \in (n + 1)..Len(s) : s[i] \in Turn
  OBVIOUS
<1> DEFINE m == n + 1
           z == Len(s)
<1>2. m \in Int /\ z \in Int /\ n \in Int /\ z - m + 1 = z - n /\ (m <= z <=> n < z)
  BY <1>1
<1>3. \A i \in m..z : s[i] \in Turn
  BY <1>1
<1> HIDE DEF m, z, Turn
<1>4. SubSeq(s, m, z) \in Seq(Turn) /\ Len(SubSeq(s, m, z)) = IF m <= z THEN z - m + 1 ELSE 0
  BY <1>2, <1>3, SubSeqProperties
<1>5. SubSeq(s, m, z) # <<>> => Len(SubSeq(s, m, z)) # 0
  BY <1>4, EmptySeq
<1> QED
  BY <1>2, <1>4, <1>5 DEF m, z

LEMMA NewlyAddedType ==
  ASSUME Typed, NEW k \in Summarizers
  PROVE  /\ NewlyAdded(k) \in Seq(Turn)
         /\ Len(NewlyAdded(k)) = IF sctx[k].short.len < sfresh[k].short.len
                                 THEN sfresh[k].short.len - sctx[k].short.len ELSE 0
         /\ NewlyAdded(k) # <<>> => sctx[k].short.len < sfresh[k].short.len
<1>1. /\ Turns(sfresh[k].short) \in Seq(Turn)
      /\ Len(Turns(sfresh[k].short)) = sfresh[k].short.len
      /\ sctx[k].short.len \in Nat
  BY TypedDetails, SliceType
<1> QED
  BY <1>1, AddedTurns DEF NewlyAdded

\* Where Load splits what is stored.
LEMMA LoadedSplit ==
  ASSUME Typed, Len(Turns(store.short)) > 1
  PROVE  LET older == SplitIndex(Turns(store.short))
         IN  /\ older \in 1..(store.short.len - 1)
             /\ Suffix(store.short, older) \in Slice
             /\ Suffix(store.short, older).arr = store.short.arr
             /\ Suffix(store.short, older).off = store.short.off + older
             /\ Suffix(store.short, older).len = store.short.len - older
<1> DEFINE s == store.short
           older == SplitIndex(Turns(s))
<1>1. heap \in Seq(Array) /\ s \in Slice
  BY TypedDetails
<1>2. older \in 1..(s.len - 1)
  BY <1>1, SliceType, SplitIndexRange
<1>3. s \in SliceIn(heap) /\ Slice = SliceIn(heap)
  BY <1>1, Unfolded
<1> HIDE DEF older
<1> QED
  BY <1>1, <1>2, <1>3, SuffixType DEF older

LEMMA SummarizerStepLeaves ==
  ASSUME NEW k \in Summarizers, SummarizerStep(k)
  PROVE  UNCHANGED <<turn, said, closed, wpc, wctx, wnew>>
BY DEF SummarizerStep, Load, Summarize, SummarizeFails, Reload, Compare, Merge, SaveSummary,
       SummarizerUnchanged, writerVars

LEMMA FaultType ==
  ASSUME TypeOK, Fault
  PROVE  faults' \in 0..MaxFaults
BY Constants DEF TypeOK, Fault

\* What a summarizer at k holds after a step that leaves the arrays and what is stored.
LEMMA TypedRegisters ==
  ASSUME Typed, NEW k \in Summarizers, UNCHANGED <<heap, store, damaged>>,
         UNCHANGED <<turn, said, closed, wpc, wctx, wnew>>,
         pending' \in Nat, faults' \in 0..MaxFaults,
         NEW pc \in SummarizerPCs, spc' = [spc EXCEPT ![k] = pc],
         NEW c \in Context, sctx' = [sctx EXCEPT ![k] = c], c.short.len <= Appends,
         NEW text \in Seq(Turn), summary' = [summary EXCEPT ![k] = text],
         NEW d \in Context, sfresh' = [sfresh EXCEPT ![k] = d], d.short.len <= Appends,
         NEW r \in Slice, recent' = [recent EXCEPT ![k] = r], r.len <= Appends,
         pc \in {"summarize", "reload", "compare", "merge"} =>
           /\ r.arr = c.short.arr
           /\ r.len \in 1..(c.short.len - 1)
           /\ r.off + r.len = c.short.off + c.short.len,
         pc = "save" => r.len > 0
  PROVE  Typed'
<1>1. Slice' = Slice /\ Context' = Context
  BY SameHeap
<1>2. Appends' = Appends
  BY AppendsSame
<1>3. TypeOK'
  <2>1. summary' \in [Summarizers -> Seq(Turn)]
    BY TypedDetails, Zenon
  <2>2. sctx' \in [Summarizers -> Context] /\ sfresh' \in [Summarizers -> Context]
        /\ recent' \in [Summarizers -> Slice] /\ spc' \in [Summarizers -> SummarizerPCs]
    BY TypedDetails
  <2> QED
    BY <1>1, <2>1, <2>2, Zenon DEF Typed, TypeOK
<1>4. \A j \in Summarizers : /\ spc'[j] = IF j = k THEN pc ELSE spc[j]
                             /\ sctx'[j] = IF j = k THEN c ELSE sctx[j]
                             /\ sfresh'[j] = IF j = k THEN d ELSE sfresh[j]
                             /\ recent'[j] = IF j = k THEN r ELSE recent[j]
  BY TypedDetails
<1>5. Bounded'
  BY <1>2, <1>4, Lengths DEF Bounded
<1>6. PumpWrites'
  BY DEF Typed, PumpWrites
<1>7. Splits'
  BY <1>4 DEF Typed, Splits, IsSplit
<1> QED
  BY <1>3, <1>5, <1>6, <1>7 DEF Typed

LEMMA FinishRegisters ==
  ASSUME Typed, NEW k \in Summarizers, Finish(k), UNCHANGED <<heap, store, damaged>>,
         UNCHANGED <<turn, said, closed, wpc, wctx, wnew>>,
         pending' \in Nat, faults' \in 0..MaxFaults
  PROVE  Typed'
<1>1. Empty \in Context /\ Empty.short.len <= Appends /\ Nil \in Slice /\ Nil.len <= Appends
  BY EmptyContext, ContextFields, NilFields, Lengths
<1>2. <<>> \in Seq(Turn) /\ "idle" \in SummarizerPCs
  BY DEF SummarizerPCs
<1> QED
  BY <1>1, <1>2, TypedRegisters DEF Finish

\* A register that is left alone.
LEMMA SameRegisters ==
  ASSUME Typed, NEW k \in Summarizers
  PROVE  /\ sctx = [sctx EXCEPT ![k] = sctx[k]]
         /\ summary = [summary EXCEPT ![k] = summary[k]]
         /\ sfresh = [sfresh EXCEPT ![k] = sfresh[k]]
         /\ recent = [recent EXCEPT ![k] = recent[k]]
         /\ sctx[k] \in Context /\ sctx[k].short.len <= Appends
         /\ summary[k] \in Seq(Turn)
         /\ sfresh[k] \in Context /\ sfresh[k].short.len <= Appends
         /\ recent[k] \in Slice /\ recent[k].len <= Appends
<1>1. /\ sctx = [sctx EXCEPT ![k] = sctx[k]]
      /\ sfresh = [sfresh EXCEPT ![k] = sfresh[k]]
      /\ recent = [recent EXCEPT ![k] = recent[k]]
  BY TypedDetails
<1>2. summary = [summary EXCEPT ![k] = summary[k]]
  BY TypedDetails, Zenon
<1> QED
  BY <1>1, <1>2, TypedDetails, Lengths

LEMMA TypedSummarizer ==
  ASSUME Typed, NEW k \in Summarizers,
         Load(k) \/ Summarize(k) \/ SummarizeFails(k) \/ Reload(k) \/ Compare(k)
  PROVE  Typed'
<1> USE DEF SummarizerPCs
<1>a. UNCHANGED <<turn, said, closed, wpc, wctx, wnew>>
  BY SummarizerStepLeaves DEF SummarizerStep
<1>b. UNCHANGED <<heap, store, damaged>> /\ pending' \in Nat /\ faults' \in 0..MaxFaults
  BY FaultType DEF Load, Summarize, SummarizeFails, Reload, Compare, Typed, TypeOK, memoryVars
<1>c. store.short.len <= Appends /\ store \in Context
  BY TypedDetails, Lengths
<1>1. CASE Load(k)
  <2> DEFINE older == SplitIndex(Turns(store.short))
             r == Suffix(store.short, older)
  <2>1. /\ spc' = [spc EXCEPT ![k] = "summarize"]
        /\ sctx' = [sctx EXCEPT ![k] = store]
        /\ recent' = [recent EXCEPT ![k] = r]
        /\ summary' = summary /\ sfresh' = sfresh
        /\ Len(Turns(store.short)) > 1
    BY <1>1 DEF Load, Suffix
  <2>2. /\ older \in 1..(store.short.len - 1)
        /\ r \in Slice
        /\ r.arr = store.short.arr
        /\ r.off = store.short.off + older
        /\ r.len = store.short.len - older
    BY <2>1, LoadedSplit
  <2>3. store.short.len \in Nat /\ store.short.off \in Nat /\ Appends \in Nat
    BY TypedDetails, SliceType, Lengths
  <2> HIDE DEF r, older
  <2>4. /\ r.len <= Appends
        /\ r.len \in 1..(store.short.len - 1)
        /\ r.off + r.len = store.short.off + store.short.len
    BY <1>c, <2>2, <2>3
  <2> QED
    BY <1>a, <1>b, <1>c, <2>1, <2>2, <2>4, SameRegisters, TypedRegisters
<1>2. CASE Summarize(k)
  <2>1. PICK text \in Seq(Turn) : summary' = [summary EXCEPT ![k] = text]
    <3>1. sctx[k].long \o OlderTurns(k) \in Seq(Turn)
      <4>1. Turns(sctx[k].short) \in Seq(Turn) /\ Len(Turns(sctx[k].short)) = sctx[k].short.len
            /\ sctx[k].short.len \in Nat
        BY TypedDetails, SliceType
      <4>2. recent[k].len \in 1..(sctx[k].short.len - 1)
        BY <1>2 DEF Summarize, Typed, Splits, IsSplit
      <4>3. OlderTurns(k) \in Seq(Turn)
        <5> DEFINE n == sctx[k].short.len - recent[k].len
        <5>1. n \in Int /\ n <= sctx[k].short.len
          BY <4>1, <4>2
        <5>2. \A i \in 1..n : Turns(sctx[k].short)[i] \in Turn
          BY <4>1, <5>1
        <5> HIDE DEF n, Turn
        <5>3. SubSeq(Turns(sctx[k].short), 1, n) \in Seq(Turn)
          BY <5>1, <5>2, SubSeqProperties
        <5> QED
          BY <5>3 DEF OlderTurns, n
      <4>4. sctx[k].long \in Seq(Turn)
        BY TypedDetails, ContextFields
      <4> QED
        BY <4>3, <4>4, ConcatProperties
    <3>2. <<>> \in Seq(Turn)
      OBVIOUS
    <3> QED
      BY <1>2, <3>1, <3>2, Zenon DEF Summarize
  <2>2. /\ spc[k] = "summarize" /\ spc' = [spc EXCEPT ![k] = "reload"]
        /\ UNCHANGED <<sctx, sfresh, recent>>
    BY <1>2 DEF Summarize
  <2>3. IsSplit(k)
    BY <2>2 DEF Typed, Splits
  <2>4. /\ sctx' = [sctx EXCEPT ![k] = sctx[k]]
        /\ sfresh' = [sfresh EXCEPT ![k] = sfresh[k]]
        /\ recent' = [recent EXCEPT ![k] = recent[k]]
    BY <2>2, SameRegisters
  <2>6. "reload" \in SummarizerPCs
    OBVIOUS
  <2>5. /\ recent[k].arr = sctx[k].short.arr
        /\ recent[k].len \in 1..(sctx[k].short.len - 1)
        /\ recent[k].off + recent[k].len = sctx[k].short.off + sctx[k].short.len
    BY <2>3 DEF IsSplit
  <2> QED
    <3>1. /\ sctx[k] \in Context /\ sctx[k].short.len <= Appends
          /\ sfresh[k] \in Context /\ sfresh[k].short.len <= Appends
          /\ recent[k] \in Slice /\ recent[k].len <= Appends
      BY SameRegisters
    <3>2. spc' = [spc EXCEPT ![k] = "reload"]
      BY <2>2
    <3> HIDE DEF SummarizerPCs
    <3> QED
      BY <1>a, <1>b, <2>1, <2>4, <2>5, <2>6, <3>1, <3>2, TypedRegisters
<1>3. CASE SummarizeFails(k)
  BY <1>3, <1>a, <1>b, FinishRegisters DEF SummarizeFails
<1>4. CASE Reload(k)
  <2>1. /\ spc[k] = "reload" /\ spc' = [spc EXCEPT ![k] = "compare"]
        /\ sfresh' = [sfresh EXCEPT ![k] = store]
        /\ UNCHANGED <<sctx, summary, recent>>
    BY <1>4 DEF Reload
  <2>2. IsSplit(k)
    BY <2>1 DEF Typed, Splits
  <2> QED
    BY <1>a, <1>b, <1>c, <2>1, <2>2, SameRegisters, TypedRegisters DEF IsSplit
<1>5. CASE Compare(k)
  <2>1. CASE Finish(k)
    BY <2>1, <1>a, <1>b, FinishRegisters
  <2>2. CASE ~Finish(k)
    <3>1. /\ spc[k] = "compare" /\ spc' = [spc EXCEPT ![k] = "merge"]
          /\ sfresh' = [sfresh EXCEPT ![k] = Attached(sfresh[k])]
          /\ UNCHANGED <<sctx, summary, recent>>
      BY <1>5, <2>2 DEF Compare
    <3>2. IsSplit(k)
      BY <3>1 DEF Typed, Splits
    <3>3. Attached(sfresh[k]) \in Context /\ Attached(sfresh[k]).short = sfresh[k].short
      BY TypedDetails, AttachedContext
    <3>4. Attached(sfresh[k]).short.len <= Appends
      BY <3>3, SameRegisters
    <3> QED
      BY <1>a, <1>b, <3>1, <3>2, <3>3, <3>4, SameRegisters, TypedRegisters DEF IsSplit
  <2> QED
    BY <2>1, <2>2
<1> QED
  BY <1>1, <1>2, <1>3, <1>4, <1>5

LEMMA TypedMerge ==
  ASSUME Typed, NEW k \in Summarizers, Merge(k)
  PROVE  Typed' /\ Grown(heap, heap')
<1>a. UNCHANGED <<turn, said, closed, wpc, wctx, wnew>>
  BY SummarizerStepLeaves DEF SummarizerStep
<1>b. /\ UNCHANGED <<store, damaged, pending, faults, sctx, summary, sfresh>>
      /\ spc[k] = "merge" /\ spc' = [spc EXCEPT ![k] = "save"]
  BY DEF Merge
<1>c. recent[k].len \in 1..(sctx[k].short.len - 1)
  BY <1>b DEF Typed, Splits, IsSplit
<1>d. /\ recent[k] \in Slice /\ recent[k].len \in 0..Appends /\ Appends \in Nat /\ Appends <= MaxMessages
      /\ sctx[k].short.len \in 0..Appends /\ sfresh[k].short.len \in 0..Appends /\ heap \in Seq(Array)
  BY TypedDetails, Lengths
<1>1. PICK r \in Slice' : /\ recent' = [recent EXCEPT ![k] = r]
                          /\ r.len \in 1..Appends
                          /\ Grown(heap, heap')
  <2>1. CASE NewlyAdded(k) = <<>>
    <3>1. heap' = heap /\ recent' = recent
      BY <2>1 DEF Merge
    <3>2. recent' = [recent EXCEPT ![k] = recent[k]]
      BY <3>1, SameRegisters
    <3>3. recent[k].len \in 1..Appends
      BY <1>c, <1>d
    <3> QED
      BY <1>d, <3>1, <3>2, <3>3, SameHeap, GrownReflexive
  <2>2. CASE NewlyAdded(k) # <<>>
    <3> DEFINE new == NewlyAdded(k)
               e == Extended(recent[k], new)
    <3>1. heap' = HeapExtended(recent[k], new) /\ recent' = [recent EXCEPT ![k] = e]
      BY <2>2 DEF Merge
    <3>2. new \in Seq(Turn) /\ new # <<>> /\ Len(new) = sfresh[k].short.len - sctx[k].short.len
          /\ sctx[k].short.len < sfresh[k].short.len
      BY <2>2, NewlyAddedType
    <3> HIDE DEF new
    <3>3. recent[k].len + Len(new) \in 1..Appends /\ recent[k].len + Len(new) <= MaxMessages
      BY <1>c, <1>d, <3>2, MessagesAssumption
    <3>4. Grown(heap, heap') /\ e \in Slice' /\ e.len = recent[k].len + Len(new)
      BY <1>d, <3>1, <3>2, <3>3, AppendType
    <3> QED
      BY <3>1, <3>3, <3>4
  <2> QED
    BY <2>1, <2>2
<1>2. heap' \in Seq(Array) /\ Slice \subseteq Slice' /\ Context \subseteq Context'
  BY <1>1, <1>d, GrownHeap DEF Grown
<1>3. Appends' = Appends
  BY <1>a, AppendsSame
<1>4. TypeOK'
  <2>1. wctx' \in [Writers -> Context'] /\ sctx' \in [Summarizers -> Context']
        /\ sfresh' \in [Summarizers -> Context'] /\ recent' \in [Summarizers -> Slice']
        /\ wnew' \in [Writers -> Slice'] /\ store' \in Context'
    BY <1>a, <1>b, <1>1, <1>2, TypedDetails
  <2>2. spc' \in [Summarizers -> SummarizerPCs]
    BY <1>b, TypedDetails DEF SummarizerPCs
  <2> QED
    BY <1>a, <1>b, <1>2, <2>1, <2>2, Zenon DEF Typed, TypeOK
<1>5. \A j \in Summarizers : /\ spc'[j] = IF j = k THEN "save" ELSE spc[j]
                             /\ recent'[j] = IF j = k THEN r ELSE recent[j]
  BY <1>b, <1>1, TypedDetails
<1>6. Bounded'
  BY <1>a, <1>b, <1>d, <1>1, <1>3, <1>5, Lengths DEF Bounded
<1>7. PumpWrites'
  BY <1>a DEF Typed, PumpWrites
<1>8. Splits'
  BY <1>b, <1>1, <1>5 DEF Typed, Splits, IsSplit
<1> QED
  BY <1>1, <1>4, <1>6, <1>7, <1>8 DEF Typed

LEMMA TypedSaveSummary ==
  ASSUME Typed, NEW k \in Summarizers, SaveSummary(k)
  PROVE  Typed'
<1> DEFINE c == Summarized(sfresh[k], summary[k], recent[k])
<1>a. UNCHANGED <<turn, said, closed, wpc, wctx, wnew>>
  BY SummarizerStepLeaves DEF SummarizerStep
<1>1. /\ store' = c /\ Finish(k) /\ UNCHANGED <<heap, pending, faults>>
      /\ damaged' = (damaged \/ ~IsStored(sfresh[k]) \/ summary[k] = <<>>)
  BY DEF SaveSummary, Summarized
<1>2. c \in Context /\ c.short = recent[k]
  <2>1. sfresh[k] \in Context /\ summary[k] \in Seq(Turn) /\ recent[k] \in Slice
    BY TypedDetails
  <2> QED
    BY <2>1, SummarizedContext
<1>3. Slice' = Slice /\ Context' = Context
  BY <1>1, SameHeap
<1> HIDE DEF c
<1>4. /\ Empty \in Context /\ Empty.short = Nil /\ Nil.len = 0 /\ Nil \in Slice
      /\ <<>> \in Seq(Turn)
  BY EmptyContext, ContextFields, NilFields
<1>5. TypeOK'
  <2>1. summary' \in [Summarizers -> Seq(Turn)]
    BY <1>1, <1>4, TypedDetails, Zenon DEF Finish
  <2>2. sctx' \in [Summarizers -> Context] /\ sfresh' \in [Summarizers -> Context]
        /\ recent' \in [Summarizers -> Slice] /\ spc' \in [Summarizers -> SummarizerPCs]
    BY <1>1, <1>4, TypedDetails DEF Finish, SummarizerPCs
  <2>3. damaged' \in BOOLEAN
    BY <1>1 DEF Typed, TypeOK
  <2> QED
    BY <1>a, <1>1, <1>2, <1>3, <2>1, <2>2, <2>3, Zenon DEF Typed, TypeOK
<1>6. \A j \in Summarizers : /\ spc'[j] = IF j = k THEN "idle" ELSE spc[j]
                             /\ sctx'[j] = IF j = k THEN Empty ELSE sctx[j]
                             /\ sfresh'[j] = IF j = k THEN Empty ELSE sfresh[j]
                             /\ recent'[j] = IF j = k THEN Nil ELSE recent[j]
  BY <1>1, TypedDetails DEF Finish
<1>7. Bounded'
  <2>1. Appends' = Appends /\ 0 <= Appends
    BY <1>a, AppendsSame, Lengths
  <2> QED
    BY <1>a, <1>1, <1>2, <1>4, <1>6, <2>1, Lengths DEF Bounded
<1>8. PumpWrites'
  BY <1>a DEF Typed, PumpWrites
<1>9. Splits'
  BY <1>6 DEF Typed, Splits, IsSplit
<1> QED
  BY <1>5, <1>7, <1>8, <1>9 DEF Typed

\* Every step keeps the types, whatever was overwritten.
LEMMA TypedNext == Typed /\ [Next]_vars => Typed'
<1> SUFFICES ASSUME Typed, [Next]_vars PROVE Typed'
  OBVIOUS
<1>1. CASE UNCHANGED vars
  <2>1. UNCHANGED <<heap, store, turn, said, closed, wpc, wctx, wnew, pending, spc, sctx,
                    summary, sfresh, recent, faults, damaged>>
    BY <1>1 DEF vars, memoryVars, writerVars, summarizerVars
  <2>2. Slice' = Slice /\ Context' = Context /\ Appends' = Appends
    BY <2>1, SameHeap, AppendsSame
  <2>3. TypeOK'
    BY <2>1, <2>2 DEF Typed, TypeOK
  <2> QED
    BY <2>1, <2>2, <2>3 DEF Typed, Bounded, PumpWrites, Splits, IsSplit
<1>2. CASE PartialTranscript \/ FinalTranscript \/ DeleteSession \/ NothingToSummarize
  BY <1>2, TypedConnection
<1>3. ASSUME NEW w \in Answers, Ask(w) PROVE Typed'
  BY <1>3, TypedWriterReads, Constants
<1>4. ASSUME NEW w \in Writers, WriterStep(w) PROVE Typed'
  BY <1>4, TypedWriterReads, TypedAppendTurn, TypedSaveTurn DEF WriterStep
<1>5. ASSUME NEW k \in Summarizers, SummarizerStep(k) PROVE Typed'
  BY <1>5, TypedSummarizer, TypedMerge, TypedSaveSummary DEF SummarizerStep
<1> QED
  BY <1>1, <1>2, <1>3, <1>4, <1>5 DEF Next

\* A slice never reaches past its array nor over a cell that nobody wrote, and no
\* context ever has more turns than were appended, also once contexts have been
\* overwritten and after the session is deleted.
THEOREM SlicesTypeCorrect == Spec => []TypeOK
<1>1. Typed => TypeOK
  BY DEF Typed
<1> QED
  BY <1>1, TypedInit, TypedNext, PTL DEF Spec

-----------------------------------------------------------------------------
(* Prefixes *)

LEMMA PrefixElements ==
  ASSUME NEW S, NEW s \in Seq(S), NEW t \in Seq(S)
  PROVE  IsPrefixOf(s, t) <=> Len(s) <= Len(t) /\ \A i \in 1..Len(s) : t[i] = s[i]
<1>1. Len(s) \in Nat /\ Len(t) \in Nat /\ \A i \in 1..Len(t) : t[i] \in S
  OBVIOUS
<1>2. ASSUME Len(s) <= Len(t)
      PROVE  /\ SubSeq(t, 1, Len(s)) \in Seq(S)
             /\ Len(SubSeq(t, 1, Len(s))) = Len(s)
             /\ \A i \in 1..Len(s) : SubSeq(t, 1, Len(s))[i] = t[i]
  BY <1>1, <1>2
<1>3. ASSUME Len(s) <= Len(t), \A i \in 1..Len(s) : t[i] = s[i]
      PROVE  SubSeq(t, 1, Len(s)) = s
  BY <1>2, <1>3, SeqEqual
<1> QED
  BY <1>2, <1>3 DEF IsPrefixOf

LEMMA PrefixReflexive ==
  ASSUME NEW S, NEW s \in Seq(S)
  PROVE  IsPrefixOf(s, s)
BY PrefixElements

LEMMA PrefixTransitive ==
  ASSUME NEW S, NEW s \in Seq(S), NEW t \in Seq(S), NEW u \in Seq(S),
         IsPrefixOf(s, t), IsPrefixOf(t, u)
  PROVE  IsPrefixOf(s, u)
<1>1. Len(s) \in Nat /\ Len(t) \in Nat /\ Len(u) \in Nat
  OBVIOUS
<1>2. /\ Len(s) <= Len(t) /\ \A i \in 1..Len(s) : t[i] = s[i]
      /\ Len(t) <= Len(u) /\ \A i \in 1..Len(t) : u[i] = t[i]
  BY PrefixElements
<1>3. Len(s) <= Len(u) /\ \A i \in 1..Len(s) : u[i] = s[i]
  BY <1>1, <1>2
<1> QED
  BY <1>3, PrefixElements

LEMMA PrefixRest ==
  ASSUME NEW S, NEW s \in Seq(S), NEW t \in Seq(S), IsPrefixOf(s, t)
  PROVE  /\ SubSeq(t, Len(s) + 1, Len(t)) \in Seq(S)
         /\ Len(SubSeq(t, Len(s) + 1, Len(t))) = Len(t) - Len(s)
         /\ t = s \o SubSeq(t, Len(s) + 1, Len(t))
<1> DEFINE n == Len(s)
           m == n + 1
           z == Len(t)
<1>1. n \in Nat /\ z \in Nat /\ n <= z /\ SubSeq(t, 1, n) = s
  BY DEF IsPrefixOf
<1>2. m \in Int /\ z - m + 1 = z - n /\ (m <= z => z - m + 1 = z - n) /\ (~(m <= z) => z - n = 0)
  BY <1>1
<1>3. \A i \in m..z : t[i] \in S
  BY <1>1
<1>4. /\ SubSeq(t, m, z) \in Seq(S)
      /\ Len(SubSeq(t, m, z)) = IF m <= z THEN z - m + 1 ELSE 0
  <2> HIDE DEF m, z
  <2> QED
    BY <1>1, <1>2, <1>3, SubSeqProperties DEF z
<1>5. SubSeq(t, 1, n) \o SubSeq(t, m, z) = SubSeq(t, 1, z)
  <2>1. 1 \in 1..(Len(t) + 1) /\ n \in (1 - 1)..Len(t) /\ z \in n..Len(t)
    BY <1>1
  <2> HIDE DEF n, z
  <2> QED
    BY <2>1, ConcatAdjacentSubSeq DEF m
<1>6. SubSeq(t, 1, z) = t
  BY SubSeqFull
<1> QED
  BY <1>1, <1>2, <1>4, <1>5, <1>6

LEMMA ConcatIsPrefix ==
  ASSUME NEW S, NEW s \in Seq(S), NEW t \in Seq(S)
  PROVE  IsPrefixOf(s, s \o t)
<1>1. /\ s \o t \in Seq(S) /\ Len(s \o t) = Len(s) + Len(t)
      /\ \A i \in 1..(Len(s) + Len(t)) : (s \o t)[i] = IF i <= Len(s) THEN s[i] ELSE t[i - Len(s)]
  BY ConcatProperties
<1>2. Len(s) \in Nat /\ Len(t) \in Nat
  OBVIOUS
<1>3. Len(s) <= Len(s \o t) /\ \A i \in 1..Len(s) : (s \o t)[i] = s[i]
  BY <1>1, <1>2
<1> QED
  BY <1>1, <1>3, PrefixElements

LEMMA PrefixAfter ==
  ASSUME NEW S, NEW l \in Seq(S), NEW s \in Seq(S), NEW t \in Seq(S), IsPrefixOf(s, t)
  PROVE  IsPrefixOf(l \o s, l \o t)
<1> DEFINE u == SubSeq(t, Len(s) + 1, Len(t))
<1>1. u \in Seq(S) /\ t = s \o u
  BY PrefixRest
<1> HIDE DEF u
<1>2. l \o t = (l \o s) \o u /\ l \o s \in Seq(S)
  BY <1>1, ConcatAssociative, ConcatProperties
<1> QED
  BY <1>1, <1>2, ConcatIsPrefix

-----------------------------------------------------------------------------
(* Contexts and what they share *)

\* Contexts whose turns are in the arrays h, and the log each one is.
ContextIn(h) ==
  [version : Nat \ {0}, long : Seq(Turn), short : SliceIn(h), current : {0} \cup Turn]

LogIn(h, c) == c.long \o CellsIn(h, c.short)

LEMMA LogProperties ==
  ASSUME NEW h \in Seq(Array), NEW c \in ContextIn(h)
  PROVE  /\ c.version \in Nat \ {0} /\ c.long \in Seq(Turn) /\ c.short \in SliceIn(h)
         /\ CellsIn(h, c.short) \in Seq(Turn) /\ Len(CellsIn(h, c.short)) = c.short.len
         /\ LogIn(h, c) \in Seq(Turn)
         /\ Len(LogIn(h, c)) = Len(c.long) + c.short.len
         /\ Len(c.long) \in Nat /\ c.short.len \in Nat /\ c.short.off \in Nat
<1>1. c.version \in Nat \ {0} /\ c.long \in Seq(Turn) /\ c.short \in SliceIn(h)
  BY DEF ContextIn
<1>2. /\ CellsIn(h, c.short) \in Seq(Turn) /\ Len(CellsIn(h, c.short)) = c.short.len
      /\ c.short.len \in Nat /\ c.short.off \in Nat
  BY <1>1, CellsProperties, MessagesAssumption
<1>3. LogIn(h, c) \in Seq(Turn) /\ Len(LogIn(h, c)) = Len(c.long) + Len(CellsIn(h, c.short))
  <2> HIDE DEF Turn
  <2> QED
    BY <1>1, <1>2, ConcatProperties DEF LogIn
<1>4. Len(c.long) \in Nat
  <2> HIDE DEF Turn
  <2> QED
    BY <1>1, LenProperties
<1> QED
  BY <1>1, <1>2, <1>3, <1>4

End(s) == s.off + s.len

SamePlace(s, t) == s.arr = t.arr /\ s.off = t.off

LEMMA SamePlaceCells ==
  ASSUME NEW h \in Seq(Array), NEW s \in SliceIn(h), NEW t \in SliceIn(h), SamePlace(s, t)
  PROVE  /\ CapacityIn(h, s) = CapacityIn(h, t)
         /\ s.len <= t.len => IsPrefixOf(CellsIn(h, s), CellsIn(h, t))
         /\ s.len = t.len => s = t
<1>1. /\ s = Nil \/ s \in [arr : 1..Len(h), off : Nat, len : 0..MaxMessages]
      /\ t = Nil \/ t \in [arr : 1..Len(h), off : Nat, len : 0..MaxMessages]
  BY DEF SliceIn
<1>2. s = Nil <=> t = Nil
  BY <1>1, NilFields DEF SamePlace
<1>3. CapacityIn(h, s) = CapacityIn(h, t)
  BY <1>2 DEF CapacityIn, SamePlace
<1>4. s.len = t.len => s = t
  BY <1>1, <1>2 DEF SamePlace
<1>5. ASSUME s.len <= t.len PROVE IsPrefixOf(CellsIn(h, s), CellsIn(h, t))
  <2>1. /\ CellsIn(h, s) \in Seq(Turn) /\ Len(CellsIn(h, s)) = s.len
        /\ s.len \in Nat /\ t.len \in Nat
        /\ \A i \in 1..s.len : CellsIn(h, s)[i] = h[s.arr][s.off + i]
    BY CellsProperties, MessagesAssumption
  <2>2. /\ CellsIn(h, t) \in Seq(Turn) /\ Len(CellsIn(h, t)) = t.len
        /\ \A i \in 1..t.len : CellsIn(h, t)[i] = h[s.arr][s.off + i]
    BY CellsProperties DEF SamePlace
  <2>3. \A i \in 1..s.len : CellsIn(h, t)[i] = CellsIn(h, s)[i]
    BY <1>5, <2>1, <2>2
  <2> HIDE DEF Turn
  <2> QED
    BY <1>5, <2>1, <2>2, <2>3, PrefixElements
<1> QED
  BY <1>3, <1>4, <1>5

\* d is c with turns appended, or newer: same summary, same first turns, and in the
\* same place unless there was no room.
FollowsIn(h, c, d) ==
  /\ c.version <= d.version
  /\ c.version = d.version =>
       /\ c.long = d.long
       /\ IsPrefixOf(CellsIn(h, c.short), CellsIn(h, d.short))
       /\ SamePlace(c.short, d.short) \/ d.short.len > CapacityIn(h, c.short)

\* Whoever holds c while d is stored has turns of the log that d is, and if his are in
\* the same array, in front of the cell the next append writes.
HeldIn(h, c, d) ==
  /\ FollowsIn(h, c, d)
  /\ IsPrefixOf(LogIn(h, c), LogIn(h, d))
  /\ c.short.arr = d.short.arr => End(c.short) <= End(d.short)

LEMMA EndType ==
  ASSUME NEW h \in Seq(Array), NEW s \in SliceIn(h)
  PROVE  End(s) \in Nat
<1>1. s.off \in Nat /\ s.len \in Nat
  BY CellsProperties, MessagesAssumption
<1> QED
  BY <1>1 DEF End

LEMMA HeldReflexive ==
  ASSUME NEW h \in Seq(Array), NEW c \in ContextIn(h)
  PROVE  HeldIn(h, c, c)
<1>1. /\ CellsIn(h, c.short) \in Seq(Turn) /\ LogIn(h, c) \in Seq(Turn)
      /\ End(c.short) \in Nat /\ c.version \in Nat
  BY LogProperties, EndType
<1> HIDE DEF Turn
<1>2. IsPrefixOf(CellsIn(h, c.short), CellsIn(h, c.short)) /\ IsPrefixOf(LogIn(h, c), LogIn(h, c))
  BY <1>1, PrefixReflexive
<1> QED
  BY <1>1, <1>2 DEF HeldIn, FollowsIn, SamePlace

LEMMA FollowsTransitive ==
  ASSUME NEW h \in Seq(Array), NEW c \in ContextIn(h), NEW d \in ContextIn(h), NEW e \in ContextIn(h),
         FollowsIn(h, c, d), FollowsIn(h, d, e)
  PROVE  FollowsIn(h, c, e)
<1>1. /\ c.version \in Nat /\ d.version \in Nat /\ e.version \in Nat
      /\ c.version <= d.version /\ d.version <= e.version
  BY LogProperties DEF FollowsIn
<1>2. ASSUME c.version = e.version
      PROVE  /\ c.long = e.long
             /\ IsPrefixOf(CellsIn(h, c.short), CellsIn(h, e.short))
             /\ SamePlace(c.short, e.short) \/ e.short.len > CapacityIn(h, c.short)
  <2>1. c.version = d.version /\ d.version = e.version
    BY <1>1, <1>2
  <2>2. /\ c.long = d.long /\ d.long = e.long
        /\ IsPrefixOf(CellsIn(h, c.short), CellsIn(h, d.short))
        /\ IsPrefixOf(CellsIn(h, d.short), CellsIn(h, e.short))
        /\ SamePlace(c.short, d.short) \/ d.short.len > CapacityIn(h, c.short)
        /\ SamePlace(d.short, e.short) \/ e.short.len > CapacityIn(h, d.short)
    BY <2>1 DEF FollowsIn
  <2>3. /\ CellsIn(h, c.short) \in Seq(Turn) /\ CellsIn(h, d.short) \in Seq(Turn)
        /\ CellsIn(h, e.short) \in Seq(Turn)
        /\ Len(CellsIn(h, d.short)) = d.short.len /\ Len(CellsIn(h, e.short)) = e.short.len
        /\ d.short.len \in Nat /\ e.short.len \in Nat
        /\ c.short \in SliceIn(h) /\ d.short \in SliceIn(h)
        /\ CapacityIn(h, c.short) \in Nat
    BY LogProperties, CapacityType
  <2>4. IsPrefixOf(CellsIn(h, c.short), CellsIn(h, e.short))
    <3> HIDE DEF Turn
    <3> QED
      BY <2>2, <2>3, PrefixTransitive
  <2>5. d.short.len <= e.short.len
    BY <2>2, <2>3 DEF IsPrefixOf
  <2>6. SamePlace(c.short, e.short) \/ e.short.len > CapacityIn(h, c.short)
    <3>1. CASE d.short.len > CapacityIn(h, c.short)
      BY <2>3, <2>5, <3>1
    <3>2. CASE SamePlace(c.short, d.short)
      <4>1. CapacityIn(h, c.short) = CapacityIn(h, d.short)
        BY <2>3, <3>2, SamePlaceCells
      <4> QED
        BY <2>2, <3>2, <4>1 DEF SamePlace
    <3> QED
      BY <2>2, <3>1, <3>2
  <2> QED
    BY <2>2, <2>4, <2>6
<1> QED
  BY <1>1, <1>2 DEF FollowsIn

\* What is stored moves from d to e.
LEMMA HeldTransitive ==
  ASSUME NEW h \in Seq(Array), NEW c \in ContextIn(h), NEW d \in ContextIn(h), NEW e \in ContextIn(h),
         HeldIn(h, c, d), HeldIn(h, d, e),
         c.short.arr = e.short.arr => d.short.arr = e.short.arr
  PROVE  HeldIn(h, c, e)
<1>1. FollowsIn(h, c, e)
  BY FollowsTransitive DEF HeldIn
<1>2. IsPrefixOf(LogIn(h, c), LogIn(h, e))
  <2>1. LogIn(h, c) \in Seq(Turn) /\ LogIn(h, d) \in Seq(Turn) /\ LogIn(h, e) \in Seq(Turn)
    BY LogProperties
  <2> HIDE DEF Turn
  <2> QED
    BY <2>1, PrefixTransitive DEF HeldIn
<1>3. c.short.arr = e.short.arr => End(c.short) <= End(e.short)
  <2>1. End(c.short) \in Nat /\ End(d.short) \in Nat /\ End(e.short) \in Nat
    BY LogProperties, EndType
  <2>2. /\ c.short.arr = d.short.arr => End(c.short) <= End(d.short)
        /\ d.short.arr = e.short.arr => End(d.short) <= End(e.short)
    BY DEF HeldIn
  <2> QED
    BY <2>1, <2>2
<1> QED
  BY <1>1, <1>2, <1>3 DEF HeldIn

\* Contexts are the same after a step of append that leaves their cells as they are.
LEMMA SameCellsSameContext ==
  ASSUME NEW h \in Seq(Array), NEW h2, Grown(h, h2),
         NEW c \in ContextIn(h), SameCells(h, h2, c.short)
  PROVE  /\ c \in ContextIn(h2)
         /\ CellsIn(h2, c.short) = CellsIn(h, c.short)
         /\ CapacityIn(h2, c.short) = CapacityIn(h, c.short)
         /\ LogIn(h2, c) = LogIn(h, c)
<1>1. c.short \in SliceIn(h)
  BY LogProperties
<1>2. c.short \in SliceIn(h2) /\ CapacityIn(h2, c.short) = CapacityIn(h, c.short)
  BY <1>1, GrownKeepsSlices
<1>3. CellsIn(h2, c.short) = CellsIn(h, c.short)
  BY <1>1, SameCellsSameTurns
<1>4. c \in ContextIn(h2)
  BY <1>2 DEF ContextIn
<1> QED
  BY <1>2, <1>3, <1>4 DEF LogIn

LEMMA HeldStable ==
  ASSUME NEW h \in Seq(Array), NEW h2, Grown(h, h2),
         NEW c \in ContextIn(h), SameCells(h, h2, c.short),
         NEW d \in ContextIn(h), SameCells(h, h2, d.short)
  PROVE  /\ HeldIn(h2, c, d) <=> HeldIn(h, c, d)
         /\ FollowsIn(h2, c, d) <=> FollowsIn(h, c, d)
<1>1. /\ CellsIn(h2, c.short) = CellsIn(h, c.short)
      /\ CapacityIn(h2, c.short) = CapacityIn(h, c.short)
      /\ LogIn(h2, c) = LogIn(h, c)
  BY SameCellsSameContext
<1>2. /\ CellsIn(h2, d.short) = CellsIn(h, d.short)
      /\ LogIn(h2, d) = LogIn(h, d)
  BY SameCellsSameContext
<1> QED
  BY <1>1, <1>2 DEF HeldIn, FollowsIn

-----------------------------------------------------------------------------
(* The invariant of an undamaged, open session *)

\* The arrays of what is stored and of what goroutines read.
HeldArrays ==
  {0, store.short.arr} \cup {wctx[w].short.arr : w \in Writers}
    \cup {sctx[k].short.arr : k \in Summarizers} \cup {sfresh[k].short.arr : k \in Summarizers}

AllHeld ==
  /\ HeldIn(heap, Empty, store)
  /\ \A w \in Writers : HeldIn(heap, wctx[w], store)
  /\ \A k \in Summarizers : HeldIn(heap, sctx[k], store) /\ HeldIn(heap, sfresh[k], store)

\* What CreateSummary reloads is what it read, with turns appended.
Reloaded(k) ==
  /\ spc[k] \in {"compare", "merge", "save"} => FollowsIn(heap, sctx[k], sfresh[k])
  /\ spc[k] \in {"merge", "save"} => sctx[k].version = sfresh[k].version

\* The summary text and the turns r together hold what c does.
Folds(h, text, r, c) ==
  /\ text \o CellsIn(h, r) = LogIn(h, c)
  /\ Len(text) > Len(c.long)

Folded(k) ==
  /\ spc[k] \in {"reload", "compare", "merge"} =>
       summary[k] = <<>> \/ Folds(heap, summary[k], recent[k], sctx[k])
  /\ spc[k] = "save" =>
       summary[k] = <<>> \/ Folds(heap, summary[k], recent[k], sfresh[k])

\* The turns that CreateSummary is about to store end where those it replaces end, or
\* are in an array of their own.
Placed(k) ==
  spc[k] = "save" =>
    \/ recent[k].arr = sfresh[k].short.arr /\ End(recent[k]) = End(sfresh[k].short)
    \/ /\ recent[k].arr \notin HeldArrays
       /\ \A j \in Summarizers \ {k} : recent[j].arr # recent[k].arr

\* If AddMessage's context is still the stored one, what it is about to store is that
\* with one turn more, in the same place or in an array of its own.
Saving(w) ==
  wpc[w] = "save" /\ IsStored(wctx[w]) =>
    /\ wnew[w].len = store.short.len + 1
    /\ IsPrefixOf(CellsIn(heap, store.short), CellsIn(heap, wnew[w]))
    /\ \/ SamePlace(store.short, wnew[w])
       \/ /\ wnew[w].len > CapacityIn(heap, store.short)
          /\ wnew[w].arr \notin HeldArrays
          /\ \A k \in Summarizers : recent[k].arr # wnew[w].arr

\* What holds until something is damaged or the session is deleted.
Agreed ==
  /\ AllHeld
  /\ \A k \in Summarizers : Reloaded(k) /\ Folded(k) /\ Placed(k)
  /\ \A w \in Writers : Saving(w)

LEMMA ExplicitHeap ==
  /\ Context = ContextIn(heap) /\ Slice = SliceIn(heap)
  /\ \A c : Log(c) = LogIn(heap, c)
  /\ \A s : Turns(s) = CellsIn(heap, s) /\ Capacity(s) = CapacityIn(heap, s)
BY Unfolded DEF Context, ContextIn, Log, LogIn

LEMMA HeldContexts ==
  ASSUME Typed
  PROVE  /\ heap \in Seq(Array)
         /\ store \in ContextIn(heap) /\ store.short \in SliceIn(heap)
         /\ Empty \in ContextIn(heap) /\ Empty.short = Nil /\ Nil \in SliceIn(heap)
         /\ \A w \in Writers : /\ wctx[w] \in ContextIn(heap) /\ wctx[w].short \in SliceIn(heap)
                               /\ wnew[w] \in SliceIn(heap)
         /\ \A k \in Summarizers : /\ sctx[k] \in ContextIn(heap) /\ sctx[k].short \in SliceIn(heap)
                                   /\ sfresh[k] \in ContextIn(heap) /\ sfresh[k].short \in SliceIn(heap)
                                   /\ recent[k] \in SliceIn(heap)
BY TypedDetails, ExplicitHeap, EmptyContext, ContextFields

LEMMA StoredFields ==
  ASSUME Typed, NEW c \in ContextIn(heap)
  PROVE  IsStored(c) <=> /\ c.version = store.version
                         /\ c.long = store.long
                         /\ c.short = store.short
<1>1. /\ store = [version |-> store.version, long |-> store.long, short |-> store.short,
                  current |-> store.current]
      /\ c = [version |-> c.version, long |-> c.long, short |-> c.short, current |-> c.current]
  BY HeldContexts DEF ContextIn
<1> QED
  BY <1>1 DEF IsStored

LEMMA AgreedInit == Init => Agreed
<1> SUFFICES ASSUME Init PROVE Agreed
  OBVIOUS
<1>1. Typed
  BY TypedInit
<1>2. /\ store = Empty
      /\ \A w \in Writers : wctx[w] = Empty /\ wpc[w] = "idle"
      /\ \A k \in Summarizers : sctx[k] = Empty /\ sfresh[k] = Empty /\ spc[k] = "idle"
  BY DEF Init
<1>3. HeldIn(heap, Empty, Empty)
  BY <1>1, HeldContexts, HeldReflexive
<1> QED
  BY <1>2, <1>3 DEF Agreed, AllHeld, Reloaded, Folded, Placed, Saving

-----------------------------------------------------------------------------
(* Steps that read *)

\* Steps that leave the arrays and what is stored, and hand out slices of it.
LEMMA AgreedReads ==
  ASSUME Agreed, UNCHANGED <<heap, store, wnew>>,
         \A w \in Writers : HeldIn(heap, wctx'[w], store),
         \A k \in Summarizers : HeldIn(heap, sctx'[k], store) /\ HeldIn(heap, sfresh'[k], store),
         \A w \in Writers : wctx'[w].short.arr \in HeldArrays,
         \A k \in Summarizers : /\ sctx'[k].short.arr \in HeldArrays
                                /\ sfresh'[k].short.arr \in HeldArrays
                                /\ recent'[k].arr = recent[k].arr \/ recent'[k].arr \in HeldArrays,
         \A w \in Writers : wpc'[w] = "save" => wpc[w] = "save" /\ wctx'[w] = wctx[w],
         \A k \in Summarizers :
           spc'[k] = "save" => spc[k] = "save" /\ sfresh'[k] = sfresh[k] /\ recent'[k] = recent[k],
         \A k \in Summarizers : Reloaded(k)' /\ Folded(k)'
  PROVE  Agreed'
<1>1. HeldArrays' \subseteq HeldArrays
  <2>1. 0 \in HeldArrays /\ store.short.arr \in HeldArrays
    BY DEF HeldArrays
  <2>2. HeldArrays' = {0, store.short.arr} \cup {wctx'[w].short.arr : w \in Writers}
           \cup {sctx'[k].short.arr : k \in Summarizers} \cup {sfresh'[k].short.arr : k \in Summarizers}
    BY DEF HeldArrays
  <2> HIDE DEF HeldArrays
  <2> QED
    BY <2>1, <2>2
<1>2. AllHeld'
  BY DEF Agreed, AllHeld
<1>3. ASSUME NEW k \in Summarizers PROVE Placed(k)'
  <2> SUFFICES ASSUME spc'[k] = "save"
               PROVE  \/ recent'[k].arr = sfresh'[k].short.arr /\ End(recent'[k]) = End(sfresh'[k].short)
                      \/ /\ recent'[k].arr \notin HeldArrays'
                         /\ \A j \in Summarizers \ {k} : recent'[j].arr # recent'[k].arr
    BY DEF Placed
  <2>1. spc[k] = "save" /\ sfresh'[k] = sfresh[k] /\ recent'[k] = recent[k]
    OBVIOUS
  <2>2. \/ recent[k].arr = sfresh[k].short.arr /\ End(recent[k]) = End(sfresh[k].short)
        \/ /\ recent[k].arr \notin HeldArrays
           /\ \A j \in Summarizers \ {k} : recent[j].arr # recent[k].arr
    BY <2>1 DEF Agreed, Placed
  <2> QED
    BY <1>1, <2>1, <2>2
<1>4. ASSUME NEW w \in Writers PROVE Saving(w)'
  <2> SUFFICES ASSUME wpc'[w] = "save", IsStored(wctx[w])', wctx'[w] = wctx[w]
               PROVE  Saving(w)'
    BY DEF Saving
  <2>1. wpc[w] = "save" /\ IsStored(wctx[w])
    BY DEF IsStored
  <2>2. Saving(w)
    BY DEF Agreed
  <2> QED
    BY <1>1, <2>1, <2>2 DEF Saving
<1> QED
  BY <1>2, <1>3, <1>4 DEF Agreed

LEMMA HeldArraysMembers ==
  /\ 0 \in HeldArrays /\ store.short.arr \in HeldArrays
  /\ \A w \in Writers : wctx[w].short.arr \in HeldArrays
  /\ \A k \in Summarizers : sctx[k].short.arr \in HeldArrays /\ sfresh[k].short.arr \in HeldArrays
BY DEF HeldArrays

LEMMA AgreedWriterReads ==
  ASSUME Typed, Agreed, NEW w \in Writers,
         (w \in Answers /\ Ask(w)) \/ Attach(w) \/ Answered(w) \/ Get(w)
  PROVE  Agreed'
<1>1. UNCHANGED <<heap, store, wnew, spc, sctx, summary, sfresh, recent>>
  BY DEF Ask, Attach, Answered, Get, memoryVars, summarizerVars
<1>2. PICK there : wpc' = [wpc EXCEPT ![w] = there] /\ there # "save"
  <2>1. \E there \in {"attach", "prompt", "answer", "done", "append"} : wpc' = [wpc EXCEPT ![w] = there]
    BY DEF Ask, Attach, Answered, Get, GoesTo
  <2> QED
    BY <2>1
<1>3. PICK c : wctx' = [wctx EXCEPT ![w] = c] /\ HeldIn(heap, c, store) /\ c.short.arr \in HeldArrays
  <2>1. CASE Ask(w)
    BY <2>1, HeldContexts, HeldReflexive, HeldArraysMembers DEF Ask
  <2>2. CASE Attach(w)
    <3>1. wctx' = [wctx EXCEPT ![w] = Attached(wctx[w])]
      BY <2>2 DEF Attach
    <3>2. /\ Attached(wctx[w]).version = wctx[w].version
          /\ Attached(wctx[w]).long = wctx[w].long
          /\ Attached(wctx[w]).short = wctx[w].short
      BY TypedDetails, AttachedContext
    <3>3. HeldIn(heap, wctx[w], store)
      BY DEF Agreed, AllHeld
    <3>4. HeldIn(heap, Attached(wctx[w]), store)
      BY <3>2, <3>3 DEF HeldIn, FollowsIn, LogIn
    <3> QED
      BY <3>1, <3>2, <3>4, HeldArraysMembers
  <2>3. CASE Answered(w)
    <3>1. wctx' = [wctx EXCEPT ![w] = Empty]
      BY <2>3 DEF Answered
    <3> QED
      BY <3>1, EmptyContext, NilFields, HeldArraysMembers DEF Agreed, AllHeld
  <2>4. CASE Get(w)
    <3> DEFINE c == [store EXCEPT !.current = 0]
    <3>1. wctx' = [wctx EXCEPT ![w] = c]
      BY <2>4 DEF Get
    <3>2. c.version = store.version /\ c.long = store.long /\ c.short = store.short
      BY TypedDetails, DetachedContext
    <3> HIDE DEF c
    <3>3. HeldIn(heap, store, store)
      BY HeldContexts, HeldReflexive
    <3>4. HeldIn(heap, c, store)
      BY <3>2, <3>3 DEF HeldIn, FollowsIn, LogIn
    <3> QED
      BY <3>1, <3>2, <3>4, HeldArraysMembers
  <2> QED
    BY <2>1, <2>2, <2>3, <2>4
<1>4. \A v \in Writers : /\ wctx'[v] = IF v = w THEN c ELSE wctx[v]
                         /\ wpc'[v] = IF v = w THEN there ELSE wpc[v]
  BY <1>2, <1>3, TypedDetails
<1>5. \A k \in Summarizers : Reloaded(k)' /\ Folded(k)'
  BY <1>1 DEF Agreed, Reloaded, Folded
<1>6. \A v \in Writers : HeldIn(heap, wctx'[v], store) /\ wctx'[v].short.arr \in HeldArrays
  BY <1>3, <1>4, HeldArraysMembers DEF Agreed, AllHeld
<1>7. \A v \in Writers : wpc'[v] = "save" => wpc[v] = "save" /\ wctx'[v] = wctx[v]
  BY <1>2, <1>4
<1>8. \A k \in Summarizers : /\ HeldIn(heap, sctx'[k], store) /\ HeldIn(heap, sfresh'[k], store)
                             /\ sctx'[k].short.arr \in HeldArrays
                             /\ sfresh'[k].short.arr \in HeldArrays
  BY <1>1, HeldArraysMembers DEF Agreed, AllHeld
<1> QED
  BY <1>1, <1>5, <1>6, <1>7, <1>8, AgreedReads

\* Steps of the pump and of a launched goroutine that touch nothing of this.
LEMMA AgreedOthers ==
  ASSUME Typed, Agreed, PartialTranscript \/ FinalTranscript \/ NothingToSummarize \/ UNCHANGED vars
  PROVE  Agreed'
<1>1. UNCHANGED <<heap, store, wctx, wnew, spc, sctx, summary, sfresh, recent>>
  BY DEF PartialTranscript, FinalTranscript, NothingToSummarize, SummarizerUnchanged, vars,
         memoryVars, writerVars, summarizerVars
<1>2. \A w \in Writers : wpc'[w] = "save" => wpc[w] = "save"
  <2>1. wpc' = wpc \/ wpc' = [wpc EXCEPT ![Pump] = "get"]
    BY DEF PartialTranscript, FinalTranscript, NothingToSummarize, SummarizerUnchanged, vars,
           writerVars, GoesTo
  <2> QED
    BY <2>1, TypedDetails
<1>3. \A k \in Summarizers : Reloaded(k)' /\ Folded(k)'
  BY <1>1 DEF Agreed, Reloaded, Folded
<1>4. /\ \A w \in Writers : HeldIn(heap, wctx'[w], store) /\ wctx'[w].short.arr \in HeldArrays
      /\ \A k \in Summarizers : /\ HeldIn(heap, sctx'[k], store) /\ HeldIn(heap, sfresh'[k], store)
                                /\ sctx'[k].short.arr \in HeldArrays
                                /\ sfresh'[k].short.arr \in HeldArrays
  BY <1>1, HeldArraysMembers DEF Agreed, AllHeld
<1> QED
  BY <1>1, <1>2, <1>3, <1>4, AgreedReads

\* The registers of one CreateSummary change.
LEMMA AgreedRegisters ==
  ASSUME Typed, Agreed, NEW k \in Summarizers, UNCHANGED <<heap, store, wpc, wctx, wnew>>,
         NEW pc, spc' = [spc EXCEPT ![k] = pc], pc # "save",
         NEW c, sctx' = [sctx EXCEPT ![k] = c],
         HeldIn(heap, c, store), c.short.arr \in HeldArrays,
         NEW d, sfresh' = [sfresh EXCEPT ![k] = d],
         HeldIn(heap, d, store), d.short.arr \in HeldArrays,
         NEW text, summary' = [summary EXCEPT ![k] = text],
         NEW r, recent' = [recent EXCEPT ![k] = r],
         r.arr = recent[k].arr \/ r.arr \in HeldArrays,
         pc \in {"compare", "merge"} => FollowsIn(heap, c, d),
         pc = "merge" => c.version = d.version,
         pc \in {"reload", "compare", "merge"} => text = <<>> \/ Folds(heap, text, r, c)
  PROVE  Agreed'
<1>1. \A j \in Summarizers : /\ spc'[j] = IF j = k THEN pc ELSE spc[j]
                             /\ sctx'[j] = IF j = k THEN c ELSE sctx[j]
                             /\ sfresh'[j] = IF j = k THEN d ELSE sfresh[j]
                             /\ recent'[j] = IF j = k THEN r ELSE recent[j]
  BY TypedDetails
<1>2. \A j \in Summarizers : summary'[j] = IF j = k THEN text ELSE summary[j]
  BY TypedDetails, Zenon
<1>3. ASSUME NEW j \in Summarizers PROVE Reloaded(j)'
  BY <1>1 DEF Agreed, Reloaded
<1>4. ASSUME NEW j \in Summarizers PROVE Folded(j)'
  <2>1. CASE j = k
    BY <1>1, <1>2, <2>1 DEF Folded
  <2>2. CASE j # k
    <3>1. /\ spc'[j] = spc[j] /\ sctx'[j] = sctx[j] /\ sfresh'[j] = sfresh[j]
          /\ recent'[j] = recent[j] /\ summary'[j] = summary[j]
      BY <1>1, <1>2, <2>2
    <3> QED
      BY <3>1 DEF Agreed, Folded
  <2> QED
    BY <2>1, <2>2
<1>5. \A w \in Writers : HeldIn(heap, wctx'[w], store) /\ wctx'[w].short.arr \in HeldArrays
  BY HeldArraysMembers DEF Agreed, AllHeld
<1>6. \A j \in Summarizers : /\ HeldIn(heap, sctx'[j], store) /\ HeldIn(heap, sfresh'[j], store)
                             /\ sctx'[j].short.arr \in HeldArrays
                             /\ sfresh'[j].short.arr \in HeldArrays
  BY <1>1, HeldArraysMembers DEF Agreed, AllHeld
<1>7. \A j \in Summarizers : recent'[j].arr = recent[j].arr \/ recent'[j].arr \in HeldArrays
  BY <1>1
<1>8. \A j \in Summarizers :
        spc'[j] = "save" => spc[j] = "save" /\ sfresh'[j] = sfresh[j] /\ recent'[j] = recent[j]
  BY <1>1
<1> QED
  BY <1>3, <1>4, <1>5, <1>6, <1>7, <1>8, AgreedReads

LEMMA AgreedFinish ==
  ASSUME Typed, Agreed, NEW k \in Summarizers, UNCHANGED <<heap, store, wpc, wctx, wnew>>, Finish(k)
  PROVE  Agreed'
<1>1. HeldIn(heap, Empty, store) /\ Empty.short.arr \in HeldArrays /\ Nil.arr \in HeldArrays
  BY EmptyContext, NilFields, HeldArraysMembers DEF Agreed, AllHeld
<1>2. /\ spc' = [spc EXCEPT ![k] = "idle"]
      /\ sctx' = [sctx EXCEPT ![k] = Empty]
      /\ summary' = [summary EXCEPT ![k] = <<>>]
      /\ sfresh' = [sfresh EXCEPT ![k] = Empty]
      /\ recent' = [recent EXCEPT ![k] = Nil]
  BY DEF Finish
<1>3. "idle" # "save" /\ "idle" \notin {"compare", "merge"} /\ "idle" # "merge"
      /\ "idle" \notin {"reload", "compare", "merge"}
  OBVIOUS
<1> QED
  BY <1>1, <1>2, <1>3, AgreedRegisters, Zenon

LEMMA SummaryFolds ==
  ASSUME Typed, NEW k \in Summarizers, IsSplit(k)
  PROVE  Folds(heap, sctx[k].long \o OlderTurns(k), recent[k], sctx[k])
<1> DEFINE s == sctx[k].short
           e == recent[k]
           older == SubSeq(CellsIn(heap, s), 1, s.len - e.len)
           long == sctx[k].long
           rest == CellsIn(heap, e)
<1>1. heap \in Seq(Array) /\ s \in SliceIn(heap) /\ e \in SliceIn(heap) /\ sctx[k] \in ContextIn(heap)
  BY HeldContexts
<1>2. /\ CellsIn(heap, s) = older \o rest
      /\ older \in Seq(Turn)
      /\ Len(older) = s.len - e.len
  <2>1. e.arr = s.arr /\ e.len \in 1..(s.len - 1) /\ e.off + e.len = s.off + s.len
    BY DEF IsSplit
  <2> HIDE DEF s, e
  <2> QED
    BY <1>1, <2>1, SuffixCells
<1>3. older = OlderTurns(k)
  BY ExplicitHeap DEF OlderTurns
<1>4. long \in Seq(Turn) /\ rest \in Seq(Turn) /\ Len(long) \in Nat
  BY <1>1, LogProperties, CellsProperties
<1>5. Len(older) \in Nat /\ Len(older) > 0
  <2>1. s.len \in Nat /\ e.len \in 1..(s.len - 1)
    BY <1>1, CellsProperties, MessagesAssumption DEF IsSplit
  <2> QED
    BY <1>2, <2>1
<1>l. long = sctx[k].long
  OBVIOUS
<1> HIDE DEF older, rest, long, Turn
<1>6. (long \o older) \o rest = long \o (older \o rest)
  BY <1>2, <1>4, ConcatAssociative
<1>7. Len(long \o older) = Len(long) + Len(older)
  BY <1>2, <1>4, ConcatProperties
<1>8. LogIn(heap, sctx[k]) = long \o (older \o rest)
  BY <1>2, <1>l DEF LogIn
<1>9. Len(long \o older) > Len(long)
  BY <1>4, <1>5, <1>7
<1> QED
  BY <1>3, <1>6, <1>8, <1>9, <1>l DEF Folds, rest

LEMMA AgreedSummarizerReads ==
  ASSUME Typed, Agreed, NEW k \in Summarizers,
         Load(k) \/ Summarize(k) \/ SummarizeFails(k) \/ Reload(k) \/ Compare(k)
  PROVE  Agreed'
<1>a. UNCHANGED <<heap, store, wpc, wctx, wnew>>
  BY DEF Load, Summarize, SummarizeFails, Reload, Compare, SummarizerUnchanged, memoryVars, writerVars
<1>b. /\ HeldIn(heap, store, store) /\ store.short.arr \in HeldArrays
      /\ HeldIn(heap, sctx[k], store) /\ sctx[k].short.arr \in HeldArrays
      /\ HeldIn(heap, sfresh[k], store) /\ sfresh[k].short.arr \in HeldArrays
  BY HeldContexts, HeldReflexive, HeldArraysMembers DEF Agreed, AllHeld
<1>c. /\ sctx = [sctx EXCEPT ![k] = sctx[k]]
      /\ summary = [summary EXCEPT ![k] = summary[k]]
      /\ sfresh = [sfresh EXCEPT ![k] = sfresh[k]]
      /\ recent = [recent EXCEPT ![k] = recent[k]]
  BY SameRegisters
<1>d. /\ "summarize" # "save" /\ "reload" # "save" /\ "compare" # "save" /\ "merge" # "save"
      /\ "summarize" \notin {"compare", "merge"} /\ "summarize" \notin {"reload", "compare", "merge"}
      /\ "reload" \notin {"compare", "merge"}
      /\ "summarize" # "merge" /\ "reload" # "merge" /\ "compare" # "merge"
  OBVIOUS
<1>1. CASE Load(k)
  <2> DEFINE older == SplitIndex(Turns(store.short))
             r == Suffix(store.short, older)
  <2>1. /\ spc' = [spc EXCEPT ![k] = "summarize"]
        /\ sctx' = [sctx EXCEPT ![k] = store]
        /\ recent' = [recent EXCEPT ![k] = r]
        /\ summary' = summary /\ sfresh' = sfresh
        /\ Len(Turns(store.short)) > 1
    BY <1>1 DEF Load, Suffix
  <2>2. r.arr = store.short.arr
    BY <2>1, LoadedSplit
  <2> HIDE DEF r
  <2> QED
    BY <1>a, <1>b, <1>c, <1>d, <2>1, <2>2, AgreedRegisters, Zenon
<1>2. CASE Summarize(k)
  <2>1. /\ spc[k] = "summarize" /\ spc' = [spc EXCEPT ![k] = "reload"]
        /\ UNCHANGED <<sctx, sfresh, recent>>
    BY <1>2 DEF Summarize
  <2>2. Folds(heap, sctx[k].long \o OlderTurns(k), recent[k], sctx[k])
    BY <2>1, SummaryFolds DEF Typed, Splits
  <2>3. PICK text : /\ summary' = [summary EXCEPT ![k] = text]
                    /\ text = <<>> \/ Folds(heap, text, recent[k], sctx[k])
    BY <1>2, <2>2, Zenon DEF Summarize
  <2>4. /\ sctx' = [sctx EXCEPT ![k] = sctx[k]]
        /\ sfresh' = [sfresh EXCEPT ![k] = sfresh[k]]
        /\ recent' = [recent EXCEPT ![k] = recent[k]]
    BY <1>c, <2>1
  <2>5. spc' = [spc EXCEPT ![k] = "reload"]
    BY <2>1
  <2> QED
    BY <1>a, <1>b, <1>d, <2>3, <2>4, <2>5, AgreedRegisters, Zenon
<1>3. CASE SummarizeFails(k)
  BY <1>3, <1>a, AgreedFinish DEF SummarizeFails
<1>4. CASE Reload(k)
  <2>1. /\ spc[k] = "reload" /\ spc' = [spc EXCEPT ![k] = "compare"]
        /\ sfresh' = [sfresh EXCEPT ![k] = store]
        /\ UNCHANGED <<sctx, summary, recent>>
    BY <1>4 DEF Reload
  <2>2. FollowsIn(heap, sctx[k], store)
    BY <1>b DEF HeldIn
  <2>3. summary[k] = <<>> \/ Folds(heap, summary[k], recent[k], sctx[k])
    BY <2>1 DEF Agreed, Folded
  <2>4. /\ sctx' = [sctx EXCEPT ![k] = sctx[k]]
        /\ summary' = [summary EXCEPT ![k] = summary[k]]
        /\ recent' = [recent EXCEPT ![k] = recent[k]]
    BY <1>c, <2>1
  <2>5. spc' = [spc EXCEPT ![k] = "compare"] /\ sfresh' = [sfresh EXCEPT ![k] = store]
    BY <2>1
  <2> QED
    BY <1>a, <1>b, <1>d, <2>2, <2>3, <2>4, <2>5, AgreedRegisters, Zenon
<1>5. CASE Compare(k)
  <2>1. CASE Finish(k)
    BY <2>1, <1>a, AgreedFinish
  <2>2. CASE ~Finish(k)
    <3>1. /\ spc[k] = "compare" /\ spc' = [spc EXCEPT ![k] = "merge"]
          /\ sfresh[k].version = sctx[k].version
          /\ sfresh' = [sfresh EXCEPT ![k] = Attached(sfresh[k])]
          /\ UNCHANGED <<sctx, summary, recent>>
      BY <1>5, <2>2 DEF Compare
    <3>2. /\ Attached(sfresh[k]).version = sfresh[k].version
          /\ Attached(sfresh[k]).long = sfresh[k].long
          /\ Attached(sfresh[k]).short = sfresh[k].short
      BY TypedDetails, AttachedContext
    <3>3. FollowsIn(heap, sctx[k], sfresh[k])
      BY <3>1 DEF Agreed, Reloaded
    <3> DEFINE d == Attached(sfresh[k])
    <3>4. FollowsIn(heap, sctx[k], d) /\ HeldIn(heap, d, store) /\ d.short.arr \in HeldArrays
          /\ sctx[k].version = d.version
      <4> HIDE DEF d
      <4>1. d.version = sfresh[k].version /\ d.long = sfresh[k].long /\ d.short = sfresh[k].short
        BY <3>2 DEF d
      <4> QED
        BY <1>b, <3>1, <3>3, <4>1 DEF HeldIn, FollowsIn, LogIn
    <3>5. summary[k] = <<>> \/ Folds(heap, summary[k], recent[k], sctx[k])
      BY <3>1 DEF Agreed, Folded
    <3>6. /\ sctx' = [sctx EXCEPT ![k] = sctx[k]]
          /\ summary' = [summary EXCEPT ![k] = summary[k]]
          /\ recent' = [recent EXCEPT ![k] = recent[k]]
          /\ sfresh' = [sfresh EXCEPT ![k] = d]
      BY <1>c, <3>1
    <3> HIDE DEF d
    <3> QED
      BY <1>a, <1>b, <1>d, <3>1, <3>4, <3>5, <3>6, AgreedRegisters, Zenon
  <2> QED
    BY <2>1, <2>2
<1> QED
  BY <1>1, <1>2, <1>3, <1>4, <1>5

-----------------------------------------------------------------------------
(* Steps that write arrays *)

\* append leaves the turns of a slice that ends before those it writes.
LEMMA AppendLeaves ==
  ASSUME NEW h \in Seq(Array), NEW s \in SliceIn(h), NEW new \in Seq(Turn), new # <<>>,
         NEW t \in SliceIn(h),
         Fits(h, s, new) /\ t.arr = s.arr => End(t) <= End(s)
  PROVE  SameCells(h, HeapExtendedIn(h, s, new), t)
<1> DEFINE h2 == HeapExtendedIn(h, s, new)
<1> SUFFICES ASSUME NEW i \in (t.off + 1)..(t.off + t.len)
             PROVE  h2[t.arr][i] = h[t.arr][i]
  BY DEF SameCells
<1>1. t.off \in Nat /\ t.len \in Nat /\ s.off \in Nat /\ s.len \in Nat
  BY CellsProperties, MessagesAssumption
<1>2. t # Nil
  BY <1>1, NilFields
<1>3. t.arr \in 1..Len(h) /\ t.off + t.len <= Len(h[t.arr]) /\ Len(h[t.arr]) \in Nat
  BY <1>2, SliceRange
<1>4. CASE Fits(h, s, new)
  <2>1. i \in 1..Len(h[t.arr])
    BY <1>1, <1>3
  <2>2. h2[t.arr][i] = IF t.arr = s.arr /\ i - s.off - s.len \in 1..Len(new)
                       THEN new[i - s.off - s.len] ELSE h[t.arr][i]
    BY <1>3, <1>4, <2>1, ExtendedInPlace
  <2>3. t.arr = s.arr => ~(i - s.off - s.len \in 1..Len(new))
    BY <1>1, <1>4 DEF End
  <2> QED
    BY <2>2, <2>3
<1>5. CASE ~Fits(h, s, new)
  BY <1>3, <1>5, ExtendedElsewhere
<1> QED
  BY <1>4, <1>5

\* append leaves all turns when what it writes is there already.
LEMMA RewriteLeaves ==
  ASSUME NEW h \in Seq(Array), NEW s \in SliceIn(h), NEW new \in Seq(Turn), new # <<>>,
         Fits(h, s, new) => \A j \in 1..Len(new) : h[s.arr][End(s) + j] = new[j],
         NEW t \in SliceIn(h)
  PROVE  SameCells(h, HeapExtendedIn(h, s, new), t)
<1> DEFINE h2 == HeapExtendedIn(h, s, new)
<1> SUFFICES ASSUME NEW i \in (t.off + 1)..(t.off + t.len)
             PROVE  h2[t.arr][i] = h[t.arr][i]
  BY DEF SameCells
<1>1. t.off \in Nat /\ t.len \in Nat /\ s.off \in Nat /\ s.len \in Nat
  BY CellsProperties, MessagesAssumption
<1>2. t # Nil
  BY <1>1, NilFields
<1>3. t.arr \in 1..Len(h) /\ t.off + t.len <= Len(h[t.arr]) /\ Len(h[t.arr]) \in Nat
  BY <1>2, SliceRange
<1>4. CASE Fits(h, s, new)
  <2>1. i \in 1..Len(h[t.arr])
    BY <1>1, <1>3
  <2> DEFINE j == i - s.off - s.len
  <2>2. h2[t.arr][i] = IF t.arr = s.arr /\ j \in 1..Len(new) THEN new[j] ELSE h[t.arr][i]
    BY <1>3, <1>4, <2>1, ExtendedInPlace
  <2>3. End(s) + j = i
    BY <1>1, <2>1 DEF End
  <2> HIDE DEF j
  <2>4. t.arr = s.arr /\ j \in 1..Len(new) => new[j] = h[t.arr][i]
    BY <1>4, <2>3
  <2> QED
    BY <2>2, <2>4
<1>5. CASE ~Fits(h, s, new)
  BY <1>3, <1>5, ExtendedElsewhere
<1> QED
  BY <1>4, <1>5

\* What is held stays held, when its cells stay as they are.
LEMMA HeldAfterWrite ==
  ASSUME Typed, Agreed, Grown(heap, heap'), UNCHANGED <<store, wctx, sctx, sfresh>>,
         \A t \in SliceIn(heap) :
           (t.arr = store.short.arr => End(t) <= End(store.short)) => SameCells(heap, heap', t)
  PROVE  /\ AllHeld'
         /\ HeldArrays' = HeldArrays
         /\ \A k \in Summarizers : /\ FollowsIn(heap', sctx[k], sfresh[k]) <=> FollowsIn(heap, sctx[k], sfresh[k])
                                   /\ LogIn(heap', sctx[k]) = LogIn(heap, sctx[k])
                                   /\ LogIn(heap', sfresh[k]) = LogIn(heap, sfresh[k])
         /\ CellsIn(heap', store.short) = CellsIn(heap, store.short)
         /\ CapacityIn(heap', store.short) = CapacityIn(heap, store.short)
         /\ LogIn(heap', store) = LogIn(heap, store)
<1>1. /\ heap \in Seq(Array) /\ store \in ContextIn(heap) /\ Empty \in ContextIn(heap)
      /\ \A w \in Writers : wctx[w] \in ContextIn(heap)
      /\ \A k \in Summarizers : sctx[k] \in ContextIn(heap) /\ sfresh[k] \in ContextIn(heap)
  BY HeldContexts
<1>2. \A c \in ContextIn(heap) : HeldIn(heap, c, store) => SameCells(heap, heap', c.short)
  BY LogProperties, <1>1 DEF HeldIn
<1>3. HeldIn(heap, store, store)
  BY <1>1, HeldReflexive
<1>4. SameCells(heap, heap', store.short)
  BY <1>1, <1>2, <1>3
<1>5. \A c \in ContextIn(heap) : HeldIn(heap, c, store) => HeldIn(heap', c, store)
  BY <1>1, <1>2, <1>4, HeldStable
<1>6. AllHeld'
  BY <1>1, <1>5 DEF Agreed, AllHeld
<1>7. HeldArrays' = HeldArrays
  BY DEF HeldArrays
<1>8. ASSUME NEW k \in Summarizers
      PROVE  /\ FollowsIn(heap', sctx[k], sfresh[k]) <=> FollowsIn(heap, sctx[k], sfresh[k])
             /\ LogIn(heap', sctx[k]) = LogIn(heap, sctx[k])
             /\ LogIn(heap', sfresh[k]) = LogIn(heap, sfresh[k])
  <2>1. SameCells(heap, heap', sctx[k].short) /\ SameCells(heap, heap', sfresh[k].short)
    BY <1>1, <1>2 DEF Agreed, AllHeld
  <2> QED
    BY <1>1, <2>1, HeldStable, SameCellsSameContext
<1> QED
  BY <1>1, <1>4, <1>6, <1>7, <1>8, SameCellsSameContext

\* recentMessages stays as it is too, while it counts.
LEMMA RecentAfterWrite ==
  ASSUME Typed, Agreed, Grown(heap, heap'),
         \A t \in SliceIn(heap) :
           (t.arr = store.short.arr => End(t) <= End(store.short)) => SameCells(heap, heap', t),
         NEW k \in Summarizers, spc[k] \in {"reload", "compare", "merge", "save"}
  PROVE  CellsIn(heap', recent[k]) = CellsIn(heap, recent[k])
<1>1. /\ heap \in Seq(Array) /\ recent[k] \in SliceIn(heap)
      /\ HeldIn(heap, sctx[k], store) /\ HeldIn(heap, sfresh[k], store)
  BY HeldContexts DEF Agreed, AllHeld
<1>2. recent[k].arr = store.short.arr => End(recent[k]) <= End(store.short)
  <2>1. CASE spc[k] = "save"
    <3>1. \/ recent[k].arr = sfresh[k].short.arr /\ End(recent[k]) = End(sfresh[k].short)
          \/ recent[k].arr \notin HeldArrays
      BY <2>1 DEF Agreed, Placed
    <3> QED
      BY <1>1, <3>1, HeldArraysMembers DEF HeldIn
  <2>2. CASE spc[k] # "save"
    <3>1. recent[k].arr = sctx[k].short.arr /\ End(recent[k]) = End(sctx[k].short)
      BY <2>2 DEF Typed, Splits, IsSplit, End
    <3> QED
      BY <1>1, <3>1 DEF HeldIn
  <2> QED
    BY <2>1, <2>2
<1> QED
  BY <1>1, <1>2, SameCellsSameTurns

\* So does what another AddMessage is about to store.
LEMMA SavingAfterWrite ==
  ASSUME Typed, Agreed, Grown(heap, heap'), UNCHANGED <<store, wctx, sctx, sfresh>>,
         \A t \in SliceIn(heap) :
           (t.arr = store.short.arr => End(t) <= End(store.short)) => SameCells(heap, heap', t),
         NEW w \in Writers, wpc'[w] = wpc[w], wnew'[w] = wnew[w],
         \A k \in Summarizers : recent'[k].arr = recent[k].arr \/ recent'[k].arr = Len(heap) + 1
  PROVE  Saving(w)'
<1> SUFFICES ASSUME wpc[w] = "save", IsStored(wctx[w])
             PROVE  Saving(w)'
  BY DEF Saving, IsStored
<1> DEFINE s == store.short
           e == wnew[w]
<1>1. /\ heap \in Seq(Array) /\ s \in SliceIn(heap) /\ e \in SliceIn(heap) /\ heap' \in Seq(Array)
  BY HeldContexts DEF Grown
<1>2. /\ e.len = s.len + 1
      /\ IsPrefixOf(CellsIn(heap, s), CellsIn(heap, e))
      /\ \/ SamePlace(s, e)
         \/ /\ e.len > CapacityIn(heap, s)
            /\ e.arr \notin HeldArrays
            /\ \A k \in Summarizers : recent[k].arr # e.arr
  BY DEF Agreed, Saving
<1>3. /\ HeldArrays' = HeldArrays
      /\ CellsIn(heap', s) = CellsIn(heap, s)
      /\ CapacityIn(heap', s) = CapacityIn(heap, s)
  BY HeldAfterWrite
<1> HIDE DEF s, e
<1>4. IsPrefixOf(CellsIn(heap', s), CellsIn(heap', e))
  <2>1. CASE SamePlace(s, e)
    <3>1. s \in SliceIn(heap') /\ e \in SliceIn(heap') /\ s.len <= e.len
      BY <1>1, <1>2, GrownKeepsSlices, CellsProperties, MessagesAssumption
    <3> QED
      BY <1>1, <2>1, <3>1, SamePlaceCells
  <2>2. CASE e.arr \notin HeldArrays
    <3>1. e.arr # store.short.arr
      BY <2>2, HeldArraysMembers
    <3>2. CellsIn(heap', e) = CellsIn(heap, e)
      BY <1>1, <3>1, SameCellsSameTurns
    <3> QED
      BY <1>2, <1>3, <3>2
  <2> QED
    BY <1>2, <2>1, <2>2
<1>5. e.arr # Len(heap) + 1
  <2>1. e.arr \in 0..Len(heap) /\ Len(heap) \in Nat
    BY <1>1, CellsProperties
  <2> QED
    BY <2>1
<1>6. \/ SamePlace(s, e)
      \/ /\ e.len > CapacityIn(heap', s)
         /\ e.arr \notin HeldArrays'
         /\ \A k \in Summarizers : recent'[k].arr # e.arr
  BY <1>2, <1>3, <1>5
<1>7. wnew'[w] = e /\ store'.short = s
  BY DEF e, s
<1> QED
  BY <1>2, <1>4, <1>6, <1>7 DEF Saving

\* AddMessage's append, to the context that is stored.
LEMMA AppendTurnStep ==
  ASSUME Typed, Agreed, NEW w \in Writers, AppendTurn(w), ~damaged'
  PROVE  LET s == store.short
         IN  /\ s \in SliceIn(heap) /\ heap \in Seq(Array)
             /\ Added(w) \in Seq(Turn) /\ Len(Added(w)) = 1 /\ Added(w) # <<>>
             /\ s.len + Len(Added(w)) <= MaxMessages
             /\ heap' = HeapExtendedIn(heap, s, Added(w))
             /\ wnew' = [wnew EXCEPT ![w] = ExtendedIn(heap, s, Added(w))]
             /\ Grown(heap, heap')
             /\ \A t \in SliceIn(heap) : (t.arr = s.arr => End(t) <= End(s)) => SameCells(heap, heap', t)
<1> DEFINE s == store.short
           new == Added(w)
<1>1. IsStored(wctx[w]) /\ wpc[w] = "append"
  BY DEF AppendTurn, GoesTo
<1>2. wctx[w].short = s
  BY <1>1, HeldContexts, StoredFields
<1>3. /\ heap' = HeapExtendedIn(heap, s, new)
      /\ wnew' = [wnew EXCEPT ![w] = ExtendedIn(heap, s, new)]
  BY <1>2, Unfolded DEF AppendTurn
<1>4. new \in Seq(Turn) /\ Len(new) = 1 /\ new # <<>>
  BY <1>1, AddedType
<1>5. Grown(heap, heap') /\ Typed'
  BY TypedAppendTurn
<1>6. heap \in Seq(Array) /\ s \in SliceIn(heap)
  BY HeldContexts
<1>7. s.len + Len(new) <= MaxMessages
  <2>1. wnew'[w] = ExtendedIn(heap, s, new)
    BY <1>3, TypedDetails
  <2>2. ExtendedIn(heap, s, new).len = s.len + Len(new)
    <3>1. CASE Fits(heap, s, new)
      <4>1. s # Nil
        BY <1>4, <1>6, <3>1, ExtendedInPlace
      <4>2. s \in [arr : 1..Len(heap), off : Nat, len : 0..MaxMessages]
        BY <1>6, <4>1, SliceRange
      <4>3. ExtendedIn(heap, s, new) = [s EXCEPT !.len = @ + Len(new)]
        BY <3>1 DEF ExtendedIn, Fits
      <4> HIDE DEF s, new
      <4> QED
        BY <4>2, <4>3
    <3>2. CASE ~Fits(heap, s, new)
      BY <3>2 DEF ExtendedIn, Fits
    <3> QED
      BY <3>1, <3>2
  <2>3. wnew'[w] \in SliceIn(heap') /\ heap' \in Seq(Array)
    <3>1. Slice' = SliceIn(heap')
      BY DEF Slice, SliceIn
    <3> QED
      BY <1>5, <3>1 DEF Typed, TypeOK, Grown
  <2>4. wnew'[w].len \in 0..MaxMessages
    BY <2>3, CellsProperties
  <2> QED
    BY <2>1, <2>2, <2>4, MessagesAssumption
<1>8. \A t \in SliceIn(heap) : (t.arr = s.arr => End(t) <= End(s)) => SameCells(heap, heap', t)
  BY <1>3, <1>4, <1>6, AppendLeaves
<1> QED
  BY <1>3, <1>4, <1>5, <1>6, <1>7, <1>8

LEMMA AgreedAppendTurn ==
  ASSUME Typed, Agreed, NEW w \in Writers, AppendTurn(w), ~damaged'
  PROVE  Agreed'
<1> DEFINE s == store.short
           new == Added(w)
           e == ExtendedIn(heap, s, new)
<1>1. /\ s \in SliceIn(heap) /\ heap \in Seq(Array)
      /\ new \in Seq(Turn) /\ Len(new) = 1 /\ new # <<>>
      /\ s.len + Len(new) <= MaxMessages
      /\ heap' = HeapExtendedIn(heap, s, new)
      /\ wnew' = [wnew EXCEPT ![w] = e]
      /\ Grown(heap, heap')
      /\ \A t \in SliceIn(heap) : (t.arr = s.arr => End(t) <= End(s)) => SameCells(heap, heap', t)
  BY AppendTurnStep
<1>2. /\ wpc' = [wpc EXCEPT ![w] = "save"]
      /\ UNCHANGED <<store, wctx, spc, sctx, summary, sfresh, recent>>
  BY DEF AppendTurn, GoesTo, summarizerVars
<1>3. /\ AllHeld'
      /\ HeldArrays' = HeldArrays
      /\ \A k \in Summarizers : /\ FollowsIn(heap', sctx[k], sfresh[k]) <=> FollowsIn(heap, sctx[k], sfresh[k])
                                /\ LogIn(heap', sctx[k]) = LogIn(heap, sctx[k])
                                /\ LogIn(heap', sfresh[k]) = LogIn(heap, sfresh[k])
      /\ CellsIn(heap', s) = CellsIn(heap, s)
      /\ CapacityIn(heap', s) = CapacityIn(heap, s)
  BY <1>1, <1>2, HeldAfterWrite
<1>4. ASSUME NEW k \in Summarizers PROVE Reloaded(k)' /\ Folded(k)' /\ Placed(k)'
  <2>1. spc[k] \in {"reload", "compare", "merge", "save"} => CellsIn(heap', recent[k]) = CellsIn(heap, recent[k])
    BY <1>1, RecentAfterWrite
  <2>2. Reloaded(k) /\ Folded(k) /\ Placed(k)
    BY DEF Agreed
  <2>3. Reloaded(k)'
    BY <1>2, <1>3, <2>2 DEF Reloaded
  <2>4. Folded(k)'
    BY <1>2, <1>3, <2>1, <2>2 DEF Folded, Folds
  <2>5. Placed(k)'
    BY <1>2, <1>3, <2>2 DEF Placed
  <2> QED
    BY <2>3, <2>4, <2>5
<1>5. ASSUME NEW v \in Writers, v # w PROVE Saving(v)'
  <2>1. wpc'[v] = wpc[v] /\ wnew'[v] = wnew[v]
    BY <1>1, <1>2, <1>5, TypedDetails
  <2> HIDE DEF s
  <2>2. \A t \in SliceIn(heap) : (t.arr = store.short.arr => End(t) <= End(store.short)) => SameCells(heap, heap', t)
    BY <1>1 DEF s
  <2> QED
    BY <1>1, <1>2, <2>1, <2>2, SavingAfterWrite
<1>6. Saving(w)'
  <2>1. wnew'[w] = e
    BY <1>1, TypedDetails
  <2>2. /\ e.len = s.len + Len(new)
        /\ CellsIn(heap', e) = CellsIn(heap, s) \o new
        /\ IF Fits(heap, s, new) THEN e.arr = s.arr /\ e.off = s.off
                                 ELSE e.arr = Len(heap) + 1 /\ e.off = 0
    BY <1>1, ExtendedCells
  <2> HIDE DEF e
  <2>3. IsPrefixOf(CellsIn(heap', s), CellsIn(heap', e))
    <3>1. CellsIn(heap, s) \in Seq(Turn)
      BY <1>1, CellsProperties
    <3> HIDE DEF Turn
    <3> QED
      BY <1>1, <1>3, <2>2, <3>1, ConcatIsPrefix
  <2>4. CASE Fits(heap, s, new)
    <3>1. SamePlace(s, e)
      BY <2>2, <2>4 DEF SamePlace
    <3> QED
      BY <1>1, <1>2, <2>1, <2>2, <2>3, <3>1 DEF Saving
  <2>5. CASE ~Fits(heap, s, new)
    <3>1. e.len > CapacityIn(heap', s)
      <4>1. s.len \in Nat /\ CapacityIn(heap, s) \in Nat
        BY <1>1, CellsProperties, CapacityType, MessagesAssumption
      <4> HIDE DEF s, new
      <4> QED
        BY <1>1, <1>3, <2>2, <2>5, <4>1 DEF Fits
    <3>2. e.arr = Len(heap) + 1 /\ Len(heap) \in Nat
      BY <1>1, <2>2, <2>5
    <3>3. \A t \in SliceIn(heap) : t.arr # e.arr
      <4>1. \A t \in SliceIn(heap) : t.arr \in 0..Len(heap)
        BY <1>1, CellsProperties
      <4> QED
        BY <3>2, <4>1
    <3>4. e.arr \notin HeldArrays' /\ \A k \in Summarizers : recent[k].arr # e.arr
      <4>1. /\ Nil.arr # e.arr /\ s.arr # e.arr
            /\ \A v \in Writers : wctx[v].short.arr # e.arr
            /\ \A k \in Summarizers : sctx[k].short.arr # e.arr /\ sfresh[k].short.arr # e.arr /\ recent[k].arr # e.arr
        BY <3>3, HeldContexts
      <4> QED
        BY <1>3, <4>1, NilFields DEF HeldArrays
    <3> QED
      BY <1>1, <1>2, <2>1, <2>2, <2>3, <3>1, <3>4 DEF Saving
  <2> QED
    BY <2>4, <2>5
<1> QED
  BY <1>3, <1>4, <1>5, <1>6 DEF Agreed

-----------------------------------------------------------------------------
(* Steps that store *)

\* What is stored moves from store to store', the arrays stay.
LEMMA StoreMoves ==
  ASSUME Typed, Agreed, heap' = heap, store' \in ContextIn(heap),
         HeldIn(heap, store, store'),
         store'.short.arr = store.short.arr \/ store'.short.arr \notin HeldArrays,
         NEW c \in ContextIn(heap), HeldIn(heap, c, store), c.short.arr \in HeldArrays
  PROVE  HeldIn(heap', c, store')
BY HeldContexts, HeldTransitive

\* AddMessage stores its context over the one it read.
LEMMA SaveTurnStep ==
  ASSUME Typed, Agreed, NEW w \in Writers, SaveTurn(w), ~damaged'
  PROVE  /\ heap' = heap /\ store' \in ContextIn(heap)
         /\ store'.version = store.version /\ store'.long = store.long /\ store'.short = wnew[w]
         /\ store'.current = wctx[w].current
         /\ wpc[w] = "save" /\ IsStored(wctx[w]) /\ Saving(w)
         /\ HeldIn(heap, store, store')
         /\ \/ SamePlace(store.short, store'.short)
            \/ /\ store'.short.arr \notin HeldArrays
               /\ \A k \in Summarizers : recent[k].arr # store'.short.arr
         /\ store'.short.len = store.short.len + 1
         /\ IsPrefixOf(CellsIn(heap, store.short), CellsIn(heap, store'.short))
<1>1. /\ wpc[w] = "save" /\ IsStored(wctx[w]) /\ heap' = heap
      /\ store' = [wctx[w] EXCEPT !.short = wnew[w]]
  BY DEF SaveTurn, GoesTo
<1>2. Saving(w)
  BY DEF Agreed
<1>3. /\ wnew[w].len = store.short.len + 1
      /\ IsPrefixOf(CellsIn(heap, store.short), CellsIn(heap, wnew[w]))
      /\ \/ SamePlace(store.short, wnew[w])
         \/ /\ wnew[w].len > CapacityIn(heap, store.short)
            /\ wnew[w].arr \notin HeldArrays
            /\ \A k \in Summarizers : recent[k].arr # wnew[w].arr
  BY <1>1, <1>2 DEF Saving
<1>4. /\ wctx[w].version = store.version /\ wctx[w].long = store.long
  BY <1>1, HeldContexts, StoredFields
<1>5. wctx[w] \in Context /\ wnew[w] \in Slice
  BY TypedDetails
<1>6. /\ store' \in Context
      /\ store'.version = wctx[w].version /\ store'.long = wctx[w].long
      /\ store'.short = wnew[w] /\ store'.current = wctx[w].current
  BY <1>1, <1>5, AppendedContext
<1>7. HeldIn(heap, store, store')
  <2>1. FollowsIn(heap, store, store')
    <3>1. store.version \in Nat
      BY HeldContexts, LogProperties
    <3> QED
      BY <1>3, <1>4, <1>6, <3>1 DEF FollowsIn
  <2>2. IsPrefixOf(LogIn(heap, store), LogIn(heap, store'))
    <3>1. /\ store.long \in Seq(Turn) /\ CellsIn(heap, store.short) \in Seq(Turn)
          /\ CellsIn(heap, wnew[w]) \in Seq(Turn)
      BY HeldContexts, LogProperties, CellsProperties
    <3> HIDE DEF Turn
    <3> QED
      BY <1>3, <1>4, <1>6, <3>1, PrefixAfter DEF LogIn
  <2>3. store.short.arr = wnew[w].arr => End(store.short) <= End(wnew[w])
    <3>1. store.short.off \in Nat /\ store.short.len \in Nat
      BY HeldContexts, LogProperties
    <3>2. store.short.arr = wnew[w].arr => SamePlace(store.short, wnew[w])
      BY <1>3, HeldArraysMembers
    <3>3. SamePlace(store.short, wnew[w]) => store.short.off = wnew[w].off
      BY DEF SamePlace
    <3>4. SamePlace(store.short, wnew[w]) => End(store.short) <= End(wnew[w])
      BY <1>3, <3>1, <3>3 DEF End
    <3> QED
      BY <3>2, <3>4
  <2> QED
    BY <1>6, <2>1, <2>2, <2>3 DEF HeldIn
<1> QED
  BY <1>1, <1>2, <1>3, <1>4, <1>6, <1>7, ExplicitHeap

LEMMA AgreedSaveTurn ==
  ASSUME Typed, Agreed, NEW w \in Writers, SaveTurn(w), ~damaged'
  PROVE  Agreed'
<1> DEFINE e == wnew[w]
<1>1. /\ heap' = heap /\ store' \in ContextIn(heap)
      /\ store'.version = store.version /\ store'.short = e
      /\ HeldIn(heap, store, store')
      /\ \/ SamePlace(store.short, e)
         \/ e.arr \notin HeldArrays /\ \A k \in Summarizers : recent[k].arr # e.arr
      /\ e.len = store.short.len + 1
  BY SaveTurnStep
<1>2. /\ wctx' = [wctx EXCEPT ![w] = Empty]
      /\ wnew' = [wnew EXCEPT ![w] = Nil]
      /\ UNCHANGED <<spc, sctx, summary, sfresh, recent>>
  BY DEF SaveTurn, summarizerVars
<1>3. PICK there : wpc' = [wpc EXCEPT ![w] = there] /\ there # "save"
  <2>1. wpc' = [wpc EXCEPT ![w] = IF w = Pump THEN "idle" ELSE "done"]
    BY DEF SaveTurn, GoesTo
  <2>2. (IF w = Pump THEN "idle" ELSE "done") # "save"
    OBVIOUS
  <2> QED
    BY <2>1, <2>2, Zenon
<1>4. \A v \in Writers : /\ wctx'[v] = IF v = w THEN Empty ELSE wctx[v]
                         /\ wnew'[v] = IF v = w THEN Nil ELSE wnew[v]
                         /\ wpc'[v] = IF v = w THEN there ELSE wpc[v]
  BY <1>2, <1>3, TypedDetails
<1>5. store'.short.arr = store.short.arr \/ store'.short.arr \notin HeldArrays
  BY <1>1 DEF SamePlace
<1>6. AllHeld'
  <2>1. \A c \in ContextIn(heap) : HeldIn(heap, c, store) /\ c.short.arr \in HeldArrays => HeldIn(heap', c, store')
    BY <1>1, <1>5, StoreMoves
  <2>2. Empty \in ContextIn(heap) /\ HeldIn(heap, Empty, store) /\ Empty.short.arr \in HeldArrays
    BY HeldContexts, NilFields, HeldArraysMembers DEF Agreed, AllHeld
  <2>3. \A v \in Writers : wctx[v] \in ContextIn(heap) /\ HeldIn(heap, wctx[v], store) /\ wctx[v].short.arr \in HeldArrays
    BY HeldContexts, HeldArraysMembers DEF Agreed, AllHeld
  <2>4. \A k \in Summarizers : /\ sctx[k] \in ContextIn(heap) /\ HeldIn(heap, sctx[k], store) /\ sctx[k].short.arr \in HeldArrays
                               /\ sfresh[k] \in ContextIn(heap) /\ HeldIn(heap, sfresh[k], store) /\ sfresh[k].short.arr \in HeldArrays
    BY HeldContexts, HeldArraysMembers DEF Agreed, AllHeld
  <2>5. HeldIn(heap', Empty, store')
    BY <2>1, <2>2
  <2>6. \A v \in Writers : HeldIn(heap', wctx'[v], store')
    BY <1>4, <2>1, <2>3, <2>5
  <2>7. \A k \in Summarizers : HeldIn(heap', sctx'[k], store') /\ HeldIn(heap', sfresh'[k], store')
    BY <1>2, <2>1, <2>4
  <2> QED
    BY <2>5, <2>6, <2>7 DEF AllHeld
<1>7. HeldArrays' \subseteq HeldArrays \cup {e.arr}
  <2>1. HeldArrays' = {0, store'.short.arr} \cup {wctx'[v].short.arr : v \in Writers}
           \cup {sctx'[k].short.arr : k \in Summarizers} \cup {sfresh'[k].short.arr : k \in Summarizers}
    BY DEF HeldArrays
  <2>2. \A v \in Writers : wctx'[v].short.arr \in HeldArrays
    BY <1>4, EmptyContext, NilFields, HeldArraysMembers
  <2> QED
    BY <1>1, <1>2, <2>1, <2>2, HeldArraysMembers
<1>8. ASSUME NEW k \in Summarizers PROVE Reloaded(k)' /\ Folded(k)' /\ Placed(k)'
  <2>1. Reloaded(k)' /\ Folded(k)'
    BY <1>1, <1>2 DEF Agreed, Reloaded, Folded
  <2>2. Placed(k)'
    <3>1. e.arr \in HeldArrays \/ e.arr # recent[k].arr
      BY <1>1, HeldArraysMembers DEF SamePlace
    <3>2. Placed(k)
      BY DEF Agreed
    <3> QED
      BY <1>2, <1>7, <3>1, <3>2 DEF Placed
  <2> QED
    BY <2>1, <2>2
<1>9. ASSUME NEW v \in Writers PROVE Saving(v)'
  <2> SUFFICES ASSUME wpc'[v] = "save", IsStored(wctx[v])' PROVE FALSE
    BY DEF Saving
  <2>1. v # w /\ wctx'[v] = wctx[v]
    BY <1>3, <1>4
  <2>2. [store' EXCEPT !.current = 0] = [wctx[v] EXCEPT !.current = 0]
    BY <2>1 DEF IsStored
  <2>3. wctx[v].version = store'.version /\ wctx[v].short = store'.short
    <3>1. wctx[v] \in ContextIn(heap)
      BY HeldContexts
    <3>2. /\ store' = [version |-> store'.version, long |-> store'.long, short |-> store'.short,
                      current |-> store'.current]
          /\ wctx[v] = [version |-> wctx[v].version, long |-> wctx[v].long, short |-> wctx[v].short,
                        current |-> wctx[v].current]
      BY <1>1, <3>1 DEF ContextIn
    <3> QED
      BY <2>2, <3>2
  <2>4. IsPrefixOf(CellsIn(heap, wctx[v].short), CellsIn(heap, store.short))
    BY <1>1, <2>3 DEF Agreed, AllHeld, HeldIn, FollowsIn
  <2>5. /\ Len(CellsIn(heap, wctx[v].short)) = wctx[v].short.len
        /\ Len(CellsIn(heap, store.short)) = store.short.len /\ store.short.len \in Nat
    BY HeldContexts, LogProperties
  <2>6. wctx[v].short.len <= store.short.len
    BY <2>4, <2>5 DEF IsPrefixOf
  <2>7. wctx[v].short.len = store.short.len + 1
    BY <1>1, <2>3
  <2> QED
    BY <2>5, <2>6, <2>7
<1> QED
  BY <1>6, <1>8, <1>9 DEF Agreed

-----------------------------------------------------------------------------
(* CreateSummary's append and its store *)

\* What was reloaded is what was read and the newly added turns.
LEMMA ReloadedTurns ==
  ASSUME Typed, Agreed, NEW k \in Summarizers, spc[k] = "merge"
  PROVE  /\ sctx[k].long = sfresh[k].long
         /\ NewlyAdded(k) \in Seq(Turn)
         /\ CellsIn(heap, sfresh[k].short) = CellsIn(heap, sctx[k].short) \o NewlyAdded(k)
         /\ sfresh[k].short.len = sctx[k].short.len + Len(NewlyAdded(k))
         /\ \/ SamePlace(sctx[k].short, sfresh[k].short)
            \/ sfresh[k].short.len > CapacityIn(heap, sctx[k].short)
<1> DEFINE s == CellsIn(heap, sctx[k].short)
           t == CellsIn(heap, sfresh[k].short)
           n == sctx[k].short.len
           z == sfresh[k].short.len
<1>1. /\ sctx[k].long = sfresh[k].long
      /\ IsPrefixOf(s, t)
      /\ \/ SamePlace(sctx[k].short, sfresh[k].short)
         \/ z > CapacityIn(heap, sctx[k].short)
  BY DEF Agreed, Reloaded, FollowsIn
<1>2. /\ s \in Seq(Turn) /\ t \in Seq(Turn) /\ Len(s) = n /\ Len(t) = z
      /\ n \in Nat /\ z \in Nat
  BY HeldContexts, LogProperties
<1>3. NewlyAdded(k) = SubSeq(t, Len(s) + 1, Len(t))
  BY <1>2, ExplicitHeap DEF NewlyAdded
<1> HIDE DEF s, t, n, z, Turn
<1>4. /\ NewlyAdded(k) \in Seq(Turn)
      /\ Len(NewlyAdded(k)) = z - n
      /\ t = s \o NewlyAdded(k)
  <2>1. /\ SubSeq(t, Len(s) + 1, Len(t)) \in Seq(Turn)
        /\ Len(SubSeq(t, Len(s) + 1, Len(t))) = Len(t) - Len(s)
        /\ t = s \o SubSeq(t, Len(s) + 1, Len(t))
    BY <1>1, <1>2, PrefixRest
  <2> QED
    BY <1>2, <1>3, <2>1
<1>5. z = n + Len(NewlyAdded(k))
  BY <1>2, <1>4
<1> QED
  BY <1>1, <1>4, <1>5 DEF s, t, n, z

\* The append writes nothing that is not there already, and leaves in recentMessages
\* the turns of the reloaded context that the summary does not stand for.
LEMMA MergeStep ==
  ASSUME Typed, Agreed, NEW k \in Summarizers, Merge(k)
  PROVE  /\ Grown(heap, heap') /\ Len(heap) \in Nat
         /\ \A t \in SliceIn(heap) : SameCells(heap, heap', t)
         /\ recent' = [recent EXCEPT ![k] = recent'[k]]
         /\ CellsIn(heap', recent'[k]) = CellsIn(heap, recent[k]) \o NewlyAdded(k)
         /\ \/ recent'[k].arr = sfresh[k].short.arr /\ End(recent'[k]) = End(sfresh[k].short)
            \/ recent'[k].arr = Len(heap) + 1
<1> DEFINE r == recent[k]
           s == sctx[k].short
           f == sfresh[k].short
           new == NewlyAdded(k)
<1>1. spc[k] = "merge" /\ IsSplit(k)
  BY DEF Merge, Typed, Splits
<1>2. /\ r.arr = s.arr /\ r.len \in 1..(s.len - 1) /\ End(r) = End(s)
  BY <1>1 DEF IsSplit, End
<1>3. /\ heap \in Seq(Array) /\ r \in SliceIn(heap) /\ s \in SliceIn(heap) /\ f \in SliceIn(heap)
  BY HeldContexts
<1>4. /\ new \in Seq(Turn)
      /\ CellsIn(heap, f) = CellsIn(heap, s) \o new
      /\ f.len = s.len + Len(new)
      /\ SamePlace(s, f) \/ f.len > CapacityIn(heap, s)
  BY <1>1, ReloadedTurns
<1>5. /\ s.len \in Nat /\ s.off \in Nat /\ r.len \in Nat /\ r.off \in Nat /\ Len(new) \in Nat
      /\ CapacityIn(heap, s) \in Nat /\ s.len <= CapacityIn(heap, s)
      /\ f.len \in 0..MaxMessages
      /\ CellsIn(heap, r) \in Seq(Turn) /\ CellsIn(heap, s) \in Seq(Turn)
      /\ CellsIn(heap, f) \in Seq(Turn) /\ Len(CellsIn(heap, s)) = s.len
      /\ \A i \in 1..f.len : CellsIn(heap, f)[i] = heap[f.arr][f.off + i]
  <2>1. Len(new) \in Nat
    BY <1>4
  <2>2. /\ s.len \in Nat /\ s.off \in Nat
        /\ CellsIn(heap, s) \in Seq(Turn) /\ Len(CellsIn(heap, s)) = s.len
    BY <1>3, CellsProperties, MessagesAssumption
  <2>3. r.len \in Nat /\ r.off \in Nat /\ CellsIn(heap, r) \in Seq(Turn)
    BY <1>3, CellsProperties, MessagesAssumption
  <2>4. /\ f.len \in 0..MaxMessages /\ CellsIn(heap, f) \in Seq(Turn)
        /\ \A i \in 1..f.len : CellsIn(heap, f)[i] = heap[f.arr][f.off + i]
    BY <1>3, CellsProperties
  <2>5. CapacityIn(heap, s) \in Nat /\ s.len <= CapacityIn(heap, s)
    BY <1>3, CapacityType
  <2> QED
    BY <2>1, <2>2, <2>3, <2>4, <2>5
<1>6. SamePlace(s, f) => f.arr = s.arr /\ End(f) = End(s) + Len(new)
  BY <1>4, <1>5 DEF SamePlace, End
<1>7. CASE new = <<>>
  <2>1. heap' = heap /\ recent' = recent
    BY <1>7 DEF Merge
  <2>2. Len(new) = 0
    BY <1>7
  <2>3. SamePlace(s, f)
    BY <1>4, <1>5, <2>2
  <2>4. r.arr = f.arr /\ End(r) = End(f)
    BY <1>2, <1>5, <1>6, <2>2, <2>3 DEF End
  <2>5. CellsIn(heap, r) \o new = CellsIn(heap, r)
    BY <1>5, <1>7, ConcatEmptySeq
  <2>6. Grown(heap, heap')
    BY <1>3, <2>1, GrownReflexive
  <2>7. recent' = [recent EXCEPT ![k] = recent'[k]]
    BY <2>1, SameRegisters
  <2>8. Len(heap) \in Nat
    BY <1>3
  <2> QED
    BY <2>1, <2>4, <2>5, <2>6, <2>7, <2>8 DEF SameCells
<1>8. CASE new # <<>>
  <2> DEFINE e == ExtendedIn(heap, r, new)
  <2>1. heap' = HeapExtendedIn(heap, r, new) /\ recent' = [recent EXCEPT ![k] = e]
    BY <1>8, Unfolded DEF Merge
  <2>2. recent'[k] = e
    BY <2>1, TypedDetails
  <2>3. r.len + Len(new) <= MaxMessages
    <3>1. s.len + Len(new) <= MaxMessages /\ r.len <= s.len
      BY <1>2, <1>4, <1>5
    <3>2. s.len \in Nat /\ r.len \in Nat /\ Len(new) \in Nat /\ MaxMessages \in Nat
      BY <1>5, MessagesAssumption
    <3> HIDE DEF r, s, new
    <3> QED
      BY <3>1, <3>2
  <2>4. /\ Grown(heap, heap') /\ e.len = r.len + Len(new)
        /\ CellsIn(heap', e) = CellsIn(heap, r) \o new
        /\ IF Fits(heap, r, new) THEN e.arr = r.arr /\ e.off = r.off
                                 ELSE e.arr = Len(heap) + 1 /\ e.off = 0
    BY <1>3, <1>4, <1>8, <2>1, <2>3, ExtendedCells
  <2> HIDE DEF e
  <2>5. ASSUME Fits(heap, r, new) PROVE SamePlace(s, f)
    <3>1. r # Nil /\ s # Nil
      BY <1>2, <1>3, <1>5, NilFields
    <3>2. s.arr \in 1..Len(heap) /\ Len(heap[s.arr]) \in Nat
      BY <1>3, <3>1, SliceRange
    <3>3. CapacityIn(heap, r) = Len(heap[s.arr]) - r.off /\ CapacityIn(heap, s) = Len(heap[s.arr]) - s.off
      BY <1>2, <3>1 DEF CapacityIn
    <3>4. r.off + r.len = s.off + s.len /\ r.len + Len(new) <= CapacityIn(heap, r)
      BY <1>2, <2>5 DEF End, Fits
    <3> DEFINE room == Len(heap[s.arr])
               ro == r.off   rl == r.len   so == s.off   sl == s.len   nl == Len(new)
    <3>5. sl + nl <= room - so
      <4>1. /\ room \in Nat /\ ro \in Nat /\ rl \in Nat /\ so \in Nat /\ sl \in Nat /\ nl \in Nat
            /\ ro + rl = so + sl /\ rl + nl <= room - ro
        BY <1>5, <3>2, <3>3, <3>4
      <4> HIDE DEF room, ro, rl, so, sl, nl
      <4> QED
        BY <4>1
    <3>6. f.len <= CapacityIn(heap, s)
      BY <1>4, <3>3, <3>5
    <3>7. f.len \in Int /\ CapacityIn(heap, s) \in Int
      BY <1>5, MessagesAssumption
    <3> HIDE DEF r, s, f, new
    <3> QED
      BY <1>4, <3>6, <3>7
  <2>6. ASSUME Fits(heap, r, new), NEW j \in 1..Len(new)
        PROVE  heap[r.arr][End(r) + j] = new[j]
    <3>1. f.arr = r.arr /\ f.off = s.off
      BY <1>2, <2>5, <2>6 DEF SamePlace
    <3> DEFINE i == s.len + j
    <3>2. i \in 1..f.len /\ f.off + i = End(r) + j /\ ~(i <= s.len) /\ i - s.len = j
          /\ i \in 1..(s.len + Len(new))
      <4>1. End(r) = s.off + s.len
        BY <1>2 DEF End
      <4>2. s.len \in Nat /\ s.off \in Nat /\ Len(new) \in Nat /\ f.len = s.len + Len(new)
        BY <1>4, <1>5
      <4> HIDE DEF r, s, f, new
      <4>3. i \in 1..(s.len + Len(new)) /\ ~(i <= s.len) /\ i - s.len = j
        BY <4>2
      <4>4. f.off + i = End(r) + j
        BY <3>1, <4>1, <4>2
      <4> QED
        BY <4>2, <4>3, <4>4
    <3>3. CellsIn(heap, f)[i] = new[j]
      <4>1. \A m \in 1..(s.len + Len(new)) :
              (CellsIn(heap, s) \o new)[m] = IF m <= s.len THEN CellsIn(heap, s)[m] ELSE new[m - s.len]
        <5> DEFINE old == CellsIn(heap, s)
        <5>1. old \in Seq(Turn) /\ new \in Seq(Turn) /\ Len(old) = s.len
          BY <1>4, <1>5
        <5> HIDE DEF old, new, Turn
        <5>2. \A m \in 1..(Len(old) + Len(new)) :
                (old \o new)[m] = IF m <= Len(old) THEN old[m] ELSE new[m - Len(old)]
          BY <5>1, ConcatProperties
        <5> QED
          BY <5>1, <5>2, Zenon DEF old
      <4>2. (CellsIn(heap, s) \o new)[i] = new[i - s.len]
        <5> HIDE DEF i, r, s, f, new
        <5> QED
          BY <3>2, <4>1
      <4> HIDE DEF i, r, s, f, new
      <4> QED
        BY <1>4, <3>2, <4>2
    <3>4. CellsIn(heap, f)[i] = heap[f.arr][f.off + i]
      BY <1>5, <3>2
    <3> HIDE DEF i
    <3> QED
      BY <3>1, <3>2, <3>3, <3>4
  <2>7. \A t \in SliceIn(heap) : SameCells(heap, heap', t)
    BY <1>3, <1>4, <1>8, <2>1, <2>6, RewriteLeaves
  <2>8. \/ e.arr = f.arr /\ End(e) = End(f)
        \/ e.arr = Len(heap) + 1
    <3>1. CASE Fits(heap, r, new)
      <4>1. e.arr = r.arr /\ e.off = r.off /\ e.len = r.len + Len(new)
        BY <2>4, <3>1
      <4>2. End(e) = End(r) + Len(new)
        <5> HIDE DEF r, new
        <5> QED
          BY <1>5, <4>1 DEF End
      <4> QED
        BY <1>2, <1>6, <2>5, <3>1, <4>1, <4>2
    <3>2. CASE ~Fits(heap, r, new)
      BY <2>4, <3>2
    <3> QED
      BY <3>1, <3>2
  <2>9. Len(heap) \in Nat
    BY <1>3
  <2> QED
    BY <2>1, <2>2, <2>4, <2>7, <2>8, <2>9
<1> QED
  BY <1>7, <1>8

LEMMA AgreedMerge ==
  ASSUME Typed, Agreed, NEW k \in Summarizers, Merge(k)
  PROVE  Agreed'
<1>1. /\ Grown(heap, heap') /\ Len(heap) \in Nat
      /\ \A t \in SliceIn(heap) : SameCells(heap, heap', t)
      /\ recent' = [recent EXCEPT ![k] = recent'[k]]
      /\ CellsIn(heap', recent'[k]) = CellsIn(heap, recent[k]) \o NewlyAdded(k)
      /\ \/ recent'[k].arr = sfresh[k].short.arr /\ End(recent'[k]) = End(sfresh[k].short)
         \/ recent'[k].arr = Len(heap) + 1
  BY MergeStep
<1>2. /\ UNCHANGED <<store, wpc, wctx, wnew, sctx, summary, sfresh>>
      /\ spc[k] = "merge" /\ spc' = [spc EXCEPT ![k] = "save"]
  BY DEF Merge, SummarizerUnchanged, writerVars
<1>3. \A j \in Summarizers : /\ spc'[j] = IF j = k THEN "save" ELSE spc[j]
                             /\ j # k => recent'[j] = recent[j]
  <2>1. recent \in [Summarizers -> Slice] /\ spc \in [Summarizers -> SummarizerPCs]
    BY TypedDetails
  <2> DEFINE r == recent'[k]
  <2>2. recent' = [recent EXCEPT ![k] = r]
    BY <1>1
  <2> HIDE DEF r
  <2> QED
    BY <1>2, <2>1, <2>2
<1>4. /\ AllHeld'
      /\ HeldArrays' = HeldArrays
      /\ \A j \in Summarizers : /\ FollowsIn(heap', sctx[j], sfresh[j]) <=> FollowsIn(heap, sctx[j], sfresh[j])
                                /\ LogIn(heap', sctx[j]) = LogIn(heap, sctx[j])
                                /\ LogIn(heap', sfresh[j]) = LogIn(heap, sfresh[j])
  BY <1>1, <1>2, HeldAfterWrite
<1>5. \A j \in Summarizers : Reloaded(j) /\ Folded(j) /\ Placed(j)
  BY DEF Agreed
<1>6. ASSUME NEW j \in Summarizers PROVE Reloaded(j)'
  BY <1>2, <1>3, <1>4, <1>5 DEF Reloaded
<1>7. ASSUME NEW j \in Summarizers PROVE Folded(j)'
  <2>1. CASE j = k
    <3>1. summary[k] = <<>> \/ Folds(heap, summary[k], recent[k], sctx[k])
      BY <1>2, <1>5 DEF Folded
    <3>2. ASSUME Folds(heap, summary[k], recent[k], sctx[k])
          PROVE  Folds(heap', summary[k], recent'[k], sfresh[k])
      <4>1. /\ sctx[k].long = sfresh[k].long
            /\ NewlyAdded(k) \in Seq(Turn)
            /\ CellsIn(heap, sfresh[k].short) = CellsIn(heap, sctx[k].short) \o NewlyAdded(k)
        BY <1>2, ReloadedTurns
      <4> DEFINE text == summary[k]
                 rest == CellsIn(heap, recent[k])
                 long == sctx[k].long
                 old == CellsIn(heap, sctx[k].short)
                 new == NewlyAdded(k)
      <4>2. /\ text \in Seq(Turn) /\ rest \in Seq(Turn) /\ long \in Seq(Turn) /\ old \in Seq(Turn)
            /\ new \in Seq(Turn)
        BY <4>1, TypedDetails, HeldContexts, LogProperties, CellsProperties
      <4>3. text \o rest = long \o old /\ Len(text) > Len(long)
        BY <3>2 DEF Folds, LogIn
      <4>4. LogIn(heap', sfresh[k]) = long \o (old \o new)
        BY <1>4, <4>1 DEF LogIn
      <4>5. CellsIn(heap', recent'[k]) = rest \o new
        BY <1>1
      <4>6. sfresh[k].long = long
        BY <4>1
      <4>7. text = summary[k]
        OBVIOUS
      <4> HIDE DEF text, rest, old, new, long, Turn
      <4>8. text \o (rest \o new) = (text \o rest) \o new
        <5>1. text \in Seq(Turn) /\ rest \in Seq(Turn) /\ new \in Seq(Turn)
          BY <4>2
        <5> QED
          BY <5>1, ConcatAssociative
      <4>9. long \o (old \o new) = (long \o old) \o new
        BY <4>2, ConcatAssociative
      <4> QED
        BY <4>3, <4>4, <4>5, <4>6, <4>7, <4>8, <4>9 DEF Folds
    <3> QED
      BY <1>2, <1>3, <2>1, <3>1, <3>2 DEF Folded
  <2>2. CASE j # k
    <3>1. spc[j] \in {"reload", "compare", "merge", "save"} => CellsIn(heap', recent[j]) = CellsIn(heap, recent[j])
      BY <1>1, HeldContexts, SameCellsSameTurns
    <3> QED
      BY <1>2, <1>3, <1>4, <1>5, <2>2, <3>1 DEF Folded, Folds
  <2> QED
    BY <2>1, <2>2
<1>8. \A t \in SliceIn(heap) : t.arr # Len(heap) + 1
  <2>1. \A t \in SliceIn(heap) : t.arr \in 0..Len(heap)
    BY HeldContexts, CellsProperties
  <2> QED
    BY <1>1, <2>1
<1>9. Len(heap) + 1 \notin HeldArrays
  <2>1. /\ Nil.arr # Len(heap) + 1 /\ store.short.arr # Len(heap) + 1
        /\ \A w \in Writers : wctx[w].short.arr # Len(heap) + 1
        /\ \A j \in Summarizers : sctx[j].short.arr # Len(heap) + 1 /\ sfresh[j].short.arr # Len(heap) + 1
    BY <1>8, HeldContexts
  <2> QED
    BY <2>1, NilFields DEF HeldArrays
<1>10. \A j \in Summarizers : recent[j].arr # Len(heap) + 1
  BY <1>8, HeldContexts
<1>11. ASSUME NEW j \in Summarizers PROVE Placed(j)'
  <2>1. CASE j = k
    BY <1>1, <1>2, <1>3, <1>4, <1>9, <1>10, <2>1 DEF Placed
  <2>2. CASE j # k
    <3> SUFFICES ASSUME spc[j] = "save"
                 PROVE  \/ recent[j].arr = sfresh[j].short.arr /\ End(recent[j]) = End(sfresh[j].short)
                        \/ /\ recent[j].arr \notin HeldArrays
                           /\ \A i \in Summarizers \ {j} : recent'[i].arr # recent[j].arr
      BY <1>2, <1>3, <1>4, <2>2 DEF Placed
    <3>1. \/ recent[j].arr = sfresh[j].short.arr /\ End(recent[j]) = End(sfresh[j].short)
          \/ /\ recent[j].arr \notin HeldArrays
             /\ \A i \in Summarizers \ {j} : recent[i].arr # recent[j].arr
      BY <1>5 DEF Placed
    <3>2. sfresh[k].short.arr \in HeldArrays
      BY HeldArraysMembers
    <3> QED
      BY <1>1, <1>3, <1>10, <3>1, <3>2
  <2> QED
    BY <2>1, <2>2
<1>12. ASSUME NEW w \in Writers PROVE Saving(w)'
  <2> SUFFICES ASSUME wpc[w] = "save", IsStored(wctx[w])
               PROVE  Saving(w)'
    BY <1>2 DEF Saving, IsStored
  <2>1. /\ wnew[w].len = store.short.len + 1
        /\ IsPrefixOf(CellsIn(heap, store.short), CellsIn(heap, wnew[w]))
        /\ \/ SamePlace(store.short, wnew[w])
           \/ /\ wnew[w].len > CapacityIn(heap, store.short)
              /\ wnew[w].arr \notin HeldArrays
              /\ \A j \in Summarizers : recent[j].arr # wnew[w].arr
    BY DEF Agreed, Saving
  <2>2. /\ CellsIn(heap', store.short) = CellsIn(heap, store.short)
        /\ CellsIn(heap', wnew[w]) = CellsIn(heap, wnew[w])
        /\ CapacityIn(heap', store.short) = CapacityIn(heap, store.short)
    BY <1>1, HeldContexts, SameCellsSameTurns, GrownKeepsSlices
  <2>3. wnew[w].arr # Len(heap) + 1 /\ sfresh[k].short.arr \in HeldArrays
    BY <1>8, HeldContexts, HeldArraysMembers
  <2>4. wnew[w].arr \notin HeldArrays /\ (\A j \in Summarizers : recent[j].arr # wnew[w].arr)
           => \A j \in Summarizers : recent'[j].arr # wnew[w].arr
    BY <1>1, <1>3, <2>3
  <2> QED
    BY <1>2, <1>4, <2>1, <2>2, <2>4 DEF Saving
<1> QED
  BY <1>4, <1>6, <1>7, <1>11, <1>12 DEF Agreed

\* CreateSummary stores the log it reloaded, with a longer summary.
LEMMA SaveSummaryStep ==
  ASSUME Typed, Agreed, NEW k \in Summarizers, SaveSummary(k), ~damaged'
  PROVE  /\ heap' = heap /\ store' \in ContextIn(heap)
         /\ store'.version = store.version + 1 /\ store'.long = summary[k]
         /\ store'.short = recent[k] /\ store'.current = sfresh[k].current
         /\ spc[k] = "save" /\ recent[k].len > 0
         /\ LogIn(heap, store') = LogIn(heap, store)
         /\ LogIn(heap, sfresh[k]) = LogIn(heap, store)
         /\ Len(store'.long) > Len(store.long)
         /\ HeldIn(heap, store, store')
         /\ \/ recent[k].arr = store.short.arr
            \/ /\ recent[k].arr \notin HeldArrays
               /\ \A j \in Summarizers \ {k} : recent[j].arr # recent[k].arr
<1>1. /\ spc[k] = "save" /\ IsStored(sfresh[k]) /\ summary[k] # <<>> /\ heap' = heap
      /\ store' = Summarized(sfresh[k], summary[k], recent[k])
  BY DEF SaveSummary, Summarized
<1>2. /\ sfresh[k].version = store.version /\ sfresh[k].long = store.long
      /\ sfresh[k].short = store.short
  BY <1>1, HeldContexts, StoredFields
<1>3. /\ store' \in Context
      /\ store'.version = sfresh[k].version + 1 /\ store'.long = summary[k]
      /\ store'.short = recent[k] /\ store'.current = sfresh[k].current
  <2>1. sfresh[k] \in Context /\ summary[k] \in Seq(Turn) /\ recent[k] \in Slice
    BY TypedDetails
  <2> QED
    BY <1>1, <2>1, SummarizedContext
<1>4. Folds(heap, summary[k], recent[k], sfresh[k])
  BY <1>1 DEF Agreed, Folded
<1>5. LogIn(heap, sfresh[k]) = LogIn(heap, store)
  BY <1>2 DEF LogIn
<1>6. LogIn(heap, store') = LogIn(heap, store) /\ Len(store'.long) > Len(store.long)
  BY <1>2, <1>3, <1>4, <1>5 DEF Folds, LogIn
<1>7. \/ recent[k].arr = store.short.arr /\ End(recent[k]) = End(store.short)
      \/ /\ recent[k].arr \notin HeldArrays
         /\ \A j \in Summarizers \ {k} : recent[j].arr # recent[k].arr
  BY <1>1, <1>2 DEF Agreed, Placed
<1>8. HeldIn(heap, store, store')
  <2>1. store.version \in Nat /\ LogIn(heap, store) \in Seq(Turn) /\ End(store.short) \in Nat
    BY HeldContexts, LogProperties, EndType
  <2>2. FollowsIn(heap, store, store')
    BY <1>2, <1>3, <2>1 DEF FollowsIn
  <2>3. IsPrefixOf(LogIn(heap, store), LogIn(heap, store'))
    <3> HIDE DEF Turn
    <3> QED
      BY <1>6, <2>1, PrefixReflexive
  <2>4. store.short.arr = store'.short.arr => End(store.short) <= End(store'.short)
    BY <1>3, <1>7, <2>1, HeldArraysMembers
  <2> QED
    BY <2>2, <2>3, <2>4 DEF HeldIn
<1>9. recent[k].len > 0
  BY <1>1 DEF Typed, Splits
<1>10. store' \in ContextIn(heap)
  BY <1>3, ExplicitHeap
<1> QED
  BY <1>1, <1>2, <1>3, <1>5, <1>6, <1>7, <1>8, <1>9, <1>10

LEMMA AgreedSaveSummary ==
  ASSUME Typed, Agreed, NEW k \in Summarizers, SaveSummary(k), ~damaged'
  PROVE  Agreed'
<1>1. /\ heap' = heap /\ store' \in ContextIn(heap)
      /\ store'.version = store.version + 1
      /\ store'.short = recent[k]
      /\ HeldIn(heap, store, store')
      /\ \/ recent[k].arr = store.short.arr
         \/ /\ recent[k].arr \notin HeldArrays
            /\ \A j \in Summarizers \ {k} : recent[j].arr # recent[k].arr
  BY SaveSummaryStep
<1>2. UNCHANGED <<wpc, wctx, wnew>>
  BY DEF SaveSummary, SummarizerUnchanged, writerVars
<1>3. \A j \in Summarizers : /\ spc'[j] = IF j = k THEN "idle" ELSE spc[j]
                             /\ sctx'[j] = IF j = k THEN Empty ELSE sctx[j]
                             /\ sfresh'[j] = IF j = k THEN Empty ELSE sfresh[j]
                             /\ recent'[j] = IF j = k THEN Nil ELSE recent[j]
  BY TypedDetails DEF SaveSummary, Finish
<1>4. \A j \in Summarizers : j # k => summary'[j] = summary[j]
  <2>1. summary' = [summary EXCEPT ![k] = <<>>] /\ summary \in [Summarizers -> Seq(Turn)]
    BY TypedDetails DEF SaveSummary, Finish
  <2> QED
    BY <2>1, Zenon
<1>5. store'.short.arr = store.short.arr \/ store'.short.arr \notin HeldArrays
  BY <1>1
<1>6. AllHeld'
  <2>1. \A c \in ContextIn(heap) : HeldIn(heap, c, store) /\ c.short.arr \in HeldArrays => HeldIn(heap', c, store')
    BY <1>1, <1>5, StoreMoves
  <2>2. Empty \in ContextIn(heap) /\ HeldIn(heap, Empty, store) /\ Empty.short.arr \in HeldArrays
    BY HeldContexts, NilFields, HeldArraysMembers DEF Agreed, AllHeld
  <2>3. \A v \in Writers : wctx[v] \in ContextIn(heap) /\ HeldIn(heap, wctx[v], store) /\ wctx[v].short.arr \in HeldArrays
    BY HeldContexts, HeldArraysMembers DEF Agreed, AllHeld
  <2>4. \A j \in Summarizers : /\ sctx[j] \in ContextIn(heap) /\ HeldIn(heap, sctx[j], store) /\ sctx[j].short.arr \in HeldArrays
                               /\ sfresh[j] \in ContextIn(heap) /\ HeldIn(heap, sfresh[j], store) /\ sfresh[j].short.arr \in HeldArrays
    BY HeldContexts, HeldArraysMembers DEF Agreed, AllHeld
  <2>5. HeldIn(heap', Empty, store')
    BY <2>1, <2>2
  <2>6. \A v \in Writers : HeldIn(heap', wctx'[v], store')
    BY <1>2, <2>1, <2>3
  <2>7. \A j \in Summarizers : HeldIn(heap', sctx'[j], store') /\ HeldIn(heap', sfresh'[j], store')
    BY <1>3, <2>1, <2>4, <2>5
  <2> QED
    BY <2>5, <2>6, <2>7 DEF AllHeld
<1>7. HeldArrays' \subseteq HeldArrays \cup {recent[k].arr}
  <2>1. HeldArrays' = {0, store'.short.arr} \cup {wctx'[v].short.arr : v \in Writers}
           \cup {sctx'[j].short.arr : j \in Summarizers} \cup {sfresh'[j].short.arr : j \in Summarizers}
    BY DEF HeldArrays
  <2>2. \A j \in Summarizers : sctx'[j].short.arr \in HeldArrays /\ sfresh'[j].short.arr \in HeldArrays
    BY <1>3, EmptyContext, NilFields, HeldArraysMembers
  <2> QED
    BY <1>1, <1>2, <2>1, <2>2, HeldArraysMembers
<1>8. ASSUME NEW j \in Summarizers PROVE Reloaded(j)' /\ Folded(j)' /\ Placed(j)'
  <2>1. CASE j = k
    BY <1>3, <2>1 DEF Reloaded, Folded, Placed
  <2>2. CASE j # k
    <3>1. /\ spc'[j] = spc[j] /\ sctx'[j] = sctx[j] /\ sfresh'[j] = sfresh[j]
          /\ recent'[j] = recent[j] /\ summary'[j] = summary[j]
      BY <1>3, <1>4, <2>2
    <3>2. Reloaded(j) /\ Folded(j) /\ Placed(j)
      BY DEF Agreed
    <3>3. Reloaded(j)' /\ Folded(j)'
      BY <1>1, <3>1, <3>2 DEF Reloaded, Folded
    <3>4. Placed(j)'
      <4>1. ASSUME recent[j].arr \notin HeldArrays,
                   \A i \in Summarizers \ {j} : recent[i].arr # recent[j].arr
            PROVE  /\ recent[j].arr \notin HeldArrays'
                   /\ \A i \in Summarizers \ {j} : recent'[i].arr # recent[j].arr
        BY <1>3, <1>7, <2>2, <4>1, NilFields, HeldArraysMembers
      <4> QED
        BY <3>1, <3>2, <4>1 DEF Placed
    <3> QED
      BY <3>3, <3>4
  <2> QED
    BY <2>1, <2>2
<1>9. ASSUME NEW v \in Writers PROVE Saving(v)'
  <2> SUFFICES ASSUME IsStored(wctx[v])' PROVE FALSE
    BY DEF Saving
  <2>1. wctx[v] \in ContextIn(heap)
    BY HeldContexts
  <2>2. wctx[v].version = store'.version
    <3>1. [store' EXCEPT !.current = 0] = [wctx[v] EXCEPT !.current = 0]
      BY <1>2 DEF IsStored
    <3>2. /\ store' = [version |-> store'.version, long |-> store'.long, short |-> store'.short,
                      current |-> store'.current]
          /\ wctx[v] = [version |-> wctx[v].version, long |-> wctx[v].long, short |-> wctx[v].short,
                        current |-> wctx[v].current]
      BY <1>1, <2>1 DEF ContextIn
    <3> QED
      BY <3>1, <3>2
  <2>3. wctx[v].version <= store.version
    BY DEF Agreed, AllHeld, HeldIn, FollowsIn
  <2>4. store.version \in Nat
    BY HeldContexts, LogProperties
  <2> QED
    BY <1>1, <2>2, <2>3, <2>4
<1> QED
  BY <1>6, <1>8, <1>9 DEF Agreed

-----------------------------------------------------------------------------
(* Every step keeps the invariant *)

Good == ~damaged /\ ~closed => Agreed

\* What is damaged or deleted stays so.
LEMMA StillOpen ==
  ASSUME TypeOK, [Next]_vars, ~damaged', ~closed'
  PROVE  ~damaged /\ ~closed
<1>1. damaged \in BOOLEAN /\ closed \in BOOLEAN
  BY DEF TypeOK
<1>2. CASE UNCHANGED vars
  BY <1>2 DEF vars
<1>3. CASE PartialTranscript \/ FinalTranscript \/ DeleteSession \/ NothingToSummarize
  BY <1>1, <1>3 DEF PartialTranscript, FinalTranscript, DeleteSession, NothingToSummarize, SummarizerUnchanged
<1>4. ASSUME NEW w \in Answers, Ask(w) PROVE ~damaged /\ ~closed
  BY <1>4 DEF Ask
<1>5. ASSUME NEW w \in Writers, WriterStep(w) PROVE ~damaged /\ ~closed
  <2>1. closed' = closed
    BY <1>5 DEF WriterStep, Attach, Answered, Get, AppendTurn, SaveTurn
  <2>2. damaged => damaged'
    BY <1>5, Zenon DEF WriterStep, Attach, Answered, Get, AppendTurn, SaveTurn
  <2> QED
    BY <2>1, <2>2
<1>6. ASSUME NEW k \in Summarizers, SummarizerStep(k) PROVE ~damaged /\ ~closed
  <2>1. closed' = closed
    BY <1>6, SummarizerStepLeaves
  <2>2. damaged => damaged'
    BY <1>6, Zenon DEF SummarizerStep, Load, Summarize, SummarizeFails, Reload, Compare, Merge,
                       SaveSummary
  <2> QED
    BY <2>1, <2>2
<1> QED
  BY <1>2, <1>3, <1>4, <1>5, <1>6 DEF Next

LEMMA AgreedNext ==
  ASSUME Typed, Agreed, [Next]_vars, ~damaged', ~closed'
  PROVE  Agreed'
<1>1. CASE PartialTranscript \/ FinalTranscript \/ NothingToSummarize \/ UNCHANGED vars
  BY <1>1, AgreedOthers
<1>2. CASE DeleteSession
  BY <1>2 DEF DeleteSession
<1>3. ASSUME NEW w \in Answers, Ask(w) PROVE Agreed'
  BY <1>3, AgreedWriterReads, Constants
<1>4. ASSUME NEW w \in Writers, WriterStep(w) PROVE Agreed'
  BY <1>4, AgreedWriterReads, AgreedAppendTurn, AgreedSaveTurn DEF WriterStep
<1>5. ASSUME NEW k \in Summarizers, SummarizerStep(k) PROVE Agreed'
  BY <1>5, AgreedSummarizerReads, AgreedMerge, AgreedSaveSummary DEF SummarizerStep
<1> QED
  BY <1>1, <1>2, <1>3, <1>4, <1>5 DEF Next

LEMMA GoodNext == Typed /\ Good /\ [Next]_vars => Good'
BY StillOpen, AgreedNext DEF Good, Typed

\* In an open, undamaged session whatever the goroutines hold is part of the log, and
\* what AddMessage and CreateSummary append never changes it (manager.go:182, 310).
THEOREM AlwaysGood == Spec => [](Typed /\ Good)
<1>1. Init => Typed /\ Good
  BY TypedInit, AgreedInit DEF Good
<1>2. Typed /\ Good /\ [Next]_vars => (Typed /\ Good)'
  BY TypedNext, GoodNext
<1> QED
  BY <1>1, <1>2, PTL DEF Spec

\* A context that GetContext returned keeps its turns, for any number of appends to the
\* array they are in (manager.go:87, 182, 310).
THEOREM HeldCorrect == Spec => []HeldStays
<1>1. Typed /\ Good => HeldStays
  BY ExplicitHeap DEF Good, Agreed, AllHeld, HeldIn, HeldStays
<1> QED
  BY <1>1, AlwaysGood, PTL

-----------------------------------------------------------------------------
(* The log of the session *)

\* A slice that is another with one turn more.
LEMMA OneMore ==
  ASSUME NEW S, NEW l \in Seq(S), NEW s \in Seq(S), NEW t \in Seq(S),
         IsPrefixOf(s, t), Len(t) = Len(s) + 1
  PROVE  \E x \in S : l \o t = Append(l \o s, x)
<1> DEFINE u == SubSeq(t, Len(s) + 1, Len(t))
<1>1. u \in Seq(S) /\ Len(u) = Len(t) - Len(s) /\ t = s \o u
  BY PrefixRest
<1>2. Len(s) \in Nat
  OBVIOUS
<1> HIDE DEF u
<1>3. Len(u) = 1
  BY <1>1, <1>2
<1> DEFINE x == u[1]
<1>4. x \in S /\ u = <<x>>
  BY <1>1, <1>3
<1>5. l \o t = (l \o s) \o u /\ l \o s \in Seq(S)
  <2>1. l \o s \in Seq(S)
    BY ConcatProperties
  <2>2. l \o (s \o u) = (l \o s) \o u
    <3>1. u \in Seq(S)
      BY <1>1
    <3> QED
      BY <3>1, ConcatAssociative
  <2> QED
    BY <1>1, <2>1, <2>2
<1>6. (l \o s) \o <<x>> = Append(l \o s, x)
  BY <1>4, <1>5, AppendIsConcat
<1> QED
  BY <1>4, <1>5, <1>6

\* The arrays change, what somebody holds does not.
LEMMA HeldLogsStay ==
  ASSUME Typed, Agreed, [Next]_vars, ~damaged', ~closed',
         NEW c \in ContextIn(heap), HeldIn(heap, c, store)
  PROVE  LogIn(heap', c) = LogIn(heap, c)
<1>1. CASE heap' = heap
  BY <1>1
<1>2. ASSUME NEW w \in Writers, AppendTurn(w) PROVE LogIn(heap', c) = LogIn(heap, c)
  <2>1. /\ Grown(heap, heap')
        /\ \A t \in SliceIn(heap) :
             (t.arr = store.short.arr => End(t) <= End(store.short)) => SameCells(heap, heap', t)
    BY <1>2, AppendTurnStep
  <2>2. SameCells(heap, heap', c.short)
    BY <2>1, HeldContexts, LogProperties DEF HeldIn
  <2> QED
    BY <2>1, <2>2, HeldContexts, SameCellsSameContext
<1>3. ASSUME NEW k \in Summarizers, Merge(k) PROVE LogIn(heap', c) = LogIn(heap, c)
  <2>1. Grown(heap, heap') /\ SameCells(heap, heap', c.short)
    BY <1>3, MergeStep, HeldContexts, LogProperties
  <2> QED
    BY <2>1, HeldContexts, SameCellsSameContext
<1>4. heap' = heap \/ (\E w \in Writers : AppendTurn(w)) \/ \E k \in Summarizers : Merge(k)
  BY DEF Next, vars, PartialTranscript, FinalTranscript, Ask, WriterStep, Attach, Answered, Get,
         SaveTurn, DeleteSession, NothingToSummarize, SummarizerStep, Load, Summarize, SummarizeFails,
         Reload, Compare, SaveSummary, memoryVars
<1> QED
  BY <1>1, <1>2, <1>3, <1>4

\* A step commits a turn, folds turns into the summary, damages the log or changes
\* nothing of it.
LEMMA LogStep ==
  Typed /\ Good /\ [Next]_vars => [CL!Next]_CL!vars
<1> SUFFICES ASSUME Typed, Good, [Next]_vars PROVE [CL!Next]_CL!vars
  OBVIOUS
<1> USE DEF CL!Next, CL!vars, CL!Commit, CL!Fold, CL!Damage
<1>1. CASE damaged' \/ closed'
  BY <1>1
<1>2. CASE ~damaged' /\ ~closed'
  <2>1. ~damaged /\ ~closed /\ Agreed
    BY <1>2, StillOpen DEF Good, Typed
  <2>2. Log(store) = LogIn(heap, store) /\ Log(store)' = LogIn(heap', store')
    BY DEF Log, LogIn, Turns, CellsIn
  <2>3. CASE store' = store
    <3>1. Log(store)' = Log(store)
      BY <1>2, <2>1, <2>2, <2>3, HeldLogsStay, HeldContexts, HeldReflexive
    <3> QED
      BY <1>2, <2>1, <2>3, <3>1
  <2>4. ASSUME NEW w \in Writers, SaveTurn(w) PROVE CL!Commit
    <3>1. /\ heap' = heap /\ store' \in ContextIn(heap) /\ store'.long = store.long
          /\ store'.short.len = store.short.len + 1
          /\ IsPrefixOf(CellsIn(heap, store.short), CellsIn(heap, store'.short))
      BY <1>2, <2>1, <2>4, SaveTurnStep
    <3>2. /\ store.long \in Seq(Turn)
          /\ CellsIn(heap, store.short) \in Seq(Turn) /\ Len(CellsIn(heap, store.short)) = store.short.len
          /\ CellsIn(heap, store'.short) \in Seq(Turn) /\ Len(CellsIn(heap, store'.short)) = store'.short.len
      BY <3>1, HeldContexts, LogProperties
    <3>3. \E x \in Turn : store.long \o CellsIn(heap, store'.short)
                             = Append(store.long \o CellsIn(heap, store.short), x)
      <4> DEFINE l == store.long
                 s == CellsIn(heap, store.short)
                 t == CellsIn(heap, store'.short)
      <4>1. l \in Seq(Turn) /\ s \in Seq(Turn) /\ t \in Seq(Turn) /\ IsPrefixOf(s, t) /\ Len(t) = Len(s) + 1
        BY <3>1, <3>2
      <4> HIDE DEF l, s, t, Turn
      <4>2. \E x \in Turn : l \o t = Append(l \o s, x)
        BY <4>1, OneMore
      <4> QED
        BY <4>2 DEF l, s, t
    <3>4. \E x \in Turn : Log(store)' = Append(Log(store), x)
      BY <2>2, <3>1, <3>3 DEF LogIn
    <3> QED
      BY <1>2, <2>1, <3>1, <3>4
  <2>5. ASSUME NEW k \in Summarizers, SaveSummary(k) PROVE CL!Fold
    <3>1. /\ heap' = heap /\ store' \in ContextIn(heap) /\ store'.short = recent[k]
          /\ recent[k].len > 0
          /\ LogIn(heap, store') = LogIn(heap, store)
          /\ Len(store'.long) > Len(store.long)
      BY <1>2, <2>1, <2>5, SaveSummaryStep
    <3>2. Log(store)' = Log(store)
      BY <2>2, <3>1
    <3>3. /\ Len(LogIn(heap, store')) = Len(store'.long) + store'.short.len
          /\ Len(store'.long) \in Nat /\ store'.short.len \in Nat
      BY <3>1, HeldContexts, LogProperties
    <3>4. Len(store'.long) < Len(Log(store))
      <4>1. Len(Log(store)) = Len(store'.long) + recent[k].len
        BY <2>2, <3>1, <3>3
      <4>2. recent[k].len \in Nat
        BY <3>1, <3>3
      <4> QED
        BY <3>1, <3>3, <4>1, <4>2
    <3> QED
      BY <1>2, <2>1, <3>1, <3>2, <3>4
  <2>6. store' = store \/ (\E w \in Writers : SaveTurn(w)) \/ (\E k \in Summarizers : SaveSummary(k))
    BY <1>2 DEF Next, vars, PartialTranscript, FinalTranscript, Ask, WriterStep, Attach, Answered, Get,
           AppendTurn, DeleteSession, NothingToSummarize, SummarizerStep, Load, Summarize, SummarizeFails,
           Reload, Compare, Merge, memoryVars
  <2> QED
    BY <2>1, <2>3, <2>4, <2>5, <2>6
<1> QED
  BY <1>1, <1>2

\* The memory without Redis implements the conversation log: AddMessage commits one turn
\* (manager.go:172-210) and CreateSummary folds some of them into the summary
\* (manager.go:250-325), however many summaries overlap.
THEOREM LogCorrect == Spec => LogSpec
<1>1. Init => CL!Init
  <2> SUFFICES ASSUME Init PROVE CL!Init
    OBVIOUS
  <2>1. store.long = <<>> /\ store.short = Nil /\ damaged = FALSE /\ closed = FALSE
    BY EmptyContext DEF Init
  <2>2. Log(store) = <<>>
    BY <2>1 DEF Log, Turns
  <2> QED
    BY <2>1, <2>2 DEF CL!Init
<1> QED
  BY <1>1, AlwaysGood, LogStep, PTL DEF Spec, LogSpec, CL!Spec

-----------------------------------------------------------------------------
(* The turn in flight *)

\* The values an append leaves in the arrays.
ValuesIn(h, V) == \A a \in 1..Len(h) : \A i \in 1..Len(h[a]) : h[a][i] = 0 \/ h[a][i] \in V

LEMMA CellValues ==
  ASSUME NEW h \in Seq(Array), NEW V, ValuesIn(h, V), NEW s \in SliceIn(h), NEW i \in 1..s.len
  PROVE  CellsIn(h, s)[i] \in V
<1>1. /\ CellsIn(h, s)[i] = h[s.arr][s.off + i]
      /\ s.off \in Nat /\ s.len \in Nat
  BY CellsProperties, MessagesAssumption
<1>2. s # Nil
  BY <1>1, NilFields
<1>3. /\ s.arr \in 1..Len(h) /\ Len(h[s.arr]) \in Nat /\ s.off + s.len <= Len(h[s.arr])
      /\ \A j \in (s.off + 1)..(s.off + s.len) : h[s.arr][j] \in Turn
  BY <1>2, SliceRange
<1>4. s.off + i \in 1..Len(h[s.arr]) /\ s.off + i \in (s.off + 1)..(s.off + s.len)
  BY <1>1, <1>3
<1>5. h[s.arr][s.off + i] # 0
  BY <1>3, <1>4 DEF Turn
<1> QED
  BY <1>1, <1>3, <1>4, <1>5 DEF ValuesIn

LEMMA AppendValues ==
  ASSUME NEW h \in Seq(Array), NEW V, ValuesIn(h, V), NEW s \in SliceIn(h),
         NEW new \in Seq(Turn), new # <<>>, \A i \in 1..Len(new) : new[i] \in V
  PROVE  ValuesIn(HeapExtendedIn(h, s, new), V)
<1> DEFINE h2 == HeapExtendedIn(h, s, new)
<1> SUFFICES ASSUME NEW a \in 1..Len(h2), NEW i \in 1..Len(h2[a])
             PROVE  h2[a][i] = 0 \/ h2[a][i] \in V
  BY DEF ValuesIn
<1>1. CASE Fits(h, s, new)
  <2>1. a \in 1..Len(h) /\ i \in 1..Len(h[a])
    BY <1>1, ExtendedInPlace DEF Grown
  <2>2. h2[a][i] = IF a = s.arr /\ i - s.off - s.len \in 1..Len(new)
                   THEN new[i - s.off - s.len] ELSE h[a][i]
    BY <1>1, <2>1, ExtendedInPlace
  <2> HIDE DEF h2
  <2> QED
    BY <2>1, <2>2 DEF ValuesIn
<1>2. CASE ~Fits(h, s, new)
  <2>1. /\ Len(h2) = Len(h) + 1
        /\ \A b \in 1..Len(h) : h2[b] = h[b]
        /\ \A j \in 1..(s.len + Len(new)) : h2[Len(h) + 1][j] = (CellsIn(h, s) \o new)[j]
        /\ \A j \in (s.len + Len(new) + 1)..Len(h2[Len(h) + 1]) : h2[Len(h) + 1][j] = 0
        /\ h2 \in Seq(Array)
    BY <1>2, ExtendedElsewhere DEF Grown
  <2> HIDE DEF h2
  <2>2. CASE a \in 1..Len(h)
    BY <2>1, <2>2 DEF ValuesIn
  <2>3. CASE a = Len(h) + 1
    <3>1. s.len \in Nat /\ Len(new) \in Nat /\ CellsIn(h, s) \in Seq(Turn) /\ Len(CellsIn(h, s)) = s.len
      BY CellsProperties, MessagesAssumption
    <3>2. CASE i \in 1..(s.len + Len(new))
      <4> DEFINE old == CellsIn(h, s)
      <4>1. h2[a][i] = (old \o new)[i]
        BY <2>1, <2>3, <3>2
      <4>2. (old \o new)[i] = IF i <= s.len THEN old[i] ELSE new[i - s.len]
        <5>1. old \in Seq(Turn) /\ Len(old) = s.len
          BY <3>1
        <5> HIDE DEF old, Turn
        <5>2. (old \o new)[i] = IF i <= Len(old) THEN old[i] ELSE new[i - Len(old)]
          BY <3>2, <5>1, ConcatProperties
        <5> QED
          BY <5>1, <5>2
      <4>3. i <= s.len => old[i] \in V
        BY <3>1, <3>2, CellValues
      <4>4. ~(i <= s.len) => i - s.len \in 1..Len(new)
        BY <3>1, <3>2
      <4> HIDE DEF old
      <4> QED
        BY <4>1, <4>2, <4>3, <4>4
    <3>3. CASE i \notin 1..(s.len + Len(new))
      <4>1. i \in (s.len + Len(new) + 1)..Len(h2[Len(h) + 1])
        BY <2>3, <3>1, <3>3
      <4> QED
        BY <2>1, <2>3, <4>1
    <3> QED
      BY <3>2, <3>3
  <2>4. Len(h) \in Nat
    OBVIOUS
  <2> QED
    BY <2>1, <2>2, <2>3, <2>4
<1> QED
  BY <1>1, <1>2

\* What was said or answered.
Uttered == 1..said \cup Answers

\* A context's turn in flight is not one of its turns.
FreshIn(h, c) == \A i \in 1..Len(LogIn(h, c)) : LogIn(h, c)[i] # c.current

\* Turns are of what was said.
LogUttered == \A i \in 1..Len(LogIn(heap, store)) : LogIn(heap, store)[i] \in Uttered

AllFresh ==
  /\ FreshIn(heap, store)
  /\ \A w \in Writers : FreshIn(heap, wctx[w])
  /\ \A k \in Summarizers : FreshIn(heap, sfresh[k])

\* The turn in flight is the next one to be said, and AddMessage holds none.
InFlight ==
  /\ turn = 0 \/ turn = said + 1
  /\ \A w \in Writers : wpc[w] \in {"append", "save"} => wctx[w].current = 0

Fresh == ~damaged /\ ~closed => ValuesIn(heap, Uttered) /\ LogUttered /\ AllFresh

LEMMA InFlightInit == Init => InFlight
BY DEF Init, InFlight

LEMMA InFlightNext == Typed /\ InFlight /\ [Next]_vars => InFlight'
<1> SUFFICES ASSUME Typed, InFlight, [Next]_vars PROVE InFlight'
  OBVIOUS
<1>t. wpc \in [Writers -> WriterPCs] /\ wctx \in [Writers -> Context]
  BY TypedDetails
<1>1. CASE UNCHANGED vars
  BY <1>1 DEF InFlight, vars, writerVars
<1>2. CASE PartialTranscript \/ DeleteSession \/ NothingToSummarize
  BY <1>2 DEF InFlight, PartialTranscript, DeleteSession, NothingToSummarize, SummarizerUnchanged, writerVars
<1>3. CASE FinalTranscript
  BY <1>t, <1>3 DEF InFlight, FinalTranscript, GoesTo
<1>4. ASSUME NEW w \in Writers, Ask(w) \/ Attach(w) \/ Answered(w) PROVE InFlight'
  BY <1>t, <1>4 DEF InFlight, Ask, Attach, Answered, GoesTo
<1>5. ASSUME NEW w \in Writers, Get(w) PROVE InFlight'
  <2>1. [store EXCEPT !.current = 0].current = 0
    BY TypedDetails, DetachedContext
  <2>2. wctx' = [wctx EXCEPT ![w] = [store EXCEPT !.current = 0]] /\ UNCHANGED <<turn, said>>
        /\ wpc' = [wpc EXCEPT ![w] = "append"]
    BY <1>5 DEF Get, GoesTo
  <2>3. \A v \in Writers : wctx'[v].current = 0 \/ (v # w /\ wctx'[v] = wctx[v] /\ wpc'[v] = wpc[v])
    BY <1>t, <2>1, <2>2
  <2> QED
    BY <2>2, <2>3 DEF InFlight
<1>6. ASSUME NEW w \in Writers, AppendTurn(w) PROVE InFlight'
  BY <1>t, <1>6 DEF InFlight, AppendTurn, GoesTo
<1>7. ASSUME NEW w \in Writers, SaveTurn(w) PROVE InFlight'
  <2>1. /\ wctx' = [wctx EXCEPT ![w] = Empty] /\ UNCHANGED <<turn, said>>
        /\ wpc' = [wpc EXCEPT ![w] = IF w = Pump THEN "idle" ELSE "done"]
    BY <1>7 DEF SaveTurn, GoesTo
  <2>2. \A v \in Writers : wctx'[v].current = 0 \/ (v # w /\ wctx'[v] = wctx[v] /\ wpc'[v] = wpc[v])
    BY <1>t, <2>1, EmptyContext
  <2> QED
    BY <2>1, <2>2 DEF InFlight
<1>8. ASSUME NEW k \in Summarizers, SummarizerStep(k) PROVE InFlight'
  BY <1>8, SummarizerStepLeaves DEF InFlight
<1> QED
  BY <1>1, <1>2, <1>3, <1>4, <1>5, <1>6, <1>7, <1>8, Constants DEF Next, WriterStep

LEMMA UtteredGrows ==
  ASSUME Typed, [Next]_vars
  PROVE  Uttered \subseteq Uttered'
<1>1. said \in Nat
  BY TypedDetails
<1>2. said' = said \/ said' = said + 1
  BY SummarizerStepLeaves DEF Next, vars, PartialTranscript, FinalTranscript, Ask, WriterStep, Attach, Answered, Get,
         AppendTurn, SaveTurn, DeleteSession, NothingToSummarize, SummarizerUnchanged
<1> QED
  BY <1>1, <1>2 DEF Uttered

\* What a step may make of the contexts somebody holds.
LEMMA ContextsRead ==
  ASSUME Typed, [Next]_vars
  PROVE  /\ \A w \in Writers :
              \/ wctx'[w] = wctx[w] \/ wctx'[w] = store \/ wctx'[w] = Empty
              \/ wctx'[w] = Attached(wctx[w])
              \/ wctx'[w] = [store EXCEPT !.current = 0]
         /\ \A k \in Summarizers :
              \/ sfresh'[k] = sfresh[k] \/ sfresh'[k] = store \/ sfresh'[k] = Empty
              \/ sfresh'[k] = Attached(sfresh[k])
<1>t. wctx \in [Writers -> Context] /\ sfresh \in [Summarizers -> Context]
  BY TypedDetails
<1>1. CASE UNCHANGED vars
  BY <1>1 DEF vars, writerVars, summarizerVars
<1>2. CASE PartialTranscript \/ DeleteSession \/ NothingToSummarize \/ FinalTranscript
  BY <1>2 DEF PartialTranscript, DeleteSession, NothingToSummarize, SummarizerUnchanged, FinalTranscript,
              writerVars, summarizerVars
<1>3. ASSUME NEW w \in Writers, Ask(w) \/ WriterStep(w)
      PROVE  /\ sfresh' = sfresh
             /\ \/ wctx' = wctx
                \/ \E c \in {store, Empty, Attached(wctx[w]), [store EXCEPT !.current = 0]} :
                     wctx' = [wctx EXCEPT ![w] = c]
  BY <1>3 DEF Ask, WriterStep, Attach, Answered, Get, AppendTurn, SaveTurn, summarizerVars
<1>4. ASSUME NEW k \in Summarizers, SummarizerStep(k)
      PROVE  /\ wctx' = wctx
             /\ \/ sfresh' = sfresh
                \/ \E c \in {store, Empty, Attached(sfresh[k])} : sfresh' = [sfresh EXCEPT ![k] = c]
  BY <1>4, SummarizerStepLeaves DEF SummarizerStep, Load, Summarize, SummarizeFails, Reload, Compare, Merge,
              SaveSummary, Finish
<1>5. ASSUME NEW w \in Writers, Ask(w) \/ WriterStep(w), NEW v \in Writers
      PROVE  \/ wctx'[v] = wctx[v] \/ wctx'[v] = store \/ wctx'[v] = Empty
             \/ wctx'[v] = Attached(wctx[v])
             \/ wctx'[v] = [store EXCEPT !.current = 0]
  BY <1>t, <1>3, <1>5
<1>6. ASSUME NEW k \in Summarizers, SummarizerStep(k), NEW j \in Summarizers
      PROVE  \/ sfresh'[j] = sfresh[j] \/ sfresh'[j] = store \/ sfresh'[j] = Empty
             \/ sfresh'[j] = Attached(sfresh[j])
  BY <1>t, <1>4, <1>6
<1> QED
  BY <1>1, <1>2, <1>3, <1>4, <1>5, <1>6, Constants DEF Next

LEMMA FreshWhenNone ==
  ASSUME NEW h \in Seq(Array), NEW c \in ContextIn(h), c.current = 0
  PROVE  FreshIn(h, c)
<1>1. LogIn(h, c) \in Seq(Turn)
  BY LogProperties
<1>2. \A i \in 1..Len(LogIn(h, c)) : LogIn(h, c)[i] \in Turn
  BY <1>1
<1> QED
  BY <1>2 DEF FreshIn, Turn

\* The turn in flight is not yet in the log when it is attached.
LEMMA AttachedFresh ==
  ASSUME Typed, InFlight, LogUttered,
         NEW c \in ContextIn(heap), HeldIn(heap, c, store), FreshIn(heap, c)
  PROVE  FreshIn(heap, Attached(c))
<1>1. /\ c \in Context /\ turn \in {0} \cup Turn
      /\ LogIn(heap, c) \in Seq(Turn) /\ LogIn(heap, store) \in Seq(Turn)
  BY ExplicitHeap, TypedDetails, HeldContexts, LogProperties
<1>2. LogIn(heap, Attached(c)) = LogIn(heap, c)
  BY <1>1, AttachedContext DEF LogIn
<1>3. CASE turn = 0
  BY <1>3 DEF Attached
<1>4. CASE turn # 0
  <2>1. Attached(c).current = said + 1
    BY <1>1, <1>4, AttachedContext DEF InFlight
  <2>2. said + 1 \notin Uttered
    <3>1. said \in Nat /\ said + 1 <= MaxUtterances /\ MaxUtterances \in Nat /\ MaxMessages \in Nat
      BY <1>4, Constants DEF InFlight, Typed, TypeOK
    <3> QED
      BY <3>1 DEF Uttered, Answers
  <2>3. \A i \in 1..Len(LogIn(heap, c)) : LogIn(heap, c)[i] \in Uttered
    <3>1. /\ Len(LogIn(heap, c)) <= Len(LogIn(heap, store))
          /\ \A i \in 1..Len(LogIn(heap, c)) : LogIn(heap, store)[i] = LogIn(heap, c)[i]
      <4>1. IsPrefixOf(LogIn(heap, c), LogIn(heap, store))
        BY DEF HeldIn
      <4> HIDE DEF Turn
      <4> QED
        BY <1>1, <4>1, PrefixElements
    <3>2. Len(LogIn(heap, c)) \in Nat /\ Len(LogIn(heap, store)) \in Nat
      BY <1>1
    <3> QED
      BY <3>1, <3>2 DEF LogUttered
  <2> QED
    BY <1>2, <2>1, <2>2, <2>3 DEF FreshIn
<1> QED
  BY <1>3, <1>4

LEMMA ValuesNext ==
  ASSUME Typed, Agreed, [Next]_vars, ~damaged', ~closed', ValuesIn(heap, Uttered)
  PROVE  ValuesIn(heap', Uttered')
<1>g. Uttered \subseteq Uttered'
  BY UtteredGrows
<1>h. heap \in Seq(Array)
  BY HeldContexts
<1>1. CASE heap' = heap
  BY <1>1, <1>g DEF ValuesIn
<1>2. ASSUME NEW w \in Writers, AppendTurn(w) PROVE ValuesIn(heap', Uttered')
  <2>1. /\ store.short \in SliceIn(heap) /\ Added(w) \in Seq(Turn) /\ Len(Added(w)) = 1
        /\ Added(w) # <<>> /\ heap' = HeapExtendedIn(heap, store.short, Added(w))
    BY <1>2, AppendTurnStep
  <2>2. Added(w)[1] \in Uttered
    <3>1. CASE w = Pump
      <4>1. said > 0 /\ said \in Nat
        BY <1>2, <3>1, TypedDetails DEF AppendTurn, GoesTo, Typed, PumpWrites
      <4> QED
        BY <3>1, <4>1 DEF Added, Uttered
    <3>2. CASE w # Pump
      BY <3>2, Constants DEF Added, Uttered
    <3> QED
      BY <3>1, <3>2
  <2>3. \A i \in 1..Len(Added(w)) : Added(w)[i] \in Uttered
    BY <2>1, <2>2
  <2>4. ValuesIn(heap', Uttered)
    BY <1>h, <2>1, <2>3, AppendValues
  <2> QED
    BY <1>g, <2>4 DEF ValuesIn
<1>3. ASSUME NEW k \in Summarizers, Merge(k) PROVE ValuesIn(heap', Uttered')
  <2> DEFINE new == NewlyAdded(k)
             s == sctx[k].short
             f == sfresh[k].short
  <2>1. CASE new = <<>>
    BY <1>1, <1>3, <2>1 DEF Merge
  <2>2. CASE new # <<>>
    <3>1. heap' = HeapExtendedIn(heap, recent[k], new) /\ recent[k] \in SliceIn(heap)
      BY <1>3, <2>2, Unfolded, HeldContexts DEF Merge
    <3>2. /\ new \in Seq(Turn)
          /\ CellsIn(heap, f) = CellsIn(heap, s) \o new
          /\ f.len = s.len + Len(new)
      BY <1>3, ReloadedTurns DEF Merge
    <3>3. CellsIn(heap, s) \in Seq(Turn) /\ Len(CellsIn(heap, s)) = s.len /\ s.len \in Nat
          /\ f \in SliceIn(heap)
      BY HeldContexts, LogProperties
    <3>4. ASSUME NEW j \in 1..Len(new) PROVE new[j] \in Uttered
      <4> DEFINE old == CellsIn(heap, s)
                 i == s.len + j
      <4>1. i \in 1..f.len /\ i \in 1..(s.len + Len(new)) /\ ~(i <= s.len) /\ i - s.len = j
        <5> HIDE DEF s, f, new
        <5> QED
          BY <3>2, <3>3
      <4>2. CellsIn(heap, f)[i] \in Uttered
        BY <1>h, <3>3, <4>1, CellValues
      <4>3. (old \o new)[i] = new[j]
        <5>1. old \in Seq(Turn) /\ new \in Seq(Turn) /\ Len(old) = s.len
          BY <3>2, <3>3
        <5> HIDE DEF old, new, i, Turn
        <5>2. (old \o new)[i] = IF i <= Len(old) THEN old[i] ELSE new[i - Len(old)]
          BY <4>1, <5>1, ConcatProperties
        <5> QED
          BY <4>1, <5>1, <5>2
      <4> HIDE DEF i
      <4> QED
        BY <3>2, <4>2, <4>3
    <3>5. ValuesIn(heap', Uttered)
      <4> HIDE DEF new
      <4> QED
        BY <1>h, <2>2, <3>1, <3>2, <3>4, AppendValues
    <3> QED
      BY <1>g, <3>5 DEF ValuesIn
  <2> QED
    BY <2>1, <2>2
<1>4. heap' = heap \/ (\E w \in Writers : AppendTurn(w)) \/ \E k \in Summarizers : Merge(k)
  BY DEF Next, vars, PartialTranscript, FinalTranscript, Ask, WriterStep, Attach, Answered, Get,
         SaveTurn, DeleteSession, NothingToSummarize, SummarizerStep, Load, Summarize, SummarizeFails,
         Reload, Compare, SaveSummary, memoryVars
<1> QED
  BY <1>1, <1>2, <1>3, <1>4

\* A step leaves what is stored, or appends a turn to it, or makes a summary of it.
LEMMA StoreStep ==
  ASSUME [Next]_vars, ~closed'
  PROVE  \/ store' = store
         \/ \E w \in Writers : SaveTurn(w)
         \/ \E k \in Summarizers : SaveSummary(k)
BY DEF Next, vars, PartialTranscript, FinalTranscript, Ask, WriterStep, Attach, Answered, Get,
       AppendTurn, DeleteSession, NothingToSummarize, SummarizerStep, Load, Summarize, SummarizeFails,
       Reload, Compare, Merge, memoryVars

LEMMA LogUtteredNext ==
  ASSUME Typed, Agreed, [Next]_vars, ~damaged', ~closed', ValuesIn(heap, Uttered), LogUttered
  PROVE  LogUttered'
<1>g. Uttered \subseteq Uttered'
  BY UtteredGrows
<1>h. /\ heap \in Seq(Array) /\ store \in ContextIn(heap) /\ HeldIn(heap, store, store)
  BY HeldContexts, HeldReflexive
<1>1. CASE store' = store
  <2>1. LogIn(heap', store) = LogIn(heap, store)
    BY <1>h, HeldLogsStay
  <2> QED
    BY <1>1, <1>g, <2>1 DEF LogUttered
<1>2. ASSUME NEW w \in Writers, SaveTurn(w) PROVE LogUttered'
  <2>1. heap' = heap /\ store' \in ContextIn(heap) /\ store'.long = store.long
    BY <1>2, SaveTurnStep
  <2> DEFINE long == store.long
             old == CellsIn(heap, store.short)
             now == CellsIn(heap, store'.short)
  <2>2. /\ long \in Seq(Turn) /\ old \in Seq(Turn) /\ now \in Seq(Turn)
        /\ Len(now) = store'.short.len /\ store'.short \in SliceIn(heap)
        /\ Len(long) \in Nat /\ Len(old) \in Nat /\ Len(now) \in Nat
    <3>1. /\ long \in Seq(Turn) /\ old \in Seq(Turn) /\ now \in Seq(Turn)
          /\ Len(now) = store'.short.len /\ store'.short \in SliceIn(heap)
      BY <1>h, <2>1, LogProperties
    <3> HIDE DEF long, old, now, Turn
    <3> QED
      BY <3>1
  <2>3. LogIn(heap, store) = long \o old /\ LogIn(heap', store') = long \o now
    BY <2>1 DEF LogIn
  <2>4. \A i \in 1..Len(now) : now[i] \in Uttered
    BY <1>h, <2>2, CellValues
  <2>5. \A i \in 1..Len(long \o old) : (long \o old)[i] \in Uttered
    BY <2>3 DEF LogUttered
  <2> HIDE DEF long, old, now, Turn
  <2>6. /\ Len(long \o old) = Len(long) + Len(old)
        /\ \A i \in 1..(Len(long) + Len(old)) :
             (long \o old)[i] = IF i <= Len(long) THEN long[i] ELSE old[i - Len(long)]
    BY <2>2, ConcatProperties
  <2>7. /\ Len(long \o now) = Len(long) + Len(now)
        /\ \A i \in 1..(Len(long) + Len(now)) :
             (long \o now)[i] = IF i <= Len(long) THEN long[i] ELSE now[i - Len(long)]
    BY <2>2, ConcatProperties
  <2>8. \A i \in 1..Len(long) : long[i] \in Uttered
    BY <2>2, <2>5, <2>6
  <2>9. ASSUME NEW i \in 1..Len(long \o now) PROVE (long \o now)[i] \in Uttered
    <3>1. i \in 1..(Len(long) + Len(now))
      BY <2>7
    <3>2. CASE i <= Len(long)
      BY <2>2, <2>7, <2>8, <3>1, <3>2
    <3>3. CASE ~(i <= Len(long))
      <4>1. i - Len(long) \in 1..Len(now)
        BY <2>2, <3>1, <3>3
      <4> QED
        BY <2>4, <2>7, <3>1, <3>3, <4>1
    <3> QED
      BY <3>2, <3>3
  <2> QED
    BY <1>g, <2>3, <2>9 DEF LogUttered
<1>3. ASSUME NEW k \in Summarizers, SaveSummary(k) PROVE LogUttered'
  <2>1. heap' = heap /\ LogIn(heap, store') = LogIn(heap, store)
    BY <1>3, SaveSummaryStep
  <2> QED
    BY <1>g, <2>1 DEF LogUttered
<1> QED
  BY <1>1, <1>2, <1>3, StoreStep

LEMMA AllFreshNext ==
  ASSUME Typed, Agreed, InFlight, [Next]_vars, ~damaged', ~closed', LogUttered, AllFresh
  PROVE  AllFresh'
<1>h. /\ heap \in Seq(Array) /\ store \in ContextIn(heap) /\ HeldIn(heap, store, store)
      /\ Empty \in ContextIn(heap) /\ HeldIn(heap, Empty, store)
      /\ \A w \in Writers : wctx[w] \in ContextIn(heap) /\ HeldIn(heap, wctx[w], store)
      /\ \A k \in Summarizers : sfresh[k] \in ContextIn(heap) /\ HeldIn(heap, sfresh[k], store)
  BY HeldContexts, HeldReflexive DEF Agreed, AllHeld
<1>1. \A c \in ContextIn(heap) : HeldIn(heap, c, store) /\ FreshIn(heap, c) => FreshIn(heap', c)
  BY HeldLogsStay DEF FreshIn
<1>2. ASSUME NEW c \in ContextIn(heap), HeldIn(heap, c, store), FreshIn(heap, c)
      PROVE  FreshIn(heap', Attached(c))
  <2>1. FreshIn(heap, Attached(c))
    BY <1>2, AttachedFresh
  <2>2. /\ Attached(c).version = c.version /\ Attached(c).long = c.long /\ Attached(c).short = c.short
        /\ Attached(c) \in ContextIn(heap)
    BY ExplicitHeap, TypedDetails, AttachedContext
  <2>3. HeldIn(heap, Attached(c), store)
    BY <1>2, <2>2 DEF HeldIn, FollowsIn, LogIn
  <2> QED
    BY <1>1, <2>1, <2>2, <2>3
<1>3. FreshIn(heap', Empty)
  BY <1>1, <1>h, EmptyContext, FreshWhenNone
<1>4. FreshIn(heap', [store EXCEPT !.current = 0])
  <2> DEFINE c == [store EXCEPT !.current = 0]
  <2>1. /\ c \in ContextIn(heap) /\ c.version = store.version /\ c.long = store.long
        /\ c.short = store.short /\ c.current = 0
    BY ExplicitHeap, TypedDetails, DetachedContext
  <2> HIDE DEF c
  <2>2. HeldIn(heap, c, store)
    BY <1>h, <2>1 DEF HeldIn, FollowsIn, LogIn
  <2>3. FreshIn(heap', c)
    BY <1>1, <1>h, <2>1, <2>2, FreshWhenNone
  <2> QED
    BY <2>3 DEF c
<1>5. \A w \in Writers : FreshIn(heap', wctx'[w])
  BY <1>1, <1>2, <1>3, <1>4, <1>h, ContextsRead DEF AllFresh
<1>6. \A k \in Summarizers : FreshIn(heap', sfresh'[k])
  BY <1>1, <1>2, <1>3, <1>h, ContextsRead DEF AllFresh
<1>7. FreshIn(heap', store')
  <2>1. CASE store' = store
    BY <1>1, <1>h, <2>1 DEF AllFresh
  <2>2. ASSUME NEW w \in Writers, SaveTurn(w) PROVE FreshIn(heap', store')
    <3>1. heap' = heap /\ store' \in ContextIn(heap) /\ store'.current = wctx[w].current /\ wpc[w] = "save"
      BY <2>2, SaveTurnStep
    <3>2. store'.current = 0
      BY <3>1 DEF InFlight
    <3> QED
      BY <1>h, <3>1, <3>2, FreshWhenNone
  <2>3. ASSUME NEW k \in Summarizers, SaveSummary(k) PROVE FreshIn(heap', store')
    <3>1. /\ heap' = heap /\ store'.current = sfresh[k].current
          /\ LogIn(heap, store') = LogIn(heap, sfresh[k])
      BY <2>3, SaveSummaryStep
    <3> QED
      BY <3>1 DEF AllFresh, FreshIn
  <2> QED
    BY <2>1, <2>2, <2>3, StoreStep
<1> QED
  BY <1>5, <1>6, <1>7 DEF AllFresh

LEMMA FreshInit == Init => Fresh
<1> SUFFICES ASSUME Init PROVE Fresh
  OBVIOUS
<1>1. /\ heap = <<>> /\ store = Empty
      /\ \A w \in Writers : wctx[w] = Empty
      /\ \A k \in Summarizers : sfresh[k] = Empty
  BY DEF Init
<1>2. LogIn(heap, Empty) = <<>>
  BY EmptyContext DEF LogIn, CellsIn
<1> QED
  BY <1>1, <1>2 DEF Fresh, ValuesIn, LogUttered, AllFresh, FreshIn

LEMMA FreshNext == Typed /\ Good /\ InFlight /\ Fresh /\ [Next]_vars => Fresh'
<1> SUFFICES ASSUME Typed, Good, InFlight, Fresh, [Next]_vars, ~damaged', ~closed'
             PROVE  ValuesIn(heap, Uttered)' /\ LogUttered' /\ AllFresh'
  BY DEF Fresh
<1>1. Agreed /\ ValuesIn(heap, Uttered) /\ LogUttered /\ AllFresh
  BY StillOpen DEF Typed, Good, Fresh
<1> QED
  BY <1>1, ValuesNext, LogUtteredNext, AllFreshNext

\* No prompt has the utterance in flight among the turns as well, for any number of
\* partial transcripts, answers and summaries (manager.go:103-109, 149-152, 176).
THEOREM UtteranceOnce == Spec => []NoUtteranceTwice
<1>1. Init => InFlight /\ Fresh
  BY InFlightInit, FreshInit
<1>2. Typed /\ Good /\ InFlight /\ Fresh /\ [Next]_vars => (InFlight /\ Fresh)'
  BY InFlightNext, FreshNext
<1>3. Typed /\ Fresh => NoUtteranceTwice
  <2> SUFFICES ASSUME Typed, Fresh, ~closed, ~damaged, NEW w \in Answers, NEW i \in DOMAIN Log(wctx[w])
               PROVE  Log(wctx[w])[i] # wctx[w].current
    BY DEF NoUtteranceTwice
  <2>1. FreshIn(heap, wctx[w])
    BY Constants DEF Fresh, AllFresh
  <2>2. Log(wctx[w]) = LogIn(heap, wctx[w]) /\ LogIn(heap, wctx[w]) \in Seq(Turn)
    BY ExplicitHeap, HeldContexts, LogProperties, Constants
  <2>3. i \in 1..Len(LogIn(heap, wctx[w]))
    BY <2>2
  <2> QED
    BY <2>1, <2>2, <2>3 DEF FreshIn
<1> QED
  BY <1>1, <1>2, <1>3, AlwaysGood, PTL DEF Spec
=============================================================================
