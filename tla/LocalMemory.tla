---------------------------- MODULE LocalMemory ----------------------------
(***************************************************************************)
(* The 3-level memory of ONE session in the mode without Redis:            *)
(* internal/memory with localStore as the only store.                      *)
(*                                                                         *)
(* GetContext copies the struct of the stored context but not its slice of *)
(* turns, so that what several goroutines hold are slices of one array.    *)
(* append writes into that array when its capacity allows, and into a new  *)
(* one when not.  Over the limit, AddMessage launches CreateSummary in a   *)
(* goroutine of its own, without a lock.                                   *)
(*                                                                         *)
(* The utterances of the conversation are the turns 1, 2, ... of the       *)
(* transcript pump; the turns above them are answers, each made by the     *)
(* goroutine of one generate_answer.  Reads and writes of a cell are       *)
(* atomic here: a torn turn would count as damage like any other.          *)
(***************************************************************************)
EXTENDS ShortMemory, FiniteSets

CONSTANTS
  MaxUtterances,     \* bound: turns committed by the transcript pump
  Summarizers,       \* bound: CreateSummary goroutines past their first step at once
  MaxFaults          \* bound: LLM calls that fail or say nothing

ASSUME LocalAssumption ==
  /\ MaxUtterances \in 0..MaxMessages
  /\ MaxFaults \in Nat

Pump    == 0
Answers == (MaxUtterances + 1)..MaxMessages
Writers == {Pump} \cup Answers

VARIABLES
  heap,      \* the backing arrays of slices; 0 is a cell nobody wrote
  store,     \* localStore: the session's context
  turn,      \* Level 1: the utterance in flight, 0 if there is none
  said,      \* utterances that AddTranscript was called with
  closed,    \* DeleteSession was called
  wpc,       \* where each writer is
  wctx,      \* the context it read
  wnew,      \* its turns with the new one appended
  pending,   \* CreateSummary goroutines that have not run yet
  spc,       \* where each running one is
  sctx,      \* the context its summary is made from
  summary,   \* the summary the LLM returned
  sfresh,    \* the context it reloaded after that
  recent,    \* recentMessages: the turns it leaves in Level 2
  faults,    \* failures so far
  damaged    \* history: a turn may have been lost

memoryVars     == <<heap, store>>
writerVars     == <<wpc, wctx, wnew>>
summarizerVars == <<spc, sctx, summary, sfresh, recent>>
vars == <<memoryVars, turn, said, closed, writerVars, pending, summarizerVars, faults, damaged>>

-----------------------------------------------------------------------------
(* Slices *)

Array == Seq(Turn \cup {0})

Nil == [arr |-> 0, off |-> 0, len |-> 0]

\* Arrays are numbered as they are allocated.  A slice stays within its array, and
\* within the cells somebody wrote.
Slice ==
  {Nil} \cup {s \in [arr : 1..Len(heap), off : Nat, len : 0..MaxMessages] :
                /\ s.off + s.len <= Len(heap[s.arr])
                /\ \A i \in (s.off + 1)..(s.off + s.len) : heap[s.arr][i] # 0}

Capacity(s) == IF s = Nil THEN 0 ELSE Len(heap[s.arr]) - s.off

Turns(s) == IF s = Nil THEN <<>> ELSE SubSeq(heap[s.arr], s.off + 1, s.off + s.len)

Larger(i, j) == IF i > j THEN i ELSE j

\* What append(s, new...) returns: s made longer, or a slice of a new array.
Extended(s, new) ==
  IF s.len + Len(new) <= Capacity(s)
  THEN [s EXCEPT !.len = @ + Len(new)]
  ELSE [arr |-> Len(heap) + 1, off |-> 0, len |-> s.len + Len(new)]

\* What it does to the arrays.  A new array has twice the capacity, or what it needs.
HeapExtended(s, new) ==
  IF s.len + Len(new) <= Capacity(s)
  THEN [heap EXCEPT ![s.arr] =
          [i \in DOMAIN @ |-> IF i - s.off - s.len \in DOMAIN new THEN new[i - s.off - s.len] ELSE @[i]]]
  ELSE LET old  == Turns(s) \o new
           room == Larger(2 * Capacity(s), Len(old))
       IN  Append(heap, [i \in 1..room |-> IF i <= Len(old) THEN old[i] ELSE 0])

-----------------------------------------------------------------------------
(* Contexts *)

Context == [version : Nat \ {0}, long : Seq(Turn), short : Slice, current : {0} \cup Turn]

\* What GetContext makes up when nothing is stored.
Empty == [version |-> 1, long |-> <<>>, short |-> Nil, current |-> 0]

\* The turns a context holds: those its summary was made from, then the raw ones.
Log(c) == c.long \o Turns(c.short)

\* GetContext: the copy of what is stored, with the turn in flight, if any, attached.
Attached(c) == IF turn = 0 THEN c ELSE [c EXCEPT !.current = turn]

OverLimit(c) ==
  (IF c.long = <<>> THEN 0 ELSE SummaryTokens) + Weight(Turns(c.short))[1] >= MaxContextTokens

WriterPCs == {"idle", "attach", "prompt", "answer", "get", "append", "save", "done"}

SummarizerPCs == {"idle", "summarize", "reload", "compare", "merge", "save"}

TypeOK ==
  /\ heap \in Seq(Array)
  /\ store \in Context
  /\ turn \in {0} \cup 1..MaxUtterances
  /\ said \in 0..MaxUtterances
  /\ closed \in BOOLEAN
  /\ wpc \in [Writers -> WriterPCs]
  /\ wctx \in [Writers -> Context]
  /\ wnew \in [Writers -> Slice]
  /\ pending \in Nat
  /\ spc \in [Summarizers -> SummarizerPCs]
  /\ sctx \in [Summarizers -> Context]
  /\ summary \in [Summarizers -> Seq(Turn)]
  /\ sfresh \in [Summarizers -> Context]
  /\ recent \in [Summarizers -> Slice]
  /\ faults \in 0..MaxFaults
  /\ damaged \in BOOLEAN

Init ==
  /\ heap = <<>>
  /\ store = Empty
  /\ turn = 0
  /\ said = 0
  /\ closed = FALSE
  /\ wpc = [w \in Writers |-> "idle"]
  /\ wctx = [w \in Writers |-> Empty]
  /\ wnew = [w \in Writers |-> Nil]
  /\ pending = 0
  /\ spc = [k \in Summarizers |-> "idle"]
  /\ sctx = [k \in Summarizers |-> Empty]
  /\ summary = [k \in Summarizers |-> <<>>]
  /\ sfresh = [k \in Summarizers |-> Empty]
  /\ recent = [k \in Summarizers |-> Nil]
  /\ faults = 0
  /\ damaged = FALSE

-----------------------------------------------------------------------------
(* The transcript pump and the goroutines of answers *)

GoesTo(w, here, there) ==
  /\ wpc[w] = here
  /\ wpc' = [wpc EXCEPT ![w] = there]

\* UpdateCurrentTurn, with a partial transcript of the next utterance.
PartialTranscript ==
  /\ ~closed
  /\ wpc[Pump] = "idle"
  /\ said < MaxUtterances
  /\ turn' = said + 1
  /\ UNCHANGED <<memoryVars, said, closed, writerVars, pending, summarizerVars, faults, damaged>>

\* Mutant: the turn in flight is left there until the next partial transcript.
FinalTranscriptKept ==
  /\ ~closed
  /\ said < MaxUtterances
  /\ GoesTo(Pump, "idle", "get")
  /\ said' = said + 1
  /\ UNCHANGED <<memoryVars, turn, closed, wctx, wnew, pending, summarizerVars, faults, damaged>>

\* AddTranscript: the turn in flight is cleared, then AddMessage called.
FinalTranscript ==
  /\ ~closed
  /\ said < MaxUtterances
  /\ GoesTo(Pump, "idle", "get")
  /\ said' = said + 1
  /\ turn' = 0
  /\ UNCHANGED <<memoryVars, closed, wctx, wnew, pending, summarizerVars, faults, damaged>>

\* An answer's GetContext, first half: the struct is copied under localMu.
Ask(w) ==
  /\ GoesTo(w, "idle", "attach")
  /\ wctx' = [wctx EXCEPT ![w] = store]
  /\ UNCHANGED <<memoryVars, turn, said, closed, wnew, pending, summarizerVars, faults, damaged>>

\* Its second half: the turn in flight is attached under turnMu.
Attach(w) ==
  /\ GoesTo(w, "attach", "prompt")
  /\ wctx' = [wctx EXCEPT ![w] = Attached(@)]
  /\ UNCHANGED <<memoryVars, turn, said, closed, wnew, pending, summarizerVars, faults, damaged>>

\* BuildChatMessages has read the turns; the answer is made of the prompt or it is not.
Answered(w) ==
  /\ GoesTo(w, "prompt", "answer") \/ GoesTo(w, "prompt", "done")
  /\ wctx' = [wctx EXCEPT ![w] = Empty]
  /\ UNCHANGED <<memoryVars, turn, said, closed, wnew, pending, summarizerVars, faults, damaged>>

\* AddMessage: GetContext, whose turn in flight is dropped.
Get(w) ==
  /\ GoesTo(w, "get", "append") \/ GoesTo(w, "answer", "append")
  /\ wctx' = [wctx EXCEPT ![w] = [store EXCEPT !.current = 0]]
  /\ UNCHANGED <<memoryVars, turn, said, closed, wnew, pending, summarizerVars, faults, damaged>>

Added(w) == <<IF w = Pump THEN said ELSE w>>

\* Is c still what is stored, but for the turn in flight?
IsStored(c) == [store EXCEPT !.current = 0] = [c EXCEPT !.current = 0]

\* AddMessage: append.  If others have stored a context since this one was read, the
\* cell written may be one of theirs.
AppendTurn(w) ==
  /\ GoesTo(w, "append", "save")
  /\ wnew' = [wnew EXCEPT ![w] = Extended(wctx[w].short, Added(w))]
  /\ heap' = HeapExtended(wctx[w].short, Added(w))
  /\ damaged' = (damaged \/ ~IsStored(wctx[w]))
  /\ UNCHANGED <<store, turn, said, closed, wctx, pending, summarizerVars, faults>>

\* AddMessage: SaveContext, and a CreateSummary is launched over the limit.
SaveTurn(w) ==
  /\ GoesTo(w, "save", IF w = Pump THEN "idle" ELSE "done")
  /\ store' = [wctx[w] EXCEPT !.short = wnew[w]]
  /\ damaged' = (damaged \/ ~IsStored(wctx[w]))
  /\ pending' = pending + IF OverLimit(store') THEN 1 ELSE 0
  /\ wctx' = [wctx EXCEPT ![w] = Empty]
  /\ wnew' = [wnew EXCEPT ![w] = Nil]
  /\ UNCHANGED <<heap, turn, said, closed, summarizerVars, faults>>

WriterStep(w) == Attach(w) \/ Answered(w) \/ Get(w) \/ AppendTurn(w) \/ SaveTurn(w)

\* cleanup, after the pumps have ended: DeleteSession.
DeleteSession ==
  /\ ~closed
  /\ wpc[Pump] = "idle"
  /\ closed' = TRUE
  /\ turn' = 0
  /\ store' = Empty
  /\ UNCHANGED <<heap, said, writerVars, pending, summarizerVars, faults, damaged>>

-----------------------------------------------------------------------------
(* CreateSummary *)

SummarizerUnchanged ==
  UNCHANGED <<turn, said, closed, writerVars>>

Finish(k) ==
  /\ spc' = [spc EXCEPT ![k] = "idle"]
  /\ sctx' = [sctx EXCEPT ![k] = Empty]
  /\ summary' = [summary EXCEPT ![k] = <<>>]
  /\ sfresh' = [sfresh EXCEPT ![k] = Empty]
  /\ recent' = [recent EXCEPT ![k] = Nil]

Fault == /\ faults < MaxFaults
         /\ faults' = faults + 1

\* A launched goroutine finds at most one turn, and is over.
NothingToSummarize ==
  /\ pending > 0
  /\ Len(Turns(store.short)) <= 1
  /\ pending' = pending - 1
  /\ SummarizerUnchanged
  /\ UNCHANGED <<memoryVars, summarizerVars, faults, damaged>>

\* Mutant: the window is moved and not shortened.
LoadPastTheEnd(k) ==
  /\ spc[k] = "idle"
  /\ pending > 0
  /\ Len(Turns(store.short)) > 1
  /\ pending' = pending - 1
  /\ recent' = [recent EXCEPT ![k] = [store.short EXCEPT !.off = @ + SplitIndex(Turns(store.short))]]
  /\ sctx' = [sctx EXCEPT ![k] = store]
  /\ spc' = [spc EXCEPT ![k] = "summarize"]
  /\ SummarizerUnchanged
  /\ UNCHANGED <<memoryVars, summary, sfresh, faults, damaged>>

\* GetContext, and the split: both parts stay slices of the array.
Load(k) ==
  /\ spc[k] = "idle"
  /\ pending > 0
  /\ Len(Turns(store.short)) > 1
  /\ pending' = pending - 1
  /\ LET older == SplitIndex(Turns(store.short))
     IN  recent' = [recent EXCEPT ![k] =
                      [store.short EXCEPT !.off = @ + older, !.len = @ - older]]
  /\ sctx' = [sctx EXCEPT ![k] = store]
  /\ spc' = [spc EXCEPT ![k] = "summarize"]
  /\ SummarizerUnchanged
  /\ UNCHANGED <<memoryVars, summary, sfresh, faults, damaged>>

\* messagesToSummarize, as its cells read now.
OlderTurns(k) == SubSeq(Turns(sctx[k].short), 1, sctx[k].short.len - recent[k].len)

\* The LLM's answer stands for the old summary and the older turns, or it is empty.
Summarize(k) ==
  /\ spc[k] = "summarize"
  /\ \/ summary' = [summary EXCEPT ![k] = sctx[k].long \o OlderTurns(k)] /\ UNCHANGED faults
     \/ summary' = [summary EXCEPT ![k] = <<>>] /\ Fault
  /\ spc' = [spc EXCEPT ![k] = "reload"]
  /\ SummarizerUnchanged
  /\ UNCHANGED <<memoryVars, pending, sctx, sfresh, recent, damaged>>

\* The LLM call fails, or the 20 s of the goroutine are over.
SummarizeFails(k) ==
  /\ spc[k] = "summarize"
  /\ Fault
  /\ Finish(k)
  /\ SummarizerUnchanged
  /\ UNCHANGED <<memoryVars, pending, damaged>>

\* The second GetContext, first half.
Reload(k) ==
  /\ spc[k] = "reload"
  /\ sfresh' = [sfresh EXCEPT ![k] = store]
  /\ spc' = [spc EXCEPT ![k] = "compare"]
  /\ SummarizerUnchanged
  /\ UNCHANGED <<memoryVars, pending, sctx, summary, recent, faults, damaged>>

\* Mutant: the versions are not compared.
CompareNothing(k) ==
  /\ spc[k] = "compare"
  /\ sfresh' = [sfresh EXCEPT ![k] = Attached(@)]
  /\ spc' = [spc EXCEPT ![k] = "merge"]
  /\ UNCHANGED <<sctx, summary, recent>>
  /\ SummarizerUnchanged
  /\ UNCHANGED <<memoryVars, pending, faults, damaged>>

\* Its second half; then the versions are compared.
Compare(k) ==
  /\ spc[k] = "compare"
  /\ IF sfresh[k].version = sctx[k].version
     THEN /\ sfresh' = [sfresh EXCEPT ![k] = Attached(@)]
          /\ spc' = [spc EXCEPT ![k] = "merge"]
          /\ UNCHANGED <<sctx, summary, recent>>
     ELSE Finish(k)
  /\ SummarizerUnchanged
  /\ UNCHANGED <<memoryVars, pending, faults, damaged>>

\* The turns beyond those that were read.
NewlyAdded(k) ==
  SubSeq(Turns(sfresh[k].short), sctx[k].short.len + 1, sfresh[k].short.len)

\* append(recentMessages, newlyAdded...), possibly in place.
Merge(k) ==
  /\ spc[k] = "merge"
  /\ IF NewlyAdded(k) = <<>>
     THEN UNCHANGED <<heap, recent>>
     ELSE /\ recent' = [recent EXCEPT ![k] = Extended(@, NewlyAdded(k))]
          /\ heap' = HeapExtended(recent[k], NewlyAdded(k))
  /\ spc' = [spc EXCEPT ![k] = "save"]
  /\ SummarizerUnchanged
  /\ UNCHANGED <<store, pending, sctx, summary, sfresh, faults, damaged>>

\* Mutant: the cells of the turns that were summarized are zeroed.
SaveSummaryClears(k) ==
  /\ spc[k] = "save"
  /\ store' = [sfresh[k] EXCEPT !.version = @ + 1, !.long = summary[k], !.short = recent[k]]
  /\ heap' = [heap EXCEPT ![sctx[k].short.arr] =
               [i \in DOMAIN @ |->
                  IF i > sctx[k].short.off
                       /\ i - sctx[k].short.off + recent[k].len
                            <= sctx[k].short.len + Len(NewlyAdded(k))
                  THEN 0 ELSE @[i]]]
  /\ damaged' = (damaged \/ ~IsStored(sfresh[k]) \/ summary[k] = <<>>)
  /\ Finish(k)
  /\ SummarizerUnchanged
  /\ UNCHANGED <<pending, faults>>

\* SaveContext.  The turn in flight goes with it, unlike in AddMessage.  An empty
\* summary loses the turns it replaces.
SaveSummary(k) ==
  /\ spc[k] = "save"
  /\ store' = [sfresh[k] EXCEPT !.version = @ + 1, !.long = summary[k], !.short = recent[k]]
  /\ damaged' = (damaged \/ ~IsStored(sfresh[k]) \/ summary[k] = <<>>)
  /\ Finish(k)
  /\ SummarizerUnchanged
  /\ UNCHANGED <<heap, pending, faults>>

SummarizerStep(k) ==
  \/ Load(k)
  \/ Summarize(k) \/ SummarizeFails(k)
  \/ Reload(k) \/ Compare(k)
  \/ Merge(k) \/ SaveSummary(k)

-----------------------------------------------------------------------------

Next ==
  \/ PartialTranscript
  \/ FinalTranscript
  \/ \E w \in Answers : Ask(w)
  \/ \E w \in Writers : WriterStep(w)
  \/ DeleteSession
  \/ NothingToSummarize
  \/ \E k \in Summarizers : SummarizerStep(k)

Spec == Init /\ [][Next]_vars

-----------------------------------------------------------------------------
(* Properties *)

\* Until a context is stored over another one than it was made from, the memory is
\* the log of the committed turns in this mode as well, although goroutines append to
\* arrays they share and summaries overlap without a lock (manager.go:85-90, 206-210,
\* 267-325).
CL == INSTANCE ConversationLog WITH
  log <- Log(store),
  folded <- Len(store.long),
  damaged <- damaged \/ closed

LogSpec == CL!Spec

\* A context somebody holds does not change under him before anything is damaged: its
\* turns are those it had when it was read, a prefix of what is stored, however often
\* the array they are in was appended to in place (manager.go:87, 182, 310).
IsPrefixOf(s, t) == Len(s) <= Len(t) /\ SubSeq(t, 1, Len(s)) = s

HeldStays ==
  ~damaged /\ ~closed =>
    /\ \A w \in Writers : IsPrefixOf(Log(wctx[w]), Log(store))
    /\ \A k \in Summarizers : /\ IsPrefixOf(Log(sctx[k]), Log(store))
                              /\ IsPrefixOf(Log(sfresh[k]), Log(store))

\* Before that, a prompt never says of one utterance both that it was made and that it
\* is being made: Level 1 is cleared before the turn is committed and read after Level
\* 2, and a summary that stores the turn in flight with the context never brings it
\* back after its commit (manager.go:103-109, 149-152, 176).  Not so once the session is
\* deleted: goroutines that still run store what they hold into the empty session, and
\* versions count from 0 again, so that a stale context may pass for the stored one.
NoUtteranceTwice ==
  \A w \in Answers :
    ~damaged /\ ~closed /\ wpc[w] = "prompt" =>
      \A i \in DOMAIN Log(wctx[w]) : Log(wctx[w])[i] # wctx[w].current
=============================================================================
