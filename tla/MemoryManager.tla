--------------------------- MODULE MemoryManager ---------------------------
(***************************************************************************)
(* The 3-level memory of ONE session, with Redis configured:               *)
(* internal/memory (Manager, SessionContext, task), the queue worker of    *)
(* internal/worker and the Redis calls of internal/storage they make.      *)
(*                                                                         *)
(* One API process runs the transcript pump of the session's connection    *)
(* (Pump) and its answer goroutines (Answerers); both commit turns with    *)
(* AddMessage.  Worker processes (Workers) pop summarization tasks and run *)
(* CreateSummary.  Each process has a Manager of its own, hence a local    *)
(* fallback store of its own; the context, the lock and the task queue are *)
(* shared through Redis, one command at a time.                            *)
(*                                                                         *)
(* A turn is its number of arrival.  The summary text (LongMemory) is the  *)
(* sequence of turns it was made from, so that what a context holds is     *)
(* long \o short.  A context nobody wrote is Empty, which is also what     *)
(* GetContext makes up when it finds none.                                 *)
(***************************************************************************)
EXTENDS ShortMemory, FiniteSets

CONSTANTS
  Pump, Answerers,         \* the goroutines of the connection that commit turns
  Api, Workers,            \* the processes: the API server, the queue workers
  MaxFaults                \* bound: failed calls, crashes and expiries

Writers == {Pump} \cup Answerers
Processes == {Api} \cup Workers

ASSUME BoundsAssumption == MaxFaults \in Nat

ASSUME ProcessesAssumption ==
  /\ Pump \notin Answerers
  /\ Api \notin Workers

VARIABLES
  ctx,       \* Redis: the session's context
  lock,      \* Redis: the summarization lock's key exists
  tasks,     \* Redis: tasks in the queue; what a task says is never used
  local,     \* localStore of each process
  turn,      \* Level 1: the API process buffers a turn in flight
  conn,      \* the connection: "open", its context "cancelled", or "closed"
  sent,      \* how many turns AddMessage was called with
  wpc,       \* where each writer is in AddMessage
  wmsg,      \* the turn it adds
  wctx,      \* the context it read
  spc,       \* where each worker is
  sctx,      \* the context its summary is made from
  summary,   \* the summary the LLM returned
  sfresh,    \* the context it reloaded after that
  faults,    \* failures so far
  damaged,   \* history: a turn may have been lost, see Write
  outlived   \* history: the lock ran out under a summary, and some are still under way

redisVars  == <<ctx, lock, tasks>>
writerVars == <<wpc, wmsg, wctx>>
workerVars == <<spc, sctx, summary, sfresh, outlived>>
vars == <<redisVars, local, turn, conn, sent, writerVars, workerVars, faults, damaged>>

Context == [version : Nat \ {0}, long : Seq(Turn), short : Seq(Turn)]

Empty == [version |-> 1, long |-> <<>>, short |-> <<>>]

WriterPCs == {"idle", "get", "set", "local", "push"}

\* Between the SET NX that took the lock and the deferred DEL.
Critical == {"load", "summarize", "reload", "save", "store", "release"}

WorkerPCs == {"idle", "acquire"} \cup Critical

TypeOK ==
  /\ ctx \in Context
  /\ lock \in BOOLEAN
  /\ tasks \in Nat
  /\ local \in [Processes -> Context]
  /\ turn \in BOOLEAN
  /\ conn \in {"open", "cancelled", "closed"}
  /\ sent \in 0..MaxMessages
  /\ wpc \in [Writers -> WriterPCs]
  /\ wmsg \in [Writers -> 0..MaxMessages]
  /\ \A w \in Writers : wpc[w] # "idle" => wmsg[w] \in Turn
  /\ wctx \in [Writers -> Context]
  /\ spc \in [Workers -> WorkerPCs]
  /\ sctx \in [Workers -> Context]
  /\ summary \in [Workers -> Seq(Turn)]
  /\ sfresh \in [Workers -> Context]
  /\ faults \in 0..MaxFaults
  /\ damaged \in BOOLEAN
  /\ outlived \in BOOLEAN

Init ==
  /\ ctx = Empty
  /\ lock = FALSE
  /\ tasks = 0
  /\ local = [p \in Processes |-> Empty]
  /\ turn = FALSE
  /\ conn = "open"
  /\ sent = 0
  /\ wpc = [w \in Writers |-> "idle"]
  /\ wmsg = [w \in Writers |-> 0]
  /\ wctx = [w \in Writers |-> Empty]
  /\ spc = [k \in Workers |-> "idle"]
  /\ sctx = [k \in Workers |-> Empty]
  /\ summary = [k \in Workers |-> <<>>]
  /\ sfresh = [k \in Workers |-> Empty]
  /\ faults = 0
  /\ damaged = FALSE
  /\ outlived = FALSE

-----------------------------------------------------------------------------
(* Contexts *)

TotalTokens(c) == (IF c.long = <<>> THEN 0 ELSE SummaryTokens) + Weight(c.short)[1]

Appended(c, t) == [c EXCEPT !.short = Append(@, t)]

\* Mutant: the compacted context is a new one, whose version is not set.
CompactedUnversioned(seen, text, fresh) ==
  [version |-> 0,
   long    |-> text,
   short   |-> Recent(seen.short) \o
                 SubSeq(fresh.short, Len(seen.short) + 1, Len(fresh.short))]

\* The context a summary `text' of the context `seen' makes of `fresh'.
Compacted(seen, text, fresh) ==
  [version |-> seen.version + 1,
   long    |-> text,
   short   |-> Recent(seen.short) \o
                 SubSeq(fresh.short, Len(seen.short) + 1, Len(fresh.short))]

\* GetContext in process p when Redis answers.
Fetched(p) == IF ctx = Empty THEN local[p] ELSE ctx

\* SET of the context value v, which its writer made from the value base.  What
\* others wrote after base was read is overwritten: the SET is unconditional.
Write(base, v) ==
  /\ ctx' = v
  /\ damaged' = (damaged \/ ctx # base)

Fault == /\ faults < MaxFaults
         /\ faults' = faults + 1

\* A Redis call of the connection fails: always once its context is cancelled.
CallFails == IF conn = "open" THEN Fault ELSE UNCHANGED faults

-----------------------------------------------------------------------------
(* The API process *)

\* A partial transcript: UpdateCurrentTurn, in memory only.
PartialTranscript ==
  /\ conn # "closed"
  /\ wpc[Pump] = "idle"
  /\ turn' = TRUE
  /\ UNCHANGED <<redisVars, local, conn, sent, writerVars, workerVars, faults, damaged>>

\* A final transcript (AddTranscript clears Level 1) or a finished answer reaches
\* AddMessage.  The pump serves events until it sees its context cancelled; an
\* answer goroutine is not waited for and may get here at any time.
Begin(w) ==
  /\ wpc[w] = "idle"
  /\ sent < MaxMessages
  /\ w = Pump => conn # "closed"
  /\ sent' = sent + 1
  /\ turn' = IF w = Pump THEN FALSE ELSE turn
  /\ wpc' = [wpc EXCEPT ![w] = "get"]
  /\ wmsg' = [wmsg EXCEPT ![w] = sent + 1]
  /\ UNCHANGED <<redisVars, local, conn, wctx, workerVars, faults, damaged>>

\* GetContext: GET, and the local store when there is no such key.
Get(w) ==
  /\ wpc[w] = "get"
  /\ conn = "open"
  /\ wpc' = [wpc EXCEPT ![w] = "set"]
  /\ wctx' = [wctx EXCEPT ![w] = Fetched(Api)]
  /\ UNCHANGED <<redisVars, local, turn, conn, sent, wmsg, workerVars, faults, damaged>>

\* GetContext: GET fails, the local store answers.
GetFails(w) ==
  /\ wpc[w] = "get"
  /\ CallFails
  /\ wpc' = [wpc EXCEPT ![w] = "set"]
  /\ wctx' = [wctx EXCEPT ![w] = local[Api]]
  /\ UNCHANGED <<redisVars, local, turn, conn, sent, wmsg, workerVars, damaged>>

Return(w) ==
  /\ wpc' = [wpc EXCEPT ![w] = "idle"]
  /\ wmsg' = [wmsg EXCEPT ![w] = 0]
  /\ wctx' = [wctx EXCEPT ![w] = Empty]

\* SaveContext: SET of what was read with the turn appended.
Set(w) ==
  /\ wpc[w] = "set"
  /\ conn = "open"
  /\ Write(wctx[w], Appended(wctx[w], wmsg[w]))
  /\ wpc' = [wpc EXCEPT ![w] = "local"]
  /\ UNCHANGED <<lock, tasks, local, turn, conn, sent, wmsg, wctx, workerVars, faults>>

\* SaveContext: SET returns an error, though Redis may have applied it.
SetFails(w) ==
  /\ wpc[w] = "set"
  /\ CallFails
  /\ \/ conn = "open" /\ Write(wctx[w], Appended(wctx[w], wmsg[w]))
     \/ UNCHANGED <<ctx, damaged>>
  /\ Return(w)
  /\ UNCHANGED <<lock, tasks, local, turn, conn, sent, workerVars>>

\* Mutant: the limit itself does not count.
StoreLocalAbove(w) ==
  /\ wpc[w] = "local"
  /\ local' = [local EXCEPT ![Api] = Appended(wctx[w], wmsg[w])]
  /\ IF TotalTokens(Appended(wctx[w], wmsg[w])) > MaxContextTokens
     THEN /\ wpc' = [wpc EXCEPT ![w] = "push"]
          /\ UNCHANGED <<wmsg, wctx>>
     ELSE Return(w)
  /\ UNCHANGED <<redisVars, turn, conn, sent, workerVars, faults, damaged>>

\* SaveContext stores the context locally; AddMessage is done unless it is too large.
StoreLocal(w) ==
  /\ wpc[w] = "local"
  /\ local' = [local EXCEPT ![Api] = Appended(wctx[w], wmsg[w])]
  /\ IF TotalTokens(Appended(wctx[w], wmsg[w])) >= MaxContextTokens
     THEN /\ wpc' = [wpc EXCEPT ![w] = "push"]
          /\ UNCHANGED <<wmsg, wctx>>
     ELSE Return(w)
  /\ UNCHANGED <<redisVars, turn, conn, sent, workerVars, faults, damaged>>

\* LPUSH of a summarization task.
Push(w) ==
  /\ wpc[w] = "push"
  /\ conn = "open"
  /\ tasks' = tasks + 1
  /\ Return(w)
  /\ UNCHANGED <<ctx, lock, local, turn, conn, sent, workerVars, faults, damaged>>

\* LPUSH fails: the error is logged and the task is gone.
PushFails(w) ==
  /\ wpc[w] = "push"
  /\ CallFails
  /\ Return(w)
  /\ UNCHANGED <<redisVars, local, turn, conn, sent, workerVars, damaged>>

WriterStep(w) ==
  \/ Get(w) \/ GetFails(w)
  \/ Set(w) \/ SetFails(w)
  \/ StoreLocal(w)
  \/ Push(w) \/ PushFails(w)

\* A pump ends, whatever the reason: the connection's context is cancelled.
Cancel ==
  /\ conn = "open"
  /\ conn' = "cancelled"
  /\ UNCHANGED <<redisVars, local, turn, sent, writerVars, workerVars, faults, damaged>>

\* cleanup, after the pumps have ended: DeleteSession.
Close ==
  /\ conn = "cancelled"
  /\ wpc[Pump] = "idle"
  /\ conn' = "closed"
  /\ turn' = FALSE
  /\ local' = [local EXCEPT ![Api] = Empty]
  /\ UNCHANGED <<redisVars, sent, writerVars, workerVars, faults, damaged>>

-----------------------------------------------------------------------------
(* The workers *)

\* BRPOP of a task: from here on only this worker knows of it.
Pop(k) ==
  /\ spc[k] = "idle"
  /\ tasks > 0
  /\ tasks' = tasks - 1
  /\ spc' = [spc EXCEPT ![k] = "acquire"]
  /\ UNCHANGED <<ctx, lock, local, turn, conn, sent, writerVars, outlived,
                 sctx, summary, sfresh, faults, damaged>>

\* SET NX EX takes the lock.
Acquire(k) ==
  /\ spc[k] = "acquire"
  /\ ~lock
  /\ lock' = TRUE
  /\ spc' = [spc EXCEPT ![k] = "load"]
  /\ UNCHANGED <<ctx, tasks, local, turn, conn, sent, writerVars, outlived,
                 sctx, summary, sfresh, faults, damaged>>

\* Mutant: the deferred DEL is armed before the result of SET NX is looked at.
AcquireHeldReleases(k) ==
  /\ spc[k] = "acquire"
  /\ lock
  /\ lock' = FALSE
  /\ spc' = [spc EXCEPT ![k] = "idle"]
  /\ UNCHANGED <<ctx, tasks, local, turn, conn, sent, writerVars, outlived,
                 sctx, summary, sfresh, faults, damaged>>

\* SET NX finds the lock held: CreateSummary returns nil, the task is done with.
AcquireHeld(k) ==
  /\ spc[k] = "acquire"
  /\ lock
  /\ spc' = [spc EXCEPT ![k] = "idle"]
  /\ UNCHANGED <<redisVars, local, turn, conn, sent, writerVars, outlived,
                 sctx, summary, sfresh, faults, damaged>>

\* SET NX returns an error, though Redis may have applied it: no DEL is armed.
AcquireFails(k) ==
  /\ spc[k] = "acquire"
  /\ Fault
  /\ lock' \in {lock, TRUE}
  /\ spc' = [spc EXCEPT ![k] = "idle"]
  /\ UNCHANGED <<ctx, tasks, local, turn, conn, sent, writerVars, outlived,
                 sctx, summary, sfresh, damaged>>

\* CreateSummary works on the context c it read, unless it has at most one turn.
LoadContext(k, c) ==
  /\ spc[k] = "load"
  /\ sctx' = [sctx EXCEPT ![k] = c]
  /\ spc' = [spc EXCEPT ![k] = IF Len(c.short) <= 1 THEN "release" ELSE "summarize"]
  /\ UNCHANGED <<redisVars, local, turn, conn, sent, writerVars, outlived, summary, sfresh, damaged>>

Load(k) == LoadContext(k, Fetched(k)) /\ UNCHANGED faults

LoadFails(k) == LoadContext(k, local[k]) /\ Fault

\* The LLM's answer stands for the old summary and the older turns.
Summarize(k) ==
  /\ spc[k] = "summarize"
  /\ summary' = [summary EXCEPT ![k] = sctx[k].long \o Older(sctx[k].short)]
  /\ spc' = [spc EXCEPT ![k] = "reload"]
  /\ UNCHANGED <<redisVars, local, turn, conn, sent, writerVars, outlived,
                 sctx, sfresh, faults, damaged>>

\* The LLM's answer has an empty text, which is not an error.
SummarizeEmpty(k) ==
  /\ spc[k] = "summarize"
  /\ Fault
  /\ summary' = [summary EXCEPT ![k] = <<>>]
  /\ spc' = [spc EXCEPT ![k] = "reload"]
  /\ UNCHANGED <<redisVars, local, turn, conn, sent, writerVars, outlived, sctx, sfresh, damaged>>

\* The LLM call fails.
SummarizeFails(k) ==
  /\ spc[k] = "summarize"
  /\ Fault
  /\ spc' = [spc EXCEPT ![k] = "release"]
  /\ UNCHANGED <<redisVars, local, turn, conn, sent, writerVars, outlived,
                 sctx, summary, sfresh, damaged>>

\* Mutant: the version of the reloaded context is not compared.
ReloadUnchecked(k, c) ==
  /\ spc[k] = "reload"
  /\ sfresh' = [sfresh EXCEPT ![k] = c]
  /\ spc' = [spc EXCEPT ![k] = "save"]
  /\ UNCHANGED <<redisVars, local, turn, conn, sent, writerVars, outlived, sctx, summary, damaged>>

\* The context is read again and given up if its version has moved.
ReloadContext(k, c) ==
  /\ spc[k] = "reload"
  /\ sfresh' = [sfresh EXCEPT ![k] = c]
  /\ spc' = [spc EXCEPT ![k] = IF c.version # sctx[k].version THEN "release" ELSE "save"]
  /\ UNCHANGED <<redisVars, local, turn, conn, sent, writerVars, outlived, sctx, summary, damaged>>

Reload(k) == ReloadContext(k, Fetched(k)) /\ UNCHANGED faults

ReloadFails(k) == ReloadContext(k, local[k]) /\ Fault

\* SET of the compacted context.  An empty summary loses the turns it replaces.
WriteSummary(k) ==
  /\ ctx' = Compacted(sctx[k], summary[k], sfresh[k])
  /\ damaged' = (damaged \/ ctx # sfresh[k] \/ summary[k] = <<>>)

Save(k) ==
  /\ spc[k] = "save"
  /\ WriteSummary(k)
  /\ spc' = [spc EXCEPT ![k] = "store"]
  /\ UNCHANGED <<lock, tasks, local, turn, conn, sent, writerVars, outlived,
                 sctx, summary, sfresh, faults>>

\* SET returns an error, though Redis may have applied it.
SaveFails(k) ==
  /\ spc[k] = "save"
  /\ Fault
  /\ WriteSummary(k) \/ UNCHANGED <<ctx, damaged>>
  /\ spc' = [spc EXCEPT ![k] = "release"]
  /\ UNCHANGED <<lock, tasks, local, turn, conn, sent, writerVars, outlived, sctx, summary, sfresh>>

\* SaveContext stores the context locally.
Store(k) ==
  /\ spc[k] = "store"
  /\ local' = [local EXCEPT ![k] = Compacted(sctx[k], summary[k], sfresh[k])]
  /\ spc' = [spc EXCEPT ![k] = "release"]
  /\ UNCHANGED <<redisVars, turn, conn, sent, writerVars, outlived,
                 sctx, summary, sfresh, faults, damaged>>

\* CreateSummary has returned, whatever it did: the worker waits for the next task.
Idle(k) ==
  /\ spc' = [spc EXCEPT ![k] = "idle"]
  /\ sctx' = [sctx EXCEPT ![k] = Empty]
  /\ summary' = [summary EXCEPT ![k] = <<>>]
  /\ sfresh' = [sfresh EXCEPT ![k] = Empty]
  /\ outlived' = (outlived /\ \E j \in Workers \ {k} : spc[j] \in Critical)

\* The deferred DEL: it deletes the lock whoever holds it by now.
Release(k) ==
  /\ spc[k] = "release"
  /\ lock' = FALSE
  /\ Idle(k)
  /\ UNCHANGED <<ctx, tasks, local, turn, conn, sent, writerVars, faults, damaged>>

\* The DEL fails and its error is dropped.
ReleaseFails(k) ==
  /\ spc[k] = "release"
  /\ Fault
  /\ Idle(k)
  /\ UNCHANGED <<redisVars, local, turn, conn, sent, writerVars, damaged>>

WorkerStep(k) ==
  \/ Pop(k)
  \/ Acquire(k) \/ AcquireHeld(k) \/ AcquireFails(k)
  \/ Load(k) \/ LoadFails(k)
  \/ Summarize(k) \/ SummarizeEmpty(k) \/ SummarizeFails(k)
  \/ Reload(k) \/ ReloadFails(k)
  \/ Save(k) \/ SaveFails(k)
  \/ Store(k)
  \/ Release(k) \/ ReleaseFails(k)

\* The worker process dies and a new one takes its place, its memory empty.  The
\* task is gone, and the lock stays if it held it.
Crash(k) ==
  /\ spc[k] # "idle"
  /\ Fault
  /\ Idle(k)
  /\ local' = [local EXCEPT ![k] = Empty]
  /\ UNCHANGED <<redisVars, turn, conn, sent, writerVars, damaged>>

-----------------------------------------------------------------------------
(* Redis *)


\* The lock's TTL (25 s) runs out: on a lock nobody works under any more, and under
\* a summary that takes longer (the task may run for 30 s, and so may the LLM call).
LockExpires ==
  /\ lock
  /\ lock' = FALSE
  /\ outlived' = \E k \in Workers : spc[k] \in Critical
  /\ UNCHANGED <<ctx, tasks, local, turn, conn, sent, writerVars,
                 spc, sctx, summary, sfresh, faults, damaged>>

\* The context's TTL runs out, long after its last SET.
ContextExpires ==
  /\ ctx # Empty
  /\ \A w \in Writers : wpc[w] = "idle"
  /\ \A k \in Workers : spc[k] = "idle"
  /\ Fault
  /\ ctx' = Empty
  /\ damaged' = TRUE
  /\ UNCHANGED <<lock, tasks, local, turn, conn, sent, writerVars, workerVars>>

-----------------------------------------------------------------------------

Next ==
  \/ PartialTranscript
  \/ \E w \in Writers : Begin(w) \/ WriterStep(w)
  \/ Cancel
  \/ Close
  \/ \E k \in Workers : WorkerStep(k) \/ Crash(k)
  \/ LockExpires
  \/ ContextExpires

\* Goroutines and workers keep running and TTLs run out.  Nobody has to speak, to
\* ask for an answer or to hang up.
Fairness ==
  /\ \A w \in Writers : WF_vars(WriterStep(w))
  /\ \A k \in Workers : WF_vars(WorkerStep(k))
  /\ WF_vars(LockExpires)

Spec == Init /\ [][Next]_vars

FairSpec == Spec /\ Fairness

-----------------------------------------------------------------------------
(* Properties *)

\* As long as no SET overwrote a context other than the one it was made from, the
\* summary and the short memory together hold every committed turn once and in
\* order, whatever AddMessage and CreateSummary, stale reloads, failed calls,
\* crashes and expired locks do in between: AddMessage (manager.go:169) commits
\* one turn at the end, CreateSummary (manager.go:228) only moves the boundary,
\* and never takes in the newest turn.
Log == INSTANCE ConversationLog WITH
         log <- ctx.long \o ctx.short,
         folded <- Len(ctx.long)

LogSpec == Log!Spec

\* Two workers are between taking the lock and deleting it (manager.go:229-241) only
\* if the lock's TTL ran out under a summary, and until all the summaries that overlap
\* since then are over: crashes, lost DELs and lost answers to SET NX let nobody in, and
\* the unconditional DEL of ReleaseLock deletes another worker's lock in no other case.
MutualExclusion ==
  ~outlived => \A j, k \in Workers : spc[j] \in Critical /\ spc[k] \in Critical => j = k

\* What CreateSummary gives the LLM is some of the turns and not all of them, for
\* any estimates and limits (manager.go:255-276): the return for nothing to
\* summarize is never taken, and the newest turn is never summarized.
SummarizesSomeNotAll ==
  \A k \in Workers :
    spc[k] = "summarize" =>
      /\ Older(sctx[k].short) # <<>>
      /\ Recent(sctx[k].short) # <<>>


\* With one worker and no failures, a context that reached the limit is brought
\* below it again while the connection lasts (manager.go:189-203).  With two, a task
\* may be popped and dropped while the other one holds the lock.
OverLimitIsHandled ==
  TotalTokens(ctx) >= MaxContextTokens
    ~> (TotalTokens(ctx) < MaxContextTokens \/ conn # "open")

(* What the repository says and the code does not do *)

Held(c) == {c.long[i] : i \in DOMAIN c.long} \cup {c.short[i] : i \in DOMAIN c.short}

\* manager.go:308: turns appended during the summary are preserved safely.
NewTurnsPreserved ==
  [][\A k \in Workers : Save(k) => Held(ctx) \subseteq Held(ctx')]_vars

\* connection.go:219: cleanup leaves nothing of the session in the Manager's maps.
NothingLeftBehind ==
  conn = "closed" => ~turn /\ local[Api] = Empty
=============================================================================
