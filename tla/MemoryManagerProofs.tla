------------------------ MODULE MemoryManagerProofs ------------------------
(***************************************************************************)
(* Proofs about MemoryManager, for every value of its constants.           *)
(***************************************************************************)
EXTENDS MemoryManager, ShortMemoryProofs

-----------------------------------------------------------------------------
(* Contexts *)

LEMMA EmptyType == Empty \in Context
BY DEF Empty, Context

LEMMA AppendedType ==
  ASSUME NEW c \in Context, NEW t \in Turn
  PROVE  /\ Appended(c, t) \in Context
         /\ Appended(c, t).version = c.version
         /\ Appended(c, t).long = c.long
         /\ Appended(c, t).short = Append(c.short, t)
BY AppendProperties DEF Appended, Context

\* The turns of `fresh' from number n + 1 on.
LEMMA AddedType ==
  ASSUME NEW fresh \in Context, NEW n \in Nat
  PROVE  SubSeq(fresh.short, n + 1, Len(fresh.short)) \in Seq(Turn)
<1>1. fresh.short \in Seq(Turn) /\ Len(fresh.short) \in Nat
  BY DEF Context
<1>2. \A i \in (n + 1)..Len(fresh.short) : fresh.short[i] \in Turn
  BY <1>1
<1> QED
  BY <1>1, <1>2, SubSeqProperties

LEMMA CompactedType ==
  ASSUME NEW seen \in Context, Len(seen.short) > 1,
         NEW text \in Seq(Turn), NEW fresh \in Context
  PROVE  Compacted(seen, text, fresh) \in Context
<1>1. seen.short \in Seq(Turn) /\ Len(seen.short) \in Nat /\ seen.version \in Nat \ {0}
  BY DEF Context
<1>2. Recent(seen.short) \in Seq(Turn)
  BY <1>1, SplitProperties
<1>3. SubSeq(fresh.short, Len(seen.short) + 1, Len(fresh.short)) \in Seq(Turn)
  BY <1>1, AddedType
<1>4. Recent(seen.short) \o SubSeq(fresh.short, Len(seen.short) + 1, Len(fresh.short))
        \in Seq(Turn)
  BY <1>2, <1>3, ConcatProperties
<1> QED
  BY <1>1, <1>4 DEF Compacted, Context

-----------------------------------------------------------------------------
(* Types *)

Compacting == {"summarize", "reload", "save", "store"}

\* Past the check of manager.go:248 there are turns to split.
LongEnough == \A k \in Workers : spc[k] \in Compacting => Len(sctx[k].short) > 1

Typed == TypeOK /\ LongEnough

LEMMA FetchedType ==
  ASSUME TypeOK, NEW p \in Processes
  PROVE  Fetched(p) \in Context /\ local[p] \in Context
BY DEF TypeOK, Fetched

LEMMA TypedInit == Init => Typed
<1> SUFFICES ASSUME Init PROVE Typed
  OBVIOUS
<1>1. 0 \in 0..MaxMessages /\ 0 \in 0..MaxFaults
  BY MessagesAssumption, BoundsAssumption
<1>2. <<>> \in Seq(Turn)
  OBVIOUS
<1>3. TypeOK
  BY <1>1, <1>2, EmptyType DEF Init, TypeOK, WriterPCs, WorkerPCs
<1>4. LongEnough
  BY DEF Init, LongEnough, Compacting
<1> QED
  BY <1>3, <1>4 DEF Typed

LEMMA FaultType ==
  ASSUME TypeOK, Fault \/ CallFails
  PROVE  faults' \in 0..MaxFaults
<1>1. faults \in 0..MaxFaults /\ MaxFaults \in Nat
  BY MessagesAssumption, BoundsAssumption DEF TypeOK
<1> QED
  BY <1>1 DEF Fault, CallFails

LEMMA ReturnType ==
  ASSUME TypeOK, NEW w \in Writers, Return(w)
  PROVE  /\ wpc' \in [Writers -> WriterPCs]
         /\ wmsg' \in [Writers -> 0..MaxMessages]
         /\ \A u \in Writers : wpc'[u] # "idle" => wmsg'[u] \in Turn
         /\ wctx' \in [Writers -> Context]
<1>1. 0 \in 0..MaxMessages
  BY MessagesAssumption, BoundsAssumption
<1> QED
  BY <1>1, EmptyType DEF TypeOK, Return, WriterPCs

LEMMA IdleType ==
  ASSUME TypeOK, LongEnough, NEW k \in Workers, Idle(k)
  PROVE  /\ spc' \in [Workers -> WorkerPCs]
         /\ sctx' \in [Workers -> Context]
         /\ summary' \in [Workers -> Seq(Turn)]
         /\ sfresh' \in [Workers -> Context]
         /\ outlived' \in BOOLEAN
         /\ LongEnough'
<1>1. <<>> \in Seq(Turn)
  OBVIOUS
<1>2. summary' \in [Workers -> Seq(Turn)]
  BY <1>1, Zenon DEF TypeOK, Idle
<1>3. spc' \in [Workers -> WorkerPCs] /\ sctx' \in [Workers -> Context]
      /\ sfresh' \in [Workers -> Context]
  BY EmptyType DEF TypeOK, Idle, WorkerPCs
<1>4. LongEnough'
  BY DEF TypeOK, Idle, LongEnough, Compacting
<1>5. outlived' \in BOOLEAN
  BY Zenon DEF Idle
<1> QED
  BY <1>2, <1>3, <1>4, <1>5

\* What AddMessage saves.
LEMMA SavedType ==
  ASSUME TypeOK, NEW w \in Writers, wpc[w] # "idle"
  PROVE  Appended(wctx[w], wmsg[w]) \in Context
BY AppendedType DEF TypeOK

\* What CreateSummary saves.
LEMMA CompactType ==
  ASSUME Typed, NEW k \in Workers, spc[k] \in Compacting
  PROVE  Compacted(sctx[k], summary[k], sfresh[k]) \in Context
BY CompactedType DEF Typed, TypeOK, LongEnough

LEMMA TypedConnection ==
  ASSUME Typed, PartialTranscript \/ Cancel \/ Close \/ LockExpires \/ ContextExpires
  PROVE  Typed'
<1>1. CASE PartialTranscript
  BY <1>1 DEF Typed, TypeOK, LongEnough, PartialTranscript, redisVars, writerVars, workerVars
<1>2. CASE Cancel
  BY <1>2 DEF Typed, TypeOK, LongEnough, Cancel, redisVars, writerVars, workerVars
<1>3. CASE Close
  BY <1>3, EmptyType
     DEF Typed, TypeOK, LongEnough, Close, Processes, redisVars, writerVars, workerVars
<1>4. CASE LockExpires
  <2>1. outlived' \in BOOLEAN
    BY <1>4, Zenon DEF LockExpires
  <2> QED
    BY <1>4, <2>1 DEF Typed, TypeOK, LongEnough, LockExpires, redisVars, writerVars
<1>5. CASE ContextExpires
  BY <1>5, EmptyType, FaultType
     DEF Typed, TypeOK, LongEnough, ContextExpires, redisVars, writerVars, workerVars
<1> QED
  BY <1>1, <1>2, <1>3, <1>4, <1>5

LEMMA TypedWriter ==
  ASSUME Typed, NEW w \in Writers, Begin(w) \/ WriterStep(w)
  PROVE  Typed'
<1> USE MessagesAssumption, BoundsAssumption DEF Typed, TypeOK, LongEnough, redisVars, writerVars, workerVars
<1>a. Api \in Processes
  BY DEF Processes
<1>1. CASE Begin(w)
  <2>1. /\ sent + 1 \in Turn /\ sent + 1 \in 0..MaxMessages
    BY <1>1 DEF Begin, Turn
  <2> QED
    BY <1>1, <2>1 DEF Begin, WriterPCs
<1>2. CASE Get(w)
  BY <1>2, <1>a, FetchedType DEF Get, WriterPCs
<1>3. CASE GetFails(w)
  BY <1>3, <1>a, FetchedType, FaultType DEF GetFails, WriterPCs
<1>4. CASE Set(w)
  BY <1>4, SavedType DEF Set, Write, WriterPCs
<1>5. CASE SetFails(w)
  BY <1>5, SavedType, FaultType, ReturnType DEF SetFails, Write
<1>6. CASE StoreLocal(w)
  <2>1. local' \in [Processes -> Context]
    BY <1>6, <1>a, SavedType DEF StoreLocal
  <2>2. CASE wpc' = [wpc EXCEPT ![w] = "push"] /\ UNCHANGED <<wmsg, wctx>>
    BY <1>6, <2>1, <2>2 DEF StoreLocal, WriterPCs
  <2>3. CASE Return(w)
    BY <1>6, <2>1, <2>3, ReturnType DEF StoreLocal
  <2> QED
    BY <1>6, <2>2, <2>3 DEF StoreLocal
<1>7. CASE Push(w)
  BY <1>7, ReturnType DEF Push
<1>8. CASE PushFails(w)
  BY <1>8, FaultType, ReturnType DEF PushFails
<1> QED
  BY <1>1, <1>2, <1>3, <1>4, <1>5, <1>6, <1>7, <1>8 DEF WriterStep

LEMMA TypedWorker ==
  ASSUME Typed, NEW k \in Workers, WorkerStep(k) \/ Crash(k)
  PROVE  Typed'
<1> USE MessagesAssumption, BoundsAssumption
    DEF Typed, TypeOK, LongEnough, Compacting, redisVars, writerVars, workerVars,
        WorkerPCs, Critical
<1>a. k \in Processes
  BY DEF Processes
<1>1. CASE Pop(k)
  BY <1>1 DEF Pop
<1>2. CASE Acquire(k)
  BY <1>2 DEF Acquire
<1>3. CASE AcquireHeld(k)
  BY <1>3 DEF AcquireHeld
<1>4. CASE AcquireFails(k)
  BY <1>4, FaultType DEF AcquireFails
<1>5. CASE Load(k) \/ LoadFails(k)
  <2>1. PICK c \in Context : LoadContext(k, c)
    BY <1>5, <1>a, FetchedType DEF Load, LoadFails
  <2>2. faults' \in 0..MaxFaults
    BY <1>5, FaultType DEF Load, LoadFails
  <2> QED
    BY <2>1, <2>2 DEF LoadContext
<1>6. CASE Summarize(k)
  <2>1. sctx[k].short \in Seq(Turn) /\ sctx[k].long \in Seq(Turn) /\ Len(sctx[k].short) > 1
    BY <1>6 DEF Summarize, Context
  <2>2. sctx[k].long \o Older(sctx[k].short) \in Seq(Turn)
    BY <2>1, SplitProperties, ConcatProperties
  <2> QED
    BY <1>6, <2>2 DEF Summarize
<1>7. CASE SummarizeEmpty(k) \/ SummarizeFails(k)
  <2>1. faults' \in 0..MaxFaults
    BY <1>7, FaultType DEF SummarizeEmpty, SummarizeFails
  <2>2. <<>> \in Seq(Turn)
    OBVIOUS
  <2>3. summary' \in [Workers -> Seq(Turn)]
    BY <1>7, <2>2, Zenon DEF SummarizeEmpty, SummarizeFails
  <2> QED
    BY <1>7, <2>1, <2>3 DEF SummarizeEmpty, SummarizeFails
<1>8. CASE Reload(k) \/ ReloadFails(k)
  <2>1. PICK c \in Context : ReloadContext(k, c)
    BY <1>8, <1>a, FetchedType DEF Reload, ReloadFails
  <2>2. faults' \in 0..MaxFaults
    BY <1>8, FaultType DEF Reload, ReloadFails
  <2> QED
    BY <2>1, <2>2 DEF ReloadContext
<1>9. CASE Save(k)
  BY <1>9, CompactType DEF Save, WriteSummary
<1>10. CASE SaveFails(k)
  BY <1>10, CompactType, FaultType DEF SaveFails, WriteSummary
<1>11. CASE Store(k)
  BY <1>11, <1>a, CompactType DEF Store
<1>12. CASE Release(k) \/ ReleaseFails(k)
  BY <1>12, IdleType, FaultType DEF Release, ReleaseFails
<1>13. CASE Crash(k)
  BY <1>13, <1>a, EmptyType, IdleType, FaultType DEF Crash
<1> QED
  BY <1>1, <1>2, <1>3, <1>4, <1>5, <1>6, <1>7, <1>8, <1>9, <1>10, <1>11, <1>12, <1>13
     DEF WorkerStep

LEMMA TypedNext == Typed /\ [Next]_vars => Typed'
<1> SUFFICES ASSUME Typed, [Next]_vars PROVE Typed'
  OBVIOUS
<1>1. CASE UNCHANGED vars
  BY <1>1 DEF Typed, TypeOK, LongEnough, vars, redisVars, writerVars, workerVars
<1>2. CASE Next
  BY <1>2, TypedConnection, TypedWriter, TypedWorker DEF Next
<1> QED
  BY <1>1, <1>2

\* Every variable keeps its type: in particular the queue is never popped when
\* empty, and what is saved is a context whatever was read.
THEOREM TypeCorrect == Spec => []TypeOK
<1>1. Typed => TypeOK
  BY DEF Typed
<1> QED
  BY <1>1, TypedInit, TypedNext, PTL DEF Spec

-----------------------------------------------------------------------------
(* Mutual exclusion of the summaries *)

\* While no summary has outlived the lock, the lock exists whenever a worker is inside.
LockCovers == ~outlived => \A k \in Workers : spc[k] \in Critical => lock

Excluded == LockCovers /\ MutualExclusion

\* A worker that leaves is the last one inside, or the others still count as outliving.
LEMMA IdleExcludes ==
  ASSUME Typed, Excluded, NEW k \in Workers, Idle(k), spc[k] # "idle",
         lock' = lock \/ spc[k] \in Critical
  PROVE  Excluded'
<1> USE DEF Excluded, LockCovers, MutualExclusion
<1>1. spc' = [spc EXCEPT ![k] = "idle"] /\ "idle" \notin Critical
  BY DEF Idle, Critical
<1>2. \A j \in Workers : spc'[j] \in Critical => j # k /\ spc[j] \in Critical
  BY <1>1 DEF Typed, TypeOK
<1>3. outlived' <=> (outlived /\ \E j \in Workers \ {k} : spc[j] \in Critical)
  BY DEF Idle
<1>4. CASE outlived
  BY <1>2, <1>3, <1>4
<1>5. CASE ~outlived
  <2>1. CASE spc[k] \in Critical
    BY <1>2, <1>5, <2>1
  <2>2. CASE spc[k] \notin Critical
    <3>1. lock' = lock
      BY <2>2
    <3> QED
      BY <1>2, <1>5, <3>1
  <2> QED
    BY <2>1, <2>2
<1> QED
  BY <1>4, <1>5

\* Steps that let nobody in and leave the lock alone.
LEMMA StaysExcluded ==
  ASSUME Excluded, lock => lock', outlived' = outlived,
         \A j \in Workers : spc'[j] \in Critical => spc[j] \in Critical
  PROVE  Excluded'
BY DEF Excluded, LockCovers, MutualExclusion

LEMMA ExclusionNext ==
  ASSUME Typed, Excluded, [Next]_vars
  PROVE  Excluded'
<1>t. spc \in [Workers -> WorkerPCs]
  BY DEF Typed, TypeOK
<1>1. ASSUME UNCHANGED <<lock, spc, outlived>> PROVE Excluded'
  BY <1>1, StaysExcluded
<1>2. CASE UNCHANGED vars
  BY <1>1, <1>2 DEF vars, redisVars, workerVars
<1>3. CASE PartialTranscript \/ Cancel \/ Close \/ ContextExpires
  BY <1>1, <1>3
     DEF PartialTranscript, Cancel, Close, ContextExpires, redisVars, workerVars
<1>4. ASSUME NEW w \in Writers, Begin(w) \/ WriterStep(w)
      PROVE  Excluded'
  BY <1>1, <1>4
     DEF Begin, WriterStep, Get, GetFails, Set, SetFails, StoreLocal, Push, PushFails,
         redisVars, workerVars
<1>5. CASE LockExpires
  \* The summaries under way, if any, have outlived the lock.
  <2>1. spc' = spc /\ (outlived' <=> \E k \in Workers : spc[k] \in Critical)
    BY <1>5 DEF LockExpires
  <2> QED
    BY <2>1 DEF Excluded, LockCovers, MutualExclusion
<1>6. ASSUME NEW k \in Workers, WorkerStep(k) \/ Crash(k)
      PROVE  Excluded'
  <2>0. ASSUME NEW pc \in Critical, spc[k] \in Critical, spc' = [spc EXCEPT ![k] = pc],
               lock' = lock, outlived' = outlived
        PROVE  Excluded'
    BY <1>t, <2>0, StaysExcluded
  <2>1. CASE Pop(k)
    <3>1. spc' = [spc EXCEPT ![k] = "acquire"] /\ UNCHANGED <<lock, outlived>>
      BY <2>1 DEF Pop
    <3> QED
      BY <1>t, <3>1, StaysExcluded DEF Critical
  <2>2. CASE Acquire(k)
    \* SET NX succeeds: no lock, so nobody is inside unless a summary outlived it.
    <3>1. ~lock /\ lock' /\ spc' = [spc EXCEPT ![k] = "load"] /\ outlived' = outlived
      BY <2>2 DEF Acquire
    <3>2. ~outlived => \A j \in Workers : spc'[j] \in Critical => j = k
      BY <1>t, <3>1 DEF Excluded, LockCovers
    <3> QED
      BY <3>1, <3>2 DEF Excluded, LockCovers, MutualExclusion
  <2>3. CASE AcquireHeld(k) \/ AcquireFails(k)
    <3>1. spc' = [spc EXCEPT ![k] = "idle"] /\ outlived' = outlived
      BY <2>3, Zenon DEF AcquireHeld, AcquireFails
    <3>2. lock => lock'
      BY <2>3, Zenon DEF AcquireHeld, AcquireFails, redisVars
    <3> QED
      BY <1>t, <3>1, <3>2, StaysExcluded DEF Critical
  <2>4. CASE Load(k) \/ LoadFails(k)
    BY <2>0, <2>4 DEF Load, LoadFails, LoadContext, redisVars, Critical
  <2>5. CASE Summarize(k) \/ SummarizeEmpty(k) \/ SummarizeFails(k)
    BY <2>0, <2>5 DEF Summarize, SummarizeEmpty, SummarizeFails, redisVars, Critical
  <2>6. CASE Reload(k) \/ ReloadFails(k)
    BY <2>0, <2>6 DEF Reload, ReloadFails, ReloadContext, redisVars, Critical
  <2>7. CASE Save(k) \/ SaveFails(k) \/ Store(k)
    BY <2>0, <2>7 DEF Save, SaveFails, Store, redisVars, Critical
  <2>8. CASE Release(k) \/ ReleaseFails(k)
    <3>1. spc[k] = "release" /\ Idle(k) /\ (lock' = FALSE \/ lock' = lock)
      BY <2>8, Zenon DEF Release, ReleaseFails, redisVars
    <3> QED
      BY <3>1, IdleExcludes DEF Critical
  <2>9. CASE Crash(k)
    <3>1. spc[k] # "idle" /\ Idle(k) /\ lock' = lock
      BY <2>9 DEF Crash, redisVars
    <3> QED
      BY <3>1, IdleExcludes
  <2> QED
    BY <1>6, <2>1, <2>2, <2>3, <2>4, <2>5, <2>6, <2>7, <2>8, <2>9 DEF WorkerStep
<1> QED
  BY <1>2, <1>3, <1>4, <1>5, <1>6 DEF Next

\* Two workers are both between SET NX and DEL only while a summary that outlived the
\* lock's TTL, or one that overlaps with it, is under way: failed calls, lost answers
\* and crashes let nobody in, and the DEL without an owner's token deletes another
\* worker's lock in no other case.
THEOREM SummariesExclude == Spec => []MutualExclusion
<1>1. Init => Excluded
  BY DEF Init, Excluded, LockCovers, MutualExclusion, Critical
<1>2. Typed /\ Excluded /\ [Next]_vars => Excluded'
  BY ExclusionNext
<1>3. Excluded => MutualExclusion
  BY DEF Excluded
<1> QED
  BY <1>1, <1>2, <1>3, TypedInit, TypedNext, PTL DEF Spec

\* The LLM is given some of the turns and not all of them, whatever the token
\* estimates and the limits are (manager.go:255-276).
THEOREM SomeNotAllSummarized == Spec => []SummarizesSomeNotAll
<1>1. Typed => SummarizesSomeNotAll
  <2> SUFFICES ASSUME Typed, NEW k \in Workers, spc[k] = "summarize"
               PROVE  Older(sctx[k].short) # <<>> /\ Recent(sctx[k].short) # <<>>
    BY DEF SummarizesSomeNotAll
  <2>1. sctx[k].short \in Seq(Turn) /\ Len(sctx[k].short) > 1
    BY DEF Typed, TypeOK, LongEnough, Compacting, Context
  <2> QED
    BY <2>1, SplitProperties
<1> QED
  BY <1>1, TypedInit, TypedNext, PTL DEF Spec

-----------------------------------------------------------------------------
(* The memory implements the log *)

\* The context v is one that c has been: an older version, or the same version
\* before some of c's turns were appended.
Precedes(v, c) ==
  \/ v.version < c.version
  \/ /\ v.version = c.version
     /\ v.long = c.long
     /\ Len(v.short) <= Len(c.short)
     /\ \A i \in 1..Len(v.short) : v.short[i] = c.short[i]

LEMMA PrecedesReflexive ==
  ASSUME NEW c \in Context
  PROVE  Precedes(c, c)
BY DEF Precedes, Context

LEMMA PrecedesTransitive ==
  ASSUME NEW u \in Context, NEW v \in Context, NEW c \in Context,
         Precedes(u, v), Precedes(v, c)
  PROVE  Precedes(u, c)
<1>1. /\ u.version \in Nat /\ v.version \in Nat /\ c.version \in Nat
      /\ Len(u.short) \in Nat /\ Len(v.short) \in Nat /\ Len(c.short) \in Nat
  BY DEF Context
<1> QED
  BY <1>1 DEF Precedes

LEMMA AppendedFollows ==
  ASSUME NEW c \in Context, NEW t \in Turn
  PROVE  Precedes(c, Appended(c, t))
<1>1. c.short \in Seq(Turn) /\ Len(c.short) \in Nat
  BY DEF Context
<1>2. /\ Len(Append(c.short, t)) = Len(c.short) + 1
      /\ \A i \in 1..Len(c.short) : Append(c.short, t)[i] = c.short[i]
  BY <1>1, AppendProperties
<1>3. /\ Appended(c, t).version = c.version
      /\ Appended(c, t).long = c.long
      /\ Appended(c, t).short = Append(c.short, t)
  BY AppendedType
<1> HIDE DEF Turn
<1> QED
  BY <1>1, <1>2, <1>3 DEF Precedes

LEMMA CompactedFollows ==
  ASSUME NEW seen \in Context, NEW text, NEW fresh \in Context,
         fresh.version = seen.version
  PROVE  Precedes(fresh, Compacted(seen, text, fresh))
<1>1. seen.version \in Nat
  BY DEF Context
<1>2. Compacted(seen, text, fresh).version = seen.version + 1
  BY DEF Compacted
<1> QED
  BY <1>1, <1>2 DEF Precedes

\* What a context holds.
Whole(c) == c.long \o c.short

LEMMA TurnsAssociate ==
  \A s, t, u \in Seq(Turn) : (s \o t) \o u = s \o (t \o u)
BY ConcatAssociative

LEMMA AppendedCommits ==
  ASSUME NEW c \in Context, NEW t \in Turn
  PROVE  Whole(Appended(c, t)) = Append(Whole(c), t)
<1>1. c.long \in Seq(Turn) /\ c.short \in Seq(Turn) /\ <<t>> \in Seq(Turn)
  BY DEF Context
<1>2. Append(c.short, t) = c.short \o <<t>>
  BY <1>1, AppendIsConcat
<1>3. c.long \o (c.short \o <<t>>) = (c.long \o c.short) \o <<t>>
  BY <1>1, TurnsAssociate
<1>4. c.long \o c.short \in Seq(Turn)
  BY <1>1, ConcatProperties
<1>5. (c.long \o c.short) \o <<t>> = Append(c.long \o c.short, t)
  BY <1>4, AppendIsConcat
<1> QED
  BY <1>2, <1>3, <1>5, AppendedType DEF Whole

\* A summary made of a context `seen' that precedes `fresh', in the same version,
\* moves turns from short to long in `fresh', and not the last one.
LEMMA CompactedFolds ==
  ASSUME NEW seen \in Context, Len(seen.short) > 1,
         NEW fresh \in Context, fresh.version = seen.version, Precedes(seen, fresh),
         NEW text, text = seen.long \o Older(seen.short)
  PROVE  LET c == Compacted(seen, text, fresh)
         IN  /\ Whole(c) = Whole(fresh)
             /\ Len(c.long) > Len(fresh.long)
             /\ Len(c.long) < Len(Whole(fresh))
<1> DEFINE old == Older(seen.short)
           recent == Recent(seen.short)
           n == Len(seen.short)
           m == Len(fresh.short)
           added == SubSeq(fresh.short, n + 1, m)
           c == Compacted(seen, text, fresh)
<1>1. /\ seen.long \in Seq(Turn) /\ seen.short \in Seq(Turn)
      /\ fresh.short \in Seq(Turn) /\ n \in Nat /\ m \in Nat
      /\ seen.version \in Nat /\ fresh.version \in Nat
  BY DEF Context
<1>2. /\ fresh.long = seen.long
      /\ n <= m
      /\ \A i \in 1..n : seen.short[i] = fresh.short[i]
  BY <1>1 DEF Precedes
<1>3. /\ old \in Seq(Turn) /\ recent \in Seq(Turn)
      /\ old \o recent = seen.short
      /\ Len(old) \in 1..(n - 1)
  BY <1>1, SplitProperties
<1>4. added \in Seq(Turn)
  BY <1>1, AddedType
<1>5. seen.short \o added = fresh.short
  <2>1. \A i \in 1..n : fresh.short[i] \in Turn
    BY <1>1, <1>2
  <2>2. /\ SubSeq(fresh.short, 1, n) \in Seq(Turn)
        /\ Len(SubSeq(fresh.short, 1, n)) = n
        /\ \A i \in 1..n : SubSeq(fresh.short, 1, n)[i] = fresh.short[i]
    BY <1>1, <2>1, SubSeqProperties
  <2>3. SubSeq(fresh.short, 1, n) = seen.short
    BY <1>1, <1>2, <2>2, SeqEqual
  <2>4. SubSeq(fresh.short, 1, n) \o SubSeq(fresh.short, n + 1, m) = SubSeq(fresh.short, 1, m)
    <3>1. m = Len(fresh.short)
      OBVIOUS
    <3> HIDE DEF n, m
    <3>2. 1 \in 1..(Len(fresh.short) + 1) /\ n \in (1 - 1)..Len(fresh.short)
          /\ m \in n..Len(fresh.short)
      BY <1>1, <1>2, <3>1
    <3> QED
      BY <1>1, <3>2, ConcatAdjacentSubSeq
  <2>5. SubSeq(fresh.short, 1, m) = fresh.short
    BY <1>1, SubSeqFull
  <2> QED
    BY <2>3, <2>4, <2>5
<1>6. c.long = seen.long \o old /\ c.short = recent \o added
  BY DEF Compacted
<1> HIDE DEF old, recent, n, m, added, c
<1>7. Whole(c) = Whole(fresh)
  <2>1. (seen.long \o old) \o (recent \o added) = seen.long \o (old \o (recent \o added))
    <3>1. recent \o added \in Seq(Turn)
      BY <1>3, <1>4, ConcatProperties
    <3> QED
      BY <1>1, <1>3, <3>1, TurnsAssociate
  <2>2. old \o (recent \o added) = (old \o recent) \o added
    BY <1>3, <1>4, TurnsAssociate
  <2> QED
    BY <1>2, <1>3, <1>5, <1>6, <2>1, <2>2 DEF Whole
<1>8. Len(c.long) = Len(fresh.long) + Len(old)
  BY <1>1, <1>2, <1>3, <1>6, ConcatProperties
<1>9. Len(Whole(fresh)) = Len(fresh.long) + m
  BY <1>1, <1>2, ConcatProperties DEF Whole, m
<1>10. Len(fresh.long) \in Nat
  BY <1>1, <1>2
<1>11. Len(old) > 0 /\ Len(old) < m
  BY <1>1, <1>2, <1>3
<1>12. Len(old) \in Nat
  BY <1>1, <1>3
<1> QED
  BY <1>1, <1>7, <1>8, <1>9, <1>10, <1>11, <1>12 DEF c

-----------------------------------------------------------------------------
(* The inductive invariant of the refinement *)

\* What CreateSummary has in hand between its steps.
SummaryMatches ==
  \A k \in Workers :
    /\ spc[k] \in {"reload", "save", "store"} =>
         \/ summary[k] = <<>>
         \/ summary[k] = sctx[k].long \o Older(sctx[k].short)
    /\ spc[k] \in {"save", "store"} => sfresh[k].version = sctx[k].version

\* No context anybody holds is ahead of the stored one, or on another branch.
LocalBehind == \A p \in Processes : Precedes(local[p], ctx)

WritersBehind ==
  \A w \in Writers :
    /\ Precedes(wctx[w], ctx)
    /\ wpc[w] = "local" => Precedes(Appended(wctx[w], wmsg[w]), ctx)

WorkersBehind ==
  \A k \in Workers :
    /\ Precedes(sctx[k], ctx)
    /\ Precedes(sfresh[k], ctx)
    /\ spc[k] = "store" => Precedes(Compacted(sctx[k], summary[k], sfresh[k]), ctx)

NoneAhead == Precedes(Empty, ctx) /\ LocalBehind /\ WritersBehind /\ WorkersBehind

Consistent == Typed /\ SummaryMatches /\ (~damaged => NoneAhead)

LEMMA SummaryMatchesNext ==
  ASSUME Typed, SummaryMatches, [Next]_vars
  PROVE  SummaryMatches'
<1>t. /\ spc \in [Workers -> WorkerPCs] /\ sctx \in [Workers -> Context]
      /\ summary \in [Workers -> Seq(Turn)] /\ sfresh \in [Workers -> Context]
  BY DEF Typed, TypeOK
<1>1. ASSUME UNCHANGED <<spc, sctx, summary, sfresh>> PROVE SummaryMatches'
  BY <1>1 DEF SummaryMatches
<1> USE DEF workerVars
<1>2. CASE UNCHANGED vars
  BY <1>1, <1>2 DEF vars
<1>3. CASE PartialTranscript \/ Cancel \/ Close \/ LockExpires \/ ContextExpires
  BY <1>1, <1>3 DEF PartialTranscript, Cancel, Close, LockExpires, ContextExpires
<1>4. ASSUME NEW w \in Writers, Begin(w) \/ WriterStep(w) PROVE SummaryMatches'
  BY <1>1, <1>4
     DEF Begin, WriterStep, Get, GetFails, Set, SetFails, StoreLocal, Push, PushFails
<1>5. ASSUME NEW k \in Workers, WorkerStep(k) \/ Crash(k) PROVE SummaryMatches'
  <2>a. ASSUME NEW pc \in {"idle", "acquire", "load", "summarize", "release"},
               spc' = [spc EXCEPT ![k] = pc],
               \A j \in Workers \ {k} :
                 sctx'[j] = sctx[j] /\ summary'[j] = summary[j] /\ sfresh'[j] = sfresh[j]
        PROVE  SummaryMatches'
    BY <1>t, <2>a DEF SummaryMatches
  <2>1. CASE Pop(k) \/ Acquire(k) \/ AcquireHeld(k) \/ AcquireFails(k) \/ SummarizeFails(k)
               \/ SaveFails(k) \/ Store(k)
    BY <2>1, <2>a
       DEF Pop, Acquire, AcquireHeld, AcquireFails, SummarizeFails, SaveFails, Store
  <2>2. CASE Load(k) \/ LoadFails(k)
    <3>1. PICK c : LoadContext(k, c)
      BY <2>2 DEF Load, LoadFails
    <3> QED
      BY <1>t, <2>a, <3>1 DEF LoadContext
  <2>3. CASE Release(k) \/ ReleaseFails(k) \/ Crash(k)
    <3>1. Idle(k)
      BY <2>3 DEF Release, ReleaseFails, Crash
    <3> QED
      BY <1>t, <2>a, <3>1 DEF Idle
  <2>4. CASE Summarize(k) \/ SummarizeEmpty(k)
    BY <1>t, <2>4 DEF SummaryMatches, Summarize, SummarizeEmpty
  <2>5. CASE Reload(k) \/ ReloadFails(k)
    <3>1. PICK c : ReloadContext(k, c)
      BY <2>5 DEF Reload, ReloadFails
    <3> QED
      BY <1>t, <3>1 DEF SummaryMatches, ReloadContext
  <2>6. CASE Save(k)
    BY <1>t, <2>6 DEF SummaryMatches, Save
  <2> QED
    BY <1>5, <2>1, <2>2, <2>3, <2>4, <2>5, <2>6 DEF WorkerStep
<1> QED
  BY <1>2, <1>3, <1>4, <1>5 DEF Next

\* When the stored context moves and nothing is lost, it moves forward.
LEMMA StoredMovesForward ==
  ASSUME Consistent, [Next]_vars, ~damaged'
  PROVE  ctx \in Context /\ ctx' \in Context /\ Precedes(ctx, ctx')
<1>1. Typed /\ Typed' /\ SummaryMatches
  BY TypedNext DEF Consistent
<1>2. ctx \in Context /\ ctx' \in Context
  BY <1>1 DEF Typed, TypeOK
<1>3. ctx' = ctx => Precedes(ctx, ctx')
  BY <1>2, PrecedesReflexive
<1>4. ASSUME NEW w \in Writers, wpc[w] = "set",
             Write(wctx[w], Appended(wctx[w], wmsg[w]))
      PROVE  Precedes(ctx, ctx')
  <2>1. ctx = wctx[w] /\ ctx' = Appended(wctx[w], wmsg[w])
    BY <1>4 DEF Write
  <2>2. wmsg[w] \in Turn
    BY <1>1, <1>4 DEF Typed, TypeOK
  <2> QED
    BY <1>2, <2>1, <2>2, AppendedFollows
<1>5. ASSUME NEW k \in Workers, spc[k] = "save", WriteSummary(k)
      PROVE  Precedes(ctx, ctx')
  <2>1. ctx = sfresh[k] /\ ctx' = Compacted(sctx[k], summary[k], sfresh[k])
    BY <1>5 DEF WriteSummary
  <2>2. sfresh[k].version = sctx[k].version
    BY <1>1, <1>5 DEF SummaryMatches
  <2>3. sctx[k] \in Context /\ sfresh[k] \in Context
    BY <1>1 DEF Typed, TypeOK
  <2> QED
    BY <2>1, <2>2, <2>3, CompactedFollows
<1>6. CASE UNCHANGED vars
  BY <1>2, <1>3, <1>6 DEF vars, redisVars
<1>7. CASE PartialTranscript \/ Cancel \/ Close \/ LockExpires \/ ContextExpires
  BY <1>2, <1>3, <1>7
     DEF PartialTranscript, Cancel, Close, LockExpires, ContextExpires, redisVars
<1>8. ASSUME NEW w \in Writers, Begin(w) \/ WriterStep(w)
      PROVE  Precedes(ctx, ctx')
  BY <1>3, <1>4, <1>8
     DEF Begin, WriterStep, Get, GetFails, Set, SetFails, StoreLocal, Push, PushFails,
         redisVars
<1>9. ASSUME NEW k \in Workers, WorkerStep(k) \/ Crash(k)
      PROVE  Precedes(ctx, ctx')
  <2>1. CASE Save(k) \/ SaveFails(k)
    BY <1>3, <1>5, <2>1 DEF Save, SaveFails
  <2>2. CASE Crash(k)
    BY <1>3, <2>2 DEF Crash, redisVars
  <2>3. CASE WorkerStep(k) /\ ~Save(k) /\ ~SaveFails(k)
    BY <1>3, <2>3
       DEF WorkerStep, Pop, Acquire, AcquireHeld, AcquireFails, Load, LoadFails,
           LoadContext, Summarize, SummarizeEmpty, SummarizeFails, Reload, ReloadFails,
           ReloadContext, Store, Release, ReleaseFails, redisVars
  <2> QED
    BY <1>9, <2>1, <2>2, <2>3
<1> QED
  BY <1>2, <1>6, <1>7, <1>8, <1>9 DEF Next

LEMMA DamageLasts ==
  ASSUME [Next]_vars, damaged
  PROVE  damaged'
<1>1. CASE UNCHANGED vars
  BY <1>1 DEF vars
<1>2. CASE PartialTranscript \/ Cancel \/ Close \/ LockExpires \/ ContextExpires
  BY <1>2 DEF PartialTranscript, Cancel, Close, LockExpires, ContextExpires
<1>3. ASSUME NEW w \in Writers, Begin(w) \/ WriterStep(w) PROVE damaged'
  BY <1>3
     DEF Begin, WriterStep, Get, GetFails, Set, SetFails, StoreLocal, Push, PushFails, Write
<1>4. ASSUME NEW k \in Workers, WorkerStep(k) \/ Crash(k) PROVE damaged'
  BY <1>4
     DEF WorkerStep, Pop, Acquire, AcquireHeld, AcquireFails, Load, LoadFails, LoadContext,
         Summarize, SummarizeEmpty, SummarizeFails, Reload, ReloadFails, ReloadContext,
         Save, SaveFails, WriteSummary, Store, Release, ReleaseFails, Crash
<1> QED
  BY <1>1, <1>2, <1>3, <1>4 DEF Next

\* What was behind stays behind.
LEMMA BehindStaysBehind ==
  ASSUME Consistent, [Next]_vars, ~damaged', NEW v \in Context, Precedes(v, ctx)
  PROVE  Precedes(v, ctx')
BY StoredMovesForward, PrecedesTransitive

LEMMA FetchedBehind ==
  ASSUME Consistent, NoneAhead, NEW p \in Processes
  PROVE  Precedes(Fetched(p), ctx) /\ Precedes(local[p], ctx)
BY PrecedesReflexive DEF Consistent, NoneAhead, LocalBehind, Typed, TypeOK, Fetched

LEMMA UntouchedStayBehind ==
  ASSUME Consistent, NoneAhead, [Next]_vars, ~damaged'
  PROVE  /\ Precedes(Empty, ctx')
         /\ UNCHANGED local => LocalBehind'
         /\ UNCHANGED writerVars => WritersBehind'
         /\ UNCHANGED <<spc, sctx, summary, sfresh>> => WorkersBehind'
<1>t. Typed /\ TypeOK
  BY DEF Consistent, Typed
<1>1. Precedes(Empty, ctx')
  BY EmptyType, BehindStaysBehind DEF NoneAhead
<1>2. ASSUME UNCHANGED local PROVE LocalBehind'
  <2>1. \A p \in Processes : Precedes(local[p], ctx')
    BY <1>t, BehindStaysBehind DEF NoneAhead, LocalBehind, TypeOK
  <2> QED
    BY <1>2, <2>1 DEF LocalBehind
<1>3. ASSUME UNCHANGED writerVars PROVE WritersBehind'
  <2>1. ASSUME NEW w \in Writers
        PROVE  /\ Precedes(wctx[w], ctx')
               /\ wpc[w] = "local" => Precedes(Appended(wctx[w], wmsg[w]), ctx')
    BY <1>t, SavedType, BehindStaysBehind DEF NoneAhead, WritersBehind, TypeOK
  <2> QED
    BY <1>3, <2>1 DEF WritersBehind, writerVars
<1>4. ASSUME UNCHANGED <<spc, sctx, summary, sfresh>> PROVE WorkersBehind'
  <2>1. ASSUME NEW k \in Workers
        PROVE  /\ Precedes(sctx[k], ctx')
               /\ Precedes(sfresh[k], ctx')
               /\ spc[k] = "store" =>
                    Precedes(Compacted(sctx[k], summary[k], sfresh[k]), ctx')
    BY <1>t, CompactType, BehindStaysBehind
       DEF NoneAhead, WorkersBehind, TypeOK, Compacting
  <2> QED
    BY <1>4, <2>1 DEF WorkersBehind
<1> QED
  BY <1>1, <1>2, <1>3, <1>4

LEMMA NoneAheadWriter ==
  ASSUME Consistent, NoneAhead, [Next]_vars, ~damaged',
         NEW w \in Writers, Begin(w) \/ WriterStep(w)
  PROVE  NoneAhead'
<1>t. Typed /\ TypeOK /\ Api \in Processes
  BY DEF Consistent, Typed, Processes
<1>1. Precedes(Empty, ctx') /\ WorkersBehind'
  BY UntouchedStayBehind
     DEF Begin, WriterStep, Get, GetFails, Set, SetFails, StoreLocal, Push, PushFails,
         workerVars
<1>2. LocalBehind'
  <2>1. CASE UNCHANGED local
    BY <2>1, UntouchedStayBehind
  <2>2. CASE StoreLocal(w)
    <3>1. \A p \in Processes : Precedes(local[p], ctx')
      BY <1>t, BehindStaysBehind DEF NoneAhead, LocalBehind, TypeOK
    <3>2. Precedes(Appended(wctx[w], wmsg[w]), ctx')
      BY <1>t, <2>2, SavedType, BehindStaysBehind DEF NoneAhead, WritersBehind, StoreLocal
    <3> QED
      BY <1>t, <2>2, <3>1, <3>2 DEF LocalBehind, StoreLocal, TypeOK
  <2> QED
    BY <2>1, <2>2 DEF Begin, WriterStep, Get, GetFails, Set, SetFails, Push, PushFails
<1>3. \A u \in Writers :
        /\ Precedes(wctx[u], ctx')
        /\ wpc[u] = "local" => Precedes(Appended(wctx[u], wmsg[u]), ctx')
  BY <1>t, SavedType, BehindStaysBehind DEF NoneAhead, WritersBehind, TypeOK
<1>4. /\ wctx'[w] \in {wctx[w], Empty, local[Api], Fetched(Api)}
      /\ wpc'[w] = "local" =>
           wctx'[w] = wctx[w] /\ wmsg'[w] = wmsg[w] /\ ctx' = Appended(wctx[w], wmsg[w])
      /\ \A u \in Writers \ {w} :
           wctx'[u] = wctx[u] /\ wmsg'[u] = wmsg[u] /\ wpc'[u] = wpc[u]
  BY <1>t
     DEF TypeOK, Begin, WriterStep, Get, GetFails, Set, SetFails, StoreLocal, Push, PushFails,
         Return, Write
<1>5. \A c \in {wctx[w], Empty, local[Api], Fetched(Api)} : Precedes(c, ctx')
  BY <1>t, <1>1, <1>3, FetchedType, FetchedBehind, BehindStaysBehind
<1>6. ctx' \in Context
  BY StoredMovesForward
<1>7. WritersBehind'
  BY <1>3, <1>4, <1>5, <1>6, PrecedesReflexive DEF WritersBehind
<1> QED
  BY <1>1, <1>2, <1>7 DEF NoneAhead

LEMMA NoneAheadWorker ==
  ASSUME Consistent, NoneAhead, [Next]_vars, ~damaged',
         NEW k \in Workers, WorkerStep(k) \/ Crash(k)
  PROVE  NoneAhead'
<1>t. Typed /\ TypeOK /\ k \in Processes
  BY DEF Consistent, Typed, Processes
<1>1. Precedes(Empty, ctx') /\ WritersBehind'
  BY UntouchedStayBehind
     DEF WorkerStep, Pop, Acquire, AcquireHeld, AcquireFails, Load, LoadFails, LoadContext,
         Summarize, SummarizeEmpty, SummarizeFails, Reload, ReloadFails, ReloadContext,
         Save, SaveFails, Store, Release, ReleaseFails, Crash
<1>2. LocalBehind'
  <2>1. CASE UNCHANGED local
    BY <2>1, UntouchedStayBehind
  <2>2. \A p \in Processes : Precedes(local[p], ctx')
    BY <1>t, BehindStaysBehind DEF NoneAhead, LocalBehind, TypeOK
  <2>3. CASE Store(k)
    <3>1. Precedes(Compacted(sctx[k], summary[k], sfresh[k]), ctx')
      BY <1>t, <2>3, CompactType, BehindStaysBehind
         DEF NoneAhead, WorkersBehind, Store, Compacting
    <3> QED
      BY <1>t, <2>2, <2>3, <3>1 DEF LocalBehind, Store, TypeOK
  <2>4. CASE Crash(k)
    BY <1>t, <1>1, <2>2, <2>4 DEF LocalBehind, Crash, TypeOK
  <2> QED
    BY <2>1, <2>3, <2>4
       DEF WorkerStep, Pop, Acquire, AcquireHeld, AcquireFails, Load, LoadFails, LoadContext,
           Summarize, SummarizeEmpty, SummarizeFails, Reload, ReloadFails, ReloadContext,
           Save, SaveFails, Release, ReleaseFails
<1>3. \A j \in Workers :
        /\ Precedes(sctx[j], ctx')
        /\ Precedes(sfresh[j], ctx')
        /\ spc[j] = "store" =>
             Precedes(Compacted(sctx[j], summary[j], sfresh[j]), ctx')
  BY <1>t, CompactType, BehindStaysBehind DEF NoneAhead, WorkersBehind, TypeOK, Compacting
<1>4. /\ sctx'[k] \in {sctx[k], Empty, local[k], Fetched(k)}
      /\ sfresh'[k] \in {sfresh[k], Empty, local[k], Fetched(k)}
      /\ spc'[k] = "store" =>
           /\ sctx'[k] = sctx[k] /\ summary'[k] = summary[k] /\ sfresh'[k] = sfresh[k]
           /\ ctx' = Compacted(sctx[k], summary[k], sfresh[k])
      /\ \A j \in Workers \ {k} :
           /\ sctx'[j] = sctx[j] /\ summary'[j] = summary[j] /\ sfresh'[j] = sfresh[j]
           /\ spc'[j] = spc[j]
  <2>1. CASE Load(k) \/ LoadFails(k)
    BY <1>t, <2>1 DEF TypeOK, Load, LoadFails, LoadContext
  <2>2. CASE Reload(k) \/ ReloadFails(k)
    BY <1>t, <2>2 DEF TypeOK, Reload, ReloadFails, ReloadContext
  <2>3. CASE Summarize(k) \/ SummarizeEmpty(k) \/ SummarizeFails(k)
    BY <1>t, <2>3 DEF TypeOK, Summarize, SummarizeEmpty, SummarizeFails
  <2>4. CASE Save(k) \/ SaveFails(k) \/ Store(k)
    BY <1>t, <2>4 DEF TypeOK, Save, SaveFails, WriteSummary, Store
  <2>5. CASE Release(k) \/ ReleaseFails(k) \/ Crash(k)
    BY <1>t, <2>5 DEF TypeOK, Release, ReleaseFails, Crash, Idle
  <2>6. CASE Pop(k) \/ Acquire(k) \/ AcquireHeld(k) \/ AcquireFails(k)
    BY <1>t, <2>6 DEF TypeOK, Pop, Acquire, AcquireHeld, AcquireFails
  <2> QED
    BY <2>1, <2>2, <2>3, <2>4, <2>5, <2>6 DEF WorkerStep
<1>5. \A c \in {sctx[k], sfresh[k], Empty, local[k], Fetched(k)} : Precedes(c, ctx')
  BY <1>t, <1>1, <1>3, FetchedType, FetchedBehind, BehindStaysBehind
<1>6. ctx' \in Context
  BY StoredMovesForward
<1>7. WorkersBehind'
  BY <1>3, <1>4, <1>5, <1>6, PrecedesReflexive DEF WorkersBehind
<1> QED
  BY <1>1, <1>2, <1>7 DEF NoneAhead

LEMMA ConsistentInit == Init => Consistent
<1> SUFFICES ASSUME Init PROVE Consistent
  OBVIOUS
<1>1. Precedes(Empty, Empty)
  BY EmptyType, PrecedesReflexive
<1>2. NoneAhead
  BY <1>1 DEF Init, NoneAhead, LocalBehind, WritersBehind, WorkersBehind
<1>3. SummaryMatches
  BY DEF Init, SummaryMatches
<1> QED
  BY <1>2, <1>3, TypedInit DEF Consistent

LEMMA ConsistentNext == Consistent /\ [Next]_vars => Consistent'
<1> SUFFICES ASSUME Consistent, [Next]_vars PROVE Consistent'
  OBVIOUS
<1>1. Typed' /\ SummaryMatches'
  BY TypedNext, SummaryMatchesNext DEF Consistent
<1>2. ASSUME ~damaged' PROVE NoneAhead'
  <2>1. NoneAhead
    BY <1>2, DamageLasts DEF Consistent
  <2>2. CASE UNCHANGED vars
    BY <1>2, <2>1, <2>2, UntouchedStayBehind DEF vars, workerVars, NoneAhead
  <2>3. CASE PartialTranscript \/ Cancel \/ LockExpires
    BY <1>2, <2>1, <2>3, UntouchedStayBehind
       DEF PartialTranscript, Cancel, LockExpires, workerVars, NoneAhead
  <2>4. CASE Close
    <3>1. \A p \in Processes : Precedes(local[p], ctx')
      BY <1>2, <2>1, BehindStaysBehind DEF NoneAhead, LocalBehind, Consistent, Typed, TypeOK
    <3>2. Precedes(Empty, ctx') /\ WritersBehind' /\ WorkersBehind'
      BY <1>2, <2>1, <2>4, UntouchedStayBehind DEF Close, workerVars
    <3>3. LocalBehind'
      BY <2>4, <3>1, <3>2 DEF Close, LocalBehind, Consistent, Typed, TypeOK
    <3> QED
      BY <3>2, <3>3 DEF NoneAhead
  <2>5. CASE ContextExpires
    BY <1>2, <2>5 DEF ContextExpires
  <2> QED
    BY <1>2, <2>1, <2>2, <2>3, <2>4, <2>5, NoneAheadWriter, NoneAheadWorker DEF Next
<1> QED
  BY <1>1, <1>2 DEF Consistent

-----------------------------------------------------------------------------

LEMMA SavesCommit ==
  ASSUME Consistent, ~damaged', NEW w \in Writers, wpc[w] = "set",
         Write(wctx[w], Appended(wctx[w], wmsg[w]))
  PROVE  \E t \in Turn : ctx'.long \o ctx'.short = Append(ctx.long \o ctx.short, t)
<1>1. ctx = wctx[w] /\ ctx' = Appended(wctx[w], wmsg[w])
  BY DEF Write
<1>2. wmsg[w] \in Turn /\ ctx \in Context
  BY DEF Consistent, Typed, TypeOK
<1>3. Whole(ctx') = Append(Whole(ctx), wmsg[w])
  BY <1>1, <1>2, AppendedCommits
<1> QED
  BY <1>2, <1>3 DEF Whole

LEMMA SummariesFold ==
  ASSUME Consistent, ~damaged, ~damaged', NEW k \in Workers, spc[k] = "save",
         WriteSummary(k)
  PROVE  /\ ctx'.long \o ctx'.short = ctx.long \o ctx.short
         /\ Len(ctx'.long) > Len(ctx.long)
         /\ Len(ctx'.long) < Len(ctx.long \o ctx.short)
<1>1. ctx = sfresh[k] /\ ctx' = Compacted(sctx[k], summary[k], sfresh[k])
      /\ summary[k] # <<>>
  BY DEF WriteSummary
<1>2. /\ sctx[k] \in Context /\ sfresh[k] \in Context
      /\ Len(sctx[k].short) > 1
  BY DEF Consistent, Typed, TypeOK, LongEnough, Compacting
<1>3. /\ summary[k] = sctx[k].long \o Older(sctx[k].short)
      /\ sfresh[k].version = sctx[k].version
  BY <1>1 DEF Consistent, SummaryMatches
<1>4. Precedes(sctx[k], sfresh[k])
  BY <1>1 DEF Consistent, NoneAhead, WorkersBehind
<1> QED
  BY <1>1, <1>2, <1>3, <1>4, CompactedFolds DEF Whole

LEMMA StepImplements ==
  ASSUME Consistent, [Next]_vars
  PROVE  [Log!Next]_(Log!vars)
<1> DEFINE Same == UNCHANGED <<ctx, damaged>>
<1>0. Same => UNCHANGED Log!vars
  BY DEF Log!vars
<1>1. CASE damaged'
  BY <1>1 DEF Log!Next, Log!Damage
<1>2. CASE ~damaged'
  <2>1. ~damaged
    BY <1>2, DamageLasts
  <2>u. damaged' = damaged
    <3>1. damaged \in BOOLEAN /\ damaged' \in BOOLEAN
      BY TypedNext DEF Consistent, Typed, TypeOK
    <3> QED
      BY <1>2, <2>1, <3>1
  <2>2. ASSUME NEW w \in Writers, wpc[w] = "set",
               Write(wctx[w], Appended(wctx[w], wmsg[w]))
        PROVE  Log!Next
    <3>1. \E t \in Turn : ctx'.long \o ctx'.short = Append(ctx.long \o ctx.short, t)
      BY <1>2, <2>2, SavesCommit
    <3>2. ctx'.long = ctx.long
      BY <1>2, <2>2, AppendedType DEF Write, Consistent, Typed, TypeOK
    <3>3. Log!Commit
      BY <2>u, <3>1, <3>2 DEF Log!Commit
    <3> QED
      BY <2>1, <3>3, Zenon DEF Log!Next
  <2>3. ASSUME NEW k \in Workers, spc[k] = "save", WriteSummary(k)
        PROVE  Log!Next
    <3>1. Log!Fold
      BY <1>2, <2>1, <2>u, <2>3, SummariesFold DEF Log!Fold
    <3> QED
      BY <2>1, <3>1, Zenon DEF Log!Next
  <2>4. CASE UNCHANGED vars
    BY <1>0, <2>4 DEF vars, redisVars
  <2>5. CASE PartialTranscript \/ Cancel \/ Close \/ LockExpires \/ ContextExpires
    BY <1>0, <1>2, <2>5
       DEF PartialTranscript, Cancel, Close, LockExpires, ContextExpires, redisVars
  <2>6. ASSUME NEW w \in Writers, Begin(w) \/ WriterStep(w)
        PROVE  Log!Next \/ Same
    BY <2>2, <2>6
       DEF Begin, WriterStep, Get, GetFails, Set, SetFails, StoreLocal, Push, PushFails,
           redisVars
  <2>7. ASSUME NEW k \in Workers, WorkerStep(k) \/ Crash(k)
        PROVE  Log!Next \/ Same
    <3>1. CASE Save(k) \/ SaveFails(k)
      BY <2>3, <3>1 DEF Save, SaveFails
    <3>2. CASE ~Save(k) /\ ~SaveFails(k)
      BY <2>7, <3>2
         DEF WorkerStep, Pop, Acquire, AcquireHeld, AcquireFails, Load, LoadFails,
             LoadContext, Summarize, SummarizeEmpty, SummarizeFails, Reload, ReloadFails,
             ReloadContext, Store, Release, ReleaseFails, Crash, redisVars
    <3> QED
      BY <3>1, <3>2
  <2> QED
    BY <1>0, <2>4, <2>5, <2>6, <2>7 DEF Next
<1> QED
  BY <1>1, <1>2

\* The 3-level memory implements the conversation log, for any number of turns,
\* writers, workers and failures, any token estimates and limits, and summaries of
\* any duration: as long as no SET hit a context other than the one it was made
\* from, a turn once committed stays, in its place, and a summary only ever takes
\* over the oldest ones.
THEOREM MemoryImplementsLog == Spec => LogSpec
<1>1. Init => Log!Init
  BY DEF Init, Empty, Log!Init
<1>2. Consistent /\ [Next]_vars => [Log!Next]_(Log!vars)
  BY StepImplements
<1> QED
  BY <1>1, <1>2, ConsistentInit, ConsistentNext, PTL DEF Spec, LogSpec, Log!Spec
=============================================================================
