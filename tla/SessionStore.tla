---------------------------- MODULE SessionStore ----------------------------
(***************************************************************************)
(* The life of the sessions in the two stores of internal/session: the row *)
(* in PostgreSQL, which is the durable record, and its copy in Redis.      *)
(*                                                                         *)
(* ServeHTTP of internal/websocket creates a session, serves it and closes *)
(* it; any call on the way may fail and the API process may stop.  The     *)
(* maintenance ticker of cmd/worker closes what was left active.  What     *)
(* happens while a session is served is in Connection.                     *)
(***************************************************************************)
EXTENDS Integers

CONSTANTS
  Sessions,      \* the sessions of one API process
  HasPostgres,   \* PostgreSQL was reached at startup
  HasRedis,      \* Redis was reached at startup
  MaxFaults      \* bound: failed calls, process stops and expiries

ASSUME ModesAssumption ==
  /\ HasPostgres \in BOOLEAN
  /\ HasRedis \in BOOLEAN
  /\ MaxFaults \in Nat

VARIABLES
  pc,         \* where the handler of each session is
  row,        \* PostgreSQL: the status in its row, "none" if there is no row
  cached,     \* Redis: the status in its copy, "none" if there is no copy
  old,        \* the row was created longer ago than a row may stay active (24 h)
  rejected,   \* history: a transcript or an answer named a session without a row
  faults      \* failures so far

vars == <<pc, row, cached, old, rejected, faults>>

Status == {"none", "active", "closed"}

\* The session is served, or being closed after it was: it may have records.
Served == {"live", "close_row", "read", "recache", "over"}

TypeOK ==
  /\ pc \in [Sessions -> {"insert", "cache", "stt", "refused"} \cup Served]
  /\ row \in [Sessions -> Status]
  /\ cached \in [Sessions -> Status]
  /\ old \in [Sessions -> BOOLEAN]
  /\ rejected \in BOOLEAN
  /\ faults \in 0..MaxFaults

Init ==
  /\ pc = [s \in Sessions |-> "insert"]
  /\ row = [s \in Sessions |-> "none"]
  /\ cached = [s \in Sessions |-> "none"]
  /\ old = [s \in Sessions |-> FALSE]
  /\ rejected = FALSE
  /\ faults = 0

Fault == faults < MaxFaults /\ faults' = faults + 1

Go(s, here, there) ==
  /\ pc[s] = here
  /\ pc' = [pc EXCEPT ![s] = there]
  /\ UNCHANGED <<old, rejected>>

\* A write of the status v; a store that was not reached is skipped.
WriteRow(s, v)   == row' = IF HasPostgres THEN [row EXCEPT ![s] = v] ELSE row
WriteCache(s, v) == cached' = IF HasRedis THEN [cached EXCEPT ![s] = v] ELSE cached

-----------------------------------------------------------------------------
(* ServeHTTP: CreateSession, StartSession of the STT provider *)

\* SaveSession: INSERT of the row.
Insert(s) ==
  /\ Go(s, "insert", "cache")
  /\ WriteRow(s, "active")
  /\ UNCHANGED <<cached, faults>>

\* Mutant: an error of the INSERT is logged and the session served.
InsertFailsServed(s) ==
  /\ HasPostgres
  /\ Go(s, "insert", "cache")
  /\ Fault
  /\ WriteRow(s, "active") \/ UNCHANGED row
  /\ UNCHANGED cached

\* The INSERT returns an error, though it may have been applied: the client is refused.
InsertFails(s) ==
  /\ HasPostgres
  /\ Go(s, "insert", "refused")
  /\ Fault
  /\ WriteRow(s, "active") \/ UNCHANGED row
  /\ UNCHANGED cached

\* SaveSession: SET of the copy.
Put(s) ==
  /\ Go(s, "cache", "stt")
  /\ WriteCache(s, "active")
  /\ UNCHANGED <<row, faults>>

\* The SET returns an error: the client is refused, the row stays as it is.
PutFails(s) ==
  /\ HasRedis
  /\ Go(s, "cache", "refused")
  /\ Fault
  /\ WriteCache(s, "active") \/ UNCHANGED cached
  /\ UNCHANGED row

StartSTT(s) ==
  /\ Go(s, "stt", "live")
  /\ UNCHANGED <<row, cached, faults>>

\* The STT provider cannot be started: the client is refused, and nobody closes the
\* session that was created.
StartSTTFails(s) ==
  /\ Go(s, "stt", "refused")
  /\ Fault
  /\ UNCHANGED <<row, cached>>

-----------------------------------------------------------------------------
(* The connection *)

\* RecordTranscript or RecordAnswer: the foreign key refuses a session without a row.
\* The goroutine of an answer may get here after the session was closed.
Record(s) ==
  /\ HasPostgres
  /\ pc[s] \in Served
  /\ rejected' = (rejected \/ row[s] = "none")
  /\ UNCHANGED <<pc, row, cached, old, faults>>

HangUp(s) ==
  /\ Go(s, "live", "close_row")
  /\ UNCHANGED <<row, cached, faults>>

\* CloseSession: UPDATE of the row.
CloseRow(s) ==
  /\ Go(s, "close_row", IF HasRedis THEN "read" ELSE "over")
  /\ WriteRow(s, "closed")
  /\ UNCHANGED <<cached, faults>>

\* Mutant: an error of the UPDATE is logged and Redis is updated all the same.
CloseRowFailsCached(s) ==
  /\ HasPostgres
  /\ Go(s, "close_row", "read")
  /\ Fault
  /\ WriteRow(s, "closed") \/ UNCHANGED row
  /\ UNCHANGED cached

\* The UPDATE returns an error, though it may have been applied: Redis is not tried.
CloseRowFails(s) ==
  /\ HasPostgres
  /\ Go(s, "close_row", "over")
  /\ Fault
  /\ WriteRow(s, "closed") \/ UNCHANGED row
  /\ UNCHANGED cached

\* CloseSession: GetSession finds the session, in Redis or in PostgreSQL, or not.
ReadBack(s) ==
  /\ Go(s, "read", IF cached[s] # "none" \/ row[s] # "none" THEN "recache" ELSE "over")
  /\ UNCHANGED <<row, cached, faults>>

\* GetSession: Redis fails, and PostgreSQL answers or fails too.
ReadBackFails(s) ==
  /\ Go(s, "read", "over") \/ (row[s] # "none" /\ Go(s, "read", "recache"))
  /\ Fault
  /\ UNCHANGED <<row, cached>>

\* Mutant: the copy is written back with the status it had.
RecacheAsRead(s) ==
  /\ Go(s, "recache", "over")
  /\ WriteCache(s, IF cached[s] # "none" THEN cached[s] ELSE row[s])
  /\ UNCHANGED <<row, faults>>

\* CloseSession: SET of the copy, closed.
Recache(s) ==
  /\ Go(s, "recache", "over")
  /\ WriteCache(s, "closed")
  /\ UNCHANGED <<row, faults>>

\* The SET fails: the error is logged, and the copy may stay active.
RecacheFails(s) ==
  /\ Go(s, "recache", "over")
  /\ Fault
  /\ WriteCache(s, "closed") \/ UNCHANGED cached
  /\ UNCHANGED row

HandlerStep(s) ==
  \/ Insert(s) \/ InsertFails(s)
  \/ Put(s) \/ PutFails(s)
  \/ StartSTT(s) \/ StartSTTFails(s)
  \/ CloseRow(s) \/ CloseRowFails(s)
  \/ ReadBack(s) \/ ReadBackFails(s)
  \/ Recache(s) \/ RecacheFails(s)

\* The API process stops: it is killed, or main returns, which does not wait for
\* connections the HTTP server no longer owns.  No session is closed.
Stop ==
  /\ Fault
  /\ pc' = [s \in Sessions |-> IF pc[s] \in Served THEN "over"
                               ELSE IF pc[s] = "insert" THEN "insert" ELSE "refused"]
  /\ UNCHANGED <<row, cached, old, rejected>>

-----------------------------------------------------------------------------
(* The stores and the maintenance ticker *)

\* 24 h have passed since the row was created.
Ages(s) ==
  /\ row[s] # "none"
  /\ ~old[s]
  /\ old' = [old EXCEPT ![s] = TRUE]
  /\ UNCHANGED <<pc, row, cached, rejected, faults>>

\* The copy's TTL runs out.
CacheExpires(s) ==
  /\ cached[s] # "none"
  /\ Fault
  /\ cached' = [cached EXCEPT ![s] = "none"]
  /\ UNCHANGED <<pc, row, old, rejected>>

\* Mutant: the comparison of the dates is turned round.
StaleYoung(s) == row[s] = "active" /\ ~old[s]

\* Mutant: the age of the row is not asked for.
StaleAnyAge(s) == row[s] = "active"

Stale(s) == row[s] = "active" /\ old[s]

\* Mutant: the status in the SQL text is not StatusClosed.
PruneMisspelt ==
  /\ \E s \in Sessions : Stale(s)
  /\ row' = [s \in Sessions |-> IF Stale(s) THEN "stale" ELSE row[s]]
  /\ UNCHANGED <<pc, cached, old, rejected, faults>>

\* PruneStaleSessions: the rows only, those of sessions still being served included.
Prune ==
  /\ \E s \in Sessions : Stale(s)
  /\ row' = [s \in Sessions |-> IF Stale(s) THEN "closed" ELSE row[s]]
  /\ UNCHANGED <<pc, cached, old, rejected, faults>>

Next ==
  \/ \E s \in Sessions : HandlerStep(s) \/ Record(s) \/ HangUp(s)
  \/ \E s \in Sessions : Ages(s) \/ CacheExpires(s)
  \/ Stop
  \/ Prune

\* Handlers keep running, time passes, and of the ticks of the maintenance ticker
\* (one a minute) one finds PostgreSQL there.  Nobody has to hang up.
Fairness ==
  /\ \A s \in Sessions : WF_vars(HandlerStep(s)) /\ WF_vars(Ages(s))
  /\ WF_vars(Prune)

Spec == Init /\ [][Next]_vars

FairSpec == Spec /\ Fairness

-----------------------------------------------------------------------------
(* Properties *)

Finished == {"refused", "over"}

\* With PostgreSQL there, Redis never says of a session that it is closed before
\* the durable row does, whichever call of CloseSession fails and whatever expires
\* or is pruned meanwhile (repository.go:106-133).
CacheNeverAhead ==
  \A s \in Sessions : HasPostgres /\ cached[s] = "closed" => row[s] = "closed"

\* No transcript or answer of a session that is or was served is refused by the
\* foreign key, whatever failed when the session was created (handler.go:97-104).
RecordsHaveASession == ~rejected

\* The maintenance ticker never closes the row of a session that is still being opened
\* or served, before the 24 h the row may stay active are over (repository.go:174-178).
LiveIsOpen ==
  \A s \in Sessions :
    HasPostgres /\ pc[s] \in {"cache", "stt", "live"} /\ ~old[s] => row[s] = "active"

\* When nothing failed, a session that was served to its end is not active for
\* anyone who asks GetSession: neither store still says so (repository.go:118-130).
CleanCloseIsSeen ==
  \A s \in Sessions :
    faults = 0 /\ pc[s] = "over" => row[s] # "active" /\ cached[s] # "active"

\* No row stays active for ever once its handler is over: not when the client was
\* refused after the INSERT, not when CloseSession failed, and not when the API
\* process stopped (repository.go:167-184, cmd/worker/main.go:86-95).
RowsAreClosed ==
  \A s \in Sessions :
    (pc[s] \in Finished /\ row[s] = "active") ~> row[s] # "active"
=============================================================================
