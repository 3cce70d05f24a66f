------------------------- MODULE SessionStoreProofs -------------------------
(***************************************************************************)
(* That the two stores of a session agree, for any number of sessions and  *)
(* of failures and in every mode the program starts in.                    *)
(***************************************************************************)
EXTENDS SessionStore, TLAPS

\* CloseSession gets to Redis only past the UPDATE; a session has no copy and no
\* records before it has a row; and only age lets the ticker close the row of one that
\* has not been closed by its handler.  A handler that met no failure leaves neither
\* store with an active session.
Agree ==
  /\ \A s \in Sessions : HasPostgres =>
       /\ cached[s] = "closed" => row[s] = "closed"
       /\ pc[s] \in {"read", "recache"} => row[s] = "closed"
       /\ pc[s] \in {"cache", "stt"} \cup Served => row[s] # "none"
       /\ pc[s] \in {"cache", "stt", "live"} /\ ~old[s] => row[s] = "active"
       /\ pc[s] = "insert" => cached[s] = "none"
  /\ \A s \in Sessions :
       /\ ~HasPostgres => row[s] = "none"
       /\ ~HasRedis => cached[s] = "none"
       /\ faults = 0 /\ pc[s] = "over" => row[s] # "active" /\ cached[s] # "active"
  /\ ~rejected

IInv == TypeOK /\ Agree

\* Nothing has been stored yet.
LEMMA InitAgrees == Init => IInv
<1> SUFFICES ASSUME Init PROVE IInv
  OBVIOUS
<1>1. old \in [Sessions -> BOOLEAN] /\ rejected \in BOOLEAN
  BY Zenon DEF Init
<1>2. TypeOK
  BY <1>1, ModesAssumption DEF Init, TypeOK, Status
<1>3. Agree
  BY DEF Init, Agree, Served
<1> QED
  BY <1>2, <1>3 DEF IInv

\* Every step of a handler, of the stores and of the ticker keeps the agreement.
LEMMA StepAgrees == IInv /\ [Next]_vars => IInv'
<1> SUFFICES ASSUME IInv, [Next]_vars PROVE IInv'
  OBVIOUS
<1> USE ModesAssumption DEF IInv, TypeOK, Agree, Status, Served
<1>1. ASSUME NEW s \in Sessions, Insert(s) \/ InsertFails(s) PROVE IInv'
  BY <1>1 DEF Insert, InsertFails, Go, WriteRow, Fault
<1>2. ASSUME NEW s \in Sessions, Put(s) \/ PutFails(s) PROVE IInv'
  BY <1>2 DEF Put, PutFails, Go, WriteCache, Fault
<1>3. ASSUME NEW s \in Sessions, StartSTT(s) \/ StartSTTFails(s) \/ HangUp(s) PROVE IInv'
  BY <1>3 DEF StartSTT, StartSTTFails, HangUp, Go, Fault
<1>4. ASSUME NEW s \in Sessions, CloseRow(s) \/ CloseRowFails(s) PROVE IInv'
  BY <1>4 DEF CloseRow, CloseRowFails, Go, WriteRow, Fault
<1>5. ASSUME NEW s \in Sessions, ReadBack(s) \/ ReadBackFails(s) PROVE IInv'
  BY <1>5 DEF ReadBack, ReadBackFails, Go, Fault
<1>6. ASSUME NEW s \in Sessions, Recache(s) \/ RecacheFails(s) PROVE IInv'
  BY <1>6 DEF Recache, RecacheFails, Go, WriteCache, Fault
<1>7. ASSUME NEW s \in Sessions, Record(s) PROVE IInv'
  <2>1. ~rejected'
    BY <1>7, Zenon DEF Record
  <2> QED
    BY <1>7, <2>1 DEF Record
<1>8. ASSUME NEW s \in Sessions, Ages(s) PROVE IInv'
  <2>1. old' \in [Sessions -> BOOLEAN]
    BY <1>8, Zenon DEF Ages
  <2> QED
    BY <1>8, <2>1 DEF Ages
<1>9. ASSUME NEW s \in Sessions, CacheExpires(s) PROVE IInv'
  BY <1>9 DEF CacheExpires, Fault
<1>10. ASSUME Stop PROVE IInv'
  BY <1>10 DEF Stop, Fault
<1>11. ASSUME Prune PROVE IInv'
  BY <1>11 DEF Prune, Stale
<1>12. ASSUME UNCHANGED vars PROVE IInv'
  BY <1>12 DEF vars
<1> QED
  BY <1>1, <1>2, <1>3, <1>4, <1>5, <1>6, <1>7, <1>8, <1>9, <1>10, <1>11, <1>12
     DEF Next, HandlerStep

LEMMA AlwaysAgrees == Spec => []IInv
BY InitAgrees, StepAgrees, PTL DEF Spec

\* Every variable has its type (the states of the handlers and of the stores).
THEOREM StoreTypeCorrect == Spec => []TypeOK
<1>1. IInv => TypeOK
  BY DEF IInv
<1> QED
  BY <1>1, AlwaysAgrees, PTL

\* The copy in Redis is never closed before the row, however the calls of
\* CloseSession fail and whatever the TTL and the ticker do (repository.go:106-133).
THEOREM CacheFollowsRow == Spec => []CacheNeverAhead
<1>1. IInv => CacheNeverAhead
  BY DEF IInv, Agree, CacheNeverAhead
<1> QED
  BY <1>1, AlwaysAgrees, PTL

\* A session that is being opened or served stays open in its row until the row is 24 h
\* old, whatever the ticker does and whatever fails (repository.go:174-178).
THEOREM TickerSparesTheLive == Spec => []LiveIsOpen
<1>1. IInv => LiveIsOpen
  BY DEF IInv, Agree, LiveIsOpen
<1> QED
  BY <1>1, AlwaysAgrees, PTL

\* After a session without a failure neither store says that it is active: no order of
\* CloseSession, the ticker and the TTL brings that back (repository.go:118-130).
THEOREM CleanCloseSeen == Spec => []CleanCloseIsSeen
<1>1. IInv => CleanCloseIsSeen
  BY DEF IInv, Agree, CleanCloseIsSeen
<1> QED
  BY <1>1, AlwaysAgrees, PTL

\* The foreign key never refuses a record of a session (handler.go:97-104).
THEOREM RecordsAccepted == Spec => []RecordsHaveASession
<1>1. IInv => RecordsHaveASession
  BY DEF IInv, Agree, RecordsHaveASession
<1> QED
  BY <1>1, AlwaysAgrees, PTL
=============================================================================
