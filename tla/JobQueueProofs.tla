--------------------------- MODULE JobQueueProofs ---------------------------
(* Proofs about JobQueue for every set of jobs, kinds, workers and clients,
   every channel capacity and history limit.                               *)
EXTENDS JobQueue, SequenceTheorems, FiniteSetTheorems, WellFoundedInduction, TLAPS

USE DEF Terminal, Statuses, FileStatuses, Up, ClientPc, WorkerPc, ProcPc, isTerminal

(* What persistLocked writes is well formed.                               *)
LEMMA PersistTypes ==
    ASSUME NEW js \in SUBSET Ids, NEW ord, NEW st \in [Ids -> Statuses],
           NEW sc \in [Ids -> BOOLEAN]
    PROVE  LET d == Snapshot(js, ord, st, sc)
           IN  /\ DOMAIN d.rec = js
               /\ d.rec \in [js -> [status : Statuses, scoped : BOOLEAN]]
BY DEF Snapshot

(* A push, blocking or not, keeps the channel well formed.                 *)
LEMMA PushTypes ==
    ASSUME ChanTypes, NEW id \in Ids, pushPending(id)
    PROVE  ChanTypes'
  <1>1. CASE Len(pending) < PendingCap
    BY <1>1 DEF ChanTypes, pushPending
  <1>2. CASE ~(Len(pending) < PendingCap)
    <2>1. senders' = [senders EXCEPT ![id] = @ + 1] /\ pending' = pending
      BY <1>2 DEF pushPending
    <2> QED  BY <2>1 DEF ChanTypes
  <1> QED  BY <1>1, <1>2

(* The first k elements of an order of a set of jobs are a sequence of jobs. *)
LEMMA OrdersTypes ==
    ASSUME NEW S \in SUBSET Ids, NEW s \in Orders(S)
    PROVE  /\ s \in Seq(Ids) /\ Len(s) \in Nat
           /\ \A k \in 0..Len(s) : /\ SubSeq(s, 1, k) \in Seq(Ids)
                                   /\ Len(SubSeq(s, 1, k)) = k
                                   /\ \A i \in 1..k : SubSeq(s, 1, k)[i] = s[i]
  <1>1. Cardinality(S) \in Nat
    BY QueueAssumptions, FS_Subset, FS_CardinalityType
  <1>2. s \in [1..Cardinality(S) -> S]
    BY DEF Orders
  <1>3. s \in Seq(Ids) /\ Len(s) = Cardinality(S)
    BY <1>1, <1>2
  <1>4. ASSUME NEW k \in 0..Len(s)
        PROVE  /\ SubSeq(s, 1, k) \in Seq(Ids) /\ Len(SubSeq(s, 1, k)) = k
               /\ \A i \in 1..k : SubSeq(s, 1, k)[i] = s[i]
    <2>1. \A i \in 1..k : s[i] \in Ids
      BY <1>3, <1>1
    <2>2. k \in Int /\ (IF 1 <= k THEN k - 1 + 1 ELSE 0) = k
      BY <1>3, <1>1
    <2>3. /\ SubSeq(s, 1, k) \in Seq(Ids)
          /\ Len(SubSeq(s, 1, k)) = IF 1 <= k THEN k - 1 + 1 ELSE 0
          /\ \A i \in 1..k - 1 + 1 : SubSeq(s, 1, k)[i] = s[1 + i - 1]
      BY <2>1, <2>2, SubSeqProperties
    <2> QED  BY <2>2, <2>3
  <1> QED  BY <1>1, <1>3, <1>4

(* The server's boot keeps the types.                                      *)
LEMMA NewQueueTypes == TypeOK /\ NewQueue => TypeOK'
  <1> SUFFICES ASSUME TypeOK, NewQueue PROVE TypeOK'
    OBVIOUS
  <1> USE DEF TypeOK
  <1>1. jobs' \subseteq Ids
    BY DEF NewQueue, DiskTypes
  <1>2. \A id \in jobs' : Reconciled(id) \in Statuses
    BY <1>1 DEF NewQueue, Reconciled, DiskTypes, ProcTypes
  <1>3. status' \in [Ids -> Statuses]
    BY <1>2 DEF NewQueue
  <1>4. scoped' \in [Ids -> BOOLEAN]
    BY <1>1 DEF NewQueue, DiskTypes
  <1>5. JobTypes'
    BY <1>1, <1>3, <1>4 DEF NewQueue, JobTypes
  <1>6. ChanTypes'
    <2>1. PICK s \in Orders({id \in jobs' : status'[id] = "queued"}) :
            LET fits == IF Len(s) < PendingCap THEN Len(s) ELSE PendingCap
            IN  /\ pending' = SubSeq(s, 1, fits)
                /\ senders' = [id \in Ids |->
                      IF \E i \in fits + 1..Len(s) : s[i] = id THEN 1 ELSE 0]
      BY DEF NewQueue
    <2>2. {id \in jobs' : status'[id] = "queued"} \in SUBSET Ids
      BY <1>1
    <2>3. Len(s) \in Nat /\ \A k \in 0..Len(s) : SubSeq(s, 1, k) \in Seq(Ids)
      BY <2>2, OrdersTypes
    <2> QED  BY <2>1, <2>3, QueueAssumptions DEF ChanTypes
  <1>7. DiskTypes'
    <2>1. disk' = Snapshot(jobs', order', status', scoped')
      BY DEF NewQueue, persistLocked
    <2> QED  BY <1>1, <1>3, <1>4, <2>1, PersistTypes DEF DiskTypes
  <1>8. WorkerTypes' /\ RestTypes'
    BY DEF NewQueue, WorkerTypes, RestTypes, restVars
  <1>9. ClientTypes' /\ ReaperTypes' /\ ProcTypes'
    BY DEF NewQueue, ClientTypes, ReaperTypes, ProcTypes, clientVars, reaperVars, procVars
  <1> QED  BY <1>5, <1>6, <1>7, <1>8, <1>9

(* After a critical section that persists, state.json is well formed.      *)
LEMMA PersistStep ==
    ASSUME JobTypes', persistLocked
    PROVE  DiskTypes'
  <1>1. disk' = Snapshot(jobs', order', status', scoped')
    BY DEF persistLocked
  <1> QED  BY <1>1, PersistTypes DEF JobTypes, DiskTypes

(* A crash leaves the memory of a process that has not started yet.        *)
LEMMA CrashTypes == TypeOK /\ Crash => TypeOK'
  <1> SUFFICES ASSUME TypeOK, Crash PROVE TypeOK'
    OBVIOUS
  <1>1. JobTypes' /\ ChanTypes' /\ WorkerTypes' /\ ClientTypes' /\ ReaperTypes'
    BY DEF Crash, JobTypes, ChanTypes, WorkerTypes, ClientTypes, ReaperTypes
  <1>2. DiskTypes' /\ ProcTypes' /\ RestTypes'
    BY DEF TypeOK, Crash, DiskTypes, ProcTypes, RestTypes, procVars, restVars
  <1> QED  BY <1>1, <1>2 DEF TypeOK

(* Every step of the server, of a detached process or of time keeps the
   types; one step of the proof per action.                                *)
LEMMA TypeStep == TypeOK /\ [Next]_vars => TypeOK'
  <1> SUFFICES ASSUME TypeOK, [Next]_vars PROVE TypeOK'
    OBVIOUS
  <1> USE DEF TypeOK
  <1>1. ASSUME NEW k \in Kinds, Register(k) PROVE TypeOK'
    <2>1. RestTypes'
      BY <1>1 DEF Register, RestTypes, restVars, bootVars
    <2>2. /\ JobTypes' /\ ChanTypes' /\ WorkerTypes' /\ ClientTypes'
          /\ ReaperTypes' /\ DiskTypes' /\ ProcTypes'
      BY <1>1 DEF Register, JobTypes, ChanTypes, WorkerTypes, ClientTypes,
           ReaperTypes, DiskTypes, ProcTypes, jobVars, chanVars, workerVars,
           clientVars, reaperVars, procVars
    <2> QED  BY <2>1, <2>2
  <1>2. ASSUME SetDetach PROVE TypeOK'
    <2>1. RestTypes'
      BY <1>2 DEF SetDetach, RestTypes, restVars, bootVars
    <2>2. /\ JobTypes' /\ ChanTypes' /\ WorkerTypes' /\ ClientTypes'
          /\ ReaperTypes' /\ DiskTypes' /\ ProcTypes'
      BY <1>2 DEF SetDetach, JobTypes, ChanTypes, WorkerTypes, ClientTypes,
           ReaperTypes, DiskTypes, ProcTypes, jobVars, chanVars, workerVars,
           clientVars, reaperVars, procVars
    <2> QED  BY <2>1, <2>2
  <1>3. ASSUME SetNotifier PROVE TypeOK'
    <2>1. RestTypes'
      BY <1>3 DEF SetNotifier, RestTypes, restVars, bootVars
    <2>2. /\ JobTypes' /\ ChanTypes' /\ WorkerTypes' /\ ClientTypes'
          /\ ReaperTypes' /\ DiskTypes' /\ ProcTypes'
      BY <1>3 DEF SetNotifier, JobTypes, ChanTypes, WorkerTypes, ClientTypes,
           ReaperTypes, DiskTypes, ProcTypes, jobVars, chanVars, workerVars,
           clientVars, reaperVars, procVars
    <2> QED  BY <2>1, <2>2
  <1>4. ASSUME NEW c \in Clients, NEW id \in Ids, Enqueue(c, id)
         PROVE  TypeOK'
    <2>1. JobTypes'
      BY <1>4 DEF Enqueue, JobTypes, ClientTypes
    <2>2. DiskTypes'
      BY <1>4, <2>1, PersistStep DEF Enqueue
    <2>3. ClientTypes'
      BY <1>4 DEF Enqueue, ClientTypes
    <2>4. ProcTypes'
      BY <1>4 DEF Enqueue, ProcTypes
    <2>5. RestTypes'
      BY <1>4 DEF Enqueue, RestTypes, restVars, bootVars
    <2>6. ChanTypes' /\ WorkerTypes' /\ ReaperTypes'
      BY <1>4 DEF Enqueue, ChanTypes, WorkerTypes, ReaperTypes, chanVars,
           workerVars, reaperVars
    <2> QED  BY <2>1, <2>2, <2>3, <2>4, <2>5, <2>6
  <1>5. ASSUME NEW c \in Clients, DispatchInProcess(c) PROVE TypeOK'
    <2>1. ChanTypes'
      BY <1>5, PushTypes DEF DispatchInProcess, ClientTypes
    <2>2. ClientTypes'
      BY <1>5 DEF DispatchInProcess, ClientTypes
    <2>3. /\ JobTypes' /\ WorkerTypes' /\ ReaperTypes' /\ DiskTypes'
          /\ ProcTypes' /\ RestTypes'
      BY <1>5 DEF DispatchInProcess, JobTypes, WorkerTypes, ReaperTypes, DiskTypes,
           ProcTypes, RestTypes, jobVars, workerVars, reaperVars, procVars,
           bootVars, restVars
    <2> QED  BY <2>1, <2>2, <2>3
  <1>6. ASSUME NEW c \in Clients, DispatchRemoveFile(c) PROVE TypeOK'
    <2>1. ClientTypes'
      BY <1>6 DEF DispatchRemoveFile, ClientTypes
    <2>2. ProcTypes'
      BY <1>6 DEF DispatchRemoveFile, ProcTypes, ClientTypes
    <2>3. /\ JobTypes' /\ ChanTypes' /\ WorkerTypes' /\ ReaperTypes'
          /\ DiskTypes' /\ RestTypes'
      BY <1>6 DEF DispatchRemoveFile, JobTypes, ChanTypes, WorkerTypes, ReaperTypes,
           DiskTypes, RestTypes, jobVars, chanVars, workerVars, reaperVars,
           bootVars, restVars
    <2> QED  BY <2>1, <2>2, <2>3
  <1>7. ASSUME NEW c \in Clients, DispatchLaunch(c) PROVE TypeOK'
    <2>1. ClientTypes'
      BY <1>7 DEF DispatchLaunch, ClientTypes
    <2>2. ProcTypes'
      BY <1>7 DEF DispatchLaunch, ProcTypes, ClientTypes
    <2>3. /\ JobTypes' /\ ChanTypes' /\ WorkerTypes' /\ ReaperTypes'
          /\ DiskTypes' /\ RestTypes'
      BY <1>7 DEF DispatchLaunch, JobTypes, ChanTypes, WorkerTypes, ReaperTypes,
           DiskTypes, RestTypes, jobVars, chanVars, workerVars, reaperVars,
           bootVars, restVars
    <2> QED  BY <2>1, <2>2, <2>3
  <1>8. ASSUME NEW c \in Clients, DispatchLaunchFails(c) PROVE TypeOK'
    <2>1. ClientTypes'
      BY <1>8 DEF DispatchLaunchFails, ClientTypes
    <2>2. /\ JobTypes' /\ ChanTypes' /\ WorkerTypes' /\ ReaperTypes'
          /\ DiskTypes' /\ ProcTypes' /\ RestTypes'
      BY <1>8 DEF DispatchLaunchFails, JobTypes, ChanTypes, WorkerTypes,
           ReaperTypes, DiskTypes, ProcTypes, RestTypes, jobVars, chanVars,
           workerVars, reaperVars, procVars, bootVars, restVars
    <2> QED  BY <2>1, <2>2
  <1>9. ASSUME NEW c \in Clients, DispatchCommit(c) PROVE TypeOK'
    <2>1. JobTypes'
      BY <1>9 DEF DispatchCommit, JobTypes, ClientTypes
    <2>2. DiskTypes'
      BY <1>9, <2>1, PersistStep DEF DispatchCommit
    <2>3. ClientTypes'
      BY <1>9 DEF DispatchCommit, ClientTypes
    <2>4. RestTypes'
      BY <1>9 DEF DispatchCommit, RestTypes, ClientTypes, restVars, bootVars
    <2>5. ChanTypes' /\ WorkerTypes' /\ ReaperTypes' /\ ProcTypes'
      BY <1>9 DEF DispatchCommit, ChanTypes, WorkerTypes, ReaperTypes, ProcTypes,
           chanVars, workerVars, reaperVars, procVars
    <2> QED  BY <2>1, <2>2, <2>3, <2>4, <2>5
  <1>10. ASSUME NEW c \in Clients, DispatchFallback(c) PROVE TypeOK'
    <2>1. JobTypes'
      BY <1>10 DEF DispatchFallback, JobTypes, ClientTypes
    <2>2. DiskTypes'
      BY <1>10, <2>1, PersistStep DEF DispatchFallback
    <2>3. ChanTypes'
      BY <1>10, PushTypes DEF DispatchFallback, ClientTypes
    <2>4. ClientTypes'
      BY <1>10 DEF DispatchFallback, ClientTypes
    <2>5. WorkerTypes' /\ ReaperTypes' /\ ProcTypes' /\ RestTypes'
      BY <1>10 DEF DispatchFallback, WorkerTypes, ReaperTypes, ProcTypes, RestTypes,
           workerVars, reaperVars, procVars, bootVars, restVars
    <2> QED  BY <2>1, <2>2, <2>3, <2>4, <2>5
  <1>11. ASSUME NEW id \in Ids, SenderProceeds(id) PROVE TypeOK'
    <2>1. ChanTypes'
      BY <1>11 DEF SenderProceeds, ChanTypes
    <2>2. /\ JobTypes' /\ WorkerTypes' /\ ClientTypes' /\ ReaperTypes'
          /\ DiskTypes' /\ ProcTypes' /\ RestTypes'
      BY <1>11 DEF SenderProceeds, JobTypes, WorkerTypes, ClientTypes, ReaperTypes,
           DiskTypes, ProcTypes, RestTypes, jobVars, workerVars, clientVars,
           reaperVars, procVars, bootVars, restVars
    <2> QED  BY <2>1, <2>2
  <1>12. ASSUME NEW c \in Clients, NEW id \in Ids, Cancel(c, id)
         PROVE  TypeOK'
    <2>1. JobTypes'
      BY <1>12 DEF Cancel, notifyTerminalLocked, NotifierSet, JobTypes, ClientTypes,
           WorkerTypes
    <2>2. DiskTypes'
      BY <1>12, <2>1, PersistStep DEF Cancel, DiskTypes
    <2>3. ClientTypes'
      BY <1>12 DEF Cancel, ClientTypes
    <2>4. WorkerTypes'
      BY <1>12 DEF Cancel, WorkerTypes
    <2>5. ChanTypes' /\ ReaperTypes' /\ ProcTypes' /\ RestTypes'
      BY <1>12 DEF Cancel, ChanTypes, ReaperTypes, ProcTypes, RestTypes, chanVars,
           reaperVars, procVars, bootVars, restVars
    <2> QED  BY <2>1, <2>2, <2>3, <2>4, <2>5
  <1>13. ASSUME NEW c \in Clients, ScopeStop(c) PROVE TypeOK'
    <2>1. ClientTypes'
      BY <1>13 DEF ScopeStop, ClientTypes
    <2>2. ProcTypes'
      BY <1>13 DEF ScopeStop, ProcTypes, ClientTypes
    <2>3. /\ JobTypes' /\ ChanTypes' /\ WorkerTypes' /\ ReaperTypes'
          /\ DiskTypes' /\ RestTypes'
      BY <1>13 DEF ScopeStop, JobTypes, ChanTypes, WorkerTypes, ReaperTypes,
           DiskTypes, RestTypes, jobVars, chanVars, workerVars, reaperVars,
           bootVars, restVars
    <2> QED  BY <2>1, <2>2, <2>3
  <1>14. ASSUME NEW c \in Clients, NEW id \in Ids, Delete(c, id)
         PROVE  TypeOK'
    <2>1. JobTypes'
      BY <1>14 DEF Delete, JobTypes
    <2>2. DiskTypes'
      BY <1>14, <2>1, PersistStep DEF Delete
    <2>3. ProcTypes'
      BY <1>14 DEF Delete, ProcTypes
    <2>4. /\ ChanTypes' /\ WorkerTypes' /\ ClientTypes' /\ ReaperTypes'
          /\ RestTypes'
      BY <1>14 DEF Delete, ChanTypes, WorkerTypes, ClientTypes, ReaperTypes,
           RestTypes, chanVars, workerVars, clientVars, reaperVars, bootVars,
           restVars
    <2> QED  BY <2>1, <2>2, <2>3, <2>4
  <1>15. ASSUME NEW c \in Clients, NEW id \in Ids, Rerun(c, id)
         PROVE  TypeOK'
    <2>1. JobTypes'
      BY <1>15 DEF Rerun, JobTypes, ClientTypes
    <2>2. DiskTypes'
      BY <1>15, <2>1, PersistStep DEF Rerun
    <2>3. ClientTypes'
      BY <1>15 DEF Rerun, ClientTypes
    <2>4. RestTypes'
      BY <1>15 DEF Rerun, RestTypes, ClientTypes, restVars, bootVars
    <2>5. ChanTypes' /\ WorkerTypes' /\ ReaperTypes' /\ ProcTypes'
      BY <1>15 DEF Rerun, ChanTypes, WorkerTypes, ReaperTypes, ProcTypes, chanVars,
           workerVars, reaperVars, procVars
    <2> QED  BY <2>1, <2>2, <2>3, <2>4, <2>5
  <1>16. ASSUME NEW w \in Workers, Receive(w) PROVE TypeOK'
    <2>1. ChanTypes'
      BY <1>16 DEF Receive, ChanTypes
    <2>2. WorkerTypes'
      BY <1>16 DEF Receive, WorkerTypes, ChanTypes
    <2>3. /\ JobTypes' /\ ClientTypes' /\ ReaperTypes' /\ DiskTypes'
          /\ ProcTypes' /\ RestTypes'
      BY <1>16 DEF Receive, JobTypes, ClientTypes, ReaperTypes, DiskTypes, ProcTypes,
           RestTypes, jobVars, clientVars, reaperVars, procVars, bootVars,
           restVars
    <2> QED  BY <2>1, <2>2, <2>3
  <1>17. ASSUME NEW w \in Workers, WorkerExits(w) PROVE TypeOK'
    <2>1. WorkerTypes'
      BY <1>17 DEF WorkerExits, WorkerTypes
    <2>2. /\ JobTypes' /\ ChanTypes' /\ ClientTypes' /\ ReaperTypes'
          /\ DiskTypes' /\ ProcTypes' /\ RestTypes'
      BY <1>17 DEF WorkerExits, JobTypes, ChanTypes, ClientTypes, ReaperTypes,
           DiskTypes, ProcTypes, RestTypes, jobVars, chanVars, clientVars,
           reaperVars, procVars, bootVars, restVars
    <2> QED  BY <2>1, <2>2
  <1>18. ASSUME NEW w \in Workers, RunSkipped(w) PROVE TypeOK'
    <2>1. WorkerTypes'
      BY <1>18 DEF RunSkipped, WorkerTypes
    <2>2. /\ JobTypes' /\ ChanTypes' /\ ClientTypes' /\ ReaperTypes'
          /\ DiskTypes' /\ ProcTypes' /\ RestTypes'
      BY <1>18 DEF RunSkipped, JobTypes, ChanTypes, ClientTypes, ReaperTypes,
           DiskTypes, ProcTypes, RestTypes, jobVars, chanVars, clientVars,
           reaperVars, procVars, bootVars, restVars
    <2> QED  BY <2>1, <2>2
  <1>19. ASSUME NEW w \in Workers, RunUnknownKind(w) PROVE TypeOK'
    <2>1. JobTypes'
      BY <1>19 DEF RunUnknownKind, notifyTerminalLocked, NotifierSet, JobTypes,
           WorkerTypes
    <2>2. DiskTypes'
      BY <1>19, <2>1, PersistStep DEF RunUnknownKind
    <2>3. WorkerTypes'
      BY <1>19 DEF RunUnknownKind, WorkerTypes
    <2>4. /\ ChanTypes' /\ ClientTypes' /\ ReaperTypes' /\ ProcTypes'
          /\ RestTypes'
      BY <1>19 DEF RunUnknownKind, ChanTypes, ClientTypes, ReaperTypes, ProcTypes,
           RestTypes, chanVars, clientVars, reaperVars, procVars, bootVars,
           restVars
    <2> QED  BY <2>1, <2>2, <2>3, <2>4
  <1>20. ASSUME NEW w \in Workers, RunClaim(w) PROVE TypeOK'
    <2>1. JobTypes'
      BY <1>20 DEF RunClaim, JobTypes, WorkerTypes
    <2>2. DiskTypes'
      BY <1>20, <2>1, PersistStep DEF RunClaim
    <2>3. WorkerTypes'
      BY <1>20 DEF RunClaim, WorkerTypes
    <2>4. RestTypes'
      BY <1>20 DEF RunClaim, RestTypes, WorkerTypes, restVars, bootVars
    <2>5. ChanTypes' /\ ClientTypes' /\ ReaperTypes' /\ ProcTypes'
      BY <1>20 DEF RunClaim, ChanTypes, ClientTypes, ReaperTypes, ProcTypes,
           chanVars, clientVars, reaperVars, procVars
    <2> QED  BY <2>1, <2>2, <2>3, <2>4, <2>5
  <1>21. ASSUME NEW w \in Workers, RunLogFails(w) PROVE TypeOK'
    <2>1. JobTypes'
      BY <1>21 DEF RunLogFails, notifyTerminalLocked, NotifierSet, JobTypes,
           WorkerTypes
    <2>2. DiskTypes'
      BY <1>21, <2>1, PersistStep DEF RunLogFails, DiskTypes
    <2>3. WorkerTypes'
      BY <1>21 DEF RunLogFails, WorkerTypes
    <2>4. /\ ChanTypes' /\ ClientTypes' /\ ReaperTypes' /\ ProcTypes'
          /\ RestTypes'
      BY <1>21 DEF RunLogFails, ChanTypes, ClientTypes, ReaperTypes, ProcTypes,
           RestTypes, chanVars, clientVars, reaperVars, procVars, bootVars,
           restVars
    <2> QED  BY <2>1, <2>2, <2>3, <2>4
  <1>22. ASSUME NEW w \in Workers, RunBegin(w) PROVE TypeOK'
    <2>1. WorkerTypes'
      BY <1>22 DEF RunBegin, WorkerTypes
    <2>2. RestTypes'
      BY <1>22 DEF RunBegin, RestTypes, WorkerTypes, restVars, bootVars
    <2>3. /\ JobTypes' /\ ChanTypes' /\ ClientTypes' /\ ReaperTypes'
          /\ DiskTypes' /\ ProcTypes'
      BY <1>22 DEF RunBegin, JobTypes, ChanTypes, ClientTypes, ReaperTypes,
           DiskTypes, ProcTypes, jobVars, chanVars, clientVars, reaperVars,
           procVars
    <2> QED  BY <2>1, <2>2, <2>3
  <1>23. ASSUME NEW w \in Workers, NEW outcome \in {"done", "failed"}, RunEnd(w, outcome)
         PROVE  TypeOK'
    <2>1. JobTypes'
      BY <1>23 DEF RunEnd, notifyTerminalLocked, NotifierSet, JobTypes, WorkerTypes
    <2>2. DiskTypes'
      BY <1>23, <2>1, PersistStep DEF RunEnd
    <2>3. WorkerTypes'
      BY <1>23 DEF RunEnd, WorkerTypes
    <2>4. /\ ChanTypes' /\ ClientTypes' /\ ReaperTypes' /\ ProcTypes'
          /\ RestTypes'
      BY <1>23 DEF RunEnd, ChanTypes, ClientTypes, ReaperTypes, ProcTypes, RestTypes,
           chanVars, clientVars, reaperVars, procVars, bootVars, restVars
    <2> QED  BY <2>1, <2>2, <2>3, <2>4
  <1>24. ASSUME ReapSnapshot PROVE TypeOK'
    <2>1. ReaperTypes'
      BY <1>24 DEF ReapSnapshot, ReaperTypes, JobTypes, ProcTypes
    <2>2. /\ JobTypes' /\ ChanTypes' /\ WorkerTypes' /\ ClientTypes'
          /\ DiskTypes' /\ ProcTypes' /\ RestTypes'
      BY <1>24 DEF ReapSnapshot, JobTypes, ChanTypes, WorkerTypes, ClientTypes,
           DiskTypes, ProcTypes, RestTypes, jobVars, chanVars, workerVars,
           clientVars, procVars, bootVars, restVars
    <2> QED  BY <2>1, <2>2
  <1>25. ASSUME NEW id \in Ids, ReapRead(id) PROVE TypeOK'
    <2>1. ReaperTypes'
      BY <1>25 DEF ReapRead, ReaperTypes, JobTypes, ProcTypes
    <2>2. /\ JobTypes' /\ ChanTypes' /\ WorkerTypes' /\ ClientTypes'
          /\ DiskTypes' /\ ProcTypes' /\ RestTypes'
      BY <1>25 DEF ReapRead, JobTypes, ChanTypes, WorkerTypes, ClientTypes,
           DiskTypes, ProcTypes, RestTypes, jobVars, chanVars, workerVars,
           clientVars, procVars, bootVars, restVars
    <2> QED  BY <2>1, <2>2
  <1>26. ASSUME ReapProbe PROVE TypeOK'
    <2>1. ReaperTypes'
      BY <1>26 DEF ReapProbe, ReaperTypes, JobTypes, ProcTypes, Credible
    <2>2. /\ JobTypes' /\ ChanTypes' /\ WorkerTypes' /\ ClientTypes'
          /\ DiskTypes' /\ ProcTypes' /\ RestTypes'
      BY <1>26 DEF ReapProbe, JobTypes, ChanTypes, WorkerTypes, ClientTypes,
           DiskTypes, ProcTypes, RestTypes, jobVars, chanVars, workerVars,
           clientVars, procVars, bootVars, restVars
    <2> QED  BY <2>1, <2>2
  <1>27. ASSUME ReapApply PROVE TypeOK'
    <2>1. JobTypes'
      BY <1>27 DEF ReapApply, notifyTerminalLocked, NotifierSet, Verdict, Vanished,
           JobTypes, ReaperTypes
    <2>2. DiskTypes'
      BY <1>27, <2>1, PersistStep DEF ReapApply, DiskTypes
    <2>3. ReaperTypes'
      BY <1>27 DEF ReapApply, ReaperTypes, JobTypes, ProcTypes
    <2>4. /\ ChanTypes' /\ WorkerTypes' /\ ClientTypes' /\ ProcTypes'
          /\ RestTypes'
      BY <1>27 DEF ReapApply, ChanTypes, WorkerTypes, ClientTypes, ProcTypes,
           RestTypes, chanVars, workerVars, clientVars, procVars, bootVars,
           restVars
    <2> QED  BY <2>1, <2>2, <2>3, <2>4
  <1>28. ASSUME NEW id \in Ids, GraceExpires(id) PROVE TypeOK'
    <2>1. RestTypes'
      BY <1>28 DEF GraceExpires, RestTypes, restVars, bootVars
    <2>2. /\ JobTypes' /\ ChanTypes' /\ WorkerTypes' /\ ClientTypes'
          /\ ReaperTypes' /\ DiskTypes' /\ ProcTypes'
      BY <1>28 DEF GraceExpires, JobTypes, ChanTypes, WorkerTypes, ClientTypes,
           ReaperTypes, DiskTypes, ProcTypes, jobVars, chanVars, workerVars,
           clientVars, reaperVars, procVars
    <2> QED  BY <2>1, <2>2
  <1>29. ASSUME NEW id \in Ids, ScopeUp(id) PROVE TypeOK'
    <2>1. ProcTypes'
      BY <1>29 DEF ScopeUp, ProcTypes
    <2>2. /\ JobTypes' /\ ChanTypes' /\ WorkerTypes' /\ ClientTypes'
          /\ ReaperTypes' /\ DiskTypes' /\ RestTypes'
      BY <1>29 DEF ScopeUp, JobTypes, ChanTypes, WorkerTypes, ClientTypes,
           ReaperTypes, DiskTypes, RestTypes, jobVars, chanVars, workerVars,
           clientVars, reaperVars, bootVars, restVars
    <2> QED  BY <2>1, <2>2
  <1>30. ASSUME NEW id \in Ids, ProcBegin(id) PROVE TypeOK'
    <2>1. ProcTypes'
      BY <1>30 DEF ProcBegin, ProcTypes
    <2>2. RestTypes'
      BY <1>30 DEF ProcBegin, RestTypes, restVars, bootVars
    <2>3. /\ JobTypes' /\ ChanTypes' /\ WorkerTypes' /\ ClientTypes'
          /\ ReaperTypes' /\ DiskTypes'
      BY <1>30 DEF ProcBegin, JobTypes, ChanTypes, WorkerTypes, ClientTypes,
           ReaperTypes, DiskTypes, jobVars, chanVars, workerVars, clientVars,
           reaperVars
    <2> QED  BY <2>1, <2>2, <2>3
  <1>31. ASSUME NEW id \in Ids, ProcNoRunner(id) PROVE TypeOK'
    <2>1. ProcTypes'
      BY <1>31 DEF ProcNoRunner, ProcTypes
    <2>2. /\ JobTypes' /\ ChanTypes' /\ WorkerTypes' /\ ClientTypes'
          /\ ReaperTypes' /\ DiskTypes' /\ RestTypes'
      BY <1>31 DEF ProcNoRunner, JobTypes, ChanTypes, WorkerTypes, ClientTypes,
           ReaperTypes, DiskTypes, RestTypes, jobVars, chanVars, workerVars,
           clientVars, reaperVars, bootVars, restVars
    <2> QED  BY <2>1, <2>2
  <1>32. ASSUME NEW id \in Ids, NEW outcome \in {"done", "failed"}, ProcFinish(id, outcome)
         PROVE  TypeOK'
    <2>1. ProcTypes'
      BY <1>32 DEF ProcFinish, ProcTypes
    <2>2. /\ JobTypes' /\ ChanTypes' /\ WorkerTypes' /\ ClientTypes'
          /\ ReaperTypes' /\ DiskTypes' /\ RestTypes'
      BY <1>32 DEF ProcFinish, JobTypes, ChanTypes, WorkerTypes, ClientTypes,
           ReaperTypes, DiskTypes, RestTypes, jobVars, chanVars, workerVars,
           clientVars, reaperVars, bootVars, restVars
    <2> QED  BY <2>1, <2>2
  <1>33. ASSUME NEW id \in Ids, ProcExit(id) PROVE TypeOK'
    <2>1. ProcTypes'
      BY <1>33 DEF ProcExit, ProcTypes
    <2>2. /\ JobTypes' /\ ChanTypes' /\ WorkerTypes' /\ ClientTypes'
          /\ ReaperTypes' /\ DiskTypes' /\ RestTypes'
      BY <1>33 DEF ProcExit, JobTypes, ChanTypes, WorkerTypes, ClientTypes,
           ReaperTypes, DiskTypes, RestTypes, jobVars, chanVars, workerVars,
           clientVars, reaperVars, bootVars, restVars
    <2> QED  BY <2>1, <2>2
  <1>34. ASSUME ShutdownBegin PROVE TypeOK'
    <2>1. WorkerTypes'
      BY <1>34 DEF ShutdownBegin, WorkerTypes
    <2>2. RestTypes'
      BY <1>34 DEF ShutdownBegin, RestTypes, WorkerTypes, restVars, bootVars
    <2>3. /\ JobTypes' /\ ChanTypes' /\ ClientTypes' /\ ReaperTypes'
          /\ DiskTypes' /\ ProcTypes'
      BY <1>34 DEF ShutdownBegin, JobTypes, ChanTypes, ClientTypes, ReaperTypes,
           DiskTypes, ProcTypes, jobVars, chanVars, clientVars, reaperVars,
           procVars
    <2> QED  BY <2>1, <2>2, <2>3
  <1>35. ASSUME ShutdownDone PROVE TypeOK'
    <2>1. JobTypes'
      BY <1>35 DEF ShutdownDone, JobTypes, jobVars
    <2>2. DiskTypes'
      BY <1>35, <2>1, PersistStep DEF ShutdownDone
    <2>3. RestTypes'
      BY <1>35 DEF ShutdownDone, RestTypes, restVars, bootVars
    <2>4. /\ ChanTypes' /\ WorkerTypes' /\ ClientTypes' /\ ReaperTypes'
          /\ ProcTypes'
      BY <1>35 DEF ShutdownDone, ChanTypes, WorkerTypes, ClientTypes, ReaperTypes,
           ProcTypes, chanVars, workerVars, clientVars, reaperVars, procVars
    <2> QED  BY <2>1, <2>2, <2>3, <2>4
  <1>36. ASSUME ShutdownTimeout PROVE TypeOK'
    <2>1. JobTypes'
      BY <1>36 DEF ShutdownTimeout, JobTypes
    <2>2. DiskTypes'
      BY <1>36, <2>1, PersistStep DEF ShutdownTimeout
    <2>3. RestTypes'
      BY <1>36 DEF ShutdownTimeout, RestTypes, restVars, bootVars
    <2>4. /\ ChanTypes' /\ WorkerTypes' /\ ClientTypes' /\ ReaperTypes'
          /\ ProcTypes'
      BY <1>36 DEF ShutdownTimeout, ChanTypes, WorkerTypes, ClientTypes, ReaperTypes,
           ProcTypes, chanVars, workerVars, clientVars, reaperVars, procVars
    <2> QED  BY <2>1, <2>2, <2>3, <2>4
  <1>37. CASE UNCHANGED vars
    BY <1>37 DEF vars, JobTypes, jobVars, ChanTypes, chanVars, WorkerTypes, workerVars,
           ClientTypes, clientVars, ReaperTypes, reaperVars, DiskTypes,
           ProcTypes, procVars, RestTypes, bootVars, restVars
  <1> QED
    BY NewQueueTypes, CrashTypes,
       <1>1, <1>2, <1>3, <1>4, <1>5, <1>6, <1>7, <1>8, <1>9, <1>10, <1>11,
       <1>12, <1>13, <1>14, <1>15, <1>16, <1>17, <1>18, <1>19, <1>20, <1>21,
       <1>22, <1>23, <1>24, <1>25, <1>26, <1>27, <1>28, <1>29, <1>30, <1>31,
       <1>32, <1>33, <1>34, <1>35, <1>36, <1>37
    DEF Next, BootStep, DispatchStep, Request, WorkerStep, ReaperStep, ProcStep,
        ShutdownStep

(* Types hold in every reachable state: in particular every worker past its
   receive, every client in a call and the reaper past its read hold a job. *)
THEOREM TypeCorrect == Spec => []TypeOK
  <1>1. Init => TypeOK
    BY DEF Init, TypeOK, Snapshot, JobTypes, ChanTypes, WorkerTypes, ClientTypes,
           ReaperTypes, DiskTypes, ProcTypes, RestTypes
  <1> QED  BY <1>1, TypeStep, PTL DEF Spec

-----------------------------------------------------------------------------
(* What a step leaves of state.json: the snapshot of the new state, or, when
   it touches no persisted field, the old one.                             *)
Persists ==
    \/ phase' = "down"
    \/ persistLocked
    \/ /\ UNCHANGED <<disk, jobs, order, status, scoped>>
       /\ phase' \in Up => phase \in Up

(* No critical section forgets to persist.                                 *)
LEMMA NextPersists == TypeOK /\ [Next]_vars => Persists
  <1> SUFFICES ASSUME TypeOK, [Next]_vars PROVE Persists
    OBVIOUS
  <1> USE DEF Persists, jobVars, bootVars
  <1>1. BootStep \/ Crash \/ ShutdownStep => Persists
    BY DEF BootStep, NewQueue, Register, SetDetach, SetNotifier, Crash,
           ShutdownStep, ShutdownBegin, ShutdownDone, ShutdownTimeout
  <1>2. ReaperStep => Persists
    <2>1. ASSUME ReapApply PROVE Persists
      <3>1. status[rid] = Verdict => status' = status
        BY <2>1 DEF ReapApply, TypeOK, JobTypes
      <3> QED  BY <2>1, <3>1 DEF ReapApply
    <2> QED  BY <2>1 DEF ReaperStep, ReapSnapshot, ReapRead, ReapProbe
  <1>3. ASSUME NEW c \in Clients PROVE DispatchStep(c) => Persists
    BY DEF DispatchStep, DispatchInProcess, DispatchRemoveFile, DispatchLaunch,
           DispatchLaunchFails, DispatchCommit, DispatchFallback, ScopeStop
  <1>4. ASSUME NEW c \in Clients, NEW id \in Ids PROVE Request(c, id) => Persists
    BY DEF Request, Enqueue, Cancel, Delete, Rerun
  <1>5. ASSUME NEW w \in Workers PROVE WorkerStep(w) => Persists
    BY DEF WorkerStep, Receive, WorkerExits, RunSkipped, RunUnknownKind, RunClaim,
           RunLogFails, RunBegin, RunEnd
  <1>6. ASSUME NEW id \in Ids
        PROVE  SenderProceeds(id) \/ GraceExpires(id) \/ ProcStep(id) => Persists
    BY DEF SenderProceeds, GraceExpires, ProcStep, ScopeUp, ProcBegin, ProcNoRunner,
           ProcFinish, ProcExit
  <1>7. UNCHANGED vars => Persists
    BY DEF vars
  <1> QED  BY <1>1, <1>2, <1>3, <1>4, <1>5, <1>6, <1>7 DEF Next

(* While the server is up, a crash at any moment finds the jobs, their order,
   statuses and scopes in state.json, for any number of jobs, workers and
   clients.                                                                *)
THEOREM CrashSafe == Spec => []DiskMatchesMemory
  <1>1. Init => DiskMatchesMemory
    BY DEF Init, DiskMatchesMemory
  <1>2. DiskMatchesMemory /\ Persists => DiskMatchesMemory'
    BY DEF DiskMatchesMemory, Persists, persistLocked
  <1>3. TypeOK /\ DiskMatchesMemory /\ [Next]_vars => DiskMatchesMemory'
    BY <1>2, NextPersists
  <1> QED  BY <1>1, <1>3, TypeCorrect, PTL DEF Spec

-----------------------------------------------------------------------------
(* A send adds its id to what is in the channel, a receive takes the head. *)
LEMMA ElemsAppend ==
    ASSUME NEW s \in Seq(Ids), NEW x \in Ids
    PROVE  Elems(Append(s, x)) = Elems(s) \cup {x}
  <1>1. Len(Append(s, x)) = Len(s) + 1 /\ Len(s) \in Nat
    OBVIOUS
  <1>2. /\ \A i \in 1..Len(s) : Append(s, x)[i] = s[i]
        /\ Append(s, x)[Len(s) + 1] = x
    OBVIOUS
  <1> QED  BY <1>1, <1>2 DEF Elems

LEMMA ElemsTail ==
    ASSUME NEW s \in Seq(Ids), s # <<>>
    PROVE  Elems(s) \subseteq Elems(Tail(s)) \cup {Head(s)}
  <1> SUFFICES ASSUME NEW i \in 1..Len(s), s[i] # Head(s)
               PROVE  s[i] \in Elems(Tail(s))
    BY DEF Elems
  <1>1. Len(s) \in Nat /\ Len(Tail(s)) = Len(s) - 1
    OBVIOUS
  <1>2. i - 1 \in 1..Len(Tail(s)) /\ Tail(s)[i - 1] = s[i]
    BY <1>1
  <1> QED  BY <1>2 DEF Elems

(* pushPending leaves its id waiting, and every other id that was.         *)
LEMMA PushWaits ==
    ASSUME ChanTypes, NEW id \in Ids, pushPending(id)
    PROVE  /\ id \in Elems(pending') \/ senders'[id] > 0
           /\ \A x \in Ids : x \in Elems(pending) => x \in Elems(pending')
           /\ \A x \in Ids : senders[x] > 0 => senders'[x] > 0
  <1>1. CASE Len(pending) < PendingCap
    BY <1>1, ElemsAppend DEF ChanTypes, pushPending
  <1>2. CASE ~(Len(pending) < PendingCap)
    <2>1. senders' = [senders EXCEPT ![id] = @ + 1] /\ pending' = pending
      BY <1>2 DEF pushPending
    <2> QED  BY <2>1 DEF ChanTypes
  <1> QED  BY <1>1, <1>2

Dispatching(id, c) == cid[c] = id /\ cpc[c] \in {"dispatch", "launch", "launched", "fallback"}
Received(id, w) == wid[w] = id /\ wpc[w] = "got"
InChannel(id) == id \in Elems(pending) \/ senders[id] > 0

(* Every id keeps its places in the channel, in a dispatch, at a worker.   *)
KeepsChannel == \A x \in Ids : InChannel(x) => InChannel(x)'
KeepsClients == \A x \in Ids, c \in Clients : Dispatching(x, c) => Dispatching(x, c)'
KeepsWorkers == \A x \in Ids, w \in Workers : Received(x, w) => Received(x, w)'
(* No job becomes queued.                                                  *)
NoneQueued ==
    \A x \in jobs' : status'[x] = "queued" => x \in jobs /\ status[x] = "queued"

(* A step that keeps all places and queues nothing loses no job.           *)
LEMMA KeepingLosesNone ==
    ASSUME TypeOK, NoLostJob, phase \in Up, NoneQueued,
           KeepsChannel, KeepsClients, KeepsWorkers
    PROVE  NoLostJob'
  <1>1. jobs \subseteq Ids
    BY DEF TypeOK, JobTypes
  <1>2. ASSUME NEW x \in jobs, Waiting(x) PROVE Waiting(x)'
    BY <1>1, <1>2 DEF Waiting, KeepsChannel, KeepsClients, KeepsWorkers,
                      Dispatching, Received, InChannel
  <1> QED  BY <1>2 DEF NoLostJob, NoneQueued

(* After the boot every job the reconcile left queued is in the channel or
   held by a sender blocked on it, however small the channel.              *)
LEMMA NewQueueLosesNone ==
    ASSUME TypeOK, NewQueue
    PROVE  NoLostJob'
  <1> DEFINE Q == {id \in jobs' : status'[id] = "queued"}
  <1>1. PICK s \in Orders(Q) :
          LET fits == IF Len(s) < PendingCap THEN Len(s) ELSE PendingCap
          IN  /\ pending' = SubSeq(s, 1, fits)
              /\ senders' = [id \in Ids |->
                    IF \E i \in fits + 1..Len(s) : s[i] = id THEN 1 ELSE 0]
    BY DEF NewQueue
  <1> DEFINE fits == IF Len(s) < PendingCap THEN Len(s) ELSE PendingCap
  <1>2. Q \in SUBSET Ids
    BY DEF NewQueue, TypeOK, DiskTypes
  <1>3. Len(s) \in Nat /\ \A k \in 0..Len(s) : /\ Len(SubSeq(s, 1, k)) = k
                                              /\ \A i \in 1..k : SubSeq(s, 1, k)[i] = s[i]
    BY <1>2, OrdersTypes
  <1>4. fits \in 0..Len(s)
    BY <1>3, QueueAssumptions
  <1>5. ASSUME NEW x \in Q PROVE x \in Elems(pending') \/ senders'[x] > 0
    <2>1. PICK i \in 1..Len(s) : s[i] = x
      BY <1>5 DEF Orders, Elems
    <2>2. CASE i <= fits
      <3>1. i \in 1..Len(pending') /\ pending'[i] = x
        BY <1>1, <1>3, <1>4, <2>1, <2>2
      <3> QED  BY <3>1 DEF Elems
    <2>3. CASE ~(i <= fits)
      <3>1. i \in fits + 1..Len(s)
        BY <1>3, <1>4, <2>3
      <3>2. x \in Ids
        BY <1>2
      <3> QED  BY <1>1, <2>1, <3>1, <3>2
    <2> QED  BY <2>2, <2>3
  <1> QED  BY <1>5 DEF NoLostJob, Waiting

(* The calls that queue a job leave it with the client that dispatches it. *)
LEMMA QueueingLosesNone ==
    ASSUME TypeOK, NoLostJob, NEW c \in Clients, NEW id \in Ids,
           Enqueue(c, id) \/ Rerun(c, id)
    PROVE  NoLostJob'
  <1> USE DEF chanVars, workerVars
  <1>1. cpc[c] = "idle" /\ cpc' = [cpc EXCEPT ![c] = "dispatch"]
        /\ cid' = [cid EXCEPT ![c] = id]
    BY DEF Enqueue, Rerun
  <1>2. UNCHANGED <<pending, senders, wpc, wid>> /\ phase \in Up
    BY DEF Enqueue, Rerun
  <1>3. \A x \in jobs' : x # id /\ status'[x] = "queued" => x \in jobs /\ status[x] = "queued"
    BY DEF Enqueue, Rerun, TypeOK, JobTypes
  <1>4. Waiting(id)'
    BY <1>1 DEF Waiting, TypeOK, ClientTypes
  <1>5. ASSUME NEW x \in jobs, Waiting(x) PROVE Waiting(x)'
    BY <1>1, <1>2, <1>5 DEF Waiting, TypeOK, ClientTypes, WorkerTypes
  <1> QED  BY <1>2, <1>3, <1>4, <1>5 DEF NoLostJob

(* A step of a dispatch hands its job on, to the channel or to a scope.    *)
LEMMA DispatchLosesNone ==
    ASSUME TypeOK, NoLostJob, NEW c \in Clients, DispatchStep(c), phase \in Up
    PROVE  NoLostJob'
  <1> USE DEF TypeOK, ClientTypes, jobVars, chanVars, workerVars, bootVars
  <1>1. CASE DispatchInProcess(c) \/ DispatchFallback(c)
    <2>1. /\ cid[c] \in Ids /\ pushPending(cid[c])
          /\ UNCHANGED <<jobs, status, wpc, wid>>
          /\ cpc' = [cpc EXCEPT ![c] = "idle"] /\ cid' = [cid EXCEPT ![c] = None]
      BY <1>1 DEF DispatchInProcess, DispatchFallback
    <2>2. /\ cid[c] \in Elems(pending') \/ senders'[cid[c]] > 0
          /\ \A x \in Ids : x \in Elems(pending) => x \in Elems(pending')
          /\ \A x \in Ids : senders[x] > 0 => senders'[x] > 0
      BY <2>1, PushWaits
    <2>3. ASSUME NEW x \in jobs, Waiting(x) PROVE Waiting(x)'
      BY <2>1, <2>2, <2>3 DEF Waiting, JobTypes, WorkerTypes
    <2> QED  BY <2>1, <2>3 DEF NoLostJob
  <1>2. CASE DispatchRemoveFile(c) \/ DispatchLaunch(c) \/ DispatchLaunchFails(c)
    <2>1. /\ UNCHANGED <<jobs, status, pending, senders, wpc, wid, cid>>
          /\ \E pc \in {"launch", "launched", "fallback"} : cpc' = [cpc EXCEPT ![c] = pc]
      BY <1>2 DEF DispatchRemoveFile, DispatchLaunch, DispatchLaunchFails
    <2>2. ASSUME NEW x \in jobs, Waiting(x) PROVE Waiting(x)'
      BY <2>1, <2>2 DEF Waiting
    <2> QED  BY <2>1, <2>2 DEF NoLostJob
  <1>3. CASE DispatchCommit(c)
    <2>1. /\ UNCHANGED <<jobs, pending, senders, wpc, wid>> /\ cid[c] \in Ids
          /\ status' = [status EXCEPT ![cid[c]] = "running"]
          /\ cpc' = [cpc EXCEPT ![c] = "idle"] /\ cid' = [cid EXCEPT ![c] = None]
      BY <1>3 DEF DispatchCommit
    <2>2. ASSUME NEW x \in jobs, Waiting(x), x # cid[c] PROVE Waiting(x)'
      BY <2>1, <2>2 DEF Waiting
    <2> QED  BY <2>1, <2>2 DEF NoLostJob, JobTypes
  <1>4. CASE ScopeStop(c)
    <2>1. /\ UNCHANGED <<jobs, status, pending, senders, wpc, wid>>
          /\ cpc[c] = "stop" /\ cpc' = [cpc EXCEPT ![c] = "idle"]
          /\ cid' = [cid EXCEPT ![c] = None]
      BY <1>4 DEF ScopeStop
    <2>2. KeepsChannel /\ KeepsClients /\ KeepsWorkers /\ NoneQueued
      BY <2>1 DEF KeepsChannel, KeepsClients, KeepsWorkers, NoneQueued, InChannel,
                  Dispatching, Received
    <2> QED  BY <2>2, KeepingLosesNone
  <1> QED  BY <1>1, <1>2, <1>3, <1>4 DEF DispatchStep

(* A worker takes a job over, or drops it because it is not queued.        *)
LEMMA WorkerLosesNone ==
    ASSUME TypeOK, NoLostJob, NEW w \in Workers, WorkerStep(w), phase \in Up
    PROVE  NoLostJob'
  <1> USE DEF TypeOK, WorkerTypes, jobVars, chanVars, clientVars, bootVars
  <1>1. CASE Receive(w)
    <2>1. /\ UNCHANGED <<jobs, status, senders, cpc, cid>> /\ wpc[w] = "idle"
          /\ pending # <<>> /\ pending' = Tail(pending)
          /\ wpc' = [wpc EXCEPT ![w] = "got"] /\ wid' = [wid EXCEPT ![w] = Head(pending)]
      BY <1>1 DEF Receive
    <2>2. Elems(pending) \subseteq Elems(pending') \cup {Head(pending)}
      BY <2>1, ElemsTail DEF ChanTypes
    <2>3. ASSUME NEW x \in jobs, Waiting(x) PROVE Waiting(x)'
      BY <2>1, <2>2, <2>3 DEF Waiting
    <2> QED  BY <2>1, <2>3 DEF NoLostJob
  <1>2. CASE WorkerExits(w) \/ RunBegin(w)
    <2>1. /\ UNCHANGED <<jobs, status, pending, senders, cpc, cid, wid>> /\ wpc[w] # "got"
          /\ \E pc \in WorkerPc : wpc' = [wpc EXCEPT ![w] = pc]
      BY <1>2 DEF WorkerExits, RunBegin
    <2>2. KeepsChannel /\ KeepsClients /\ KeepsWorkers /\ NoneQueued
      BY <2>1 DEF KeepsChannel, KeepsClients, KeepsWorkers, NoneQueued, InChannel,
                  Dispatching, Received
    <2> QED  BY <2>2, KeepingLosesNone
  <1>3. CASE RunSkipped(w)
    <2>1. /\ UNCHANGED <<jobs, status, pending, senders, cpc, cid>>
          /\ wid[w] \notin jobs \/ status[wid[w]] = "cancelled"
          /\ wpc' = [wpc EXCEPT ![w] = "idle"] /\ wid' = [wid EXCEPT ![w] = None]
      BY <1>3 DEF RunSkipped, Skipped
    <2>2. ASSUME NEW x \in jobs, Waiting(x), x # wid[w] PROVE Waiting(x)'
      BY <2>1, <2>2 DEF Waiting
    <2> QED  BY <2>1, <2>2 DEF NoLostJob
  <1>4. CASE \/ RunUnknownKind(w) \/ RunClaim(w) \/ RunLogFails(w)
             \/ \E outcome \in {"done", "failed"} : RunEnd(w, outcome)
    <2>1. /\ UNCHANGED <<jobs, pending, senders, cpc, cid>> /\ wid[w] \in Ids
          /\ \/ \E st \in Statuses \ {"queued"} : status' = [status EXCEPT ![wid[w]] = st]
             \/ wid[w] \notin jobs /\ status' = status
      BY <1>4 DEF RunUnknownKind, RunClaim, RunLogFails, RunEnd
    <2>2. \A v \in Workers \ {w} : wpc'[v] = wpc[v] /\ wid'[v] = wid[v]
      BY <1>4 DEF RunUnknownKind, RunClaim, RunLogFails, RunEnd
    <2>3. ASSUME NEW x \in jobs, Waiting(x), x # wid[w] PROVE Waiting(x)'
      BY <2>1, <2>2, <2>3 DEF Waiting
    <2> QED  BY <2>1, <2>3 DEF NoLostJob, JobTypes
  <1> QED  BY <1>1, <1>2, <1>3, <1>4 DEF WorkerStep

(* The steps that neither queue a job nor move one.                        *)
LEMMA OthersLoseNone ==
    ASSUME TypeOK, NoLostJob, phase \in Up,
           \/ \E k \in Kinds : Register(k)
           \/ SetDetach \/ SetNotifier \/ ShutdownStep \/ ReaperStep
           \/ \E c \in Clients, id \in Ids : Cancel(c, id) \/ Delete(c, id)
           \/ \E id \in Ids : SenderProceeds(id) \/ GraceExpires(id) \/ ProcStep(id)
    PROVE  NoLostJob'
  <1> USE DEF TypeOK, JobTypes, ChanTypes, jobVars, chanVars, workerVars, clientVars,
              KeepsChannel, KeepsClients, KeepsWorkers, NoneQueued, InChannel,
              Dispatching, Received
  <1>1. CASE (\E k \in Kinds : Register(k)) \/ SetDetach \/ SetNotifier
    <2>1. KeepsChannel /\ KeepsClients /\ KeepsWorkers /\ NoneQueued
      BY <1>1 DEF Register, SetDetach, SetNotifier
    <2> QED  BY <2>1, KeepingLosesNone
  <1>2. CASE ShutdownStep
    <2>1. KeepsChannel /\ KeepsClients /\ KeepsWorkers /\ NoneQueued
      BY <1>2 DEF ShutdownStep, ShutdownBegin, ShutdownDone, ShutdownTimeout
    <2> QED  BY <2>1, KeepingLosesNone
  <1>3. CASE ReaperStep
    <2>1. KeepsChannel /\ KeepsClients /\ KeepsWorkers
      BY <1>3 DEF ReaperStep, ReapSnapshot, ReapRead, ReapProbe, ReapApply
    <2>2. NoneQueued
      <3>1. CASE ReapApply
        <4>1. rid \in Ids /\ (Verdict = "queued" => status[rid] = "queued")
          BY <3>1 DEF ReapApply, ReaperTypes, Verdict, Vanished
        <4>2. jobs' = jobs /\ status' = [status EXCEPT ![rid] = Verdict]
          BY <3>1 DEF ReapApply
        <4> QED  BY <4>1, <4>2
      <3>2. CASE ~ReapApply
        BY <1>3, <3>2 DEF ReaperStep, ReapSnapshot, ReapRead, ReapProbe
      <3> QED  BY <3>1, <3>2
    <2> QED  BY <2>1, <2>2, KeepingLosesNone
  <1>4. CASE \E c \in Clients, id \in Ids : Cancel(c, id) \/ Delete(c, id)
    <2>1. KeepsChannel /\ KeepsClients /\ KeepsWorkers
      BY <1>4 DEF Cancel, Delete, ClientTypes
    <2>2. NoneQueued
      BY <1>4 DEF Cancel, Delete
    <2> QED  BY <2>1, <2>2, KeepingLosesNone
  <1>5. ASSUME NEW id \in Ids, SenderProceeds(id) PROVE NoLostJob'
    <2>1. /\ pending' = Append(pending, id) /\ senders' = [senders EXCEPT ![id] = @ - 1]
          /\ UNCHANGED <<jobs, status, cpc, cid, wpc, wid>>
      BY <1>5 DEF SenderProceeds
    <2>2. Elems(pending') = Elems(pending) \cup {id}
      BY <2>1, ElemsAppend
    <2>3. KeepsChannel /\ KeepsClients /\ KeepsWorkers /\ NoneQueued
      BY <2>1, <2>2
    <2> QED  BY <2>3, KeepingLosesNone
  <1>6. CASE \E id \in Ids : GraceExpires(id) \/ ProcStep(id)
    <2>1. KeepsChannel /\ KeepsClients /\ KeepsWorkers /\ NoneQueued
      BY <1>6 DEF GraceExpires, ProcStep, ScopeUp, ProcBegin, ProcNoRunner, ProcFinish,
                  ProcExit
    <2> QED  BY <2>1, KeepingLosesNone
  <1> QED  BY <1>1, <1>2, <1>3, <1>4, <1>5, <1>6

(* No queued job is forgotten: whatever the number of jobs, workers, clients
   and restarts, whatever the capacity of the channel and whatever Cancel,
   Delete, Rerun, the reaper and Shutdown do meanwhile, a queued job is in
   the channel, with a blocked sender, in a dispatch or with a worker.     *)
THEOREM QueuedNeverLost == Spec => []NoLostJob
  <1>1. Init => NoLostJob
    BY DEF Init, NoLostJob
  <1>2. TypeOK /\ NoLostJob /\ [Next]_vars => NoLostJob'
    <2> SUFFICES ASSUME TypeOK, NoLostJob, [Next]_vars, phase' \in Up PROVE NoLostJob'
      BY DEF NoLostJob
    <2>1. CASE NewQueue
      BY <2>1, NewQueueLosesNone
    <2>2. CASE ~NewQueue
      <3>1. ~Crash
        BY DEF Crash
      <3>2. phase \in Up
        <4>1. CASE \/ \E k \in Kinds : Register(k)
                   \/ SetDetach \/ SetNotifier \/ ShutdownStep
          BY <4>1 DEF Register, SetDetach, SetNotifier, ShutdownStep, ShutdownBegin,
                      ShutdownDone, ShutdownTimeout
        <4>2. CASE ReaperStep \/ UNCHANGED vars
          BY <4>2 DEF ReaperStep, ReapSnapshot, ReapRead, ReapProbe, ReapApply, vars,
                      bootVars
        <4>3. ASSUME NEW c \in Clients, DispatchStep(c) PROVE phase' = phase
          BY <4>3 DEF bootVars, DispatchStep, DispatchInProcess, DispatchRemoveFile,
                      DispatchLaunch, DispatchLaunchFails, DispatchCommit,
                      DispatchFallback, ScopeStop
        <4>4. ASSUME NEW c \in Clients, NEW id \in Ids, Request(c, id)
              PROVE  phase' = phase
          BY <4>4 DEF bootVars, Request, Enqueue, Cancel, Delete, Rerun
        <4>5. CASE \/ \E w \in Workers : WorkerStep(w)
                   \/ \E id \in Ids : SenderProceeds(id) \/ GraceExpires(id) \/ ProcStep(id)
          BY <4>5 DEF bootVars, WorkerStep, Receive, WorkerExits, RunSkipped,
                 RunUnknownKind, RunClaim, RunLogFails, RunBegin, RunEnd,
                 SenderProceeds, GraceExpires, ProcStep, ScopeUp, ProcBegin,
                 ProcNoRunner, ProcFinish, ProcExit
        <4> QED  BY <2>2, <3>1, <4>1, <4>2, <4>3, <4>4, <4>5 DEF Next, BootStep
      <3>3. CASE UNCHANGED vars
        BY <3>3 DEF vars, jobVars, chanVars, workerVars, clientVars, bootVars,
                    NoLostJob, Waiting
      <3>4. CASE Next
        BY <2>2, <3>1, <3>2, <3>4, QueueingLosesNone, DispatchLosesNone,
           WorkerLosesNone, OthersLoseNone DEF Next, BootStep, Request
      <3> QED  BY <3>3, <3>4
    <2> QED  BY <2>1, <2>2
  <1> QED  BY <1>1, <1>2, TypeCorrect, PTL DEF Spec

-----------------------------------------------------------------------------
(* Induction over data: every set of numbers has a least one, so what holds
   of 0 and passes from each number to the next one holds up to n.         *)
LEMMA Less == OpToRel(<, Nat) = {ss \in Nat \X Nat : ss[1] < ss[2]}
BY DEF OpToRel

LEMMA Least ==
    ASSUME NEW T, T \subseteq Nat, T # {}
    PROVE  \E x \in T : \A y \in T : x <= y
  <1> DEFINE R == {ss \in Nat \X Nat : ss[1] < ss[2]}
  <1>1. IsWellFoundedOn(R, Nat)
    BY NatLessThanWellFounded, Less
  <1> HIDE DEF R
  <1>2. PICK x \in T : \A y \in T : ~ (<<y, x>> \in R)
    BY <1>1, WFMin
  <1>3. ASSUME NEW y \in T PROVE x <= y
    <2>1. y \in Nat /\ x \in Nat
      OBVIOUS
    <2>2. y < x => <<y, x>> \in R
      BY <2>1 DEF R
    <2> QED  BY <1>2, <2>1, <2>2
  <1> QED  BY <1>3

LEMMA Climb ==
    ASSUME NEW n \in Nat, NEW T, 0 \in T, \A i \in 1..n : i - 1 \in T => i \in T
    PROVE  0..n \subseteq T
  <1> SUFFICES ASSUME ~ (0..n \subseteq T) PROVE FALSE
    OBVIOUS
  <1> DEFINE U == (0..n) \ T
  <1>1. U \subseteq Nat /\ U # {}
    OBVIOUS
  <1>2. PICK x \in U : \A y \in U : x <= y
    BY <1>1, Least
  <1>3. x \in 1..n /\ x - 1 \notin U
    BY <1>2
  <1> QED  BY <1>3

(* One round of the loop that rebuilds q.order, f being the rounds before. *)
Round(f, ord, gone, i) ==
    IF i = 0 THEN <<>>
    ELSE IF ord[i] \in gone THEN f[i - 1] ELSE Append(f[i - 1], ord[i])

(* The recursion of Without has a solution: one for the first n rounds
   extends to one for the round after them.                                *)
LEMMA RoundsExist ==
    ASSUME NEW ord \in Seq(Ids), NEW gone
    PROVE  \E f : f = [i \in 0..Len(ord) |-> Round(f, ord, gone, i)]
  <1> DEFINE Upto(n) == \E f : f = [i \in 0..n |-> Round(f, ord, gone, i)]
  <1> DEFINE T == {n \in 0..Len(ord) : Upto(n)}
  <1>1. 0 \in T
    <2> DEFINE f == [i \in 0..0 |-> <<>>]
    <2>1. f = [i \in 0..0 |-> Round(f, ord, gone, i)]
      BY DEF Round
    <2> QED  BY <2>1
  <1>2. ASSUME NEW n \in 1..Len(ord), n - 1 \in T PROVE n \in T
    <2>1. PICK f : f = [i \in 0..(n - 1) |-> Round(f, ord, gone, i)]
      BY <1>2
    <2> DEFINE g == [i \in 0..n |-> IF i = n THEN Round(f, ord, gone, n) ELSE f[i]]
    <2>2. \A i \in 0..n : g[i] = Round(g, ord, gone, i)
      <3>1. \A i \in 0..(n - 1) : f[i] = Round(f, ord, gone, i)
        BY <2>1
      <3>2. \A i \in 0..(n - 1) : g[i] = f[i]
        OBVIOUS
      <3>3. \A i \in 0..n : Round(g, ord, gone, i) = Round(f, ord, gone, i)
        BY <3>2 DEF Round
      <3> QED  BY <3>1, <3>2, <3>3
    <2>3. DOMAIN g = 0..n /\ g = [i \in DOMAIN g |-> g[i]]
      OBVIOUS
    <2> HIDE DEF g
    <2>4. g = [i \in 0..n |-> Round(g, ord, gone, i)]
      BY <2>2, <2>3
    <2> QED  BY <2>4
  <1> HIDE DEF T
  <1>3. Len(ord) \in Nat /\ \A i \in 1..Len(ord) : i - 1 \in T => i \in T
    BY <1>2
  <1>4. 0..Len(ord) \subseteq T
    BY <1>1, <1>3, Climb
  <1> QED  BY <1>4 DEF T

LEMMA WithoutRounds ==
    ASSUME NEW ord \in Seq(Ids), NEW gone
    PROVE  \E f : /\ f = [i \in 0..Len(ord) |-> Round(f, ord, gone, i)]
                  /\ Without(ord, gone) = f[Len(ord)]
  <1> DEFINE P(f) == f = [i \in 0..Len(ord) |->
                            IF i = 0 THEN <<>>
                            ELSE IF ord[i] \in gone THEN f[i - 1]
                            ELSE Append(f[i - 1], ord[i])]
             h == CHOOSE f : P(f)
  <1>1. PICK f : f = [i \in 0..Len(ord) |-> Round(f, ord, gone, i)]
    BY RoundsExist
  <1>2. P(f)
    BY <1>1 DEF Round
  <1>3. Without(ord, gone) = h[Len(ord)]
    BY DEF Without
  <1>4. P(h)
    <2> HIDE DEF P
    <2> QED  BY <1>2
  <1> HIDE DEF h
  <1>5. h = [i \in 0..Len(ord) |-> Round(h, ord, gone, i)]
    BY <1>4 DEF Round
  <1> QED  BY <1>3, <1>5

Distinct(s) == \A i, j \in 1..Len(s) : s[i] = s[j] => i = j

(* Rebuilding q.order keeps exactly the jobs that are not dropped, each as
   often as it was there: once.                                            *)
LEMMA WithoutKeeps ==
    ASSUME NEW ord \in Seq(Ids), NEW gone, Distinct(ord)
    PROVE  /\ Without(ord, gone) \in Seq(Ids)
           /\ Elems(Without(ord, gone)) = Elems(ord) \ gone
           /\ Distinct(Without(ord, gone))
  <1>1. PICK f : /\ f = [i \in 0..Len(ord) |-> Round(f, ord, gone, i)]
                 /\ Without(ord, gone) = f[Len(ord)]
    BY WithoutRounds
  <1> DEFINE First(n) == {ord[i] : i \in 1..n}
             Good(n) == f[n] \in Seq(Ids) /\ Elems(f[n]) = First(n) \ gone /\ Distinct(f[n])
             T == {n \in 0..Len(ord) : Good(n)}
  <1> HIDE DEF Good
  <1>0. \A i \in 0..Len(ord) : f[i] = Round(f, ord, gone, i)
    BY <1>1
  <1>2. 0 \in T
    <2>1. f[0] = <<>>
      BY <1>0 DEF Round
    <2>2. <<>> \in Seq(Ids) /\ Elems(<<>>) = {} /\ Distinct(<<>>) /\ First(0) = {}
      BY DEF Elems, Distinct
    <2>3. Good(0) /\ 0 \in 0..Len(ord)
      BY <2>1, <2>2 DEF Good
    <2> QED  BY <2>3
  <1>3. ASSUME NEW n \in 1..Len(ord), n - 1 \in T PROVE n \in T
    <2> DEFINE s == f[n - 1]
               x == ord[n]
    <2>1. s \in Seq(Ids) /\ Elems(s) = First(n - 1) \ gone /\ Distinct(s) /\ x \in Ids
      BY <1>3 DEF Good
    <2>2. First(n) = First(n - 1) \cup {x} /\ x \notin First(n - 1)
      <3>1. \A i \in 1..n : i \in 1..(n - 1) \/ i = n
        OBVIOUS
      <3>2. \A i \in 1..(n - 1) : i \in 1..Len(ord) /\ i # n
        OBVIOUS
      <3>3. n \in 1..n /\ \A i \in 1..(n - 1) : i \in 1..n
        OBVIOUS
      <3> QED  BY <3>1, <3>2, <3>3 DEF Distinct
    <2>3. f[n] = IF x \in gone THEN s ELSE Append(s, x)
      BY <1>0 DEF Round
    <2> HIDE DEF s, x, First
    <2>4. CASE x \in gone
      BY <2>1, <2>2, <2>3, <2>4 DEF Good
    <2>5. CASE x \notin gone
      <3>1. f[n] = Append(s, x)
        BY <2>3, <2>5
      <3>2. Elems(Append(s, x)) = Elems(s) \cup {x}
        BY <2>1, ElemsAppend
      <3>3. Append(s, x) \in Seq(Ids) /\ x \notin Elems(s)
        BY <2>1, <2>2
      <3>4. Distinct(Append(s, x))
        <4>1. Len(s) \in Nat /\ Len(Append(s, x)) = Len(s) + 1
          BY <2>1
        <4>2. /\ \A i \in 1..Len(s) : Append(s, x)[i] = s[i] /\ s[i] # x
              /\ Append(s, x)[Len(s) + 1] = x
          BY <2>1, <3>3 DEF Elems
        <4> QED  BY <2>1, <4>1, <4>2 DEF Distinct
      <3>5. Elems(f[n]) = First(n) \ gone
        BY <2>1, <2>2, <2>5, <3>1, <3>2
      <3>6. Good(n)
        BY <3>1, <3>3, <3>4, <3>5, Zenon DEF Good
      <3> QED  BY <3>6
    <2> QED  BY <2>4, <2>5
  <1>4. First(Len(ord)) = Elems(ord)
    BY DEF Elems
  <1> HIDE DEF T
  <1>5. Len(ord) \in Nat /\ \A i \in 1..Len(ord) : i - 1 \in T => i \in T
    BY <1>3
  <1>6. 0..Len(ord) \subseteq T
    BY <1>2, <1>5, Climb, Zenon
  <1>7. Len(ord) \in T
    BY <1>5, <1>6
  <1> QED  BY <1>1, <1>4, <1>7 DEF T, Good

-----------------------------------------------------------------------------
(* What a step may do to the map of jobs and q.order, and to their copy in
   state.json.                                                             *)
Reorders ==
    \/ UNCHANGED <<jobs, order>>
    \/ jobs' = {} /\ order' = <<>>
    \/ jobs' = DOMAIN disk.rec /\ order' = disk.order
    \/ \E id \in Ids :
          /\ id \notin issued /\ id \in issued'
          /\ \E gone : /\ jobs' = (jobs \cup {id}) \ gone
                       /\ order' = Without(Append(order, id), gone)
    \/ \E id \in Ids : jobs' = jobs \ {id} /\ order' = Without(order, {id})

LEMMA NextReorders ==
    TypeOK /\ [Next]_vars =>
        /\ Reorders /\ issued \subseteq issued'
        /\ disk' = disk \/ persistLocked
  <1> DEFINE Goal == Reorders /\ issued \subseteq issued' /\ (disk' = disk \/ persistLocked)
             Plain == /\ UNCHANGED <<jobs, order>> /\ issued \subseteq issued'
                      /\ disk' = disk \/ persistLocked
  <1> SUFFICES ASSUME TypeOK, [Next]_vars PROVE Goal
    OBVIOUS
  <1>0. Plain => Goal
    BY DEF Reorders
  <1> USE DEF jobVars, bootVars, restVars
  <1>1. BootStep \/ Crash \/ ShutdownStep => Goal
    <2>1. NewQueue \/ Crash => Goal
      BY DEF NewQueue, Crash, Reorders
    <2>2. (\E k \in Kinds : Register(k)) \/ SetDetach \/ SetNotifier \/ ShutdownStep => Plain
      BY DEF Register, SetDetach, SetNotifier, ShutdownStep, ShutdownBegin, ShutdownDone,
             ShutdownTimeout
    <2> HIDE DEF Goal, Plain
    <2> QED  BY <1>0, <2>1, <2>2 DEF BootStep
  <1>2. ReaperStep => Plain
    BY DEF ReaperStep, ReapApply, ReapSnapshot, ReapRead, ReapProbe
  <1>3. ASSUME NEW c \in Clients PROVE DispatchStep(c) => Plain
    BY DEF DispatchStep, DispatchInProcess, DispatchRemoveFile, DispatchLaunch,
           DispatchLaunchFails, DispatchCommit, DispatchFallback, ScopeStop
  <1>4. ASSUME NEW c \in Clients, NEW id \in Ids PROVE Request(c, id) => Goal
    <2>1. Cancel(c, id) \/ Rerun(c, id) => Plain
      BY DEF Cancel, Rerun
    <2>2. Enqueue(c, id) => Goal
      BY DEF Enqueue, Reorders
    <2>3. Delete(c, id) => Goal
      BY DEF Delete, Reorders
    <2> HIDE DEF Goal, Plain
    <2> QED  BY <1>0, <2>1, <2>2, <2>3 DEF Request
  <1>5. ASSUME NEW w \in Workers PROVE WorkerStep(w) => Plain
    BY DEF WorkerStep, Receive, WorkerExits, RunSkipped, RunUnknownKind, RunClaim,
           RunLogFails, RunBegin, RunEnd
  <1>6. ASSUME NEW id \in Ids
        PROVE  SenderProceeds(id) \/ GraceExpires(id) \/ ProcStep(id) => Plain
    BY DEF SenderProceeds, GraceExpires, ProcStep, ScopeUp, ProcBegin, ProcNoRunner,
           ProcFinish, ProcExit
  <1>7. UNCHANGED vars => Plain
    BY DEF vars
  <1> HIDE DEF Goal, Plain
  <1> QED  BY <1>0, <1>1, <1>2, <1>3, <1>4, <1>5, <1>6, <1>7 DEF Next

(* q.order lists the jobs of the map, each once.                           *)
Lists(ord, js) == ord \in Seq(Ids) /\ Elems(ord) = js /\ Distinct(ord)

OrderInv ==
    /\ Lists(order, jobs) /\ jobs \subseteq issued
    /\ Lists(disk.order, DOMAIN disk.rec) /\ DOMAIN disk.rec \subseteq issued

LEMMA OrderStep == TypeOK /\ OrderInv /\ [Next]_vars => OrderInv'
  <1> SUFFICES ASSUME TypeOK, OrderInv, [Next]_vars PROVE OrderInv'
    OBVIOUS
  <1>0. Reorders /\ issued \subseteq issued' /\ (disk' = disk \/ persistLocked)
    BY NextReorders
  <1>1. Lists(order', jobs') /\ jobs' \subseteq issued'
    <2>1. CASE UNCHANGED <<jobs, order>>
      BY <1>0, <2>1 DEF OrderInv
    <2>2. CASE jobs' = {} /\ order' = <<>>
      BY <2>2 DEF Lists, Elems, Distinct
    <2>3. CASE jobs' = DOMAIN disk.rec /\ order' = disk.order
      BY <1>0, <2>3 DEF OrderInv
    <2>4. ASSUME NEW id \in Ids, NEW gone, id \notin issued, id \in issued',
                 jobs' = (jobs \cup {id}) \ gone, order' = Without(Append(order, id), gone)
          PROVE  Lists(order', jobs') /\ jobs' \subseteq issued'
      <3> DEFINE ord == Append(order, id)
      <3>1. order \in Seq(Ids) /\ Elems(order) = jobs /\ Distinct(order) /\ id \notin jobs
        BY <2>4 DEF OrderInv, Lists
      <3>2. ord \in Seq(Ids) /\ Elems(ord) = jobs \cup {id}
        BY <3>1, ElemsAppend
      <3>3. Distinct(ord)
        <4>1. Len(order) \in Nat /\ Len(ord) = Len(order) + 1
          BY <3>1
        <4>2. /\ \A i \in 1..Len(order) : ord[i] = order[i] /\ order[i] # id
              /\ ord[Len(order) + 1] = id
          BY <3>1 DEF Elems
        <4> HIDE DEF ord
        <4> QED  BY <3>1, <4>1, <4>2 DEF Distinct
      <3> HIDE DEF ord
      <3>4. Lists(Without(ord, gone), (jobs \cup {id}) \ gone)
        BY <3>2, <3>3, WithoutKeeps DEF Lists
      <3> QED  BY <1>0, <2>4, <3>4 DEF OrderInv, ord
    <2>5. ASSUME NEW id \in Ids, jobs' = jobs \ {id}, order' = Without(order, {id})
          PROVE  Lists(order', jobs') /\ jobs' \subseteq issued'
      BY <1>0, <2>5, WithoutKeeps DEF OrderInv, Lists
    <2> QED  BY <1>0, <2>1, <2>2, <2>3, <2>4, <2>5 DEF Reorders
  <1>2. Lists(disk'.order, DOMAIN disk'.rec) /\ DOMAIN disk'.rec \subseteq issued'
    <2>1. CASE disk' = disk
      BY <1>0, <2>1 DEF OrderInv
    <2>2. CASE persistLocked
      BY <1>1, <2>2 DEF persistLocked, Snapshot
    <2> QED  BY <1>0, <2>1, <2>2
  <1> QED  BY <1>1, <1>2 DEF OrderInv

(* A list without repetitions is as long as the set it lists is large.     *)
LEMMA DistinctLength ==
    ASSUME NEW s \in Seq(Ids), Distinct(s)
    PROVE  Len(s) = Cardinality(Elems(s))
  <1> DEFINE D == 1..Len(s)
             E == Elems(s)
  <1>1. /\ s \in [D -> E] /\ Len(s) \in Nat
        /\ \A i, j \in D : s[i] = s[j] => i = j
        /\ \A x \in E : \E i \in D : s[i] = x
    BY DEF Elems, Distinct
  <1>2. s \in Bijection(D, E)
    <2> HIDE DEF D, E
    <2> QED  BY <1>1 DEF Bijection, Injection, Surjection, IsInjective
  <1> QED  BY <1>1, <1>2, FS_CountingElements DEF ExistsBijection

(* q.jobs and q.order describe the same jobs, each once, whatever Enqueue,
   Delete, pruneLocked, a crash and a boot do to them in turn.             *)
THEOREM OrderIsJobs == Spec => []OrderMatchesJobs
  <1>1. Init => OrderInv
    BY DEF Init, OrderInv, Lists, Elems, Distinct, Snapshot
  <1>2. OrderInv => OrderMatchesJobs
    BY DistinctLength DEF OrderInv, Lists, OrderMatchesJobs
  <1> QED  BY <1>1, <1>2, OrderStep, TypeCorrect, PTL DEF Spec

(* An end that a request, a worker or the reaper records while the notifier
   is set reaches the terminal hook.                                       *)
THEOREM EndsAreAnnounced == Spec => NoSilentEnd
  <1> DEFINE Silent(id) ==
                /\ phase \in {"serving", "stopping"} /\ phase' = phase
                /\ ~isTerminal(status[id]) /\ isTerminal(status'[id])
  <1>1. ASSUME TypeOK, [Next]_vars, NEW id \in jobs \cap jobs', Silent(id)
        PROVE  notified'[id]
    <2> USE <1>1 DEF jobVars, bootVars
    <2>0. id \in Ids
      BY DEF TypeOK, JobTypes
    <2>1. ~(BootStep \/ Crash)
      BY DEF BootStep, NewQueue, Register, SetDetach, SetNotifier, Crash
    <2>2. ~ShutdownStep
      BY DEF ShutdownStep, ShutdownBegin, ShutdownDone, ShutdownTimeout
    <2>3. ReaperStep => notified'[id]
      <3>1. ASSUME ReapApply PROVE notified'[id]
        <4>1. status'[id] # status[id]
          OBVIOUS
        <4>2. rid = id /\ status'[id] = Verdict
          BY <2>0, <3>1, <4>1 DEF ReapApply, TypeOK, JobTypes
        <4>3. notifyTerminalLocked(rid, Verdict)
          BY <3>1, <4>1, <4>2 DEF ReapApply
        <4> QED  BY <2>0, <4>2, <4>3 DEF notifyTerminalLocked, NotifierSet, TypeOK, JobTypes
      <3> QED  BY <3>1 DEF ReaperStep, ReapSnapshot, ReapRead, ReapProbe
    <2>4. ASSUME NEW c \in Clients PROVE ~DispatchStep(c)
      BY <2>0 DEF DispatchStep, DispatchInProcess, DispatchRemoveFile, DispatchLaunch,
             DispatchLaunchFails, DispatchCommit, DispatchFallback, ScopeStop, TypeOK, JobTypes
    <2>5. ASSUME NEW c \in Clients, NEW x \in Ids PROVE Request(c, x) => notified'[id]
      BY <2>0 DEF Request, Enqueue, Cancel, Delete, Rerun, notifyTerminalLocked, NotifierSet,
             TypeOK, JobTypes
    <2>6. ASSUME NEW w \in Workers PROVE WorkerStep(w) => notified'[id]
      <3>1. ~(Receive(w) \/ WorkerExits(w) \/ RunSkipped(w) \/ RunClaim(w) \/ RunBegin(w))
        BY <2>0 DEF Receive, WorkerExits, RunSkipped, RunClaim, RunBegin, TypeOK, JobTypes
      <3>2. RunUnknownKind(w) \/ RunLogFails(w) => notified'[id]
        BY <2>0 DEF RunUnknownKind, RunLogFails, notifyTerminalLocked, NotifierSet,
               TypeOK, JobTypes
      <3>3. ASSUME NEW outcome \in {"done", "failed"}, RunEnd(w, outcome) PROVE notified'[id]
        BY <2>0, <3>3 DEF RunEnd, notifyTerminalLocked, NotifierSet, TypeOK, JobTypes
      <3> QED  BY <3>1, <3>2, <3>3 DEF WorkerStep
    <2>7. ASSUME NEW x \in Ids
          PROVE  ~(SenderProceeds(x) \/ GraceExpires(x) \/ ProcStep(x))
      BY DEF SenderProceeds, GraceExpires, ProcStep, ScopeUp, ProcBegin, ProcNoRunner,
             ProcFinish, ProcExit
    <2>8. ~UNCHANGED vars
      BY DEF vars
    <2> QED  BY <2>1, <2>2, <2>3, <2>4, <2>5, <2>6, <2>7, <2>8 DEF Next
  <1>2. TypeOK /\ [Next]_vars =>
            [\A id \in jobs \cap jobs' :
                /\ phase \in {"serving", "stopping"} /\ phase' = phase
                /\ ~isTerminal(status[id]) /\ isTerminal(status'[id])
                => notified'[id]]_vars
    BY <1>1
  <1> QED  BY <1>2, TypeCorrect, PTL DEF Spec, NoSilentEnd

-----------------------------------------------------------------------------
(* Counting the ways a job has left to be run: its ids in the channel and at
   blocked senders, the dispatches under way, the workers that took it and
   have not called the runner.                                             *)
SlotsOf(s, x) == {i \in 1..Len(s) : s[i] = x}
Callers(x) == {c \in Clients : cid[c] = x}
Takers(x) == {w \in Workers : wid[w] = x /\ wpc[w] \in {"got", "started"}}
Runners(x) == {w \in Workers : wid[w] = x /\ wpc[w] = "running"}

InQueue(x) == Cardinality(SlotsOf(pending, x)) + senders[x]
InCall(x) == Cardinality(Callers(x))
Taken(x) == Cardinality(Takers(x))
Running(x) == Cardinality(Runners(x))
Load(x) == InQueue(x) + InCall(x) + Taken(x)

One(b) == IF b THEN 1 ELSE 0

LEMMA SlotsFinite ==
    ASSUME NEW s \in Seq(Ids), NEW x
    PROVE  IsFiniteSet(SlotsOf(s, x)) /\ Cardinality(SlotsOf(s, x)) \in Nat
  <1>1. Len(s) \in Nat
    OBVIOUS
  <1>2. IsFiniteSet(1..Len(s))
    BY <1>1, FS_Interval
  <1>3. SlotsOf(s, x) \subseteq 1..Len(s)
    BY DEF SlotsOf
  <1> QED  BY <1>2, <1>3, FS_Subset, FS_CardinalityType

LEMMA SlotsAppend ==
    ASSUME NEW s \in Seq(Ids), NEW x \in Ids, NEW y \in Ids
    PROVE  Cardinality(SlotsOf(Append(s, y), x)) = Cardinality(SlotsOf(s, x)) + One(x = y)
  <1>1. Len(s) \in Nat /\ Len(Append(s, y)) = Len(s) + 1
    OBVIOUS
  <1>2. (\A i \in 1..Len(s) : Append(s, y)[i] = s[i]) /\ Append(s, y)[Len(s) + 1] = y
    OBVIOUS
  <1>3. \A i \in 1..(Len(s) + 1) : i \in 1..Len(s) \/ i = Len(s) + 1
    BY <1>1
  <1>4. Len(s) + 1 \notin SlotsOf(s, x) /\ IsFiniteSet(SlotsOf(s, x))
    <2>1. IsFiniteSet(SlotsOf(s, x))
      BY SlotsFinite
    <2>2. Len(s) + 1 \notin SlotsOf(s, x)
      BY <1>1 DEF SlotsOf
    <2> QED  BY <2>1, <2>2
  <1>5. CASE x = y
    <2>1. SlotsOf(Append(s, y), x) = SlotsOf(s, x) \cup {Len(s) + 1}
      BY <1>1, <1>2, <1>3, <1>5 DEF SlotsOf
    <2> QED  BY <1>4, <1>5, <2>1, FS_AddElement, SlotsFinite DEF One
  <1>6. CASE x # y
    <2>1. SlotsOf(Append(s, y), x) = SlotsOf(s, x)
      BY <1>1, <1>2, <1>3, <1>6 DEF SlotsOf
    <2> QED  BY <1>6, <2>1, SlotsFinite DEF One
  <1> QED  BY <1>5, <1>6

LEMMA SlotsTail ==
    ASSUME NEW s \in Seq(Ids), s # <<>>, NEW x \in Ids
    PROVE  Cardinality(SlotsOf(s, x)) = Cardinality(SlotsOf(Tail(s), x)) + One(x = Head(s))
  <1> DEFINE t == Tail(s)
             A == SlotsOf(t, x)
             B == SlotsOf(s, x) \ {1}
             f == [i \in A |-> i + 1]
  <1>1. /\ Len(s) \in Nat \ {0} /\ t \in Seq(Ids) /\ Len(t) = Len(s) - 1
        /\ Head(s) = s[1] /\ \A i \in 1..Len(t) : t[i] = s[i + 1]
    OBVIOUS
  <1>2. IsFiniteSet(A) /\ IsFiniteSet(SlotsOf(s, x))
    BY <1>1, SlotsFinite
  <1> HIDE DEF t
  <1>3. f \in [A -> B]
    BY <1>1 DEF SlotsOf
  <1>4. \A i, j \in A : f[i] = f[j] => i = j
    BY <1>1 DEF SlotsOf
  <1>5. \A k \in B : \E i \in A : f[i] = k
    <2> SUFFICES ASSUME NEW k \in B PROVE k - 1 \in A /\ f[k - 1] = k
      OBVIOUS
    <2>1. k \in 2..Len(s) /\ s[k] = x
      BY <1>1 DEF SlotsOf
    <2>2. k - 1 \in 1..Len(t) /\ (k - 1) + 1 = k
      BY <1>1, <2>1
    <2>3. k - 1 \in A
      BY <1>1, <2>1, <2>2 DEF SlotsOf
    <2> QED  BY <2>2, <2>3
  <1> HIDE DEF A, f
  <1>6. f \in Bijection(A, B)
    <2> HIDE DEF B
    <2> QED  BY <1>3, <1>4, <1>5 DEF Bijection, Injection, Surjection, IsInjective
  <1>7. Cardinality(B) = Cardinality(A)
    BY <1>2, <1>6, FS_Bijection DEF ExistsBijection
  <1>8. Cardinality(A) \in Nat /\ Cardinality(SlotsOf(s, x)) \in Nat
    BY <1>2, FS_CardinalityType
  <1>9. 1 \in SlotsOf(s, x) <=> x = Head(s)
    BY <1>1 DEF SlotsOf
  <1>10. Cardinality(B) = Cardinality(SlotsOf(s, x)) - One(1 \in SlotsOf(s, x))
    <2>1. CASE 1 \in SlotsOf(s, x)
      BY <1>2, <2>1, FS_RemoveElement DEF One
    <2>2. CASE 1 \notin SlotsOf(s, x)
      <3>1. B = SlotsOf(s, x)
        BY <2>2
      <3> HIDE DEF B
      <3> QED  BY <1>8, <2>2, <3>1 DEF One
    <2> QED  BY <2>1, <2>2
  <1>11. Cardinality(SlotsOf(s, x)) = Cardinality(A) + One(x = Head(s))
    BY <1>7, <1>8, <1>9, <1>10 DEF One
  <1> QED  BY <1>11 DEF A, t

(* A push adds one to its own id.                                          *)
LEMMA PushCounts ==
    ASSUME ChanTypes, NEW y \in Ids, pushPending(y), NEW x \in Ids
    PROVE  InQueue(x)' = InQueue(x) + One(x = y)
  <1>1. pending \in Seq(Ids) /\ senders \in [Ids -> Nat]
    BY DEF ChanTypes
  <1>2. Cardinality(SlotsOf(pending, x)) \in Nat
    BY <1>1, SlotsFinite
  <1>3. CASE Len(pending) < PendingCap
    <2>1. pending' = Append(pending, y) /\ senders' = senders
      BY <1>3 DEF pushPending
    <2>2. Cardinality(SlotsOf(pending', x)) = Cardinality(SlotsOf(pending, x)) + One(x = y)
      BY <1>1, <2>1, SlotsAppend
    <2> QED  BY <1>1, <1>2, <2>1, <2>2 DEF InQueue, One
  <1>4. CASE ~(Len(pending) < PendingCap)
    <2>1. senders' = [senders EXCEPT ![y] = @ + 1] /\ pending' = pending
      BY <1>4 DEF pushPending
    <2> QED  BY <1>1, <1>2, <2>1 DEF InQueue, One
  <1> QED  BY <1>3, <1>4

(* The counts are natural numbers, and zero says that nobody holds the job. *)
LEMMA CountTypes ==
    ASSUME TypeOK, NEW x \in Ids
    PROVE  /\ InQueue(x) \in Nat /\ InCall(x) \in Nat /\ Taken(x) \in Nat
           /\ Running(x) \in Nat /\ Load(x) \in Nat
           /\ IsFiniteSet(Callers(x)) /\ IsFiniteSet(Takers(x)) /\ IsFiniteSet(Runners(x))
  <1>1. Callers(x) \subseteq Clients /\ Takers(x) \subseteq Workers /\ Runners(x) \subseteq Workers
    BY DEF Callers, Takers, Runners
  <1>2. IsFiniteSet(Callers(x)) /\ IsFiniteSet(Takers(x)) /\ IsFiniteSet(Runners(x))
    BY <1>1, QueueAssumptions, FS_Subset
  <1>3. InCall(x) \in Nat /\ Taken(x) \in Nat /\ Running(x) \in Nat
    BY <1>2, FS_CardinalityType DEF InCall, Taken, Running
  <1>4. InQueue(x) \in Nat
    <2>1. pending \in Seq(Ids) /\ senders[x] \in Nat
      BY DEF TypeOK, ChanTypes
    <2> QED  BY <2>1, SlotsFinite DEF InQueue
  <1> QED  BY <1>2, <1>3, <1>4 DEF Load

-----------------------------------------------------------------------------
(* A job whose kind is not detached stays in the server process: it has no
   scope and no process of its own, the reaper never looks at it, and a
   client that has it is at its dispatch.                                  *)
InProcess(x) == KindOf[x] \notin DetachKinds

CallsInv ==
    \A c \in Clients :
        /\ cpc[c] = "idle" => cid[c] = None
        /\ cid[c] \in Ids /\ InProcess(cid[c]) => cpc[c] = "dispatch"
ScopesInv ==
    \A x \in Ids : InProcess(x) =>
        /\ scoped[x] = FALSE /\ proc[x] = "none" /\ x \notin todo /\ rid # x
        /\ x \in DOMAIN disk.rec => disk.rec[x].scoped = FALSE
(* Nothing but detached processes moves while the server is down.          *)
QuietInv ==
    phase = "down" =>
        /\ \A c \in Clients : cpc[c] = "idle"
        /\ \A w \in Workers : wpc[w] = "exited"
        /\ rpc = "idle" /\ jobs = {}
ReqsInv == \A x \in Ids \ issued : reqs[x] = 0

LocalInv == CallsInv /\ ScopesInv /\ QuietInv /\ ReqsInv

LEMMA CallsStep == TypeOK /\ LocalInv /\ [Next]_vars => CallsInv'
  <1> SUFFICES ASSUME TypeOK, LocalInv, [Next]_vars PROVE CallsInv'
    OBVIOUS
  <1> USE QueueAssumptions DEF CallsInv, clientVars, InProcess
  <1>0. CallsInv /\ ClientTypes /\ ScopesInv
    BY DEF LocalInv, TypeOK
  <1>1. UNCHANGED clientVars => CallsInv'
    BY <1>0
  <1>2. Crash => CallsInv'
    BY DEF Crash
  <1>3. ASSUME NEW c \in Clients PROVE DispatchStep(c) => CallsInv'
    BY <1>0 DEF DispatchStep, DispatchInProcess, DispatchRemoveFile, DispatchLaunch,
           DispatchLaunchFails, DispatchCommit, DispatchFallback, ScopeStop, ClientTypes
  <1>4. ASSUME NEW c \in Clients, NEW id \in Ids PROVE Request(c, id) => CallsInv'
    <2>1. Enqueue(c, id) \/ Rerun(c, id) => CallsInv'
      BY <1>0 DEF Enqueue, Rerun, ClientTypes
    <2>2. Cancel(c, id) => CallsInv'
      BY <1>0 DEF Cancel, ClientTypes, ScopesInv
    <2>3. Delete(c, id) => UNCHANGED clientVars
      BY DEF Delete
    <2> QED  BY <1>1, <2>1, <2>2, <2>3 DEF Request
  <1>5. BootStep \/ ShutdownStep \/ ReaperStep => UNCHANGED clientVars
    BY DEF BootStep, NewQueue, Register, SetDetach, SetNotifier, ShutdownStep, ShutdownBegin,
           ShutdownDone, ShutdownTimeout, ReaperStep, ReapApply, ReapSnapshot, ReapRead, ReapProbe
  <1>6. ASSUME NEW w \in Workers PROVE WorkerStep(w) => UNCHANGED clientVars
    BY DEF WorkerStep, Receive, WorkerExits, RunSkipped, RunUnknownKind, RunClaim,
           RunLogFails, RunBegin, RunEnd
  <1>7. ASSUME NEW id \in Ids
        PROVE  SenderProceeds(id) \/ GraceExpires(id) \/ ProcStep(id) => UNCHANGED clientVars
    BY DEF SenderProceeds, GraceExpires, ProcStep, ScopeUp, ProcBegin, ProcNoRunner,
           ProcFinish, ProcExit
  <1>8. UNCHANGED vars => UNCHANGED clientVars
    BY DEF vars
  <1> HIDE DEF CallsInv, clientVars
  <1> QED  BY <1>1, <1>2, <1>3, <1>4, <1>5, <1>6, <1>7, <1>8 DEF Next

LEMMA ScopesStep == TypeOK /\ LocalInv /\ [Next]_vars => ScopesInv'
  <1> SUFFICES ASSUME TypeOK, LocalInv, [Next]_vars, NEW x \in Ids, InProcess(x)
               PROVE  /\ scoped'[x] = FALSE /\ proc'[x] = "none" /\ x \notin todo' /\ rid' # x
                      /\ x \in DOMAIN disk'.rec => disk'.rec[x].scoped = FALSE
    BY DEF ScopesInv, InProcess
  <1> USE DEF jobVars, procVars, reaperVars
  <1>0. /\ scoped[x] = FALSE /\ proc[x] = "none" /\ x \notin todo /\ rid # x
        /\ x \in DOMAIN disk.rec => disk.rec[x].scoped = FALSE
        /\ scoped \in [Ids -> BOOLEAN] /\ proc \in [Ids -> ProcPc] /\ rid \in Ids \cup {None}
    BY DEF LocalInv, ScopesInv, TypeOK, JobTypes, ProcTypes, ReaperTypes
  <1>1. ASSUME NEW c \in Clients, cpc[c] # "idle"
        PROVE  cid[c] \in Ids /\ (cid[c] = x => cpc[c] = "dispatch")
    BY <1>1 DEF TypeOK, ClientTypes, LocalInv, CallsInv
  <1>2. scoped'[x] = FALSE
    <2>1. BootStep \/ Crash \/ ShutdownStep \/ ReaperStep => scoped'[x] = FALSE
      BY <1>0 DEF BootStep, NewQueue, Register, SetDetach, SetNotifier, Crash, ShutdownStep,
             ShutdownBegin, ShutdownDone, ShutdownTimeout, ReaperStep, ReapApply, ReapSnapshot,
             ReapRead, ReapProbe
    <2>2. ASSUME NEW c \in Clients PROVE DispatchStep(c) => scoped'[x] = FALSE
      BY <1>0, <1>1 DEF DispatchStep, DispatchInProcess, DispatchRemoveFile, DispatchLaunch,
             DispatchLaunchFails, DispatchCommit, DispatchFallback, ScopeStop
    <2>3. ASSUME NEW c \in Clients, NEW id \in Ids PROVE Request(c, id) => scoped'[x] = FALSE
      BY <1>0 DEF Request, Enqueue, Cancel, Delete, Rerun
    <2>4. ASSUME NEW w \in Workers PROVE WorkerStep(w) => scoped'[x] = FALSE
      BY <1>0 DEF WorkerStep, Receive, WorkerExits, RunSkipped, RunUnknownKind, RunClaim,
           RunLogFails, RunBegin, RunEnd
    <2>5. ASSUME NEW id \in Ids
          PROVE  SenderProceeds(id) \/ GraceExpires(id) \/ ProcStep(id) => scoped'[x] = FALSE
      BY <1>0 DEF SenderProceeds, GraceExpires, ProcStep, ScopeUp, ProcBegin, ProcNoRunner,
           ProcFinish, ProcExit
    <2>6. UNCHANGED vars => scoped'[x] = FALSE
      BY <1>0 DEF vars
    <2> QED  BY <2>1, <2>2, <2>3, <2>4, <2>5, <2>6 DEF Next
  <1>3. proc'[x] = "none"
    <2>1. BootStep \/ Crash \/ ShutdownStep \/ ReaperStep => proc' = proc
      BY DEF BootStep, NewQueue, Register, SetDetach, SetNotifier, Crash, ShutdownStep,
             ShutdownBegin, ShutdownDone, ShutdownTimeout, ReaperStep, ReapApply, ReapSnapshot,
             ReapRead, ReapProbe
    <2>2. ASSUME NEW c \in Clients PROVE DispatchStep(c) => proc'[x] = "none"
      BY <1>0, <1>1 DEF DispatchStep, DispatchInProcess, DispatchRemoveFile, DispatchLaunch,
             DispatchLaunchFails, DispatchCommit, DispatchFallback, ScopeStop
    <2>3. ASSUME NEW c \in Clients, NEW id \in Ids PROVE Request(c, id) => proc' = proc
      BY DEF Request, Enqueue, Cancel, Delete, Rerun
    <2>4. ASSUME NEW w \in Workers PROVE WorkerStep(w) => proc' = proc
      BY DEF WorkerStep, Receive, WorkerExits, RunSkipped, RunUnknownKind, RunClaim,
           RunLogFails, RunBegin, RunEnd
    <2>5. ASSUME NEW id \in Ids
          PROVE  SenderProceeds(id) \/ GraceExpires(id) \/ ProcStep(id) => proc'[x] = "none"
      BY <1>0 DEF SenderProceeds, GraceExpires, ProcStep, ScopeUp, ProcBegin, ProcNoRunner,
           ProcFinish, ProcExit
    <2>6. UNCHANGED vars => proc' = proc
      BY DEF vars
    <2> QED  BY <1>0, <2>1, <2>2, <2>3, <2>4, <2>5, <2>6 DEF Next
  <1>4. x \notin todo' /\ rid' # x
    <2>1. BootStep \/ ShutdownStep => UNCHANGED reaperVars
      BY DEF BootStep, NewQueue, Register, SetDetach, SetNotifier, ShutdownStep,
             ShutdownBegin, ShutdownDone, ShutdownTimeout
    <2>2. Crash \/ ReaperStep => x \notin todo' /\ rid' # x
      BY <1>0, QueueAssumptions DEF Crash, ReaperStep, ReapApply, ReapSnapshot, ReapRead, ReapProbe
    <2>3. ASSUME NEW c \in Clients PROVE DispatchStep(c) => UNCHANGED reaperVars
      BY DEF DispatchStep, DispatchInProcess, DispatchRemoveFile, DispatchLaunch,
             DispatchLaunchFails, DispatchCommit, DispatchFallback, ScopeStop
    <2>4. ASSUME NEW c \in Clients, NEW id \in Ids PROVE Request(c, id) => UNCHANGED reaperVars
      BY DEF Request, Enqueue, Cancel, Delete, Rerun
    <2>5. ASSUME NEW w \in Workers PROVE WorkerStep(w) => UNCHANGED reaperVars
      BY DEF WorkerStep, Receive, WorkerExits, RunSkipped, RunUnknownKind, RunClaim,
           RunLogFails, RunBegin, RunEnd
    <2>6. ASSUME NEW id \in Ids
          PROVE  SenderProceeds(id) \/ GraceExpires(id) \/ ProcStep(id) => UNCHANGED reaperVars
      BY DEF SenderProceeds, GraceExpires, ProcStep, ScopeUp, ProcBegin, ProcNoRunner,
           ProcFinish, ProcExit
    <2>7. UNCHANGED vars => UNCHANGED reaperVars
      BY DEF vars
    <2>8. UNCHANGED reaperVars => x \notin todo' /\ rid' # x
      BY <1>0
    <2> HIDE DEF reaperVars
    <2> QED  BY <2>1, <2>2, <2>3, <2>4, <2>5, <2>6, <2>7, <2>8 DEF Next
  <1>5. x \in DOMAIN disk'.rec => disk'.rec[x].scoped = FALSE
    BY <1>0, <1>2, NextReorders DEF persistLocked, Snapshot
  <1> QED  BY <1>2, <1>3, <1>4, <1>5

LEMMA QuietStep == TypeOK /\ LocalInv /\ [Next]_vars => QuietInv'
  <1> SUFFICES ASSUME TypeOK, LocalInv, [Next]_vars, phase' = "down"
               PROVE  /\ \A c \in Clients : cpc'[c] = "idle"
                      /\ \A w \in Workers : wpc'[w] = "exited"
                      /\ rpc' = "idle" /\ jobs' = {}
    BY DEF QuietInv
  <1> DEFINE Still == UNCHANGED <<cpc, wpc, rpc, phase, jobs>>
  <1> USE DEF bootVars, jobVars, workerVars, clientVars, reaperVars
  <1>0. QuietInv
    BY DEF LocalInv
  <1>1. CASE Crash
    BY <1>1 DEF Crash
  <1>2. CASE ~Crash
    <2>1. ~(BootStep \/ ShutdownStep)
      BY DEF BootStep, NewQueue, Register, SetDetach, SetNotifier, ShutdownStep,
             ShutdownBegin, ShutdownDone, ShutdownTimeout
    <2>2. ~ReaperStep
      BY <1>0 DEF ReaperStep, ReapApply, ReapSnapshot, ReapRead, ReapProbe, QuietInv
    <2>3. ASSUME NEW c \in Clients PROVE ~DispatchStep(c)
      BY <1>0 DEF DispatchStep, DispatchInProcess, DispatchRemoveFile, DispatchLaunch,
             DispatchLaunchFails, DispatchCommit, DispatchFallback, ScopeStop, QuietInv
    <2>4. ASSUME NEW c \in Clients, NEW id \in Ids PROVE ~Request(c, id)
      BY DEF Request, Enqueue, Cancel, Delete, Rerun
    <2>5. ASSUME NEW w \in Workers PROVE ~WorkerStep(w)
      BY <1>0 DEF WorkerStep, Receive, WorkerExits, RunSkipped, RunUnknownKind, RunClaim,
           RunLogFails, RunBegin, RunEnd, QuietInv
    <2>6. ASSUME NEW id \in Ids
          PROVE  SenderProceeds(id) \/ GraceExpires(id) \/ ProcStep(id) => Still
      BY DEF SenderProceeds, GraceExpires, ProcStep, ScopeUp, ProcBegin, ProcNoRunner,
           ProcFinish, ProcExit
    <2>7. UNCHANGED vars => Still
      BY DEF vars
    <2>8. Still => QuietInv'
      BY <1>0 DEF QuietInv
    <2> HIDE DEF Still
    <2>9. QuietInv'
      BY <1>2, <2>1, <2>2, <2>3, <2>4, <2>5, <2>6, <2>7, <2>8 DEF Next
    <2> QED  BY <2>9 DEF QuietInv
  <1> QED  BY <1>1, <1>2

LEMMA ReqsStep == TypeOK /\ LocalInv /\ OrderInv /\ [Next]_vars => ReqsInv'
  <1> SUFFICES ASSUME TypeOK, LocalInv, OrderInv, [Next]_vars, NEW x \in Ids, x \notin issued'
               PROVE  reqs'[x] = 0
    BY DEF ReqsInv
  <1> USE DEF restVars
  <1>0. reqs \in [Ids -> Nat] /\ (x \notin issued => reqs[x] = 0)
    BY DEF LocalInv, ReqsInv, TypeOK, RestTypes
  <1>1. x \notin issued
    BY NextReorders
  <1>2. BootStep \/ Crash \/ ShutdownStep \/ ReaperStep => reqs' = reqs
    BY DEF BootStep, NewQueue, Register, SetDetach, SetNotifier, Crash, ShutdownStep,
           ShutdownBegin, ShutdownDone, ShutdownTimeout, ReaperStep, ReapApply, ReapSnapshot,
           ReapRead, ReapProbe
  <1>3. ASSUME NEW c \in Clients PROVE DispatchStep(c) => reqs' = reqs
    BY DEF DispatchStep, DispatchInProcess, DispatchRemoveFile, DispatchLaunch,
           DispatchLaunchFails, DispatchCommit, DispatchFallback, ScopeStop
  <1>4. ASSUME NEW c \in Clients, NEW id \in Ids PROVE Request(c, id) => reqs'[x] = reqs[x]
    <2>1. Enqueue(c, id) \/ Rerun(c, id) => id # x
      BY <1>1 DEF Enqueue, Rerun, OrderInv
    <2> QED  BY <1>0, <2>1 DEF Request, Enqueue, Cancel, Delete, Rerun
  <1>5. ASSUME NEW w \in Workers PROVE WorkerStep(w) => reqs' = reqs
    BY DEF WorkerStep, Receive, WorkerExits, RunSkipped, RunUnknownKind, RunClaim,
           RunLogFails, RunBegin, RunEnd
  <1>6. ASSUME NEW id \in Ids
        PROVE  SenderProceeds(id) \/ GraceExpires(id) \/ ProcStep(id) => reqs' = reqs
    BY DEF SenderProceeds, GraceExpires, ProcStep, ScopeUp, ProcBegin, ProcNoRunner,
           ProcFinish, ProcExit
  <1>7. UNCHANGED vars => reqs' = reqs
    BY DEF vars
  <1> QED  BY <1>0, <1>1, <1>2, <1>3, <1>4, <1>5, <1>6, <1>7 DEF Next

LEMMA LocalHolds == Spec => [](TypeOK /\ OrderInv /\ LocalInv)
  <1>1. Init => OrderInv
    BY DEF Init, OrderInv, Lists, Elems, Distinct, Snapshot
  <1>2. Init => LocalInv
    BY QueueAssumptions DEF Init, LocalInv, CallsInv, ScopesInv, QuietInv, ReqsInv, Snapshot
  <1>3. TypeOK /\ OrderInv /\ LocalInv /\ [Next]_vars => LocalInv'
    BY CallsStep, ScopesStep, QuietStep, ReqsStep DEF LocalInv
  <1> QED  BY <1>1, <1>2, <1>3, OrderStep, TypeCorrect, PTL DEF Spec

-----------------------------------------------------------------------------
(* Two sets that differ at most in w.                                      *)
LEMMA OneApart ==
    ASSUME NEW A, NEW B, NEW w, IsFiniteSet(A), A \ {w} = B \ {w}
    PROVE  IsFiniteSet(B) /\ Cardinality(B) = Cardinality(A) - One(w \in A) + One(w \in B)
  <1> DEFINE C == A \ {w}
  <1>1. IsFiniteSet(C) /\ Cardinality(C) = Cardinality(A) - One(w \in A)
    <2>1. CASE w \in A
      BY <2>1, FS_RemoveElement DEF One
    <2>2. CASE w \notin A
      <3>1. C = A
        BY <2>2
      <3>2. Cardinality(A) \in Nat
        BY FS_CardinalityType
      <3> HIDE DEF C
      <3> QED  BY <2>2, <3>1, <3>2 DEF One
    <2> QED  BY <2>1, <2>2
  <1>2. IsFiniteSet(B) /\ Cardinality(B) = Cardinality(C) + One(w \in B)
    <2>1. CASE w \in B
      <3>1. B = C \cup {w} /\ w \notin C
        BY <2>1
      <3> HIDE DEF C
      <3> QED  BY <1>1, <2>1, <3>1, FS_AddElement DEF One
    <2>2. CASE w \notin B
      <3>1. B = C
        BY <2>2
      <3>2. Cardinality(C) \in Nat
        BY <1>1, FS_CardinalityType
      <3> HIDE DEF C
      <3> QED  BY <1>1, <2>2, <3>1, <3>2 DEF One
    <2> QED  BY <2>1, <2>2
  <1>3. Cardinality(A) \in Nat /\ Cardinality(C) \in Nat
    BY <1>1, FS_CardinalityType
  <1> HIDE DEF C
  <1> QED  BY <1>1, <1>2, <1>3 DEF One

(* A step of one worker, or of one client, moves that one only.            *)
LEMMA WorkerMoves ==
    ASSUME TypeOK, NEW w \in Workers, NEW x \in Ids,
           \A v \in Workers \ {w} : wpc'[v] = wpc[v] /\ wid'[v] = wid[v]
    PROVE  /\ Taken(x)' = Taken(x) - One(wid[w] = x /\ wpc[w] \in {"got", "started"})
                                   + One(wid'[w] = x /\ wpc'[w] \in {"got", "started"})
           /\ Running(x)' = Running(x) - One(wid[w] = x /\ wpc[w] = "running")
                                       + One(wid'[w] = x /\ wpc'[w] = "running")
  <1>1. Takers(x) \ {w} = Takers(x)' \ {w} /\ Runners(x) \ {w} = Runners(x)' \ {w}
    BY DEF Takers, Runners
  <1>2. IsFiniteSet(Takers(x)) /\ IsFiniteSet(Runners(x))
    BY CountTypes
  <1>3. /\ Cardinality(Takers(x)') =
               Cardinality(Takers(x)) - One(w \in Takers(x)) + One(w \in Takers(x)')
        /\ Cardinality(Runners(x)') =
               Cardinality(Runners(x)) - One(w \in Runners(x)) + One(w \in Runners(x)')
    BY <1>1, <1>2, OneApart
  <1>4. /\ w \in Takers(x) <=> wid[w] = x /\ wpc[w] \in {"got", "started"}
        /\ w \in Takers(x)' <=> wid'[w] = x /\ wpc'[w] \in {"got", "started"}
        /\ w \in Runners(x) <=> wid[w] = x /\ wpc[w] = "running"
        /\ w \in Runners(x)' <=> wid'[w] = x /\ wpc'[w] = "running"
    BY DEF Takers, Runners
  <1> QED  BY <1>3, <1>4 DEF Taken, Running, One

LEMMA ClientMoves ==
    ASSUME TypeOK, NEW c \in Clients, NEW x \in Ids,
           \A d \in Clients \ {c} : cid'[d] = cid[d]
    PROVE  InCall(x)' = InCall(x) - One(cid[c] = x) + One(cid'[c] = x)
  <1>1. Callers(x) \ {c} = Callers(x)' \ {c}
    BY DEF Callers
  <1>2. IsFiniteSet(Callers(x))
    BY CountTypes
  <1>3. Cardinality(Callers(x)') =
            Cardinality(Callers(x)) - One(c \in Callers(x)) + One(c \in Callers(x)')
    BY <1>1, <1>2, OneApart
  <1>4. (c \in Callers(x) <=> cid[c] = x) /\ (c \in Callers(x)' <=> cid'[c] = x)
    BY DEF Callers
  <1> QED  BY <1>3, <1>4 DEF InCall, One

LEMMA CountFrame ==
    ASSUME NEW x
    PROVE  /\ UNCHANGED chanVars => InQueue(x)' = InQueue(x)
           /\ UNCHANGED cid => InCall(x)' = InCall(x)
           /\ UNCHANGED <<wpc, wid>> => Taken(x)' = Taken(x) /\ Running(x)' = Running(x)
  BY DEF chanVars, InQueue, InCall, Taken, Running, Callers, Takers, Runners

(* What a step does to the counts of one job: it adds none ...             *)
Settles(x) ==
    /\ Load(x)' <= Load(x) /\ Load(x)' + Running(x)' <= Load(x) + Running(x)
    /\ starts'[x] = starts[x] /\ reqs'[x] = reqs[x]
(* ... or calls the runner for one ...                                     *)
Begins(x) ==
    /\ Load(x)' = Load(x) - 1 /\ Running(x)' = Running(x) + 1
    /\ starts'[x] = starts[x] + 1 /\ reqs'[x] = reqs[x]
(* ... or is a request for it ...                                          *)
Asks(x) ==
    /\ \/ x \notin issued
       \/ x \in jobs /\ isTerminal(status[x]) /\ phase = "serving" /\ "rerun" \in Requests[x]
    /\ x \in issued'
    /\ Load(x)' = Load(x) + 1 /\ Running(x)' = Running(x)
    /\ starts'[x] = starts[x] /\ reqs'[x] = reqs[x] + 1
(* ... or a boot, which pushes the queued jobs once each.                  *)
Boots(x) ==
    /\ Load(x)' = One(x \in jobs' /\ status'[x] = "queued") /\ Running(x)' = 0
    /\ starts'[x] = starts[x] /\ reqs'[x] = reqs[x]
    /\ NewQueue

(* pushPending at boot: once for every queued job, in the channel or blocked. *)
LEMMA BootPushes ==
    ASSUME TypeOK, LocalInv, NewQueue, NEW x \in Ids
    PROVE  Boots(x)
  <1> USE DEF restVars, clientVars
  <1> DEFINE S == {id \in jobs' : status'[id] = "queued"}
  <1>1. PICK s \in Orders(S) :
           LET fits == IF Len(s) < PendingCap THEN Len(s) ELSE PendingCap
           IN  /\ pending' = SubSeq(s, 1, fits)
               /\ senders' = [id \in Ids |->
                     IF \E i \in fits + 1..Len(s) : s[i] = id THEN 1 ELSE 0]
    BY DEF NewQueue
  <1> DEFINE n == Cardinality(S)
             fits == IF Len(s) < PendingCap THEN Len(s) ELSE PendingCap
  <1>2. S \subseteq Ids
    BY DEF NewQueue, TypeOK, DiskTypes
  <1>3. IsFiniteSet(S) /\ n \in Nat
    BY <1>2, QueueAssumptions, FS_Subset, FS_CardinalityType
  <1> HIDE DEF S, n
  <1>4. s \in [1..n -> S] /\ Elems(s) = S
    BY DEF Orders, n
  <1>5. s \in Seq(Ids) /\ Len(s) = n
    BY <1>2, <1>3, <1>4
  <1>6. \A i, j \in 1..n : s[i] = s[j] => i = j
    <2>1. IsFiniteSet(1..n) /\ Cardinality(1..n) = n
      <3>1. /\ IsFiniteSet(1..n)
            /\ Cardinality(1..n) = IF 1 > n THEN 0 ELSE n - 1 + 1
        BY <1>3, FS_Interval
      <3> QED  BY <1>3, <3>1
    <2>2. \A t \in S : \E i \in 1..n : s[i] = t
      BY <1>4, <1>5 DEF Elems
    <2>3. s \in Surjection(1..n, S)
      BY <1>4, <2>2 DEF Surjection
    <2>4. s \in Injection(1..n, S)
      BY <2>1, <2>3, FS_Surjection DEF n
    <2> QED  BY <2>4, <1>4 DEF Injection, IsInjective
  <1>7. fits \in Nat /\ fits <= n /\ pending' = SubSeq(s, 1, fits)
        /\ senders'[x] = One(\E i \in fits + 1..n : s[i] = x)
    BY <1>1, <1>3, <1>5, QueueAssumptions DEF One
  <1> HIDE DEF fits
  <1>8. Len(pending') = fits /\ \A i \in 1..fits : pending'[i] = s[i]
    BY <1>5, <1>7
  <1>9. InQueue(x)' = One(x \in S)
    <2>0. SlotsOf(pending', x) = {i \in 1..fits : s[i] = x}
      BY <1>8 DEF SlotsOf
    <2>1. CASE x \notin S
      <3>1. \A i \in 1..n : s[i] # x
        BY <1>4, <2>1
      <3>2. \A i \in 1..fits : i \in 1..n
        BY <1>3, <1>7
      <3>3. \A i \in fits + 1..n : i \in 1..n
        BY <1>3, <1>7
      <3>4. SlotsOf(pending', x) = {} /\ senders'[x] = 0
        BY <1>7, <2>0, <3>1, <3>2, <3>3 DEF One
      <3> QED  BY <2>1, <3>4, FS_EmptySet DEF InQueue, One
    <2>2. CASE x \in S
      <3>1. PICK k \in 1..n : s[k] = x
        BY <1>4, <1>5, <2>2 DEF Elems
      <3>2. CASE k <= fits
        <4>1. k \in 1..fits /\ k \notin fits + 1..n
          BY <1>3, <1>7, <3>2
        <4>2. SlotsOf(pending', x) = {k}
          BY <1>3, <1>6, <1>7, <2>0, <3>1, <4>1
        <4>3. senders'[x] = 0
          <5>1. \A i \in fits + 1..n : i \in 1..n /\ i # k
            BY <1>3, <1>7, <3>2
          <5> QED  BY <1>6, <1>7, <3>1, <5>1 DEF One
        <4>4. Cardinality({k}) = 1
          BY FS_Singleton
        <4> QED  BY <2>2, <4>2, <4>3, <4>4 DEF InQueue, One
      <3>3. CASE k > fits
        <4>1. k \in fits + 1..n
          BY <1>3, <1>7, <3>3
        <4>2. SlotsOf(pending', x) = {}
          <5>1. \A i \in 1..fits : i \in 1..n /\ i # k
            BY <1>3, <1>7, <3>3
          <5> QED  BY <1>6, <2>0, <3>1, <5>1
        <4>3. senders'[x] = 1
          BY <1>7, <3>1, <4>1 DEF One
        <4> QED  BY <2>2, <4>2, <4>3, FS_EmptySet DEF InQueue, One
      <3> QED  BY <1>3, <1>7, <3>2, <3>3
    <2> QED  BY <2>1, <2>2
  <1>10. Callers(x)' = {} /\ Takers(x)' = {} /\ Runners(x)' = {}
    <2>1. \A c \in Clients : cid'[c] = None
      BY DEF NewQueue, LocalInv, QuietInv, CallsInv
    <2>2. \A w \in Workers : wpc'[w] = "idle"
      BY DEF NewQueue
    <2> QED  BY <2>1, <2>2, QueueAssumptions DEF Callers, Takers, Runners
  <1>11. InCall(x)' = 0 /\ Taken(x)' = 0 /\ Running(x)' = 0
    BY <1>10, FS_EmptySet DEF InCall, Taken, Running
  <1>12. UNCHANGED <<starts, reqs>>
    BY DEF NewQueue
  <1>13. x \in S <=> x \in jobs' /\ status'[x] = "queued"
    BY DEF S
  <1> QED  BY <1>9, <1>11, <1>12, <1>13 DEF Boots, Load, One

Effects(x) == Settles(x) \/ Begins(x) \/ Asks(x) \/ Boots(x)

LEMMA FrameSettles ==
    ASSUME TypeOK, NEW x \in Ids, UNCHANGED <<chanVars, cid, wpc, wid, reqs>>,
           starts'[x] = starts[x]
    PROVE  Effects(x)
  <1>1. InQueue(x)' = InQueue(x) /\ InCall(x)' = InCall(x)
        /\ Taken(x)' = Taken(x) /\ Running(x)' = Running(x)
    BY CountFrame
  <1>2. InQueue(x) \in Nat /\ InCall(x) \in Nat /\ Taken(x) \in Nat /\ Running(x) \in Nat
    BY CountTypes
  <1> QED  BY <1>1, <1>2 DEF Effects, Settles, Load

LEMMA CrashSettles ==
    ASSUME TypeOK, NEW x \in Ids, Crash
    PROVE  Settles(x)
  <1> USE DEF restVars
  <1>1. SlotsOf(pending', x) = {} /\ Callers(x)' = {} /\ Takers(x)' = {} /\ Runners(x)' = {}
    <2>1. pending' = <<>> /\ Len(<<>>) = 0
      BY DEF Crash
    <2>2. SlotsOf(<<>>, x) = {}
      BY <2>1 DEF SlotsOf
    <2> QED  BY <2>1, <2>2, QueueAssumptions DEF Crash, Callers, Takers, Runners
  <1>2. senders'[x] = 0
    BY DEF Crash
  <1>3. InQueue(x)' = 0 /\ InCall(x)' = 0 /\ Taken(x)' = 0 /\ Running(x)' = 0
    BY <1>1, <1>2, FS_EmptySet DEF InQueue, InCall, Taken, Running
  <1>4. Load(x) \in Nat /\ Running(x) \in Nat
    BY CountTypes
  <1>5. UNCHANGED <<starts, reqs>>
    BY DEF Crash
  <1> QED  BY <1>3, <1>4, <1>5 DEF Settles, Load

LEMMA DispatchEffects ==
    ASSUME TypeOK, LocalInv, NEW x \in Ids, InProcess(x), NEW c \in Clients, DispatchStep(c)
    PROVE  Settles(x)
  <1> USE DEF restVars, workerVars, chanVars
  <1>0. /\ cpc[c] # "idle" /\ cid[c] \in Ids /\ (cid[c] = x => cpc[c] = "dispatch")
        /\ cid \in [Clients -> Ids \cup {None}] /\ x # None
    BY QueueAssumptions DEF DispatchStep, DispatchInProcess, DispatchRemoveFile, DispatchLaunch,
           DispatchLaunchFails, DispatchCommit, DispatchFallback, ScopeStop, TypeOK, ClientTypes,
           LocalInv, CallsInv
  <1>1. UNCHANGED <<starts, reqs, wpc, wid>>
    BY DEF DispatchStep, DispatchInProcess, DispatchRemoveFile, DispatchLaunch,
           DispatchLaunchFails, DispatchCommit, DispatchFallback, ScopeStop
  <1>2. InQueue(x) \in Nat /\ InCall(x) \in Nat /\ Taken(x) \in Nat /\ Running(x) \in Nat
    BY CountTypes
  <1>3. Taken(x)' = Taken(x) /\ Running(x)' = Running(x)
    BY <1>1, CountFrame
  <1>4. \/ cid' = [cid EXCEPT ![c] = None] /\ (UNCHANGED chanVars \/ pushPending(cid[c]))
        \/ UNCHANGED cid /\ UNCHANGED chanVars
    BY DEF DispatchStep, DispatchInProcess, DispatchRemoveFile, DispatchLaunch,
           DispatchLaunchFails, DispatchCommit, DispatchFallback, ScopeStop
  <1>5. InQueue(x)' = InQueue(x) \/ (InQueue(x)' = InQueue(x) + One(x = cid[c])
                                     /\ cid' = [cid EXCEPT ![c] = None])
    BY <1>0, <1>4, CountFrame, PushCounts DEF TypeOK
  <1>6. CASE cid' = [cid EXCEPT ![c] = None]
    <2>1. cid'[c] = None /\ \A d \in Clients \ {c} : cid'[d] = cid[d]
      BY <1>0, <1>6
    <2>2. InCall(x)' = InCall(x) - One(cid[c] = x)
      BY <1>0, <1>2, <2>1, ClientMoves DEF One
    <2> QED  BY <1>1, <1>2, <1>3, <1>5, <2>2 DEF Settles, Load, One
  <1>7. CASE UNCHANGED cid /\ UNCHANGED chanVars
    <2>1. InCall(x)' = InCall(x) /\ InQueue(x)' = InQueue(x)
      BY <1>7, CountFrame
    <2> QED  BY <1>1, <1>2, <1>3, <2>1 DEF Settles, Load
  <1> QED  BY <1>4, <1>6, <1>7

LEMMA RequestEffects ==
    ASSUME TypeOK, LocalInv, OrderInv, NEW x \in Ids, InProcess(x),
           NEW c \in Clients, NEW id \in Ids, Request(c, id)
    PROVE  Effects(x)
  <1> USE DEF restVars, workerVars, chanVars, clientVars
  <1>0. /\ cid \in [Clients -> Ids \cup {None}] /\ x # None
        /\ reqs \in [Ids -> Nat] /\ starts \in [Ids -> Nat]
    BY QueueAssumptions DEF TypeOK, ClientTypes, RestTypes
  <1>1. InQueue(x) \in Nat /\ InCall(x) \in Nat /\ Taken(x) \in Nat /\ Running(x) \in Nat
    BY CountTypes
  <1>2. CASE Enqueue(c, id) \/ Rerun(c, id)
    <2>1. /\ UNCHANGED <<starts, wpc, wid, pending, senders>>
          /\ cid' = [cid EXCEPT ![c] = id] /\ cid[c] = None
      BY <1>2 DEF Enqueue, Rerun, LocalInv, CallsInv
    <2>2. \/ id \notin issued /\ reqs' = [reqs EXCEPT ![id] = 1]
          \/ /\ id \in jobs /\ isTerminal(status[id]) /\ phase = "serving" /\ "rerun" \in Requests[id]
             /\ reqs' = [reqs EXCEPT ![id] = @ + 1]
      BY <1>2 DEF Enqueue, Rerun
    <2>3. InQueue(x)' = InQueue(x) /\ Taken(x)' = Taken(x) /\ Running(x)' = Running(x)
      BY <2>1, CountFrame
    <2>4. InCall(x)' = InCall(x) + One(id = x)
      <3>1. cid'[c] = id /\ \A d \in Clients \ {c} : cid'[d] = cid[d]
        BY <1>0, <2>1
      <3> QED  BY <1>0, <1>1, <2>1, <3>1, ClientMoves DEF One
    <2>5. CASE id = x
      <3>1. reqs'[x] = reqs[x] + 1 /\ x \in issued'
        <4>1. reqs'[x] = reqs[x] + 1
          BY <1>0, <2>2, <2>5 DEF LocalInv, ReqsInv
        <4>2. x \in issued'
          BY <1>2, <2>5 DEF Enqueue, Rerun, OrderInv
        <4> QED  BY <4>1, <4>2
      <3> QED  BY <1>1, <2>1, <2>2, <2>3, <2>4, <2>5, <3>1 DEF Effects, Asks, Load, One
    <2>6. CASE id # x
      <3>1. reqs'[x] = reqs[x]
        BY <1>0, <2>2, <2>6
      <3> QED  BY <1>1, <2>1, <2>3, <2>4, <2>6, <3>1 DEF Effects, Settles, Load, One
    <2> QED  BY <2>5, <2>6
  <1>3. CASE Delete(c, id)
    BY <1>3, FrameSettles DEF Delete
  <1>4. CASE Cancel(c, id)
    <2>1. UNCHANGED <<starts, reqs, wpc, wid, chanVars>>
      BY <1>4 DEF Cancel
    <2>2. cid[c] = None /\ cid'[c] # x /\ \A d \in Clients \ {c} : cid'[d] = cid[d]
      <3>1. cid[c] = None
        BY <1>4 DEF Cancel, LocalInv, CallsInv
      <3>2. scoped[x] = FALSE
        BY DEF LocalInv, ScopesInv
      <3> QED  BY <1>0, <1>4, <3>1, <3>2 DEF Cancel
    <2>3. InCall(x)' = InCall(x)
      BY <1>0, <1>1, <2>2, ClientMoves DEF One
    <2>4. InQueue(x)' = InQueue(x) /\ Taken(x)' = Taken(x) /\ Running(x)' = Running(x)
      BY <2>1, CountFrame
    <2> QED  BY <1>1, <2>1, <2>3, <2>4 DEF Effects, Settles, Load
  <1> QED  BY <1>2, <1>3, <1>4 DEF Request

LEMMA WorkerEffects ==
    ASSUME TypeOK, LocalInv, NEW x \in Ids, NEW w \in Workers, WorkerStep(w)
    PROVE  Effects(x)
  <1> USE DEF restVars, workerVars, chanVars, clientVars
  <1>0. /\ wid \in [Workers -> Ids \cup {None}] /\ wpc \in [Workers -> WorkerPc]
        /\ x # None /\ starts \in [Ids -> Nat] /\ pending \in Seq(Ids) /\ senders \in [Ids -> Nat]
        /\ (wpc[w] \in {"got", "started", "running"} => wid[w] \in Ids)
    BY QueueAssumptions DEF TypeOK, WorkerTypes, RestTypes, ChanTypes
  <1>1. InQueue(x) \in Nat /\ InCall(x) \in Nat /\ Taken(x) \in Nat /\ Running(x) \in Nat
    BY CountTypes
  <1>2. UNCHANGED <<reqs, cid>>
    BY DEF WorkerStep, Receive, WorkerExits, RunSkipped, RunUnknownKind, RunClaim,
           RunLogFails, RunBegin, RunEnd
  <1>3. InCall(x)' = InCall(x)
    BY <1>2, CountFrame
  <1> DEFINE Others == \A v \in Workers \ {w} : wpc'[v] = wpc[v] /\ wid'[v] = wid[v]
  <1>4. CASE Receive(w)
    <2>1. /\ wpc[w] = "idle" /\ wpc'[w] = "got" /\ wid'[w] = Head(pending) /\ Others
          /\ pending # <<>> /\ pending' = Tail(pending) /\ senders' = senders /\ starts' = starts
      BY <1>0, <1>4 DEF Receive
    <2>2. Taken(x)' = Taken(x) + One(x = Head(pending)) /\ Running(x)' = Running(x)
      BY <1>1, <2>1, WorkerMoves DEF One
    <2>3. Cardinality(SlotsOf(pending, x)) = Cardinality(SlotsOf(pending', x)) + One(x = Head(pending))
      BY <1>0, <2>1, SlotsTail
    <2>4. Cardinality(SlotsOf(pending', x)) \in Nat /\ senders[x] \in Nat
      <3>1. pending' \in Seq(Ids)
        BY <1>0, <2>1
      <3> QED  BY <1>0, <3>1, SlotsFinite
    <2>5. InQueue(x)' = InQueue(x) - One(x = Head(pending))
      BY <2>1, <2>3, <2>4 DEF InQueue, One
    <2> QED  BY <1>1, <1>2, <1>3, <2>1, <2>2, <2>5 DEF Effects, Settles, Load, One
  <1>5. CASE WorkerExits(w) \/ RunSkipped(w) \/ RunUnknownKind(w) \/ RunClaim(w) \/ RunLogFails(w)
             \/ \E outcome \in {"done", "failed"} : RunEnd(w, outcome)
    <2>1. /\ starts' = starts /\ UNCHANGED chanVars /\ Others
          /\ \/ wpc[w] = "got" /\ wpc'[w] = "started" /\ wid'[w] = wid[w]
             \/ wpc'[w] \in {"idle", "exited"}
      BY <1>0, <1>5 DEF WorkerExits, RunSkipped, RunUnknownKind, RunClaim, RunLogFails, RunEnd
    <2>2. InQueue(x)' = InQueue(x)
      BY <2>1, CountFrame
    <2>3. Taken(x)' <= Taken(x) /\ Running(x)' <= Running(x)
      BY <1>1, <2>1, WorkerMoves DEF One
    <2>4. Taken(x)' \in Int /\ Running(x)' \in Int
      BY <1>1, <2>1, WorkerMoves DEF One
    <2> QED  BY <1>1, <1>2, <1>3, <2>1, <2>2, <2>3, <2>4 DEF Effects, Settles, Load
  <1>6. CASE RunBegin(w)
    <2>1. /\ wpc[w] = "started" /\ wpc'[w] = "running" /\ wid'[w] = wid[w] /\ wid[w] \in Ids
          /\ starts' = [starts EXCEPT ![wid[w]] = @ + 1] /\ UNCHANGED chanVars /\ Others
      BY <1>0, <1>6 DEF RunBegin
    <2>2. InQueue(x)' = InQueue(x)
      BY <2>1, CountFrame
    <2>3. Taken(x)' = Taken(x) - One(wid[w] = x) /\ Running(x)' = Running(x) + One(wid[w] = x)
      BY <1>1, <2>1, WorkerMoves DEF One
    <2>4. starts'[x] = starts[x] + One(wid[w] = x)
      BY <1>0, <2>1 DEF One
    <2>5. CASE wid[w] = x
      BY <1>1, <1>2, <1>3, <2>2, <2>3, <2>4, <2>5 DEF Effects, Begins, Load, One
    <2>6. CASE wid[w] # x
      BY <1>0, <1>1, <1>2, <1>3, <2>2, <2>3, <2>4, <2>6 DEF Effects, Settles, Load, One
    <2> QED  BY <2>5, <2>6
  <1> QED  BY <1>4, <1>5, <1>6 DEF WorkerStep

(* Every step has one of the four effects on a job that stays in the process. *)
LEMMA NextEffects ==
    ASSUME TypeOK, LocalInv, OrderInv, [Next]_vars, NEW x \in Ids, InProcess(x)
    PROVE  Effects(x)
  <1> USE DEF restVars, workerVars, chanVars, clientVars
  <1>1. CASE NewQueue
    BY <1>1, BootPushes DEF Effects
  <1>2. CASE Crash
    BY <1>2, CrashSettles DEF Effects
  <1>3. (BootStep /\ ~NewQueue) \/ ShutdownStep \/ ReaperStep => Effects(x)
    <2>1. (BootStep /\ ~NewQueue) \/ ShutdownStep \/ ReaperStep =>
             UNCHANGED <<chanVars, cid, wpc, wid, reqs, starts>>
      BY DEF BootStep, Register, SetDetach, SetNotifier, ShutdownStep,
             ShutdownBegin, ShutdownDone, ShutdownTimeout, ReaperStep, ReapApply, ReapSnapshot,
             ReapRead, ReapProbe
    <2> QED  BY <2>1, FrameSettles
  <1>4. ASSUME NEW c \in Clients, DispatchStep(c) PROVE Effects(x)
    BY <1>4, DispatchEffects DEF Effects
  <1>5. ASSUME NEW c \in Clients, NEW id \in Ids, Request(c, id) PROVE Effects(x)
    BY <1>5, RequestEffects
  <1>6. ASSUME NEW w \in Workers, WorkerStep(w) PROVE Effects(x)
    BY <1>6, WorkerEffects
  <1>7. ASSUME NEW id \in Ids, SenderProceeds(id) PROVE Effects(x)
    <2>1. /\ pending' = Append(pending, id) /\ senders' = [senders EXCEPT ![id] = @ - 1]
          /\ senders[id] > 0 /\ UNCHANGED <<cid, wpc, wid, reqs, starts>>
          /\ pending \in Seq(Ids) /\ senders \in [Ids -> Nat]
      BY <1>7 DEF SenderProceeds, TypeOK, ChanTypes
    <2>2. InQueue(x) \in Nat /\ InCall(x) \in Nat /\ Taken(x) \in Nat /\ Running(x) \in Nat
      BY CountTypes
    <2>3. InCall(x)' = InCall(x) /\ Taken(x)' = Taken(x) /\ Running(x)' = Running(x)
      BY <2>1, CountFrame
    <2>4. Cardinality(SlotsOf(pending', x)) = Cardinality(SlotsOf(pending, x)) + One(x = id)
      BY <2>1, SlotsAppend
    <2>5. Cardinality(SlotsOf(pending, x)) \in Nat
      BY <2>1, SlotsFinite
    <2>6. senders'[x] = senders[x] - One(x = id) /\ senders[x] \in Nat
      BY <2>1 DEF One
    <2>7. InQueue(x)' = InQueue(x)
      BY <2>4, <2>5, <2>6 DEF InQueue, One
    <2> QED  BY <2>1, <2>2, <2>3, <2>7 DEF Effects, Settles, Load
  <1>8. ASSUME NEW id \in Ids, GraceExpires(id) \/ ProcStep(id) PROVE Effects(x)
    <2>1. UNCHANGED <<chanVars, cid, wpc, wid, reqs>>
      BY <1>8 DEF GraceExpires, ProcStep, ScopeUp, ProcBegin, ProcNoRunner, ProcFinish, ProcExit
    <2>2. starts'[x] = starts[x]
      <3>1. proc[x] = "none" /\ starts \in [Ids -> Nat]
        BY DEF LocalInv, ScopesInv, TypeOK, RestTypes
      <3> QED  BY <1>8, <3>1
               DEF GraceExpires, ProcStep, ScopeUp, ProcBegin, ProcNoRunner, ProcFinish, ProcExit
    <2> QED  BY <2>1, <2>2, FrameSettles
  <1>9. UNCHANGED vars => Effects(x)
    BY FrameSettles DEF vars
  <1> QED  BY <1>1, <1>2, <1>3, <1>4, <1>5, <1>6, <1>7, <1>8, <1>9 DEF Next, BootStep

-----------------------------------------------------------------------------
(* At most once.                                                           *)

(* A job that waits has somewhere to be counted.                           *)
Counted ==
    \A x \in Ids : /\ Load(x) \in Nat /\ Running(x) \in Nat
                   /\ Waiting(x) => Load(x) >= 1

LEMMA WaitingIsCounted == TypeOK => Counted
  <1> SUFFICES ASSUME TypeOK, NEW x \in Ids, Waiting(x) PROVE Load(x) >= 1
    BY CountTypes DEF Counted
  <1>1. InQueue(x) \in Nat /\ InCall(x) \in Nat /\ Taken(x) \in Nat
        /\ IsFiniteSet(Callers(x)) /\ IsFiniteSet(Takers(x))
    BY CountTypes
  <1>2. pending \in Seq(Ids) /\ senders[x] \in Nat
    BY DEF TypeOK, ChanTypes
  <1>3. ASSUME NEW S, IsFiniteSet(S), NEW e \in S PROVE Cardinality(S) \in Nat \ {0}
    BY <1>3, FS_EmptySet, FS_CardinalityType
  <1>4. IsFiniteSet(SlotsOf(pending, x)) /\ Cardinality(SlotsOf(pending, x)) \in Nat
    BY <1>2, SlotsFinite
  <1>5. CASE x \in Elems(pending)
    <2>1. PICK i \in 1..Len(pending) : pending[i] = x
      BY <1>5 DEF Elems
    <2>2. i \in SlotsOf(pending, x)
      BY <2>1 DEF SlotsOf
    <2>3. Cardinality(SlotsOf(pending, x)) \in Nat \ {0}
      BY <1>3, <1>4, <2>2
    <2> QED  BY <1>1, <1>2, <2>3 DEF Load, InQueue
  <1>6. CASE senders[x] > 0
    BY <1>1, <1>2, <1>4, <1>6 DEF Load, InQueue
  <1>7. ASSUME NEW c \in Clients, cid[c] = x PROVE Load(x) >= 1
    <2>1. c \in Callers(x)
      BY <1>7 DEF Callers
    <2>2. InCall(x) \in Nat \ {0}
      BY <1>1, <1>3, <2>1 DEF InCall
    <2> QED  BY <1>1, <2>2 DEF Load
  <1>8. ASSUME NEW w \in Workers, wid[w] = x, wpc[w] = "got" PROVE Load(x) >= 1
    <2>1. w \in Takers(x)
      BY <1>8 DEF Takers
    <2>2. Taken(x) \in Nat \ {0}
      BY <1>1, <1>3, <2>1 DEF Taken
    <2> QED  BY <1>1, <2>2 DEF Load
  <1> QED  BY <1>5, <1>6, <1>7, <1>8 DEF Waiting

(* What was begun and what may still begin was asked for; a queued job in
   state.json, which a boot pushes again, has a request left.              *)
OnceInv ==
    \A x \in Ids : InProcess(x) /\ KindOf[x] \notin SafeKinds =>
        /\ starts[x] + Load(x) <= reqs[x]
        /\ x \in DOMAIN disk.rec /\ disk.rec[x].status = "queued" => starts[x] < reqs[x]

(* No step that leaves the server down writes state.json.                  *)
LEMMA DownKeepsDisk ==
    ASSUME TypeOK, LocalInv, [Next]_vars, phase' = "down"
    PROVE  disk' = disk
  <1> USE DEF bootVars, LocalInv, QuietInv
  <1>1. Crash => disk' = disk
    BY DEF Crash
  <1>2. ~(BootStep \/ ShutdownStep)
    BY DEF BootStep, NewQueue, Register, SetDetach, SetNotifier, ShutdownStep,
           ShutdownBegin, ShutdownDone, ShutdownTimeout
  <1>3. ~ReaperStep
    BY DEF ReaperStep, ReapApply, ReapSnapshot, ReapRead, ReapProbe
  <1>4. ASSUME NEW c \in Clients PROVE ~DispatchStep(c)
    BY DEF DispatchStep, DispatchInProcess, DispatchRemoveFile, DispatchLaunch,
           DispatchLaunchFails, DispatchCommit, DispatchFallback, ScopeStop
  <1>5. ASSUME NEW c \in Clients, NEW id \in Ids PROVE ~Request(c, id)
    BY DEF Request, Enqueue, Cancel, Delete, Rerun
  <1>6. ASSUME NEW w \in Workers PROVE ~WorkerStep(w)
    BY DEF WorkerStep, Receive, WorkerExits, RunSkipped, RunUnknownKind, RunClaim,
           RunLogFails, RunBegin, RunEnd
  <1>7. ASSUME NEW id \in Ids
        PROVE  SenderProceeds(id) \/ GraceExpires(id) \/ ProcStep(id) => disk' = disk
    BY DEF SenderProceeds, GraceExpires, ProcStep, ScopeUp, ProcBegin, ProcNoRunner,
           ProcFinish, ProcExit
  <1>8. UNCHANGED vars => disk' = disk
    BY DEF vars
  <1> QED  BY <1>1, <1>2, <1>3, <1>4, <1>5, <1>6, <1>7, <1>8 DEF Next

LEMMA OnceStep ==
    ASSUME TypeOK, LocalInv, OrderInv, OnceInv, DiskMatchesMemory, [Next]_vars,
           TypeOK', LocalInv', NoLostJob', DiskMatchesMemory', Counted'
    PROVE  OnceInv'
  <1> SUFFICES ASSUME NEW x \in Ids, InProcess(x), KindOf[x] \notin SafeKinds
               PROVE  /\ starts'[x] + Load(x)' <= reqs'[x]
                      /\ x \in DOMAIN disk'.rec /\ disk'.rec[x].status = "queued"
                            => starts'[x] < reqs'[x]
    BY DEF OnceInv, InProcess
  <1>1. /\ starts[x] + Load(x) <= reqs[x]
        /\ x \in DOMAIN disk.rec /\ disk.rec[x].status = "queued" => starts[x] < reqs[x]
    BY DEF OnceInv
  <1>2. /\ starts[x] \in Nat /\ reqs[x] \in Nat /\ Load(x) \in Nat /\ Running(x) \in Nat
        /\ starts'[x] \in Nat /\ reqs'[x] \in Nat
    BY CountTypes DEF TypeOK, RestTypes
  <1>3. Load(x)' \in Nat
    BY DEF Counted
  <1>4. Effects(x)
    BY NextEffects
  <1>5. starts'[x] + Load(x)' <= reqs'[x]
    <2>1. CASE Settles(x) \/ Begins(x) \/ Asks(x)
      BY <1>1, <1>2, <1>3, <2>1 DEF Settles, Begins, Asks
    <2>2. CASE Boots(x)
      <3>1. x \in jobs' /\ status'[x] = "queued" => starts[x] < reqs[x]
        <4> SUFFICES ASSUME x \in jobs', status'[x] = "queued" PROVE starts[x] < reqs[x]
          OBVIOUS
        <4>1. x \in DOMAIN disk.rec /\ Reconciled(x) = "queued"
          BY <2>2 DEF Boots, NewQueue
        <4>2. disk.rec[x].scoped = FALSE
          BY <4>1 DEF LocalInv, ScopesInv
        <4>3. disk.rec[x].status = "queued"
          BY <4>1, <4>2 DEF Reconciled, SafeToResume
        <4> QED  BY <1>1, <4>1, <4>3
      <3> QED  BY <1>1, <1>2, <1>3, <2>2, <3>1 DEF Boots, One
    <2> QED  BY <1>4, <2>1, <2>2 DEF Effects
  <1>6. ASSUME x \in DOMAIN disk'.rec, disk'.rec[x].status = "queued"
        PROVE  starts'[x] < reqs'[x]
    <2>1. CASE phase' \in Up
      <3>1. x \in jobs' /\ status'[x] = "queued"
        BY <1>6, <2>1 DEF DiskMatchesMemory, Snapshot
      <3>2. Waiting(x)'
        BY <2>1, <3>1 DEF NoLostJob
      <3>3. Load(x)' >= 1
        BY <3>2 DEF Counted
      <3> QED  BY <1>2, <1>3, <1>5, <3>3
    <2>2. CASE phase' \notin Up
      <3>1. phase' = "down"
        BY <2>2 DEF TypeOK, RestTypes
      <3>2. disk' = disk
        BY <3>1, DownKeepsDisk
      <3>3. Runners(x)' = {}
        BY <3>1 DEF LocalInv, QuietInv, Runners
      <3>4. Running(x)' = 0
        BY <3>3, FS_EmptySet DEF Running
      <3>5. starts'[x] = starts[x] /\ reqs'[x] >= reqs[x]
        BY <1>2, <1>4, <3>4 DEF Effects, Settles, Begins, Asks, Boots
      <3> QED  BY <1>1, <1>2, <1>6, <3>2, <3>5
    <2> QED  BY <2>1, <2>2
  <1> QED  BY <1>5, <1>6

LEMMA InitCounts == ASSUME Init, NEW x \in Ids PROVE Load(x) = 0 /\ Running(x) = 0
  <1>1. SlotsOf(pending, x) = {} /\ Callers(x) = {} /\ Takers(x) = {} /\ Runners(x) = {}
    <2>1. pending = <<>> /\ Len(<<>>) = 0
      BY DEF Init
    <2>2. SlotsOf(<<>>, x) = {}
      BY <2>1 DEF SlotsOf
    <2> QED  BY <2>1, <2>2, QueueAssumptions DEF Init, Callers, Takers, Runners
  <1>2. senders[x] = 0
    BY DEF Init
  <1> QED  BY <1>1, <1>2, FS_EmptySet DEF InQueue, InCall, Taken, Running, Load

LEMMA OnceHolds == Spec => []OnceInv
  <1>1. Init => OnceInv
    <2> SUFFICES ASSUME Init PROVE OnceInv
      OBVIOUS
    <2>1. ASSUME NEW x \in Ids PROVE starts[x] + Load(x) <= reqs[x]
      BY InitCounts DEF Init
    <2>2. DOMAIN disk.rec = {}
      BY DEF Init, Snapshot
    <2> QED  BY <2>1, <2>2 DEF OnceInv
  <1>2. /\ TypeOK /\ OrderInv /\ LocalInv /\ OnceInv /\ DiskMatchesMemory /\ [Next]_vars
        /\ TypeOK' /\ LocalInv' /\ NoLostJob' /\ DiskMatchesMemory' /\ Counted'
        => OnceInv'
    BY OnceStep
  <1> QED  BY <1>1, <1>2, LocalHolds, TypeCorrect, CrashSafe, QueuedNeverLost,
              WaitingIsCounted, PTL DEF Spec

(* Side effects are not repeated: when the kinds that run detached are safe
   to resume, a job that is not is run at most once for every Enqueue and
   Rerun, through cancels and reruns while it is queued, shutdowns, crashes
   and boots.  Detached kinds need the hypothesis: for them the boot_resume
   run has a counterexample.                                               *)
THEOREM RunAtMostOnce ==
    ASSUME DetachKinds \subseteq SafeKinds
    PROVE  Spec => []AtMostOnce
  <1>1. TypeOK /\ OnceInv => AtMostOnce
    <2> SUFFICES ASSUME TypeOK, OnceInv, NEW x \in Ids, KindOf[x] \notin SafeKinds
                 PROVE  starts[x] <= reqs[x]
      BY DEF AtMostOnce
    <2>1. Load(x) \in Nat /\ starts[x] \in Nat /\ reqs[x] \in Nat
      BY CountTypes DEF TypeOK, RestTypes
    <2>2. starts[x] + Load(x) <= reqs[x]
      BY DEF OnceInv, InProcess
    <2> QED  BY <2>1, <2>2
  <1> QED  BY <1>1, OnceHolds, TypeCorrect, PTL

-----------------------------------------------------------------------------
(* One holder at a time, for a job that stays in the process and is not both
   cancelled and rerun.                                                    *)
Plain(x) == InProcess(x) /\ ~({"cancel", "rerun"} \subseteq Requests[x])

Asked(x) == \E c \in Clients : Enqueue(c, x) \/ Rerun(c, x)

(* The steps that make a job wait: a request, and a boot.                  *)
LEMMA NewlyWaiting ==
    ASSUME TypeOK, [Next]_vars, NEW x \in Ids, Waiting(x)', ~Waiting(x), ~Crash
    PROVE  Asked(x) \/ NewQueue
  <1> USE DEF chanVars, workerVars, clientVars
  <1> DEFINE Same == UNCHANGED <<pending, senders, cpc, cid, wpc, wid>>
             Goal == Asked(x) \/ NewQueue
  <1>0. ~Same
    BY DEF Waiting
  <1>1. /\ x \notin Elems(pending) /\ ~(senders[x] > 0)
        /\ pending \in Seq(Ids) /\ senders \in [Ids -> Nat]
        /\ \A c \in Clients : ~Dispatching(x, c)
        /\ \A w \in Workers : ~Received(x, w)
    BY DEF Waiting, TypeOK, ChanTypes, Dispatching, Received
  <1>2. \/ x \in Elems(pending') \/ senders'[x] > 0
        \/ \E c \in Clients : Dispatching(x, c)'
        \/ \E w \in Workers : Received(x, w)'
    BY DEF Waiting, Dispatching, Received
  <1>3. ASSUME NEW y \in Ids, y # x, pushPending(y)
        PROVE  x \notin Elems(pending') /\ ~(senders'[x] > 0)
    <2>1. CASE Len(pending) < PendingCap
      BY <1>1, <1>3, <2>1, ElemsAppend DEF pushPending
    <2>2. CASE ~(Len(pending) < PendingCap)
      BY <1>1, <1>3, <2>2 DEF pushPending
    <2> QED  BY <2>1, <2>2
  <1>4. BootStep \/ ShutdownStep \/ ReaperStep => NewQueue
    <2>1. (BootStep /\ ~NewQueue) \/ ShutdownStep \/ ReaperStep => Same
      BY DEF BootStep, Register, SetDetach, SetNotifier, ShutdownStep,
             ShutdownBegin, ShutdownDone, ShutdownTimeout, ReaperStep, ReapApply, ReapSnapshot,
             ReapRead, ReapProbe
    <2> HIDE DEF Same
    <2> QED  BY <1>0, <2>1
  <1>5. ASSUME NEW c \in Clients, DispatchStep(c) PROVE FALSE
    <2>1. cid[c] \in Ids /\ cid[c] # x
      BY <1>1, <1>5, <1>2 DEF DispatchStep, DispatchInProcess, DispatchRemoveFile, DispatchLaunch,
         DispatchLaunchFails, DispatchCommit, DispatchFallback, ScopeStop, TypeOK, ClientTypes,
         Dispatching, Received
    <2>2. UNCHANGED <<wpc, wid>> /\ (UNCHANGED chanVars \/ pushPending(cid[c]))
      BY <1>5 DEF DispatchStep, DispatchInProcess, DispatchRemoveFile, DispatchLaunch,
         DispatchLaunchFails, DispatchCommit, DispatchFallback, ScopeStop
    <2>3. \A d \in Clients : ~Dispatching(x, d)'
      BY <1>1, <1>5, <2>1, QueueAssumptions DEF DispatchStep, DispatchInProcess, DispatchRemoveFile,
         DispatchLaunch, DispatchLaunchFails, DispatchCommit, DispatchFallback, ScopeStop, TypeOK,
         ClientTypes, Dispatching
    <2>4. x \notin Elems(pending') /\ ~(senders'[x] > 0)
      BY <1>1, <1>3, <2>1, <2>2
    <2>5. \A w \in Workers : ~Received(x, w)'
      BY <1>1, <2>2 DEF Received
    <2> QED  BY <1>2, <2>3, <2>4, <2>5
  <1>6. ASSUME NEW c \in Clients, NEW id \in Ids, Request(c, id) PROVE Asked(x)
    <2>1. CASE Enqueue(c, id) \/ Rerun(c, id)
      <3>1. CASE id = x
        BY <2>1, <3>1 DEF Asked
      <3>2. CASE id # x
        <4>1. /\ UNCHANGED <<pending, senders, wpc, wid>>
              /\ cid' = [cid EXCEPT ![c] = id] /\ cpc' = [cpc EXCEPT ![c] = "dispatch"]
          BY <2>1 DEF Enqueue, Rerun
        <4>2. \A d \in Clients : ~Dispatching(x, d)'
          BY <1>1, <3>2, <4>1 DEF Dispatching, TypeOK, ClientTypes
        <4> QED  BY <1>1, <1>2, <4>1, <4>2 DEF Received
      <3> QED  BY <3>1, <3>2
    <2>2. CASE Delete(c, id)
      BY <1>0, <2>2 DEF Delete
    <2>3. CASE Cancel(c, id)
      <3>1. /\ UNCHANGED <<pending, senders, wpc, wid>>
            /\ \A d \in Clients : ~Dispatching(x, d)'
        BY <1>1, <2>3 DEF Cancel, Dispatching, TypeOK, ClientTypes
      <3> QED  BY <1>1, <1>2, <3>1 DEF Received
    <2> QED  BY <1>6, <2>1, <2>2, <2>3 DEF Request
  <1>7. ASSUME NEW w \in Workers, WorkerStep(w) PROVE FALSE
    <2>1. UNCHANGED <<cpc, cid, senders>>
      BY <1>7 DEF WorkerStep, Receive, WorkerExits, RunSkipped, RunUnknownKind, RunClaim,
           RunLogFails, RunBegin, RunEnd
    <2>2. x \notin Elems(pending') /\ \A v \in Workers : ~Received(x, v)'
      <3>1. CASE Receive(w)
        <4>1. /\ pending # <<>> /\ pending' = Tail(pending)
              /\ wpc' = [wpc EXCEPT ![w] = "got"] /\ wid' = [wid EXCEPT ![w] = Head(pending)]
          BY <3>1 DEF Receive
        <4>2. Len(pending) \in Nat \ {0} /\ Head(pending) = pending[1]
              /\ Len(Tail(pending)) = Len(pending) - 1
              /\ \A i \in 1..Len(Tail(pending)) : Tail(pending)[i] = pending[i + 1]
          BY <1>1, <4>1
        <4>3. Head(pending) \in Elems(pending)
          BY <4>2 DEF Elems
        <4>4. Head(pending) # x
          BY <1>1, <4>3
        <4>5. x \notin Elems(Tail(pending))
          <5> SUFFICES ASSUME NEW i \in 1..Len(Tail(pending)), Tail(pending)[i] = x PROVE FALSE
            BY DEF Elems
          <5>1. i + 1 \in 1..Len(pending) /\ pending[i + 1] = x
            BY <4>2
          <5> QED  BY <1>1, <5>1 DEF Elems
        <4> QED  BY <1>1, <4>1, <4>4, <4>5 DEF Received, TypeOK, WorkerTypes
      <3>2. CASE ~Receive(w)
        BY <1>1, <1>7, <3>2 DEF WorkerStep, WorkerExits, RunSkipped, RunUnknownKind, RunClaim,
           RunLogFails, RunBegin, RunEnd, Received, TypeOK, WorkerTypes
      <3> QED  BY <3>1, <3>2
    <2> QED  BY <1>1, <1>2, <2>1, <2>2 DEF Dispatching
  <1>8. ASSUME NEW id \in Ids, SenderProceeds(id) PROVE FALSE
    <2>1. /\ id # x /\ pending' = Append(pending, id) /\ senders' = [senders EXCEPT ![id] = @ - 1]
          /\ UNCHANGED <<cpc, cid, wpc, wid>>
      BY <1>1, <1>8 DEF SenderProceeds
    <2>2. x \notin Elems(pending') /\ ~(senders'[x] > 0)
      BY <1>1, <2>1, ElemsAppend
    <2> QED  BY <1>1, <1>2, <2>1, <2>2 DEF Dispatching, Received
  <1>9. ASSUME NEW id \in Ids, GraceExpires(id) \/ ProcStep(id) PROVE FALSE
    <2>1. Same
      BY <1>9 DEF GraceExpires, ProcStep, ScopeUp, ProcBegin, ProcNoRunner, ProcFinish, ProcExit
    <2> QED  BY <1>0, <2>1
  <1>10. UNCHANGED vars => Same
    BY DEF vars
  <1> HIDE DEF Same
  <1> QED  BY <1>0, <1>4, <1>5, <1>6, <1>7, <1>8, <1>9, <1>10, Zenon DEF Next

(* Workers that have the job, in whatever place of runOne.                 *)
Holds(w, x) == wid[w] = x /\ wpc[w] \in {"got", "started", "running"}

(* What a step may do to the status of a job that stays in the process, and
   to its place in the map.                                                *)
Kept(x) ==
    /\ status'[x] = status[x] /\ (x \in jobs' => x \in jobs)
    /\ x \in jobs \ jobs' => isTerminal(status[x]) /\ phase \in {"ready", "serving", "stopping"}
Claims(x) ==
    \E w \in Workers :
        /\ wid[w] = x /\ wpc[w] = "got" /\ ~Skipped(x) /\ jobs' = jobs
        /\ \/ status'[x] = "running" /\ wid'[w] = x /\ wpc'[w] = "started"
           \/ status'[x] = "failed" /\ Load(x)' = Load(x) - 1
Finishes(x) ==
    \E w \in Workers :
        /\ wid[w] = x /\ wpc[w] \in {"started", "running"} /\ jobs' = jobs
        /\ isTerminal(status'[x]) /\ wpc'[w] = "idle"
        /\ \A v \in Workers \ {w} : wpc'[v] = wpc[v] /\ wid'[v] = wid[v]
        /\ \/ wpc[w] = "started" /\ Load(x)' = Load(x) - 1
           \/ wpc[w] = "running" /\ Load(x)' = Load(x) /\ Running(x)' = Running(x) - 1
Changes(x) ==
    \/ Kept(x)
    \/ Asked(x) /\ status'[x] = "queued" /\ reqs'[x] = reqs[x] + 1
    \/ NewQueue
    \/ Crash
    \/ /\ status[x] = "queued" /\ status'[x] = "cancelled" /\ jobs' = jobs
       /\ "cancel" \in Requests[x] /\ UNCHANGED <<wpc, wid>>
    \/ Claims(x)
    \/ Finishes(x)
    \/ status[x] = "running" /\ phase' = "drained" /\ jobs' = jobs /\ UNCHANGED <<wpc, wid>>

LEMMA RequestChanges ==
    ASSUME TypeOK, LocalInv, OrderInv, NEW x \in Ids, InProcess(x),
           NEW c \in Clients, NEW id \in Ids, Request(c, id)
    PROVE  Changes(x)
  <1> USE DEF workerVars
  <1>0. status \in [Ids -> Statuses] /\ jobs \subseteq Ids /\ scoped[x] = FALSE
    BY DEF TypeOK, JobTypes, LocalInv, ScopesInv
  <1>1. CASE Enqueue(c, id)
    <2>1. CASE id = x
      <3>1. status'[x] = "queued"
        BY <1>0, <1>1, <2>1 DEF Enqueue
      <3>2. reqs'[x] = 1 /\ reqs[x] = 0
        BY <1>1, <2>1 DEF Enqueue, LocalInv, ReqsInv, TypeOK, RestTypes
      <3> QED  BY <1>1, <2>1, <3>1, <3>2 DEF Changes, Asked
    <2>2. CASE id # x
      <3> DEFINE gone == Dropped(Append(order, id), status')
      <3>1. /\ status'[x] = status[x] /\ jobs' = (jobs \cup {id}) \ gone
            /\ phase \in {"ready", "serving", "stopping"}
        BY <1>0, <1>1, <2>2 DEF Enqueue
      <3>2. x \in gone => isTerminal(status'[x])
        BY DEF Dropped
      <3> HIDE DEF gone
      <3> QED  BY <2>2, <3>1, <3>2 DEF Changes, Kept
    <2> QED  BY <2>1, <2>2
  <1>2. CASE Rerun(c, id)
    <2>1. CASE id = x
      <3>1. status'[x] = "queued"
        BY <1>0, <1>2, <2>1 DEF Rerun
      <3>2. reqs'[x] = reqs[x] + 1
        BY <1>2, <2>1 DEF Rerun, TypeOK, RestTypes
      <3> QED  BY <1>2, <2>1, <3>1, <3>2 DEF Changes, Asked
    <2>2. CASE id # x
      BY <1>0, <1>2, <2>2 DEF Rerun, Changes, Kept
    <2> QED  BY <2>1, <2>2
  <1>3. CASE Delete(c, id)
    BY <1>0, <1>3 DEF Delete, Changes, Kept
  <1>4. CASE Cancel(c, id)
    BY <1>0, <1>4 DEF Cancel, Changes, Kept
  <1> QED  BY <1>1, <1>2, <1>3, <1>4 DEF Request

LEMMA WorkerChanges ==
    ASSUME TypeOK, LocalInv, NEW x \in Ids, NEW w \in Workers, WorkerStep(w)
    PROVE  Changes(x)
  <1> USE DEF jobVars, clientVars, chanVars
  <1>0. /\ status \in [Ids -> Statuses] /\ wid \in [Workers -> Ids \cup {None}]
        /\ wpc \in [Workers -> WorkerPc] /\ x # None
    BY QueueAssumptions DEF TypeOK, JobTypes, WorkerTypes
  <1>1. InQueue(x) \in Nat /\ InCall(x) \in Nat /\ Taken(x) \in Nat /\ Running(x) \in Nat
    BY CountTypes
  <1> DEFINE Others == \A v \in Workers \ {w} : wpc'[v] = wpc[v] /\ wid'[v] = wid[v]
  <1>2. CASE Receive(w) \/ WorkerExits(w) \/ RunSkipped(w) \/ RunBegin(w)
    BY <1>2 DEF Receive, WorkerExits, RunSkipped, RunBegin, Changes, Kept
  <1>3. CASE wid[w] # x /\ ~(Receive(w) \/ WorkerExits(w) \/ RunSkipped(w) \/ RunBegin(w))
    <2>1. status'[x] = status[x] /\ jobs' = jobs
      BY <1>0, <1>3 DEF WorkerStep, RunUnknownKind, RunClaim, RunLogFails, RunEnd
    <2> QED  BY <2>1 DEF Changes, Kept
  <1>4. CASE RunClaim(w) /\ wid[w] = x
    <2>1. /\ wpc[w] = "got" /\ ~Skipped(x) /\ jobs' = jobs
          /\ status'[x] = "running" /\ wid'[w] = x /\ wpc'[w] = "started"
      BY <1>0, <1>4 DEF RunClaim
    <2> QED  BY <1>4, <2>1 DEF Changes, Claims
  <1>5. CASE RunUnknownKind(w) /\ wid[w] = x
    <2>1. /\ wpc[w] = "got" /\ ~Skipped(x) /\ jobs' = jobs /\ status'[x] = "failed"
          /\ wpc'[w] = "idle" /\ Others /\ UNCHANGED <<pending, senders, cid>>
      BY <1>0, <1>5 DEF RunUnknownKind
    <2>2. Taken(x)' = Taken(x) - 1
      BY <1>1, <1>5, <2>1, WorkerMoves DEF One
    <2>3. InQueue(x)' = InQueue(x) /\ InCall(x)' = InCall(x)
      BY <2>1, CountFrame
    <2> QED  BY <1>1, <1>5, <2>1, <2>2, <2>3 DEF Changes, Claims, Load
  <1>6. CASE RunLogFails(w) /\ wid[w] = x
    <2>1. CASE x \in jobs
      <3>1. /\ wpc[w] = "started" /\ jobs' = jobs /\ status'[x] = "failed"
            /\ wpc'[w] = "idle" /\ Others /\ UNCHANGED <<pending, senders, cid>>
        BY <1>0, <1>6, <2>1 DEF RunLogFails
      <3>2. Taken(x)' = Taken(x) - 1
        BY <1>1, <1>6, <3>1, WorkerMoves DEF One
      <3>3. InQueue(x)' = InQueue(x) /\ InCall(x)' = InCall(x)
        BY <3>1, CountFrame
      <3>4. Load(x)' = Load(x) - 1
        BY <1>1, <3>2, <3>3 DEF Load
      <3> QED  BY <1>6, <3>1, <3>4 DEF Changes, Finishes
    <2>2. CASE x \notin jobs
      BY <1>6, <2>2 DEF RunLogFails, Changes, Kept
    <2> QED  BY <2>1, <2>2
  <1>7. ASSUME NEW outcome \in {"done", "failed"}, RunEnd(w, outcome), wid[w] = x
        PROVE  Changes(x)
    <2>1. /\ wpc[w] = "running" /\ jobs' = jobs /\ isTerminal(status'[x])
          /\ wpc'[w] = "idle" /\ Others /\ UNCHANGED <<pending, senders, cid>>
      BY <1>0, <1>7 DEF RunEnd
    <2>2. Taken(x)' = Taken(x) /\ Running(x)' = Running(x) - 1
      BY <1>1, <1>7, <2>1, WorkerMoves DEF One
    <2>3. InQueue(x)' = InQueue(x) /\ InCall(x)' = InCall(x)
      BY <2>1, CountFrame
    <2>4. Load(x)' = Load(x)
      BY <2>2, <2>3 DEF Load
    <2> QED  BY <1>7, <2>1, <2>2, <2>4 DEF Changes, Finishes
  <1> QED  BY <1>2, <1>3, <1>4, <1>5, <1>6, <1>7 DEF WorkerStep

LEMMA NextChanges ==
    ASSUME TypeOK, LocalInv, OrderInv, [Next]_vars, NEW x \in Ids, InProcess(x)
    PROVE  Changes(x)
  <1> USE DEF jobVars, workerVars
  <1>0. /\ status \in [Ids -> Statuses] /\ scoped[x] = FALSE /\ rid # x
        /\ \A c \in Clients : cpc[c] \in {"launched", "fallback"} => cid[c] # x
    BY DEF TypeOK, JobTypes, ClientTypes, LocalInv, ScopesInv, CallsInv
  <1>1. BootStep \/ Crash => Changes(x)
    <2>1. BootStep /\ ~NewQueue => UNCHANGED <<jobs, status>>
      BY DEF BootStep, Register, SetDetach, SetNotifier
    <2> QED  BY <2>1 DEF Changes, Kept
  <1>2. ShutdownStep => Changes(x)
    <2>1. ShutdownBegin \/ ShutdownDone => Kept(x)
      BY DEF ShutdownBegin, ShutdownDone, Kept
    <2>2. ShutdownTimeout => Changes(x)
      BY <1>0 DEF ShutdownTimeout, Changes, Kept
    <2> QED  BY <2>1, <2>2 DEF ShutdownStep, Changes
  <1>3. ReaperStep => Kept(x)
    BY <1>0 DEF ReaperStep, ReapApply, ReapSnapshot, ReapRead, ReapProbe, Kept
  <1>4. ASSUME NEW c \in Clients PROVE DispatchStep(c) => Kept(x)
    BY <1>0 DEF DispatchStep, DispatchInProcess, DispatchRemoveFile, DispatchLaunch,
           DispatchLaunchFails, DispatchCommit, DispatchFallback, ScopeStop, Kept
  <1>5. ASSUME NEW c \in Clients, NEW id \in Ids, Request(c, id) PROVE Changes(x)
    BY <1>5, RequestChanges
  <1>6. ASSUME NEW w \in Workers, WorkerStep(w) PROVE Changes(x)
    BY <1>6, WorkerChanges
  <1>7. ASSUME NEW id \in Ids
        PROVE  SenderProceeds(id) \/ GraceExpires(id) \/ ProcStep(id) => Kept(x)
    BY DEF SenderProceeds, GraceExpires, ProcStep, ScopeUp, ProcBegin, ProcNoRunner,
           ProcFinish, ProcExit, Kept
  <1>8. UNCHANGED vars => Kept(x)
    BY DEF vars, Kept
  <1>9. Kept(x) => Changes(x)
    BY DEF Changes
  <1> QED  BY <1>1, <1>2, <1>3, <1>4, <1>5, <1>6, <1>7, <1>8, <1>9 DEF Next

(* The steps that make a worker claim the job.                             *)
LEMMA NewlyClaimed ==
    ASSUME TypeOK, [Next]_vars, NEW x \in Ids, NEW w \in Workers,
           wid'[w] = x, Claimed(w)', ~(wid[w] = x /\ Claimed(w))
    PROVE  x \in jobs' /\ status'[x] = "running"
  <1> USE DEF workerVars, Claimed
  <1> DEFINE Same == UNCHANGED <<wpc, wid>>
  <1>0. /\ status \in [Ids -> Statuses] /\ wid \in [Workers -> Ids \cup {None}]
        /\ wpc \in [Workers -> WorkerPc] /\ x # None
    BY QueueAssumptions DEF TypeOK, JobTypes, WorkerTypes
  <1>1. ~Same
    OBVIOUS
  <1>2. ~(BootStep \/ Crash \/ ShutdownStep \/ ReaperStep)
    <2>1. ~(NewQueue \/ Crash)
      BY DEF NewQueue, Crash
    <2>2. (BootStep /\ ~NewQueue) \/ ShutdownStep \/ ReaperStep => Same
      BY DEF BootStep, Register, SetDetach, SetNotifier, ShutdownStep,
             ShutdownBegin, ShutdownDone, ShutdownTimeout, ReaperStep, ReapApply, ReapSnapshot,
             ReapRead, ReapProbe
    <2> HIDE DEF Same
    <2> QED  BY <1>1, <2>1, <2>2 DEF BootStep
  <1>3. ASSUME NEW c \in Clients PROVE DispatchStep(c) => Same
    BY DEF DispatchStep, DispatchInProcess, DispatchRemoveFile, DispatchLaunch,
           DispatchLaunchFails, DispatchCommit, DispatchFallback, ScopeStop
  <1>4. ASSUME NEW c \in Clients, NEW id \in Ids PROVE Request(c, id) => Same
    BY DEF Request, Enqueue, Cancel, Delete, Rerun
  <1>5. ASSUME NEW v \in Workers, WorkerStep(v) PROVE x \in jobs' /\ status'[x] = "running"
    <2>1. v = w /\ RunClaim(w)
      BY <1>0, <1>5 DEF WorkerStep, Receive, WorkerExits, RunSkipped, RunUnknownKind, RunClaim,
           RunLogFails, RunBegin, RunEnd
    <2>2. wid[w] = x
      BY <1>0, <2>1 DEF RunClaim
    <2> QED  BY <1>0, <2>1, <2>2 DEF RunClaim, Skipped
  <1>6. ASSUME NEW id \in Ids
        PROVE  SenderProceeds(id) \/ GraceExpires(id) \/ ProcStep(id) => Same
    BY DEF SenderProceeds, GraceExpires, ProcStep, ScopeUp, ProcBegin, ProcNoRunner,
           ProcFinish, ProcExit
  <1>7. UNCHANGED vars => Same
    BY DEF vars
  <1> HIDE DEF Same
  <1> QED  BY <1>1, <1>2, <1>3, <1>4, <1>5, <1>6, <1>7 DEF Next

(* Two ways to be run, or a worker that has claimed the job and another way,
   count as two.                                                           *)
Claimer(w, x) == wid[w] = x /\ Claimed(w)
Pairs ==
    \A x \in Ids : \A w \in Workers : Claimer(w, x) =>
        /\ Waiting(x) => Load(x) + Running(x) >= 2
        /\ \A v \in Workers \ {w} : Claimer(v, x) => Load(x) + Running(x) >= 2

LEMMA PairsCount == TypeOK => Pairs
  <1> SUFFICES ASSUME TypeOK, NEW x \in Ids, NEW w \in Workers, Claimer(w, x)
               PROVE  /\ Waiting(x) => Load(x) + Running(x) >= 2
                      /\ \A v \in Workers \ {w} : Claimer(v, x) => Load(x) + Running(x) >= 2
    BY DEF Pairs
  <1>1. /\ InQueue(x) \in Nat /\ InCall(x) \in Nat /\ Taken(x) \in Nat /\ Running(x) \in Nat
        /\ IsFiniteSet(Callers(x)) /\ IsFiniteSet(Takers(x)) /\ IsFiniteSet(Runners(x))
    BY CountTypes
  <1>2. ASSUME NEW S, IsFiniteSet(S), NEW e \in S PROVE Cardinality(S) \in Nat \ {0}
    BY <1>2, FS_EmptySet, FS_CardinalityType
  <1>3. ASSUME NEW S, IsFiniteSet(S), NEW e \in S, NEW f \in S, e # f PROVE Cardinality(S) >= 2
    <2>1. IsFiniteSet(S \ {e}) /\ Cardinality(S \ {e}) = Cardinality(S) - 1 /\ f \in S \ {e}
      BY <1>3, FS_RemoveElement
    <2>2. Cardinality(S \ {e}) \in Nat \ {0} /\ Cardinality(S) \in Nat
      BY <1>2, <1>3, <2>1, FS_CardinalityType
    <2> QED  BY <2>1, <2>2
  <1>4. ASSUME NEW v \in Workers \ {w}, Holds(v, x) PROVE Load(x) + Running(x) >= 2
    <2>1. (v \in Takers(x) \/ v \in Runners(x)) /\ (w \in Takers(x) \/ w \in Runners(x)) /\ v # w
      BY <1>4 DEF Claimer, Claimed, Takers, Runners, Holds
    <2>2. CASE v \in Takers(x) /\ w \in Takers(x)
      BY <1>1, <1>3, <2>1, <2>2 DEF Taken, Load
    <2>3. CASE v \in Runners(x) /\ w \in Runners(x)
      BY <1>1, <1>3, <2>1, <2>3 DEF Running, Load
    <2>4. CASE Takers(x) # {} /\ Runners(x) # {}
      <3>1. Taken(x) \in Nat \ {0} /\ Running(x) \in Nat \ {0}
        BY <1>1, <1>2, <2>4 DEF Taken, Running
      <3> QED  BY <1>1, <3>1 DEF Load
    <2> QED  BY <2>1, <2>2, <2>3, <2>4
  <1>5. Taken(x) + Running(x) >= 1
    <2>1. w \in Takers(x) \/ w \in Runners(x)
      BY DEF Claimer, Claimed, Takers, Runners
    <2>2. Taken(x) \in Nat \ {0} \/ Running(x) \in Nat \ {0}
      BY <1>1, <1>2, <2>1 DEF Taken, Running
    <2> QED  BY <1>1, <2>2
  <1>6. ASSUME Waiting(x) PROVE Load(x) + Running(x) >= 2
    <2>9. InQueue(x) > 0 \/ InCall(x) > 0 => Load(x) + Running(x) >= 2
      <3>1. \A a, b, c, d \in Nat : (a > 0 \/ b > 0) /\ c + d >= 1 => a + b + c + d >= 2
        OBVIOUS
      <3> QED  BY <1>1, <1>5, <3>1 DEF Load
    <2>0. pending \in Seq(Ids) /\ senders[x] \in Nat
      BY DEF TypeOK, ChanTypes
    <2>1. IsFiniteSet(SlotsOf(pending, x)) /\ Cardinality(SlotsOf(pending, x)) \in Nat
      BY <2>0, SlotsFinite
    <2>2. CASE x \in Elems(pending)
      <3>1. PICK i \in 1..Len(pending) : pending[i] = x
        BY <2>2 DEF Elems
      <3>2. i \in SlotsOf(pending, x)
        BY <3>1 DEF SlotsOf
      <3>3. Cardinality(SlotsOf(pending, x)) \in Nat \ {0}
        BY <1>2, <2>1, <3>2
      <3>4. InQueue(x) > 0
        BY <2>0, <3>3 DEF InQueue
      <3> QED  BY <2>9, <3>4
    <2>3. CASE senders[x] > 0
      <3>1. InQueue(x) > 0
        BY <2>0, <2>1, <2>3 DEF InQueue
      <3> QED  BY <2>9, <3>1
    <2>4. ASSUME NEW c \in Clients, cid[c] = x PROVE Load(x) + Running(x) >= 2
      <3>1. c \in Callers(x)
        BY <2>4 DEF Callers
      <3>2. InCall(x) \in Nat \ {0}
        BY <1>1, <1>2, <3>1 DEF InCall
      <3>3. InCall(x) > 0
        BY <3>2
      <3> QED  BY <2>9, <3>3
    <2>5. ASSUME NEW v \in Workers, wid[v] = x, wpc[v] = "got" PROVE Load(x) + Running(x) >= 2
      BY <1>4, <2>5 DEF Holds, Claimer, Claimed
    <2> QED  BY <1>6, <2>2, <2>3, <2>4, <2>5 DEF Waiting
  <1>7. ASSUME NEW v \in Workers \ {w}, Claimer(v, x) PROVE Load(x) + Running(x) >= 2
    BY <1>4, <1>7 DEF Claimer, Claimed, Holds
  <1> QED  BY <1>6, <1>7

(* A count above zero has a holder behind it.                              *)
LEMMA HolderExists ==
    ASSUME TypeOK, LocalInv, NEW x \in Ids, InProcess(x), Load(x) + Running(x) > 0
    PROVE  Waiting(x) \/ \E w \in Workers : Claimer(w, x)
  <1>1. /\ InQueue(x) \in Nat /\ InCall(x) \in Nat /\ Taken(x) \in Nat /\ Running(x) \in Nat
        /\ pending \in Seq(Ids) /\ senders[x] \in Nat
    BY CountTypes DEF TypeOK, ChanTypes
  <1>2. Cardinality(SlotsOf(pending, x)) \in Nat
    BY <1>1, SlotsFinite
  <1>3. \/ Cardinality(SlotsOf(pending, x)) # 0 \/ senders[x] > 0 \/ InCall(x) # 0
        \/ Taken(x) # 0 \/ Running(x) # 0
    BY <1>1, <1>2 DEF Load, InQueue
  <1>4. Cardinality(SlotsOf(pending, x)) # 0 => x \in Elems(pending)
    <2>1. Cardinality(SlotsOf(pending, x)) # 0 => SlotsOf(pending, x) # {}
      BY FS_EmptySet
    <2> QED  BY <2>1 DEF SlotsOf, Elems
  <1>5. InCall(x) # 0 => \E c \in Clients : cid[c] = x
    <2>1. InCall(x) # 0 => Callers(x) # {}
      BY FS_EmptySet DEF InCall
    <2> QED  BY <2>1 DEF Callers
  <1>6. Taken(x) # 0 \/ Running(x) # 0 =>
            \E w \in Workers : wid[w] = x /\ wpc[w] \in {"got", "started", "running"}
    <2>1. (Taken(x) # 0 => Takers(x) # {}) /\ (Running(x) # 0 => Runners(x) # {})
      BY FS_EmptySet DEF Taken, Running
    <2> QED  BY <2>1 DEF Takers, Runners
  <1>7. \A c \in Clients : cid[c] = x => cpc[c] = "dispatch"
    BY DEF LocalInv, CallsInv
  <1> QED  BY <1>3, <1>4, <1>5, <1>6, <1>7 DEF Waiting, Claimer, Claimed

(* A plain job has at most one way to be run; a worker that claimed it finds
   it running and in the map until the shutdown deadline; while it waits it
   is queued, or was cancelled and will be skipped.                        *)
Lone(x) ==
    /\ Load(x) + Running(x) <= 1
    /\ Load(x) + Running(x) > 0 => x \in issued
    /\ \A w \in Workers : Claimer(w, x) =>
          x \in jobs /\ (status[x] = "running" \/ phase = "drained")
    /\ Waiting(x) /\ x \in jobs =>
          status[x] = "queued" \/ (status[x] = "cancelled" /\ "cancel" \in Requests[x])
LoneInv == \A x \in Ids : Plain(x) => Lone(x)

LEMMA DrainedStays == [Next]_vars /\ phase = "drained" /\ ~Crash => phase' = "drained"
  <1> SUFFICES ASSUME [Next]_vars, phase = "drained", ~Crash PROVE phase' = "drained"
    OBVIOUS
  <1> USE DEF bootVars
  <1>1. ~BootStep /\ ~ShutdownStep
    BY DEF BootStep, NewQueue, Register, SetDetach, SetNotifier, ShutdownStep, ShutdownBegin,
           ShutdownDone, ShutdownTimeout
  <1>2. ReaperStep => phase' = phase
    BY DEF ReaperStep, ReapApply, ReapSnapshot, ReapRead, ReapProbe
  <1>3. ASSUME NEW c \in Clients PROVE DispatchStep(c) => phase' = phase
    BY DEF DispatchStep, DispatchInProcess, DispatchRemoveFile, DispatchLaunch,
           DispatchLaunchFails, DispatchCommit, DispatchFallback, ScopeStop
  <1>4. ASSUME NEW c \in Clients, NEW id \in Ids PROVE Request(c, id) => phase' = phase
    BY DEF Request, Enqueue, Cancel, Delete, Rerun
  <1>5. ASSUME NEW w \in Workers PROVE WorkerStep(w) => phase' = phase
    BY DEF WorkerStep, Receive, WorkerExits, RunSkipped, RunUnknownKind, RunClaim,
           RunLogFails, RunBegin, RunEnd
  <1>6. ASSUME NEW id \in Ids
        PROVE  SenderProceeds(id) \/ GraceExpires(id) \/ ProcStep(id) => phase' = phase
    BY DEF SenderProceeds, GraceExpires, ProcStep, ScopeUp, ProcBegin, ProcNoRunner,
           ProcFinish, ProcExit
  <1>7. UNCHANGED vars => phase' = phase
    BY DEF vars
  <1> QED  BY <1>1, <1>2, <1>3, <1>4, <1>5, <1>6, <1>7 DEF Next

LEMMA LoneStep ==
    ASSUME TypeOK, LocalInv, OrderInv, LoneInv, Pairs, Counted, [Next]_vars,
           TypeOK', OrderInv', Pairs', Counted'
    PROVE  LoneInv'
  <1> SUFFICES ASSUME NEW x \in Ids, Plain(x) PROVE Lone(x)'
    BY DEF LoneInv, Plain, InProcess
  <1>0. InProcess(x) /\ Lone(x) /\ ~({"cancel", "rerun"} \subseteq Requests[x])
    BY DEF LoneInv, Plain
  <1>1. Effects(x) /\ Changes(x)
    BY <1>0, NextEffects, NextChanges
  <1>2. Load(x) \in Nat /\ Running(x) \in Nat
    BY CountTypes
  <1>3. jobs \subseteq issued /\ issued \subseteq issued' /\ jobs' \subseteq issued'
    BY NextReorders DEF OrderInv
  <1>4. ASSUME Waiting(x)', x \in jobs' PROVE NewQueue => status'[x] = "queued"
    <2> SUFFICES ASSUME NewQueue PROVE status'[x] = "queued"
      OBVIOUS
    <2>1. Boots(x)
      BY BootPushes
    <2>2. Load(x)' >= 1
      BY <1>4 DEF Counted
    <2> QED  BY <2>1, <2>2 DEF Boots, One
  <1>5. Load(x)' + Running(x)' <= 1 /\ (Load(x)' + Running(x)' > 0 => x \in issued')
    <2>1. CASE Settles(x) \/ Begins(x)
      <3>1. Load(x)' + Running(x)' <= Load(x) + Running(x)
        BY <1>2, <2>1 DEF Settles, Begins
      <3>2. Load(x)' \in Nat /\ Running(x)' \in Nat
        BY DEF Counted
      <3> QED  BY <1>0, <1>2, <1>3, <3>1, <3>2 DEF Lone
    <2>2. CASE Asks(x)
      <3>1. Load(x) + Running(x) = 0
        <4> SUFFICES ASSUME Load(x) + Running(x) > 0 PROVE FALSE
          BY <1>2
        <4>1. /\ x \in jobs /\ isTerminal(status[x]) /\ phase = "serving"
              /\ "rerun" \in Requests[x]
          BY <1>0, <2>2 DEF Asks, Lone
        <4>2. Waiting(x) \/ \E w \in Workers : Claimer(w, x)
          BY <1>0, HolderExists
        <4> QED  BY <1>0, <4>1, <4>2 DEF Lone
      <3> QED  BY <1>2, <2>2, <3>1 DEF Asks
    <2>3. CASE Boots(x)
      BY <1>3, <2>3 DEF Boots, One
    <2> QED  BY <1>1, <2>1, <2>2, <2>3 DEF Effects
  <1>6. ASSUME NEW w \in Workers, Claimer(w, x)'
        PROVE  x \in jobs' /\ (status'[x] = "running" \/ phase' = "drained")
    <2>1. CASE ~Claimer(w, x)
      BY <1>6, <2>1, NewlyClaimed DEF Claimer
    <2>2. CASE Claimer(w, x)
      <3>0. ~NewQueue /\ ~Crash
        BY <1>6 DEF NewQueue, Crash, Claimer, Claimed
      <3>1. x \in jobs /\ (status[x] = "running" \/ phase = "drained")
        BY <1>0, <2>2 DEF Lone
      <3>2. phase = "drained" => phase' = "drained"
        BY <3>0, DrainedStays
      <3>3. CASE Kept(x)
        BY <3>1, <3>2, <3>3 DEF Kept
      <3>4. CASE Asked(x)
        BY <1>3, <3>1, <3>4 DEF Asked, Enqueue, Rerun
      <3>5. CASE Claims(x)
        <4>1. Waiting(x)
          BY <3>5 DEF Claims, Waiting
        <4> QED  BY <1>0, <1>2, <2>2, <4>1 DEF Pairs, Lone
      <3>6. CASE Finishes(x)
        <4>1. PICK v \in Workers : Claimer(v, x) /\ wpc'[v] = "idle"
          BY <3>6 DEF Finishes, Claimer, Claimed
        <4>2. v # w
          BY <1>6, <4>1 DEF Claimer, Claimed
        <4> QED  BY <1>0, <1>2, <2>2, <4>1, <4>2 DEF Pairs, Lone
      <3> QED  BY <1>1, <3>0, <3>1, <3>2, <3>3, <3>4, <3>5, <3>6 DEF Changes
    <2> QED  BY <2>1, <2>2
  <1>7. ASSUME Waiting(x)', x \in jobs'
        PROVE  status'[x] = "queued" \/ (status'[x] = "cancelled" /\ "cancel" \in Requests[x])
    <2>0. ~Crash
      BY <1>7 DEF Crash
    <2>1. Asked(x) => status'[x] = "queued"
      BY DEF Asked, Enqueue, Rerun, TypeOK, JobTypes
    <2>2. NewQueue => status'[x] = "queued"
      BY <1>4, <1>7
    <2>3. CASE ~Waiting(x)
      BY <1>7, <2>0, <2>1, <2>2, <2>3, NewlyWaiting
    <2>4. CASE Waiting(x)
      <3>1. x \in jobs => status[x] = "queued" \/ (status[x] = "cancelled" /\ "cancel" \in Requests[x])
        BY <1>0, <2>4 DEF Lone
      <3>2. CASE Kept(x)
        BY <1>7, <3>1, <3>2 DEF Kept
      <3>3. CASE Claims(x)
        <4>1. PICK w \in Workers :
                \/ Claimer(w, x)'
                \/ Load(x)' = Load(x) - 1
          BY <3>3 DEF Claims, Claimer, Claimed
        <4>2. Load(x)' >= 1
          BY <1>7 DEF Counted
        <4>3. CASE Claimer(w, x)'
          <5>1. Load(x)' + Running(x)' >= 2
            BY <1>7, <4>3 DEF Pairs
          <5>2. Load(x)' \in Nat /\ Running(x)' \in Nat
            BY DEF Counted
          <5> QED  BY <1>5, <5>1, <5>2
        <4>4. CASE Load(x)' = Load(x) - 1
          BY <1>0, <1>2, <4>2, <4>4 DEF Lone
        <4> QED  BY <4>1, <4>3, <4>4
      <3>4. CASE Finishes(x)
        <4>1. PICK v \in Workers : Claimer(v, x)
          BY <3>4 DEF Finishes, Claimer, Claimed
        <4> QED  BY <1>0, <1>2, <2>4, <4>1 DEF Pairs, Lone
      <3> QED  BY <1>1, <1>7, <2>0, <2>1, <2>2, <3>1, <3>2, <3>3, <3>4 DEF Changes
    <2> QED  BY <2>3, <2>4
  <1> QED  BY <1>5, <1>6, <1>7 DEF Lone

LEMMA LoneHolds == Spec => []LoneInv
  <1>1. Init => LoneInv
    <2> SUFFICES ASSUME Init, NEW x \in Ids PROVE Lone(x)
      BY DEF LoneInv
    <2>1. Load(x) = 0 /\ Running(x) = 0
      BY InitCounts
    <2>2. jobs = {} /\ \A w \in Workers : ~Claimed(w)
      BY DEF Init, Claimed
    <2> QED  BY <2>1, <2>2 DEF Lone, Claimer
  <1>2. /\ TypeOK /\ OrderInv /\ LocalInv /\ LoneInv /\ Pairs /\ Counted /\ [Next]_vars
        /\ TypeOK' /\ OrderInv' /\ Pairs' /\ Counted'
        => LoneInv'
    BY LoneStep
  <1> QED  BY <1>1, <1>2, LocalHolds, PairsCount, WaitingIsCounted, PTL DEF Spec

(* No worker loses the job it runs to Delete or pruneLocked, and no two run
   the same one, when every job stays in the server process and none may be
   both cancelled and rerun: a second push of a cancelled job's id that its
   worker has not skipped yet is what the cancel_rerun run shows.          *)
THEOREM JobsStayWithWorkers ==
    ASSUME \A x \in Ids : Plain(x)
    PROVE  Spec => []WorkersKeepJobs
  <1>1. TypeOK /\ LoneInv /\ Pairs /\ Counted => WorkersKeepJobs
    <2> SUFFICES ASSUME TypeOK, LoneInv, Pairs, Counted, NEW w \in Workers, Claimed(w)
                 PROVE  /\ wid[w] \in jobs
                        /\ \A v \in Workers \ {w} : Claimed(v) => wid[v] # wid[w]
      BY DEF WorkersKeepJobs
    <2> DEFINE x == wid[w]
    <2>1. x \in Ids /\ Claimer(w, x)
      BY DEF TypeOK, WorkerTypes, Claimed, Claimer
    <2> HIDE DEF x
    <2>2. Lone(x) /\ Load(x) \in Nat /\ Running(x) \in Nat
      BY <2>1 DEF LoneInv, Counted
    <2>3. x \in jobs
      BY <2>1, <2>2 DEF Lone
    <2>4. ASSUME NEW v \in Workers \ {w}, Claimed(v), wid[v] = x PROVE FALSE
      <3>1. Load(x) + Running(x) >= 2
        BY <2>1, <2>4 DEF Pairs, Claimer
      <3> QED  BY <2>2, <3>1 DEF Lone
    <2> QED  BY <2>3, <2>4 DEF x
  <1> QED  BY <1>1, LoneHolds, TypeCorrect, PairsCount, WaitingIsCounted, PTL

(* The end state.json records for a job stays until a Rerun, under the same
   hypothesis: no late worker, dispatch or boot overwrites it.             *)
THEOREM EndsStay ==
    ASSUME \A x \in Ids : Plain(x)
    PROVE  Spec => EndIsFinal
  <1> DEFINE Final(id) == disk'.rec[id].status = disk.rec[id].status
             Ended(id) == /\ isTerminal(disk.rec[id].status) /\ phase # "drained"
                          /\ reqs'[id] = reqs[id]
  <1>1. ASSUME TypeOK, LocalInv, OrderInv, LoneInv, DiskMatchesMemory, [Next]_vars,
               NEW x \in DOMAIN disk.rec \cap DOMAIN disk'.rec, Ended(x)
        PROVE  Final(x)
    <2>1. x \in Ids /\ reqs[x] \in Nat /\ phase \in Up \cup {"down"}
      BY <1>1 DEF TypeOK, DiskTypes, RestTypes
    <2>2. InProcess(x) /\ Lone(x)
      BY <1>1, <2>1 DEF LoneInv, Plain
    <2>3. Changes(x)
      BY <1>1, <2>1, <2>2, NextChanges
    <2>4. disk' = disk \/ persistLocked
      BY <1>1, NextReorders
    <2>5. CASE disk' = disk
      BY <2>5
    <2>6. CASE persistLocked /\ NewQueue
      <3>1. disk'.rec[x].status = status'[x] /\ x \in jobs'
        BY <1>1, <2>6 DEF persistLocked, Snapshot
      <3>2. status'[x] = Reconciled(x)
        BY <2>1, <2>6, <3>1 DEF NewQueue
      <3>3. disk.rec[x].status # "running"
        BY <1>1
      <3>4. Reconciled(x) = disk.rec[x].status
        BY <3>3 DEF Reconciled
      <3> QED  BY <3>1, <3>2, <3>4
    <2>7. CASE persistLocked /\ ~NewQueue /\ ~Crash
      <3>1. disk'.rec[x].status = status'[x] /\ x \in jobs'
        BY <1>1, <2>7 DEF persistLocked, Snapshot
      <3>2. Asked(x) => reqs'[x] # reqs[x]
        BY <1>1, <2>1 DEF Asked, Enqueue, Rerun, TypeOK, RestTypes, LocalInv, ReqsInv
      <3>3. CASE phase = "down"
        <4>1. jobs = {}
          BY <1>1, <3>3 DEF LocalInv, QuietInv
        <4> QED  BY <1>1, <2>3, <2>7, <3>1, <3>2, <4>1 DEF Changes, Kept, Claims, Finishes, Skipped
      <3>4. CASE phase \in Up
        <4>1. x \in jobs /\ status[x] = disk.rec[x].status
          BY <1>1, <3>4 DEF DiskMatchesMemory, Snapshot
        <4>2. isTerminal(status[x]) /\ phase # "drained"
          BY <1>1, <4>1
        <4>3. ~Claims(x)
          <5> SUFFICES ASSUME Claims(x) PROVE FALSE
            OBVIOUS
          <5>1. Waiting(x) /\ ~Skipped(x)
            BY DEF Claims, Waiting
          <5>2. status[x] = "queued" \/ status[x] = "cancelled"
            BY <2>2, <4>1, <5>1 DEF Lone
          <5> QED  BY <4>2, <5>1, <5>2 DEF Skipped
        <4>4. ~Finishes(x)
          <5> SUFFICES ASSUME NEW w \in Workers, Claimer(w, x) PROVE FALSE
            BY DEF Finishes, Claimer, Claimed
          <5> QED  BY <2>2, <4>2 DEF Lone
        <4>5. status'[x] = status[x]
          BY <1>1, <2>3, <2>7, <3>2, <4>2, <4>3, <4>4 DEF Changes, Kept
        <4> QED  BY <3>1, <4>1, <4>5
      <3> QED  BY <2>1, <3>3, <3>4
    <2>8. CASE Crash
      BY <2>8 DEF Crash
    <2> QED  BY <2>4, <2>5, <2>6, <2>7, <2>8
  <1>2. TypeOK /\ LocalInv /\ OrderInv /\ LoneInv /\ DiskMatchesMemory /\ [Next]_vars =>
            [\A id \in DOMAIN disk.rec \cap DOMAIN disk'.rec :
                /\ isTerminal(disk.rec[id].status) /\ phase # "drained"
                /\ reqs'[id] = reqs[id]
                => disk'.rec[id].status = disk.rec[id].status]_vars
    BY <1>1
  <1> QED  BY <1>2, LocalHolds, LoneHolds, CrashSafe, PTL DEF Spec, EndIsFinal
=============================================================================
