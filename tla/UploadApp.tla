----------------------------- MODULE UploadApp ------------------------------
(***************************************************************************)
(* The Android app as the caller of UploadServer: UploadWorker, its pump     *)
(* (ChunkedUploadPump), its resume memory (UploadResumeStore) and the clean- *)
(* up of abandoned transfers, for one unique work "upload:<dest>/<name>".    *)
(*                                                                          *)
(* WorkManager is external: it keeps one work per name (KEEP), persists its  *)
(* state, runs it again after a retry or the death of the app, and reports   *)
(* CANCELLED once the worker has stopped.  SharedPreferences.apply changes   *)
(* the memory at once and the disk some time later.                         *)
(***************************************************************************)
EXTENDS UploadServer

CONSTANT MaxPicks  \* bound: uploads the user asks for

ASSUME AppAssumption == MaxPicks \in Nat

VARIABLES
    work,      \* WorkInfo.State of the unique work, "none" before the first
    src,       \* KEY_SOURCE_URI of the work
    app,       \* the worker: [at, sid, off]
    req,       \* its request: [kind, sid, off, src, st], or None
    stray,     \* a request it gave up on that the server may still receive
    store,     \* UploadResumeStore in memory: [sid, off]
    disk,      \* and on the flash
    sweeping,  \* a clean-up has found the work inactive
    picks

phone == <<work, src, app, req, stray, store, disk, sweeping, picks>>
uploadVars == <<serverVars, phone>>

Active == {"enqueued", "running"}
NoStore == [sid |-> None, off |-> 0]
Idle == [at |-> "idle", sid |-> None, off |-> 0]

(* TransferViewModel.startUpload: KEEP drops the request while one is active. *)
StartUpload(f) ==
    /\ picks < MaxPicks /\ picks' = picks + 1
    /\ work \notin Active
    /\ work' = "enqueued" /\ src' = f
    /\ UNCHANGED <<serverVars, app, req, stray, store, disk, sweeping>>

Request(kind, sid, off) ==
    req' = [kind |-> kind, sid |-> sid, off |-> off, src |-> src, st |-> "sent"]

(* doWork and resolveSession: the stored session, else a new one.          *)
WorkBegins ==
    /\ work = "enqueued" /\ work' = "running"
    /\ IF store.sid # None
       THEN /\ app' = [at |-> "send", sid |-> store.sid, off |-> store.off]
            /\ UNCHANGED req
       ELSE /\ app' = [Idle EXCEPT !.at = "wait"]
            /\ Request("init", None, 0)
    /\ UNCHANGED <<serverVars, src, stray, store, disk, sweeping, picks>>

(* The pump: the next chunk, or the end of the file.                       *)
Send ==
    /\ app.at = "send"
    /\ app' = [app EXCEPT !.at = "wait"]
    /\ IF app.off < Size THEN Request("chunk", app.sid, app.off)
                         ELSE Request("complete", app.sid, 0)
    /\ UNCHANGED <<serverVars, work, src, stray, store, disk, sweeping, picks>>

(* UploadResumeStore.                                                      *)
saveSession_Keeps(sid) == store' = [store EXCEPT !.sid = sid]  \* mutant: bytes_uploaded is not reset
saveSession(sid) == store' = [sid |-> sid, off |-> 0]
saveProgress(off) == store' = [store EXCEPT !.off = off]

(* Result.retry, with or without the progress of the pump.                 *)
Retry == work' = "enqueued" /\ app' = Idle
Interrupted(off) == saveProgress(off) /\ Retry

(* The chunk was accepted: onProgress.                                     *)
Accepted_Stuck == app.off  \* mutant: the offset does not advance
Accepted == app.off + 1

Done_Gone(code) == code \in {200, 404}  \* mutant: a session that is gone was completed
Done(code) == code = 200

(* The answer to the worker's request.  transferErrorFor: 404 is worth a
   retry, the other 4xx and 507 are not.                                   *)
Receive ==
    /\ req # None /\ answer # None
    /\ answer.code = 409 => answer.n # Unread
    /\ req' = None /\ answer' = None
    /\ \/ /\ req.kind = "init" /\ answer.code = 200
          /\ saveSession(answer.n)
          /\ app' = [at |-> "send", sid |-> answer.n, off |-> 0]
          /\ UNCHANGED work
       \/ /\ req.kind = "init" /\ answer.code # 200
          /\ Retry /\ UNCHANGED store
       \/ /\ req.kind = "chunk" /\ answer.code = 200
          /\ app' = [app EXCEPT !.at = "send", !.off = Accepted]
          /\ saveProgress(Accepted)
          /\ UNCHANGED work
       \/ /\ req.kind = "complete" /\ Done(answer.code)
          /\ app' = [app EXCEPT !.at = "done"] /\ store' = NoStore
          /\ UNCHANGED work
       \/ /\ req.kind = "complete" /\ answer.code = 409
          /\ Interrupted(answer.n)
       \/ /\ req.kind # "init" /\ answer.code = 404
          /\ Interrupted(app.off)
       \/ /\ req.kind # "init" /\ answer.code \in {400, 507}
          /\ work' = "failed" /\ app' = Idle /\ UNCHANGED store
    /\ UNCHANGED <<now, sidecar, staged, made, op, dest, used, faults, calls,
                   src, stray, disk, sweeping, picks>>

WorkSucceeds ==
    /\ app.at = "done" /\ app' = Idle
    /\ work' = "succeeded"
    /\ UNCHANGED <<serverVars, src, req, stray, store, disk, sweeping, picks>>

(* The worker's request ends without an answer: lost on the way, or its
   answer was, or the server receives it later.                            *)
Abandon ==
    /\ req' = None /\ answer' = None
    /\ op' = [s \in Sids |-> IF op[s] # None /\ op[s].who = "app"
                             THEN [op[s] EXCEPT !.who = "stray"] ELSE op[s]]
    /\ \/ UNCHANGED stray
       \/ req # None /\ req.st = "sent" /\ stray = None /\ stray' = req

(* IOException: the server died, or the connection failed or timed out.    *)
RequestFails ==
    /\ Abandon
    /\ IF req.kind = "init" THEN Retry /\ UNCHANGED store ELSE Interrupted(app.off)
    /\ UNCHANGED <<now, sidecar, staged, made, dest, used, calls, src, disk, sweeping, picks>>

ServerGone == req # None /\ req.st = "lost" /\ RequestFails /\ UNCHANGED faults
GiveUp == req # None /\ faults < MaxFaults /\ faults' = faults + 1 /\ RequestFails

(* The source cannot be opened any more: Refused.                          *)
SourceLost ==
    /\ app.at = "send" /\ faults < MaxFaults /\ faults' = faults + 1
    /\ work' = "failed" /\ app' = Idle
    /\ UNCHANGED <<now, server, calls, src, req, stray, store, disk, sweeping, picks>>

(* The stream ends before the size the session was opened with: the pump
   completes what it has sent.                                             *)
SourceEndsEarly ==
    /\ app.at = "send" /\ app.off < Size /\ faults < MaxFaults /\ faults' = faults + 1
    /\ app' = [app EXCEPT !.at = "wait"]
    /\ Request("complete", app.sid, 0)
    /\ UNCHANGED <<now, server, calls, work, src, stray, store, disk, sweeping, picks>>

Cancel ==
    /\ work \in Active /\ faults < MaxFaults /\ faults' = faults + 1
    /\ work' = "cancelled" /\ app' = Idle
    /\ Abandon
    /\ UNCHANGED <<now, sidecar, staged, made, dest, used, calls, src, store, disk,
                   sweeping, picks>>

(* The app's process dies and is started again: what apply has not written
   yet is lost, and WorkManager runs the work again.                       *)
PhoneDies ==
    /\ faults < MaxFaults /\ faults' = faults + 1
    /\ work' = (IF work = "running" THEN "enqueued" ELSE work) /\ app' = Idle
    /\ store' = disk /\ sweeping' = FALSE
    /\ Abandon
    /\ UNCHANGED <<now, sidecar, staged, made, dest, used, calls, src, disk, picks>>

Flush ==
    /\ disk # store /\ disk' = store
    /\ UNCHANGED <<serverVars, work, src, app, req, stray, store, sweeping, picks>>

(* TransferGarbageCollector: cleanupCancelled when the screen sees CANCELLED,
   and sweep when the app starts; the state of the work is read first.     *)
SweepFinds ==
    /\ work \notin Active /\ ~sweeping /\ store # NoStore
    /\ sweeping' = TRUE
    /\ UNCHANGED <<serverVars, work, src, app, req, stray, store, disk, picks>>

SweepClears ==
    /\ sweeping /\ sweeping' = FALSE
    /\ store' = NoStore
    /\ UNCHANGED <<serverVars, work, src, app, req, stray, disk, picks>>

-----------------------------------------------------------------------------
(* The server receives a request of the app.                               *)
Serve(r, who) ==
    \/ r.kind = "init" /\ InitUpload(who)
    \/ r.kind = "chunk" /\ WriteChunk(r.sid, r.off, 1, r.src, who)
    \/ r.kind = "complete" /\ CompleteUpload(r.sid, who)

ServeRequest ==
    /\ req # None /\ req.st = "sent"
    /\ Serve(req, "app")
    /\ req' = [req EXCEPT !.st = "served"]
    /\ UNCHANGED <<now, faults, calls, work, src, app, stray, store, disk, sweeping, picks>>

ServeStray ==
    /\ stray # None
    /\ Serve(stray, "stray")
    /\ stray' = None
    /\ UNCHANGED <<now, faults, calls, work, src, app, req, store, disk, sweeping, picks>>

ServeFails ==
    /\ req # None /\ req.st = "sent" /\ req.kind = "chunk"
    /\ Fault(WriteChunkFails(req.sid, req.off, 1, req.src, "app"))
    /\ req' = [req EXCEPT !.st = "served"]
    /\ UNCHANGED <<work, src, app, stray, store, disk, sweeping, picks>>

ServeStatus ==
    /\ SessionStatus(req.sid)
    /\ UNCHANGED <<now, faults, calls, phone>>

ServerDies ==
    /\ Fault(Crash)
    /\ stray' = None
    /\ req' = IF req # None THEN [req EXCEPT !.st = "lost"] ELSE None
    /\ UNCHANGED <<work, src, app, store, disk, sweeping, picks>>

-----------------------------------------------------------------------------
PhoneInit ==
    /\ work = "none" /\ src = None /\ app = Idle /\ req = None /\ stray = None
    /\ store = NoStore /\ disk = NoStore /\ sweeping = FALSE /\ picks = 0

ServerStep ==
    \/ ServeRequest \/ ServeStatus
    \/ \E s \in Sids : Saves(s) /\ UNCHANGED phone

WorkerStep == WorkBegins \/ Send \/ Receive \/ WorkSucceeds \/ ServerGone

UploadNext ==
    \/ \E f \in Sources : StartUpload(f)
    \/ ServerStep \/ WorkerStep
    \/ GiveUp \/ SourceLost \/ SourceEndsEarly \/ Cancel \/ PhoneDies \/ Flush \/ SweepFinds \/ SweepClears
    \/ ServeStray \/ ServeFails \/ ServerDies
    \/ ClockMoves /\ UNCHANGED phone
    \/ \E s \in Sids : Reap(s) /\ UNCHANGED phone

(* The server handles what it receives, and WorkManager runs the work again
   until it ends.                                                          *)
UploadFairness == WF_uploadVars(ServerStep) /\ WF_uploadVars(WorkerStep)

UploadSpec == ServerInit /\ PhoneInit /\ [][UploadNext]_uploadVars /\ UploadFairness

-----------------------------------------------------------------------------
(* Properties.                                                             *)

(* The destination never holds part of a file, and a success shown to the
   user is one: the protocol of sessions, chunks, retries and clean-ups
   implements an upload that happens at once.                              *)
Atomic == INSTANCE AtomicUpload
    WITH Whole <- [Bytes -> Sources], file <- dest, told <- work = "succeeded"
UploadIsAtomic == Atomic!Spec

(* "resuming from a byte the server never confirmed would assemble a file
   with a hole in it": the offset the app resumes from, in memory and on the
   flash, lies within what the session on the server has saved, although
   apply writes late, sweeps race a new upload, and late requests arrive
   after the app gave up on them.                                          *)
ResumePointIsSaved ==
    \A m \in {store, disk} : (m.sid # None /\ sidecar[m.sid] # None) =>
        0..(m.off - 1) \subseteq Covered(sidecar[m.sid].ranges)

(* The session the app would resume is gone from the server.               *)
Stranded == store.sid # None /\ (sidecar[store.sid] = None \/ staged[store.sid] = None)

(* An upload ends, in success or in failure, unless its session has gone.  *)
UploadSettles == <>[](work \notin Active) \/ <>[]Stranded

(* transferErrorFor on 404: "A sessao de envio nao existe mais no servidor.
   O envio recomeca do zero."                                              *)
LostSessionRestarts == (Stranded /\ work \in Active) ~> ~(Stranded /\ work \in Active)
=============================================================================
