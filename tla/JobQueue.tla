------------------------------ MODULE JobQueue ------------------------------
(***************************************************************************)
(* The background-jobs queue of internal/queue/queue.go, with the detached *)
(* run-job processes of cmd/server/runjob.go, the systemd scopes they live *)
(* in (internal/api/detached.go) and the boot sequence of                  *)
(* internal/api/api.go.                                                    *)
(*                                                                         *)
(* Every critical section of q.mu is one action; what happens between two  *)
(* critical sections (a launcher call, a file read, a scope probe, a       *)
(* channel receive) is an action of its own, so that other goroutines, the *)
(* detached processes and a crash of the server can come in between.       *)
(* Timestamps, arguments, progress, steps and logs are abstracted away.    *)
(***************************************************************************)
EXTENDS Naturals, Sequences, FiniteSets

CONSTANTS
    Ids,           \* job ids; each Enqueue issues a fresh one
    Kinds,         \* job kinds a runner is registered for
    KindOf,        \* the immutable Kind of a job
    SafeKinds,     \* kinds SafeToResume accepts
    DetachKinds,   \* kinds handed to SetDetach
    Workers,       \* worker goroutines
    Clients,       \* goroutines that call Enqueue, Cancel, Delete, Rerun
    Requests,      \* per job, what may be asked for once it exists
    PendingCap,    \* capacity of the pending channel
    MaxKeep,       \* opts.MaxKeep
    MaxJobs,       \* bound: jobs enqueued
    MaxRequests,   \* bound: Enqueue + Reruns of one job
    MaxBoots,      \* bound: server processes started
    None

ASSUME QueueAssumptions ==
    /\ IsFiniteSet(Ids) /\ None \notin Ids
    /\ IsFiniteSet(Workers) /\ IsFiniteSet(Clients) /\ None \notin Workers
    /\ KindOf \in [Ids -> Kinds]
    /\ SafeKinds \subseteq Kinds /\ DetachKinds \subseteq Kinds
    /\ Requests \in [Ids -> SUBSET {"cancel", "delete", "rerun", "shutdown"}]
    /\ PendingCap \in Nat /\ MaxKeep \in Nat \ {0}
    /\ MaxJobs \in Nat /\ MaxRequests \in Nat /\ MaxBoots \in Nat

VARIABLES
    phase,     \* life of the server process
    runners,   \* kinds registered so far
    jobs,      \* q.jobs: ids in the map
    order,     \* q.order
    status,    \* Job.Status of each job object
    scoped,    \* Job.Scope # ""
    cancelBy,  \* Job.cancel: the worker whose context it cancels, or None
    notified,  \* Job.notifiedTerminal
    pending,   \* the pending channel
    senders,   \* goroutines of pushPending blocked on a full channel, per id
    wpc, wid, ctx,   \* each worker: its place in runOne, its job, ctx.Err() # nil
    cpc, cid,        \* each client: its place in dispatch or Cancel, its job
    rpc, todo, rid, seen,  \* the reaper: place, rest of scoped, job, status read
    disk,      \* state.json
    file,      \* detached/<id>.json
    proc,      \* the process in scope vpsm-job-<id>.scope
    young,     \* Job.Started is less than detachStartupGrace ago
    issued, boots, reqs, starts   \* history: ids used, boots, requests, runs begun

procVars == <<file, proc>>
jobVars == <<jobs, order, status, scoped, cancelBy, notified>>
chanVars == <<pending, senders>>
workerVars == <<wpc, wid, ctx>>
clientVars == <<cpc, cid>>
reaperVars == <<rpc, todo, rid, seen>>
bootVars == <<phase, runners, boots>>
restVars == <<young, issued, reqs, starts>>
vars == <<bootVars, jobVars, chanVars, workerVars, clientVars, reaperVars,
          disk, procVars, restVars>>

Terminal == {"done", "failed", "cancelled", "interrupted"}
Statuses == Terminal \cup {"queued", "running"}
FileStatuses == Terminal \cup {"running", "none"}
Up == {"boot", "ready", "serving", "stopping", "drained"}
ClientPc == {"idle", "dispatch", "launch", "launched", "fallback", "stop"}
WorkerPc == {"idle", "got", "started", "running", "exited"}
ProcPc == {"none", "launched", "up", "working", "stopping", "exiting"}

isTerminal(s) == s \in Terminal
SafeToResume_Any(id) == TRUE  \* mutant: every kind is resumed at boot
SafeToResume(id) == KindOf[id] \in SafeKinds
NotifierSet == phase \in {"serving", "stopping", "drained"}
Elems(s) == {s[i] : i \in 1..Len(s)}

(***************************************************************************)
(* What persistLocked writes: the order and, for every job of the map, the *)
(* fields that are not json-invisible.                                     *)
(***************************************************************************)
Snapshot(js, ord, st, sc) ==
    [order |-> ord, rec |-> [id \in js |-> [status |-> st[id], scoped |-> sc[id]]]]
(* mutant: statuses are serialised before the change they record           *)
persistLocked_Early == disk' = Snapshot(jobs', order', [id \in Ids |-> status[id]], scoped')
persistLocked == disk' = Snapshot(jobs', order', status', scoped')

(* notifyTerminalLocked, after the status was set to s.                    *)
notifyTerminalLocked_Results(id, s) ==  \* mutant: only results are announced
    notified' = [notified EXCEPT ![id] = @ \/ (NotifierSet /\ s \in {"done", "failed"})]
notifyTerminalLocked(id, s) ==
    notified' = [notified EXCEPT ![id] = @ \/ (NotifierSet /\ isTerminal(s))]

(* scopeAlive of the job's scope; the unit is not active until systemd-run
   has moved the process into it.                                          *)
scopeAlive(id) == scoped[id] /\ proc[id] \in {"up", "working", "stopping", "exiting"}
PastGrace(id) == ~young[id]

(* pushPending: a non-blocking send, else a goroutine that blocks.         *)
pushPending_Drops(id) ==  \* mutant: the last slot is refused and the id dropped
    /\ pending' = IF Len(pending) + 1 < PendingCap THEN Append(pending, id) ELSE pending
    /\ UNCHANGED senders
pushPending(id) ==
    IF Len(pending) < PendingCap
    THEN pending' = Append(pending, id) /\ UNCHANGED senders
    ELSE senders' = [senders EXCEPT ![id] = @ + 1] /\ UNCHANGED pending

(***************************************************************************)
(* Boot: NewQueue loads state.json, reconciles every job, persists and     *)
(* starts the workers and the reaper, all before the first Register.       *)
(***************************************************************************)
Reconciled(id) ==
    LET r == disk.rec[id]
        alive == r.scoped /\ proc[id] \in {"up", "working", "stopping", "exiting"}
    IN  CASE r.status # "running"               -> r.status
          [] r.status = "running" /\ r.scoped  ->
               IF alive THEN "running" ELSE IF isTerminal(file[id]) THEN file[id] ELSE "interrupted"
          [] r.status = "running" /\ ~r.scoped ->
               IF SafeToResume(id) THEN "queued" ELSE "interrupted"

(* The orders in which the iteration over the map pushes a set of ids.     *)
Orders(S) == {s \in [1..Cardinality(S) -> S] : Elems(s) = S}

NewQueue ==
    /\ phase = "down" /\ boots < MaxBoots
    /\ phase' = "boot" /\ boots' = boots + 1
    /\ jobs' = DOMAIN disk.rec
    /\ order' = disk.order
    /\ status' = [id \in Ids |-> IF id \in jobs' THEN Reconciled(id) ELSE "done"]
    /\ scoped' = [id \in Ids |-> id \in jobs' /\ disk.rec[id].scoped]
    /\ \E s \in Orders({id \in jobs' : status'[id] = "queued"}) :
         LET fits == IF Len(s) < PendingCap THEN Len(s) ELSE PendingCap
         IN  /\ pending' = SubSeq(s, 1, fits)
             /\ senders' = [id \in Ids |->
                   IF \E i \in fits + 1..Len(s) : s[i] = id THEN 1 ELSE 0]
    /\ persistLocked
    /\ wpc' = [w \in Workers |-> "idle"]
    /\ UNCHANGED <<runners, cancelBy, notified, wid, ctx, clientVars, reaperVars,
                   procVars, restVars>>

Register(k) ==
    /\ phase = "boot" /\ k \notin runners
    /\ runners' = runners \cup {k}
    /\ UNCHANGED <<phase, boots, jobVars, chanVars, workerVars, clientVars,
                   reaperVars, disk, procVars, restVars>>

SetDetach ==
    /\ phase = "boot" /\ runners = Kinds
    /\ phase' = "ready"
    /\ UNCHANGED <<runners, boots, jobVars, chanVars, workerVars, clientVars,
                   reaperVars, disk, procVars, restVars>>

SetNotifier ==
    /\ phase = "ready"
    /\ phase' = "serving"
    /\ UNCHANGED <<runners, boots, jobVars, chanVars, workerVars, clientVars,
                   reaperVars, disk, procVars, restVars>>

(* The process ends, by a crash or by exiting after Shutdown: everything in
   memory is gone; state.json, the status files and the scopes remain.     *)
Crash ==
    /\ phase \in Up
    /\ phase' = "down"
    /\ runners' = {} /\ jobs' = {} /\ order' = <<>>
    /\ status' = [id \in Ids |-> "done"]
    /\ scoped' = [id \in Ids |-> FALSE]
    /\ cancelBy' = [id \in Ids |-> None]
    /\ notified' = [id \in Ids |-> FALSE]
    /\ pending' = <<>> /\ senders' = [id \in Ids |-> 0]
    /\ wpc' = [w \in Workers |-> "exited"]
    /\ wid' = [w \in Workers |-> None] /\ ctx' = [w \in Workers |-> FALSE]
    /\ cpc' = [c \in Clients |-> "idle"] /\ cid' = [c \in Clients |-> None]
    /\ rpc' = "idle" /\ todo' = {} /\ rid' = None /\ seen' = "none"
    /\ UNCHANGED <<boots, disk, procVars, restVars>>

-----------------------------------------------------------------------------
(* The calls of the HTTP handlers and of the scheduler.                    *)

(* Finished jobs pruneLocked drops: the oldest ones, as many as the order
   exceeds maxKeep by.                                                     *)
Dropped_Oldest(ord, st) ==  \* mutant: the oldest, finished or not
    {ord[i] : i \in {i \in 1..Len(ord) : i + MaxKeep <= Len(ord)}}
Dropped(ord, st) ==
    LET finished(i) == isTerminal(st[ord[i]])
        excess == IF Len(ord) > MaxKeep THEN Len(ord) - MaxKeep ELSE 0
    IN  {ord[i] : i \in {i \in 1..Len(ord) :
            /\ finished(i)
            /\ Cardinality({k \in 1..i : finished(k)}) <= excess}}

Without_Nothing(ord, gone) == ord  \* mutant: q.order is not rebuilt
Without(ord, gone) ==
    LET kept[i \in 0..Len(ord)] ==
          IF i = 0 THEN <<>>
          ELSE IF ord[i] \in gone THEN kept[i - 1] ELSE Append(kept[i - 1], ord[i])
    IN  kept[Len(ord)]

(* Enqueue up to the end of its second critical section; dispatch follows. *)
Enqueue(c, id) ==
    /\ phase \in {"ready", "serving", "stopping"}
    /\ KindOf[id] \in runners
    /\ cpc[c] = "idle" /\ id \notin issued /\ Cardinality(issued) < MaxJobs
    /\ status' = [status EXCEPT ![id] = "queued"]
    /\ scoped' = [scoped EXCEPT ![id] = FALSE]
    /\ LET ord == Append(order, id)
           gone == Dropped(ord, status')
       IN  /\ jobs' = (jobs \cup {id}) \ gone
           /\ order' = Without(ord, gone)
           /\ file' = [i \in Ids |-> IF i \in gone THEN "none" ELSE file[i]]
    /\ persistLocked
    /\ issued' = issued \cup {id}
    /\ reqs' = [reqs EXCEPT ![id] = 1]
    /\ cpc' = [cpc EXCEPT ![c] = "dispatch"]
    /\ cid' = [cid EXCEPT ![c] = id]
    /\ UNCHANGED <<bootVars, cancelBy, notified, chanVars, workerVars,
                   reaperVars, proc, young, starts>>

(* dispatch of a kind that is not detached: straight to the channel.       *)
DispatchInProcess(c) ==
    /\ cpc[c] = "dispatch" /\ KindOf[cid[c]] \notin DetachKinds
    /\ pushPending(cid[c])
    /\ cpc' = [cpc EXCEPT ![c] = "idle"] /\ cid' = [cid EXCEPT ![c] = None]
    /\ UNCHANGED <<bootVars, jobVars, workerVars, reaperVars, disk, procVars,
                   restVars>>

(* dispatch of a detach kind first removes the status file of an older run. *)
DispatchRemoveFile(c) ==
    /\ cpc[c] = "dispatch" /\ KindOf[cid[c]] \in DetachKinds
    /\ file' = [file EXCEPT ![cid[c]] = "none"]
    /\ cpc' = [cpc EXCEPT ![c] = "launch"]
    /\ UNCHANGED <<bootVars, jobVars, chanVars, workerVars, cid, reaperVars,
                   disk, proc, restVars>>

(* The launcher starts systemd-run, which starts nothing while a unit of
   that name exists; the launcher itself has then already succeeded.       *)
DispatchLaunch(c) ==
    /\ cpc[c] = "launch"
    /\ proc' = [proc EXCEPT ![cid[c]] = IF @ = "none" THEN "launched" ELSE @]
    /\ cpc' = [cpc EXCEPT ![c] = "launched"]
    /\ UNCHANGED <<bootVars, jobVars, chanVars, workerVars, cid, reaperVars,
                   disk, file, restVars>>

DispatchLaunchFails(c) ==
    /\ cpc[c] = "launch"
    /\ cpc' = [cpc EXCEPT ![c] = "fallback"]
    /\ UNCHANGED <<bootVars, jobVars, chanVars, workerVars, cid, reaperVars,
                   disk, procVars, restVars>>

(* After the launch: the job is detached and running, whatever happened to
   it since Enqueue or Rerun let go of q.mu.                               *)
DispatchCommit(c) ==
    /\ cpc[c] = "launched"
    /\ scoped' = [scoped EXCEPT ![cid[c]] = TRUE]
    /\ status' = [status EXCEPT ![cid[c]] = "running"]
    /\ UNCHANGED <<jobs, order, cancelBy, notified>>
    /\ persistLocked
    /\ cpc' = [cpc EXCEPT ![c] = "idle"] /\ cid' = [cid EXCEPT ![c] = None]
    /\ young' = [young EXCEPT ![cid[c]] = TRUE]
    /\ UNCHANGED <<bootVars, chanVars, workerVars, reaperVars, procVars, issued,
                   reqs, starts>>

DispatchFallback(c) ==
    /\ cpc[c] = "fallback"
    /\ scoped' = [scoped EXCEPT ![cid[c]] = FALSE]
    /\ UNCHANGED <<jobs, order, status, cancelBy, notified>>
    /\ persistLocked
    /\ pushPending(cid[c])
    /\ cpc' = [cpc EXCEPT ![c] = "idle"] /\ cid' = [cid EXCEPT ![c] = None]
    /\ UNCHANGED <<bootVars, workerVars, reaperVars, procVars, restVars>>

(* A blocked goroutine of pushPending gets its slot.                       *)
SenderProceeds(id) ==
    /\ senders[id] > 0 /\ Len(pending) < PendingCap
    /\ pending' = Append(pending, id)
    /\ senders' = [senders EXCEPT ![id] = @ - 1]
    /\ UNCHANGED <<bootVars, jobVars, workerVars, clientVars, reaperVars, disk,
                   procVars, restVars>>

(* Cancel of a job that is queued or runs detached ends it at once; the
   scope is stopped after q.mu is released.  An in-process run only gets
   its context cancelled and ends in runOne.                               *)
Cancel(c, id) ==
    /\ "cancel" \in Requests[id] /\ phase = "serving" /\ cpc[c] = "idle"
    /\ id \in jobs /\ ~isTerminal(status[id])
    /\ UNCHANGED <<jobs, order, scoped, cancelBy>>
    /\ LET detached == scoped[id] /\ status[id] = "running"
       IN  /\ IF status[id] = "queued" \/ detached
              THEN /\ status' = [status EXCEPT ![id] = "cancelled"]
                   /\ notifyTerminalLocked(id, "cancelled")
                   /\ persistLocked
              ELSE UNCHANGED <<status, notified, disk>>
           /\ cpc' = [cpc EXCEPT ![c] = IF detached THEN "stop" ELSE "idle"]
           /\ cid' = [cid EXCEPT ![c] = IF detached THEN id ELSE None]
    /\ ctx' = [w \in Workers |-> ctx[w] \/ cancelBy[id] = w]
    /\ UNCHANGED <<bootVars, chanVars, wpc, wid, reaperVars, procVars, restVars>>

(* scopeStop: SIGTERM to what runs in the unit.  A unit that does not exist
   yet, or any more, makes it fail, which Cancel ignores; before it installs
   its handler the process dies of the signal.                             *)
ScopeStop(c) ==
    /\ cpc[c] = "stop"
    /\ proc' = [proc EXCEPT ![cid[c]] =
                  CASE @ = "working" -> "stopping" [] @ = "up" -> "none" [] OTHER -> @]
    /\ cpc' = [cpc EXCEPT ![c] = "idle"] /\ cid' = [cid EXCEPT ![c] = None]
    /\ UNCHANGED <<bootVars, jobVars, chanVars, workerVars, reaperVars, disk, file,
                   restVars>>

Delete(c, id) ==
    /\ "delete" \in Requests[id] /\ phase = "serving" /\ cpc[c] = "idle"
    /\ id \in jobs /\ isTerminal(status[id])
    /\ jobs' = jobs \ {id}
    /\ order' = Without(order, {id})
    /\ file' = [file EXCEPT ![id] = "none"]
    /\ UNCHANGED <<status, scoped, cancelBy, notified>>
    /\ persistLocked
    /\ UNCHANGED <<bootVars, chanVars, workerVars, clientVars, reaperVars, proc,
                   restVars>>

(* Rerun resets the job in place; notifiedTerminal keeps its value.        *)
Rerun(c, id) ==
    /\ "rerun" \in Requests[id] /\ phase = "serving" /\ cpc[c] = "idle"
    /\ id \in jobs /\ isTerminal(status[id]) /\ KindOf[id] \in runners
    /\ reqs[id] < MaxRequests
    /\ status' = [status EXCEPT ![id] = "queued"]
    /\ scoped' = [scoped EXCEPT ![id] = FALSE]
    /\ cancelBy' = [cancelBy EXCEPT ![id] = None]
    /\ UNCHANGED <<jobs, order, notified>>
    /\ persistLocked
    /\ reqs' = [reqs EXCEPT ![id] = @ + 1]
    /\ cpc' = [cpc EXCEPT ![c] = "dispatch"] /\ cid' = [cid EXCEPT ![c] = id]
    /\ young' = [young EXCEPT ![id] = FALSE]
    /\ UNCHANGED <<bootVars, chanVars, workerVars, reaperVars, procVars, issued,
                   starts>>

-----------------------------------------------------------------------------
(* The worker pool.                                                        *)

(* workerLoop: the select receives an id; once shutdown is closed both
   branches are ready and either may be chosen.                            *)
Receive(w) ==
    /\ phase \in Up /\ wpc[w] = "idle" /\ pending # <<>>
    /\ pending' = Tail(pending)
    /\ wpc' = [wpc EXCEPT ![w] = "got"] /\ wid' = [wid EXCEPT ![w] = Head(pending)]
    /\ UNCHANGED <<bootVars, jobVars, senders, ctx, clientVars, reaperVars, disk,
                   procVars, restVars>>

WorkerExits(w) ==
    /\ phase \in {"stopping", "drained"} /\ wpc[w] = "idle"
    /\ wpc' = [wpc EXCEPT ![w] = "exited"]
    /\ UNCHANGED <<bootVars, jobVars, chanVars, wid, ctx, clientVars, reaperVars,
                   disk, procVars, restVars>>

(* runOne, first critical section: the job is gone or was cancelled ...    *)
Skipped_Gone(id) == id \notin jobs  \* mutant: a cancelled job is run
Skipped(id) == id \notin jobs \/ status[id] = "cancelled"

RunSkipped(w) ==
    /\ wpc[w] = "got" /\ Skipped(wid[w])
    /\ wpc' = [wpc EXCEPT ![w] = "idle"] /\ wid' = [wid EXCEPT ![w] = None]
    /\ UNCHANGED <<bootVars, jobVars, chanVars, ctx, clientVars, reaperVars, disk,
                   procVars, restVars>>

(* ... no runner is registered for the kind ...                            *)
RunUnknownKind(w) ==
    /\ wpc[w] = "got" /\ ~Skipped(wid[w]) /\ KindOf[wid[w]] \notin runners
    /\ status' = [status EXCEPT ![wid[w]] = "failed"]
    /\ notifyTerminalLocked(wid[w], "failed")
    /\ UNCHANGED <<jobs, order, scoped, cancelBy>>
    /\ persistLocked
    /\ wpc' = [wpc EXCEPT ![w] = "idle"] /\ wid' = [wid EXCEPT ![w] = None]
    /\ UNCHANGED <<bootVars, chanVars, ctx, clientVars, reaperVars, procVars,
                   restVars>>

(* ... or it is marked running, in whatever other state it is.             *)
RunClaim(w) ==
    /\ wpc[w] = "got" /\ ~Skipped(wid[w]) /\ KindOf[wid[w]] \in runners
    /\ status' = [status EXCEPT ![wid[w]] = "running"]
    /\ cancelBy' = [cancelBy EXCEPT ![wid[w]] = w]
    /\ ctx' = [ctx EXCEPT ![w] = FALSE]
    /\ UNCHANGED <<jobs, order, scoped, notified>>
    /\ persistLocked
    /\ wpc' = [wpc EXCEPT ![w] = "started"]
    /\ young' = [young EXCEPT ![wid[w]] = KindOf[wid[w]] \in DetachKinds]
    /\ UNCHANGED <<bootVars, chanVars, wid, clientVars, reaperVars, procVars,
                   issued, reqs, starts>>

(* os.Create of the log fails: fail() ends the job, unless it is gone.     *)
RunLogFails(w) ==
    /\ wpc[w] = "started"
    /\ UNCHANGED <<jobs, order, scoped, cancelBy>>
    /\ IF wid[w] \in jobs
       THEN /\ status' = [status EXCEPT ![wid[w]] = "failed"]
            /\ persistLocked
            /\ notifyTerminalLocked(wid[w], "failed")
       ELSE UNCHANGED <<status, disk, notified>>
    /\ wpc' = [wpc EXCEPT ![w] = "idle"] /\ wid' = [wid EXCEPT ![w] = None]
    /\ UNCHANGED <<bootVars, chanVars, ctx, clientVars, reaperVars, procVars,
                   restVars>>

(* runner.Run is called: the job's side effects begin.                     *)
RunBegin(w) ==
    /\ wpc[w] = "started"
    /\ wpc' = [wpc EXCEPT ![w] = "running"]
    /\ starts' = [starts EXCEPT ![wid[w]] = @ + 1]
    /\ UNCHANGED <<bootVars, jobVars, chanVars, wid, ctx, clientVars, reaperVars,
                   disk, procVars, young, issued, reqs>>

(* runner.Run returned; the outcome is written through the job pointer,
   whether or not the job is still in the map.                             *)
RunEnd(w, outcome) ==
    LET s == IF ctx[w] THEN "cancelled" ELSE outcome
    IN  /\ wpc[w] = "running"
        /\ status' = [status EXCEPT ![wid[w]] = s]
        /\ cancelBy' = [cancelBy EXCEPT ![wid[w]] = None]
        /\ notifyTerminalLocked(wid[w], s)
        /\ UNCHANGED <<jobs, order, scoped>>
        /\ persistLocked
        /\ wpc' = [wpc EXCEPT ![w] = "idle"] /\ wid' = [wid EXCEPT ![w] = None]
        /\ UNCHANGED <<bootVars, chanVars, ctx, clientVars, reaperVars, procVars,
                       restVars>>

-----------------------------------------------------------------------------
(* The reaper: snapshot under q.mu, file read and scope probe without it,  *)
(* the verdict under it again.                                             *)

ReapSnapshot ==
    /\ phase \in Up /\ rpc = "idle"
    /\ todo' = {id \in jobs : scoped[id] /\ status[id] = "running"}
    /\ todo' # {}
    /\ rpc' = "scan"
    /\ UNCHANGED <<bootVars, jobVars, chanVars, workerVars, clientVars, rid, seen,
                   disk, procVars, restVars>>

ReapRead(id) ==
    /\ rpc = "scan" /\ id \in todo
    /\ todo' = todo \ {id} /\ rid' = id /\ seen' = file[id]
    /\ rpc' = "read"
    /\ UNCHANGED <<bootVars, jobVars, chanVars, workerVars, clientVars, disk,
                   procVars, restVars>>

(* A non-terminal status only counts while the scope is alive.             *)
Credible_Any == TRUE  \* mutant: any status file counts
Credible == isTerminal(seen) \/ ~PastGrace(rid) \/ scopeAlive(rid)

ReapProbe ==
    /\ rpc = "read"
    /\ seen' = IF Credible THEN seen ELSE "none"
    /\ rpc' = "probed"
    /\ UNCHANGED <<bootVars, jobVars, chanVars, workerVars, clientVars, todo, rid,
                   disk, procVars, restVars>>

(* What the second critical section makes of the job: the status read, or
   interrupted when the scope vanished without one.                        *)
Vanished == seen = "none" /\ PastGrace(rid) /\ ~scopeAlive(rid)
Verdict_File == seen  \* mutant: a missing file is applied as well
Verdict ==
    CASE seen # "none" -> seen
      [] Vanished      -> "interrupted"
      [] OTHER         -> status[rid]

ReapApply ==
    /\ rpc = "probed"
    /\ status' = [status EXCEPT ![rid] = Verdict]
    /\ UNCHANGED <<jobs, order, scoped, cancelBy>>
    /\ IF Vanished \/ status[rid] # Verdict
       THEN persistLocked /\ notifyTerminalLocked(rid, Verdict)
       ELSE UNCHANGED <<disk, notified>>
    /\ rpc' = IF todo = {} THEN "idle" ELSE "scan"
    /\ rid' = None /\ seen' = "none"
    /\ UNCHANGED <<bootVars, chanVars, workerVars, clientVars, todo, procVars,
                   restVars>>

-----------------------------------------------------------------------------
(* Detached processes, `<exe> run-job <id>` in their own scope.  They read *)
(* state.json, write only their status file, and outlive the server.       *)

(* The startup grace of 15 s ends.  A scope is launched, and the reaper is
   done with one job, in less time.                                        *)
GraceExpires(id) ==
    /\ young[id] /\ (scoped[id] => proc[id] # "launched") /\ rid # id
    /\ young' = [young EXCEPT ![id] = FALSE]
    /\ UNCHANGED <<bootVars, jobVars, chanVars, workerVars, clientVars, reaperVars,
                   disk, procVars, issued, reqs, starts>>

(* systemd-run has created the scope and the command runs in it.           *)
ScopeUp(id) ==
    /\ proc[id] = "launched"
    /\ proc' = [proc EXCEPT ![id] = "up"]
    /\ UNCHANGED <<bootVars, jobVars, chanVars, workerVars, clientVars, reaperVars,
                   disk, file, restVars>>

(* runDetachedJob: the job is in state.json, running is announced, Run.    *)
ProcBegin(id) ==
    /\ proc[id] = "up" /\ id \in DOMAIN disk.rec
    /\ file' = [file EXCEPT ![id] = "running"]
    /\ proc' = [proc EXCEPT ![id] = "working"]
    /\ starts' = [starts EXCEPT ![id] = @ + 1]
    /\ UNCHANGED <<bootVars, jobVars, chanVars, workerVars, clientVars, reaperVars,
                   disk, young, issued, reqs>>

(* ... or the runner cannot be built, which is recorded as a failure.      *)
ProcNoRunner(id) ==
    /\ proc[id] = "up" /\ id \in DOMAIN disk.rec
    /\ file' = [file EXCEPT ![id] = "failed"]
    /\ proc' = [proc EXCEPT ![id] = "exiting"]
    /\ UNCHANGED <<bootVars, jobVars, chanVars, workerVars, clientVars, reaperVars,
                   disk, restVars>>

(* runner.Run returned: the final status is written, then the process ends. *)
ProcFinish(id, outcome) ==
    /\ proc[id] \in {"working", "stopping"}
    /\ file' = [file EXCEPT ![id] =
                  IF proc[id] = "stopping" THEN "interrupted" ELSE outcome]
    /\ proc' = [proc EXCEPT ![id] = "exiting"]
    /\ UNCHANGED <<bootVars, jobVars, chanVars, workerVars, clientVars, reaperVars,
                   disk, restVars>>

(* The process is gone: after its last write, because the job is not in
   state.json or its log cannot be created, or killed (OOM, SIGKILL).      *)
ProcExit(id) ==
    /\ proc[id] # "none"
    /\ proc' = [proc EXCEPT ![id] = "none"]
    /\ UNCHANGED <<bootVars, jobVars, chanVars, workerVars, clientVars, reaperVars,
                   disk, file, restVars>>

-----------------------------------------------------------------------------
(* Shutdown: close the channel and cancel every context, then wait at most *)
(* four seconds for the workers.                                           *)

ShutdownBegin ==
    /\ phase = "serving" /\ \E id \in issued : "shutdown" \in Requests[id]
    /\ phase' = "stopping"
    /\ ctx' = [w \in Workers |-> ctx[w] \/ \E id \in jobs : cancelBy[id] = w]
    /\ UNCHANGED <<runners, boots, jobVars, chanVars, wpc, wid, clientVars,
                   reaperVars, disk, procVars, restVars>>

ShutdownDone ==
    /\ phase = "stopping" /\ \A w \in Workers : wpc[w] = "exited"
    /\ phase' = "drained"
    /\ UNCHANGED jobVars
    /\ persistLocked
    /\ UNCHANGED <<runners, boots, chanVars, workerVars, clientVars, reaperVars,
                   procVars, restVars>>

(* The cap expired: in-process runs are marked interrupted; detached ones
   are left to the next boot.                                              *)
ShutdownTimeout ==
    /\ phase = "stopping"
    /\ phase' = "drained"
    /\ status' = [id \in Ids |->
          IF id \in jobs /\ status[id] = "running" /\ ~scoped[id]
          THEN "interrupted" ELSE status[id]]
    /\ UNCHANGED <<jobs, order, scoped, cancelBy, notified>>
    /\ persistLocked
    /\ UNCHANGED <<runners, boots, chanVars, workerVars, clientVars, reaperVars,
                   procVars, restVars>>

-----------------------------------------------------------------------------
Init ==
    /\ phase = "down" /\ runners = {} /\ boots = 0
    /\ jobs = {} /\ order = <<>>
    /\ status = [id \in Ids |-> "done"]
    /\ scoped = [id \in Ids |-> FALSE]
    /\ cancelBy = [id \in Ids |-> None]
    /\ notified = [id \in Ids |-> FALSE]
    /\ pending = <<>> /\ senders = [id \in Ids |-> 0]
    /\ wpc = [w \in Workers |-> "exited"]
    /\ wid = [w \in Workers |-> None] /\ ctx = [w \in Workers |-> FALSE]
    /\ cpc = [c \in Clients |-> "idle"] /\ cid = [c \in Clients |-> None]
    /\ rpc = "idle" /\ todo = {} /\ rid = None /\ seen = "none"
    /\ disk = Snapshot({}, <<>>, status, scoped)
    /\ file = [id \in Ids |-> "none"] /\ proc = [id \in Ids |-> "none"]
    /\ young = [id \in Ids |-> FALSE]
    /\ issued = {} /\ reqs = [id \in Ids |-> 0] /\ starts = [id \in Ids |-> 0]

BootStep == NewQueue \/ (\E k \in Kinds : Register(k)) \/ SetDetach \/ SetNotifier
DispatchStep(c) ==
    \/ DispatchInProcess(c) \/ DispatchRemoveFile(c) \/ DispatchLaunch(c)
    \/ DispatchLaunchFails(c) \/ DispatchCommit(c) \/ DispatchFallback(c)
    \/ ScopeStop(c)
Request(c, id) == Enqueue(c, id) \/ Cancel(c, id) \/ Delete(c, id) \/ Rerun(c, id)
WorkerStep(w) ==
    \/ Receive(w) \/ WorkerExits(w) \/ RunSkipped(w) \/ RunUnknownKind(w)
    \/ RunClaim(w) \/ RunLogFails(w) \/ RunBegin(w)
    \/ \E outcome \in {"done", "failed"} : RunEnd(w, outcome)
ReaperStep == ReapSnapshot \/ (\E id \in Ids : ReapRead(id)) \/ ReapProbe \/ ReapApply
ProcStep(id) ==
    \/ ScopeUp(id) \/ ProcBegin(id) \/ ProcNoRunner(id) \/ ProcExit(id)
    \/ \E outcome \in {"done", "failed"} : ProcFinish(id, outcome)
ShutdownStep == ShutdownBegin \/ ShutdownDone \/ ShutdownTimeout

Next ==
    \/ BootStep \/ Crash \/ ShutdownStep \/ ReaperStep
    \/ \E c \in Clients : DispatchStep(c) \/ (\E id \in Ids : Request(c, id))
    \/ \E w \in Workers : WorkerStep(w)
    \/ \E id \in Ids : SenderProceeds(id) \/ GraceExpires(id) \/ ProcStep(id)

Spec == Init /\ [][Next]_vars

Detached == {id \in Ids : KindOf[id] \in DetachKinds}

(* What the Go scheduler, a runner that returns, and systemd give: the boot
   goes on, dispatch, worker, reaper and process steps are eventually taken. *)
Fairness ==
    /\ WF_vars(BootStep) /\ WF_vars(ReaperStep)
    /\ \A c \in Clients : WF_vars(DispatchStep(c))
    /\ \A w \in Workers : WF_vars(WorkerStep(w))
    /\ \A id \in Ids : WF_vars(SenderProceeds(id))
    /\ \A id \in Detached : SF_vars(GraceExpires(id)) /\ WF_vars(ProcStep(id))

FairSpec == Spec /\ Fairness

-----------------------------------------------------------------------------
(* Properties.                                                             *)

JobTypes ==
    /\ jobs \subseteq Ids
    /\ status \in [Ids -> Statuses] /\ scoped \in [Ids -> BOOLEAN]
    /\ cancelBy \in [Ids -> Workers \cup {None}] /\ notified \in [Ids -> BOOLEAN]
ChanTypes == pending \in Seq(Ids) /\ senders \in [Ids -> Nat]
WorkerTypes ==
    /\ wpc \in [Workers -> WorkerPc] /\ ctx \in [Workers -> BOOLEAN]
    /\ wid \in [Workers -> Ids \cup {None}]
    /\ \A w \in Workers : wpc[w] \in {"got", "started", "running"} => wid[w] \in Ids
ClientTypes ==
    /\ cpc \in [Clients -> ClientPc] /\ cid \in [Clients -> Ids \cup {None}]
    /\ \A c \in Clients : cpc[c] # "idle" => cid[c] \in Ids
ReaperTypes ==
    /\ rpc \in {"idle", "scan", "read", "probed"} /\ todo \subseteq Ids
    /\ rid \in Ids \cup {None} /\ (rpc \in {"read", "probed"} => rid \in Ids)
    /\ seen \in FileStatuses
DiskTypes ==
    /\ DOMAIN disk.rec \subseteq Ids
    /\ disk.rec \in [DOMAIN disk.rec -> [status : Statuses, scoped : BOOLEAN]]
ProcTypes == file \in [Ids -> FileStatuses] /\ proc \in [Ids -> ProcPc]
RestTypes ==
    /\ phase \in Up \cup {"down"} /\ runners \subseteq Kinds /\ boots \in Nat
    /\ young \in [Ids -> BOOLEAN] /\ issued \subseteq Ids
    /\ reqs \in [Ids -> Nat] /\ starts \in [Ids -> Nat]

(* Types; in particular a worker past its receive, a client in a call and a
   reaper past its read each hold a job.                                   *)
TypeOK ==
    /\ JobTypes /\ ChanTypes /\ WorkerTypes /\ ClientTypes
    /\ ReaperTypes /\ DiskTypes /\ ProcTypes /\ RestTypes

(* A crash at any moment loses nothing the queue has told anyone: while the
   server is up, state.json holds the jobs, their statuses and scopes.     *)
DiskMatchesMemory == phase \in Up => disk = Snapshot(jobs, order, status, scoped)

(* The places where a queued job waits for a worker: the channel, a blocked
   sender, a dispatch under way, a worker that received it.                *)
Waiting(id) ==
    \/ id \in Elems(pending) \/ senders[id] > 0
    \/ \E c \in Clients : cid[c] = id /\ cpc[c] \in {"dispatch", "launch", "launched", "fallback"}
    \/ \E w \in Workers : wid[w] = id /\ wpc[w] = "got"

(* No queued job is forgotten: enqueued, rerun or resumed at boot, at any
   channel fill, it is on its way to a worker or to its scope.             *)
NoLostJob == phase \in Up => \A id \in jobs : status[id] = "queued" => Waiting(id)

(* Side effects are not repeated: a job whose kind is not SafeToResume is
   run at most once per Enqueue or Rerun, across crashes and restarts.     *)
AtMostOnce == \A id \in Ids : KindOf[id] \notin SafeKinds => starts[id] <= reqs[id]

Claimed(w) == wpc[w] \in {"started", "running"}

(* An active job is never removed from under its worker, by Delete or by
   pruneLocked, and no two workers run the same job.                       *)
WorkersKeepJobs ==
    \A w \in Workers : Claimed(w) =>
        /\ wid[w] \in jobs
        /\ \A v \in Workers \ {w} : Claimed(v) => wid[v] # wid[w]

(* q.order and q.jobs describe the same jobs, each once.                   *)
OrderMatchesJobs ==
    order \in Seq(Ids) /\ Elems(order) = jobs /\ Len(order) = Cardinality(jobs)

(* The terminal hook misses nothing: a job that ends while the notifier is
   set and no shutdown deadline is passing has been notified (once per job:
   a rerun does not reset notifiedTerminal).                               *)
NoSilentEnd ==
    [][\A id \in jobs \cap jobs' :
          /\ phase \in {"serving", "stopping"} /\ phase' = phase
          /\ ~isTerminal(status[id]) /\ isTerminal(status'[id])
          => notified'[id]]_vars

(* A recorded end stays: only Rerun, or a run that outlived the shutdown
   deadline, changes the terminal status state.json has for a job.         *)
EndIsFinal ==
    [][\A id \in DOMAIN disk.rec \cap DOMAIN disk'.rec :
          /\ isTerminal(disk.rec[id].status) /\ phase # "drained"
          /\ reqs'[id] = reqs[id]
          => disk'.rec[id].status = disk.rec[id].status]_vars

(* A detached job whose process reported a result is never written off as
   interrupted.                                                            *)
ResultNotClobbered ==
    phase \in Up => \A id \in jobs :
        file[id] \in {"done", "failed"} => status[id] # "interrupted"

(* Every queued job is taken up while the server stays up.                 *)
QueuedIsServed ==
    \A id \in Ids :
        (phase = "serving" /\ id \in jobs /\ status[id] = "queued")
            ~> (phase # "serving" \/ id \notin jobs \/ status[id] # "queued")

(* A detached job does not stay running for good: the reaper adopts its
   result, or notices that its scope is gone.                              *)
DetachedEnds ==
    \A id \in Detached :
        (phase = "serving" /\ id \in jobs /\ scoped[id] /\ status[id] = "running")
            ~> (phase # "serving" \/ id \notin jobs \/ status[id] # "running")

=============================================================================
