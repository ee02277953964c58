----------------------------- MODULE Scheduler -----------------------------
(***************************************************************************)
(* The cron scheduler of internal/scheduler/scheduler.go, with its HTTP    *)
(* handlers (internal/api/handlers_scheduler.go).  The background-jobs     *)
(* queue is what the Enqueuer interface shows of it: enqueued jobs end, and *)
(* their end comes back through OnQueueTerminal.                           *)
(*                                                                         *)
(* clock counts the instants schedules can name.  A critical section of    *)
(* s.mu is one action; a tick or a handler that lets go of s.mu, or reads  *)
(* the time before it takes it, keeps what it read.                        *)
(***************************************************************************)
EXTENDS Naturals, Sequences, FiniteSets

CONSTANTS
    Sids,              \* schedule ids
    Kinds,
    ThenKind,          \* per schedule, the kind to chain, or None
    ThenOn,            \* per schedule, "success", "always" or "failure"
    NextAfter(_, _),   \* cron: the first instant of a schedule after a time
    Clients,           \* HTTP handlers
    MaxClock,          \* bound: instants
    MaxQueue,          \* bound: jobs enqueued
    MaxOps,            \* bound: HTTP requests and changes of rights
    MaxBoots,          \* bound: processes started
    None

ASSUME SchedulerAssumptions ==
    /\ None \notin Kinds \cup Sids
    /\ ThenKind \in [Sids -> Kinds \cup {None}]
    /\ ThenOn \in [Sids -> {"success", "always", "failure"}]
    /\ MaxClock \in Nat /\ MaxQueue \in Nat /\ MaxOps \in Nat /\ MaxBoots \in Nat

(* cron.Schedule.Next returns a time strictly after its argument.          *)
ASSUME NextIsLater ==
    \A id \in Sids, t \in 0..MaxClock : NextAfter(id, t) \in Nat /\ NextAfter(id, t) > t

VARIABLES
    phase,     \* the process: "down", "up" or "stopping"
    clock,
    defs,      \* s.jobs: id -> [enabled, kind, next]
    disk,      \* jobs.json
    begun,     \* a tickOnce has read the time and waits for s.mu
    now,       \* the time it read
    due,       \* what the running tickOnce has still to fire
    held,      \* per client, the schedule a handler read before s.mu was released
    allowed,   \* kinds the owners may run now (Runner.AuthorizedFor)
    queue,     \* jobs enqueued so far
    ops, boots

tick == <<begun, now, due>>
jobs == <<defs, disk>>
vars == <<phase, clock, jobs, tick, held, allowed, queue, ops, boots>>

Defs == UNION {[S -> [enabled : BOOLEAN, kind : Kinds, next : Nat]] : S \in SUBSET Sids}
DueJobs == [id : Sids, kind : Kinds, at : Nat]
QueueJobs == [src : {"auto", "manual", "chain"}, id : Sids, kind : Kinds,
              at : Nat, cause : Nat, ended : BOOLEAN]

(* saveLocked: jobs.json is replaced by what the map holds.                *)
saveLocked_Nothing == UNCHANGED disk  \* mutant: the file is not written
saveLocked == disk' = defs'

(* A scheduler job in the queue: at is the instant a tick fired it for,
   cause the job whose end chained it.                                     *)
Enqueued(q, src, id, kind, at, cause) ==
    Append(q, [src |-> src, id |-> id, kind |-> kind, at |-> at,
               cause |-> cause, ended |-> FALSE])

(* The schedules f with the NextFire that n gives them.                    *)
WithNext(f, n) ==
    [id \in DOMAIN f |-> [enabled |-> f[id].enabled, kind |-> f[id].kind, next |-> n[id]]]

Request == ops < MaxOps /\ ops' = ops + 1

-----------------------------------------------------------------------------
(* New loads jobs.json and recomputes every NextFire from the current time;
   Start runs the loop.                                                    *)
recomputeNextFire(id) == IF disk[id].enabled THEN NextAfter(id, clock) ELSE 0

New ==
    /\ phase = "down" /\ boots < MaxBoots
    /\ phase' = "up" /\ boots' = boots + 1
    /\ defs' = WithNext(disk, [id \in DOMAIN disk |-> recomputeNextFire(id)])
    /\ saveLocked
    /\ UNCHANGED <<clock, tick, held, allowed, queue, ops>>

Stop ==
    /\ phase = "up"
    /\ phase' = "stopping"
    /\ UNCHANGED <<clock, jobs, tick, held, allowed, queue, ops, boots>>

(* The process ends, at a crash or after Stop.                             *)
Crash ==
    /\ phase # "down"
    /\ phase' = "down"
    /\ defs' = <<>> /\ begun' = FALSE /\ now' = 0 /\ due' = {}
    /\ held' = [c \in Clients |-> None]
    /\ UNCHANGED <<clock, disk, allowed, queue, ops, boots>>

TimePasses ==
    /\ clock < MaxClock
    /\ clock' = clock + 1
    /\ UNCHANGED <<phase, jobs, tick, held, allowed, queue, ops, boots>>

-----------------------------------------------------------------------------
(* tickOnce reads the time before it takes s.mu.  The loop's select may
   still pick the ticker once Stop has closed the channel.                 *)
TickBegin ==
    /\ phase # "down" /\ ~begun /\ due = {}
    /\ begun' = TRUE /\ now' = clock
    /\ UNCHANGED <<phase, clock, jobs, due, held, allowed, queue, ops, boots>>

IsDue(id, t) == defs[id].enabled /\ defs[id].next # 0 /\ defs[id].next <= t

(* Under s.mu: what is due moves to its next instant, and the move is saved,
   before anything is fired.                                               *)
NextFire_Kept(id) == defs[id].next  \* mutant: NextFire is advanced only by the next Save
NextFire(id) ==
    IF IsDue(id, now) \/ (defs[id].enabled /\ defs[id].next = 0)
    THEN NextAfter(id, now) ELSE defs[id].next

TickScan ==
    /\ begun /\ begun' = FALSE /\ now' = 0
    /\ due' = {[id |-> id, kind |-> defs[id].kind, at |-> defs[id].next] :
                 id \in {i \in DOMAIN defs : IsDue(i, now)}}
    /\ defs' = WithNext(defs, [id \in DOMAIN defs |-> NextFire(id)])
    /\ IF due' # {} THEN saveLocked ELSE UNCHANGED disk
    /\ UNCHANGED <<phase, clock, held, allowed, queue, ops, boots>>

(* The gate of autonomous fires.                                           *)
MayFire_Any(kind) == TRUE  \* mutant: the tick does not ask the Authorizer
MayFire(kind) == kind \in allowed

(* fire of one due job, as it was when the tick read it: it is enqueued, or
   skipped when its owner may no longer run the kind, or the queue refuses. *)
FireDue(d) ==
    /\ d \in due /\ due' = due \ {d}
    /\ \/ /\ MayFire(d.kind) /\ Len(queue) < MaxQueue
          /\ queue' = Enqueued(queue, "auto", d.id, d.kind, d.at, 0)
       \/ UNCHANGED queue
    /\ UNCHANGED defs
    /\ saveLocked
    /\ UNCHANGED <<phase, clock, begun, now, held, allowed, ops, boots>>

-----------------------------------------------------------------------------
(* HTTP handlers.  POST saves a new schedule of the caller's; PUT reads it
   with Get, and Save puts what it was sent under that id whether or not it
   still exists.  A PUT or a run-now may come from the primary user, whose
   rights are not the owner's.                                             *)
Save(id, enabled, kind) ==
    /\ defs' = [i \in DOMAIN defs \cup {id} |->
                  IF i = id THEN [enabled |-> enabled, kind |-> kind,
                                  next |-> NextAfter(id, clock)]
                  ELSE defs[i]]
    /\ saveLocked

Create(id, enabled, kind) ==
    /\ phase = "up" /\ id \notin DOMAIN defs /\ Request
    /\ kind \in allowed /\ ThenKind[id] \in allowed \cup {None}
    /\ Save(id, enabled, kind)
    /\ UNCHANGED <<phase, clock, tick, held, allowed, queue, boots>>

(* The Get at the head of a PUT or a run-now.                              *)
HandlerGet(c, id) ==
    /\ phase = "up" /\ held[c] = None /\ id \in DOMAIN defs /\ Request
    /\ held' = [held EXCEPT ![c] = id]
    /\ UNCHANGED <<phase, clock, jobs, tick, allowed, queue, boots>>

Update(c, enabled, kind) ==
    /\ held[c] # None /\ held' = [held EXCEPT ![c] = None]
    /\ Save(held[c], enabled, kind)
    /\ UNCHANGED <<phase, clock, tick, allowed, queue, ops, boots>>

(* RunNow looks the schedule up again and fires it without the gate.       *)
RunNow(c) ==
    /\ held[c] # None /\ held' = [held EXCEPT ![c] = None]
    /\ IF held[c] \in DOMAIN defs
       THEN /\ Len(queue) < MaxQueue
            /\ queue' = Enqueued(queue, "manual", held[c], defs[held[c]].kind, 0, 0)
       ELSE UNCHANGED queue
    /\ UNCHANGED defs
    /\ saveLocked
    /\ UNCHANGED <<phase, clock, tick, allowed, ops, boots>>

Delete(id) ==
    /\ phase = "up" /\ id \in DOMAIN defs /\ Request
    /\ defs' = [i \in DOMAIN defs \ {id} |-> defs[i]]
    /\ saveLocked
    /\ UNCHANGED <<phase, clock, tick, held, allowed, queue, boots>>

(* The owner loses, or gets back, the right to run a kind.                 *)
AuthzChanges(kind) ==
    /\ Request
    /\ allowed' = IF kind \in allowed THEN allowed \ {kind} ELSE allowed \cup {kind}
    /\ UNCHANGED <<phase, clock, jobs, tick, held, queue, boots>>

-----------------------------------------------------------------------------
(* When a follow-up runs, by the status its job ended in.                  *)
Follows(on, success) == on = "always" \/ (on = "success") = success

(* The sources OnQueueTerminal follows up: never its own chained jobs.     *)
Chains_All(src) == TRUE  \* mutant: a chained job chains again
Chains(src) == src \in {"auto", "manual"}

ChainsTo(j, success) ==
    /\ Chains(j.src) /\ j.id \in DOMAIN defs /\ ThenKind[j.id] # None
    /\ Follows(ThenOn[j.id], success) /\ MayFire(ThenKind[j.id])

(* A job of the queue ends and its terminal hook calls OnQueueTerminal.    *)
OnQueueTerminal(i, success) ==
    /\ phase # "down" /\ ~queue[i].ended
    /\ LET ended == [queue EXCEPT ![i].ended = TRUE]
           j == queue[i]
       IN  IF ChainsTo(j, success)
           THEN /\ Len(queue) < MaxQueue
                /\ queue' = Enqueued(ended, "chain", j.id, ThenKind[j.id], 0, i)
           ELSE queue' = ended
    /\ UNCHANGED <<phase, clock, jobs, tick, held, allowed, ops, boots>>

-----------------------------------------------------------------------------
Init ==
    /\ phase = "down" /\ clock = 0
    /\ defs = <<>> /\ disk = <<>>
    /\ begun = FALSE /\ now = 0 /\ due = {}
    /\ held = [c \in Clients |-> None] /\ allowed = Kinds
    /\ queue = <<>> /\ ops = 0 /\ boots = 0

Fire == \E d \in due : FireDue(d)
Handlers ==
    \/ \E id \in Sids, e \in BOOLEAN, k \in Kinds : Create(id, e, k)
    \/ \E id \in Sids : Delete(id)
    \/ \E c \in Clients :
         \/ \E id \in Sids : HandlerGet(c, id)
         \/ \E e \in BOOLEAN, k \in Kinds : Update(c, e, k)
         \/ RunNow(c)

Next ==
    \/ New \/ Stop \/ Crash \/ TimePasses \/ TickBegin \/ TickScan \/ Fire \/ Handlers
    \/ \E k \in Kinds : AuthzChanges(k)
    \/ \E i \in 1..Len(queue), success \in BOOLEAN : OnQueueTerminal(i, success)

Spec == Init /\ [][Next]_vars

(* The loop goroutine of a server that is up keeps ticking (time.Ticker),
   and a tick it has begun runs to its end.                                *)
SchedulerFairness ==
    WF_vars(phase = "up" /\ TickBegin) /\ WF_vars(TickScan) /\ WF_vars(Fire)

FairSpec == Spec /\ SchedulerFairness

-----------------------------------------------------------------------------
(* Properties.                                                             *)

(* Every variable has its type, whatever the handlers and ticks do to the
   maps they share.                                                        *)
TypeOK ==
    /\ phase \in {"down", "up", "stopping"} /\ clock \in 0..MaxClock
    /\ defs \in Defs /\ disk \in Defs
    /\ begun \in BOOLEAN /\ now \in 0..MaxClock /\ due \subseteq DueJobs
    /\ held \in [Clients -> Sids \cup {None}] /\ allowed \subseteq Kinds
    /\ queue \in Seq(QueueJobs) /\ ops \in Nat /\ boots \in Nat

IsFired(i) == queue[i].src = "auto"

(* No instant of a schedule is fired twice by the loop (tickOnce moves
   NextFire on before it fires), whatever edits, deletions, crashes and
   restarts come between the ticks and however stale a tick's time is.     *)
OneFirePerInstant ==
    \A i, j \in 1..Len(queue) :
        IsFired(i) /\ IsFired(j) /\ queue[i].id = queue[j].id /\ queue[i].at = queue[j].at => i = j

(* Why: a schedule that may fire is ahead of every instant taken from it.  *)
Ahead(f, id, at) == id \in DOMAIN f /\ f[id].enabled => at < f[id].next

FiresAdvance ==
    /\ now <= clock
    /\ \A id \in DOMAIN defs : defs[id].enabled => defs[id].next # 0
    /\ \A d \in due : d.at <= clock /\ Ahead(defs, d.id, d.at)
    /\ \A d, e \in due : d.id = e.id => d = e
    /\ \A i \in 1..Len(queue) : IsFired(i) =>
          /\ queue[i].at <= clock /\ Ahead(defs, queue[i].id, queue[i].at)
          /\ \A d \in due : queue[i].id = d.id => queue[i].at # d.at

(* A restart finds in jobs.json what the map held: every handler, tick and
   fire that changes s.jobs calls saveLocked before it lets go of s.mu.    *)
SavedSchedules == phase # "down" => disk = defs

(* Nothing the loop or a chain enqueues is of a kind its owner may not run
   at that moment, however the schedule and the rights changed since it was
   saved (the Authorizer is asked in fire and in OnQueueTerminal).         *)
AutonomousIsAuthorized ==
    [][\A i \in 1..Len(queue') :
          i > Len(queue) /\ queue'[i].src # "manual" => queue'[i].kind \in allowed]_vars

(* Chains do not loop: a job OnQueueTerminal chained follows one that was
   fired or run by hand, and each of those is followed at most once.       *)
ChainsAreShort ==
    \A i \in 1..Len(queue) : queue[i].src = "chain" =>
        /\ queue[queue[i].cause].src # "chain"
        /\ \A j \in 1..Len(queue) : j # i /\ queue[j].src = "chain" => queue[j].cause # queue[i].cause

(* An enabled schedule does not stay due: the loop of tickOnce takes it up. *)
DueIsTaken ==
    \A id \in Sids :
        (phase = "up" /\ id \in DOMAIN defs /\ IsDue(id, clock))
            ~> (phase # "up" \/ id \notin DOMAIN defs \/ ~IsDue(id, clock))
=============================================================================
