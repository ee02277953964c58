----------------------------- MODULE QueueHook -----------------------------
(***************************************************************************)
(* Who holds which mutex while the queue, the scheduler and the notifier   *)
(* call each other.  The terminal hook of a job (the closure that          *)
(* internal/api/notify_wire.go gives to SetNotifier) runs under q.mu and   *)
(* calls into the scheduler, which may call back into the queue.           *)
(*                                                                         *)
(* A call is the sequence of lock and unlock operations it makes; what it  *)
(* does in between is in JobQueue and Scheduler.                           *)
(***************************************************************************)
EXTENDS Naturals, Sequences

CONSTANTS
    Workers,    \* the worker pool of the queue
    Clients,    \* HTTP handlers in the queue and the scheduler
    FollowUps   \* subset of BOOLEAN: may the end of a scheduled job chain another?

ASSUME HookAssumptions ==
    {"free", "reaper", "loop"} \cap (Workers \cup Clients) = {} /\ Workers \cap Clients = {}

VARIABLES
    todo,       \* per goroutine, the operations left of its call
    owner       \* per mutex, who holds it

hookVars == <<todo, owner>>

Goroutines == Workers \cup Clients \cup {"reaper", "loop"}
Mutexes == {"q.mu", "q.listMu", "s.mu", "r.histMu"}
Free == "free"

(* body between m.Lock() and m.Unlock().                                   *)
Section(m, body) ==
    <<[op |-> "lock", mu |-> m]>> \o body \o <<[op |-> "unlock", mu |-> m]>>
Brief(m) == Section(m, <<>>)

-----------------------------------------------------------------------------
broadcast == Brief("q.listMu")

(* dispatch reads the launcher, and commits a scope that has started.      *)
dispatch(detached) ==
    Brief("q.mu") \o IF detached THEN Brief("q.mu") \o broadcast ELSE <<>>

(* Enqueue looks the runner up, stores the job, dispatches it and returns a
   snapshot.                                                               *)
Enqueue(detached) ==
    Brief("q.mu") \o Brief("q.mu") \o dispatch(detached) \o Brief("q.mu")

OnQueueTerminalCall(chains, detached) ==
    Brief("s.mu") \o IF chains THEN Enqueue(detached) ELSE <<>>

(* The hook: Dispatch records the event; for a job a schedule started, the
   scheduler follows up and says which channels to notify.                 *)
Hook(scheduled, chains, detached) ==
    Brief("r.histMu")
        \o IF scheduled THEN OnQueueTerminalCall(chains, detached) \o Brief("s.mu") ELSE <<>>

(* The places that end a job: the end of runOne, and fail, broadcast under
   q.mu; Cancel and the reaper after it.                                   *)
runOne(h) == Brief("q.mu") \o broadcast \o Section("q.mu", broadcast \o h)
reapDetachedOnce(h) == Brief("q.mu") \o Section("q.mu", h) \o broadcast
Cancel(h) == Section("q.mu", h) \o broadcast

(* tickOnce scans under s.mu, and fires each due job without it.           *)
tickOnce_Held(detached) == Section("s.mu", Enqueue(detached))  \* mutant: fires under s.mu
tickOnce(detached) == Brief("s.mu") \o Enqueue(detached) \o Brief("s.mu")

(* Rerun resets the job under q.mu and dispatches it like Enqueue.         *)
Rerun(detached) == Brief("q.mu") \o broadcast \o dispatch(detached)

SaveCall == Brief("s.mu")
RunNowCall(detached) == Brief("s.mu") \o Enqueue(detached) \o Brief("s.mu")
Subscribe == Brief("q.listMu")

-----------------------------------------------------------------------------
Hooks ==
    {Hook(FALSE, FALSE, FALSE)}
        \cup UNION {{Hook(TRUE, chains, d) : d \in BOOLEAN} : chains \in FollowUps}

Calls(g) ==
    CASE g \in Workers -> {runOne(h) : h \in Hooks}
      [] g = "reaper"   -> {reapDetachedOnce(h) : h \in Hooks}
      [] g = "loop"     -> {tickOnce(d) : d \in BOOLEAN}
      [] g \in Clients -> {Cancel(h) : h \in Hooks} \cup {SaveCall, Subscribe}
                            \cup UNION {{Enqueue(d), Rerun(d), RunNowCall(d)} : d \in BOOLEAN}

Call(g) ==
    /\ todo[g] = <<>>
    /\ \E c \in Calls(g) : todo' = [todo EXCEPT ![g] = c]
    /\ UNCHANGED owner

Lock(g) ==
    /\ todo[g] # <<>> /\ Head(todo[g]).op = "lock" /\ owner[Head(todo[g]).mu] = Free
    /\ owner' = [owner EXCEPT ![Head(todo[g]).mu] = g]
    /\ todo' = [todo EXCEPT ![g] = Tail(@)]

Unlock(g) ==
    /\ todo[g] # <<>> /\ Head(todo[g]).op = "unlock"
    /\ owner' = [owner EXCEPT ![Head(todo[g]).mu] = Free]
    /\ todo' = [todo EXCEPT ![g] = Tail(@)]

HookInit == todo = [g \in Goroutines |-> <<>>] /\ owner = [m \in Mutexes |-> Free]

HookNext == \E g \in Goroutines : Call(g) \/ Lock(g) \/ Unlock(g)

HookSpec == HookInit /\ [][HookNext]_hookVars

-----------------------------------------------------------------------------
Waits(g) == todo[g] # <<>> /\ Head(todo[g]).op = "lock"
WaitsFor(g, G) == Waits(g) /\ owner[Head(todo[g]).mu] \in G

(* No goroutine waits for a mutex it holds itself: the terminal hook that
   calls the scheduler is "safe to invoke directly under the lock".        *)
NoSelfWait == \A g \in Goroutines : ~WaitsFor(g, {g})

(* Whatever calls of the queue, the scheduler and the notifier cross, they
   never wait for one another in a circle: q.mu is taken before s.mu,
   q.listMu and r.histMu, and nothing that fires or broadcasts holds s.mu. *)
NoWaitCycle ==
    \A G \in (SUBSET Goroutines) \ {{}} : \E g \in G : ~WaitsFor(g, G)
=============================================================================
