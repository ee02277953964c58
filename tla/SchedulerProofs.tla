-------------------------- MODULE SchedulerProofs --------------------------
(***************************************************************************)
(* What is proved of Scheduler for every set of schedules, every cron      *)
(* table NextAfter that moves forward, and every bound.                    *)
(***************************************************************************)
EXTENDS Scheduler, TLAPS

Def == [enabled : BOOLEAN, kind : Kinds, next : Nat]

(* A map of schedules is a function on a set of ids.                       *)
LEMMA DefsElim ==
    ASSUME NEW f \in Defs PROVE DOMAIN f \subseteq Sids /\ f \in [DOMAIN f -> Def]
<1>1. PICK S \in SUBSET Sids : f \in [S -> Def]  BY DEF Defs, Def
<1>2. DOMAIN f = S  BY <1>1
<1> QED  BY <1>1, <1>2

LEMMA DefsIntro ==
    ASSUME NEW S \in SUBSET Sids, NEW f \in [S -> Def] PROVE f \in Defs
BY DEF Defs, Def

(* Time moves forward from every time a tick or a handler can read.        *)
LEMMA Later ==
    ASSUME NEW id \in Sids, NEW t \in 0..MaxClock
    PROVE  NextAfter(id, t) \in Nat /\ NextAfter(id, t) > t
BY NextIsLater

(* New and tickOnce change nothing of a schedule but its NextFire.         *)
LEMMA WithNextType ==
    ASSUME NEW f \in Defs, NEW n \in [DOMAIN f -> Nat] PROVE WithNext(f, n) \in Defs
<1>1. DOMAIN f \subseteq Sids /\ f \in [DOMAIN f -> Def]  BY DefsElim
<1>2. \A id \in DOMAIN f : [enabled |-> f[id].enabled, kind |-> f[id].kind, next |-> n[id]] \in Def
  BY <1>1 DEF Def
<1>3. WithNext(f, n) \in [DOMAIN f -> Def]  BY <1>2 DEF WithNext
<1> QED  BY <1>1, <1>3, DefsIntro

LEMMA Saved ==
    ASSUME TypeOK, NEW id \in Sids, NEW e \in BOOLEAN, NEW k \in Kinds, Save(id, e, k)
    PROVE  defs' \in Defs /\ disk' \in Defs
<1>1. DOMAIN defs \subseteq Sids /\ defs \in [DOMAIN defs -> Def]  BY DefsElim DEF TypeOK
<1>2. NextAfter(id, clock) \in Nat  BY Later DEF TypeOK
<1>3. [enabled |-> e, kind |-> k, next |-> NextAfter(id, clock)] \in Def  BY <1>2 DEF Def
<1>4. defs' \in [DOMAIN defs \cup {id} -> Def]  BY <1>1, <1>3 DEF Save
<1>5. defs' \in Defs  BY <1>1, <1>4, DefsIntro
<1> QED  BY <1>5 DEF Save, saveLocked

LEMMA EnqueuedType ==
    ASSUME NEW q \in Seq(QueueJobs), NEW src \in {"auto", "manual", "chain"}, NEW id \in Sids,
           NEW kind \in Kinds, NEW at \in Nat, NEW cause \in Nat
    PROVE  Enqueued(q, src, id, kind, at, cause) \in Seq(QueueJobs)
<1>1. [src |-> src, id |-> id, kind |-> kind, at |-> at, cause |-> cause, ended |-> FALSE]
        \in QueueJobs  BY DEF QueueJobs
<1> QED  BY <1>1 DEF Enqueued

LEMMA TypeStep == TypeOK /\ [Next]_vars => TypeOK'
<1> SUFFICES ASSUME TypeOK, [Next]_vars PROVE TypeOK'  OBVIOUS
<1>d. DOMAIN defs \subseteq Sids /\ defs \in [DOMAIN defs -> Def]  BY DefsElim DEF TypeOK
<1>e. DOMAIN disk \subseteq Sids /\ disk \in [DOMAIN disk -> Def]  BY DefsElim DEF TypeOK
<1>z. <<>> \in Defs
  <2>1. <<>> \in [{} -> Def]  OBVIOUS
  <2> QED  BY <2>1, DefsIntro
<1>1. CASE New
  <2>1. \A id \in DOMAIN disk : recomputeNextFire(id) \in Nat
    BY <1>e, Later DEF TypeOK, recomputeNextFire
  <2>2. [id \in DOMAIN disk |-> recomputeNextFire(id)] \in [DOMAIN disk -> Nat]  BY <2>1
  <2>3. defs' \in Defs  BY <1>1, <2>2, WithNextType DEF New, TypeOK
  <2> QED  BY <1>1, <2>3 DEF New, TypeOK, saveLocked, tick
<1>2. CASE Stop  BY <1>2 DEF Stop, TypeOK, jobs, tick
<1>0. 0 \in 0..MaxClock  BY SchedulerAssumptions
<1>3. CASE Crash
  <2>1. held' \in [Clients -> Sids \cup {None}]  BY <1>3 DEF Crash
  <2> QED  BY <1>3, <1>z, <1>0, <2>1 DEF Crash, TypeOK
<1>4. CASE TimePasses  BY <1>4, SchedulerAssumptions DEF TimePasses, TypeOK, jobs, tick
<1>5. CASE TickBegin  BY <1>5 DEF TickBegin, TypeOK, jobs
<1>6. CASE TickScan
  <2>1. \A id \in DOMAIN defs : NextFire(id) \in Nat
    BY <1>d, Later DEF TypeOK, NextFire, Def
  <2>2. defs' \in Defs
    <3>1. [id \in DOMAIN defs |-> NextFire(id)] \in [DOMAIN defs -> Nat]  BY <2>1
    <3> QED  BY <1>6, <3>1, WithNextType DEF TickScan, TypeOK
  <2>3. disk' \in Defs  BY <1>6, <2>2 DEF TickScan, TypeOK, saveLocked
  <2>4. due' \subseteq DueJobs
    <3>1. ASSUME NEW id \in DOMAIN defs
          PROVE  [id |-> id, kind |-> defs[id].kind, at |-> defs[id].next] \in DueJobs
      BY <1>d, <3>1 DEF Def, DueJobs
    <3> QED  BY <1>6, <3>1 DEF TickScan
  <2>5. begun' \in BOOLEAN /\ now' \in 0..MaxClock  BY <1>6, <1>0 DEF TickScan
  <2>6. UNCHANGED <<phase, clock, held, allowed, queue, ops, boots>>  BY <1>6 DEF TickScan
  <2> QED  BY <2>2, <2>3, <2>4, <2>5, <2>6 DEF TypeOK
<1>7. CASE Fire
  <2>1. PICK d \in due : FireDue(d)  BY <1>7 DEF Fire
  <2>2. d \in DueJobs  BY <2>1 DEF TypeOK
  <2>3. d.id \in Sids /\ d.kind \in Kinds /\ d.at \in Nat  BY <2>2 DEF DueJobs
  <2>4. Enqueued(queue, "auto", d.id, d.kind, d.at, 0) \in Seq(QueueJobs)
    BY <2>3, EnqueuedType DEF TypeOK
  <2>5. queue' \in Seq(QueueJobs)  BY <2>1, <2>4 DEF FireDue, TypeOK
  <2> QED  BY <2>1, <2>5 DEF FireDue, TypeOK, saveLocked
<1>8. CASE Handlers
  <2>1. ASSUME NEW id \in Sids, NEW e \in BOOLEAN, NEW k \in Kinds, Create(id, e, k)
        PROVE  TypeOK'
    <3>1. defs' \in Defs /\ disk' \in Defs  BY <2>1, Saved DEF Create
    <3> QED  BY <2>1, <3>1 DEF Create, Request, TypeOK, tick
  <2>2. ASSUME NEW id \in Sids, Delete(id) PROVE TypeOK'
    <3>1. defs' \in [DOMAIN defs \ {id} -> Def]  BY <2>2, <1>d DEF Delete
    <3>2. DOMAIN defs \ {id} \in SUBSET Sids  BY <1>d
    <3>3. defs' \in Defs  BY <3>1, <3>2, DefsIntro
    <3> QED  BY <2>2, <3>3 DEF Delete, saveLocked, Request, TypeOK, tick
  <2>3. ASSUME NEW c \in Clients, NEW id \in Sids, HandlerGet(c, id) PROVE TypeOK'
    BY <2>3 DEF HandlerGet, Request, TypeOK, jobs, tick
  <2>4. ASSUME NEW c \in Clients, NEW e \in BOOLEAN, NEW k \in Kinds, Update(c, e, k)
        PROVE  TypeOK'
    <3>1. held[c] \in Sids  BY <2>4 DEF Update, TypeOK
    <3>2. defs' \in Defs /\ disk' \in Defs  BY <2>4, <3>1, Saved DEF Update
    <3> QED  BY <2>4, <3>2 DEF Update, TypeOK, tick
  <2>5. ASSUME NEW c \in Clients, RunNow(c) PROVE TypeOK'
    <3>1. held[c] \in Sids  BY <2>5 DEF RunNow, TypeOK
    <3>2. queue' \in Seq(QueueJobs)
      <4>1. CASE held[c] \in DOMAIN defs
        <5>1. defs[held[c]].kind \in Kinds  BY <4>1, <1>d DEF Def
        <5>2. Enqueued(queue, "manual", held[c], defs[held[c]].kind, 0, 0) \in Seq(QueueJobs)
          BY <3>1, <5>1, EnqueuedType DEF TypeOK
        <5> QED  BY <2>5, <4>1, <5>2 DEF RunNow
      <4>2. CASE held[c] \notin DOMAIN defs  BY <2>5, <4>2 DEF RunNow, TypeOK
      <4> QED  BY <4>1, <4>2
    <3> QED  BY <2>5, <3>2 DEF RunNow, saveLocked, TypeOK, tick
  <2> QED  BY <1>8, <2>1, <2>2, <2>3, <2>4, <2>5 DEF Handlers
<1>9. ASSUME NEW k \in Kinds, AuthzChanges(k) PROVE TypeOK'
  BY <1>9 DEF AuthzChanges, Request, TypeOK, jobs, tick
<1>10. ASSUME NEW i \in 1..Len(queue), NEW ok \in BOOLEAN, OnQueueTerminal(i, ok) PROVE TypeOK'
  <2> DEFINE e == [queue EXCEPT ![i].ended = TRUE]
  <2>1. queue \in Seq(QueueJobs) /\ queue[i] \in QueueJobs  BY DEF TypeOK
  <2>2. [queue[i] EXCEPT !.ended = TRUE] \in QueueJobs  BY <2>1 DEF QueueJobs
  <2>3. e \in Seq(QueueJobs)  BY <2>1, <2>2
  <2>4. queue' \in Seq(QueueJobs)
    <3>1. CASE ChainsTo(queue[i], ok)
      <4>1. queue[i].id \in Sids /\ ThenKind[queue[i].id] \in Kinds
        BY <2>1, <3>1, SchedulerAssumptions DEF ChainsTo, QueueJobs
      <4>2. Enqueued(e, "chain", queue[i].id, ThenKind[queue[i].id], 0, i) \in Seq(QueueJobs)
        <5>1. i \in Nat  BY <2>1
        <5> QED  BY <2>3, <4>1, <5>1, EnqueuedType
      <4> QED  BY <1>10, <3>1, <4>2 DEF OnQueueTerminal
    <3>2. CASE ~ChainsTo(queue[i], ok)  BY <1>10, <2>3, <3>2 DEF OnQueueTerminal
    <3> QED  BY <3>1, <3>2
  <2> QED  BY <1>10, <2>4 DEF OnQueueTerminal, TypeOK, jobs, tick
<1>11. CASE UNCHANGED vars  BY <1>11 DEF vars, TypeOK, jobs, tick
<1> QED
  BY <1>1, <1>2, <1>3, <1>4, <1>5, <1>6, <1>7, <1>8, <1>9, <1>10, <1>11 DEF Next

LEMMA TypeInit == Init => TypeOK
<1> SUFFICES ASSUME Init PROVE TypeOK  OBVIOUS
<1>1. <<>> \in [{} -> Def]  OBVIOUS
<1>2. <<>> \in Defs  BY <1>1, DefsIntro
<1>3. 0 \in 0..MaxClock  BY SchedulerAssumptions
<1>4. held \in [Clients -> Sids \cup {None}]  BY DEF Init
<1>5. queue \in Seq(QueueJobs)  BY DEF Init
<1> QED  BY <1>2, <1>3, <1>4, <1>5 DEF Init, TypeOK

(* The types hold in every behaviour: no handler, tick or restart leaves a
   schedule, a due job or a queued job malformed.                          *)
THEOREM SchedulerTypes == Spec => []TypeOK
<1> QED  BY TypeInit, TypeStep, PTL DEF Spec

-----------------------------------------------------------------------------
(* Steps that fire nothing for a new instant.                              *)
NoNewAuto ==
    \A i \in 1..Len(queue') : queue'[i].src = "auto" =>
        /\ i \in 1..Len(queue) /\ queue[i].src = "auto"
        /\ queue'[i].id = queue[i].id /\ queue'[i].at = queue[i].at

(* Steps that leave an enabled schedule alone or move it into the future.  *)
DefsMove ==
    \A id \in DOMAIN defs' : defs'[id].enabled =>
        (id \in DOMAIN defs /\ defs'[id] = defs[id]) \/ defs'[id].next > clock

FireInv == TypeOK /\ FiresAdvance /\ OneFirePerInstant

LEMMA QuietStep ==
    ASSUME FireInv, TypeOK', NoNewAuto, DefsMove, due' \subseteq due,
           now' <= clock', clock <= clock'
    PROVE  FireInv'
<1>d. \A id \in DOMAIN defs : defs[id].next \in Nat  BY DefsElim DEF FireInv, TypeOK, Def
<1>e. \A id \in DOMAIN defs' : defs'[id].next \in Nat  BY DefsElim DEF TypeOK, Def
<1>q. \A i \in 1..Len(queue) : queue[i].at \in Nat
  <2>1. queue \in Seq(QueueJobs)  BY DEF FireInv, TypeOK
  <2>2. \A i \in 1..Len(queue) : queue[i] \in QueueJobs  BY <2>1
  <2> QED  BY <2>2 DEF QueueJobs
<1>u. \A d \in due : d.at \in Nat  BY DEF FireInv, TypeOK, DueJobs
<1>f. FiresAdvance /\ OneFirePerInstant  BY DEF FireInv
<1>c. clock \in Nat /\ clock' \in Nat  BY DEF FireInv, TypeOK
<1>1. ASSUME NEW id, NEW at \in Nat, at <= clock, Ahead(defs, id, at) PROVE Ahead(defs', id, at)
  BY <1>1, <1>c, <1>d, <1>e DEF DefsMove, Ahead
<1>2. \A id \in DOMAIN defs' : defs'[id].enabled => defs'[id].next # 0
  BY <1>c, <1>d, <1>e DEF DefsMove, FireInv, FiresAdvance
<1>3. \A d \in due' : d.at <= clock' /\ Ahead(defs', d.id, d.at)
  BY <1>1, <1>c, <1>u DEF FireInv, FiresAdvance
<1>4. ASSUME NEW i \in 1..Len(queue'), queue'[i].src = "auto"
      PROVE  /\ queue'[i].at <= clock' /\ Ahead(defs', queue'[i].id, queue'[i].at)
             /\ \A d \in due' : queue'[i].id = d.id => queue'[i].at # d.at
  <2>1. /\ i \in 1..Len(queue) /\ queue[i].src = "auto"
        /\ queue'[i].id = queue[i].id /\ queue'[i].at = queue[i].at
    BY <1>4 DEF NoNewAuto
  <2>2. /\ queue[i].at <= clock /\ Ahead(defs, queue[i].id, queue[i].at)
        /\ \A d \in due : queue[i].id = d.id => queue[i].at # d.at
    BY <2>1, <1>f DEF FiresAdvance, IsFired
  <2>3. queue[i].at <= clock'  BY <2>1, <2>2, <1>q, <1>c
  <2>4. Ahead(defs', queue[i].id, queue[i].at)  BY <2>1, <2>2, <1>q, <1>1
  <2> QED  BY <2>1, <2>2, <2>3, <2>4
<1>5. OneFirePerInstant'
  <2> SUFFICES ASSUME NEW i \in 1..Len(queue'), NEW j \in 1..Len(queue'),
                      queue'[i].src = "auto", queue'[j].src = "auto",
                      queue'[i].id = queue'[j].id, queue'[i].at = queue'[j].at
               PROVE  i = j
    BY DEF OneFirePerInstant, IsFired
  <2>1. /\ i \in 1..Len(queue) /\ queue[i].src = "auto"
        /\ queue'[i].id = queue[i].id /\ queue'[i].at = queue[i].at
    BY DEF NoNewAuto
  <2>2. /\ j \in 1..Len(queue) /\ queue[j].src = "auto"
        /\ queue'[j].id = queue[j].id /\ queue'[j].at = queue[j].at
    BY DEF NoNewAuto
  <2> QED  BY <1>f, <2>1, <2>2 DEF OneFirePerInstant, IsFired
<1>6. \A d, e \in due' : d.id = e.id => d = e  BY <1>f DEF FiresAdvance
<1> QED  BY <1>2, <1>3, <1>4, <1>5, <1>6 DEF FireInv, FiresAdvance, IsFired

(* Appending a job that no tick fired, and ending one, keep the rest.      *)
LEMMA NoNewAutoAppend ==
    ASSUME NEW q \in Seq(QueueJobs), queue \in Seq(QueueJobs), Len(q) = Len(queue),
           \A i \in 1..Len(queue) : /\ q[i].src = queue[i].src
                                    /\ q[i].id = queue[i].id /\ q[i].at = queue[i].at,
           NEW src \in {"manual", "chain"}, NEW id, NEW kind, NEW at, NEW cause,
           queue' = Enqueued(q, src, id, kind, at, cause) \/ queue' = q
    PROVE  NoNewAuto
<1>1. CASE queue' = q  BY <1>1 DEF NoNewAuto
<1>2. CASE queue' = Enqueued(q, src, id, kind, at, cause)
  <2> DEFINE r == [src |-> src, id |-> id, kind |-> kind, at |-> at, cause |-> cause, ended |-> FALSE]
  <2>1. queue' = Append(q, r)  BY <1>2 DEF Enqueued
  <2>2. Len(queue') = Len(q) + 1 /\ queue'[Len(q) + 1].src # "auto"  BY <2>1
  <2>3. \A i \in 1..Len(q) : queue'[i] = q[i]  BY <2>1
  <2> HIDE DEF r
  <2> QED  BY <2>2, <2>3 DEF NoNewAuto
<1> QED  BY <1>1, <1>2

(* Save writes an instant after the present one.                           *)
LEMMA SaveMoves ==
    ASSUME TypeOK, NEW id \in Sids, NEW e \in BOOLEAN, NEW k \in Kinds, Save(id, e, k)
    PROVE  DefsMove
<1>1. NextAfter(id, clock) > clock  BY Later DEF TypeOK
<1> QED  BY <1>1 DEF Save, DefsMove

(* tickOnce: the due instants move from NextFire to the list to fire, and
   NextFire to an instant after the time the tick read.                    *)
LEMMA ScanKeeps == ASSUME FireInv, TypeOK', TickScan PROVE FireInv'
<1>f. TypeOK /\ FiresAdvance /\ OneFirePerInstant  BY DEF FireInv
<1>d. /\ DOMAIN defs \subseteq Sids
      /\ \A id \in DOMAIN defs : defs[id].next \in Nat /\ defs[id].enabled \in BOOLEAN
  BY <1>f, DefsElim DEF TypeOK, Def
<1>c. clock \in Nat /\ now \in Nat /\ now \in 0..MaxClock /\ now <= clock /\ clock' = clock /\ now' = 0
  BY <1>f DEF TypeOK, FiresAdvance, TickScan
<1>q. queue' = queue /\ \A i \in 1..Len(queue) : queue[i].at \in Nat
  <2>1. queue \in Seq(QueueJobs)  BY <1>f DEF TypeOK
  <2>2. \A i \in 1..Len(queue) : queue[i] \in QueueJobs  BY <2>1
  <2> QED  BY <2>2 DEF QueueJobs, TickScan
<1>n. \A id \in DOMAIN defs : NextAfter(id, now) \in Nat /\ NextAfter(id, now) > now
  BY <1>d, <1>c, Later
<1>1. /\ DOMAIN defs' = DOMAIN defs
      /\ \A id \in DOMAIN defs : /\ defs'[id].enabled = defs[id].enabled
                                 /\ defs'[id].next = NextFire(id)
  BY DEF TickScan, WithNext
<1>2. \A id \in DOMAIN defs : defs[id].enabled =>
          /\ NextFire(id) \in Nat /\ NextFire(id) # 0 /\ NextFire(id) >= defs[id].next
          /\ IsDue(id, now) => NextFire(id) > now /\ NextFire(id) > defs[id].next
  BY <1>d, <1>n, <1>c, <1>f DEF NextFire, IsDue, FiresAdvance
<1>3. \A d \in due' : \E id \in DOMAIN defs : /\ IsDue(id, now) /\ d.id = id /\ d.at = defs[id].next
                                               /\ d.kind = defs[id].kind
  BY DEF TickScan
<1>4. \A d \in due' : /\ d.id \in DOMAIN defs /\ IsDue(d.id, now) /\ d.at = defs[d.id].next
                      /\ d.kind = defs[d.id].kind
  BY <1>3
<1>5. \A d \in due' : d.at <= clock' /\ Ahead(defs', d.id, d.at)
  BY <1>1, <1>2, <1>4, <1>c, <1>d DEF IsDue, Ahead
<1>6. \A d, e \in due' : d.id = e.id => d = e
  BY DEF TickScan
<1>7. ASSUME NEW i \in 1..Len(queue'), queue'[i].src = "auto"
      PROVE  /\ queue'[i].at <= clock' /\ Ahead(defs', queue'[i].id, queue'[i].at)
             /\ \A d \in due' : queue'[i].id = d.id => queue'[i].at # d.at
  <2>1. i \in 1..Len(queue) /\ queue'[i] = queue[i] /\ queue[i].src = "auto"  BY <1>7, <1>q
  <2>2. queue[i].at <= clock /\ Ahead(defs, queue[i].id, queue[i].at)
    BY <2>1, <1>f DEF FiresAdvance, IsFired
  <2>3. queue[i].at \in Nat  BY <2>1, <1>q
  <2>4. Ahead(defs', queue[i].id, queue[i].at)
    BY <2>2, <2>3, <1>1, <1>2, <1>d DEF Ahead
  <2>5. \A d \in due' : queue[i].id = d.id => queue[i].at # d.at
    BY <2>2, <2>3, <1>4, <1>d DEF Ahead, IsDue
  <2> QED  BY <2>1, <2>2, <2>4, <2>5, <1>c
<1>8. \A id \in DOMAIN defs' : defs'[id].enabled => defs'[id].next # 0  BY <1>1, <1>2
<1>9. OneFirePerInstant'  BY <1>f, <1>q DEF OneFirePerInstant, IsFired
<1> QED  BY <1>c, <1>5, <1>6, <1>7, <1>8, <1>9 DEF FireInv, FiresAdvance, IsFired

(* fire: the instant leaves the list and joins the fired ones.             *)
LEMMA FireKeeps == ASSUME FireInv, TypeOK', NEW d \in due, FireDue(d) PROVE FireInv'
<1>f. TypeOK /\ FiresAdvance /\ OneFirePerInstant  BY DEF FireInv
<1>u. /\ defs' = defs /\ clock' = clock /\ now' = now /\ due' = due \ {d}
  BY DEF FireDue
<1>1. CASE queue' = queue
  <2>1. NoNewAuto  BY <1>1 DEF NoNewAuto
  <2>2. DefsMove  BY <1>u DEF DefsMove
  <2>3. clock <= clock' /\ now' <= clock'  BY <1>u, <1>f DEF TypeOK, FiresAdvance
  <2> QED  BY <1>u, <2>1, <2>2, <2>3, QuietStep
<1>2. CASE queue' = Enqueued(queue, "auto", d.id, d.kind, d.at, 0)
  <2> DEFINE r == [src |-> "auto", id |-> d.id, kind |-> d.kind, at |-> d.at,
                   cause |-> 0, ended |-> FALSE]
             n == Len(queue) + 1
  <2>1. queue \in Seq(QueueJobs) /\ queue' = Append(queue, r)  BY <1>2, <1>f DEF Enqueued, TypeOK
  <2>2. Len(queue) \in Nat /\ Len(queue') = n /\ queue'[n] = r  BY <2>1
  <2>3. \A i \in 1..Len(queue) : queue'[i] = queue[i]  BY <2>1
  <2>4. r.id = d.id /\ r.at = d.at  OBVIOUS
  <2>5. \A i \in 1..Len(queue') : i = n \/ i \in 1..Len(queue)  BY <2>2
  <2>6. \A i \in 1..Len(queue) : queue[i].src = "auto" /\ queue[i].id = d.id => queue[i].at # d.at
    BY <1>f DEF FiresAdvance, IsFired
  <2> HIDE DEF r
  <2>7. OneFirePerInstant'
    <3> SUFFICES ASSUME NEW i \in 1..Len(queue'), NEW j \in 1..Len(queue'),
                        queue'[i].src = "auto", queue'[j].src = "auto",
                        queue'[i].id = queue'[j].id, queue'[i].at = queue'[j].at
                 PROVE  i = j
      BY DEF OneFirePerInstant, IsFired
    <3>1. CASE i \in 1..Len(queue) /\ j \in 1..Len(queue)
      BY <3>1, <2>3, <1>f DEF OneFirePerInstant, IsFired
    <3>2. CASE i = n /\ j \in 1..Len(queue)  BY <3>2, <2>2, <2>3, <2>4, <2>6
    <3>3. CASE j = n /\ i \in 1..Len(queue)  BY <3>3, <2>2, <2>3, <2>4, <2>6
    <3> QED  BY <2>5, <3>1, <3>2, <3>3
  <2>8. ASSUME NEW i \in 1..Len(queue'), queue'[i].src = "auto"
        PROVE  /\ queue'[i].at <= clock' /\ Ahead(defs', queue'[i].id, queue'[i].at)
               /\ \A e \in due' : queue'[i].id = e.id => queue'[i].at # e.at
    <3>1. CASE i \in 1..Len(queue)
      BY <2>8, <3>1, <2>3, <1>u, <1>f DEF FiresAdvance, IsFired
    <3>2. CASE i = n
      <4>1. d.at <= clock /\ Ahead(defs, d.id, d.at)  BY <1>f DEF FiresAdvance
      <4>2. \A e \in due' : d.id # e.id  BY <1>u, <1>f DEF FiresAdvance
      <4> QED  BY <3>2, <2>2, <2>4, <4>1, <4>2, <1>u
    <3> QED  BY <2>5, <3>1, <3>2
  <2>9. /\ now' <= clock'
        /\ \A id \in DOMAIN defs' : defs'[id].enabled => defs'[id].next # 0
        /\ \A e \in due' : e.at <= clock' /\ Ahead(defs', e.id, e.at)
        /\ \A a, b \in due' : a.id = b.id => a = b
    BY <1>u, <1>f DEF FiresAdvance
  <2> QED  BY <2>7, <2>8, <2>9 DEF FireInv, FiresAdvance, IsFired
<1> QED  BY <1>1, <1>2 DEF FireDue

LEMMA FireStep == FireInv /\ [Next]_vars => FireInv'
<1> SUFFICES ASSUME FireInv, [Next]_vars PROVE FireInv'  OBVIOUS
<1>t. TypeOK /\ TypeOK'  BY TypeStep DEF FireInv
<1>c. clock \in Nat /\ now \in Nat /\ now <= clock  BY DEF FireInv, TypeOK, FiresAdvance
<1>d. DOMAIN disk \subseteq Sids  BY <1>t, DefsElim DEF TypeOK
<1>q. queue \in Seq(QueueJobs)  BY <1>t DEF TypeOK
<1> DEFINE Same == queue' = queue /\ due' \subseteq due /\ now' <= clock' /\ clock <= clock'
<1>same. ASSUME Same, DefsMove PROVE FireInv'
  <2>1. NoNewAuto  BY <1>same DEF NoNewAuto
  <2> QED  BY <2>1, <1>same, <1>t, QuietStep
<1>1. CASE New
  <2>1. \A id \in DOMAIN disk : NextAfter(id, clock) > clock  BY <1>t, <1>d, Later DEF TypeOK
  <2>2. DefsMove  BY <1>1, <2>1 DEF New, WithNext, recomputeNextFire, DefsMove
  <2> QED  BY <1>1, <2>2, <1>same, <1>c DEF New, tick
<1>2. CASE Stop  BY <1>2, <1>same, <1>c DEF Stop, jobs, tick, DefsMove
<1>3. CASE Crash
  <2>1. DefsMove  BY <1>3 DEF Crash, DefsMove
  <2> QED  BY <1>3, <2>1, <1>same, <1>c DEF Crash
<1>4. CASE TimePasses  BY <1>4, <1>same, <1>c DEF TimePasses, jobs, tick, DefsMove
<1>5. CASE TickBegin  BY <1>5, <1>same, <1>c DEF TickBegin, jobs, DefsMove
<1>6. CASE TickScan  BY <1>6, <1>t, ScanKeeps
<1>7. CASE Fire  BY <1>7, <1>t, FireKeeps DEF Fire
<1>8. CASE Handlers
  <2>1. ASSUME NEW id \in Sids, NEW e \in BOOLEAN, NEW k \in Kinds, Create(id, e, k)
        PROVE  FireInv'
    <3>1. DefsMove  BY <2>1, <1>t, SaveMoves DEF Create
    <3> QED  BY <2>1, <3>1, <1>same, <1>c DEF Create, tick
  <2>2. ASSUME NEW id \in Sids, Delete(id) PROVE FireInv'
    <3>1. DefsMove  BY <2>2 DEF Delete, DefsMove
    <3> QED  BY <2>2, <3>1, <1>same, <1>c DEF Delete, tick
  <2>3. ASSUME NEW c \in Clients, NEW id \in Sids, HandlerGet(c, id) PROVE FireInv'
    BY <2>3, <1>same, <1>c DEF HandlerGet, jobs, tick, DefsMove
  <2>4. ASSUME NEW c \in Clients, NEW e \in BOOLEAN, NEW k \in Kinds, Update(c, e, k)
        PROVE  FireInv'
    <3>1. held[c] \in Sids  BY <2>4, <1>t DEF Update, TypeOK
    <3>2. DefsMove  BY <2>4, <3>1, <1>t, SaveMoves DEF Update
    <3> QED  BY <2>4, <3>2, <1>same, <1>c DEF Update, tick
  <2>5. ASSUME NEW c \in Clients, RunNow(c) PROVE FireInv'
    <3>1. NoNewAuto
      <4>1. CASE held[c] \in DOMAIN defs  BY <2>5, <4>1, <1>q, NoNewAutoAppend DEF RunNow
      <4>2. CASE held[c] \notin DOMAIN defs  BY <2>5, <4>2 DEF RunNow, NoNewAuto
      <4> QED  BY <4>1, <4>2
    <3>2. DefsMove  BY <2>5 DEF RunNow, DefsMove
    <3> QED  BY <2>5, <3>1, <3>2, <1>t, <1>c, QuietStep DEF RunNow, tick
  <2> QED  BY <1>8, <2>1, <2>2, <2>3, <2>4, <2>5 DEF Handlers
<1>9. ASSUME NEW k \in Kinds, AuthzChanges(k) PROVE FireInv'
  BY <1>9, <1>same, <1>c DEF AuthzChanges, jobs, tick, DefsMove
<1>10. ASSUME NEW i \in 1..Len(queue), NEW ok \in BOOLEAN, OnQueueTerminal(i, ok) PROVE FireInv'
  <2> DEFINE e == [queue EXCEPT ![i].ended = TRUE]
  <2>1. queue[i] \in QueueJobs  BY <1>q
  <2>2. [queue[i] EXCEPT !.ended = TRUE] \in QueueJobs  BY <2>1 DEF QueueJobs
  <2>3. e \in Seq(QueueJobs) /\ Len(e) = Len(queue)  BY <1>q, <2>2
  <2>4. \A k \in 1..Len(queue) : e[k].src = queue[k].src /\ e[k].id = queue[k].id /\ e[k].at = queue[k].at
    BY <1>q, <2>1 DEF QueueJobs
  <2>5. \/ queue' = Enqueued(e, "chain", queue[i].id, ThenKind[queue[i].id], 0, i)
        \/ queue' = e
    BY <1>10 DEF OnQueueTerminal
  <2> HIDE DEF e
  <2>6. NoNewAuto  BY <2>3, <2>4, <2>5, <1>q, NoNewAutoAppend
  <2>7. DefsMove  BY <1>10 DEF OnQueueTerminal, jobs, DefsMove
  <2> QED  BY <1>10, <2>6, <2>7, <1>t, <1>c, QuietStep DEF OnQueueTerminal, tick
<1>11. CASE UNCHANGED vars  BY <1>11, <1>same, <1>c DEF vars, jobs, tick, DefsMove
<1> QED
  BY <1>1, <1>2, <1>3, <1>4, <1>5, <1>6, <1>7, <1>8, <1>9, <1>10, <1>11 DEF Next

LEMMA FireInit == Init => FireInv
<1> SUFFICES ASSUME Init PROVE FireInv  OBVIOUS
<1>1. TypeOK  BY TypeInit
<1>2. Len(queue) = 0 /\ DOMAIN defs = {} /\ due = {} /\ now = 0 /\ clock = 0  BY DEF Init
<1> QED  BY <1>1, <1>2 DEF FireInv, FiresAdvance, OneFirePerInstant

(* For every table of schedules, no instant is fired twice: tickOnce moves
   NextFire past the time it read before it fires, and New and Save only
   ever set it after the present.                                          *)
THEOREM FiresOnce == Spec => []OneFirePerInstant
<1>1. FireInv => OneFirePerInstant  BY DEF FireInv
<1> QED  BY FireInit, FireStep, <1>1, PTL DEF Spec

-----------------------------------------------------------------------------
(* A tick that finds nothing due writes nothing, and needs to write nothing:
   a schedule that may fire always has its NextFire.                       *)
LEMMA IdleScan ==
    ASSUME FireInv, TickScan, due' = {} PROVE defs' = defs
<1>1. defs \in [DOMAIN defs -> Def]  BY DefsElim DEF FireInv, TypeOK
<1>2. \A id \in DOMAIN defs : ~IsDue(id, now)  BY DEF TickScan
<1>3. \A id \in DOMAIN defs : defs[id].enabled => defs[id].next # 0  BY DEF FireInv, FiresAdvance
<1>4. \A id \in DOMAIN defs : NextFire(id) = defs[id].next  BY <1>2, <1>3 DEF NextFire
<1>5. \A id \in DOMAIN defs :
        [enabled |-> defs[id].enabled, kind |-> defs[id].kind, next |-> NextFire(id)] = defs[id]
  BY <1>1, <1>4 DEF Def
<1>6. defs' = [id \in DOMAIN defs |->
        [enabled |-> defs[id].enabled, kind |-> defs[id].kind, next |-> NextFire(id)]]
  BY DEF TickScan, WithNext
<1> QED  BY <1>1, <1>5, <1>6

LEMMA SavedStep == FireInv /\ SavedSchedules /\ [Next]_vars => SavedSchedules'
<1> SUFFICES ASSUME FireInv, SavedSchedules, [Next]_vars PROVE SavedSchedules'  OBVIOUS
<1>1. CASE TickScan
  <2>1. CASE due' = {}  BY <1>1, <2>1, IdleScan DEF TickScan, SavedSchedules
  <2>2. CASE due' # {}  BY <1>1, <2>2 DEF TickScan, saveLocked, SavedSchedules
  <2> QED  BY <2>1, <2>2
<1>2. CASE New \/ Fire \/ Crash
  BY <1>2 DEF New, Fire, FireDue, Crash, saveLocked, SavedSchedules
<1>3. CASE Stop \/ TimePasses \/ TickBegin \/ UNCHANGED vars
  BY <1>3 DEF Stop, TimePasses, TickBegin, vars, jobs, SavedSchedules
<1>4. CASE Handlers
  BY <1>4 DEF Handlers, Create, Delete, HandlerGet, Update, RunNow, Save, saveLocked, jobs,
              SavedSchedules
<1>5. ASSUME NEW k \in Kinds, AuthzChanges(k) PROVE SavedSchedules'
  BY <1>5 DEF AuthzChanges, jobs, SavedSchedules
<1>6. ASSUME NEW i \in 1..Len(queue), NEW ok \in BOOLEAN, OnQueueTerminal(i, ok)
      PROVE  SavedSchedules'
  BY <1>6 DEF OnQueueTerminal, jobs, SavedSchedules
<1> QED  BY <1>1, <1>2, <1>3, <1>4, <1>5, <1>6 DEF Next

(* jobs.json is never behind s.jobs when s.mu is free, so a crash loses no
   edit and un-fires no instant, although an idle tick does not save.      *)
THEOREM SchedulesSurvive == Spec => []SavedSchedules
<1>1. Init => SavedSchedules  BY DEF Init, SavedSchedules
<1> QED  BY FireInit, FireStep, SavedStep, <1>1, PTL DEF Spec

-----------------------------------------------------------------------------
(* The three things a step does to the queue: a tick or a handler appends a
   job; a job ends; a job that ends is followed by one more.               *)
Appends ==
    \E src \in {"auto", "manual"}, id \in Sids, kind \in Kinds, at \in Nat :
        /\ src = "auto" => kind \in allowed
        /\ queue' = Enqueued(queue, src, id, kind, at, 0)

Ended(i) == [queue EXCEPT ![i].ended = TRUE]

Ends == \E i \in 1..Len(queue) : queue' = Ended(i)

Follow ==
    \E i \in 1..Len(queue), id \in Sids, kind \in Kinds :
        /\ ~queue[i].ended /\ queue[i].src # "chain" /\ kind \in allowed
        /\ queue' = Enqueued(Ended(i), "chain", id, kind, 0, i)

LEMMA QueueMoves == TypeOK /\ [Next]_vars => queue' = queue \/ Appends \/ Ends \/ Follow
<1> SUFFICES ASSUME TypeOK, [Next]_vars PROVE queue' = queue \/ Appends \/ Ends \/ Follow
  OBVIOUS
<1>d. DOMAIN defs \subseteq Sids /\ defs \in [DOMAIN defs -> Def]  BY DefsElim DEF TypeOK
<1>1. CASE New \/ Stop \/ Crash \/ TimePasses \/ TickBegin \/ TickScan \/ UNCHANGED vars
  BY <1>1 DEF New, Stop, Crash, TimePasses, TickBegin, TickScan, vars
<1>2. ASSUME NEW d \in due, FireDue(d) PROVE queue' = queue \/ Appends
  <2>1. d.id \in Sids /\ d.kind \in Kinds /\ d.at \in Nat  BY DEF TypeOK, DueJobs
  <2>2. CASE queue' = queue  BY <2>2
  <2>3. CASE MayFire(d.kind) /\ queue' = Enqueued(queue, "auto", d.id, d.kind, d.at, 0)
    BY <2>1, <2>3 DEF Appends, MayFire
  <2> QED  BY <1>2, <2>2, <2>3 DEF FireDue
<1>3. ASSUME NEW c \in Clients, RunNow(c) PROVE queue' = queue \/ Appends
  <2>1. held[c] \in Sids  BY <1>3 DEF RunNow, TypeOK
  <2>2. CASE held[c] \notin DOMAIN defs  BY <1>3, <2>2 DEF RunNow
  <2>3. CASE held[c] \in DOMAIN defs
    <3>1. defs[held[c]].kind \in Kinds  BY <1>d, <2>3 DEF Def
    <3>2. queue' = Enqueued(queue, "manual", held[c], defs[held[c]].kind, 0, 0)
      BY <1>3, <2>3 DEF RunNow
    <3> QED  BY <2>1, <3>1, <3>2 DEF Appends
  <2> QED  BY <2>2, <2>3
<1>4. CASE Handlers
  BY <1>3, <1>4 DEF Handlers, Create, Delete, HandlerGet, Update
<1>5. ASSUME NEW k \in Kinds, AuthzChanges(k) PROVE queue' = queue  BY <1>5 DEF AuthzChanges
<1>6. ASSUME NEW i \in 1..Len(queue), NEW ok \in BOOLEAN, OnQueueTerminal(i, ok)
      PROVE  Ends \/ Follow
  <2>1. CASE ~ChainsTo(queue[i], ok)  BY <1>6, <2>1 DEF OnQueueTerminal, Ends, Ended
  <2>2. CASE ChainsTo(queue[i], ok)
    <3>1. queue[i] \in QueueJobs  BY DEF TypeOK
    <3>2. queue[i].id \in Sids /\ ThenKind[queue[i].id] \in Kinds \cap allowed
      BY <2>2, <3>1, SchedulerAssumptions DEF ChainsTo, MayFire, QueueJobs
    <3>3. ~queue[i].ended /\ queue[i].src # "chain"
      BY <1>6, <2>2 DEF OnQueueTerminal, ChainsTo, Chains
    <3>4. queue' = Enqueued(Ended(i), "chain", queue[i].id, ThenKind[queue[i].id], 0, i)
      BY <1>6, <2>2 DEF OnQueueTerminal, Ended
    <3> QED  BY <3>2, <3>3, <3>4 DEF Follow
  <2> QED  BY <2>1, <2>2
<1> QED  BY <1>1, <1>2, <1>4, <1>5, <1>6 DEF Next, Fire

(* A queue with one job marked ended, and one with a job more.             *)
LEMMA EndedQueue ==
    ASSUME queue \in Seq(QueueJobs), NEW i \in 1..Len(queue)
    PROVE  /\ Ended(i) \in Seq(QueueJobs) /\ Len(Ended(i)) = Len(queue) /\ Ended(i)[i].ended
           /\ \A k \in 1..Len(queue) :
                /\ Ended(i)[k].src = queue[k].src /\ Ended(i)[k].cause = queue[k].cause
                /\ queue[k].ended => Ended(i)[k].ended
<1>1. \A k \in 1..Len(queue) : queue[k] \in QueueJobs  OBVIOUS
<1>2. [queue[i] EXCEPT !.ended = TRUE] \in QueueJobs  BY <1>1 DEF QueueJobs
<1>3. Ended(i) \in Seq(QueueJobs) /\ Len(Ended(i)) = Len(queue)  BY <1>2 DEF Ended
<1>4. \A k \in 1..Len(queue) : k # i => Ended(i)[k] = queue[k]  BY DEF Ended
<1>5. /\ Ended(i)[i].src = queue[i].src /\ Ended(i)[i].cause = queue[i].cause
      /\ Ended(i)[i].ended
  BY <1>1 DEF Ended, QueueJobs
<1> QED  BY <1>3, <1>4, <1>5

LEMMA EnqueuedQueue ==
    ASSUME NEW q \in Seq(QueueJobs), NEW src, NEW id, NEW kind, NEW at, NEW cause
    PROVE  LET r == Enqueued(q, src, id, kind, at, cause)
           IN  /\ Len(r) = Len(q) + 1
               /\ \A k \in 1..Len(q) : r[k] = q[k]
               /\ r[Len(q) + 1].src = src /\ r[Len(q) + 1].kind = kind
               /\ r[Len(q) + 1].cause = cause
BY DEF Enqueued

(* Whatever the loop or a chain puts in the queue was allowed at the moment
   it was put there: FireDue and OnQueueTerminal ask before they enqueue,
   and nothing else enqueues but a run by hand.                            *)
THEOREM AutonomyIsAuthorized == Spec => AutonomousIsAuthorized
<1> DEFINE New1 == \A i \in 1..Len(queue') :
                     i > Len(queue) /\ queue'[i].src # "manual" => queue'[i].kind \in allowed
<1>1. TypeOK /\ [Next]_vars => New1
  <2> SUFFICES ASSUME TypeOK, [Next]_vars PROVE New1  OBVIOUS
  <2>q. queue \in Seq(QueueJobs) /\ Len(queue) \in Nat  BY DEF TypeOK
  <2>1. CASE queue' = queue  BY <2>1, <2>q
  <2>2. CASE Appends
    <3>1. PICK src \in {"auto", "manual"}, id \in Sids, kind \in Kinds, at \in Nat :
             /\ src = "auto" => kind \in allowed
             /\ queue' = Enqueued(queue, src, id, kind, at, 0)
      BY <2>2 DEF Appends
    <3>2. /\ Len(queue') = Len(queue) + 1
          /\ queue'[Len(queue) + 1].src = src /\ queue'[Len(queue) + 1].kind = kind
      BY <2>q, <3>1, EnqueuedQueue
    <3>3. \A i \in 1..Len(queue') : i > Len(queue) => i = Len(queue) + 1  BY <2>q, <3>2
    <3> QED  BY <3>1, <3>2, <3>3
  <2>3. CASE Ends
    <3>1. PICK i \in 1..Len(queue) : queue' = Ended(i)  BY <2>3 DEF Ends
    <3>2. Len(queue') = Len(queue)  BY <2>q, <3>1, EndedQueue
    <3> QED  BY <2>q, <3>2
  <2>4. CASE Follow
    <3>1. PICK i \in 1..Len(queue), id \in Sids, kind \in Kinds :
             /\ kind \in allowed /\ queue' = Enqueued(Ended(i), "chain", id, kind, 0, i)
      BY <2>4 DEF Follow
    <3>2. Ended(i) \in Seq(QueueJobs) /\ Len(Ended(i)) = Len(queue)  BY <2>q, EndedQueue
    <3>3. Len(queue') = Len(queue) + 1 /\ queue'[Len(queue) + 1].kind = kind
      BY <3>1, <3>2, EnqueuedQueue
    <3>4. \A k \in 1..Len(queue') : k > Len(queue) => k = Len(queue) + 1  BY <2>q, <3>3
    <3> QED  BY <3>1, <3>3, <3>4
  <2> QED  BY <2>1, <2>2, <2>3, <2>4, QueueMoves
<1>2. TypeOK /\ [Next]_vars => [New1]_vars  BY <1>1
<1> QED  BY <1>2, TypeInit, TypeStep, PTL DEF Spec, AutonomousIsAuthorized

-----------------------------------------------------------------------------
(* Why chains are short: a chained job points at a job that has ended and
   was not chained itself, and no job ends twice, so no job is pointed at
   by two.                                                                 *)
ChainInv ==
    \A i \in 1..Len(queue) : queue[i].src = "chain" =>
        /\ queue[i].cause \in 1..Len(queue)
        /\ queue[queue[i].cause].src # "chain" /\ queue[queue[i].cause].ended
        /\ \A j \in 1..Len(queue) :
             j # i /\ queue[j].src = "chain" => queue[j].cause # queue[i].cause

(* The invariant survives when jobs keep their source and cause and stay
   ended, and when a job is added that is not chained.                     *)
LEMMA ChainKeeps ==
    ASSUME queue \in Seq(QueueJobs), Len(queue') \in Nat, Len(queue) <= Len(queue'), ChainInv,
           \A k \in 1..Len(queue) : /\ queue'[k].src = queue[k].src
                                    /\ queue'[k].cause = queue[k].cause
                                    /\ queue[k].ended => queue'[k].ended,
           \A k \in 1..Len(queue') : k > Len(queue) => queue'[k].src # "chain"
    PROVE  ChainInv'
<1>1. Len(queue) \in Nat /\ \A k \in 1..Len(queue) : k \in 1..Len(queue')  OBVIOUS
<1>2. \A k \in 1..Len(queue') : queue'[k].src = "chain" => k \in 1..Len(queue)  BY <1>1
<1> SUFFICES ASSUME NEW i \in 1..Len(queue'), queue'[i].src = "chain"
             PROVE  /\ queue'[i].cause \in 1..Len(queue')
                    /\ queue'[queue'[i].cause].src # "chain" /\ queue'[queue'[i].cause].ended
                    /\ \A j \in 1..Len(queue') :
                         j # i /\ queue'[j].src = "chain" => queue'[j].cause # queue'[i].cause
  BY DEF ChainInv
<1>3. i \in 1..Len(queue) /\ queue[i].src = "chain" /\ queue'[i].cause = queue[i].cause
  BY <1>2
<1>4. /\ queue[i].cause \in 1..Len(queue)
      /\ queue[queue[i].cause].src # "chain" /\ queue[queue[i].cause].ended
  BY <1>3 DEF ChainInv
<1>5. ASSUME NEW j \in 1..Len(queue'), j # i, queue'[j].src = "chain"
      PROVE  queue'[j].cause # queue'[i].cause
  <2>1. j \in 1..Len(queue) /\ queue[j].src = "chain" /\ queue'[j].cause = queue[j].cause
    BY <1>2, <1>5
  <2> QED  BY <1>3, <1>5, <2>1 DEF ChainInv
<1> QED  BY <1>1, <1>3, <1>4, <1>5

LEMMA ChainStep == TypeOK /\ ChainInv /\ [Next]_vars => ChainInv'
<1> SUFFICES ASSUME TypeOK, ChainInv, [Next]_vars PROVE ChainInv'  OBVIOUS
<1>q. queue \in Seq(QueueJobs) /\ Len(queue) \in Nat  BY DEF TypeOK
<1>1. CASE queue' = queue  BY <1>1 DEF ChainInv
<1>2. CASE Appends
  <2>1. PICK src \in {"auto", "manual"}, id \in Sids, kind \in Kinds, at \in Nat :
           queue' = Enqueued(queue, src, id, kind, at, 0)
    BY <1>2 DEF Appends
  <2>2. /\ Len(queue') = Len(queue) + 1 /\ queue'[Len(queue) + 1].src # "chain"
        /\ \A k \in 1..Len(queue) : queue'[k] = queue[k]
    BY <1>q, <2>1, EnqueuedQueue
  <2>3. \A k \in 1..Len(queue') : k > Len(queue) => k = Len(queue) + 1  BY <1>q, <2>2
  <2>4. Len(queue') \in Nat /\ Len(queue) <= Len(queue')  BY <1>q, <2>2
  <2> QED  BY <1>q, <2>2, <2>3, <2>4, ChainKeeps
<1>3. CASE Ends
  <2>1. PICK i \in 1..Len(queue) : queue' = Ended(i)  BY <1>3 DEF Ends
  <2>2. /\ Len(queue') = Len(queue)
        /\ \A k \in 1..Len(queue) : /\ queue'[k].src = queue[k].src
                                    /\ queue'[k].cause = queue[k].cause
                                    /\ queue[k].ended => queue'[k].ended
    BY <1>q, <2>1, EndedQueue
  <2>3. \A k \in 1..Len(queue') : ~(k > Len(queue))  BY <1>q, <2>2
  <2>4. Len(queue') \in Nat /\ Len(queue) <= Len(queue')  BY <1>q, <2>2
  <2> QED  BY <1>q, <2>2, <2>3, <2>4, ChainKeeps
<1>4. CASE Follow
  <2>1. PICK c \in 1..Len(queue), id \in Sids, kind \in Kinds :
           /\ ~queue[c].ended /\ queue[c].src # "chain"
           /\ queue' = Enqueued(Ended(c), "chain", id, kind, 0, c)
    BY <1>4 DEF Follow
  <2> DEFINE n == Len(queue) + 1
  <2>2. /\ Ended(c) \in Seq(QueueJobs) /\ Len(Ended(c)) = Len(queue) /\ Ended(c)[c].ended
        /\ \A k \in 1..Len(queue) :
             /\ Ended(c)[k].src = queue[k].src /\ Ended(c)[k].cause = queue[k].cause
             /\ queue[k].ended => Ended(c)[k].ended
    BY <1>q, EndedQueue
  <2>3. /\ Len(queue') = n /\ \A k \in 1..Len(queue) : queue'[k] = Ended(c)[k]
        /\ queue'[n].src = "chain" /\ queue'[n].cause = c
    BY <2>1, <2>2, EnqueuedQueue
  <2>4. \A k \in 1..Len(queue') : k = n \/ k \in 1..Len(queue)  BY <1>q, <2>3
  <2>5. \A k \in 1..Len(queue) : k \in 1..Len(queue') /\ k # n  BY <1>q, <2>3
  <2>6. ASSUME NEW i \in 1..Len(queue'), queue'[i].src = "chain"
        PROVE  /\ queue'[i].cause \in 1..Len(queue')
               /\ queue'[queue'[i].cause].src # "chain" /\ queue'[queue'[i].cause].ended
               /\ \A j \in 1..Len(queue') :
                    j # i /\ queue'[j].src = "chain" => queue'[j].cause # queue'[i].cause
    <3>1. ASSUME NEW j \in 1..Len(queue), queue'[j].src = "chain"
          PROVE  /\ queue[j].src = "chain" /\ queue'[j].cause = queue[j].cause
                 /\ queue[j].cause \in 1..Len(queue) /\ queue[j].cause # c
                 /\ queue[queue[j].cause].src # "chain" /\ queue[queue[j].cause].ended
      BY <2>1, <2>2, <2>3, <3>1 DEF ChainInv
    <3>2. CASE i = n
      <4>1. queue'[c].src # "chain" /\ queue'[c].ended /\ c \in 1..Len(queue')
        BY <2>1, <2>2, <2>3, <2>5
      <4> QED  BY <2>3, <2>4, <3>1, <3>2, <4>1
    <3>3. CASE i \in 1..Len(queue)
      <4>1. ASSUME NEW j \in 1..Len(queue'), j # i, queue'[j].src = "chain"
            PROVE  queue'[j].cause # queue'[i].cause
        <5>1. CASE j = n  BY <2>3, <2>6, <3>1, <3>3, <5>1
        <5>2. CASE j \in 1..Len(queue)
          BY <2>6, <3>1, <3>3, <4>1, <5>2 DEF ChainInv
        <5> QED  BY <2>4, <5>1, <5>2
      <4> QED  BY <2>2, <2>3, <2>5, <2>6, <3>1, <3>3, <4>1
    <3> QED  BY <2>4, <3>2, <3>3
  <2> HIDE DEF n
  <2> QED  BY <2>6 DEF ChainInv
<1> QED  BY <1>1, <1>2, <1>3, <1>4, QueueMoves

(* Chains are at most one long and never fork, for every table of follow-ups,
   even one in which two schedules name each other's kinds.                *)
THEOREM ChainsStayShort == Spec => []ChainsAreShort
<1>1. Init => ChainInv  BY DEF Init, ChainInv
<1>2. ChainInv => ChainsAreShort  BY DEF ChainInv, ChainsAreShort
<1> QED  BY <1>1, <1>2, TypeInit, TypeStep, ChainStep, PTL DEF Spec
=============================================================================
