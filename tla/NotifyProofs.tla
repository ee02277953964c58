---------------------------- MODULE NotifyProofs ----------------------------
(* Proofs about NotifyRouter for every set of keys, rules and channels,     *)
(* every matching, buffer size, window, breaker setting and history         *)
(* capacity, and about the lock order of QueueHook.                         *)
EXTENDS NotifyRouter, QueueHook, SequenceTheorems, FiniteSetTheorems, TLAPS

(* An event as producers make it, a call of Channel.Send, and the event in
   handle.                                                                 *)
Ev == [n : Nat, key : Keys]
SendRec == [key : Keys, rule : Rules \cup {NoEvent}, chan : Chans, at : Nat, ok : BOOLEAN]
InHandle ==
    [key : Keys, now : Nat, rules : SUBSET Rules, chans : SUBSET Chans,
     rule : Rules \cup {NoEvent}, left : SUBSET Chans]

ProducerTypes ==
    /\ buf \in Seq(Ev) /\ dispatched \in Nat /\ dropped \in Nat /\ taken \in Nat
WorkerTypes ==
    /\ time \in Nat /\ rules \subseteq Rules /\ chans \subseteq Chans
    /\ event # NoEvent => event \in InHandle /\ event.now <= time
    /\ sends \in Seq(SendRec)
    /\ \A k \in DOMAIN throttle : throttle[k] \in Nat
    /\ breaker \in [Chans -> [failures : Nat, openUntil : Nat]]
RouterTypes == ProducerTypes /\ WorkerTypes

LEMMA RouterTypesInit == RouterInit => RouterTypes
BY DEF RouterInit, RouterTypes, ProducerTypes, WorkerTypes

LEMMA RouterTypesStep == RouterTypes /\ [RouterNext]_routerVars => RouterTypes'
  <1> SUFFICES ASSUME RouterTypes, [RouterNext]_routerVars PROVE RouterTypes'
    OBVIOUS
  <1> USE RouterAssumptions DEF RouterTypes
  <1>1. ASSUME NEW k \in Keys, Dispatch(k) PROVE RouterTypes'
    <2>1. [n |-> dispatched', key |-> k] \in Ev
      BY <1>1 DEF Dispatch, ProducerTypes, Ev
    <2>2. Append(buf, [n |-> dispatched', key |-> k]) \in Seq(Ev)
      BY <2>1, AppendProperties DEF ProducerTypes
    <2>3. \/ buf' = Append(buf, [n |-> dispatched', key |-> k]) /\ dropped' = dropped
          \/ buf' = buf /\ dropped' = dropped + 1
      BY <1>1, Zenon DEF Dispatch, Overflow
    <2>4. buf' \in Seq(Ev)
      BY <2>2, <2>3, Zenon DEF ProducerTypes
    <2>5. dispatched' \in Nat /\ dropped' \in Nat /\ taken' \in Nat
      BY <1>1, <2>3 DEF Dispatch, ProducerTypes, worker
    <2>6. ProducerTypes'
      BY <2>4, <2>5 DEF ProducerTypes
    <2>7. WorkerTypes'
      BY <1>1 DEF Dispatch, WorkerTypes, worker, config
    <2> QED  BY <2>6, <2>7
  <1>2. ASSUME NEW r \in Rules, EditRule(r) PROVE RouterTypes'
    BY <1>2 DEF EditRule, Toggle, ProducerTypes, WorkerTypes, producer, worker
  <1>3. ASSUME NEW c \in Chans, EditChannel(c) PROVE RouterTypes'
    BY <1>3 DEF EditChannel, Toggle, ProducerTypes, WorkerTypes, producer, worker
  <1>4. ASSUME ClockRuns PROVE RouterTypes'
    <2>1. ProducerTypes'
      BY <1>4 DEF ClockRuns, ProducerTypes, producer, worker
    <2>2. WorkerTypes'
      BY <1>4 DEF ClockRuns, WorkerTypes, InHandle, worker, config
    <2> QED  BY <2>1, <2>2
  <1>5. ASSUME HandleBegin PROVE RouterTypes'
    <2>1. Head(buf) \in Ev /\ Tail(buf) \in Seq(Ev)
      BY <1>5, HeadTailProperties DEF HandleBegin, ProducerTypes
    <2>2. ProducerTypes'
      BY <1>5, <2>1 DEF HandleBegin, ProducerTypes
    <2>3. event' \in InHandle /\ event'.now = time
      BY <1>5, <2>1 DEF HandleBegin, WorkerTypes, InHandle, Ev
    <2>4. \A k \in DOMAIN throttle' : throttle'[k] \in Nat
      BY <1>5 DEF HandleBegin, WorkerTypes, evictThrottle, Restrict
    <2> QED  BY <1>5, <2>2, <2>3, <2>4 DEF HandleBegin, WorkerTypes, config
  <1>6. ASSUME NEW r \in Rules, HandleRule(r) PROVE RouterTypes'
    <2>1. ProducerTypes'
      BY <1>6 DEF HandleRule, ProducerTypes, producer
    <2>2. event \in InHandle /\ event.now <= time
      BY <1>6 DEF HandleRule, WorkerTypes
    <2>3. event' \in InHandle /\ event'.now = event.now
      <3>1. CASE Throttled(<<event.key, r>>)
        <4>1. event' = [event EXCEPT !.rules = @ \ {r}]
          BY <1>6, <3>1 DEF HandleRule
        <4> QED  BY <2>2, <4>1 DEF InHandle
      <3>2. CASE ~Throttled(<<event.key, r>>)
        <4>1. event' = [event EXCEPT !.rules = @ \ {r}, !.rule = r,
                                     !.left = ChannelsOf[r] \cap event.chans]
          BY <1>6, <3>2 DEF HandleRule
        <4> QED  BY <2>2, <4>1 DEF InHandle
      <3> QED  BY <3>1, <3>2
    <2>4. \A k \in DOMAIN throttle' : throttle'[k] \in Nat
      BY <1>6, <2>2 DEF HandleRule, WorkerTypes, InHandle
    <2> QED  BY <1>6, <2>1, <2>2, <2>3, <2>4 DEF HandleRule, WorkerTypes, config
  <1>7. ASSUME NEW c \in Chans, sendViaOpen(c) PROVE RouterTypes'
    <2>1. event \in InHandle /\ event.now <= time
      BY <1>7 DEF sendViaOpen, WorkerTypes
    <2>2. event' \in InHandle /\ event'.now = event.now
      BY <1>7, <2>1 DEF sendViaOpen, SendSkipped, InHandle
    <2> QED
      BY <1>7, <2>1, <2>2 DEF sendViaOpen, ProducerTypes, WorkerTypes, producer, config
  <1>8. ASSUME NEW c \in Chans, NEW ok \in BOOLEAN, sendVia(c, ok) PROVE RouterTypes'
    <2>1. event \in InHandle /\ event.now <= time
      BY <1>8 DEF sendVia, WorkerTypes
    <2>2. event' \in InHandle /\ event'.now = event.now
      BY <1>8, <2>1 DEF sendVia, InHandle
    <2>3. [key |-> event.key, rule |-> event.rule, chan |-> c,
           at |-> event.now, ok |-> ok] \in SendRec
      BY <2>1 DEF InHandle, SendRec
    <2>4. sends' \in Seq(SendRec)
      BY <1>8, <2>3 DEF sendVia, WorkerTypes
    <2>5. breaker' \in [Chans -> [failures : Nat, openUntil : Nat]]
      BY <1>8, <2>1 DEF sendVia, WorkerTypes, AfterSend, InHandle
    <2> QED
      BY <1>8, <2>1, <2>2, <2>4, <2>5
         DEF sendVia, ProducerTypes, WorkerTypes, producer, config
  <1>9. ASSUME HandleEnd PROVE RouterTypes'
    BY <1>9 DEF HandleEnd, ProducerTypes, WorkerTypes, producer, config
  <1>10. ASSUME CloseBegin \/ RunReturns \/ UNCHANGED routerVars PROVE RouterTypes'
    BY <1>10 DEF CloseBegin, RunReturns, ProducerTypes, WorkerTypes, producer, worker,
         config, routerVars
  <1> QED
    BY <1>1, <1>2, <1>3, <1>4, <1>5, <1>6, <1>7, <1>8, <1>9, <1>10
       DEF RouterNext, Worker

(* Types of the router's state, which the theorems below rest on.          *)
THEOREM RouterTypeCorrect == RouterSpec => []RouterTypes
BY RouterTypesInit, RouterTypesStep, PTL DEF RouterSpec

-----------------------------------------------------------------------------
(* What a step does to the producers' side, one case per kind of step.     *)
LEMMA DispatchStep ==
    ASSUME RouterTypes, NEW k \in Keys, Dispatch(k)
    PROVE  /\ dispatched' = dispatched + 1 /\ taken' = taken
           /\ ring' = push(ring, [n |-> dispatched', key |-> k])
           /\ \/ Len(buf') = Len(buf) + 1 /\ dropped' = dropped
              \/ buf' = buf /\ dropped' = dropped + 1
  <1>1. [n |-> dispatched', key |-> k] \in Ev
    BY DEF Dispatch, RouterTypes, ProducerTypes, Ev
  <1>2. Len(Append(buf, [n |-> dispatched', key |-> k])) = Len(buf) + 1
    BY <1>1, AppendProperties DEF RouterTypes, ProducerTypes
  <1>3. \/ buf' = Append(buf, [n |-> dispatched', key |-> k]) /\ dropped' = dropped
        \/ buf' = buf /\ dropped' = dropped + 1
    BY Zenon DEF Dispatch, Overflow
  <1>4. \/ Len(buf') = Len(buf) + 1 /\ dropped' = dropped
        \/ buf' = buf /\ dropped' = dropped + 1
    BY <1>2, <1>3, Zenon
  <1>5. ring' = push(ring, [n |-> dispatched', key |-> k])
    BY Zenon DEF Dispatch
  <1> QED  BY <1>4, <1>5 DEF Dispatch, worker

LEMMA WorkerKeepsRing ==
    ASSUME [RouterNext]_routerVars, ~ \E k \in Keys : Dispatch(k)
    PROVE  /\ ring' = ring /\ dispatched' = dispatched /\ dropped' = dropped
           /\ HandleBegin \/ (buf' = buf /\ taken' = taken)
BY DEF RouterNext, Worker, EditRule, EditChannel, ClockRuns, HandleBegin, HandleRule,
   sendViaOpen, sendVia, HandleEnd, CloseBegin, RunReturns, producer, worker, config, routerVars

(* "Silence is never success", for every buffer size: an event dispatched is
   with the worker, in the channel or counted as dropped.                  *)
THEOREM NothingSilent == RouterSpec => []EventsAccounted
  <1>1. RouterInit => EventsAccounted
    BY DEF RouterInit, EventsAccounted
  <1>2. ASSUME RouterTypes, EventsAccounted, [RouterNext]_routerVars PROVE EventsAccounted'
    <2>0. Len(buf) \in Nat
      BY <1>2, LenProperties DEF RouterTypes, ProducerTypes
    <2>1. CASE \E k \in Keys : Dispatch(k)
      <3>1. PICK k \in Keys : Dispatch(k)
        BY <2>1
      <3>2. /\ dispatched' = dispatched + 1 /\ taken' = taken
            /\ \/ Len(buf') = Len(buf) + 1 /\ dropped' = dropped
               \/ buf' = buf /\ dropped' = dropped + 1
        BY <1>2, <3>1, DispatchStep
      <3> QED  BY <1>2, <2>0, <3>2 DEF EventsAccounted, RouterTypes, ProducerTypes
    <2>2. CASE ~ \E k \in Keys : Dispatch(k)
      <3>1. CASE HandleBegin
        <4>1. Len(buf') = Len(buf) - 1 /\ taken' = taken + 1
          BY <3>1, <1>2, HeadTailProperties DEF HandleBegin, RouterTypes, ProducerTypes
        <4> QED
          BY <1>2, <2>0, <2>2, <4>1, WorkerKeepsRing
             DEF EventsAccounted, RouterTypes, ProducerTypes
      <3>2. CASE buf' = buf /\ taken' = taken
        BY <1>2, <2>2, <3>2, WorkerKeepsRing DEF EventsAccounted
      <3> QED  BY <1>2, <2>2, <3>1, <3>2, WorkerKeepsRing
    <2> QED  BY <2>1, <2>2
  <1> QED  BY <1>1, <1>2, RouterTypeCorrect, PTL DEF RouterSpec

-----------------------------------------------------------------------------
(* The remainder by the capacity, where the ring needs it.                 *)
LEMMA RingIndex ==
    ASSUME NEW m \in Nat \ {0}
    PROVE  /\ \A x \in 0..(m - 1) : x % m = x
           /\ \A x \in (0 - m)..(0 - 1) : x % m = x + m
           /\ m % m = 0
  <1>1. ASSUME NEW x \in 0..(m - 1) PROVE x % m = x
    OBVIOUS
  <1>2. ASSUME NEW x \in (0 - m)..(0 - 1) PROVE x % m = x + m
    OBVIOUS
  <1>3. m % m = 0
    OBVIOUS
  <1> QED  BY <1>1, <1>2, <1>3

(* The slot of the i-th newest event, when next is the slot to write.      *)
Slot(next, i) == IF i <= next THEN next - i ELSE next - i + HistoryCap

LEMMA SlotMoves ==
    ASSUME NEW next \in 0..(HistoryCap - 1)
    PROVE  LET after == (next + 1) % HistoryCap
           IN  /\ after \in 0..(HistoryCap - 1)
               /\ Slot(after, 1) = next
               /\ \A i \in 2..HistoryCap :
                     /\ Slot(after, i) = Slot(next, i - 1)
                     /\ Slot(next, i - 1) \in 0..(HistoryCap - 1) /\ Slot(next, i - 1) # next
  <1> DEFINE after == (next + 1) % HistoryCap
  <1>1. HistoryCap \in Nat \ {0}
    BY RouterAssumptions
  <1>2. after = IF next = HistoryCap - 1 THEN 0 ELSE next + 1
    <2>1. CASE next = HistoryCap - 1
      BY <1>1, <2>1, RingIndex
    <2>2. CASE next # HistoryCap - 1
      <3>1. next + 1 \in 0..(HistoryCap - 1)
        BY <1>1, <2>2
      <3> QED  BY <1>1, <2>2, <3>1, RingIndex
    <2> QED  BY <2>1, <2>2
  <1> HIDE DEF after
  <1>3. after \in 0..(HistoryCap - 1) /\ Slot(after, 1) = next
    BY <1>1, <1>2 DEF Slot
  <1>4. \A i \in 2..HistoryCap :
          /\ Slot(after, i) = Slot(next, i - 1)
          /\ Slot(next, i - 1) \in 0..(HistoryCap - 1) /\ Slot(next, i - 1) # next
    BY <1>1, <1>2 DEF Slot
  <1> QED  BY <1>3, <1>4 DEF after

LEMMA SlotIsSnapshotIndex ==
    ASSUME NEW next \in 0..(HistoryCap - 1), NEW i \in 1..HistoryCap
    PROVE  (next - 1 - (i - 1)) % HistoryCap = Slot(next, i)
  <1>1. HistoryCap \in Nat \ {0}
    BY RouterAssumptions
  <1>2. next - 1 - (i - 1) = next - i
    BY <1>1
  <1>3. CASE i <= next
    <2>1. next - i \in 0..(HistoryCap - 1)
      BY <1>1, <1>3
    <2> QED  BY <1>1, <1>2, <1>3, <2>1, RingIndex DEF Slot
  <1>4. CASE ~(i <= next)
    <2>1. next - i \in (0 - HistoryCap)..(0 - 1)
      BY <1>1, <1>4
    <2> QED  BY <1>1, <1>2, <1>4, <2>1, RingIndex DEF Slot
  <1> QED  BY <1>3, <1>4

(* The ring holds the last events: count of them, the newest just before
   next.                                                                   *)
RingInv ==
    /\ dispatched \in Nat
    /\ ring \in [buf : [0..(HistoryCap - 1) -> Ev \cup {NoEvent}],
                 next : 0..(HistoryCap - 1), count : 0..HistoryCap]
    /\ ring.count = IF dispatched < HistoryCap THEN dispatched ELSE HistoryCap
    /\ \A i \in 1..ring.count : ring.buf[Slot(ring.next, i)] \in Ev
    /\ \A i \in 1..ring.count : ring.buf[Slot(ring.next, i)].n = dispatched - i + 1

LEMMA PushKeepsRing ==
    ASSUME RingInv, NEW k \in Keys, dispatched' = dispatched + 1,
           ring' = push(ring, [n |-> dispatched', key |-> k])
    PROVE  RingInv'
  <1> DEFINE ev == [n |-> dispatched', key |-> k]
             b  == ring.buf
             nx == ring.next
             ct == ring.count
  <1>1. HistoryCap \in Nat \ {0}
    BY RouterAssumptions
  <1>2. ev \in Ev /\ ev.n = dispatched'
    BY DEF RingInv, Ev
  <1>3. ring' = [buf |-> [b EXCEPT ![nx] = ev], next |-> (nx + 1) % HistoryCap,
                 count |-> IF ct < HistoryCap THEN ct + 1 ELSE ct]
    BY DEF push
  <1>4. /\ b \in [0..(HistoryCap - 1) -> Ev \cup {NoEvent}]
        /\ nx \in 0..(HistoryCap - 1) /\ ct \in 0..HistoryCap
        /\ ct = (IF dispatched < HistoryCap THEN dispatched ELSE HistoryCap)
        /\ dispatched \in Nat
        /\ \A i \in 1..ct : b[Slot(nx, i)] \in Ev
        /\ \A i \in 1..ct : b[Slot(nx, i)].n = dispatched - i + 1
    BY DEF RingInv
  <1> HIDE DEF ev, b, nx, ct
  <1> DEFINE b2  == [b EXCEPT ![nx] = ev]
             nx2 == (nx + 1) % HistoryCap
             ct2 == IF ct < HistoryCap THEN ct + 1 ELSE ct
  <1>5. ring' = [buf |-> b2, next |-> nx2, count |-> ct2]
    BY <1>3
  <1>6. /\ nx2 \in 0..(HistoryCap - 1) /\ Slot(nx2, 1) = nx
        /\ \A i \in 2..HistoryCap :
              /\ Slot(nx2, i) = Slot(nx, i - 1)
              /\ Slot(nx, i - 1) \in 0..(HistoryCap - 1) /\ Slot(nx, i - 1) # nx
    BY <1>4, SlotMoves
  <1>7. b2 \in [0..(HistoryCap - 1) -> Ev \cup {NoEvent}]
    BY <1>2, <1>4
  <1>8. /\ ct2 \in 0..HistoryCap
        /\ ct2 = IF dispatched' < HistoryCap THEN dispatched' ELSE HistoryCap
    BY <1>1, <1>4
  <1>9. b2[Slot(nx2, 1)] = ev
    BY <1>4, <1>6
  <1> HIDE DEF nx2
  <1>10. ASSUME NEW i \in 2..ct2
         PROVE  b2[Slot(nx2, i)] = b[Slot(nx, i - 1)] /\ i - 1 \in 1..ct
    BY <1>1, <1>4, <1>6
  <1> HIDE DEF b2
  <1>11. ASSUME NEW i \in 1..ct2
         PROVE  b2[Slot(nx2, i)] \in Ev /\ b2[Slot(nx2, i)].n = dispatched' - i + 1
    <2>1. CASE i = 1
      <3>1. dispatched' - i + 1 = dispatched'
        BY <1>4, <2>1
      <3> QED  BY <1>2, <1>9, <2>1, <3>1
    <2>2. CASE i # 1
      <3>1. i \in 2..ct2
        BY <1>1, <1>4, <2>2
      <3>2. i - 1 \in 1..ct /\ b2[Slot(nx2, i)] = b[Slot(nx, i - 1)]
        BY <1>10, <3>1
      <3>3. b[Slot(nx, i - 1)] \in Ev /\ b[Slot(nx, i - 1)].n = dispatched - (i - 1) + 1
        BY <1>4, <3>2
      <3>4. dispatched - (i - 1) + 1 = dispatched' - i + 1
        BY <1>4
      <3> QED  BY <3>2, <3>3, <3>4
    <2> QED  BY <2>1, <2>2
  <1>12. dispatched' \in Nat
    BY <1>4
  <1> HIDE DEF ct2
  <1>13. ring'.buf = b2 /\ ring'.next = nx2 /\ ring'.count = ct2
    BY <1>5
  <1>14. ring' \in [buf : [0..(HistoryCap - 1) -> Ev \cup {NoEvent}],
                   next : 0..(HistoryCap - 1), count : 0..HistoryCap]
    BY <1>5, <1>6, <1>7, <1>8
  <1> QED  BY <1>8, <1>11, <1>12, <1>13, <1>14 DEF RingInv

(* The history shows the last events dispatched, newest first, at every
   capacity and however often the ring has wrapped round.                  *)
THEOREM HistoryInOrder == RouterSpec => []HistoryNewestFirst
  <1>1. RouterInit => RingInv
    BY RouterAssumptions DEF RouterInit, RingInv
  <1>2. ASSUME RouterTypes, RingInv, [RouterNext]_routerVars PROVE RingInv'
    <2>1. CASE \E k \in Keys : Dispatch(k)
      BY <1>2, <2>1, DispatchStep, PushKeepsRing
    <2>2. CASE ~ \E k \in Keys : Dispatch(k)
      <3>1. ring' = ring /\ dispatched' = dispatched
        BY <1>2, <2>2, WorkerKeepsRing
      <3> QED  BY <1>2, <3>1 DEF RingInv, Slot
    <2> QED  BY <2>1, <2>2
  <1>3. RingInv => HistoryNewestFirst
    <2> SUFFICES ASSUME RingInv, NEW i \in 1..ring.count
                 PROVE  snapshot(ring)[i] # NoEvent /\ snapshot(ring)[i].n = dispatched - i + 1
      BY DEF HistoryNewestFirst, RingInv
    <2>1. ring.next \in 0..(HistoryCap - 1) /\ i \in 1..HistoryCap
      BY RouterAssumptions DEF RingInv
    <2>2. (ring.next - 1 - (i - 1)) % HistoryCap = Slot(ring.next, i)
      BY <2>1, SlotIsSnapshotIndex
    <2>3. snapshot(ring)[i] = ring.buf[Slot(ring.next, i)]
      BY <2>2 DEF snapshot, SnapshotIndex
    <2>4. NoEvent \notin Ev
      BY RouterAssumptions DEF Ev
    <2> QED  BY <2>3, <2>4 DEF RingInv
  <1> QED  BY <1>1, <1>2, <1>3, RouterTypeCorrect, PTL DEF RouterSpec

-----------------------------------------------------------------------------
(* The time of the event in handle, or of the next one.                    *)
Base == IF event # NoEvent THEN event.now ELSE time

KeptIn(th, k, t) == k \in DOMAIN th /\ th[k] >= t

(* Sends are in the order of time; what may still throttle is remembered;
   and the sends left of the rule in hand were allowed.                    *)
InOrder == \A i \in 1..Len(sends) : sends[i].at <= Base
Remembered ==
    \A i \in 1..Len(sends) :
        Base - sends[i].at > Window \/ KeptIn(throttle, <<sends[i].key, sends[i].rule>>, sends[i].at)
InHand ==
    event # NoEvent /\ event.left # {} => KeptIn(throttle, <<event.key, event.rule>>, event.now)
Allowed ==
    event # NoEvent => \A c \in event.left, i \in 1..Len(sends) :
        sends[i].key = event.key /\ sends[i].rule = event.rule /\ sends[i].chan = c
            => event.now - sends[i].at >= Window
WindowInv == InOrder /\ Remembered /\ InHand /\ Allowed /\ OncePerWindow

(* The breaker of a channel counts the failures at its end, and once it has
   counted to the limit it is open from the last of them on.               *)
RunFrom(c, i) == {k \in i..Len(sends) : sends[k].chan = c}
CountsFailures ==
    \A c \in Chans, i \in 1..(Len(sends) + 1) :
        (\A k \in RunFrom(c, i) : ~sends[k].ok) => Cardinality(RunFrom(c, i)) <= breaker[c].failures
OpenAtLimit ==
    \A c \in Chans : breaker[c].failures >= BrkLimit =>
        \A k \in 1..Len(sends) : sends[k].chan = c => sends[k].at + BrkOpen <= breaker[c].openUntil
BreakerInv == CountsFailures /\ OpenAtLimit /\ BreakerRests

(* A send is appended to the history; no other step touches it.            *)
LEMMA SendAppends ==
    ASSUME RouterTypes, NEW c \in Chans, NEW ok \in BOOLEAN, sendVia(c, ok)
    PROVE  /\ event # NoEvent /\ event \in InHandle /\ c \in event.left
           /\ event' # NoEvent => event'.now = event.now /\ event'.key = event.key
                                  /\ event'.rule = event.rule /\ event'.left = event.left \ {c}
           /\ Len(sends) \in Nat /\ Len(sends') = Len(sends) + 1
           /\ \A i \in 1..Len(sends) : sends'[i] = sends[i] /\ sends[i] \in SendRec
           /\ sends'[Len(sends) + 1] = [key |-> event.key, rule |-> event.rule, chan |-> c,
                                        at |-> event.now, ok |-> ok]
           /\ sends'[Len(sends) + 1] \in SendRec
  <1> DEFINE rec == [key |-> event.key, rule |-> event.rule, chan |-> c,
                     at |-> event.now, ok |-> ok]
  <1>1. event # NoEvent /\ event \in InHandle /\ c \in event.left
    BY DEF sendVia, RouterTypes, WorkerTypes
  <1>2. /\ event'.now = event.now /\ event'.key = event.key
        /\ event'.rule = event.rule /\ event'.left = event.left \ {c}
    BY <1>1 DEF sendVia, InHandle
  <1>3. rec \in SendRec
    BY <1>1 DEF InHandle, SendRec
  <1>4. sends \in Seq(SendRec) /\ sends' = Append(sends, rec)
    BY DEF sendVia, RouterTypes, WorkerTypes
  <1> HIDE DEF rec
  <1>5. /\ Len(sends') = Len(sends) + 1 /\ sends'[Len(sends) + 1] = rec
        /\ \A i \in 1..Len(sends) : sends'[i] = sends[i]
    BY <1>3, <1>4, AppendProperties
  <1>6. Len(sends) \in Nat /\ \A i \in 1..Len(sends) : sends[i] \in SendRec
    BY <1>4, LenProperties, ElementOfSeq
  <1>7. rec = [key |-> event.key, rule |-> event.rule, chan |-> c, at |-> event.now, ok |-> ok]
    BY DEF rec
  <1> QED  BY <1>1, <1>2, <1>3, <1>5, <1>6, <1>7

LEMMA BaseTypes ==
    ASSUME RouterTypes, RouterTypes'
    PROVE  /\ Base \in Nat /\ Base <= time /\ Len(sends) \in Nat /\ Base' \in Nat
           /\ \A i \in 1..Len(sends) : sends[i] \in SendRec /\ sends[i].at \in Nat
  <1>1. Base \in Nat /\ Base <= time /\ Base' \in Nat
    BY DEF RouterTypes, WorkerTypes, Base, InHandle
  <1>2. sends \in Seq(SendRec)
    BY DEF RouterTypes, WorkerTypes
  <1>3. Len(sends) \in Nat /\ \A i \in 1..Len(sends) : sends[i] \in SendRec
    BY <1>2, LenProperties, ElementOfSeq
  <1> QED  BY <1>1, <1>3 DEF SendRec

(* A step that sends nothing keeps the past of the throttle: what it forgets
   is older than the window for every event to come.                       *)
LEMMA QuietStep ==
    ASSUME RouterTypes, RouterTypes', WindowInv, sends' = sends, Base <= Base',
           \A k \in DOMAIN throttle :
              \/ k \in DOMAIN throttle' /\ throttle'[k] >= throttle[k]
              \/ Base' - throttle[k] > Window
    PROVE  InOrder' /\ Remembered' /\ OncePerWindow'
  <1>0. /\ Base \in Nat /\ Base' \in Nat /\ Len(sends) \in Nat /\ Window \in Nat
        /\ \A i \in 1..Len(sends) : sends[i].at \in Nat
    BY BaseTypes, RouterAssumptions
  <1>1. InOrder'
    BY <1>0 DEF WindowInv, InOrder
  <1>2. ASSUME NEW i \in 1..Len(sends)
        PROVE  Base' - sends[i].at > Window
               \/ KeptIn(throttle', <<sends[i].key, sends[i].rule>>, sends[i].at)
    <2> DEFINE k == <<sends[i].key, sends[i].rule>>
    <2>1. sends[i].at \in Nat /\ (Base - sends[i].at > Window \/ KeptIn(throttle, k, sends[i].at))
      BY <1>0 DEF WindowInv, Remembered
    <2> HIDE DEF k
    <2>2. CASE Base - sends[i].at > Window
      BY <1>0, <2>1, <2>2
    <2>3. CASE KeptIn(throttle, k, sends[i].at)
      <3>1. k \in DOMAIN throttle /\ throttle[k] >= sends[i].at /\ throttle[k] \in Nat
        BY <2>3 DEF KeptIn, RouterTypes, WorkerTypes
      <3>2. CASE k \in DOMAIN throttle' /\ throttle'[k] >= throttle[k]
        <4>1. throttle'[k] \in Nat
          BY <3>2 DEF RouterTypes, WorkerTypes
        <4>2. throttle'[k] >= sends[i].at
          BY <2>1, <3>1, <3>2, <4>1
        <4> QED  BY <3>2, <4>2 DEF KeptIn, k
      <3>3. CASE Base' - throttle[k] > Window
        BY <1>0, <2>1, <3>1, <3>3
      <3> QED  BY <3>1, <3>2, <3>3
    <2> QED  BY <2>1, <2>2, <2>3
  <1>3. Remembered'
    BY <1>2 DEF Remembered
  <1> QED  BY <1>1, <1>3 DEF WindowInv, OncePerWindow

LEMMA SendKeepsWindow ==
    ASSUME RouterTypes, RouterTypes', WindowInv,
           NEW c \in Chans, NEW ok \in BOOLEAN, sendVia(c, ok)
    PROVE  WindowInv'
  <1> DEFINE n == Len(sends)
             s == sends'[n + 1]
  <1>1. /\ event # NoEvent /\ event \in InHandle /\ c \in event.left
        /\ event' # NoEvent => event'.now = event.now /\ event'.key = event.key
                               /\ event'.rule = event.rule /\ event'.left = event.left \ {c}
        /\ n \in Nat /\ Len(sends') = n + 1
        /\ \A i \in 1..n : sends'[i] = sends[i] /\ sends[i] \in SendRec
        /\ s = [key |-> event.key, rule |-> event.rule, chan |-> c, at |-> event.now, ok |-> ok]
    BY SendAppends
  <1>2. s.key = event.key /\ s.rule = event.rule /\ s.chan = c /\ s.at = event.now
    BY <1>1
  <1>3. throttle' = throttle /\ time' = time
    BY DEF sendVia
  <1>4. /\ Base = event.now /\ Base \in Nat /\ Base' \in Nat /\ Base <= Base' /\ Window \in Nat \ {0}
        /\ \A i \in 1..n : sends[i].at \in Nat
    BY <1>1, <1>3, BaseTypes, RouterAssumptions DEF Base
  <1> HIDE DEF s, n
  <1>5. InOrder'
    <2> SUFFICES ASSUME NEW i \in 1..(n + 1) PROVE sends'[i].at <= Base'
      BY <1>1 DEF InOrder
    <2>1. CASE i = n + 1
      BY <1>2, <1>4, <2>1 DEF s
    <2>2. CASE i # n + 1
      <3>1. i \in 1..n
        BY <1>1, <2>2
      <3>2. sends[i].at <= Base
        BY <3>1 DEF WindowInv, InOrder, n
      <3> QED  BY <1>1, <1>4, <3>1, <3>2
    <2> QED  BY <2>1, <2>2
  <1>6. Remembered'
    <2> SUFFICES ASSUME NEW i \in 1..(n + 1)
                 PROVE  Base' - sends'[i].at > Window
                        \/ KeptIn(throttle', <<sends'[i].key, sends'[i].rule>>, sends'[i].at)
      BY <1>1 DEF Remembered
    <2>1. CASE i = n + 1
      <3>1. KeptIn(throttle, <<event.key, event.rule>>, event.now)
        BY <1>1 DEF WindowInv, InHand
      <3> QED  BY <1>2, <1>3, <2>1, <3>1 DEF s, KeptIn
    <2>2. CASE i # n + 1
      <3>1. i \in 1..n
        BY <1>1, <2>2
      <3>2. Base - sends[i].at > Window \/ KeptIn(throttle, <<sends[i].key, sends[i].rule>>, sends[i].at)
        BY <3>1 DEF WindowInv, Remembered, n
      <3>3. sends'[i] = sends[i] /\ sends[i].at \in Nat
        BY <1>1, <1>4, <3>1
      <3>4. CASE Base - sends[i].at > Window
        BY <1>4, <3>3, <3>4
      <3>5. CASE KeptIn(throttle, <<sends[i].key, sends[i].rule>>, sends[i].at)
        BY <1>3, <3>3, <3>5 DEF KeptIn
      <3> QED  BY <3>2, <3>4, <3>5
    <2> QED  BY <2>1, <2>2
  <1>7. InHand'
    <2> SUFFICES ASSUME event' # NoEvent PROVE KeptIn(throttle', <<event'.key, event'.rule>>, event'.now)
      BY DEF InHand
    <2>1. KeptIn(throttle, <<event.key, event.rule>>, event.now)
      BY <1>1 DEF WindowInv, InHand
    <2> QED  BY <1>1, <1>3, <2>1 DEF KeptIn
  <1>8. \A d \in event.left, i \in 1..n :
          sends[i].key = event.key /\ sends[i].rule = event.rule /\ sends[i].chan = d
            => event.now - sends[i].at >= Window
    BY <1>1 DEF WindowInv, Allowed, n
  <1>9. Allowed'
    <2> SUFFICES ASSUME event' # NoEvent, NEW d \in event'.left, NEW i \in 1..(n + 1),
                        sends'[i].key = event'.key, sends'[i].rule = event'.rule,
                        sends'[i].chan = d
                 PROVE  event'.now - sends'[i].at >= Window
      BY <1>1 DEF Allowed
    <2>1. d \in event.left /\ d # c
      BY <1>1
    <2>2. i # n + 1
      BY <1>2, <2>1 DEF s
    <2>3. i \in 1..n
      BY <1>1, <2>2
    <2> QED  BY <1>1, <1>8, <2>1, <2>3
  <1>10. OncePerWindow'
    <2> SUFFICES ASSUME NEW i \in 1..(n + 1), NEW j \in 1..(n + 1), i < j,
                        sends'[i].key = sends'[j].key, sends'[i].rule = sends'[j].rule,
                        sends'[i].chan = sends'[j].chan
                 PROVE  sends'[j].at - sends'[i].at >= Window
      BY <1>1 DEF OncePerWindow
    <2>1. i \in 1..n /\ sends'[i] = sends[i]
      BY <1>1
    <2>2. CASE j = n + 1
      <3>1. event.now - sends[i].at >= Window
        BY <1>1, <1>2, <1>8, <2>1, <2>2 DEF s
      <3> QED  BY <1>2, <2>1, <2>2, <3>1 DEF s
    <2>3. CASE j # n + 1
      <3>1. j \in 1..n /\ sends'[j] = sends[j]
        BY <1>1, <2>3
      <3> QED  BY <2>1, <3>1 DEF WindowInv, OncePerWindow, n
    <2> QED  BY <2>2, <2>3
  <1> QED  BY <1>5, <1>6, <1>7, <1>9, <1>10 DEF WindowInv

LEMMA WindowStep ==
    ASSUME RouterTypes, RouterTypes', WindowInv, [RouterNext]_routerVars
    PROVE  WindowInv'
  <1>0. /\ Base \in Nat /\ Base <= time /\ Base' \in Nat /\ Window \in Nat \ {0} /\ time \in Nat
        /\ \A k \in DOMAIN throttle : throttle[k] \in Nat
        /\ \A i \in 1..Len(sends) : sends[i].at \in Nat
    BY BaseTypes, RouterAssumptions DEF RouterTypes, WorkerTypes
  <1>1. ASSUME sends' = sends, throttle' = throttle, event' = event, time' \in {time, time + 1}
        PROVE  WindowInv'
    <2>1. Base <= Base'
      BY <1>0, <1>1 DEF Base
    <2>2. \A k \in DOMAIN throttle : throttle'[k] >= throttle[k]
      BY <1>0, <1>1
    <2>3. InOrder' /\ Remembered' /\ OncePerWindow'
      BY <1>1, <2>1, <2>2, QuietStep
    <2> QED  BY <1>1, <2>3 DEF WindowInv, InHand, Allowed, KeptIn
  <1>2. ASSUME HandleBegin PROVE WindowInv'
    <2>1. event = NoEvent /\ time' = time /\ sends' = sends
      BY <1>2 DEF HandleBegin
    <2>2. event'.now = time /\ event'.left = {}
      BY <1>2 DEF HandleBegin
    <2>3. Base = time /\ Base' = time
      BY <2>1, <2>2 DEF Base
    <2>4. throttle' = evictThrottle(time)
      BY <1>2 DEF HandleBegin
    <2>5. ASSUME NEW k \in DOMAIN throttle
          PROVE  \/ k \in DOMAIN throttle' /\ throttle'[k] >= throttle[k]
                 \/ Base' - throttle[k] > Window
      BY <1>0, <2>3, <2>4, <2>5 DEF evictThrottle, Expired, Restrict
    <2>6. InOrder' /\ Remembered' /\ OncePerWindow'
      BY <1>0, <2>1, <2>3, <2>5, QuietStep
    <2> QED  BY <2>2, <2>6 DEF WindowInv, InHand, Allowed
  <1>3. ASSUME NEW r \in Rules, HandleRule(r) PROVE WindowInv'
    <2> DEFINE k == <<event.key, r>>
    <2>1. /\ event # NoEvent /\ event \in InHandle /\ time' = time /\ sends' = sends
          /\ event.left = {}
      BY <1>3 DEF HandleRule, RouterTypes, WorkerTypes
    <2>2. CASE Throttled(k)
      <3>1. event' = [event EXCEPT !.rules = @ \ {r}] /\ throttle' = throttle
        BY <1>3, <2>2 DEF HandleRule
      <3>2. event'.now = event.now /\ event'.left = {}
        BY <2>1, <3>1 DEF InHandle
      <3>3. Base <= Base'
        BY <1>0, <2>1, <3>2 DEF Base
      <3>4. \A x \in DOMAIN throttle : throttle'[x] >= throttle[x]
        BY <1>0, <3>1
      <3>5. InOrder' /\ Remembered' /\ OncePerWindow'
        BY <2>1, <3>1, <3>3, <3>4, QuietStep
      <3> QED  BY <3>2, <3>5 DEF WindowInv, InHand, Allowed
    <2>3. CASE ~Throttled(k)
      <3>1. event' = [event EXCEPT !.rules = @ \ {r}, !.rule = r,
                                   !.left = ChannelsOf[r] \cap event.chans]
        BY <1>3, <2>3 DEF HandleRule
      <3>2. throttle' = [x \in DOMAIN throttle \cup {k} |->
                          IF x = k THEN event.now ELSE throttle[x]]
        BY <1>3, <2>3, Zenon DEF HandleRule
      <3>3. event'.now = event.now /\ event'.key = event.key /\ event'.rule = r /\ event.now \in Nat
        BY <2>1, <3>1 DEF InHandle
      <3>4. k \in DOMAIN throttle => event.now - throttle[k] >= Window
        BY <1>0, <2>3, <3>3 DEF Throttled
      <3> HIDE DEF k
      <3>5. Base <= Base'
        BY <1>0, <2>1, <3>3 DEF Base
      <3>6. \A x \in DOMAIN throttle : x \in DOMAIN throttle' /\ throttle'[x] >= throttle[x]
        BY <1>0, <3>2, <3>3, <3>4
      <3>7. InOrder' /\ Remembered' /\ OncePerWindow'
        BY <2>1, <3>5, <3>6, QuietStep
      <3>8. KeptIn(throttle', k, event.now)
        BY <3>2, <3>3 DEF KeptIn
      <3>9. InHand'
        BY <3>3, <3>8 DEF InHand, k
      <3>10. ASSUME NEW i \in 1..Len(sends), sends[i].key = event.key, sends[i].rule = r
             PROVE  event.now - sends[i].at >= Window
        <4>1. Base = event.now
          BY <2>1 DEF Base
        <4>2. event.now - sends[i].at > Window \/ KeptIn(throttle, k, sends[i].at)
          BY <3>10, <4>1 DEF WindowInv, Remembered, k
        <4> QED  BY <1>0, <3>3, <3>4, <4>2 DEF KeptIn
      <3>11. Allowed'
        BY <2>1, <3>3, <3>10 DEF Allowed
      <3> QED  BY <3>7, <3>9, <3>11 DEF WindowInv
    <2> QED  BY <2>2, <2>3
  <1>4. ASSUME NEW c \in Chans, sendViaOpen(c) PROVE WindowInv'
    <2>1. /\ event # NoEvent /\ event \in InHandle /\ time' = time /\ sends' = sends
          /\ throttle' = throttle /\ event.left # {}
      BY <1>4 DEF sendViaOpen, RouterTypes, WorkerTypes
    <2>2. /\ event'.now = event.now /\ event'.key = event.key /\ event'.rule = event.rule
          /\ event'.left \subseteq event.left
      BY <1>4, <2>1 DEF sendViaOpen, SendSkipped, InHandle
    <2>3. Base <= Base'
      BY <1>0, <2>1, <2>2 DEF Base
    <2>4. \A x \in DOMAIN throttle : throttle'[x] >= throttle[x]
      BY <1>0, <2>1
    <2>5. InOrder' /\ Remembered' /\ OncePerWindow'
      BY <2>1, <2>3, <2>4, QuietStep
    <2> QED  BY <2>1, <2>2, <2>5 DEF WindowInv, InHand, Allowed, KeptIn
  <1>5. ASSUME HandleEnd PROVE WindowInv'
    <2>1. event' = NoEvent /\ time' = time /\ sends' = sends /\ throttle' = throttle
      BY <1>5 DEF HandleEnd
    <2>2. Base <= Base'
      BY <1>0, <2>1 DEF Base
    <2>3. \A x \in DOMAIN throttle : throttle'[x] >= throttle[x]
      BY <1>0, <2>1
    <2>4. InOrder' /\ Remembered' /\ OncePerWindow'
      BY <2>1, <2>2, <2>3, QuietStep
    <2> QED  BY <2>1, <2>4 DEF WindowInv, InHand, Allowed
  <1>6. CASE \/ \E k \in Keys : Dispatch(k)
             \/ \E r \in Rules : EditRule(r)
             \/ \E c \in Chans : EditChannel(c)
             \/ ClockRuns \/ CloseBegin \/ RunReturns \/ UNCHANGED routerVars
    <2>1. sends' = sends /\ throttle' = throttle /\ event' = event /\ time' \in {time, time + 1}
      BY <1>6 DEF Dispatch, EditRule, EditChannel, ClockRuns, CloseBegin, RunReturns, worker,
         routerVars
    <2> QED  BY <1>1, <2>1
  <1> QED
    BY <1>2, <1>3, <1>4, <1>5, <1>6, SendKeepsWindow DEF RouterNext, Worker

LEMMA WindowHolds == RouterSpec => []WindowInv
  <1>1. RouterInit => WindowInv
    BY DEF RouterInit, WindowInv, InOrder, Remembered, InHand, Allowed, OncePerWindow
  <1> QED  BY <1>1, WindowStep, RouterTypeCorrect, PTL DEF RouterSpec

(* A key is sent once per window by a rule over a channel, for every window
   and every matching of events and rules: the eviction never forgets a send
   that still throttles, although the clock runs on while an event is in
   handle.                                                                 *)
THEOREM OneSendPerWindow == RouterSpec => []OncePerWindow
BY WindowHolds, PTL DEF WindowInv

-----------------------------------------------------------------------------
LEMMA RunsAreFinite ==
    ASSUME NEW s, NEW c, NEW a \in Int, NEW b \in Int
    PROVE  /\ IsFiniteSet({k \in a..b : s[k].chan = c})
           /\ Cardinality({k \in a..b : s[k].chan = c}) \in Nat
  <1>1. IsFiniteSet(a..b)
    BY FS_Interval
  <1>2. {k \in a..b : s[k].chan = c} \subseteq a..b
    OBVIOUS
  <1>3. IsFiniteSet({k \in a..b : s[k].chan = c})
    BY <1>1, <1>2, FS_Subset
  <1> QED  BY <1>3, FS_CardinalityType

(* A send adds itself to the run of its channel, and to no other.          *)
LEMMA SendExtendsRuns ==
    ASSUME RouterTypes, NEW c \in Chans, NEW ok \in BOOLEAN, sendVia(c, ok),
           NEW d \in Chans, NEW i \in 1..(Len(sends) + 1)
    PROVE  /\ IsFiniteSet(RunFrom(d, i)) /\ Cardinality(RunFrom(d, i)) \in Nat
           /\ d # c => RunFrom(d, i)' = RunFrom(d, i)
           /\ d = c => /\ RunFrom(d, i)' = RunFrom(d, i) \cup {Len(sends) + 1}
                       /\ Cardinality(RunFrom(d, i)') = Cardinality(RunFrom(d, i)) + 1
  <1> DEFINE n == Len(sends)
  <1>1. /\ n \in Nat /\ Len(sends') = n + 1
        /\ \A k \in 1..n : sends'[k] = sends[k]
        /\ sends'[n + 1].chan = c
    <2>1. sends'[n + 1] = [key |-> event.key, rule |-> event.rule, chan |-> c,
                           at |-> event.now, ok |-> ok]
      BY SendAppends
    <2> QED  BY <2>1, SendAppends
  <1>2. IsFiniteSet(RunFrom(d, i)) /\ Cardinality(RunFrom(d, i)) \in Nat
    <2>1. i \in Int /\ n \in Int
      BY <1>1
    <2> QED  BY <2>1, RunsAreFinite DEF RunFrom
  <1>3. RunFrom(d, i)' = {k \in i..(n + 1) : sends'[k].chan = d}
    BY <1>1 DEF RunFrom
  <1>4. RunFrom(d, i) = {k \in i..n : sends[k].chan = d}
    BY DEF RunFrom
  <1> HIDE DEF n
  <1>5. \A k \in i..n : sends'[k] = sends[k]
    BY <1>1 DEF n
  <1>6. i..(n + 1) = (i..n) \cup {n + 1} /\ n + 1 \notin i..n
    BY <1>1 DEF n
  <1>7. d # c => RunFrom(d, i)' = RunFrom(d, i)
    BY <1>1, <1>3, <1>4, <1>5, <1>6
  <1>8. d = c => RunFrom(d, i)' = RunFrom(d, i) \cup {n + 1}
    BY <1>1, <1>3, <1>4, <1>5, <1>6
  <1>9. n + 1 \notin RunFrom(d, i)
    BY <1>4, <1>6
  <1>10. Cardinality(RunFrom(d, i) \cup {n + 1}) = Cardinality(RunFrom(d, i)) + 1
    BY <1>2, <1>9, FS_AddElement
  <1> QED  BY <1>2, <1>7, <1>8, <1>10 DEF n

LEMMA SendKeepsBreaker ==
    ASSUME RouterTypes, WindowInv, BreakerInv,
           NEW c \in Chans, NEW ok \in BOOLEAN, sendVia(c, ok)
    PROVE  BreakerInv'
  <1> DEFINE n == Len(sends)
             s == sends'[n + 1]
  <1>1. /\ event # NoEvent /\ event \in InHandle
        /\ n \in Nat /\ Len(sends') = n + 1
        /\ \A i \in 1..n : sends'[i] = sends[i] /\ sends[i] \in SendRec
        /\ s = [key |-> event.key, rule |-> event.rule, chan |-> c, at |-> event.now, ok |-> ok]
    BY SendAppends
  <1>2. s.chan = c /\ s.at = event.now /\ s.ok = ok /\ event.now \in Nat
    BY <1>1 DEF InHandle
  <1>3. \A i \in 1..n : sends[i].at \in Nat /\ sends[i].at <= event.now
    BY <1>1 DEF WindowInv, InOrder, Base, SendRec
  <1>4. BrkLimit \in Nat \ {0} /\ BrkOpen \in Nat
    BY RouterAssumptions
  <1>5. /\ breaker \in [Chans -> [failures : Nat, openUntil : Nat]]
        /\ event.now >= breaker[c].openUntil
        /\ breaker' = [breaker EXCEPT ![c] = AfterSend(breaker[c], event.now, ok)]
    BY DEF sendVia, RouterTypes, WorkerTypes
  <1>6. \A d \in Chans : d # c => breaker'[d] = breaker[d]
    BY <1>5
  <1>7. breaker'[c] = AfterSend(breaker[c], event.now, ok)
    BY <1>5
  <1>8. /\ breaker[c].failures \in Nat /\ breaker[c].openUntil \in Nat
        /\ ok => breaker'[c].failures = 0
        /\ ~ok => /\ breaker'[c].failures = breaker[c].failures + 1
                  /\ breaker'[c].failures >= BrkLimit => breaker'[c].openUntil = event.now + BrkOpen
    BY <1>5, <1>7 DEF AfterSend
  <1> HIDE DEF s, n
  <1>9. CountsFailures'
    <2> SUFFICES ASSUME NEW d \in Chans, NEW i \in 1..(n + 2),
                        \A k \in RunFrom(d, i)' : ~sends'[k].ok
                 PROVE  Cardinality(RunFrom(d, i)') <= breaker'[d].failures
      <3>1. Len(sends') + 1 = n + 2
        BY <1>1
      <3> QED  BY <3>1, Zenon DEF CountsFailures
    <2>1. CASE i = n + 2
      <3>1. RunFrom(d, i)' = {}
        BY <1>1, <2>1 DEF RunFrom
      <3>2. Cardinality(RunFrom(d, i)') = 0
        BY <3>1, FS_EmptySet
      <3>3. breaker'[d].failures \in Nat
        BY <1>4, <1>5, <1>6, <1>8
      <3> QED  BY <3>2, <3>3
    <2>2. CASE i # n + 2
      <3>1. i \in 1..(n + 1)
        BY <1>1, <2>2
      <3>2. /\ Cardinality(RunFrom(d, i)) \in Nat
            /\ d # c => RunFrom(d, i)' = RunFrom(d, i)
            /\ d = c => /\ RunFrom(d, i)' = RunFrom(d, i) \cup {n + 1}
                        /\ Cardinality(RunFrom(d, i)') = Cardinality(RunFrom(d, i)) + 1
        BY <3>1, SendExtendsRuns DEF n
      <3>3. RunFrom(d, i) \subseteq 1..n
        BY <1>1, <3>1 DEF RunFrom, n
      <3>4. \A k \in RunFrom(d, i) : ~sends[k].ok
        BY <1>1, <3>2, <3>3
      <3>5. Cardinality(RunFrom(d, i)) <= breaker[d].failures
        BY <3>1, <3>4 DEF BreakerInv, CountsFailures, n
      <3>6. CASE d # c
        BY <1>6, <3>2, <3>5, <3>6
      <3>7. CASE d = c
        <4>1. ~ok
          BY <1>2, <3>2, <3>7 DEF s
        <4>2. breaker'[d].failures = breaker[d].failures + 1 /\ breaker[d].failures \in Nat
          BY <1>8, <3>7, <4>1
        <4> QED  BY <3>2, <3>5, <3>7, <4>2
      <3> QED  BY <3>6, <3>7
    <2> QED  BY <2>1, <2>2
  <1>10. OpenAtLimit'
    <2> SUFFICES ASSUME NEW d \in Chans, breaker'[d].failures >= BrkLimit,
                        NEW k \in 1..(n + 1), sends'[k].chan = d
                 PROVE  sends'[k].at + BrkOpen <= breaker'[d].openUntil
      BY <1>1 DEF OpenAtLimit
    <2>1. CASE d # c
      <3>1. k \in 1..n
        BY <1>1, <1>2, <2>1 DEF s
      <3>2. breaker[d].failures >= BrkLimit /\ sends[k].chan = d /\ sends'[k] = sends[k]
        BY <1>1, <1>6, <2>1, <3>1
      <3>3. sends[k].at + BrkOpen <= breaker[d].openUntil
        BY <3>1, <3>2 DEF BreakerInv, OpenAtLimit, n
      <3> QED  BY <1>6, <2>1, <3>2, <3>3
    <2>2. CASE d = c
      <3>1. ~ok
        BY <1>4, <1>8, <2>2
      <3>2. breaker'[d].openUntil = event.now + BrkOpen
        BY <1>8, <2>2, <3>1
      <3>3. sends'[k].at \in Nat /\ sends'[k].at <= event.now
        <4>1. CASE k = n + 1
          BY <1>2, <4>1 DEF s
        <4>2. CASE k # n + 1
          <5>1. k \in 1..n
            BY <1>1, <4>2
          <5> QED  BY <1>1, <1>3, <5>1
        <4> QED  BY <4>1, <4>2
      <3> QED  BY <1>2, <1>4, <3>2, <3>3
    <2> QED  BY <2>1, <2>2
  <1>11. BreakerRests'
    <2> SUFFICES ASSUME NEW i \in 1..(n + 1), NEW j \in 1..(n + 1)
                 PROVE  LET run == {k \in i..(j - 1) : sends'[k].chan = sends'[j].chan}
                        IN  Cardinality(run) >= BrkLimit /\ (\A k \in run : ~sends'[k].ok)
                                => \A k \in run : sends'[j].at >= sends'[k].at + BrkOpen
      BY <1>1 DEF BreakerRests
    <2>0. \A k \in i..(j - 1) : k \in 1..n /\ sends'[k] = sends[k]
      BY <1>1
    <2>1. CASE j # n + 1
      <3>1. j \in 1..n /\ sends'[j] = sends[j]
        BY <1>1, <2>1
      <3>2. {k \in i..(j - 1) : sends'[k].chan = sends'[j].chan}
              = {k \in i..(j - 1) : sends[k].chan = sends[j].chan}
        BY <2>0, <3>1
      <3>3. CASE i \in 1..n
        <4>1. LET run == {k \in i..(j - 1) : sends[k].chan = sends[j].chan}
              IN  Cardinality(run) >= BrkLimit /\ (\A k \in run : ~sends[k].ok)
                      => \A k \in run : sends[j].at >= sends[k].at + BrkOpen
          BY <3>1, <3>3 DEF BreakerInv, BreakerRests, n
        <4> QED  BY <2>0, <3>1, <3>2, <4>1
      <3>4. CASE i \notin 1..n
        <4>1. i..(j - 1) = {}
          BY <1>1, <3>1, <3>4
        <4> QED  BY <4>1
      <3> QED  BY <3>3, <3>4
    <2>2. CASE j = n + 1
      <3> DEFINE run == RunFrom(c, i)
      <3>1. sends'[j].chan = c /\ sends'[j].at = event.now
        BY <1>2, <2>2 DEF s
      <3>2. j - 1 = n
        BY <1>1, <2>2
      <3>3. {k \in i..(j - 1) : sends'[k].chan = sends'[j].chan} = run
        BY <2>0, <3>1, <3>2 DEF RunFrom, n
      <3>4. run \subseteq 1..n /\ (\A k \in run : sends'[k] = sends[k] /\ sends[k].chan = c)
        BY <2>0, <3>2 DEF RunFrom, n
      <3>5. Cardinality(run) \in Nat
        BY SendExtendsRuns DEF n
      <3> HIDE DEF run
      <3> SUFFICES ASSUME Cardinality(run) >= BrkLimit, \A k \in run : ~sends'[k].ok, NEW k \in run
                   PROVE  sends'[j].at >= sends'[k].at + BrkOpen
        BY <3>3
      <3>6. Cardinality(run) <= breaker[c].failures
        BY <3>4 DEF BreakerInv, CountsFailures, n, run
      <3>7. breaker[c].failures >= BrkLimit
        BY <1>4, <1>8, <3>5, <3>6
      <3>8. sends[k].at + BrkOpen <= breaker[c].openUntil
        BY <3>4, <3>7 DEF BreakerInv, OpenAtLimit, n
      <3>9. sends[k].at \in Nat
        BY <1>3, <3>4
      <3> QED  BY <1>2, <1>4, <1>5, <1>8, <3>1, <3>4, <3>8, <3>9
    <2> QED  BY <2>1, <2>2
  <1> QED  BY <1>9, <1>10, <1>11 DEF BreakerInv

(* A channel that failed to the limit rests, for every limit and pause and
   whatever mix of rules and events its sends came from: the failures a
   breaker has counted bound every unbroken run of failed sends.           *)
THEOREM BreakersRest == RouterSpec => []BreakerRests
  <1>1. RouterInit => BreakerInv
    <2> SUFFICES ASSUME RouterInit PROVE BreakerInv
      OBVIOUS
    <2>1. sends = <<>> /\ Len(sends) = 0
      BY DEF RouterInit
    <2>2. \A c \in Chans : breaker[c].failures = 0
      BY DEF RouterInit
    <2>3. ASSUME NEW c, NEW i \in 1..1 PROVE Cardinality(RunFrom(c, i)) = 0
      <3>1. RunFrom(c, i) = {}
        BY <2>1 DEF RunFrom
      <3> QED  BY <3>1, FS_EmptySet
    <2> QED
      BY <2>1, <2>2, <2>3, RouterAssumptions
         DEF BreakerInv, CountsFailures, OpenAtLimit, BreakerRests
  <1>2. ASSUME RouterTypes, WindowInv, BreakerInv, [RouterNext]_routerVars PROVE BreakerInv'
    <2>1. CASE \E c \in Chans, ok \in BOOLEAN : sendVia(c, ok)
      BY <1>2, <2>1, SendKeepsBreaker
    <2>2. CASE ~ \E c \in Chans, ok \in BOOLEAN : sendVia(c, ok)
      <3>1. sends' = sends /\ breaker' = breaker
        BY <1>2, <2>2 DEF RouterNext, Worker, Dispatch, EditRule, EditChannel, ClockRuns,
           HandleBegin, HandleRule, sendViaOpen, HandleEnd, CloseBegin, RunReturns, worker, routerVars
      <3>2. \A c, i : RunFrom(c, i)' = RunFrom(c, i)
        BY <3>1 DEF RunFrom
      <3>3. CountsFailures'
        BY <1>2, <3>1, <3>2 DEF BreakerInv, CountsFailures
      <3>4. OpenAtLimit'
        BY <1>2, <3>1 DEF BreakerInv, OpenAtLimit
      <3>5. BreakerRests'
        BY <1>2, <3>1 DEF BreakerInv, BreakerRests
      <3> QED  BY <3>3, <3>4, <3>5 DEF BreakerInv
    <2> QED  BY <2>1, <2>2
  <1>3. BreakerInv => BreakerRests
    BY DEF BreakerInv
  <1> QED  BY <1>1, <1>2, <1>3, WindowHolds, RouterTypeCorrect, PTL DEF RouterSpec

-----------------------------------------------------------------------------
(* Lock order.  Every lock of a call is undone later in it, at once or, for
   q.mu, after operations on other mutexes only.                           *)
Ops == [op : {"lock", "unlock"}, mu : Mutexes]
Undo(m) == [op |-> "unlock", mu |-> m]
PairedAt(s, i) ==
    \E k \in (i + 1)..Len(s) :
        /\ s[k] = Undo(s[i].mu)
        /\ k = i + 1 \/ (s[i].mu = "q.mu" /\ \A x \in (i + 1)..(k - 1) : s[x].mu # "q.mu")
Paired(s) == \A i \in 1..Len(s) : s[i].op = "lock" => PairedAt(s, i)
NoQ(s) == \A i \in 1..Len(s) : s[i].mu # "q.mu"
Ordered(s) == s \in Seq(Ops) /\ Paired(s)

LEMMA OrderedConcat ==
    ASSUME NEW a, NEW b, Ordered(a), Ordered(b)
    PROVE  Ordered(a \o b) /\ (NoQ(a) /\ NoQ(b) => NoQ(a \o b))
  <1> DEFINE s == a \o b
  <1>1. a \in Seq(Ops) /\ b \in Seq(Ops)
    BY DEF Ordered
  <1>2. /\ Len(a) \in Nat /\ Len(b) \in Nat /\ s \in Seq(Ops) /\ Len(s) = Len(a) + Len(b)
        /\ \A i \in 1..Len(s) : s[i] = IF i <= Len(a) THEN a[i] ELSE b[i - Len(a)]
    BY <1>1, ConcatProperties, LenProperties
  <1> HIDE DEF s
  <1>3. ASSUME NEW i \in 1..Len(s), s[i].op = "lock" PROVE PairedAt(s, i)
    <2>1. CASE i <= Len(a)
      <3>1. i \in 1..Len(a) /\ s[i] = a[i]
        BY <1>2, <2>1
      <3>2. PairedAt(a, i)
        BY <1>3, <3>1 DEF Ordered, Paired
      <3>3. PICK k \in (i + 1)..Len(a) :
              /\ a[k] = Undo(a[i].mu)
              /\ k = i + 1 \/ (a[i].mu = "q.mu" /\ \A x \in (i + 1)..(k - 1) : a[x].mu # "q.mu")
        BY <3>2 DEF PairedAt
      <3>4. k \in (i + 1)..Len(s) /\ s[k] = a[k]
        BY <1>2, <3>1, <3>3
      <3>5. \A x \in (i + 1)..(k - 1) : s[x] = a[x]
        BY <1>2, <3>1, <3>3
      <3> QED  BY <3>1, <3>3, <3>4, <3>5 DEF PairedAt
    <2>2. CASE ~(i <= Len(a))
      <3> DEFINE j == i - Len(a)
      <3>1. j \in 1..Len(b) /\ s[i] = b[j]
        BY <1>2, <2>2
      <3>2. PairedAt(b, j)
        BY <1>3, <3>1 DEF Ordered, Paired
      <3>3. PICK k \in (j + 1)..Len(b) :
              /\ b[k] = Undo(b[j].mu)
              /\ k = j + 1 \/ (b[j].mu = "q.mu" /\ \A x \in (j + 1)..(k - 1) : b[x].mu # "q.mu")
        BY <3>2 DEF PairedAt
      <3>4. /\ k + Len(a) \in (i + 1)..Len(s) /\ s[k + Len(a)] = b[k]
            /\ k = j + 1 => k + Len(a) = i + 1
        BY <1>2, <3>1, <3>3
      <3>5. \A x \in (i + 1)..(k + Len(a) - 1) :
              s[x] = b[x - Len(a)] /\ x - Len(a) \in (j + 1)..(k - 1)
        BY <1>2, <3>1, <3>3
      <3> HIDE DEF j
      <3> DEFINE k2 == k + Len(a)
      <3>6. s[k2] = Undo(s[i].mu) /\ (k = j + 1 => k2 = i + 1)
        BY <3>1, <3>3, <3>4
      <3>7. k = j + 1 \/ (s[i].mu = "q.mu" /\ \A x \in (i + 1)..(k2 - 1) : s[x].mu # "q.mu")
        BY <3>1, <3>3, <3>5
      <3>8. k2 \in (i + 1)..Len(s)
        BY <3>4
      <3> HIDE DEF k2
      <3> QED  BY <3>6, <3>7, <3>8 DEF PairedAt
    <2> QED  BY <2>1, <2>2
  <1>4. NoQ(a) /\ NoQ(b) => NoQ(s)
    BY <1>2 DEF NoQ
  <1> QED  BY <1>2, <1>3, <1>4 DEF Ordered, Paired, s

(* A critical section of q.mu may hold sections of other mutexes.           *)
LEMMA OrderedSection ==
    ASSUME NEW m \in Mutexes, NEW b, Ordered(b), b = <<>> \/ (m = "q.mu" /\ NoQ(b))
    PROVE  Ordered(Section(m, b)) /\ (b = <<>> /\ m # "q.mu" => NoQ(Section(m, b)))
  <1> DEFINE l == [op |-> "lock", mu |-> m]
             u == [op |-> "unlock", mu |-> m]
             s == Section(m, b)
  <1>1. b \in Seq(Ops) /\ Len(b) \in Nat /\ <<l>> \in Seq(Ops) /\ <<u>> \in Seq(Ops)
    BY LenProperties DEF Ordered, Ops
  <1>2. /\ <<l>> \o b \in Seq(Ops) /\ Len(<<l>> \o b) = Len(b) + 1
        /\ (<<l>> \o b)[1] = l
        /\ \A i \in 2..(Len(b) + 1) : (<<l>> \o b)[i] = b[i - 1]
    BY <1>1, ConcatProperties
  <1>3. s = (<<l>> \o b) \o <<u>>
    BY DEF Section
  <1> HIDE DEF s, l, u
  <1>4. /\ s \in Seq(Ops) /\ Len(s) = Len(b) + 2
        /\ \A i \in 1..(Len(b) + 1) : s[i] = (<<l>> \o b)[i]
        /\ s[Len(b) + 2] = u
    BY <1>1, <1>2, <1>3, ConcatProperties
  <1>5. s[1] = l /\ \A i \in 2..(Len(b) + 1) : s[i] = b[i - 1]
    BY <1>1, <1>2, <1>4
  <1>6. l.op = "lock" /\ l.mu = m /\ u.op = "unlock" /\ u.mu = m /\ u = Undo(m)
    BY DEF l, u, Undo
  <1>7. ASSUME NEW i \in 1..Len(s), s[i].op = "lock" PROVE PairedAt(s, i)
    <2>1. CASE i = 1
      <3>1. CASE b = <<>>
        <4>1. Len(b) = 0
          BY <3>1
        <4>2. 2 \in (i + 1)..Len(s) /\ s[2] = Undo(s[i].mu) /\ 2 = i + 1
          BY <1>4, <1>5, <1>6, <2>1, <4>1
        <4> QED  BY <4>2 DEF PairedAt
      <3>2. CASE m = "q.mu" /\ NoQ(b)
        <4>1. Len(s) \in (i + 1)..Len(s) /\ s[Len(s)] = Undo(s[i].mu)
          BY <1>1, <1>4, <1>5, <1>6, <2>1
        <4>2. \A x \in (i + 1)..(Len(s) - 1) : s[x].mu # "q.mu"
          BY <1>1, <1>4, <1>5, <2>1, <3>2 DEF NoQ
        <4> QED  BY <1>5, <1>6, <2>1, <3>2, <4>1, <4>2 DEF PairedAt
      <3> QED  BY <3>1, <3>2
    <2>2. CASE i # 1
      <3>1. i # Len(b) + 2
        BY <1>4, <1>6, <1>7
      <3>2. i \in 2..(Len(b) + 1) /\ i - 1 \in 1..Len(b) /\ s[i] = b[i - 1]
        BY <1>1, <1>4, <1>5, <2>2, <3>1
      <3> DEFINE j == i - 1
      <3>3. PairedAt(b, j)
        BY <1>7, <3>2 DEF Ordered, Paired
      <3>4. PICK k \in (j + 1)..Len(b) :
              /\ b[k] = Undo(b[j].mu)
              /\ k = j + 1 \/ (b[j].mu = "q.mu" /\ \A x \in (j + 1)..(k - 1) : b[x].mu # "q.mu")
        BY <3>3 DEF PairedAt
      <3>5. k + 1 \in (i + 1)..Len(s) /\ s[k + 1] = b[k] /\ (k = j + 1 => k + 1 = i + 1)
        BY <1>1, <1>4, <1>5, <3>2, <3>4
      <3>6. \A x \in (i + 1)..(k + 1 - 1) : s[x] = b[x - 1] /\ x - 1 \in (j + 1)..(k - 1)
        BY <1>1, <1>4, <1>5, <3>2, <3>4
      <3> HIDE DEF j
      <3> DEFINE k2 == k + 1
      <3>7. s[k2] = Undo(s[i].mu) /\ (k = j + 1 => k2 = i + 1)
        BY <3>2, <3>4, <3>5 DEF j
      <3>8. k = j + 1 \/ (s[i].mu = "q.mu" /\ \A x \in (i + 1)..(k2 - 1) : s[x].mu # "q.mu")
        BY <3>2, <3>4, <3>6 DEF j
      <3>9. k2 \in (i + 1)..Len(s)
        BY <3>5
      <3> HIDE DEF k2
      <3> QED  BY <3>7, <3>8, <3>9 DEF PairedAt
    <2> QED  BY <2>1, <2>2
  <1>8. b = <<>> /\ m # "q.mu" => NoQ(s)
    <2> SUFFICES ASSUME b = <<>>, m # "q.mu", NEW i \in 1..Len(s) PROVE s[i].mu # "q.mu"
      BY DEF NoQ
    <2>1. Len(b) = 0
      OBVIOUS
    <2>2. i = 1 \/ i = 2
      BY <1>4, <2>1
    <2> QED  BY <1>4, <1>5, <1>6, <2>1, <2>2
  <1> QED  BY <1>4, <1>7, <1>8 DEF Ordered, Paired, s

LEMMA OrderedBrief ==
    /\ Ordered(<<>>) /\ NoQ(<<>>)
    /\ \A m \in Mutexes : Ordered(Brief(m)) /\ (m # "q.mu" => NoQ(Brief(m)))
  <1>1. Ordered(<<>>) /\ NoQ(<<>>)
    BY DEF Ordered, Paired, NoQ
  <1> QED  BY <1>1, OrderedSection DEF Brief

(* Every call of the queue, the scheduler and the notifier, while no schedule
   chains another.                                                         *)
LEMMA CallsAreOrdered ==
    ASSUME FollowUps \subseteq {FALSE}, NEW g \in Goroutines, NEW c \in Calls(g)
    PROVE  Ordered(c)
  <1> DEFINE Q == Brief("q.mu")
             S == Brief("s.mu")
             L == Brief("q.listMu")
             H == Brief("r.histMu")
  <1>1. Ordered(Q) /\ Ordered(S) /\ Ordered(L) /\ Ordered(H) /\ Ordered(<<>>)
    BY OrderedBrief DEF Mutexes
  <1>2. NoQ(S) /\ NoQ(L) /\ NoQ(H) /\ NoQ(<<>>)
    BY OrderedBrief DEF Mutexes
  <1> HIDE DEF Q, S, L, H
  <1>3. \A a, b : Ordered(a) /\ Ordered(b) => Ordered(a \o b)
    BY OrderedConcat
  <1>4. \A a, b : Ordered(a) /\ Ordered(b) /\ NoQ(a) /\ NoQ(b) => NoQ(a \o b)
    BY OrderedConcat
  <1>5. \A b : Ordered(b) /\ NoQ(b) => Ordered(Section("q.mu", b))
    BY OrderedSection DEF Mutexes
  <1>6. ASSUME NEW h \in Hooks PROVE Ordered(h) /\ NoQ(h)
    <2>1. h = H \o <<>> \/ h = H \o ((S \o <<>>) \o S)
      <3>1. Hook(FALSE, FALSE, FALSE) = H \o <<>>
        BY DEF Hook, H
      <3>2. \A d \in BOOLEAN : Hook(TRUE, FALSE, d) = H \o ((S \o <<>>) \o S)
        BY DEF Hook, OnQueueTerminalCall, H, S
      <3>3. h = Hook(FALSE, FALSE, FALSE) \/ \E d \in BOOLEAN : h = Hook(TRUE, FALSE, d)
        <4>1. \/ h \in {Hook(FALSE, FALSE, FALSE)}
              \/ \E chains \in FollowUps : h \in {Hook(TRUE, chains, d) : d \in BOOLEAN}
          BY <1>6, Zenon DEF Hooks
        <4>2. \A chains \in FollowUps : chains = FALSE
          BY Zenon
        <4> QED  BY <4>1, <4>2, Zenon
      <3> QED  BY <3>1, <3>2, <3>3, Zenon
    <2>2. Ordered(S \o <<>>) /\ NoQ(S \o <<>>)
      BY <1>1, <1>2, <1>3, <1>4
    <2>3. Ordered((S \o <<>>) \o S) /\ NoQ((S \o <<>>) \o S)
      BY <1>1, <1>2, <1>3, <1>4, <2>2
    <2> QED  BY <1>1, <1>2, <1>3, <1>4, <2>1, <2>3
  <1>7. ASSUME NEW d \in BOOLEAN PROVE Ordered(dispatch(d)) /\ Ordered(Enqueue(d))
    <2>1. dispatch(d) = Q \o (Q \o L) \/ dispatch(d) = Q \o <<>>
      BY Zenon DEF dispatch, broadcast, Q, L
    <2>2. Ordered(dispatch(d))
      BY <1>1, <1>3, <2>1
    <2>3. Enqueue(d) = ((Q \o Q) \o dispatch(d)) \o Q
      BY DEF Enqueue, Q
    <2> QED  BY <1>1, <1>3, <2>2, <2>3
  <1>8. ASSUME NEW h \in Hooks
        PROVE  Ordered(runOne(h)) /\ Ordered(reapDetachedOnce(h)) /\ Ordered(Cancel(h))
    <2>1. Ordered(L \o h) /\ NoQ(L \o h) /\ Ordered(h) /\ NoQ(h)
      BY <1>1, <1>2, <1>3, <1>4, <1>6
    <2>2. Ordered(Section("q.mu", L \o h)) /\ Ordered(Section("q.mu", h))
      BY <1>5, <2>1
    <2>3. /\ runOne(h) = (Q \o L) \o Section("q.mu", L \o h)
          /\ reapDetachedOnce(h) = (Q \o Section("q.mu", h)) \o L
          /\ Cancel(h) = Section("q.mu", h) \o L
      BY DEF runOne, reapDetachedOnce, Cancel, broadcast, Q, L
    <2> QED  BY <1>1, <1>3, <2>2, <2>3
  <1>9. ASSUME NEW d \in BOOLEAN
        PROVE  Ordered(tickOnce(d)) /\ Ordered(Rerun(d)) /\ Ordered(RunNowCall(d))
    <2>1. /\ tickOnce(d) = (S \o Enqueue(d)) \o S /\ RunNowCall(d) = (S \o Enqueue(d)) \o S
          /\ Rerun(d) = (Q \o L) \o dispatch(d)
      BY DEF tickOnce, RunNowCall, Rerun, broadcast, Q, S, L
    <2> QED  BY <1>1, <1>3, <1>7, <2>1
  <1>10. Ordered(SaveCall) /\ Ordered(Subscribe)
    BY <1>1 DEF SaveCall, Subscribe, S, L
  <1>11. \/ \E h \in Hooks : c = runOne(h) \/ c = reapDetachedOnce(h) \/ c = Cancel(h)
         \/ \E d \in BOOLEAN : c = tickOnce(d) \/ c = Enqueue(d) \/ c = Rerun(d) \/ c = RunNowCall(d)
         \/ c = SaveCall \/ c = Subscribe
    <2>1. CASE g \in Workers
      <3>1. Calls(g) = {runOne(h) : h \in Hooks}
        BY <2>1, HookAssumptions DEF Calls
      <3> QED  BY <3>1
    <2>2. CASE g = "reaper"
      <3>1. Calls(g) = {reapDetachedOnce(h) : h \in Hooks}
        BY <2>2, HookAssumptions DEF Calls
      <3> QED  BY <3>1
    <2>3. CASE g = "loop"
      <3>1. Calls(g) = {tickOnce(d) : d \in BOOLEAN}
        BY <2>3, HookAssumptions DEF Calls
      <3> QED  BY <3>1
    <2>4. CASE g \in Clients
      <3>1. Calls(g) = {Cancel(h) : h \in Hooks} \cup {SaveCall, Subscribe}
                         \cup UNION {{Enqueue(d), Rerun(d), RunNowCall(d)} : d \in BOOLEAN}
        BY <2>4, HookAssumptions DEF Calls
      <3> QED  BY <3>1
    <2> QED  BY <2>1, <2>2, <2>3, <2>4 DEF Goroutines
  <1> QED  BY <1>7, <1>8, <1>9, <1>10, <1>11

(* What a goroutine holds it will release: next, or, for q.mu, after
   operations on other mutexes.                                            *)
ReleasedAt(s, m, k) ==
    /\ s[k] = Undo(m)
    /\ k = 1 \/ (m = "q.mu" /\ \A x \in 1..(k - 1) : s[x].mu # "q.mu")
Releases(s, m) == \E k \in 1..Len(s) : ReleasedAt(s, m, k)
LockInv ==
    /\ DOMAIN todo = Goroutines /\ DOMAIN owner = Mutexes
    /\ \A g \in Goroutines : Ordered(todo[g])
    /\ \A g \in Goroutines, m \in Mutexes : owner[m] = g => Releases(todo[g], m)

LEMMA TailIsOrdered ==
    ASSUME NEW s, Ordered(s), s # <<>>
    PROVE  /\ Len(s) \in Nat \ {0} /\ Head(s) = s[1] /\ Head(s) \in Ops
           /\ Len(Tail(s)) = Len(s) - 1
           /\ \A i \in 1..(Len(s) - 1) : Tail(s)[i] = s[i + 1]
           /\ Ordered(Tail(s))
  <1> DEFINE t == Tail(s)
  <1>1. s \in Seq(Ops)
    BY DEF Ordered
  <1>2. /\ Len(s) \in Nat \ {0} /\ Head(s) = s[1] /\ Head(s) \in Ops
        /\ t \in Seq(Ops) /\ Len(t) = Len(s) - 1
        /\ \A i \in 1..Len(t) : t[i] = s[i + 1]
    BY <1>1, HeadTailProperties, LenProperties, EmptySeq
  <1> HIDE DEF t
  <1>3. ASSUME NEW i \in 1..Len(t), t[i].op = "lock" PROVE PairedAt(t, i)
    <2> DEFINE j == i + 1
    <2>1. j \in 1..Len(s) /\ s[j].op = "lock" /\ s[j] = t[i]
      BY <1>2, <1>3
    <2>2. PairedAt(s, j)
      BY <2>1 DEF Ordered, Paired
    <2>3. PICK k \in (j + 1)..Len(s) :
            /\ s[k] = Undo(s[j].mu)
            /\ k = j + 1 \/ (s[j].mu = "q.mu" /\ \A x \in (j + 1)..(k - 1) : s[x].mu # "q.mu")
      BY <2>2 DEF PairedAt
    <2> DEFINE k2 == k - 1
    <2>4. k2 \in (i + 1)..Len(t) /\ t[k2] = s[k] /\ (k = j + 1 => k2 = i + 1)
      BY <1>2, <2>3
    <2>5. \A x \in (i + 1)..(k2 - 1) : t[x] = s[x + 1] /\ x + 1 \in (j + 1)..(k - 1)
      BY <1>2, <2>3
    <2> HIDE DEF j, k2
    <2>6. t[k2] = Undo(t[i].mu)
      BY <2>1, <2>3, <2>4
    <2>7. k2 = i + 1 \/ (t[i].mu = "q.mu" /\ \A x \in (i + 1)..(k2 - 1) : t[x].mu # "q.mu")
      BY <2>1, <2>3, <2>4, <2>5
    <2> QED  BY <2>4, <2>6, <2>7 DEF PairedAt
  <1> QED  BY <1>2, <1>3 DEF Ordered, Paired, t

(* A release that is not the first operation is still to come after it.    *)
LEMMA TailReleases ==
    ASSUME NEW s, Ordered(s), s # <<>>, NEW m \in Mutexes, Releases(s, m), s[1] # Undo(m)
    PROVE  Releases(Tail(s), m)
  <1>1. PICK k \in 1..Len(s) : ReleasedAt(s, m, k)
    BY DEF Releases
  <1>2. k # 1 /\ s[k] = Undo(m) /\ m = "q.mu" /\ \A x \in 1..(k - 1) : s[x].mu # "q.mu"
    BY <1>1 DEF ReleasedAt
  <1> DEFINE k2 == k - 1
  <1>3. k2 \in 1..Len(Tail(s)) /\ Tail(s)[k2] = s[k]
    BY <1>2, TailIsOrdered
  <1>4. \A x \in 1..(k2 - 1) : Tail(s)[x] = s[x + 1] /\ x + 1 \in 1..(k - 1)
    BY <1>2, TailIsOrdered
  <1> HIDE DEF k2
  <1>5. ReleasedAt(Tail(s), m, k2)
    BY <1>2, <1>3, <1>4 DEF ReleasedAt
  <1> QED  BY <1>3, <1>5 DEF Releases

LEMMA TailReleasesLocked ==
    ASSUME NEW s, Ordered(s), s # <<>>, s[1].op = "lock"
    PROVE  Releases(Tail(s), s[1].mu)
  <1>1. Len(s) \in Nat \ {0}
    BY TailIsOrdered
  <1>2. PairedAt(s, 1)
    BY <1>1 DEF Ordered, Paired
  <1>3. PICK k \in 2..Len(s) :
          /\ s[k] = Undo(s[1].mu)
          /\ k = 2 \/ (s[1].mu = "q.mu" /\ \A x \in 2..(k - 1) : s[x].mu # "q.mu")
    BY <1>2 DEF PairedAt
  <1> DEFINE k2 == k - 1
  <1>4. k2 \in 1..Len(Tail(s)) /\ Tail(s)[k2] = s[k] /\ (k = 2 => k2 = 1)
    BY <1>3, TailIsOrdered
  <1>5. \A x \in 1..(k2 - 1) : Tail(s)[x] = s[x + 1] /\ x + 1 \in 2..(k - 1)
    BY <1>3, TailIsOrdered
  <1> HIDE DEF k2
  <1>6. ReleasedAt(Tail(s), s[1].mu, k2)
    BY <1>3, <1>4, <1>5 DEF ReleasedAt
  <1> QED  BY <1>4, <1>6 DEF Releases

LEMMA LockStep ==
    ASSUME FollowUps \subseteq {FALSE}, LockInv, [HookNext]_hookVars
    PROVE  LockInv'
  <1>0. Free \notin Goroutines
    BY HookAssumptions DEF Free, Goroutines
  <1>1. ASSUME NEW g \in Goroutines, Call(g) PROVE LockInv'
    <2>1. PICK c \in Calls(g) : todo' = [todo EXCEPT ![g] = c]
      BY <1>1 DEF Call
    <2>2. todo[g] = <<>> /\ owner' = owner
      BY <1>1 DEF Call
    <2>3. Ordered(c)
      BY CallsAreOrdered
    <2>4. \A m \in Mutexes : owner[m] # g
      BY <2>2 DEF LockInv, Releases
    <2> QED  BY <2>1, <2>2, <2>3, <2>4 DEF LockInv
  <1>2. ASSUME NEW g \in Goroutines, Lock(g) PROVE LockInv'
    <2> DEFINE s == todo[g]
               m0 == s[1].mu
    <2>1. s # <<>> /\ Ordered(s)
      BY <1>2 DEF Lock, LockInv
    <2>2. Head(s) = s[1] /\ s[1] \in Ops /\ Ordered(Tail(s))
      BY <2>1, TailIsOrdered
    <2>3. /\ s[1].op = "lock" /\ owner[m0] = Free
          /\ owner' = [owner EXCEPT ![m0] = g] /\ todo' = [todo EXCEPT ![g] = Tail(s)]
      BY <1>2, <2>2 DEF Lock
    <2>4. m0 \in Mutexes
      BY <2>2 DEF Ops
    <2>5. Releases(Tail(s), m0)
      BY <2>1, <2>3, TailReleasesLocked
    <2>6. ASSUME NEW m \in Mutexes, owner[m] = g PROVE Releases(Tail(s), m)
      <3>1. Releases(s, m)
        BY <2>6 DEF LockInv
      <3>2. s[1] # Undo(m)
        BY <2>3 DEF Undo
      <3> QED  BY <2>1, <3>1, <3>2, TailReleases
    <2> HIDE DEF s, m0
    <2>7. DOMAIN todo' = Goroutines /\ DOMAIN owner' = Mutexes
      BY <2>3 DEF LockInv
    <2>8. \A h \in Goroutines : todo'[h] = IF h = g THEN Tail(s) ELSE todo[h]
      BY <2>3 DEF LockInv
    <2>9. \A m \in Mutexes : owner'[m] = IF m = m0 THEN g ELSE owner[m]
      BY <2>3 DEF LockInv
    <2>10. \A h \in Goroutines : Ordered(todo'[h])
      BY <2>2, <2>8 DEF LockInv
    <2>11. \A h \in Goroutines, m \in Mutexes : owner'[m] = h => Releases(todo'[h], m)
      BY <2>5, <2>6, <2>8, <2>9 DEF LockInv
    <2> QED  BY <2>7, <2>10, <2>11 DEF LockInv
  <1>3. ASSUME NEW g \in Goroutines, Unlock(g) PROVE LockInv'
    <2> DEFINE s == todo[g]
               m0 == s[1].mu
    <2>1. s # <<>> /\ Ordered(s)
      BY <1>3 DEF Unlock, LockInv
    <2>2. Head(s) = s[1] /\ s[1] \in Ops /\ Ordered(Tail(s))
      BY <2>1, TailIsOrdered
    <2>3. owner' = [owner EXCEPT ![m0] = Free] /\ todo' = [todo EXCEPT ![g] = Tail(s)]
      BY <1>3, <2>2 DEF Unlock
    <2>4. m0 \in Mutexes
      BY <2>2 DEF Ops
    <2>5. ASSUME NEW m \in Mutexes, owner[m] = g, m # m0 PROVE Releases(Tail(s), m)
      <3>1. Releases(s, m)
        BY <2>5 DEF LockInv
      <3>2. s[1] # Undo(m)
        BY <2>5 DEF Undo
      <3> QED  BY <2>1, <3>1, <3>2, TailReleases
    <2> HIDE DEF s, m0
    <2>6. DOMAIN todo' = Goroutines /\ DOMAIN owner' = Mutexes
      BY <2>3 DEF LockInv
    <2>7. \A h \in Goroutines : todo'[h] = IF h = g THEN Tail(s) ELSE todo[h]
      BY <2>3 DEF LockInv
    <2>8. \A m \in Mutexes : owner'[m] = IF m = m0 THEN Free ELSE owner[m]
      BY <2>3 DEF LockInv
    <2>9. \A h \in Goroutines : Ordered(todo'[h])
      BY <2>2, <2>7 DEF LockInv
    <2>10. \A h \in Goroutines, m \in Mutexes : owner'[m] = h => Releases(todo'[h], m)
      BY <1>0, <2>5, <2>7, <2>8 DEF LockInv
    <2> QED  BY <2>6, <2>9, <2>10 DEF LockInv
  <1>4. CASE UNCHANGED hookVars
    BY <1>4 DEF hookVars, LockInv
  <1> QED  BY <1>1, <1>2, <1>3, <1>4 DEF HookNext

(* However many workers and clients cross in the queue, the scheduler and the
   notifier, they never wait for one another in a circle, as long as no
   schedule chains another from the hook (what happens then is the finding
   about OnQueueTerminal): a goroutine that waits holds at most q.mu and
   does not wait for q.mu while it does.                                   *)
THEOREM LocksAreOrdered ==
    ASSUME FollowUps \subseteq {FALSE}
    PROVE  HookSpec => []NoWaitCycle
  <1>1. HookInit => LockInv
    <2> SUFFICES ASSUME HookInit PROVE LockInv
      OBVIOUS
    <2>1. \A g \in Goroutines : todo[g] = <<>>
      BY DEF HookInit
    <2>2. \A m \in Mutexes : owner[m] \notin Goroutines
      BY HookAssumptions DEF HookInit, Free, Goroutines
    <2> QED  BY <2>1, <2>2, OrderedBrief DEF LockInv, HookInit
  <1>2. LockInv => NoWaitCycle
    <2> SUFFICES ASSUME LockInv, NEW G \in (SUBSET Goroutines) \ {{}},
                        \A g \in G : WaitsFor(g, G)
                 PROVE  FALSE
      BY DEF NoWaitCycle
    <2>1. ASSUME NEW g \in G
          PROVE  /\ todo[g] # <<>> /\ todo[g][1].op = "lock" /\ todo[g][1].mu \in Mutexes
                 /\ owner[todo[g][1].mu] \in G
      <3>1. todo[g] # <<>> /\ Ordered(todo[g]) /\ Head(todo[g]).op = "lock"
            /\ owner[Head(todo[g]).mu] \in G
        BY DEF WaitsFor, Waits, LockInv
      <3>2. Head(todo[g]) = todo[g][1] /\ Head(todo[g]) \in Ops
        BY <3>1, TailIsOrdered
      <3> QED  BY <3>1, <3>2 DEF Ops
    <2>2. ASSUME NEW g \in G, NEW m \in Mutexes, owner[m] = g
          PROVE  m = "q.mu" /\ todo[g][1].mu # "q.mu"
      <3>1. PICK k \in 1..Len(todo[g]) : ReleasedAt(todo[g], m, k)
        BY <2>2 DEF LockInv, Releases
      <3>2. k # 1
        BY <2>1, <3>1 DEF ReleasedAt, Undo
      <3>3. 1 \in 1..(k - 1)
        BY <3>1, <3>2
      <3> QED  BY <3>1, <3>2, <3>3 DEF ReleasedAt
    <2>3. PICK g \in G : TRUE
      OBVIOUS
    <2> DEFINE h == owner[todo[g][1].mu]
               h2 == owner[todo[h][1].mu]
    <2>4. h \in G /\ todo[h][1].mu # "q.mu" /\ todo[h][1].mu \in Mutexes
      BY <2>1, <2>2
    <2>5. h2 \in G
      BY <2>1, <2>4
    <2> QED  BY <2>2, <2>4, <2>5
  <1> QED  BY <1>1, <1>2, LockStep, PTL DEF HookSpec
=============================================================================
