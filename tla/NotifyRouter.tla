--------------------------- MODULE NotifyRouter ----------------------------
(***************************************************************************)
(* The notification router of internal/notify: producers Dispatch events   *)
(* into a bounded channel without blocking, one worker matches each event  *)
(* against a snapshot of the configuration and sends it, throttled per     *)
(* (dedup key, rule) and with a circuit breaker per channel.               *)
(*                                                                         *)
(* A behaviour is the life of one Router, from New to Close.  A rule is its *)
(* id: what it matches and where it sends are constants, whether it is     *)
(* configured is state.  The order of the rules does not matter here: the  *)
(* worker takes those of its snapshot in any order.                        *)
(***************************************************************************)
EXTENDS Integers, Sequences, FiniteSets, Functions

CONSTANTS
    Keys,            \* Event.DedupKey
    Rules, Chans,    \* rule and channel ids
    Matches(_, _),   \* does a rule match an event?
    ChannelsOf,      \* per rule, its channels
    BufSize, Window, BrkLimit, BrkOpen,  \* Options of New
    HistoryCap,      \* historyCapacity
    MaxTime,         \* bound: seconds
    MaxEvents,       \* bound: events dispatched
    MaxEdits,        \* bound: changes of the configuration
    NoEvent

ASSUME RouterAssumptions ==
    /\ ChannelsOf \in [Rules -> SUBSET Chans]
    /\ BufSize \in Nat \ {0} /\ Window \in Nat \ {0} /\ BrkLimit \in Nat \ {0}
    /\ BrkOpen \in Nat \ {0} /\ HistoryCap \in Nat \ {0}
    /\ NoEvent \notin [n : Nat, key : Keys]
    /\ MaxTime \in Nat /\ MaxEvents \in Nat /\ MaxEdits \in Nat

VARIABLES
    lifecycle,   \* "open", "closing" (quit is closed) or "closed" (run returned)
    time,
    ring,        \* history: [buf, next, count]
    buf,         \* r.ch
    dropped,
    rules,       \* configured, enabled rules
    chans,       \* configured, enabled channels
    throttle,    \* (key, rule) -> time of the last send
    breaker,     \* channel -> [failures, openUntil]
    event,       \* the event in handle, or NoEvent
    sends,       \* history: calls of Channel.Send
    dispatched, taken, edits

config == <<rules, chans, edits>>
worker == <<throttle, breaker, event, sends, taken>>
producer == <<ring, buf, dropped, dispatched>>
routerVars == <<lifecycle, time, producer, config, worker>>

-----------------------------------------------------------------------------
(* ring.push and ring.snapshot (newest first).                             *)
push(r, ev) ==
    [buf   |-> [r.buf EXCEPT ![r.next] = ev],
     next  |-> (r.next + 1) % HistoryCap,
     count |-> IF r.count < HistoryCap THEN r.count + 1 ELSE r.count]

SnapshotIndex_Off(r, i) == (r.next - i) % HistoryCap  \* mutant: starts at the next write
SnapshotIndex(r, i) == (r.next - 1 - i) % HistoryCap

snapshot(r) == [i \in 1..r.count |-> r.buf[SnapshotIndex(r, i - 1)]]

(* Dispatch never blocks: when the buffer is full the event is dropped and
   counted.                                                                *)
Overflow_Silent == UNCHANGED dropped  \* mutant: the drop is not counted
Overflow == dropped' = dropped + 1

Dispatch(key) ==
    /\ dispatched < MaxEvents
    /\ dispatched' = dispatched + 1
    /\ LET ev == [n |-> dispatched', key |-> key]
       IN  /\ ring' = push(ring, ev)
           /\ IF Len(buf) < BufSize
              THEN buf' = Append(buf, ev) /\ UNCHANGED dropped
              ELSE UNCHANGED buf /\ Overflow
    /\ UNCHANGED <<lifecycle, time, config, worker>>

(* UpsertRule, DeleteRule, UpsertChannel, DeleteChannel: a new slice or map
   is published; the worker keeps the one it read.                         *)
Toggle(S, x) == IF x \in S THEN S \ {x} ELSE S \cup {x}

EditRule(r) ==
    /\ edits < MaxEdits /\ edits' = edits + 1
    /\ rules' = Toggle(rules, r)
    /\ UNCHANGED <<lifecycle, time, producer, chans, worker>>

EditChannel(c) ==
    /\ edits < MaxEdits /\ edits' = edits + 1
    /\ chans' = Toggle(chans, c)
    /\ UNCHANGED <<lifecycle, time, producer, rules, worker>>

ClockRuns ==
    /\ time < MaxTime
    /\ time' = time + 1
    /\ UNCHANGED <<lifecycle, producer, config, worker>>

-----------------------------------------------------------------------------
(* handle: the configuration and the time are read once, and the throttle
   entries older than the window are dropped.                              *)
Expired_Early(ts, now) == now - ts > BrkOpen  \* mutant: the wrong option
Expired(ts, now) == now - ts > Window

evictThrottle(now) ==
    Restrict(throttle, {k \in DOMAIN throttle : ~Expired(throttle[k], now)})

(* run's select may pick an event after quit is closed.                    *)
HandleBegin ==
    /\ lifecycle # "closed" /\ event = NoEvent /\ buf # <<>>
    /\ buf' = Tail(buf) /\ taken' = taken + 1
    /\ event' = [key |-> Head(buf).key, now |-> time,
                 rules |-> {r \in rules : Matches(r, Head(buf).key)},
                 chans |-> chans, rule |-> NoEvent, left |-> {}]
    /\ throttle' = evictThrottle(time)
    /\ UNCHANGED <<lifecycle, time, ring, dropped, dispatched, config, breaker, sends>>

Throttled(k) == k \in DOMAIN throttle /\ event.now - throttle[k] < Window

(* The next rule of the snapshot: within the window it is skipped, else the
   send is recorded, and then tried.                                       *)
HandleRule(r) ==
    /\ event # NoEvent /\ event.left = {} /\ r \in event.rules
    /\ LET k == <<event.key, r>>
       IN  IF Throttled(k)
           THEN /\ event' = [event EXCEPT !.rules = @ \ {r}]
                /\ UNCHANGED throttle
           ELSE /\ event' = [event EXCEPT !.rules = @ \ {r}, !.rule = r,
                                         !.left = ChannelsOf[r] \cap event.chans]
                /\ throttle' = [x \in DOMAIN throttle \cup {k} |->
                                  IF x = k THEN event.now ELSE throttle[x]]
    /\ UNCHANGED <<lifecycle, time, producer, config, breaker, sends, taken>>

(* sendVia: an open breaker skips the channel.                             *)
SendSkipped_Waits(c) == UNCHANGED event  \* mutant: the worker waits for the breaker to close
SendSkipped(c) == event' = [event EXCEPT !.left = @ \ {c}]

sendViaOpen(c) ==
    /\ event # NoEvent /\ c \in event.left /\ event.now < breaker[c].openUntil
    /\ SendSkipped(c)
    /\ UNCHANGED <<lifecycle, time, producer, config, throttle, breaker, sends, taken>>

(* The breaker after a send at time now.                                   *)
AfterSend_Reset(b, now, ok) ==  \* mutant: opening the breaker forgets the failures
    IF ok THEN [failures |-> 0, openUntil |-> 0]
    ELSE IF b.failures + 1 >= BrkLimit THEN [failures |-> 0, openUntil |-> now + BrkOpen]
    ELSE [b EXCEPT !.failures = @ + 1]
AfterSend(b, now, ok) ==
    IF ok THEN [failures |-> 0, openUntil |-> 0]
    ELSE [failures  |-> b.failures + 1,
          openUntil |-> IF b.failures + 1 >= BrkLimit THEN now + BrkOpen ELSE b.openUntil]

(* Send ends, with or without an error, within the send timeout.           *)
sendVia(c, ok) ==
    /\ event # NoEvent /\ c \in event.left /\ event.now >= breaker[c].openUntil
    /\ event' = [event EXCEPT !.left = @ \ {c}]
    /\ breaker' = [breaker EXCEPT ![c] = AfterSend(@, event.now, ok)]
    /\ sends' = Append(sends, [key |-> event.key, rule |-> event.rule, chan |-> c,
                               at |-> event.now, ok |-> ok])
    /\ UNCHANGED <<lifecycle, time, producer, config, throttle, taken>>

HandleEnd ==
    /\ event # NoEvent /\ event.left = {} /\ event.rules = {}
    /\ event' = NoEvent
    /\ UNCHANGED <<lifecycle, time, producer, config, throttle, breaker, sends, taken>>

(* Close closes quit and waits; run returns between two events.            *)
CloseBegin ==
    /\ lifecycle = "open"
    /\ lifecycle' = "closing"
    /\ UNCHANGED <<time, producer, config, worker>>

RunReturns ==
    /\ lifecycle = "closing" /\ event = NoEvent
    /\ lifecycle' = "closed"
    /\ UNCHANGED <<time, producer, config, worker>>

-----------------------------------------------------------------------------
RouterInit ==
    /\ lifecycle = "open" /\ time = 0
    /\ ring = [buf |-> [i \in 0..(HistoryCap - 1) |-> NoEvent], next |-> 0, count |-> 0]
    /\ buf = <<>> /\ dropped = 0 /\ dispatched = 0
    /\ rules = Rules /\ chans = Chans /\ edits = 0
    /\ throttle = <<>> /\ breaker = [c \in Chans |-> [failures |-> 0, openUntil |-> 0]]
    /\ event = NoEvent /\ sends = <<>> /\ taken = 0

Worker ==
    \/ HandleBegin \/ HandleEnd
    \/ \E r \in Rules : HandleRule(r)
    \/ \E c \in Chans : sendViaOpen(c) \/ \E ok \in BOOLEAN : sendVia(c, ok)

RouterNext ==
    \/ \E k \in Keys : Dispatch(k)
    \/ \E r \in Rules : EditRule(r)
    \/ \E c \in Chans : EditChannel(c)
    \/ ClockRuns \/ Worker \/ CloseBegin \/ RunReturns

(* The worker goroutine runs; every Send has a timeout.                    *)
RouterFairness == WF_routerVars(Worker)

RouterSpec == RouterInit /\ [][RouterNext]_routerVars /\ RouterFairness

-----------------------------------------------------------------------------
(* Properties.                                                             *)

(* "identical (DedupKey,rule) within this window sends once": two sends of
   one key by one rule over one channel are a window apart, although the
   entries of the throttle are evicted and the time is read before the
   sends of an event.                                                      *)
OncePerWindow ==
    \A i, j \in 1..Len(sends) :
        /\ i < j /\ sends[i].key = sends[j].key
        /\ sends[i].rule = sends[j].rule /\ sends[i].chan = sends[j].chan
        => sends[j].at - sends[i].at >= Window

(* A channel that failed BrkLimit times in a row is left alone for BrkOpen
   seconds, and again after each failure that follows, whichever rules and
   events the sends came from.                                             *)
BreakerRests ==
    \A i, j \in 1..Len(sends) :
        LET run == {k \in i..(j - 1) : sends[k].chan = sends[j].chan}
        IN  Cardinality(run) >= BrkLimit /\ (\A k \in run : ~sends[k].ok)
                => \A k \in run : sends[j].at >= sends[k].at + BrkOpen

(* ring.snapshot is the last events dispatched, newest first, before and
   after the buffer wraps round, dropped events included.                  *)
HistoryNewestFirst ==
    /\ ring.count = IF dispatched < HistoryCap THEN dispatched ELSE HistoryCap
    /\ \A i \in 1..ring.count :
          snapshot(ring)[i] # NoEvent /\ snapshot(ring)[i].n = dispatched - i + 1

(* "Silence is never success": every event dispatched was handed to the
   worker, waits in the channel, or was counted as dropped.                *)
EventsAccounted == dispatched = taken + Len(buf) + dropped

(* An event in the channel reaches the worker unless the router is closed:
   no channel that fails, and no open breaker, holds the others up.        *)
EventsTaken ==
    \A n \in 1..MaxEvents :
        (\E i \in 1..Len(buf) : buf[i].n = n)
            ~> (lifecycle # "open" \/ \A i \in 1..Len(buf) : buf[i].n # n)
=============================================================================
