------------------------------ MODULE LiveCall ------------------------------
(***************************************************************************)
(* The live call of one video room: the handlers of its signaling sockets  *)
(* (HandleWS and HandleGuestWS), the Hub, the callRegistry that decides     *)
(* whether a join begins a call, its heartbeat and active-calls.json.       *)
(*                                                                          *)
(* A join rings when it begins a call.  Left out is what may then keep the  *)
(* ring back (resume=1, the dedup per recipient, muted devices), who is     *)
(* told, and the messages between peers, which the hub passes on.           *)
(***************************************************************************)
EXTENDS Integers, FiniteSets

CONSTANTS
    Tabs, NoTab,  \* ClientIDs, each of a user of its own
    Sockets,      \* connections that may be open at once
    maxPerRm,     \* Hub.maxPerRm
    Grace, Touch, \* liveCallGraceSec, liveCallTouchSec
    MaxSeconds, MaxJoins, MaxDeploys  \* bounds

ASSUME LiveCallAssumption ==
    /\ Touch \in Nat \ {0} /\ Grace \in Nat /\ Touch < Grace /\ maxPerRm \in Nat \ {0}
    /\ MaxSeconds \in Nat /\ MaxJoins \in Nat /\ MaxDeploys \in Nat

VARIABLES
    second,   \* time.Now().Unix()
    up,       \* the process runs
    sock,     \* per socket, its handler: [at, tab, graceful]
    inHub,    \* sockets with a peer in the Hub
    call,     \* r.calls[room]: the CallID, 0 when there is none
    obj,      \* per CallID, what its LiveCall holds: [last, who]
    save,     \* per goroutine, its save: [at, list]
    callFile, \* active-calls.json: [id, last, who], id 0 for an empty list
    pulse,    \* the heartbeat: [at, occupied, last]
    alive,    \* history: when somebody was last in the call, -1 after it ended
    crossed,  \* history: a hang-up ended after the same tab was back
    behind,   \* history: the process died while a save was under way, or ...
    overtook, \* ... after two saves that overlapped
    joins, deploys

live == <<call, obj>>
saving == <<save, callFile, overtook>>
past == <<alive, crossed, behind>>
liveCallVars == <<second, up, sock, inHub, live, saving, pulse, past, joins, deploys>>

Beat == "heartbeat"
NoSave == [at |-> "idle", list |-> 0]
Hung == [at |-> "off", tab |-> NoTab, graceful |-> FALSE]

-----------------------------------------------------------------------------
(* save.  The list of calls is taken under r.mu right after the change that
   made it dirty, here in one step with it; the list is marshalled, written
   and renamed without r.mu, in another.  Saves that overlap share the .new
   file too: what they leave is what overtook stands for, until the next.  *)
CallsListed(p) ==
    /\ save' = [save EXCEPT ![p] = [at |-> "listed", list |-> call']]
    /\ overtook' = \E q \in DOMAIN save \ {p} : save[q].at = "listed"

Marshalled(c) ==
    IF c = 0 THEN [id |-> 0, last |-> 0, who |-> {}]
    ELSE [id |-> c, last |-> obj[c].last, who |-> obj[c].who]

CallsStored(p) ==
    /\ save[p].at = "listed"
    /\ callFile' = Marshalled(save[p].list)
    /\ save' = [save EXCEPT ![p] = NoSave]
    /\ UNCHANGED <<second, up, sock, inHub, live, overtook, pulse, past, joins, deploys>>

-----------------------------------------------------------------------------
(* The handler of a socket.                                                *)

Closed(s) == sock[s] = Hung /\ save[s].at = "idle"

(* Hub.Join: the tab's earlier peers are evicted, whatever comes of it.    *)
Join(c) ==
    /\ up /\ (\E s \in Sockets : Closed(s))
    /\ joins < MaxJoins /\ joins' = joins + 1
    /\ LET s      == CHOOSE s \in Sockets : Closed(s)
           others == {o \in inHub : sock[o].tab # c}
       IN  IF Cardinality(others) >= maxPerRm
           THEN inHub' = others /\ UNCHANGED sock
           ELSE /\ inHub' = others \cup {s}
                /\ sock' = [sock EXCEPT ![s] = [at |-> "joined", tab |-> c, graceful |-> FALSE]]
    /\ UNCHANGED <<second, up, live, saving, pulse, past, deploys>>

CallExpired(c) == second - obj[c].last > Grace
liveLocked == IF call = 0 \/ CallExpired(call) THEN 0 ELSE call

(* OnJoin: the call goes on, or another begins, and rings.                 *)
NewCall == Cardinality(DOMAIN obj) + 1

announceJoin(s) ==
    /\ sock[s].at = "joined"
    /\ sock' = [sock EXCEPT ![s].at = "live"]
    /\ LET c   == IF liveLocked # 0 THEN liveLocked ELSE NewCall
           who == IF liveLocked # 0 THEN obj[c].who ELSE {}
       IN  /\ call' = c
           /\ obj' = [k \in DOMAIN obj \cup {c} |->
                        IF k = c THEN [last |-> second, who |-> who \cup {sock[s].tab}] ELSE obj[k]]
    /\ CallsListed(s)
    /\ alive' = second
    /\ UNCHANGED <<second, up, inHub, callFile, pulse, crossed, behind, joins, deploys>>

(* The reader loop ends: a "leave", or the socket died.                    *)
ReaderEnds(s, graceful) ==
    /\ sock[s].at = "live" /\ save[s].at = "idle"
    /\ sock' = [sock EXCEPT ![s].at = "left", ![s].graceful = graceful]
    /\ UNCHANGED <<second, up, inHub, live, saving, pulse, past, joins, deploys>>

HubLeave(s) ==
    /\ sock[s].at = "left"
    /\ sock' = [sock EXCEPT ![s].at = "gone"]
    /\ inHub' = inHub \ {s}
    /\ UNCHANGED <<second, up, live, saving, pulse, past, joins, deploys>>

(* owner-kick and KickPeer: the peer leaves the hub, its reader reads on.  *)
Kick(s) ==
    /\ s \in inHub /\ sock[s].at = "live"
    /\ inHub' = inHub \ {s}
    /\ UNCHANGED <<second, up, sock, live, saving, pulse, past, joins, deploys>>

(* Sockets of a call somebody is in.                                       *)
Present == {s \in inHub : sock[s].at \in {"live", "left"}}

Leaves_Drop(graceful) == TRUE  \* mutant: a dropped connection hangs up
Leaves(graceful) == graceful

onPeerGone(s) ==
    /\ sock[s].at = "gone"
    /\ sock' = [sock EXCEPT ![s] = Hung]
    /\ LET c    == sock[s].tab
           rest == obj[call].who \ {c}
       IN  IF call = 0 \/ ~Leaves(sock[s].graceful)
           THEN /\ UNCHANGED <<call, obj, alive, crossed>>
                /\ IF call = 0 THEN UNCHANGED <<save, overtook>> ELSE CallsListed(s)
           ELSE /\ obj' = [obj EXCEPT ![call] = [last |-> second, who |-> rest]]
                /\ call' = IF rest = {} THEN 0 ELSE call
                /\ alive' = IF rest = {} /\ sock[s].graceful THEN -1 ELSE alive
                /\ crossed' = (crossed \/ \E o \in Present : sock[o].tab = c)
                /\ CallsListed(s)
    /\ UNCHANGED <<second, up, inHub, callFile, pulse, behind, joins, deploys>>

-----------------------------------------------------------------------------
(* callHeartbeat; OccupiedRooms is read before Touch and GC.  The last touch
   of Close is that of a process that dies after this second's.            *)
PulseReads ==
    /\ up /\ second > pulse.last /\ pulse.at = "idle" /\ save[Beat].at = "idle"
    /\ pulse' = [pulse EXCEPT !.at = "read", !.occupied = inHub # {}]
    /\ UNCHANGED <<second, up, sock, inHub, live, saving, past, joins, deploys>>

Freshened_Never(c) == obj  \* mutant: a long call ages
Freshened(c) == [obj EXCEPT ![c].last = second]

PulseTouches ==
    /\ pulse.at = "read"
    /\ pulse' = [at |-> "idle", occupied |-> FALSE, last |-> second]
    /\ IF call # 0 /\ (pulse.occupied \/ CallExpired(call))
       THEN /\ obj' = IF pulse.occupied THEN Freshened(call) ELSE obj
            /\ call' = IF pulse.occupied THEN call ELSE 0
            /\ CallsListed(Beat)
       ELSE UNCHANGED <<live, save, overtook>>
    /\ UNCHANGED <<second, up, sock, inHub, callFile, past, joins, deploys>>

-----------------------------------------------------------------------------
(* The process ends and starts; the clients join again.                    *)
Settled == \A p \in DOMAIN save : save[p].at = "idle"

Dies ==
    /\ up /\ deploys < MaxDeploys /\ deploys' = deploys + 1
    /\ up' = FALSE
    /\ sock' = [s \in Sockets |-> Hung] /\ inHub' = {}
    /\ save' = [p \in DOMAIN save |-> NoSave]
    /\ behind' = (behind \/ overtook \/ ~Settled)
    /\ call' = 0
    /\ pulse' = [pulse EXCEPT !.at = "idle", !.occupied = FALSE]
    /\ UNCHANGED <<second, obj, callFile, overtook, alive, crossed, joins>>

LoadCalls ==
    /\ ~up /\ up' = TRUE
    /\ IF callFile.id # 0 /\ second - callFile.last <= Grace
       THEN /\ call' = callFile.id
            /\ obj' = [obj EXCEPT ![callFile.id] = [last |-> callFile.last, who |-> callFile.who]]
       ELSE UNCHANGED <<call, obj>>
    /\ pulse' = [pulse EXCEPT !.last = second]
    /\ UNCHANGED <<second, sock, inHub, saving, past, joins, deploys>>

(* The ticker of the heartbeat is on time; next to its period the steps of a
   handler, of the heartbeat and of a save take no time.                   *)
Second ==
    /\ second < MaxSeconds /\ second' = second + 1
    /\ up => pulse.at = "idle" /\ second - pulse.last < Touch
    /\ Settled /\ \A s \in Sockets : sock[s].at \in {"off", "live"}
    /\ alive' = IF Present # {} THEN second' ELSE alive
    /\ UNCHANGED <<up, sock, inHub, live, saving, pulse, crossed, behind, joins, deploys>>

-----------------------------------------------------------------------------
LiveCallInit ==
    /\ second = 0 /\ up = TRUE /\ joins = 0 /\ deploys = 0
    /\ sock = [s \in Sockets |-> Hung] /\ inHub = {}
    /\ call = 0 /\ obj = [c \in {} |-> 0]
    /\ save = [p \in Sockets \cup {Beat} |-> NoSave]
    /\ callFile = [id |-> 0, last |-> 0, who |-> {}] /\ overtook = FALSE
    /\ pulse = [at |-> "idle", occupied |-> FALSE, last |-> 0]
    /\ alive = -1 /\ crossed = FALSE /\ behind = FALSE

LiveCallNext ==
    \/ \E c \in Tabs : Join(c)
    \/ \E s \in Sockets :
        \/ announceJoin(s) \/ HubLeave(s) \/ Kick(s) \/ onPeerGone(s)
        \/ \E graceful \in BOOLEAN : ReaderEnds(s, graceful)
    \/ \E p \in Sockets \cup {Beat} : CallsStored(p)
    \/ PulseReads \/ PulseTouches
    \/ Dies \/ LoadCalls \/ Second

LiveCallSpec == LiveCallInit /\ [][LiveCallNext]_liveCallVars

-----------------------------------------------------------------------------
(* Properties.                                                             *)

(* "RING ONLY when the call session is born": a join rings only if for as
   long as Grace - Touch nobody had been in the call, or everybody hung up,
   through drops, returns, evictions, kicks, heartbeats and restarts of the
   panel between any two of them.  The windows left open are a process that
   dies before a change is saved or after two saves crossed, and a hang-up
   that is handled after the same tab is back.                             *)
RingsAreNew ==
    [][DOMAIN obj' # DOMAIN obj =>
          \/ crossed \/ behind
          \/ alive = -1 \/ second - alive > Grace - Touch]_liveCallVars

(* While somebody is in the call the registry has it, and it is fresh enough
   to outlive a restart of Grace - Touch: "the deploy at minute 40 still
   lands inside the grace window".                                         *)
OccupiedHasCall ==
    Present # {} /\ ~crossed => call # 0 /\ second - obj[call].last <= Touch
=============================================================================
