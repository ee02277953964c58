--------------------------- MODULE LiveCallProofs ---------------------------
(* Proofs about LiveCall for any number of tabs and sockets, every capacity *)
(* of the room, every grace and heartbeat period.                           *)
EXTENDS LiveCall, FiniteSetTheorems, TLAPS

Procs == Sockets \cup {Beat}
SockRec == [at : {"off", "joined", "live", "left", "gone"}, tab : Tabs \cup {NoTab},
            graceful : BOOLEAN]

(* Calls are numbered as they begin, and every number kept names one.      *)
CallTypes ==
    /\ second \in Nat /\ sock \in [Sockets -> SockRec] /\ inHub \subseteq Sockets
    /\ \E n \in Nat : DOMAIN obj = 1..n
    /\ \A c \in DOMAIN obj : obj[c] \in [last : Nat, who : SUBSET (Tabs \cup {NoTab})]
    /\ call \in DOMAIN obj \cup {0}
    /\ save \in [Procs -> [at : {"idle", "listed"}, list : DOMAIN obj \cup {0}]]
    /\ callFile \in [id : DOMAIN obj \cup {0}, last : Nat, who : SUBSET (Tabs \cup {NoTab})]
    /\ pulse \in [at : {"idle", "read"}, occupied : BOOLEAN, last : Nat]
    /\ pulse.last <= second
    /\ alive \in Int /\ alive <= second

(* A process that is down has no sockets, no call and no save under way.   *)
Down ==
    ~up => /\ inHub = {} /\ call = 0 /\ (\A s \in Sockets : sock[s] = Hung)
           /\ \A p \in Procs : save[p] = NoSave

(* Whoever is present is among the participants of the call, and the call is
   as fresh as the last heartbeat, or begun since the heartbeat in progress
   found the room empty.                                                   *)
HasCall == \A s \in Present : ~crossed => call # 0 /\ sock[s].tab \in obj[call].who
FreshCall ==
    Present # {} /\ ~crossed =>
        /\ obj[call].last >= pulse.last /\ second - obj[call].last <= Touch
        /\ pulse.at = "read" /\ ~pulse.occupied => obj[call].last = second
PresentInv == HasCall /\ FreshCall

(* The call somebody was in lately is in the registry or, when the process
   is down, in the file.                                                   *)
AliveKept ==
    ~crossed /\ ~behind /\ alive # -1 =>
        \/ second - alive > Grace - Touch
        \/ up /\ call # 0 /\ obj[call].last >= alive - Touch
        \/ ~up /\ callFile.id # 0 /\ callFile.last >= alive - Touch

(* Saves that did not overlap leave the call in the file.                  *)
NoneListed == \A p \in Procs : save[p].at # "listed"
FileInv ==
    ~overtook =>
        /\ \A p, q \in Procs : save[p].at = "listed" /\ save[q].at = "listed" => p = q
        /\ \A p \in Procs : save[p].at = "listed" => save[p].list = call
        /\ NoneListed /\ call # 0 => callFile.id = call /\ callFile.last = obj[call].last

LiveInv == CallTypes /\ Down /\ PresentInv /\ AliveKept /\ FileInv

USE DEF Procs

-----------------------------------------------------------------------------
(* People leave, the call and the heartbeat stay as they are.              *)
LEMMA PresentShrinks ==
    ASSUME PresentInv, UNCHANGED <<second, live, pulse>>, crossed' = crossed,
           \A s \in Present' : s \in Present /\ sock'[s].tab = sock[s].tab
    PROVE  PresentInv'
BY DEF PresentInv, HasCall, FreshCall, live

(* A save that was just listed has the call in hand.                       *)
LEMMA ListingKeepsFile ==
    ASSUME CallTypes, NEW p \in Procs, CallsListed(p)
    PROVE  FileInv'
  <1>1. save' = [save EXCEPT ![p] = [at |-> "listed", list |-> call']]
    BY DEF CallsListed
  <1>2. save'[p] = [at |-> "listed", list |-> call']
    BY <1>1 DEF CallTypes
  <1>3. \A q \in Procs \ {p} : save'[q] = save[q]
    BY <1>1 DEF CallTypes
  <1>4. ~overtook' => \A q \in Procs \ {p} : save[q].at # "listed"
    BY DEF CallsListed, CallTypes
  <1> QED  BY <1>2, <1>3, <1>4 DEF FileInv, NoneListed

LEMMA QuietKeepsFile ==
    ASSUME FileInv, UNCHANGED <<live, save, callFile, overtook>>
    PROVE  FileInv'
BY DEF FileInv, NoneListed, live

LEMMA QuietKeepsAlive ==
    ASSUME AliveKept, UNCHANGED <<second, up, live, callFile, past>>
    PROVE  AliveKept'
BY DEF AliveKept, live, past

LEMMA SaveTypes ==
    ASSUME CallTypes, NEW p \in Procs, CallsListed(p), call' \in DOMAIN obj' \cup {0},
           DOMAIN obj \subseteq DOMAIN obj'
    PROVE  save' \in [Procs -> [at : {"idle", "listed"}, list : DOMAIN obj' \cup {0}]]
BY DEF CallTypes, CallsListed

LEMMA SockMoves ==
    ASSUME CallTypes, NEW s \in Sockets, NEW a \in {"off", "joined", "live", "left", "gone"},
           sock' = [sock EXCEPT ![s].at = a]
    PROVE  /\ sock' \in [Sockets -> SockRec]
           /\ sock'[s].at = a
           /\ \A o \in Sockets : sock'[o].tab = sock[o].tab /\ (o # s => sock'[o] = sock[o])
  <1>1. sock[s] \in SockRec /\ sock \in [Sockets -> SockRec]
    BY DEF CallTypes
  <1>2. /\ [sock[s] EXCEPT !.at = a] \in SockRec
        /\ [sock[s] EXCEPT !.at = a].tab = sock[s].tab
        /\ [sock[s] EXCEPT !.at = a].at = a
    BY <1>1 DEF SockRec
  <1>3. sock' = [sock EXCEPT ![s] = [sock[s] EXCEPT !.at = a]]
    OBVIOUS
  <1> QED  BY <1>1, <1>2, <1>3

-----------------------------------------------------------------------------
LEMMA JoinKeeps == ASSUME LiveInv, NEW c \in Tabs, Join(c) PROVE LiveInv'
  <1> DEFINE s == CHOOSE s \in Sockets : Closed(s)
             others == {o \in inHub : sock[o].tab # c}
             new == [at |-> "joined", tab |-> c, graceful |-> FALSE]
  <1>1. s \in Sockets /\ Closed(s)
    BY DEF Join
  <1>2. /\ up /\ UNCHANGED <<second, up, live, saving, pulse, past>>
        /\ \/ inHub' = others /\ sock' = sock
           \/ inHub' = others \cup {s} /\ sock' = [sock EXCEPT ![s] = new]
    BY Zenon DEF Join
  <1>3. sock[s].at = "off"
    BY <1>1 DEF Closed, Hung
  <1> HIDE DEF s
  <1>4. new \in SockRec /\ new.at = "joined"
    BY DEF SockRec
  <1> HIDE DEF new
  <1>5. sock' \in [Sockets -> SockRec] /\ inHub' \subseteq Sockets
    BY <1>1, <1>2, <1>4 DEF LiveInv, CallTypes
  <1>6. CallTypes'
    BY <1>2, <1>5 DEF LiveInv, CallTypes, live, saving, past
  <1>7. \A o \in Present' : o \in Present /\ sock'[o].tab = sock[o].tab
    BY <1>1, <1>2, <1>4 DEF Present, LiveInv, CallTypes
  <1>8. PresentInv'
    BY <1>2, <1>7, PresentShrinks DEF LiveInv, past
  <1>9. FileInv' /\ AliveKept' /\ Down'
    BY <1>2, QuietKeepsFile, QuietKeepsAlive DEF LiveInv, saving, past, Down
  <1> QED  BY <1>6, <1>8, <1>9 DEF LiveInv

LEMMA AnnounceKeeps == ASSUME LiveInv, NEW s \in Sockets, announceJoin(s) PROVE LiveInv'
  <1> DEFINE c == IF liveLocked # 0 THEN liveLocked ELSE NewCall
             who == IF liveLocked # 0 THEN obj[c].who ELSE {}
             rec == [last |-> second, who |-> who \cup {sock[s].tab}]
  <1>1. /\ sock[s].at = "joined" /\ sock' = [sock EXCEPT ![s].at = "live"]
        /\ CallsListed(s) /\ alive' = second
        /\ UNCHANGED <<second, up, inHub, callFile, pulse, crossed, behind>>
    BY DEF announceJoin
  <1>2. /\ call' = c
        /\ obj' = [k \in DOMAIN obj \cup {c} |-> IF k = c THEN rec ELSE obj[k]]
    BY Zenon DEF announceJoin
  <1>3. PICK n \in Nat : DOMAIN obj = 1..n
    BY DEF LiveInv, CallTypes
  <1>4. NewCall = n + 1
    <2>1. 1 \in Int /\ n \in Int
      OBVIOUS
    <2>2. Cardinality(1..n) = IF 1 > n THEN 0 ELSE n - 1 + 1
      BY <2>1, FS_Interval
    <2>3. Cardinality(1..n) = n
      BY <2>2
    <2> QED  BY <1>3, <2>3 DEF NewCall
  <1>5. c \in Nat \ {0} /\ DOMAIN obj \cup {c} = (IF liveLocked # 0 THEN 1..n ELSE 1..(n + 1))
    BY <1>3, <1>4 DEF LiveInv, CallTypes, liveLocked
  <1>6. up
    BY <1>1 DEF LiveInv, Down, Hung
  <1>7. liveLocked # 0 => c = call /\ who = obj[call].who
    BY DEF liveLocked
  <1>8. liveLocked = 0 /\ ~crossed => Present = {}
    BY LiveCallAssumption DEF LiveInv, PresentInv, HasCall, FreshCall, liveLocked, CallExpired, CallTypes
  <1>9. sock[s].tab \in Tabs \cup {NoTab} /\ who \subseteq Tabs \cup {NoTab}
    BY <1>3, <1>5 DEF LiveInv, CallTypes, SockRec, liveLocked
  <1> HIDE DEF c, who
  <1>10. rec \in [last : Nat, who : SUBSET (Tabs \cup {NoTab})]
    BY <1>9 DEF LiveInv, CallTypes
  <1>11. rec.last = second /\ sock[s].tab \in rec.who /\ who \subseteq rec.who
    OBVIOUS
  <1> HIDE DEF rec
  <1>12. /\ DOMAIN obj' = DOMAIN obj \cup {c} /\ obj'[c] = rec
         /\ \A k \in DOMAIN obj' : obj'[k] \in [last : Nat, who : SUBSET (Tabs \cup {NoTab})]
    BY <1>2, <1>10 DEF LiveInv, CallTypes
  <1>13. \E m \in Nat : DOMAIN obj' = 1..m
    <2>1. DOMAIN obj' = 1..n \/ DOMAIN obj' = 1..(n + 1)
      BY <1>5, <1>12
    <2>2. n \in Nat /\ n + 1 \in Nat
      OBVIOUS
    <2> QED  BY <2>1, <2>2
  <1>14. /\ sock' \in [Sockets -> SockRec]
         /\ \A o \in Sockets : sock'[o].tab = sock[o].tab /\ (o # s => sock'[o] = sock[o])
    BY <1>1, SockMoves DEF LiveInv
  <1>15. save' \in [Procs -> [at : {"idle", "listed"}, list : DOMAIN obj' \cup {0}]]
    BY <1>1, <1>2, <1>12, SaveTypes DEF LiveInv
  <1>16. callFile' \in [id : DOMAIN obj' \cup {0}, last : Nat, who : SUBSET (Tabs \cup {NoTab})]
    BY <1>1, <1>12 DEF LiveInv, CallTypes
  <1>17. CallTypes'
    <2>1. /\ second' \in Nat /\ alive' \in Int /\ alive' <= second' /\ inHub' \subseteq Sockets
          /\ pulse' \in [at : {"idle", "read"}, occupied : BOOLEAN, last : Nat]
          /\ pulse'.last <= second'
      BY <1>1 DEF LiveInv, CallTypes
    <2>2. call' \in DOMAIN obj' \cup {0}
      BY <1>2, <1>12
    <2> QED  BY <1>12, <1>13, <1>14, <1>15, <1>16, <2>1, <2>2 DEF CallTypes
  <1>18. \A o \in Present' : (o = s \/ o \in Present) /\ sock'[o].tab = sock[o].tab
    BY <1>1, <1>14 DEF Present, LiveInv, CallTypes
  <1>19. HasCall'
    <2> SUFFICES ASSUME NEW o \in Present', ~crossed PROVE c # 0 /\ sock[o].tab \in rec.who
      BY <1>1, <1>2, <1>12, <1>18 DEF HasCall
    <2>1. CASE o = s
      BY <1>5, <1>11, <2>1
    <2>2. CASE o # s
      BY <1>5, <1>7, <1>8, <1>11, <1>18, <2>2 DEF LiveInv, PresentInv, HasCall
    <2> QED  BY <2>1, <2>2
  <1>20. FreshCall'
    <2>1. obj'[call'].last = second' /\ second' \in Nat /\ pulse'.last <= second'
      BY <1>1, <1>2, <1>11, <1>12 DEF LiveInv, CallTypes
    <2>2. second' - second' <= Touch
      BY <2>1, LiveCallAssumption
    <2> QED  BY <2>1, <2>2 DEF FreshCall
  <1>21. AliveKept'
    <2>1. obj'[call'].last = second /\ call' # 0 /\ alive' = second /\ up' /\ second \in Nat
      BY <1>1, <1>2, <1>5, <1>6, <1>11, <1>12 DEF LiveInv, CallTypes
    <2> QED  BY <2>1, LiveCallAssumption DEF AliveKept
  <1>22. FileInv'
    BY <1>1, ListingKeepsFile DEF LiveInv
  <1> QED  BY <1>1, <1>6, <1>17, <1>19, <1>20, <1>21, <1>22 DEF LiveInv, PresentInv, Down

LEMMA ReaderKeeps ==
    ASSUME LiveInv, NEW s \in Sockets, NEW graceful \in BOOLEAN, ReaderEnds(s, graceful)
    PROVE  LiveInv'
  <1> DEFINE new == [sock[s] EXCEPT !.at = "left", !.graceful = graceful]
  <1>1. /\ sock[s].at = "live" /\ sock' = [sock EXCEPT ![s] = new]
        /\ UNCHANGED <<second, up, inHub, live, saving, pulse, past>>
    BY DEF ReaderEnds
  <1>2. sock[s] \in SockRec
    BY DEF LiveInv, CallTypes
  <1>3. new \in SockRec /\ new.at = "left" /\ new.tab = sock[s].tab
    BY <1>2 DEF SockRec
  <1> HIDE DEF new
  <1>4. sock' \in [Sockets -> SockRec]
    BY <1>1, <1>3 DEF LiveInv, CallTypes
  <1>5. CallTypes'
    BY <1>1, <1>4 DEF LiveInv, CallTypes, live, saving, past
  <1>6. \A o \in Present' : o \in Present /\ sock'[o].tab = sock[o].tab
    BY <1>1, <1>3 DEF Present, LiveInv, CallTypes
  <1>7. PresentInv'
    BY <1>1, <1>6, PresentShrinks DEF LiveInv, past
  <1>8. FileInv' /\ AliveKept'
    BY <1>1, QuietKeepsFile, QuietKeepsAlive DEF LiveInv, saving, past
  <1>9. up
    BY <1>1 DEF LiveInv, Down, Hung
  <1> QED  BY <1>1, <1>5, <1>7, <1>8, <1>9 DEF LiveInv, Down

LEMMA LeaveKeeps ==
    ASSUME LiveInv, NEW s \in Sockets, HubLeave(s) \/ Kick(s)
    PROVE  LiveInv'
  <1>1. /\ UNCHANGED <<second, up, live, saving, pulse, past>> /\ inHub' = inHub \ {s}
        /\ sock' = sock \/ sock' = [sock EXCEPT ![s].at = "gone"]
    BY DEF HubLeave, Kick
  <1>2. /\ sock' \in [Sockets -> SockRec]
        /\ \A o \in Sockets : sock'[o].tab = sock[o].tab /\ (o # s => sock'[o] = sock[o])
    <2>1. CASE sock' = sock
      BY <2>1 DEF LiveInv, CallTypes
    <2>2. CASE sock' = [sock EXCEPT ![s].at = "gone"]
      BY <2>2, SockMoves DEF LiveInv
    <2> QED  BY <1>1, <2>1, <2>2
  <1>3. CallTypes'
    BY <1>1, <1>2 DEF LiveInv, CallTypes, live, saving, past
  <1>4. \A o \in Present' : o \in Present /\ sock'[o].tab = sock[o].tab
    BY <1>1, <1>2 DEF Present, LiveInv, CallTypes
  <1>5. PresentInv'
    BY <1>1, <1>4, PresentShrinks DEF LiveInv, past
  <1>6. FileInv' /\ AliveKept'
    BY <1>1, QuietKeepsFile, QuietKeepsAlive DEF LiveInv, saving, past
  <1>7. up
    BY DEF HubLeave, Kick, LiveInv, Down, Hung
  <1> QED  BY <1>1, <1>3, <1>5, <1>6, <1>7 DEF LiveInv, Down

LEMMA GoneKeeps == ASSUME LiveInv, NEW s \in Sockets, onPeerGone(s) PROVE LiveInv'
  <1> DEFINE c == sock[s].tab
             rest == obj[call].who \ {c}
             quiet == call = 0 \/ ~Leaves(sock[s].graceful)
  <1>1. /\ sock[s].at = "gone" /\ sock' = [sock EXCEPT ![s] = Hung]
        /\ UNCHANGED <<second, up, inHub, callFile, pulse, behind>>
    BY DEF onPeerGone
  <1>2. Hung \in SockRec /\ Hung.at = "off"
    BY DEF Hung, SockRec
  <1>3. /\ sock' \in [Sockets -> SockRec] /\ sock'[s].at = "off"
        /\ \A o \in Sockets \ {s} : sock'[o] = sock[o]
    BY <1>1, <1>2 DEF LiveInv, CallTypes
  <1>4. \A o \in Present' : o \in Present /\ o # s /\ sock'[o].tab = sock[o].tab
    BY <1>1, <1>3 DEF Present, LiveInv, CallTypes
  <1>5. up
    BY <1>1 DEF LiveInv, Down, Hung
  <1>6. CASE quiet
    <2>1. /\ UNCHANGED <<call, obj, alive, crossed>>
          /\ UNCHANGED <<save, overtook>> \/ CallsListed(s)
      BY <1>6 DEF onPeerGone
    <2>2. save' \in [Procs -> [at : {"idle", "listed"}, list : DOMAIN obj' \cup {0}]]
      BY <2>1, SaveTypes DEF LiveInv, CallTypes
    <2>3. CallTypes'
      BY <1>1, <1>3, <2>1, <2>2 DEF LiveInv, CallTypes
    <2>4. PresentInv'
      BY <1>1, <1>4, <2>1, PresentShrinks DEF LiveInv, live
    <2>5. FileInv'
      BY <1>1, <2>1, QuietKeepsFile, ListingKeepsFile DEF LiveInv, live
    <2>6. AliveKept'
      BY <1>1, <2>1, QuietKeepsAlive DEF LiveInv, live, past
    <2> QED  BY <1>1, <1>5, <2>3, <2>4, <2>5, <2>6 DEF LiveInv, Down
  <1>7. CASE ~quiet
    <2>1. /\ call # 0 /\ sock[s].graceful /\ CallsListed(s)
          /\ obj' = [obj EXCEPT ![call] = [last |-> second, who |-> rest]]
          /\ call' = IF rest = {} THEN 0 ELSE call
      BY <1>7 DEF onPeerGone, Leaves
    <2>2. alive' = IF rest = {} THEN -1 ELSE alive
      BY <1>7, <2>1 DEF onPeerGone
    <2>3. crossed' = (crossed \/ \E o \in Present : sock[o].tab = c)
      BY <1>7, Zenon DEF onPeerGone
    <2>4. call \in DOMAIN obj /\ obj[call].who \subseteq Tabs \cup {NoTab} /\ second \in Nat
      BY <2>1 DEF LiveInv, CallTypes
    <2> HIDE DEF rest
    <2>5. rest \subseteq Tabs \cup {NoTab}
      BY <2>4 DEF rest
    <2>6. /\ DOMAIN obj' = DOMAIN obj
          /\ obj'[call] = [last |-> second, who |-> rest]
          /\ \A k \in DOMAIN obj' : obj'[k] \in [last : Nat, who : SUBSET (Tabs \cup {NoTab})]
      BY <2>1, <2>4, <2>5 DEF LiveInv, CallTypes
    <2>7. obj'[call].last = second /\ obj'[call].who = rest
      BY <2>6
    <2>8. save' \in [Procs -> [at : {"idle", "listed"}, list : DOMAIN obj' \cup {0}]]
      BY <2>1, <2>4, <2>6, SaveTypes DEF LiveInv
    <2>9. CallTypes'
      <3>1. /\ second' \in Nat /\ alive' \in Int /\ alive' <= second' /\ inHub' \subseteq Sockets
            /\ pulse' \in [at : {"idle", "read"}, occupied : BOOLEAN, last : Nat]
            /\ pulse'.last <= second'
        BY <1>1, <2>2 DEF LiveInv, CallTypes
      <3>2. call' \in DOMAIN obj' \cup {0}
        BY <2>1, <2>4, <2>6
      <3>3. \E n \in Nat : DOMAIN obj' = 1..n
        BY <2>6 DEF LiveInv, CallTypes
      <3>4. callFile' \in [id : DOMAIN obj' \cup {0}, last : Nat, who : SUBSET (Tabs \cup {NoTab})]
        BY <1>1, <2>6 DEF LiveInv, CallTypes
      <3> QED  BY <1>3, <2>6, <2>8, <3>1, <3>2, <3>3, <3>4 DEF CallTypes
    <2>10. ASSUME NEW o \in Present', ~crossed'
           PROVE  rest # {} /\ sock[o].tab \in rest /\ ~crossed
      BY <1>4, <2>3, <2>10 DEF LiveInv, PresentInv, HasCall, rest
    <2>11. HasCall'
      BY <1>4, <2>1, <2>7, <2>10 DEF HasCall
    <2>12. FreshCall'
      <3> SUFFICES ASSUME Present' # {}, ~crossed' PROVE FreshCall'
        BY DEF FreshCall
      <3>1. call' = call
        BY <2>1, <2>10
      <3>2. obj'[call'].last = second' /\ second' \in Nat /\ pulse'.last <= second'
        BY <1>1, <2>4, <2>7, <3>1 DEF LiveInv, CallTypes
      <3>3. \A t \in Nat : t - t <= Touch
        BY LiveCallAssumption
      <3> QED  BY <3>2, <3>3 DEF FreshCall
    <2>13. AliveKept'
      <3>1. CASE rest = {}
        BY <2>2, <3>1 DEF AliveKept
      <3>2. CASE rest # {}
        <4>1. /\ call' = call /\ call' # 0 /\ alive' = alive /\ up' /\ obj'[call'].last = second
              /\ alive \in Int /\ alive <= second
          BY <1>1, <1>5, <2>1, <2>2, <2>7, <3>2 DEF LiveInv, CallTypes
        <4>2. second >= alive - Touch
          BY <2>4, <4>1, LiveCallAssumption
        <4> QED  BY <4>1, <4>2 DEF AliveKept
      <3> QED  BY <3>1, <3>2
    <2>14. FileInv'
      BY <2>1, ListingKeepsFile DEF LiveInv
    <2> QED  BY <1>1, <1>5, <2>9, <2>11, <2>12, <2>13, <2>14 DEF LiveInv, PresentInv, Down
  <1> QED  BY <1>6, <1>7

LEMMA StoreKeeps == ASSUME LiveInv, NEW p \in Procs, CallsStored(p) PROVE LiveInv'
  <1> DEFINE f == Marshalled(save[p].list)
  <1>1. /\ save[p].at = "listed" /\ callFile' = f /\ save' = [save EXCEPT ![p] = NoSave]
        /\ UNCHANGED <<second, up, sock, inHub, live, overtook, pulse, past>>
    BY DEF CallsStored
  <1>2. save[p].list \in DOMAIN obj \cup {0} /\ call \in DOMAIN obj \cup {0} /\ 0 \notin DOMAIN obj
    BY DEF LiveInv, CallTypes
  <1>3. /\ f \in [id : DOMAIN obj \cup {0}, last : Nat, who : SUBSET (Tabs \cup {NoTab})]
        /\ save[p].list # 0 => f.id = save[p].list /\ f.last = obj[save[p].list].last
    BY <1>2 DEF Marshalled, LiveInv, CallTypes
  <1> HIDE DEF f
  <1>4. NoSave \in [at : {"idle", "listed"}, list : DOMAIN obj \cup {0}] /\ NoSave.at = "idle"
    BY DEF NoSave
  <1>5. /\ save' \in [Procs -> [at : {"idle", "listed"}, list : DOMAIN obj \cup {0}]]
        /\ save'[p] = NoSave /\ \A q \in Procs \ {p} : save'[q] = save[q]
    BY <1>1, <1>4 DEF LiveInv, CallTypes
  <1>6. CallTypes'
    BY <1>1, <1>3, <1>5 DEF LiveInv, CallTypes, live, past
  <1>7. \A o \in Present' : o \in Present /\ sock'[o].tab = sock[o].tab
    BY <1>1 DEF Present
  <1>8. PresentInv'
    BY <1>1, <1>7, PresentShrinks DEF LiveInv, past
  <1>9. up
    BY <1>1 DEF LiveInv, Down, NoSave
  <1>10. AliveKept'
    BY <1>1, <1>9 DEF LiveInv, AliveKept, live, past
  <1>11. FileInv'
    <2> SUFFICES ASSUME ~overtook PROVE FileInv'
      BY <1>1 DEF FileInv
    <2>1. save[p].list = call /\ \A q \in Procs \ {p} : save[q].at # "listed"
      BY <1>1 DEF LiveInv, FileInv
    <2>2. call # 0 => callFile'.id = call /\ callFile'.last = obj[call].last
      BY <1>1, <1>3, <2>1
    <2> QED  BY <1>1, <1>4, <1>5, <2>1, <2>2 DEF FileInv, live
  <1> QED  BY <1>1, <1>6, <1>8, <1>9, <1>10, <1>11 DEF LiveInv, Down

LEMMA ReadKeeps == ASSUME LiveInv, PulseReads PROVE LiveInv'
  <1>1. /\ up /\ pulse' = [pulse EXCEPT !.at = "read", !.occupied = inHub # {}]
        /\ UNCHANGED <<second, up, sock, inHub, live, saving, past>>
    BY DEF PulseReads
  <1>2. pulse \in [at : {"idle", "read"}, occupied : BOOLEAN, last : Nat]
    BY DEF LiveInv, CallTypes
  <1>3. /\ pulse' \in [at : {"idle", "read"}, occupied : BOOLEAN, last : Nat]
        /\ pulse'.last = pulse.last
    BY <1>1, <1>2
  <1>4. ~pulse'.occupied => inHub = {}
    BY <1>1, <1>2
  <1>5. CallTypes'
    BY <1>1, <1>3 DEF LiveInv, CallTypes, live, saving, past
  <1>6. Present' = Present
    BY <1>1 DEF Present
  <1>7. Present # {} => pulse'.occupied
    BY <1>4 DEF Present
  <1>8. HasCall'
    BY <1>1, <1>6 DEF LiveInv, PresentInv, HasCall, live, past
  <1>9. FreshCall'
    BY <1>1, <1>3, <1>6, <1>7 DEF LiveInv, PresentInv, FreshCall, live, past
  <1>10. FileInv' /\ AliveKept'
    BY <1>1, QuietKeepsFile, QuietKeepsAlive DEF LiveInv, saving, past
  <1> QED  BY <1>1, <1>5, <1>8, <1>9, <1>10 DEF LiveInv, PresentInv, Down

LEMMA TouchKeeps == ASSUME LiveInv, PulseTouches PROVE LiveInv'
  <1>1. /\ pulse.at = "read" /\ pulse' = [at |-> "idle", occupied |-> FALSE, last |-> second]
        /\ UNCHANGED <<second, up, sock, inHub, callFile, past>>
    BY DEF PulseTouches
  <1>2. second \in Nat /\ alive \in Int /\ (\A k \in DOMAIN obj : obj[k].last \in Nat)
        /\ Touch \in Nat /\ Grace \in Nat /\ Touch < Grace
    BY LiveCallAssumption DEF LiveInv, CallTypes
  <1>3. /\ pulse' \in [at : {"idle", "read"}, occupied : BOOLEAN, last : Nat]
        /\ pulse'.last = second /\ pulse'.at = "idle" /\ pulse'.last <= second'
    BY <1>1, <1>2
  <1>4. Present' = Present /\ crossed' = crossed /\ alive' = alive /\ behind' = behind
    BY <1>1 DEF Present, past
  <1>5. CASE call # 0 /\ pulse.occupied
    <2> DEFINE rec == [obj[call] EXCEPT !.last = second]
    <2>1. call' = call /\ obj' = [obj EXCEPT ![call] = rec] /\ CallsListed(Beat)
      BY <1>5 DEF PulseTouches, Freshened
    <2>2. call \in DOMAIN obj /\ obj[call] \in [last : Nat, who : SUBSET (Tabs \cup {NoTab})]
      BY <1>5 DEF LiveInv, CallTypes
    <2>3. rec \in [last : Nat, who : SUBSET (Tabs \cup {NoTab})]
          /\ rec.last = second /\ rec.who = obj[call].who
      BY <1>2, <2>2
    <2> HIDE DEF rec
    <2>4. /\ DOMAIN obj' = DOMAIN obj /\ obj'[call] = rec
          /\ \A k \in DOMAIN obj' : obj'[k] \in [last : Nat, who : SUBSET (Tabs \cup {NoTab})]
      BY <2>1, <2>2, <2>3 DEF LiveInv, CallTypes
    <2>5. save' \in [Procs -> [at : {"idle", "listed"}, list : DOMAIN obj' \cup {0}]]
      BY <2>1, <2>2, <2>4, SaveTypes DEF LiveInv
    <2>6. CallTypes'
      BY <1>1, <1>2, <1>3, <2>1, <2>2, <2>4, <2>5 DEF LiveInv, CallTypes, past
    <2>7. HasCall'
      BY <1>1, <1>4, <2>1, <2>3, <2>4 DEF LiveInv, PresentInv, HasCall
    <2>8. FreshCall'
      <3>1. obj'[call'].last = second /\ second - second <= Touch /\ second >= second
        BY <1>2, <2>1, <2>3, <2>4
      <3> QED  BY <1>1, <1>3, <3>1 DEF FreshCall
    <2>9. up
      BY <1>5 DEF LiveInv, Down
    <2>10. AliveKept'
      <3>1. second >= alive - Touch
        BY <1>2 DEF LiveInv, CallTypes
      <3>2. obj'[call'].last = second /\ call' # 0
        BY <1>5, <2>1, <2>3, <2>4
      <3> QED  BY <1>1, <1>4, <2>9, <3>1, <3>2 DEF AliveKept
    <2>11. FileInv'
      BY <2>1, ListingKeepsFile DEF LiveInv
    <2> QED  BY <1>1, <2>6, <2>7, <2>8, <2>9, <2>10, <2>11 DEF LiveInv, PresentInv, Down
  <1>6. CASE call # 0 /\ ~pulse.occupied /\ CallExpired(call)
    <2>1. call' = 0 /\ obj' = obj /\ CallsListed(Beat)
      BY <1>6 DEF PulseTouches
    <2>2. call \in DOMAIN obj /\ second - obj[call].last > Grace
      BY <1>6 DEF LiveInv, CallTypes, CallExpired
    <2>3. save' \in [Procs -> [at : {"idle", "listed"}, list : DOMAIN obj' \cup {0}]]
      BY <2>1, SaveTypes DEF LiveInv
    <2>4. CallTypes'
      <3>1. second' \in Nat /\ alive' \in Int /\ alive' <= second' /\ callFile' = callFile
            /\ sock' = sock /\ inHub' = inHub
        BY <1>1, <1>2, <1>4 DEF LiveInv, CallTypes
      <3> QED  BY <1>3, <2>1, <2>3, <3>1 DEF LiveInv, CallTypes
    <2>5. Present = {} \/ crossed
      BY <1>2, <2>2 DEF LiveInv, PresentInv, FreshCall
    <2>6. PresentInv'
      BY <1>4, <2>5 DEF PresentInv, HasCall, FreshCall
    <2>7. up
      BY <1>6 DEF LiveInv, Down
    <2>8. AliveKept'
      <3>1. obj[call].last >= alive - Touch => second - alive > Grace - Touch
        BY <1>2, <2>2
      <3> QED  BY <1>1, <1>4, <2>7, <3>1 DEF LiveInv, AliveKept
    <2>9. FileInv'
      BY <2>1, ListingKeepsFile DEF LiveInv
    <2> QED  BY <1>1, <2>4, <2>6, <2>7, <2>8, <2>9 DEF LiveInv, Down
  <1>7. CASE ~(call # 0 /\ (pulse.occupied \/ CallExpired(call)))
    <2>1. UNCHANGED <<live, save, overtook>>
      BY <1>7 DEF PulseTouches
    <2>2. CallTypes'
      <3>1. second' \in Nat /\ alive' \in Int /\ alive' <= second' /\ callFile' = callFile
            /\ sock' = sock /\ inHub' = inHub
        BY <1>1, <1>2, <1>4 DEF LiveInv, CallTypes
      <3> QED  BY <1>3, <2>1, <3>1 DEF LiveInv, CallTypes, live
    <2>3. HasCall'
      BY <1>1, <1>4, <2>1 DEF LiveInv, PresentInv, HasCall, live
    <2>4. FreshCall'
      <3> SUFFICES ASSUME Present # {}, ~crossed PROVE FreshCall'
        BY <1>4 DEF FreshCall
      <3>1. call # 0 /\ obj[call].last = second
        BY <1>1, <1>7 DEF LiveInv, PresentInv, HasCall, FreshCall
      <3>2. second - second <= Touch /\ second >= second
        BY <1>2
      <3> QED  BY <1>1, <1>3, <2>1, <3>1, <3>2 DEF FreshCall, live
    <2>5. FileInv' /\ AliveKept'
      BY <1>1, <2>1, QuietKeepsFile, QuietKeepsAlive DEF LiveInv
    <2> QED  BY <1>1, <2>1, <2>2, <2>3, <2>4, <2>5 DEF LiveInv, PresentInv, Down, live
  <1> QED  BY <1>5, <1>6, <1>7

LEMMA DeathKeeps == ASSUME LiveInv, Dies PROVE LiveInv'
  <1>1. /\ up /\ ~up' /\ sock' = [s \in Sockets |-> Hung] /\ inHub' = {} /\ call' = 0
        /\ save' = [p \in DOMAIN save |-> NoSave]
        /\ pulse' = [pulse EXCEPT !.at = "idle", !.occupied = FALSE]
        /\ UNCHANGED <<second, obj, callFile, overtook, alive, crossed>>
    BY DEF Dies
  <1>2. behind' = (behind \/ overtook \/ ~Settled)
    BY Zenon DEF Dies
  <1>3. DOMAIN save = Procs
    BY DEF LiveInv, CallTypes
  <1>4. /\ NoSave \in [at : {"idle", "listed"}, list : DOMAIN obj \cup {0}] /\ NoSave.at = "idle"
        /\ Hung \in SockRec
    BY DEF NoSave, Hung, SockRec
  <1>5. /\ save' \in [Procs -> [at : {"idle", "listed"}, list : DOMAIN obj \cup {0}]]
        /\ sock' \in [Sockets -> SockRec] /\ \A p \in Procs : save'[p] = NoSave
    BY <1>1, <1>3, <1>4
  <1>6. pulse' \in [at : {"idle", "read"}, occupied : BOOLEAN, last : Nat] /\ pulse'.last = pulse.last
    BY <1>1 DEF LiveInv, CallTypes
  <1>7. CallTypes'
    BY <1>1, <1>5, <1>6 DEF LiveInv, CallTypes
  <1>8. Down'
    BY <1>1, <1>5 DEF Down
  <1>9. PresentInv'
    BY <1>1 DEF PresentInv, HasCall, FreshCall, Present
  <1>10. FileInv'
    BY <1>1, <1>4, <1>5 DEF FileInv
  <1>11. AliveKept'
    <2> SUFFICES ASSUME ~crossed, ~behind', alive # -1, ~(second - alive > Grace - Touch)
                 PROVE  callFile.id # 0 /\ callFile.last >= alive - Touch
      BY <1>1 DEF AliveKept
    <2>1. ~behind /\ ~overtook /\ Settled
      BY <1>2
    <2>2. call # 0 /\ obj[call].last >= alive - Touch
      BY <1>1, <2>1 DEF LiveInv, AliveKept
    <2>3. NoneListed
      BY <1>3, <2>1 DEF NoneListed, Settled
    <2> QED  BY <2>1, <2>2, <2>3 DEF LiveInv, FileInv
  <1> QED  BY <1>7, <1>8, <1>9, <1>10, <1>11 DEF LiveInv

LEMMA LoadKeeps == ASSUME LiveInv, LoadCalls PROVE LiveInv'
  <1> DEFINE rec == [last |-> callFile.last, who |-> callFile.who]
             fresh == callFile.id # 0 /\ second - callFile.last <= Grace
  <1>1. /\ ~up /\ up' /\ pulse' = [pulse EXCEPT !.last = second]
        /\ UNCHANGED <<second, sock, inHub, saving, past>>
        /\ fresh => call' = callFile.id /\ obj' = [obj EXCEPT ![callFile.id] = rec]
        /\ ~fresh => call' = call /\ obj' = obj
    BY DEF LoadCalls
  <1>2. inHub = {} /\ call = 0 /\ \A p \in Procs : save[p] = NoSave
    BY <1>1 DEF LiveInv, Down
  <1>3. /\ callFile.id \in DOMAIN obj \cup {0} /\ callFile.last \in Nat
        /\ callFile.who \subseteq Tabs \cup {NoTab}
    BY DEF LiveInv, CallTypes
  <1>4. rec \in [last : Nat, who : SUBSET (Tabs \cup {NoTab})] /\ rec.last = callFile.last
    BY <1>3
  <1> HIDE DEF rec, fresh
  <1>5. /\ DOMAIN obj' = DOMAIN obj /\ call' \in DOMAIN obj \cup {0}
        /\ \A k \in DOMAIN obj' : obj'[k] \in [last : Nat, who : SUBSET (Tabs \cup {NoTab})]
        /\ call' # 0 => fresh /\ call' = callFile.id /\ obj'[call'].last = callFile.last
    BY <1>1, <1>2, <1>3, <1>4 DEF LiveInv, CallTypes, fresh
  <1>6. pulse' \in [at : {"idle", "read"}, occupied : BOOLEAN, last : Nat] /\ pulse'.last = second
    BY <1>1 DEF LiveInv, CallTypes
  <1>7. CallTypes'
    <2>1. second \in Nat /\ alive' \in Int /\ alive' <= second' /\ sock' \in [Sockets -> SockRec]
          /\ second <= second
      BY <1>1 DEF LiveInv, CallTypes, past
    <2>2. save' \in [Procs -> [at : {"idle", "listed"}, list : DOMAIN obj' \cup {0}]]
          /\ callFile' \in [id : DOMAIN obj' \cup {0}, last : Nat, who : SUBSET (Tabs \cup {NoTab})]
      BY <1>1, <1>5 DEF LiveInv, CallTypes, saving
    <2>3. \E n \in Nat : DOMAIN obj' = 1..n
      BY <1>5 DEF LiveInv, CallTypes
    <2> QED  BY <1>1, <1>2, <1>5, <1>6, <2>1, <2>2, <2>3 DEF CallTypes
  <1>8. PresentInv'
    BY <1>1, <1>2 DEF PresentInv, HasCall, FreshCall, Present
  <1>9. FileInv'
    BY <1>1, <1>2, <1>5 DEF FileInv, saving, NoSave
  <1>10. AliveKept'
    <2> SUFFICES ASSUME ~crossed, ~behind, alive # -1, ~(second - alive > Grace - Touch)
                 PROVE  call' # 0 /\ obj'[call'].last >= alive - Touch
      BY <1>1 DEF AliveKept, past
    <2>1. callFile.id # 0 /\ callFile.last >= alive - Touch
      BY <1>1 DEF LiveInv, AliveKept
    <2>2. second - callFile.last <= Grace
      BY <1>3, <2>1, LiveCallAssumption DEF LiveInv, CallTypes
    <2>3. fresh
      BY <2>1, <2>2 DEF fresh
    <2> QED  BY <1>1, <1>5, <2>1, <2>3
  <1>11. Down'
    BY <1>1 DEF Down
  <1> QED  BY <1>7, <1>8, <1>9, <1>10, <1>11 DEF LiveInv

LEMMA SecondKeeps == ASSUME LiveInv, Second PROVE LiveInv'
  <1>1. /\ second' = second + 1 /\ alive' = IF Present # {} THEN second' ELSE alive
        /\ up => pulse.at = "idle" /\ second - pulse.last < Touch
        /\ UNCHANGED <<up, sock, inHub, live, saving, pulse, crossed, behind>>
    BY DEF Second
  <1>2. /\ second \in Nat /\ alive \in Int /\ alive <= second /\ pulse.last \in Nat
        /\ call \in DOMAIN obj \cup {0} /\ (\A k \in DOMAIN obj : obj[k].last \in Nat)
        /\ callFile.last \in Nat
        /\ Touch \in Nat /\ Grace \in Nat /\ pulse.last <= second
    BY LiveCallAssumption DEF LiveInv, CallTypes
  <1>3. CallTypes'
    <2>1. second' \in Nat /\ alive' \in Int /\ alive' <= second' /\ pulse'.last <= second'
      BY <1>1, <1>2
    <2> QED  BY <1>1, <2>1 DEF LiveInv, CallTypes, live, saving
  <1>4. Present' = Present
    BY <1>1 DEF Present
  <1>5. HasCall'
    BY <1>1, <1>4 DEF LiveInv, PresentInv, HasCall, live
  <1>6. Present # {} => up
    BY DEF Present, LiveInv, Down
  <1>7. Present # {} /\ ~crossed =>
          /\ call # 0 /\ obj[call].last >= pulse.last
          /\ second' - obj[call].last <= Touch /\ pulse.at = "idle"
    BY <1>1, <1>2, <1>6 DEF LiveInv, PresentInv, HasCall, FreshCall
  <1>8. FreshCall'
    BY <1>1, <1>4, <1>7 DEF FreshCall, live
  <1>9. FileInv' /\ Down'
    BY <1>1, QuietKeepsFile DEF LiveInv, Down, saving, live
  <1>10. AliveKept'
    <2>1. CASE Present # {} /\ ~crossed
      <3>1. up' /\ call' # 0 /\ obj'[call'].last >= alive' - Touch
        BY <1>1, <1>2, <1>6, <1>7, <2>1 DEF live
      <3> QED  BY <3>1 DEF AliveKept
    <2>2. CASE Present = {}
      <3>1. alive' = alive /\ (second - alive > Grace - Touch => second' - alive > Grace - Touch)
        BY <1>1, <1>2, <2>2
      <3> QED  BY <1>1, <3>1 DEF LiveInv, AliveKept, live, saving
    <2>3. CASE crossed
      BY <1>1, <2>3 DEF AliveKept
    <2> QED  BY <2>1, <2>2, <2>3
  <1> QED  BY <1>3, <1>5, <1>8, <1>9, <1>10 DEF LiveInv, PresentInv

LEMMA StutterKeeps == ASSUME LiveInv, UNCHANGED liveCallVars PROVE LiveInv'
  <1>1. Present' = Present
    BY DEF liveCallVars, Present
  <1>2. PresentInv'
    BY <1>1, PresentShrinks DEF LiveInv, liveCallVars, past
  <1>3. FileInv' /\ AliveKept'
    BY QuietKeepsFile, QuietKeepsAlive DEF LiveInv, liveCallVars, saving
  <1>4. CallTypes' /\ Down'
    BY DEF LiveInv, CallTypes, Down, liveCallVars, live, saving, past
  <1> QED  BY <1>2, <1>3, <1>4 DEF LiveInv

LEMMA LiveHolds == LiveCallSpec => []LiveInv
  <1>1. LiveCallInit => LiveInv
    <2> SUFFICES ASSUME LiveCallInit PROVE LiveInv
      OBVIOUS
    <2>1. DOMAIN obj = 1..0
      BY DEF LiveCallInit
    <2>2. CallTypes
      <3>1. Hung \in SockRec /\ NoSave \in [at : {"idle", "listed"}, list : DOMAIN obj \cup {0}]
        BY DEF Hung, NoSave, SockRec
      <3>2. \E n \in Nat : DOMAIN obj = 1..n
        BY <2>1
      <3> QED  BY <2>1, <3>1, <3>2 DEF LiveCallInit, CallTypes
    <2>3. NoneListed
      BY DEF LiveCallInit, NoneListed, NoSave
    <2> QED
      BY <2>2, <2>3 DEF LiveCallInit, LiveInv, Down, PresentInv, HasCall, FreshCall, Present,
         AliveKept, FileInv, NoneListed
  <1>2. ASSUME LiveInv, [LiveCallNext]_liveCallVars PROVE LiveInv'
    BY <1>2, JoinKeeps, AnnounceKeeps, ReaderKeeps, LeaveKeeps, GoneKeeps, StoreKeeps,
       ReadKeeps, TouchKeeps, DeathKeeps, LoadKeeps, SecondKeeps, StutterKeeps DEF LiveCallNext
  <1> QED  BY <1>1, <1>2, PTL DEF LiveCallSpec

(* While somebody is in a call the registry has it, as fresh as the period of
   the heartbeat, for any number of tabs and sockets, every grace and every
   period shorter than it.                                                 *)
THEOREM OccupiedIsLive == LiveCallSpec => []OccupiedHasCall
  <1>1. LiveInv => OccupiedHasCall
    BY DEF LiveInv, PresentInv, HasCall, FreshCall, OccupiedHasCall
  <1> QED  BY <1>1, LiveHolds, PTL

(* A join rings only for a call that is over, with a margin of one heartbeat
   in the grace, restarts of the panel included: the call somebody was in is
   carried by the registry, and by the file while the process is down.     *)
THEOREM OnlyNewCallsRing == LiveCallSpec => RingsAreNew
  <1>1. ASSUME LiveInv, [LiveCallNext]_liveCallVars, DOMAIN obj' # DOMAIN obj
        PROVE  crossed \/ behind \/ alive = -1 \/ second - alive > Grace - Touch
    <2>1. CASE \E s \in Sockets : announceJoin(s)
      <3>1. PICK s \in Sockets : announceJoin(s)
        BY <2>1
      <3> DEFINE c == IF liveLocked # 0 THEN liveLocked ELSE NewCall
      <3>2. DOMAIN obj' = DOMAIN obj \cup {c}
        BY <3>1 DEF announceJoin
      <3>3. liveLocked = 0
        BY <1>1, <3>2 DEF liveLocked, LiveInv, CallTypes
      <3>4. up
        BY <1>1, <3>1 DEF announceJoin, LiveInv, Down, Hung
      <3>5. call = 0 \/ second - obj[call].last > Grace
        BY <3>3 DEF liveLocked, CallExpired
      <3>6. /\ second \in Nat /\ alive \in Int /\ call \in DOMAIN obj \cup {0}
            /\ (\A k \in DOMAIN obj : obj[k].last \in Nat) /\ Touch \in Nat /\ Grace \in Nat
        BY <1>1, LiveCallAssumption DEF LiveInv, CallTypes
      <3>7. call # 0 /\ obj[call].last >= alive - Touch => second - alive > Grace - Touch
        BY <3>5, <3>6
      <3> QED  BY <1>1, <3>4, <3>7 DEF LiveInv, AliveKept
    <2>2. CASE ~ \E s \in Sockets : announceJoin(s)
      <3>1. DOMAIN obj' = DOMAIN obj
        BY <1>1, <2>2 DEF LiveCallNext, Join, HubLeave, Kick, onPeerGone, ReaderEnds, CallsStored,
           PulseReads, PulseTouches, Freshened, Dies, LoadCalls, Second, live, liveCallVars
      <3> QED  BY <1>1, <3>1
    <2> QED  BY <2>1, <2>2
  <1> QED  BY <1>1, LiveHolds, PTL DEF LiveCallSpec, RingsAreNew
=============================================================================
