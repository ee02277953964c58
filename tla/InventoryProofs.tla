-------------------------- MODULE InventoryProofs ---------------------------
(* Proofs about Inventory for any set of guests, any number of requests to   *)
(* revoke that overlap, and every bound on failures and foreign writers.     *)
EXTENDS Inventory, TLAPS

Keyring == [Guests -> Nat]
NodeRec == [at : Nat, gone : Nat, token : BOOLEAN, revogada : BOOLEAN]
PollerRec == [at : {"idle", "asked", "answered", "read", "stamped", "loaded"}, agora : Nat,
              seen : SUBSET Guests, data : Keyring]
RevokerStages == {"idle", "delete", "confirm", "vault", "save", "stamp", "saveMeta", "stampMeta",
                  "recheck", "mark"}
RevokerRec == [at : RevokerStages, node : SUBSET Guests, secret : Nat]
CliRec == [at : {"idle", "created", "opened", "saved"}, node : SUBSET Guests, secret : Nat,
           data : Keyring]

InventoryTypes ==
    /\ instant \in Nat /\ listed \subseteq Guests /\ left \in Keyring
    /\ live \in Keyring /\ secrets \in Nat /\ vault \in Keyring /\ mapped \in Keyring
    /\ nodes \in [Guests -> NodeRec] /\ poller \in PollerRec
    /\ revoker \in [Revokers -> RevokerRec] /\ cli \in CliRec
    /\ revoked \subseteq Guests

LEMMA IdleTypes ==
    /\ NoKeys \in Keyring /\ NeverSeen \in NodeRec
    /\ PollerIdle \in PollerRec /\ RevokerIdle \in RevokerRec /\ CliIdle \in CliRec
    /\ PollerIdle.at = "idle" /\ RevokerIdle.at = "idle" /\ RevokerIdle.node = {}
    /\ CliIdle.at = "idle" /\ CliIdle.node = {}
  <1>1. NoKeys \in Keyring
    BY DEF NoKeys, Keyring
  <1> QED
    BY <1>1 DEF NeverSeen, PollerIdle, RevokerIdle, CliIdle, NodeRec, PollerRec, RevokerRec,
       RevokerStages, CliRec

(* The moves of a request to revoke.                                       *)
LEMMA StepMoves ==
    ASSUME InventoryTypes, NEW h \in Revokers, NEW at \in RevokerStages, Step(h, at)
    PROVE  /\ revoker' \in [Revokers -> RevokerRec]
           /\ revoker'[h].at = at /\ revoker'[h].node = revoker[h].node
           /\ revoker'[h].secret = revoker[h].secret
           /\ \A o \in Revokers \ {h} : revoker'[o] = revoker[o]
  <1>1. revoker \in [Revokers -> RevokerRec] /\ revoker[h] \in RevokerRec
    BY DEF InventoryTypes
  <1> DEFINE new == [revoker[h] EXCEPT !.at = at]
  <1>2. /\ new \in RevokerRec /\ new.at = at /\ new.node = revoker[h].node
        /\ new.secret = revoker[h].secret
    BY <1>1 DEF RevokerRec
  <1>3. revoker' = [revoker EXCEPT ![h] = new]
    BY DEF Step
  <1> HIDE DEF new
  <1> QED  BY <1>1, <1>2, <1>3

LEMMA AnswerMoves ==
    ASSUME InventoryTypes, NEW h \in Revokers, Answers(h)
    PROVE  /\ revoker' \in [Revokers -> RevokerRec] /\ revoker'[h] = RevokerIdle
           /\ \A o \in Revokers \ {h} : revoker'[o] = revoker[o]
BY IdleTypes DEF InventoryTypes, Answers

LEMMA NodeIsGuest ==
    ASSUME NEW h \in Revokers, NEW g \in Guests, revoker[h].node = {g}
    PROVE  Node(h) = g
BY DEF Node

(* Each request that is under way names its guest.                         *)
Named ==
    /\ \A h \in Revokers : IF revoker[h].at = "idle" THEN revoker[h].node = {}
                           ELSE \E g \in Guests : revoker[h].node = {g}
    /\ cli.at = "idle" => cli.node = {}

TypesInv == InventoryTypes /\ Named

(* A step that leaves the guest of every request as it is, or answers it.  *)
RequestKept(h) ==
    \/ revoker'[h] = RevokerIdle
    \/ revoker'[h] = revoker[h]
    \/ revoker'[h].node = revoker[h].node /\ revoker[h].at # "idle" /\ revoker'[h].at # "idle"

LEMMA RequestsNamed ==
    ASSUME TypesInv, \A h \in Revokers : RequestKept(h), cli' = cli \/ cli'.at # "idle" \/ cli' = CliIdle
    PROVE  Named'
BY IdleTypes DEF TypesInv, Named, RequestKept

LEMMA KeyOf ==
    ASSUME NEW f \in Keyring, NEW g \in Guests
    PROVE  f[g] \in Nat
BY DEF Keyring

-----------------------------------------------------------------------------
LEMMA PollerTypes ==
    ASSUME TypesInv, Tick \/ \E u \in BOOLEAN : DiscoveryFails(u)
    PROVE  TypesInv'
  <1>0. /\ poller \in PollerRec /\ instant \in Nat /\ listed \subseteq Guests /\ vault \in Keyring
        /\ mapped \in Keyring /\ nodes \in [Guests -> NodeRec]
    BY DEF TypesInv, InventoryTypes
  <1>1. /\ UNCHANGED <<instant, hypervisor, vault, revoker, cli>>
        /\ revoked' = revoked
    BY DEF Tick, TickBegins, ClusterResources, VaultUnchanged, ReloadReads, ReloadStamps,
       ReloadSwaps, TickReplaces, DiscoveryFails, vaults, ghosts
  <1>2. Named'
    BY <1>1, RequestsNamed DEF RequestKept
  <1>3. poller' \in PollerRec
    <2>1. CASE TickBegins
      BY <1>0, <2>1 DEF TickBegins, PollerRec
    <2>2. CASE ClusterResources
      BY <1>0, <2>2 DEF ClusterResources, PollerRec
    <2>3. CASE VaultUnchanged
      BY <1>0, <2>3 DEF VaultUnchanged, PollerRec
    <2>4. CASE ReloadReads
      BY <1>0, <2>4 DEF ReloadReads, PollerRec
    <2>5. CASE ReloadStamps
      BY <1>0, <2>5 DEF ReloadStamps, PollerRec
    <2>6. CASE ReloadSwaps
      BY <1>0, <2>6, IdleTypes DEF ReloadSwaps, PollerRec
    <2>7. CASE TickReplaces \/ \E u \in BOOLEAN : DiscoveryFails(u)
      BY <2>7, IdleTypes DEF TickReplaces, DiscoveryFails
    <2> QED  BY <2>1, <2>2, <2>3, <2>4, <2>5, <2>6, <2>7 DEF Tick
  <1>4. mapped' \in Keyring
    BY <1>0 DEF Tick, TickBegins, ClusterResources, VaultUnchanged, ReloadReads, ReloadStamps,
       ReloadSwaps, TickReplaces, DiscoveryFails, vaults, PollerRec
  <1>5. nodes' \in [Guests -> NodeRec]
    <2>1. CASE TickReplaces
      <3>1. ASSUME NEW g \in Guests
            PROVE  Credentialed(Discovered(nodes[g], g, poller), mapped[g]) \in NodeRec
        <4>1. nodes[g] \in NodeRec /\ poller.agora \in Nat
          BY <1>0 DEF PollerRec
        <4>2. Discovered(nodes[g], g, poller) \in NodeRec
          BY <4>1 DEF Discovered, Stamp, NodeRec
        <4>3. \A n \in NodeRec : \A b \in BOOLEAN :
                [n EXCEPT !.token = b, !.revogada = FALSE] \in NodeRec
          BY DEF NodeRec
        <4>4. (mapped[g] # 0) \in BOOLEAN
          OBVIOUS
        <4> QED  BY <4>2, <4>3, <4>4, Zenon DEF Credentialed
      <3> QED  BY <2>1, <3>1 DEF TickReplaces
    <2>2. CASE \E u \in BOOLEAN : DiscoveryFails(u)
      <3>1. PICK u \in BOOLEAN : DiscoveryFails(u)
        BY <2>2
      <3>2. nodes' = [g \in Guests |-> IF u /\ nodes[g] # NeverSeen
                                     THEN [nodes[g] EXCEPT !.revogada = TRUE] ELSE nodes[g]]
        BY <3>1 DEF DiscoveryFails
      <3>3. \A g \in Guests : [nodes[g] EXCEPT !.revogada = TRUE] \in NodeRec /\ nodes[g] \in NodeRec
        BY <1>0 DEF NodeRec
      <3> QED  BY <3>2, <3>3
    <2>3. CASE ~TickReplaces /\ ~ \E u \in BOOLEAN : DiscoveryFails(u)
      BY <1>0, <2>3 DEF Tick, TickBegins, ClusterResources, VaultUnchanged, ReloadReads, ReloadStamps,
         ReloadSwaps
    <2> QED  BY <2>1, <2>2, <2>3
  <1> QED
    BY <1>1, <1>2, <1>3, <1>4, <1>5 DEF TypesInv, InventoryTypes, hypervisor

LEMMA RevokeBeginsTypes ==
    ASSUME TypesInv, NEW h \in Revokers, NEW g \in Guests, RevokeBegins(h, g)
    PROVE  /\ TypesInv'
           /\ revoker'[h] = [at |-> "delete", node |-> {g}, secret |-> mapped[g]]
           /\ \A o \in Revokers \ {h} : revoker'[o] = revoker[o]
  <1> DEFINE new == [at |-> "delete", node |-> {g}, secret |-> mapped[g]]
  <1>1. /\ revoker' = [revoker EXCEPT ![h] = new]
        /\ UNCHANGED <<instant, hypervisor, vaults, nodes, poller, cli, revoked>>
    BY DEF RevokeBegins
  <1>2. new \in RevokerRec /\ new.at = "delete" /\ new.node = {g}
    BY KeyOf DEF TypesInv, InventoryTypes, RevokerRec, RevokerStages
  <1> HIDE DEF new
  <1>3. /\ revoker' \in [Revokers -> RevokerRec] /\ revoker'[h] = new
        /\ \A o \in Revokers \ {h} : revoker'[o] = revoker[o]
    BY <1>1, <1>2 DEF TypesInv, InventoryTypes
  <1>4. InventoryTypes'
    BY <1>1, <1>3 DEF TypesInv, InventoryTypes, hypervisor, vaults
  <1>5. Named'
    BY <1>1, <1>2, <1>3 DEF TypesInv, Named
  <1> QED  BY <1>3, <1>4, <1>5 DEF TypesInv, new

(* The steps of a request: it answers, or moves on with the same guest.    *)
Proceeds(h) ==
    \/ revoker'[h] = RevokerIdle
    \/ /\ revoker'[h].node = revoker[h].node /\ revoker[h].at # "idle" /\ revoker'[h].at # "idle"
       /\ revoker'[h].secret = revoker[h].secret \/ revoker'[h].at = "vault"

RevokeStep(h) ==
    \/ DeleteToken(h) \/ DeleteTokenFails(h) \/ Confirm(h) \/ VaultDelete(h)
    \/ VaultSaves(h) \/ VaultStamps(h) \/ Recheck(h) \/ Mark(h)

LEMMA RequestProceeds ==
    ASSUME TypesInv, NEW h \in Revokers, RevokeStep(h)
    PROVE  /\ revoker' \in [Revokers -> RevokerRec] /\ Proceeds(h) /\ revoker[h].at # "idle"
           /\ \A o \in Revokers \ {h} : revoker'[o] = revoker[o]
  <1> DEFINE Done == /\ revoker' \in [Revokers -> RevokerRec] /\ Proceeds(h) /\ revoker[h].at # "idle"
                     /\ \A o \in Revokers \ {h} : revoker'[o] = revoker[o]
  <1>0. revoker[h].at # "idle"
    BY DEF RevokeStep, DeleteToken, DeleteTokenFails, Confirm, VaultDelete, VaultSaves, VaultStamps,
       Recheck, Mark
  <1>1. ASSUME Answers(h) PROVE Done
    BY <1>0, <1>1, AnswerMoves DEF TypesInv, Proceeds
  <1>2. ASSUME NEW at \in RevokerStages, at # "idle", Step(h, at) PROVE Done
    BY <1>0, <1>2, StepMoves DEF TypesInv, Proceeds
  <1>3. CASE Confirm(h)
    <2> DEFINE new == [revoker[h] EXCEPT !.at = "vault", !.secret = 0]
    <2>1. \/ Answers(h) \/ revoker' = [revoker EXCEPT ![h] = new]
      BY <1>3 DEF Confirm
    <2>2. revoker \in [Revokers -> RevokerRec] /\ revoker[h] \in RevokerRec
      BY DEF TypesInv, InventoryTypes
    <2>3. new \in RevokerRec /\ new.at = "vault" /\ new.node = revoker[h].node
      BY <2>2 DEF RevokerRec, RevokerStages
    <2> HIDE DEF new
    <2>4. ASSUME revoker' = [revoker EXCEPT ![h] = new] PROVE Done
      BY <1>0, <2>2, <2>3, <2>4 DEF Proceeds
    <2> QED  BY <1>1, <2>1, <2>4
  <1>4. CASE ~Confirm(h)
    <2>1. Answers(h) \/ \E at \in RevokerStages : at # "idle" /\ Step(h, at)
      <3>1. \/ Answers(h) \/ Step(h, "confirm") \/ Step(h, "save") \/ Step(h, "stamp")
            \/ Step(h, "stampMeta") \/ Step(h, "recheck") \/ Step(h, "saveMeta") \/ Step(h, "mark")
        BY <1>4 DEF RevokeStep, DeleteToken, DeleteTokenFails, VaultDelete, VaultSaves, VaultStamps,
           Recheck, Mark
      <3> QED  BY <3>1 DEF RevokerStages
    <2> QED  BY <1>1, <1>2, <2>1
  <1> QED  BY <1>3, <1>4

LEMMA RevokeTypes ==
    ASSUME TypesInv, NEW h \in Revokers, RevokeStep(h)
    PROVE  TypesInv'
  <1>1. /\ revoker' \in [Revokers -> RevokerRec] /\ Proceeds(h)
        /\ \A o \in Revokers \ {h} : revoker'[o] = revoker[o]
    BY RequestProceeds
  <1>2. UNCHANGED <<instant, listed, left, secrets, poller, cli>>
    BY DEF RevokeStep, DeleteToken, DeleteTokenFails, Confirm, VaultDelete, VaultSaves, VaultStamps,
       Recheck, Mark, hypervisor
  <1>3. Named'
    BY <1>1, <1>2, RequestsNamed DEF RequestKept, Proceeds
  <1>4. PICK g \in Guests : revoker[h].node = {g}
    BY RequestProceeds DEF TypesInv, Named
  <1>5. Node(h) = g
    BY <1>4, NodeIsGuest
  <1>6. live' \in Keyring
    BY <1>5 DEF RevokeStep, DeleteToken, DeleteTokenFails, Confirm, VaultDelete, VaultSaves,
       VaultStamps, Recheck, Mark, hypervisor, TypesInv, InventoryTypes, Keyring
  <1>7. mapped' \in Keyring
    BY <1>5 DEF RevokeStep, DeleteToken, DeleteTokenFails, Confirm, VaultDelete, VaultSaves,
       VaultStamps, Recheck, Mark, vaults, TypesInv, InventoryTypes, Keyring
  <1>8. vault' \in Keyring
    BY DEF RevokeStep, DeleteToken, DeleteTokenFails, Confirm, VaultDelete, VaultSaves,
       VaultStamps, Recheck, Mark, vaults, StoreSaves, TypesInv, InventoryTypes
  <1>9. revoked' \subseteq Guests
    BY <1>4 DEF RevokeStep, DeleteToken, DeleteTokenFails, Confirm, VaultDelete, VaultSaves,
       VaultStamps, Recheck, Mark, ghosts, StoreSaves, TypesInv, InventoryTypes
  <1>10. nodes' \in [Guests -> NodeRec]
    <2>1. CASE Mark(h)
      <3> DEFINE new == [nodes[g] EXCEPT !.revogada = TRUE, !.token = FALSE]
      <3>1. nodes' = [nodes EXCEPT ![g] = new]
        BY <1>5, <2>1 DEF Mark
      <3>2. new \in NodeRec
        BY DEF TypesInv, InventoryTypes, NodeRec
      <3> QED  BY <3>1, <3>2 DEF TypesInv, InventoryTypes
    <2>2. CASE ~Mark(h)
      BY <2>2 DEF RevokeStep, DeleteToken, DeleteTokenFails, Confirm, VaultDelete, VaultSaves,
         VaultStamps, Recheck, TypesInv, InventoryTypes
    <2> QED  BY <2>1, <2>2
  <1> QED
    BY <1>1, <1>2, <1>3, <1>6, <1>7, <1>8, <1>9, <1>10 DEF TypesInv, InventoryTypes

LEMMA ForeignTypes ==
    ASSUME TypesInv,
           \/ \E g \in Guests : TokenCreated(g) \/ GuestMoves(g)
           \/ CliOpens \/ CliSaves \/ TimeGoesOn \/ PanelRestarts \/ UNCHANGED nodesVars
    PROVE  TypesInv'
  <1>0. /\ vault \in Keyring /\ live \in Keyring /\ left \in Keyring /\ cli \in CliRec /\ instant \in Nat
        /\ secrets \in Nat /\ mapped \in Keyring /\ revoker \in [Revokers -> RevokerRec]
    BY DEF TypesInv, InventoryTypes
  <1>1. ASSUME NEW g \in Guests, TokenCreated(g) PROVE TypesInv'
    <2>1. /\ secrets' = secrets + 1 /\ live' = [live EXCEPT ![g] = secrets']
          /\ cli' = [CliIdle EXCEPT !.at = "created", !.node = {g}, !.secret = secrets']
          /\ UNCHANGED <<instant, listed, left, vaults, nodes, poller, revoker, revoked>>
      BY <1>1 DEF TokenCreated
    <2>2. cli' \in CliRec /\ cli'.at = "created"
      <3>1. secrets' \in Nat /\ CliIdle \in CliRec
        BY <1>0, <2>1, IdleTypes
      <3> QED  BY <2>1, <3>1 DEF CliRec
    <2>3. live' \in Keyring /\ secrets' \in Nat
      BY <1>0, <2>1 DEF Keyring
    <2>4. Named'
      BY <2>1, <2>2, RequestsNamed DEF RequestKept
    <2> QED  BY <2>1, <2>2, <2>3, <2>4 DEF TypesInv, InventoryTypes, vaults
  <1>2. ASSUME NEW g \in Guests, GuestMoves(g) PROVE TypesInv'
    <2>1. left' \in Keyring /\ listed' \subseteq Guests
      BY <1>0, <1>2 DEF GuestMoves, Keyring, TypesInv, InventoryTypes
    <2> QED  BY <1>2, <2>1 DEF GuestMoves, TypesInv, InventoryTypes, Named, vaults, ghosts
  <1>3. CASE CliOpens
    <2>1. cli' = [cli EXCEPT !.at = "opened", !.data = vault]
      BY <1>3 DEF CliOpens
    <2>2. cli' \in CliRec /\ cli'.at = "opened"
      BY <1>0, <2>1 DEF CliRec
    <2>3. Named'
      BY <1>3, <2>2, RequestsNamed DEF RequestKept, CliOpens
    <2> QED  BY <1>3, <2>2, <2>3 DEF CliOpens, TypesInv, InventoryTypes, hypervisor, vaults, ghosts
  <1>4. CASE CliSaves
    <2> DEFINE m == [g \in Guests |-> IF g \in cli.node THEN cli.secret ELSE cli.data[g]]
    <2>1. m \in Keyring
      BY <1>0 DEF CliRec, Keyring
    <2>2. /\ vault' = m /\ revoked' \subseteq revoked
          /\ UNCHANGED <<instant, hypervisor, mapped, nodes, poller, revoker>>
          /\ cli' = [cli EXCEPT !.at = "saved"] \/ cli' = CliIdle
      BY <1>4 DEF CliSaves, StoreSaves
    <2> HIDE DEF m
    <2>3. cli' \in CliRec /\ (cli'.at # "idle" \/ cli' = CliIdle)
      BY <1>0, <2>2, IdleTypes DEF CliRec
    <2>4. Named'
      BY <2>2, <2>3, RequestsNamed DEF RequestKept
    <2> QED  BY <2>1, <2>2, <2>3, <2>4 DEF TypesInv, InventoryTypes, hypervisor
  <1>5. CASE TimeGoesOn
    BY <1>5 DEF TimeGoesOn, TypesInv, InventoryTypes, Named, hypervisor, vaults, ghosts
  <1>6. CASE PanelRestarts
    <2>1. /\ mapped' = vault /\ poller' = PollerIdle /\ revoker' = [h \in Revokers |-> RevokerIdle]
          /\ UNCHANGED <<instant, hypervisor, vault, nodes, cli, ghosts>>
      BY <1>6 DEF PanelRestarts
    <2>2. revoker' \in [Revokers -> RevokerRec] /\ \A h \in Revokers : revoker'[h] = RevokerIdle
      BY <2>1, IdleTypes
    <2>3. Named'
      BY <2>1, <2>2, RequestsNamed DEF RequestKept
    <2> QED  BY <1>0, <2>1, <2>2, <2>3, IdleTypes DEF TypesInv, InventoryTypes, hypervisor, ghosts
  <1>7. CASE UNCHANGED nodesVars
    BY <1>7 DEF nodesVars, TypesInv, InventoryTypes, Named, hypervisor, vaults, ghosts
  <1> QED  BY <1>1, <1>2, <1>3, <1>4, <1>5, <1>6, <1>7

(* Types of the inventory, the vault and the requests under way.           *)
LEMMA InventoryTyped == NodesSpec => []TypesInv
  <1>1. NodesInit => TypesInv
    <2> SUFFICES ASSUME NodesInit PROVE TypesInv
      OBVIOUS
    <2>1. live \in Keyring /\ left \in Keyring
      BY DEF NodesInit, Keyring
    <2> QED  BY <2>1, IdleTypes DEF NodesInit, TypesInv, InventoryTypes, Named
  <1>2. ASSUME TypesInv, [NodesNext]_nodesVars PROVE TypesInv'
    BY <1>2, PollerTypes, RevokeBeginsTypes, RevokeTypes, ForeignTypes
       DEF NodesNext, RevokeStep, Saving
  <1> QED  BY <1>1, <1>2, PTL DEF NodesSpec

-----------------------------------------------------------------------------
(* Until it is proved, a revocation knows the only secret its token may
   answer to; once it is proved, the token is dead.  The secret of a token
   that vpsmctl is storing is the one that answers.                        *)
Target(h, g) ==
    revoker[h].node = {g} =>
        IF revoker[h].at \in {"delete", "confirm"} THEN live[g] \in {0, revoker[h].secret}
        ELSE live[g] = 0
Targets == \A h \in Revokers, g \in Guests \ orphaned : Target(h, g)
Created == \A g \in cli.node : live[g] \in {0, cli.secret}
TokenInv == Targets /\ Created /\ NoOrphanToken

LEMMA BeginKeepsTokens ==
    ASSUME TypesInv, TokenInv, NEW h \in Revokers, NEW g \in Guests, RevokeBegins(h, g)
    PROVE  TokenInv'
  <1>1. /\ revoker'[h] = [at |-> "delete", node |-> {g}, secret |-> mapped[g]]
        /\ \A o \in Revokers \ {h} : revoker'[o] = revoker[o]
    BY RevokeBeginsTypes
  <1>2. /\ UNCHANGED <<hypervisor, vaults, cli>>
        /\ orphaned' = IF live[g] \in {0, mapped[g]} THEN orphaned ELSE orphaned \cup {g}
    BY DEF RevokeBegins
  <1>3. revoker'[h].at = "delete" /\ revoker'[h].node = {g} /\ revoker'[h].secret = mapped[g]
    BY <1>1
  <1>4. orphaned \subseteq orphaned' /\ (g \notin orphaned' => live[g] \in {0, mapped[g]})
    BY <1>2
  <1>5. live' = live /\ vault' = vault /\ cli' = cli
    BY <1>2 DEF hypervisor, vaults
  <1>6. Targets'
    <2> SUFFICES ASSUME NEW o \in Revokers, NEW x \in Guests \ orphaned', revoker'[o].node = {x}
                 PROVE  IF revoker'[o].at \in {"delete", "confirm"}
                        THEN live[x] \in {0, revoker'[o].secret} ELSE live[x] = 0
      BY <1>5 DEF Targets, Target
    <2>1. CASE o = h
      <3>1. x = g
        BY <1>3, <2>1
      <3> QED  BY <1>3, <1>4, <2>1, <3>1
    <2>2. CASE o # h
      BY <1>1, <1>4, <2>2 DEF TokenInv, Targets, Target
    <2> QED  BY <2>1, <2>2
  <1>7. NoOrphanToken'
    BY <1>4, <1>5 DEF TokenInv, NoOrphanToken
  <1> QED  BY <1>5, <1>6, <1>7 DEF TokenInv, Created

(* A step of a request: the token only dies, and the vault loses its key
   only after that.                                                        *)
LEMMA RevokeKeepsTokens ==
    ASSUME TypesInv, TokenInv, NEW h \in Revokers, RevokeStep(h)
    PROVE  TokenInv'
  <1>1. /\ Proceeds(h) /\ revoker[h].at # "idle"
        /\ \A o \in Revokers \ {h} : revoker'[o] = revoker[o]
    BY RequestProceeds
  <1>2. PICK g \in Guests : revoker[h].node = {g}
    BY <1>1 DEF TypesInv, Named
  <1>3. Node(h) = g
    BY <1>2, NodeIsGuest
  <1>4. live' = live \/ live' = [live EXCEPT ![g] = 0]
    BY <1>3 DEF RevokeStep, DeleteToken, DeleteTokenFails, Confirm, VaultDelete, VaultSaves,
       VaultStamps, Recheck, Mark, hypervisor
  <1>5. \A x \in Guests : live'[x] \in {0, live[x]}
    BY <1>4 DEF TypesInv, InventoryTypes, Keyring
  <1>6. cli' = cli /\ orphaned \subseteq orphaned'
    BY DEF RevokeStep, DeleteToken, DeleteTokenFails, Confirm, VaultDelete, VaultSaves,
       VaultStamps, Recheck, Mark, ghosts, StoreSaves
  <1>7. ASSUME g \notin orphaned', revoker'[h].node = {g}
        PROVE  IF revoker'[h].at \in {"delete", "confirm"}
               THEN live'[g] \in {0, revoker'[h].secret} ELSE live'[g] = 0
    <2>0. g \in Guests \ orphaned
      BY <1>6, <1>7
    <2>1. IF revoker[h].at \in {"delete", "confirm"} THEN live[g] \in {0, revoker[h].secret}
          ELSE live[g] = 0
      BY <1>2, <2>0 DEF TokenInv, Targets, Target
    <2>2. revoker'[h] # RevokerIdle
      BY <1>7, IdleTypes
    <2>3. CASE revoker[h].at = "delete"
      <3>1. Step(h, "confirm")
        BY <2>2, <2>3, AnswerMoves DEF TypesInv, RevokeStep, DeleteToken, DeleteTokenFails, Confirm,
           VaultDelete, VaultSaves, VaultStamps, Recheck, Mark
      <3>2. revoker'[h].at = "confirm" /\ revoker'[h].secret = revoker[h].secret
        BY <3>1, StepMoves DEF TypesInv, RevokerStages
      <3> QED  BY <1>5, <2>1, <2>3, <3>2
    <2>4. CASE revoker[h].at = "confirm"
      <3>1. Confirm(h)
        BY <2>4 DEF RevokeStep, DeleteToken, DeleteTokenFails, VaultDelete, VaultSaves,
           VaultStamps, Recheck, Mark
      <3>2. ~Answers(h)
        BY <2>2, AnswerMoves DEF TypesInv
      <3>3. revoker[h].secret = 0 \/ revoker[h].secret # live[g]
        BY <1>3, <3>1, <3>2 DEF Confirm, Proven
      <3>4. live[g] = 0
        BY <2>1, <2>4, <3>3
      <3> QED  BY <1>5, <3>4
    <2>5. CASE revoker[h].at \notin {"delete", "confirm"}
      BY <1>5, <2>1, <2>5
    <2> QED  BY <2>3, <2>4, <2>5
  <1>8. Targets'
    <2> SUFFICES ASSUME NEW o \in Revokers, NEW x \in Guests \ orphaned', revoker'[o].node = {x}
                 PROVE  IF revoker'[o].at \in {"delete", "confirm"}
                        THEN live'[x] \in {0, revoker'[o].secret} ELSE live'[x] = 0
      BY DEF Targets, Target
    <2>1. CASE o = h
      <3>1. x = g
        BY <1>1, <1>2, <2>1, IdleTypes DEF Proceeds
      <3> QED  BY <1>7, <2>1, <3>1
    <2>2. CASE o # h
      <3>1. IF revoker[o].at \in {"delete", "confirm"} THEN live[x] \in {0, revoker[o].secret}
            ELSE live[x] = 0
        BY <1>1, <1>6, <2>2 DEF TokenInv, Targets, Target
      <3> QED  BY <1>1, <1>5, <2>2, <3>1
    <2> QED  BY <2>1, <2>2
  <1>9. Created'
    BY <1>5, <1>6 DEF TokenInv, Created, TypesInv, InventoryTypes, CliRec
  <1>10. NoOrphanToken'
    <2> SUFFICES ASSUME NEW x \in Guests \ orphaned', live'[x] # 0, x \notin cli.node
                 PROVE  vault'[x] = live'[x]
      BY <1>6 DEF NoOrphanToken
    <2>1. live'[x] = live[x] /\ vault[x] = live[x]
      BY <1>5, <1>6 DEF TokenInv, NoOrphanToken
    <2>2. CASE VaultSaves(h)
      <3>1. /\ revoker[h].at \in {"save", "saveMeta"}
            /\ vault' = mapped /\ orphaned' = orphaned \cup {y \in Guests \ {g} : mapped[y] # vault[y]}
        BY <1>2, <2>2 DEF VaultSaves, StoreSaves
      <3>2. x # g
        BY <1>2, <1>6, <2>1, <3>1 DEF TokenInv, Targets, Target
      <3> QED  BY <2>1, <3>1, <3>2
    <2>3. CASE ~VaultSaves(h)
      <3>1. vault' = vault
        BY <2>3 DEF RevokeStep, DeleteToken, DeleteTokenFails, Confirm, VaultDelete,
           VaultStamps, Recheck, Mark, vaults
      <3> QED  BY <2>1, <3>1
    <2> QED  BY <2>2, <2>3
  <1> QED  BY <1>8, <1>9, <1>10 DEF TokenInv

LEMMA CreateKeepsTokens ==
    ASSUME TypesInv, TokenInv, NEW g \in Guests, TokenCreated(g)
    PROVE  TokenInv'
  <1>1. /\ cli.at = "idle" /\ live' = [live EXCEPT ![g] = secrets']
        /\ cli' = [CliIdle EXCEPT !.at = "created", !.node = {g}, !.secret = secrets']
        /\ orphaned' = (IF \E h \in Revokers : revoker[h].node = {g} THEN orphaned \cup {g} ELSE orphaned)
        /\ revoker' = revoker /\ vault' = vault
    BY DEF TokenCreated, vaults
  <1>2. cli'.node = {g} /\ cli'.secret = secrets'
    BY <1>1, IdleTypes DEF CliRec
  <1>3. \A x \in Guests : live'[x] = IF x = g THEN secrets' ELSE live[x]
    BY <1>1 DEF TypesInv, InventoryTypes, Keyring
  <1>4. orphaned \subseteq orphaned' /\ \A h \in Revokers : revoker[h].node = {g} => g \in orphaned'
    BY <1>1
  <1>5. Created'
    BY <1>2, <1>3 DEF Created
  <1>6. Targets'
    <2> SUFFICES ASSUME NEW o \in Revokers, NEW x \in Guests \ orphaned', revoker[o].node = {x}
                 PROVE  IF revoker[o].at \in {"delete", "confirm"}
                        THEN live'[x] \in {0, revoker[o].secret} ELSE live'[x] = 0
      BY <1>1 DEF Targets, Target
    <2>1. x # g
      BY <1>4
    <2> QED  BY <1>3, <1>4, <2>1 DEF TokenInv, Targets, Target
  <1>7. cli.node = {}
    BY <1>1 DEF TypesInv, Named
  <1>8. NoOrphanToken'
    BY <1>1, <1>2, <1>3, <1>4, <1>7 DEF TokenInv, NoOrphanToken
  <1> QED  BY <1>5, <1>6, <1>8 DEF TokenInv

LEMMA CliKeepsTokens == ASSUME TypesInv, TokenInv, CliOpens \/ CliSaves PROVE TokenInv'
  <1>0. live' = live /\ revoker' = revoker /\ orphaned \subseteq orphaned'
    BY DEF CliOpens, CliSaves, hypervisor, ghosts, StoreSaves
  <1>1. Targets'
    BY <1>0 DEF TokenInv, Targets, Target
  <1>2. CASE CliOpens
    <2>1. cli' = [cli EXCEPT !.at = "opened", !.data = vault] /\ vault' = vault /\ orphaned' = orphaned
      BY <1>2 DEF CliOpens, vaults, ghosts
    <2>2. cli'.node = cli.node /\ cli'.secret = cli.secret
      BY <2>1 DEF TypesInv, InventoryTypes, CliRec
    <2> QED  BY <1>0, <1>1, <2>1, <2>2 DEF TokenInv, Created, NoOrphanToken
  <1>3. CASE CliSaves
    <2> DEFINE m == [g \in Guests |-> IF g \in cli.node THEN cli.secret ELSE cli.data[g]]
    <2>1. /\ vault' = m
          /\ cli' = [cli EXCEPT !.at = "saved"] \/ cli' = CliIdle
          /\ orphaned' = orphaned \cup {g \in Guests \ cli.node : m[g] # vault[g]}
      BY <1>3 DEF CliSaves, StoreSaves
    <2>2. \A g \in Guests \cap cli.node : m[g] = cli.secret
      OBVIOUS
    <2> HIDE DEF m
    <2>3. cli' = CliIdle \/ (cli'.node = cli.node /\ cli'.secret = cli.secret)
      BY <2>1 DEF TypesInv, InventoryTypes, CliRec
    <2>4. Created'
      BY <1>0, <2>3, IdleTypes DEF TokenInv, Created
    <2>5. NoOrphanToken'
      <3> SUFFICES ASSUME NEW g \in Guests \ orphaned', live[g] # 0, g \notin cli'.node
                   PROVE  vault'[g] = live[g]
        BY <1>0 DEF NoOrphanToken
      <3>1. CASE g \in cli.node
        BY <2>1, <2>2, <3>1 DEF TokenInv, Created
      <3>2. CASE g \notin cli.node
        BY <1>0, <2>1, <3>2 DEF TokenInv, NoOrphanToken
      <3> QED  BY <3>1, <3>2
    <2> QED  BY <1>1, <2>4, <2>5 DEF TokenInv
  <1> QED  BY <1>2, <1>3

(* Revoking never leaves the vault without the key of a token that is alive,
   however many requests overlap and wherever a call fails or the panel
   dies, except as orphaned names it: a proof of death precedes the deletion,
   and only the token's own request deletes its key.                       *)
THEOREM NoTokenOrphaned == NodesSpec => []NoOrphanToken
  <1>1. NodesInit => TokenInv
    BY IdleTypes DEF NodesInit, TokenInv, Targets, Target, Created, NoOrphanToken
  <1>2. ASSUME TypesInv, TokenInv, [NodesNext]_nodesVars PROVE TokenInv'
    <2>1. CASE PanelRestarts
      <3>1. /\ \A h \in Revokers : revoker'[h] = RevokerIdle
            /\ live' = live /\ vault' = vault /\ cli' = cli /\ orphaned' = orphaned
        BY <2>1 DEF PanelRestarts, hypervisor, ghosts
      <3> QED  BY <1>2, <3>1, IdleTypes DEF TokenInv, Targets, Target, Created, NoOrphanToken
    <2>2. CASE \/ Tick \/ (\E u \in BOOLEAN : DiscoveryFails(u)) \/ (\E g \in Guests : GuestMoves(g))
               \/ TimeGoesOn \/ UNCHANGED nodesVars
      <3>1. UNCHANGED <<live, vault, cli, revoker, orphaned>>
        BY <2>2 DEF Tick, TickBegins, ClusterResources, VaultUnchanged, ReloadReads, ReloadStamps,
           ReloadSwaps, TickReplaces, DiscoveryFails, GuestMoves, TimeGoesOn, nodesVars, hypervisor,
           vaults, ghosts
      <3> QED  BY <1>2, <3>1 DEF TokenInv, Targets, Target, Created, NoOrphanToken
    <2> QED
      BY <1>2, <2>1, <2>2, BeginKeepsTokens, RevokeKeepsTokens, CreateKeepsTokens, CliKeepsTokens
         DEF NodesNext, RevokeStep, Saving
  <1>3. TokenInv => NoOrphanToken
    BY DEF TokenInv
  <1> QED  BY <1>1, <1>2, <1>3, InventoryTyped, PTL DEF NodesSpec

-----------------------------------------------------------------------------
(* A guest was seen no later than it was last listed, and the tick in
   progress began no earlier than any stamp.                               *)
SeenInTime == \A g \in Guests : nodes[g].at <= LastListed(g) /\ left[g] <= instant
TickInTime ==
    poller.at # "idle" =>
        /\ poller.agora <= instant
        /\ \A g \in Guests : nodes[g].at <= poller.agora
        /\ poller.at # "asked" => \A g \in poller.seen : poller.agora <= LastListed(g)
GoneAfterSeen == \A g \in Guests : nodes[g].gone = 0 \/ nodes[g].at <= nodes[g].gone
StampInv == SeenInTime /\ TickInTime /\ GoneAfterSeen

LEMMA StampTypes ==
    ASSUME TypesInv
    PROVE  /\ instant \in Nat /\ poller \in PollerRec /\ poller.agora \in Nat
           /\ \A g \in Guests : /\ nodes[g] \in NodeRec /\ nodes[g].at \in Nat /\ nodes[g].gone \in Nat
                                /\ left[g] \in Nat /\ LastListed(g) \in Nat
BY DEF TypesInv, InventoryTypes, NodeRec, PollerRec, Keyring, LastListed

(* The clock, the listing and the tick move on; the stamps stay.           *)
LEMMA ListingMoves ==
    ASSUME TypesInv, TypesInv', StampInv,
           \A g \in Guests : nodes'[g].at = nodes[g].at /\ nodes'[g].gone = nodes[g].gone,
           poller' = poller \/ poller' = PollerIdle,
           instant' >= instant,
           \A g \in Guests : LastListed(g)' >= LastListed(g) /\ left'[g] <= instant'
    PROVE  StampInv'
  <1>0. /\ instant \in Nat /\ poller \in PollerRec /\ poller.agora \in Nat
        /\ \A g \in Guests : nodes[g].at \in Nat /\ LastListed(g) \in Nat
    BY StampTypes
  <1>1. /\ instant' \in Nat
        /\ \A g \in Guests : LastListed(g)' \in Nat /\ nodes'[g].at \in Nat
    BY DEF TypesInv, InventoryTypes, NodeRec, Keyring, LastListed
  <1>2. SeenInTime'
    BY <1>0, <1>1 DEF StampInv, SeenInTime
  <1>3. TickInTime'
    <2>1. CASE poller' = PollerIdle
      BY <2>1, IdleTypes DEF TickInTime
    <2>2. CASE poller' = poller
      BY <1>0, <1>1, <2>2 DEF StampInv, TickInTime, PollerRec
    <2> QED  BY <2>1, <2>2
  <1>4. GoneAfterSeen'
    BY DEF StampInv, GoneAfterSeen
  <1> QED  BY <1>2, <1>3, <1>4 DEF StampInv

LEMMA TickMoves ==
    ASSUME TypesInv, StampInv, UNCHANGED <<nodes, instant, listed, left>>,
           \/ poller' = [poller EXCEPT !.at = "asked", !.agora = instant]
           \/ /\ poller.at = "asked"
              /\ poller' = [poller EXCEPT !.at = "answered", !.seen = listed]
           \/ /\ poller.at \notin {"idle", "asked"}
              /\ poller'.agora = poller.agora /\ poller'.seen = poller.seen
    PROVE  StampInv'
  <1>0. /\ instant \in Nat /\ poller \in PollerRec /\ poller.agora \in Nat
        /\ \A g \in Guests : nodes[g].at \in Nat /\ LastListed(g) \in Nat /\ left[g] \in Nat
    BY StampTypes
  <1>1. SeenInTime' /\ GoneAfterSeen'
    BY DEF StampInv, SeenInTime, GoneAfterSeen, LastListed
  <1>2. TickInTime'
    <2>1. CASE poller' = [poller EXCEPT !.at = "asked", !.agora = instant]
      <3>1. poller'.at = "asked" /\ poller'.agora = instant
        BY <1>0, <2>1 DEF PollerRec
      <3>2. \A g \in Guests : nodes[g].at <= instant
        BY <1>0 DEF StampInv, SeenInTime, LastListed
      <3> QED  BY <1>0, <3>1, <3>2 DEF TickInTime
    <2>2. CASE poller.at = "asked" /\ poller' = [poller EXCEPT !.at = "answered", !.seen = listed]
      <3>1. poller'.at = "answered" /\ poller'.agora = poller.agora /\ poller'.seen = listed
        BY <1>0, <2>2 DEF PollerRec
      <3> QED  BY <1>0, <2>2, <3>1 DEF TickInTime, StampInv, LastListed
    <2>3. CASE poller.at \notin {"idle", "asked"} /\ poller'.agora = poller.agora
               /\ poller'.seen = poller.seen
      BY <2>3 DEF TickInTime, StampInv, LastListed
    <2> QED  BY <2>1, <2>2, <2>3
  <1> QED  BY <1>1, <1>2 DEF StampInv

LEMMA ReplaceStamps == ASSUME TypesInv, StampInv, TickReplaces PROVE StampInv'
  <1>0. /\ instant \in Nat /\ poller \in PollerRec /\ poller.agora \in Nat
        /\ \A g \in Guests : nodes[g] \in NodeRec /\ nodes[g].at \in Nat /\ LastListed(g) \in Nat
    BY StampTypes
  <1>1. /\ poller.at = "loaded" /\ poller' = PollerIdle /\ UNCHANGED <<instant, listed, left>>
        /\ nodes' = [g \in Guests |-> Credentialed(Discovered(nodes[g], g, poller), mapped[g])]
    BY DEF TickReplaces, hypervisor
  <1>2. ASSUME NEW g \in Guests
        PROVE  \/ nodes'[g].at = nodes[g].at /\ nodes'[g].gone = nodes[g].gone
               \/ g \in poller.seen /\ nodes'[g].at = poller.agora /\ nodes'[g].gone = 0
               \/ nodes'[g].at = nodes[g].at /\ nodes'[g].gone = poller.agora
    <2> DEFINE d == Discovered(nodes[g], g, poller)
    <2>1. nodes'[g] = Credentialed(d, mapped[g])
      BY <1>1
    <2>2. d \in NodeRec
      BY <1>0 DEF Discovered, Stamp, NodeRec
    <2>3. \/ d.at = nodes[g].at /\ d.gone = nodes[g].gone
          \/ g \in poller.seen /\ d.at = poller.agora /\ d.gone = 0
          \/ d.at = nodes[g].at /\ d.gone = poller.agora
      BY <1>0 DEF Discovered, Stamp, NodeRec
    <2> HIDE DEF d
    <2>4. Credentialed(d, mapped[g]).at = d.at /\ Credentialed(d, mapped[g]).gone = d.gone
      BY <2>2 DEF Credentialed, NodeRec
    <2> QED  BY <2>1, <2>3, <2>4
  <1>3. /\ \A g \in Guests : nodes[g].at <= poller.agora
        /\ \A g \in poller.seen : poller.agora <= LastListed(g)
    BY <1>1 DEF StampInv, TickInTime
  <1>4. \A g \in Guests : LastListed(g)' = LastListed(g)
    BY <1>1 DEF LastListed
  <1>5. SeenInTime'
    BY <1>0, <1>1, <1>2, <1>3, <1>4 DEF StampInv, SeenInTime
  <1>6. GoneAfterSeen'
    BY <1>0, <1>2, <1>3 DEF StampInv, GoneAfterSeen
  <1>7. TickInTime'
    BY <1>1, IdleTypes DEF TickInTime
  <1> QED  BY <1>5, <1>6, <1>7 DEF StampInv

LEMMA StampStep ==
    ASSUME TypesInv, TypesInv', StampInv, [NodesNext]_nodesVars
    PROVE  StampInv'
  <1>0. /\ instant \in Nat /\ poller \in PollerRec /\ nodes \in [Guests -> NodeRec]
        /\ left \in Keyring
        /\ \A g \in Guests : LastListed(g) \in Nat /\ LastListed(g) <= instant /\ left[g] <= instant
    BY StampTypes DEF StampInv, SeenInTime, LastListed, TypesInv, InventoryTypes
  <1>1. CASE TickBegins
    BY <1>1, TickMoves DEF TickBegins, hypervisor
  <1>2. CASE ClusterResources
    BY <1>2, TickMoves DEF ClusterResources, hypervisor
  <1>3. CASE VaultUnchanged \/ ReloadReads \/ ReloadStamps \/ ReloadSwaps
    <2>1. /\ UNCHANGED <<nodes, instant, listed, left>> /\ poller.at \notin {"idle", "asked"}
      BY <1>3 DEF VaultUnchanged, ReloadReads, ReloadStamps, ReloadSwaps, hypervisor
    <2>2. poller'.agora = poller.agora /\ poller'.seen = poller.seen
      BY <1>0, <1>3 DEF VaultUnchanged, ReloadReads, ReloadStamps, ReloadSwaps, PollerRec
    <2> QED  BY <2>1, <2>2, TickMoves
  <1>4. CASE TickReplaces
    BY <1>4, ReplaceStamps
  <1>5. ASSUME UNCHANGED <<instant, listed, left>>, poller' = poller \/ poller' = PollerIdle,
               \A g \in Guests : nodes'[g].at = nodes[g].at /\ nodes'[g].gone = nodes[g].gone
        PROVE  StampInv'
    <2>1. \A g \in Guests : LastListed(g)' = LastListed(g) /\ left'[g] = left[g]
      BY <1>5 DEF LastListed
    <2> QED  BY <1>0, <1>5, <2>1, ListingMoves
  <1>6. CASE \E u \in BOOLEAN : DiscoveryFails(u)
    <2>1. PICK u \in BOOLEAN : DiscoveryFails(u)
      BY <1>6
    <2>2. nodes' = [g \in Guests |-> IF u /\ nodes[g] # NeverSeen
                                   THEN [nodes[g] EXCEPT !.revogada = TRUE] ELSE nodes[g]]
      BY <2>1 DEF DiscoveryFails
    <2>3. \A g \in Guests : nodes'[g].at = nodes[g].at /\ nodes'[g].gone = nodes[g].gone
      BY <1>0, <2>2 DEF NodeRec
    <2> QED  BY <1>5, <2>1, <2>3 DEF DiscoveryFails, hypervisor
  <1>7. ASSUME NEW h \in Revokers, Mark(h) PROVE StampInv'
    <2>1. PICK g \in Guests : revoker[h].node = {g}
      BY <1>7 DEF Mark, TypesInv, Named
    <2>2. nodes' = [nodes EXCEPT ![g] = [nodes[g] EXCEPT !.revogada = TRUE, !.token = FALSE]]
      BY <1>7, <2>1, NodeIsGuest DEF Mark
    <2>3. \A x \in Guests : nodes'[x].at = nodes[x].at /\ nodes'[x].gone = nodes[x].gone
      BY <1>0, <2>2 DEF NodeRec
    <2> QED  BY <1>5, <1>7, <2>3 DEF Mark, hypervisor
  <1>8. CASE \/ \E h \in Revokers :
                  \/ \E g \in Guests : RevokeBegins(h, g)
                  \/ DeleteToken(h) \/ DeleteTokenFails(h) \/ Confirm(h)
                  \/ VaultDelete(h) \/ Saving(h) \/ Recheck(h)
             \/ \E g \in Guests : TokenCreated(g)
             \/ CliOpens \/ CliSaves \/ PanelRestarts \/ UNCHANGED nodesVars
    <2>1. /\ UNCHANGED <<instant, listed, left, nodes>>
          /\ poller' = poller \/ poller' = PollerIdle
      BY <1>8 DEF RevokeBegins, DeleteToken, DeleteTokenFails, Confirm, VaultDelete, Saving,
         VaultSaves, VaultStamps, Recheck, TokenCreated, CliOpens, CliSaves, PanelRestarts,
         nodesVars, hypervisor
    <2> QED  BY <1>5, <2>1
  <1>9. ASSUME NEW g \in Guests, GuestMoves(g) PROVE StampInv'
    <2>1. /\ listed' = IF g \in listed THEN listed \ {g} ELSE listed \cup {g}
          /\ left' = [left EXCEPT ![g] = instant]
          /\ UNCHANGED <<instant, nodes, poller>>
      BY <1>9 DEF GuestMoves
    <2>2. \A x \in Guests : LastListed(x)' >= LastListed(x) /\ left'[x] <= instant'
      BY <1>0, <2>1 DEF LastListed, Keyring
    <2> QED  BY <1>0, <2>1, <2>2, ListingMoves
  <1>10. CASE TimeGoesOn
    <2>1. instant' = instant + 1 /\ UNCHANGED <<listed, left, nodes, poller>>
      BY <1>10 DEF TimeGoesOn, hypervisor
    <2>2. \A x \in Guests : LastListed(x)' >= LastListed(x) /\ left'[x] <= instant'
      BY <1>0, <2>1 DEF LastListed, Keyring
    <2> QED  BY <1>0, <2>1, <2>2, ListingMoves
  <1> QED
    BY <1>1, <1>2, <1>3, <1>4, <1>6, <1>7, <1>8, <1>9, <1>10 DEF NodesNext, Tick

(* A revoked guest has no key in the panel's map, in the file, or in what a
   reload has read and not yet swapped in.                                 *)
RevokedInv ==
    /\ \A g \in revoked : vault[g] = 0
    /\ \A g \in revoked \ undone : mapped[g] = 0 /\ nodes[g].revogada
    /\ poller.at \in {"read", "stamped"} => \A g \in revoked : poller.data[g] = 0
    /\ \A h \in Revokers, g \in Guests \ undone :
          revoker[h].at = "mark" /\ revoker[h].node = {g} => mapped[g] = 0

(* Steps that neither add to the keys nor forget that a guest is revoked.  *)
LEMMA RevokedStays ==
    ASSUME TypesInv, RevokedInv, revoked' \subseteq revoked, undone \subseteq undone',
           \A g \in revoked' : vault'[g] = 0,
           \A g \in Guests : mapped[g] = 0 => mapped'[g] = 0,
           \A g \in revoked' \ undone' : nodes[g].revogada => nodes'[g].revogada,
           \/ poller' = poller \/ poller'.at \notin {"read", "stamped"}
           \/ poller'.data \in {poller.data, vault} /\ (poller'.data = vault \/ poller.at = "read"),
           \A h \in Revokers, g \in Guests :
              revoker'[h].at = "mark" /\ revoker'[h].node = {g} =>
                 \/ revoker[h].at = "mark" /\ revoker[h].node = {g}
                 \/ mapped'[g] = 0
    PROVE  RevokedInv'
  <1>0. revoked \subseteq Guests
    BY DEF TypesInv, InventoryTypes
  <1>1. poller'.at \in {"read", "stamped"} => \A g \in revoked' : poller'.data[g] = 0
    BY DEF RevokedInv
  <1>2. \A g \in revoked' \ undone' : mapped'[g] = 0 /\ nodes'[g].revogada
    BY <1>0 DEF RevokedInv
  <1>3. \A h \in Revokers, g \in Guests \ undone' :
          revoker'[h].at = "mark" /\ revoker'[h].node = {g} => mapped'[g] = 0
    BY DEF RevokedInv
  <1> QED  BY <1>1, <1>2, <1>3 DEF RevokedInv

LEMMA SwapKeepsRevoked == ASSUME TypesInv, RevokedInv, ReloadSwaps PROVE RevokedInv'
  <1>1. /\ poller.at = "stamped" /\ mapped' = poller.data
        /\ poller' = [poller EXCEPT !.at = "loaded", !.data = NoKeys]
        /\ UNCHANGED <<vault, nodes, revoker, revoked>>
    BY DEF ReloadSwaps
  <1>2. undone' = undone \cup {g \in Guests : poller.data[g] # 0 /\ \E h \in Revokers :
                    /\ revoker[h].node = {g}
                    /\ revoker[h].at \in {"save", "saveMeta", "recheck", "mark"}}
    BY DEF ReloadSwaps
  <1>3. poller'.at = "loaded"
    BY <1>1 DEF TypesInv, InventoryTypes, PollerRec
  <1>4. \A h \in Revokers, g \in Guests \ undone' :
          revoker[h].at = "mark" /\ revoker[h].node = {g} => poller.data[g] = 0
    BY <1>2
  <1>5. undone \subseteq undone'
    BY <1>2
  <1>6. \A g \in revoked : poller.data[g] = 0
    BY <1>1 DEF RevokedInv
  <1> QED  BY <1>1, <1>3, <1>4, <1>5, <1>6 DEF RevokedInv

LEMMA MarkKeepsRevoked ==
    ASSUME TypesInv, RevokedInv, NEW h \in Revokers, Mark(h)
    PROVE  RevokedInv'
  <1>1. PICK g \in Guests : revoker[h].node = {g}
    BY DEF Mark, TypesInv, Named
  <1>2. Node(h) = g
    BY <1>1, NodeIsGuest
  <1>3. /\ revoker[h].at = "mark" /\ poller.at \notin {"read", "stamped"} /\ Answers(h)
        /\ nodes' = [nodes EXCEPT ![g] = [nodes[g] EXCEPT !.revogada = TRUE, !.token = FALSE]]
        /\ revoked' = (IF vault[g] = 0 THEN revoked \cup {g} ELSE revoked)
        /\ UNCHANGED <<vault, mapped, poller, undone>>
    BY <1>1, <1>2 DEF Mark, InventoryFree, vaults
  <1>4. /\ nodes'[g].revogada
        /\ \A x \in Guests \ {g} : nodes'[x] = nodes[x]
    BY <1>3 DEF TypesInv, InventoryTypes, NodeRec
  <1>5. /\ revoker'[h] = RevokerIdle
        /\ \A o \in Revokers \ {h} : revoker'[o] = revoker[o]
    BY <1>3, AnswerMoves DEF TypesInv
  <1>6. g \notin undone => mapped[g] = 0
    BY <1>1, <1>3 DEF RevokedInv
  <1>7. \A x \in revoked' : (x = g /\ vault[g] = 0) \/ x \in revoked
    BY <1>3
  <1>8. \A x \in revoked' : vault'[x] = 0
    BY <1>3, <1>7 DEF RevokedInv
  <1>9. \A x \in revoked' \ undone' : mapped'[x] = 0 /\ nodes'[x].revogada
    BY <1>3, <1>4, <1>6, <1>7 DEF RevokedInv, TypesInv, InventoryTypes
  <1>10. \A o \in Revokers, x \in Guests \ undone' :
          revoker'[o].at = "mark" /\ revoker'[o].node = {x} => mapped'[x] = 0
    BY <1>3, <1>5, IdleTypes DEF RevokedInv
  <1> QED  BY <1>3, <1>8, <1>9, <1>10 DEF RevokedInv

LEMMA PollerKeepsRevoked ==
    ASSUME TypesInv, RevokedInv,
           Tick \/ \E u \in BOOLEAN : DiscoveryFails(u)
    PROVE  RevokedInv'
  <1>0. /\ poller \in PollerRec /\ nodes \in [Guests -> NodeRec] /\ revoked \subseteq Guests
    BY DEF TypesInv, InventoryTypes
  <1>1. CASE ReloadSwaps
    BY <1>1, SwapKeepsRevoked
  <1>2. CASE TickReplaces
    <2>1. /\ nodes' = [g \in Guests |-> Credentialed(Discovered(nodes[g], g, poller), mapped[g])]
          /\ poller' = PollerIdle /\ UNCHANGED <<vault, mapped, revoker, revoked, undone>>
      BY <1>2 DEF TickReplaces, vaults, ghosts
    <2>2. ASSUME NEW g \in revoked \ undone PROVE nodes'[g].revogada
      <3>1. nodes[g] \in NodeRec /\ nodes[g].revogada /\ mapped[g] = 0 /\ poller.agora \in Nat
        BY <1>0, <2>2 DEF RevokedInv, PollerRec
      <3> DEFINE d == Discovered(nodes[g], g, poller)
      <3>2. d.revogada
        BY <3>1 DEF Discovered, Stamp, NodeRec
      <3>3. nodes'[g] = Credentialed(d, mapped[g])
        BY <1>0, <2>1
      <3> HIDE DEF d
      <3>4. Credentialed(d, mapped[g]) = d
        BY <3>1, <3>2 DEF Credentialed
      <3> QED  BY <3>2, <3>3, <3>4
    <2> QED  BY <2>1, <2>2, RevokedStays, IdleTypes DEF RevokedInv
  <1>3. CASE \E u \in BOOLEAN : DiscoveryFails(u)
    <2>1. PICK u \in BOOLEAN : DiscoveryFails(u)
      BY <1>3
    <2>2. /\ nodes' = [g \in Guests |-> IF u /\ nodes[g] # NeverSeen
                                   THEN [nodes[g] EXCEPT !.revogada = TRUE] ELSE nodes[g]]
          /\ poller' = PollerIdle /\ UNCHANGED <<vault, mapped, revoker, revoked, undone>>
      BY <2>1 DEF DiscoveryFails, vaults, ghosts
    <2>3. \A g \in Guests : [nodes[g] EXCEPT !.revogada = TRUE].revogada
      BY <1>0 DEF NodeRec
    <2>4. \A g \in Guests : nodes[g].revogada => nodes'[g].revogada
      BY <2>2, <2>3
    <2> QED  BY <1>0, <2>2, <2>4, RevokedStays, IdleTypes DEF RevokedInv
  <1>4. CASE TickBegins \/ ClusterResources \/ VaultUnchanged
    <2>1. /\ UNCHANGED <<vault, mapped, nodes, revoker, revoked, undone>>
          /\ poller'.at \notin {"read", "stamped"}
      BY <1>0, <1>4 DEF TickBegins, ClusterResources, VaultUnchanged, vaults, ghosts, PollerRec
    <2> QED  BY <2>1, RevokedStays DEF RevokedInv
  <1>5. CASE ReloadReads \/ ReloadStamps
    <2>1. /\ UNCHANGED <<vault, mapped, nodes, revoker, revoked, undone>>
          /\ poller'.data = vault \/ (poller'.data = poller.data /\ poller.at = "read")
      BY <1>0, <1>5 DEF ReloadReads, ReloadStamps, vaults, ghosts, PollerRec
    <2> QED  BY <2>1, RevokedStays DEF RevokedInv
  <1> QED  BY <1>1, <1>2, <1>3, <1>4, <1>5 DEF Tick

LEMMA RequestKeepsRevoked ==
    ASSUME TypesInv, RevokedInv, NEW h \in Revokers,
           RevokeStep(h) \/ \E g \in Guests : RevokeBegins(h, g)
    PROVE  RevokedInv'
  <1>1. CASE Mark(h)
    BY <1>1, MarkKeepsRevoked
  <1>2. CASE \E g \in Guests : RevokeBegins(h, g)
    <2>1. PICK g \in Guests : RevokeBegins(h, g)
      BY <1>2
    <2>2. /\ revoker'[h] = [at |-> "delete", node |-> {g}, secret |-> mapped[g]]
          /\ \A o \in Revokers \ {h} : revoker'[o] = revoker[o]
      BY <2>1, RevokeBeginsTypes
    <2>3. revoker'[h].at = "delete"
      BY <2>2
    <2>4. UNCHANGED <<vault, mapped, nodes, poller, revoked, undone>>
      BY <2>1 DEF RevokeBegins, vaults
    <2> QED  BY <2>2, <2>3, <2>4, RevokedStays DEF RevokedInv
  <1>3. CASE RevokeStep(h) /\ ~Mark(h)
    <2>1. /\ Proceeds(h) /\ revoker[h].at # "idle"
          /\ \A o \in Revokers \ {h} : revoker'[o] = revoker[o]
      BY <1>3, RequestProceeds
    <2>2. PICK g \in Guests : revoker[h].node = {g}
      BY <2>1 DEF TypesInv, Named
    <2>3. Node(h) = g
      BY <2>2, NodeIsGuest
    <2>4. UNCHANGED <<nodes, poller, undone>>
      BY <1>3 DEF RevokeStep, DeleteToken, DeleteTokenFails, Confirm, VaultDelete, VaultSaves,
         VaultStamps, Recheck, ghosts
    <2>5. mapped' = mapped \/ mapped' = [mapped EXCEPT ![g] = 0]
      BY <1>3, <2>3 DEF RevokeStep, DeleteToken, DeleteTokenFails, Confirm, VaultDelete, VaultSaves,
         VaultStamps, Recheck, vaults
    <2>6. \A x \in Guests : mapped[x] = 0 => mapped'[x] = 0
      BY <2>5 DEF TypesInv, InventoryTypes, Keyring
    <2>7. revoked' \subseteq revoked /\ \A x \in revoked' : vault'[x] = 0
      <3>1. CASE VaultSaves(h)
        BY <3>1 DEF VaultSaves, StoreSaves
      <3>2. CASE ~VaultSaves(h)
        BY <1>3, <3>2 DEF RevokeStep, DeleteToken, DeleteTokenFails, Confirm, VaultDelete,
           VaultStamps, Recheck, vaults, ghosts, RevokedInv
      <3> QED  BY <3>1, <3>2
    <2>8. ASSUME revoker'[h].at = "mark" PROVE mapped'[g] = 0
      <3>1. ~Answers(h)
        BY <2>8, AnswerMoves, IdleTypes DEF TypesInv
      <3>2. Recheck(h)
        <4>1. \A at \in RevokerStages \ {"mark"} : ~Step(h, at)
          BY <2>8, StepMoves DEF TypesInv
        <4>2. CASE Confirm(h)
          <5>1. revoker' = [revoker EXCEPT ![h].at = "vault", ![h].secret = 0]
            BY <3>1, <4>2 DEF Confirm
          <5>2. revoker'[h].at = "vault"
            BY <5>1 DEF TypesInv, InventoryTypes, RevokerRec
          <5> QED  BY <2>8, <5>2
        <4>3. CASE ~Confirm(h)
          BY <1>3, <3>1, <4>1, <4>3 DEF RevokeStep, DeleteToken, DeleteTokenFails, VaultDelete,
             VaultSaves, VaultStamps, RevokerStages
        <4> QED  BY <4>2, <4>3
      <3> QED  BY <2>3, <3>1, <3>2 DEF Recheck, vaults
    <2>9. \A o \in Revokers, x \in Guests :
            revoker'[o].at = "mark" /\ revoker'[o].node = {x} =>
               \/ revoker[o].at = "mark" /\ revoker[o].node = {x}
               \/ mapped'[x] = 0
      BY <2>1, <2>2, <2>8, IdleTypes DEF Proceeds
    <2> QED  BY <2>4, <2>6, <2>7, <2>9, RevokedStays
  <1> QED  BY <1>1, <1>2, <1>3

LEMMA OthersKeepRevoked ==
    ASSUME TypesInv, RevokedInv,
           \/ \E g \in Guests : TokenCreated(g) \/ GuestMoves(g)
           \/ CliOpens \/ CliSaves \/ TimeGoesOn \/ PanelRestarts \/ UNCHANGED nodesVars
    PROVE  RevokedInv'
  <1>1. CASE PanelRestarts
    <2>1. /\ mapped' = vault /\ poller' = PollerIdle /\ \A h \in Revokers : revoker'[h] = RevokerIdle
      BY <1>1 DEF PanelRestarts
    <2>2. UNCHANGED <<vault, nodes, revoked, undone>>
      BY <1>1 DEF PanelRestarts, ghosts
    <2> QED  BY <2>1, <2>2, IdleTypes DEF RevokedInv
  <1>2. CASE CliSaves
    <2>1. /\ UNCHANGED <<mapped, nodes, poller, revoker, undone>>
          /\ revoked' \subseteq revoked /\ \A g \in revoked' : vault'[g] = 0
      BY <1>2 DEF CliSaves, StoreSaves
    <2> QED  BY <2>1, RevokedStays
  <1>3. CASE ~PanelRestarts /\ ~CliSaves
    <2>1. UNCHANGED <<vault, mapped, nodes, poller, revoker, revoked, undone>>
      BY <1>3 DEF TokenCreated, GuestMoves, CliOpens, TimeGoesOn, nodesVars, vaults, ghosts
    <2> QED  BY <2>1 DEF RevokedInv
  <1> QED  BY <1>1, <1>2, <1>3

(* What the screen says of a guest is never fresher than the moment it was
   last listed, and a revoked credential is shown as revoked until there is a
   key again, for any number of overlapping requests and any interleaving of
   the poller, the vault and vpsmctl.                                      *)
THEOREM ScreenStaysHonest == NodesSpec => []ScreenIsHonest
  <1>1. NodesInit => StampInv /\ RevokedInv
    <2> SUFFICES ASSUME NodesInit PROVE StampInv /\ RevokedInv
      OBVIOUS
    <2>1. \A g \in Guests : nodes[g].at = 0 /\ nodes[g].gone = 0 /\ left[g] = 0
      BY DEF NodesInit, NeverSeen
    <2>2. poller.at = "idle" /\ revoked = {} /\ \A h \in Revokers : revoker[h].at = "idle"
      BY IdleTypes DEF NodesInit
    <2>3. instant = 1
      BY DEF NodesInit
    <2> QED
      BY <2>1, <2>2, <2>3 DEF StampInv, SeenInTime, TickInTime, GoneAfterSeen, LastListed, RevokedInv
  <1>2. ASSUME TypesInv, TypesInv', StampInv, RevokedInv, [NodesNext]_nodesVars
        PROVE  StampInv' /\ RevokedInv'
    BY <1>2, StampStep, PollerKeepsRevoked, RequestKeepsRevoked, OthersKeepRevoked
       DEF NodesNext, RevokeStep, Saving
  <1>3. ASSUME TypesInv, StampInv, RevokedInv PROVE ScreenIsHonest
    BY <1>3 DEF StampInv, SeenInTime, GoneAfterSeen, RevokedInv, ScreenIsHonest, Shown
  <1> QED  BY <1>1, <1>2, <1>3, InventoryTyped, PTL DEF NodesSpec
=============================================================================
