----------------------------- MODULE Inventory -----------------------------
(***************************************************************************)
(* What the panel says of the guests of a hypervisor: the poller of        *)
(* internal/inventory, the vault of internal/secrets, and the handler of   *)
(* internal/api/handlers_nodes.go that revokes the credential of a guest.  *)
(* `vpsmctl secrets` writes the vault file from another process, without a *)
(* lock: each process saves the whole map it has in memory.                *)
(*                                                                         *)
(* The secret of a guest's token is a number, 0 is none.  Left out: the    *)
(* metrics of a guest, seeds (nodes of other transports), expiry dates.    *)
(***************************************************************************)
EXTENDS Naturals, FiniteSets

CONSTANTS
    Guests,       \* the guests whose tokens the panel holds
    Revokers,     \* requests to revoke that may overlap
    MaxInstant,   \* bound: the panel's clock
    MaxSecrets,   \* bound: secrets the hypervisor makes
    MaxForeign,   \* bound: calls of vpsmctl secrets
    MaxMoves,     \* bound: guests that leave or join the listing
    MaxFailures   \* bound: failed calls of the hypervisor, and crashes

ASSUME InventoryAssumption ==
    /\ IsFiniteSet(Guests)
    /\ MaxInstant \in Nat \ {0} /\ MaxSecrets \in Nat \ {0} /\ MaxForeign \in Nat
    /\ MaxMoves \in Nat /\ MaxFailures \in Nat

VARIABLES
    instant,
    listed,      \* guests that /cluster/resources lists
    left,        \* history: when a guest was last listed, for those that are not
    live,        \* per guest, the secret its token answers to
    secrets,     \* secrets made so far
    vault,       \* secrets.vault
    mapped,      \* Store.data of the panel
    stamps,      \* stamps that equal the file's: "panel" (Store.lastMod), "reload"
    nodes,       \* inventory.json
    poller,      \* where the tick is
    revoker,     \* where each request to revoke is
    cli,         \* where the call of vpsmctl secrets is
    revoked,     \* history: guests revoked and not given a key since
    orphaned,    \* history: guests whose key an unlocked overlap may cost
    undone,      \* history: guests whose deletion a reload of the vault undid
    foreign, moves, failures

hypervisor == <<listed, left, live, secrets, moves>>
vaults == <<vault, mapped, stamps>>
ghosts == <<revoked, orphaned, undone>>
nodesVars == <<instant, hypervisor, vaults, nodes, poller, revoker, cli, ghosts,
               foreign, failures>>

NoKeys == [g \in Guests |-> 0]
NeverSeen == [at |-> 0, gone |-> 0, token |-> FALSE, revogada |-> FALSE]
PollerIdle == [at |-> "idle", agora |-> 0, seen |-> {}, data |-> NoKeys]
RevokerIdle == [at |-> "idle", node |-> {}, secret |-> 0]
CliIdle == [at |-> "idle", node |-> {}, secret |-> 0, data |-> NoKeys]

Fails == failures < MaxFailures /\ failures' = failures + 1

(* inventoryFileMu and the flock: only the tick keeps them over several
   steps, for the vault is read inside its Replace.                        *)
InventoryFree == poller.at \notin {"read", "stamped", "loaded"}

(* Store.mu of the vault, which save keeps from its write to its stamp.    *)
VaultFree == \A h \in Revokers : revoker[h].at \notin {"stamp", "stampMeta"}

(* The whole map m of a process becomes the file.  The keys it did not mean
   to touch, and yet changes, are those that another process wrote.  The
   file's modification time is no longer any that was noted.               *)
StoreSaves(m, meant) ==
    /\ vault' = m /\ stamps' = {}
    /\ orphaned' = orphaned \cup {g \in Guests \ meant : m[g] # vault[g]}
    /\ revoked' = {g \in revoked : m[g] = 0}

-----------------------------------------------------------------------------
(* The tick of the poller.                                                 *)

(* The instant that will be the stamp is read before the calls.            *)
TickBegins ==
    /\ poller.at = "idle"
    /\ poller' = [poller EXCEPT !.at = "asked", !.agora = instant]
    /\ UNCHANGED <<instant, hypervisor, vaults, nodes, revoker, cli, ghosts, foreign, failures>>

ClusterResources ==
    /\ poller.at = "asked"
    /\ poller' = [poller EXCEPT !.at = "answered", !.seen = listed]
    /\ UNCHANGED <<instant, hypervisor, vaults, nodes, revoker, cli, ghosts, foreign, failures>>

(* A failed discovery touches no guest, but for a 401 of the poller's own
   token: marcaCredencialRevogada.                                         *)
DiscoveryFails(unauthorized) ==
    /\ poller.at = "asked" /\ Fails
    /\ poller' = PollerIdle
    /\ nodes' = [g \in Guests |-> IF unauthorized /\ nodes[g] # NeverSeen
                                  THEN [nodes[g] EXCEPT !.revogada = TRUE] ELSE nodes[g]]
    /\ UNCHANGED <<instant, hypervisor, vaults, revoker, cli, ghosts, foreign>>

(* ReloadIfChanged, inside Replace: when the file is not the one the panel
   wrote or read last, Open reads it ...                                   *)
Changed_Never == FALSE  \* mutant: the vault is read once, at boot
Changed == "panel" \notin stamps

VaultUnchanged ==
    /\ poller.at = "answered" /\ VaultFree /\ ~Changed
    /\ poller' = [poller EXCEPT !.at = "loaded"]
    /\ UNCHANGED <<instant, hypervisor, vaults, nodes, revoker, cli, ghosts, foreign, failures>>

ReloadReads ==
    /\ poller.at = "answered" /\ VaultFree /\ Changed
    /\ poller' = [poller EXCEPT !.at = "read", !.data = vault]
    /\ UNCHANGED <<instant, hypervisor, vaults, nodes, revoker, cli, ghosts, foreign, failures>>

(* ... and stamps it, a key derivation later ...                           *)
ReloadStamps ==
    /\ poller.at = "read"
    /\ poller' = [poller EXCEPT !.at = "stamped"] /\ stamps' = stamps \cup {"reload"}
    /\ UNCHANGED <<instant, hypervisor, vault, mapped, nodes, revoker, cli, ghosts, foreign, failures>>

(* ... and what was read becomes the panel's map.                          *)
ReloadSwaps ==
    /\ poller.at = "stamped" /\ VaultFree
    /\ mapped' = poller.data
    /\ stamps' = IF "reload" \in stamps THEN {"panel"} ELSE {}
    /\ undone' = undone \cup {g \in Guests : poller.data[g] # 0 /\ \E h \in Revokers :
                    /\ revoker[h].node = {g}
                    /\ revoker[h].at \in {"save", "saveMeta", "recheck", "mark"}}
    /\ poller' = [poller EXCEPT !.at = "loaded", !.data = NoKeys]
    /\ UNCHANGED <<instant, hypervisor, vault, nodes, revoker, cli,
                   revoked, orphaned, foreign, failures>>

(* aplicaDescoberta: whoever is listed gets the stamp, nobody is deleted.
   marcaSumidos: whoever is known and not listed is absent, from the first
   answer that missed it on; an answer without any guest says nothing.     *)
Stamp_Late(p) == instant  \* mutant: the clock is read when the answer is applied
Stamp(p) == p.agora

Discovered(n, g, p) ==
    IF g \in p.seen THEN [n EXCEPT !.at = Stamp(p), !.gone = 0]
    ELSE IF n # NeverSeen /\ n.gone = 0 /\ p.seen # {} THEN [n EXCEPT !.gone = Stamp(p)]
    ELSE n

(* aplicaCredenciais: a key in the vault is a credential of unresolved
   state; no key is none, unless it is known to be revoked.                *)
Credentialed(n, key) ==
    IF n = NeverSeen \/ (key = 0 /\ n.revogada) THEN n
    ELSE [n EXCEPT !.token = key # 0, !.revogada = FALSE]

TickReplaces ==
    /\ poller.at = "loaded" /\ VaultFree
    /\ nodes' = [g \in Guests |-> Credentialed(Discovered(nodes[g], g, poller), mapped[g])]
    /\ poller' = PollerIdle
    /\ UNCHANGED <<instant, hypervisor, vaults, revoker, cli, ghosts, foreign, failures>>

-----------------------------------------------------------------------------
(* revogaCredencial.                                                       *)

Step(h, at) == revoker' = [revoker EXCEPT ![h].at = at]
Answers(h) == revoker' = [revoker EXCEPT ![h] = RevokerIdle]
Node(h) == CHOOSE g \in Guests : g \in revoker[h].node

RevokeBegins(h, g) ==
    /\ revoker[h].at = "idle" /\ InventoryFree /\ VaultFree
    /\ nodes[g] # NeverSeen
    /\ revoker' = [revoker EXCEPT ![h] = [at |-> "delete", node |-> {g}, secret |-> mapped[g]]]
    /\ orphaned' = IF live[g] \in {0, mapped[g]} THEN orphaned ELSE orphaned \cup {g}
    /\ UNCHANGED <<instant, hypervisor, vaults, nodes, poller, cli, revoked, undone, foreign, failures>>

(* Step 1, the hypervisor.  An answer may be lost on the way, and the word
   of the hypervisor is not taken for the deed.                            *)
DeleteToken(h) ==
    /\ revoker[h].at = "delete" /\ live[Node(h)] # 0
    /\ live' = [live EXCEPT ![Node(h)] = 0]
    /\ \/ Step(h, "confirm") /\ UNCHANGED failures
       \/ Answers(h) /\ Fails
    /\ UNCHANGED <<instant, listed, left, secrets, moves, vaults, nodes, poller, cli, ghosts, foreign>>

DeleteTokenFails(h) ==
    /\ revoker[h].at = "delete"
    /\ \/ live[Node(h)] = 0 /\ Answers(h) /\ UNCHANGED failures
       \/ (Answers(h) \/ Step(h, "confirm")) /\ Fails
    /\ UNCHANGED <<instant, hypervisor, vaults, nodes, poller, cli, ghosts, foreign>>

(* Step 2, the proof: the secret that was read gets a 401.                 *)
Proven_Trusting(h) == TRUE  \* mutant: DeleteToken said so
Proven(h) == revoker[h].secret # live[Node(h)]

Confirm(h) ==
    /\ revoker[h].at = "confirm"
    /\ IF revoker[h].secret = 0 \/ Proven(h) 
       THEN revoker' = [revoker EXCEPT ![h].at = "vault", ![h].secret = 0]
       ELSE Answers(h)
    /\ UNCHANGED <<instant, hypervisor, vaults, nodes, poller, cli, ghosts, foreign, failures>>

(* Step 3, the vault: Store.Delete, and the save of the whole map; then the
   same for the metadata of the key, if it has any.                        *)
VaultDelete(h) ==
    /\ revoker[h].at = "vault" /\ VaultFree
    /\ mapped' = [mapped EXCEPT ![Node(h)] = 0]
    /\ Step(h, "save")
    /\ UNCHANGED <<instant, hypervisor, vault, stamps, nodes, poller, cli, ghosts,
                   foreign, failures>>

VaultSaves(h) ==
    /\ revoker[h].at \in {"save", "saveMeta"} /\ VaultFree
    /\ StoreSaves(mapped, revoker[h].node)
    /\ Step(h, IF revoker[h].at = "save" THEN "stamp" ELSE "stampMeta")
    /\ UNCHANGED <<instant, hypervisor, mapped, nodes, poller, cli, undone, foreign, failures>>

VaultStamps(h) ==
    /\ revoker[h].at \in {"stamp", "stampMeta"}
    /\ stamps' = stamps \cup {"panel"}
    /\ Step(h, "recheck") \/ (revoker[h].at = "stamp" /\ Step(h, "saveMeta"))
    /\ UNCHANGED <<instant, hypervisor, vault, mapped, nodes, poller, cli, ghosts,
                   foreign, failures>>

(* Step 4: the key must be gone, from the panel's map.                     *)
Recheck(h) ==
    /\ revoker[h].at = "recheck" /\ VaultFree
    /\ IF mapped[Node(h)] # 0 THEN Answers(h) ELSE Step(h, "mark")
    /\ UNCHANGED <<instant, hypervisor, vaults, nodes, poller, cli, ghosts, foreign, failures>>

Mark(h) ==
    /\ revoker[h].at = "mark" /\ InventoryFree
    /\ nodes' = [nodes EXCEPT ![Node(h)].revogada = TRUE, ![Node(h)].token = FALSE]
    /\ Answers(h)
    /\ revoked' = IF vault[Node(h)] = 0 THEN revoked \cup revoker[h].node ELSE revoked
    /\ UNCHANGED <<instant, hypervisor, vaults, poller, cli, orphaned, undone, foreign, failures>>

-----------------------------------------------------------------------------
(* vpsmctl secrets, from the operator's scripts.                           *)

(* A guest without a token is given one, whose secret is for the vault.    *)
TokenCreated(g) ==
    /\ cli.at = "idle" /\ foreign < MaxForeign /\ foreign' = foreign + 1
    /\ live[g] = 0 /\ secrets < MaxSecrets
    /\ secrets' = secrets + 1 /\ live' = [live EXCEPT ![g] = secrets']
    /\ cli' = [CliIdle EXCEPT !.at = "created", !.node = {g}, !.secret = secrets']
    /\ orphaned' = IF \E h \in Revokers : revoker[h].node = {g} THEN orphaned \cup {g} ELSE orphaned
    /\ UNCHANGED <<instant, listed, left, moves, vaults, nodes, poller, revoker, revoked, undone, failures>>

(* secrets set: Open reads the file; some other key may be meant.          *)
CliOpens ==
    /\ \/ cli.at = "created" /\ UNCHANGED foreign
       \/ cli.at = "idle" /\ foreign < MaxForeign /\ foreign' = foreign + 1
    /\ cli' = [cli EXCEPT !.at = "opened", !.data = vault]
    /\ UNCHANGED <<instant, hypervisor, vaults, nodes, poller, revoker, ghosts, failures>>

(* Set saves, and SetWithMeta once more.                                   *)
CliSaves ==
    /\ cli.at \in {"opened", "saved"}
    /\ StoreSaves([g \in Guests |-> IF g \in cli.node THEN cli.secret ELSE cli.data[g]], cli.node)
    /\ cli' = IF cli.at = "opened" THEN [cli EXCEPT !.at = "saved"] ELSE CliIdle
    /\ UNCHANGED <<instant, hypervisor, mapped, nodes, poller, revoker, undone, foreign, failures>>

-----------------------------------------------------------------------------
(* A guest is stopped for good, migrated, or back.                         *)
GuestMoves(g) ==
    /\ moves < MaxMoves /\ moves' = moves + 1
    /\ listed' = IF g \in listed THEN listed \ {g} ELSE listed \cup {g}
    /\ left' = [left EXCEPT ![g] = instant]
    /\ UNCHANGED <<instant, live, secrets, vaults, nodes, poller, revoker, cli, ghosts, foreign, failures>>

TimeGoesOn ==
    /\ instant < MaxInstant
    /\ instant' = instant + 1
    /\ UNCHANGED <<hypervisor, vaults, nodes, poller, revoker, cli, ghosts, foreign, failures>>

(* The panel restarts and opens the vault; what it was doing is dropped.   *)
PanelRestarts ==
    /\ Fails
    /\ mapped' = vault /\ stamps' = {"panel"}
    /\ poller' = PollerIdle /\ revoker' = [h \in Revokers |-> RevokerIdle]
    /\ UNCHANGED <<instant, hypervisor, vault, nodes, cli, ghosts, foreign>>

NodesInit ==
    /\ instant = 1 /\ listed \in SUBSET Guests /\ left = [g \in Guests |-> 0]
    /\ live \in [Guests -> {0, 1}] /\ secrets = 1
    /\ vault = live /\ mapped = vault /\ stamps = {"panel"}
    /\ nodes = [g \in Guests |-> NeverSeen]
    /\ poller = PollerIdle /\ revoker = [h \in Revokers |-> RevokerIdle] /\ cli = CliIdle
    /\ revoked = {} /\ orphaned = {} /\ undone = {}
    /\ foreign = 0 /\ moves = 0 /\ failures = 0

Tick ==
    \/ TickBegins \/ ClusterResources
    \/ VaultUnchanged \/ ReloadReads \/ ReloadStamps \/ ReloadSwaps \/ TickReplaces

Saving(h) == VaultSaves(h) \/ VaultStamps(h)

NodesNext ==
    \/ Tick \/ \E unauthorized \in BOOLEAN : DiscoveryFails(unauthorized)
    \/ \E h \in Revokers :
          \/ \E g \in Guests : RevokeBegins(h, g)
          \/ DeleteToken(h) \/ DeleteTokenFails(h) \/ Confirm(h)
          \/ VaultDelete(h) \/ Saving(h) \/ Recheck(h) \/ Mark(h)
    \/ \E g \in Guests : TokenCreated(g) \/ GuestMoves(g)
    \/ CliOpens \/ CliSaves \/ TimeGoesOn \/ PanelRestarts

(* Run ticks for as long as the panel is up, and a save that has begun ends. *)
NodesFairness == WF_nodesVars(Tick) /\ \A h \in Revokers : WF_nodesVars(Saving(h))

NodesSpec == NodesInit /\ [][NodesNext]_nodesVars /\ NodesFairness

-----------------------------------------------------------------------------
(* Properties.                                                             *)

(* revogaCredencial: never "a clean vault with the token ALIVE on the
   hypervisor", whatever step fails or crashes.  What the order of the steps
   cannot prevent is named: a process saved a map older than the file, the
   token was created while it was being revoked, or the panel did not hold
   the secret of the live token, to prove the revocation with.             *)
NoOrphanToken ==
    \A g \in Guests \ orphaned :
        live[g] # 0 /\ g \notin cli.node => vault[g] = live[g]

(* The credential state of /api/nodes: credentialState and enriqueceCofre. *)
Shown(g) ==
    IF nodes[g].revogada THEN "revogada"
    ELSE IF nodes[g].token /\ mapped[g] # 0 THEN "ok" ELSE "ausente"

LastListed(g) == IF g \in listed THEN instant ELSE left[g]

(* "stale data presented as live" is what the stamps forbid: a guest's stamp
   is never later than the last moment it was there to be seen, it is never
   absent since before it was seen, and a revoked credential is shown as
   revoked until the vault has a key again (but for a reload of the vault
   that undid the deletion).                                               *)
ScreenIsHonest ==
    \A g \in Guests :
        /\ nodes[g].at <= LastListed(g)
        /\ nodes[g].gone = 0 \/ nodes[g].at <= nodes[g].gone
        /\ g \in revoked \ undone => Shown(g) = "revogada"

(* The panel takes the file of another writer for the one it read itself.  *)
Missed == "panel" \in stamps /\ mapped # vault

(* ReloadIfChanged: a secret written by another process is not "invisible to
   the panel until the next restart"; a guest that has a key again is shown
   with it, although the panel knew it as revoked.                         *)
RecreatedIsShown ==
    \A g \in Guests :
        LET Keyed == nodes[g] # NeverSeen /\ vault[g] # 0 /\ ~Missed
        IN  Keyed ~> (Shown(g) = "ok" \/ ~Keyed)
=============================================================================
