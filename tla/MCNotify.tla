------------------------------ MODULE MCNotify ------------------------------
(* What the panel tells the operator: the notification router, the mutexes  *)
(* around the hook that feeds it, and the inventory.  They share no state,  *)
(* so a behaviour moves one of them.                                        *)
EXTENDS NotifyRouter, QueueHook, Inventory, TLC

CONSTANTS r1, r2, c1, k1, k2, g1, g2

VARIABLE part  \* the one that moves

(* Two rules that share a channel; the second only wants one key.           *)
MCMatches(r, k) == r = r1 \/ k = k1
MCChannelsOf == (r1 :> {c1} @@ r2 :> {c1})

notifyVars == <<part, routerVars, hookVars, nodesVars>>

(* Two questions for the inventory: what becomes of the keys, when one      *)
(* guest has a token and the other may get one; and what the listing says.  *)
InventoryInit ==
    /\ NodesInit
    /\ IF part = "keys" THEN listed = {g1} /\ live[g1] = 1 /\ live[g2] = 0
                        ELSE listed = Guests /\ live[g1] = 1 /\ live[g2] = 1

NotifyInit ==
    /\ part \in {"router", "locks", "keys", "listing"}
    /\ RouterInit /\ HookInit /\ InventoryInit

NotifyNext ==
    /\ UNCHANGED part
    /\ \/ part = "router" /\ RouterNext /\ UNCHANGED <<hookVars, nodesVars>>
       \/ part = "locks" /\ HookNext /\ UNCHANGED <<routerVars, nodesVars>>
       \/ part = "keys" /\ NodesNext /\ UNCHANGED <<instant, listed, routerVars, hookVars>>
       \/ part = "listing" /\ NodesNext /\ UNCHANGED <<live, vault, routerVars, hookVars>>

(* The fairness of the part that moves: the poller is never idle for good.  *)
PollerMoves == part \in {"keys", "listing"} /\ Tick
SaveMoves(h) == part \in {"keys", "listing"} /\ Saving(h)

NotifySpec ==
    /\ NotifyInit /\ [][NotifyNext]_notifyVars
    /\ RouterFairness
    /\ WF_nodesVars(PollerMoves) /\ \A h \in Revokers : WF_nodesVars(SaveMoves(h))
=============================================================================
