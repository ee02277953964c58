------------------------------ MODULE MCPanel ------------------------------
(* Parts of the panel side by side: the worker pool of the queue, the metric *)
(* alerts, the mobile sessions and the live calls.  They share no state, so a *)
(* behaviour moves one of them: the initial state picks which.               *)
EXTENDS MCJobQueue, Alerts, MCSession, LiveCall

CONSTANTS n1, n2

VARIABLE part  \* "queue", "alerts", "session" or "call": the one that moves

MCDef == (n1 :> [op |-> ">", threshold |-> 1, margin |-> 1, duration |-> 0, renotify |-> 2]
       @@ n2 :> [op |-> "<=", threshold |-> 0, margin |-> 2, duration |-> 1, renotify |-> 0])

TabSymmetry == Permutations(Tabs)

panelVars == <<part, vars, alertVars, sessionVars, liveCallVars>>

PanelInit ==
    /\ part \in {"queue", "alerts", "session", "call"}
    /\ Init /\ AlertInit /\ SessionInit /\ LiveCallInit

PanelNext ==
    /\ UNCHANGED part
    /\ \/ part = "queue" /\ Next /\ UNCHANGED <<alertVars, sessionVars, liveCallVars>>
       \/ part = "alerts" /\ AlertNext /\ UNCHANGED <<vars, sessionVars, liveCallVars>>
       \/ part = "session" /\ SessionNext /\ UNCHANGED <<vars, alertVars, liveCallVars>>
       \/ part = "call" /\ LiveCallNext /\ UNCHANGED <<vars, alertVars, sessionVars>>

PanelSpec == PanelInit /\ [][PanelNext]_panelVars
=============================================================================
