---------------------------- MODULE MCScheduler ----------------------------
(* A schedule that fires at every instant, or at every second one.         *)
EXTENDS Scheduler, TLC

CONSTANTS s1, s2, backup, notice

MCNextAfter(id, t) == IF id = s1 THEN t + 1 ELSE 2 * (t \div 2) + 2
MCThenKind == (s1 :> notice @@ s2 :> None)
MCThenOn == (s1 :> "failure" @@ s2 :> "success")
=============================================================================
