------------------------------ MODULE MCSession ------------------------------
(* Two threads of one phone, and one of another.                             *)
EXTENDS MobileSession, TLC

CONSTANTS d1, d2, t1, t2, t3

MCDeviceOf == (t1 :> d1 @@ t2 :> d1 @@ t3 :> d2)
=============================================================================
