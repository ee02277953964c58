------------------------------ MODULE MCOutbox ------------------------------
(* The server remembers one action for a while, the other for no time at    *)
(* all beyond the moment.                                                    *)
EXTENDS Outbox

CONSTANTS a1, a2

MCLife(a) == IF a = a1 THEN 1 ELSE 0
=============================================================================
