------------------------------ MODULE MCMobile ------------------------------
(* The models of the mobile app and its BFF side by side.  They share no    *)
(* state, so a behaviour moves one of them: the initial state picks which,  *)
(* and the others stay where they start.                                    *)
EXTENDS UploadApp, MCOutbox

VARIABLE part  \* "api", "upload" or "outbox": the one that moves

mobileVars == <<part, uploadVars, outboxVars>>

MobileInit ==
    /\ part \in {"api", "upload", "outbox"}
    /\ ServerInit /\ PhoneInit /\ OutboxInit

MobileNext ==
    /\ UNCHANGED part
    /\ \/ part = "api" /\ ApiNext /\ UNCHANGED <<phone, outboxVars>>
       \/ part = "upload" /\ UploadNext /\ UNCHANGED outboxVars
       \/ part = "outbox" /\ OutboxNext /\ UNCHANGED uploadVars

MobileSpec ==
    MobileInit /\ [][MobileNext]_mobileVars /\ UploadFairness /\ OutboxFairness
=============================================================================
