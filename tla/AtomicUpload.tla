---------------------------- MODULE AtomicUpload ----------------------------
(***************************************************************************)
(* What an upload promises, whatever happens on the way: the destination    *)
(* holds nothing or a whole file, it changes at once from one to the next,  *)
(* and the user is told of a success only once a whole file is there.       *)
(***************************************************************************)
CONSTANTS Whole, None

VARIABLES file, told

Init == file = None /\ told = FALSE

Publish == file' \in Whole /\ UNCHANGED told
Report  == file \in Whole /\ told' = TRUE /\ UNCHANGED file
Restart == told' = FALSE /\ UNCHANGED file

Spec == Init /\ [][Publish \/ Report \/ Restart]_<<file, told>>
=============================================================================
