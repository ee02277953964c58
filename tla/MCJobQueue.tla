---------------------------- MODULE MCJobQueue ----------------------------
(* Instances of JobQueue for TLC; each configuration picks one of them.    *)
EXTENDS JobQueue, TLC

CONSTANTS
    shell, backup, analysis,  \* kinds: not resumable, resumable, detached
    a, b                      \* jobs

AllCalls == {"cancel", "delete", "rerun"}

(* Worker pool: a side-effecting job and a resumable one.                  *)
PoolKindOf == (a :> shell @@ b :> backup)
PoolRequests == (a :> {"cancel", "delete", "shutdown"} @@ b :> {"delete", "rerun", "shutdown"})

(* One job, detached or in the process (MaxJobs = 1).                      *)
EitherKindOf == (a :> analysis @@ b :> shell)
EitherRequests == (a :> AllCalls @@ b :> AllCalls \cup {"shutdown"})

(* One detached job: with every call, and with none.                       *)
DetachedKindOf == (a :> analysis)
DetachedRequests == (a :> AllCalls)
NoRequests == (a :> {})

(* A job that stays in the process, with every call.                       *)
RerunKindOf == (a :> shell)
=============================================================================
