---------------------------- MODULE UploadServer ----------------------------
(***************************************************************************)
(* Chunked uploads on the server: internal/files/mobile_transfer.go behind  *)
(* the routes of internal/mobilebff/handlers_transfer.go.  A session is a   *)
(* staging directory that holds the data file, as long as the final file    *)
(* from the start, and the sidecar session.json with the merged ranges      *)
(* received.  Each operation holds the session's lock, InitUpload apart,    *)
(* and the process may die between any two of its writes to the disk.       *)
(*                                                                          *)
(* A byte of a file is the source it was read from, or Hole while nothing   *)
(* was written at its place.  All sessions name the same destination.       *)
(***************************************************************************)
EXTENDS Integers, Sequences, FiniteSets, SequencesExt

CONSTANTS
    Sids,        \* session ids (bound: uploads initiated)
    Sources,     \* files a caller may send
    Size,        \* TotalSize, in units of a byte
    TTL,         \* staleUploadSessionTTL
    Hole, None,
    MaxClock, MaxFaults, MaxCalls  \* bounds: time, crashes and failures, API calls

ASSUME UploadAssumptions ==
    /\ Size \in Nat \ {0} /\ TTL \in Nat \ {0}
    /\ MaxClock \in Nat /\ MaxFaults \in Nat /\ MaxCalls \in Nat
    /\ Hole \notin Sources /\ None \notin Sources \cup Sids
    /\ None \notin [0..(Size - 1) -> Sources \cup {Hole}]

VARIABLES
    now,       \* time.Now()
    sidecar,   \* session.json: [ranges, received, updated], or None
    staged,    \* the data file: the source of each byte, or None
    made,      \* mtime of the staging directory, None when there is no directory
    op,        \* per session, the operation between two of its disk writes
    dest,      \* the file at dest_dir/filename, or None
    answer,    \* what the app's request was answered: [code, n], or None
    used,      \* ids given out
    faults, calls

server == <<sidecar, staged, made, op, dest, answer, used>>
serverVars == <<now, server, faults, calls>>

Bytes == 0..(Size - 1)
Unread == -1  \* the body of a 409 before SessionStatus is read

-----------------------------------------------------------------------------
(* addRange and sumRanges.                                                 *)
Merge(m, r) ==
    IF m # <<>> /\ r.off <= Last(m).off + Last(m).len
    THEN [m EXCEPT ![Len(m)].len =
              IF r.off + r.len > Last(m).off + @ THEN r.off + r.len - Last(m).off ELSE @]
    ELSE Append(m, r)

(* sort.Slice: the elements in an order in which no offset decreases.      *)
Sorts(q, s) ==
    /\ \A i \in 2..Len(s) : s[q[i - 1]].off <= s[q[i]].off
    /\ {q[i] : i \in 1..Len(s)} = 1..Len(s)
ByOffset(s) ==
    LET order == CHOOSE q \in [1..Len(s) -> 1..Len(s)] : Sorts(q, s)
    IN  [i \in 1..Len(s) |-> s[order[i]]]

addRange(ranges, off, len) ==
    IF len <= 0 THEN ranges
    ELSE LET s == ByOffset(Append(ranges, [off |-> off, len |-> len]))
             merged[i \in 0..Len(s)] == IF i = 0 THEN <<>> ELSE Merge(merged[i - 1], s[i])
         IN  merged[Len(s)]

sumRanges(ranges) ==
    LET total[i \in 0..Len(ranges)] == IF i = 0 THEN 0 ELSE total[i - 1] + ranges[i].len
    IN  total[Len(ranges)]

-----------------------------------------------------------------------------
(* The operations.  who is the caller: the answers to the app are kept.    *)
Answer(who, code, n) == answer' = IF who = "app" THEN [code |-> code, n |-> n] ELSE answer

(* uuid.NewString: an id never given out before, whichever it is.          *)
NewSid == CHOOSE s \in Sids : s \notin used

(* InitUpload: the directory and the data file are made, and then the
   sidecar, without the session's lock.                                    *)
InitUpload(who) ==
    /\ used # Sids /\ used' = used \cup {NewSid}
    /\ made' = [made EXCEPT ![NewSid] = now]
    /\ staged' = [staged EXCEPT ![NewSid] = [b \in Bytes |-> Hole]]
    /\ op' = [op EXCEPT ![NewSid] = [kind |-> "init", who |-> who]]
    /\ UNCHANGED <<sidecar, dest, answer>>

InitUploadSaves(s) ==
    /\ op[s] # None /\ op[s].kind = "init"
    /\ op' = [op EXCEPT ![s] = None]
    /\ IF made[s] = None
       THEN Answer(op[s].who, 404, 0) /\ UNCHANGED sidecar
       ELSE /\ sidecar' = [sidecar EXCEPT ![s] =
                             [ranges |-> <<>>, received |-> 0, updated |-> now]]
            /\ Answer(op[s].who, 200, s)
    /\ UNCHANGED <<staged, made, dest, used>>

(* WriteChunk: WriteAt first, and then the ranges.                         *)
Written(s, off, len, src) ==
    [staged EXCEPT ![s] = [b \in Bytes |-> IF b \in off..(off + len - 1) THEN src ELSE @[b]]]

WriteChunk(s, off, len, src, who) ==
    /\ op[s] = None
    /\ \/ /\ sidecar[s] = None
          /\ Answer(who, 404, 0) /\ UNCHANGED <<staged, op>>
       \/ /\ sidecar[s] # None /\ (off < 0 \/ off + len > Size)
          /\ Answer(who, 400, 0) /\ UNCHANGED <<staged, op>>
       \/ /\ sidecar[s] # None /\ off >= 0 /\ off + len <= Size /\ len = 0
          /\ Answer(who, 200, sidecar[s].received) /\ UNCHANGED <<staged, op>>
       \/ /\ sidecar[s] # None /\ off >= 0 /\ off + len <= Size /\ len > 0
          /\ IF staged[s] = None
             THEN Answer(who, 404, 0) /\ UNCHANGED <<staged, op>>
             ELSE /\ staged' = Written(s, off, len, src)
                  /\ op' = [op EXCEPT ![s] = [kind |-> "chunk", who |-> who,
                                              off |-> off, len |-> len]]
                  /\ UNCHANGED answer
    /\ UNCHANGED <<sidecar, made, dest, used>>

(* The disk is full: the write fails, and part of it may have been made.   *)
WriteChunkFails(s, off, len, src, who) ==
    /\ op[s] = None /\ sidecar[s] # None /\ staged[s] # None
    /\ len > 0 /\ off >= 0 /\ off + len <= Size
    /\ \E n \in 0..len : staged' = Written(s, off, n, src)
    /\ Answer(who, 507, 0)
    /\ UNCHANGED <<sidecar, made, op, dest, used>>

Received_Inflated(s, ranges) == sidecar[s].received + op[s].len  \* mutant: the size of each chunk is added up
Received(s, ranges) == sumRanges(ranges)

WriteChunkSaves(s) ==
    /\ op[s] # None /\ op[s].kind = "chunk"
    /\ op' = [op EXCEPT ![s] = None]
    /\ \E ranges \in {addRange(sidecar[s].ranges, op[s].off, op[s].len)} :
          /\ sidecar' = [sidecar EXCEPT ![s] =
                            [ranges |-> ranges, received |-> Received(s, ranges), updated |-> now]]
          /\ Answer(op[s].who, 200, Received(s, ranges))
    /\ UNCHANGED <<staged, made, dest, used>>

(* CompleteUpload: an incomplete session is left alone; otherwise the data
   file is renamed, and then the directory removed.                        *)
CompleteUpload(s, who) ==
    /\ op[s] = None
    /\ \/ /\ sidecar[s] = None
          /\ Answer(who, 404, 0) /\ UNCHANGED <<staged, dest, op>>
       \/ /\ sidecar[s] # None /\ sidecar[s].received # Size
          /\ Answer(who, 409, Unread) /\ UNCHANGED <<staged, dest, op>>
       \/ /\ sidecar[s] # None /\ sidecar[s].received = Size
          /\ IF staged[s] = None
             THEN Answer(who, 404, 0) /\ UNCHANGED <<staged, dest, op>>
             ELSE /\ dest' = staged[s]
                  /\ staged' = [staged EXCEPT ![s] = None]
                  /\ op' = [op EXCEPT ![s] = [kind |-> "complete", who |-> who]]
                  /\ UNCHANGED answer
    /\ UNCHANGED <<sidecar, made, used>>

CompleteUploadRemoves(s) ==
    /\ op[s] # None /\ op[s].kind = "complete"
    /\ op' = [op EXCEPT ![s] = None]
    /\ sidecar' = [sidecar EXCEPT ![s] = None] /\ made' = [made EXCEPT ![s] = None]
    /\ Answer(op[s].who, 200, 0)
    /\ UNCHANGED <<staged, dest, used>>

(* The handler of upload/complete reads SessionStatus for the body of the
   409 once the lock is released.                                          *)
SessionStatus(s) ==
    /\ answer # None /\ answer.code = 409 /\ answer.n = Unread
    /\ Answer("app", 409, IF sidecar[s] = None THEN 0 ELSE sidecar[s].received)
    /\ UNCHANGED <<sidecar, staged, made, op, dest, used>>

(* reapOneSessionIfStale.  A cutoff computed earlier in the sweep removes
   less, never more.                                                       *)
sessionLastActivity_Mtime(s) == made[s]  \* mutant: the mtime of the directory, sidecar or not
sessionLastActivity(s) == IF sidecar[s] # None THEN sidecar[s].updated ELSE made[s]

ReapStale(s) ==
    /\ made[s] # None
    /\ op[s] # None => op[s].kind = "init"
    /\ sessionLastActivity(s) <= now - TTL
    /\ sidecar' = [sidecar EXCEPT ![s] = None]
    /\ staged' = [staged EXCEPT ![s] = None]
    /\ made' = [made EXCEPT ![s] = None]
    /\ UNCHANGED <<op, dest, answer, used>>

(* The process dies: the requests being served get no answer.              *)
Crash ==
    /\ op' = [s \in Sids |-> None]
    /\ answer' = None
    /\ UNCHANGED <<sidecar, staged, made, dest, used>>

-----------------------------------------------------------------------------
(* The server on its own: callers of the API send chunks in any order, of
   any length, again and again.                                            *)
ServerInit ==
    /\ now = 0 /\ faults = 0 /\ calls = 0
    /\ sidecar = [s \in Sids |-> None] /\ staged = [s \in Sids |-> None]
    /\ made = [s \in Sids |-> None] /\ op = [s \in Sids |-> None]
    /\ dest = None /\ answer = None /\ used = {}

Call(A) == calls < MaxCalls /\ calls' = calls + 1 /\ A /\ UNCHANGED <<now, faults>>
Fault(A) == faults < MaxFaults /\ faults' = faults + 1 /\ A /\ UNCHANGED <<now, calls>>

ClockMoves == now < MaxClock /\ now' = now + 1 /\ UNCHANGED <<server, faults, calls>>

Saves(s) ==
    /\ InitUploadSaves(s) \/ WriteChunkSaves(s) \/ CompleteUploadRemoves(s)
    /\ UNCHANGED <<now, faults, calls>>

Reap(s) == ReapStale(s) /\ UNCHANGED <<now, faults, calls>>

ApiNext ==
    \/ ClockMoves
    \/ Fault(Crash)
    \/ Call(InitUpload("api"))
    \/ \E s \in Sids :
        \/ Call(CompleteUpload(s, "api"))
        \/ Saves(s) \/ Reap(s)
        \/ \E off \in -1..Size, len \in 0..2, src \in Sources :
            \/ Call(WriteChunk(s, off, len, src, "api"))
            \/ Fault(WriteChunkFails(s, off, len, src, "api"))

ApiSpec == ServerInit /\ [][ApiNext]_serverVars

-----------------------------------------------------------------------------
(* Properties.                                                             *)

Covered(ranges) == UNION {r.off..(r.off + r.len - 1) : r \in ToSet(ranges)}

(* "ReceivedBytes only matches TotalSize when the WHOLE interval has
   genuinely been covered": the ranges of every sidecar are apart and in
   order, received_bytes is the number of bytes they cover, and each of
   these bytes was really written, whatever the order of the chunks, their
   overlaps, the retries and the crashes between the write of the data and
   the save of the sidecar.                                                *)
ReceivedIsCoverage ==
    \A s \in Sids : sidecar[s] # None =>
        LET rs == sidecar[s].ranges
        IN  /\ \A i \in 1..(Len(rs) - 1) : rs[i].off + rs[i].len < rs[i + 1].off
            /\ Covered(rs) \subseteq Bytes
            /\ sidecar[s].received = Cardinality(Covered(rs))
            /\ staged[s] # None => \A b \in Covered(rs) : staged[s][b] # Hole

(* ReapStaleUploadSessions' "Safety against deleting an in-flight session":
   the data of a session leaves the staging area only for the destination,
   or when nothing was saved for it during TTL; a write under way is never
   interrupted by the reaper.                                              *)
InFlightIsKept ==
    [][\A s \in Sids : (staged[s] # None /\ staged'[s] = None) =>
          \/ dest' = staged[s] /\ sidecar[s].received = Size
          \/ /\ \/ sidecar[s] = None
                \/ op[s] = None /\ now - sidecar[s].updated >= TTL
             /\ now - made[s] >= TTL]_serverVars
=============================================================================
