------------------------------- MODULE Outbox -------------------------------
(***************************************************************************)
(* Writes made without a network: the app's queue FilaDeEnvio and its worker *)
(* TrabalhoDeEnvio on the phone, and on the server what recognises a retry:  *)
(* the table behind Idempotency-Key (internal/mobilebff/idempotencia*.go)    *)
(* and, for WhatsApp, client_msg_id (internal/whatsapp).                     *)
(*                                                                          *)
(* An action is first tried in the foreground; an IOException puts it in the *)
(* queue.  _pendentes is read and written without a lock by the caller and   *)
(* by the worker, and the file is truncated and then written.                *)
(***************************************************************************)
EXTENDS Integers, Sequences, SequencesExt, FiniteSets

CONSTANTS
    Actions,          \* what the user asks for, each once
    InBody,           \* those whose body carries the key (client_msg_id)
    TETO,             \* capacity of the queue
    Life(_),          \* how long the server remembers an action
    Nil,
    OMaxClock, OMaxFaults  \* bounds

Stages == {"sent", "running", "ran", "done", "lost"}
Results == {"ok", "refused", "error"}
WorkSteps == {"off", "loop", "wait", "success", "drop", "gravar", "write"}

ASSUME OutboxAssumptions ==
    /\ InBody \subseteq Actions /\ TETO \in Nat \ {0}
    /\ \A a \in Actions : Life(a) \in Nat
    /\ OMaxClock \in Nat /\ OMaxFaults \in Nat
    /\ Nil \notin Nat /\ Nil \notin [a : Actions, st : Stages, res : Results \cup {Nil}]
    /\ Nil \notin [at : WorkSteps, list : Seq(Actions)]

VARIABLES
    oclock, ofaults,
    mem,      \* _pendentes
    file,     \* fila-de-envio.json: a list, or Nil while it is half written
    enq,      \* the enfileirar under way: [a, at, list]
    wk,       \* the worker: [at, list]
    works,    \* WorkRequests in the unique chain
    told,     \* per action, what the screen said: "new", "queued", "ok", "error"
    slot,     \* the request of the worker, and one it gave up on
    table,    \* on the server, per action: when its result was remembered
    runs,     \* history: executions of each action
    settled,  \* history: actions delivered, or reported refused (recusadas)
    overlap, torn, explained  \* history: windows met

fila == <<mem, file, enq, wk, works, told>>
memory == <<settled, overlap, torn>>
retry == <<slot, table, runs, explained>>
outboxVars == <<oclock, ofaults, fila, memory, retry>>

Slots == {"wk", "old"}
Stands(x, st) == slot[x] # Nil /\ slot[x].st = st
Off == [at |-> "off", list |-> <<>>]

-----------------------------------------------------------------------------
(* The phone.                                                              *)

(* A repository calls the BFF in the foreground.  When it throws IOException
   the action may have run all the same, and goes to the queue.  Only a body
   that carries its own key is recognisable at this point: the queue's id
   does not exist yet.                                                     *)
Ask(a) ==
    /\ told[a] = "new" /\ enq = Nil
    /\ \E ran, answered \in BOOLEAN :
          /\ told' = [told EXCEPT ![a] = IF ~answered THEN "asked" ELSE IF ran THEN "ok" ELSE "error"]
          /\ enq' = IF answered THEN Nil ELSE [a |-> a, at |-> "read", list |-> <<>>]
          /\ runs' = [runs EXCEPT ![a] = IF ran THEN @ + 1 ELSE @]
          /\ table' = IF ran /\ a \in InBody THEN [table EXCEPT ![a] = oclock] ELSE table
          /\ explained' = IF ran /\ a \notin InBody THEN explained \cup {a} ELSE explained
    /\ UNCHANGED <<oclock, ofaults, mem, file, wk, works, memory, slot>>

(* enfileirar: read the list, publish the new one, write the file, agendar. *)
Busy(p) == p # Nil /\ p.at \in {"set", "drop", "gravar", "write"}

EnqueueRead ==
    /\ enq # Nil /\ enq.at = "read"
    /\ IF Len(mem) >= TETO
       THEN enq' = Nil /\ told' = [told EXCEPT ![enq.a] = "error"]
       ELSE enq' = [enq EXCEPT !.at = "set", !.list = Append(mem, enq.a)] /\ UNCHANGED told
    /\ overlap' = (overlap \/ Busy(wk))
    /\ UNCHANGED <<oclock, ofaults, mem, file, wk, works, settled, torn, retry>>

EnqueueSet ==
    /\ enq # Nil /\ enq.at = "set"
    /\ mem' = enq.list /\ enq' = [enq EXCEPT !.at = "gravar"]
    /\ UNCHANGED <<oclock, ofaults, file, wk, works, told, memory, retry>>

(* gravar: writeText truncates the file and then writes it.                *)
Truncates(p) == p # Nil /\ p.at = "gravar" /\ file' = Nil
Writes(p) == p # Nil /\ p.at = "write" /\ file' = p.list

EnqueueTruncates ==
    /\ Truncates(enq) /\ enq' = [enq EXCEPT !.at = "write"]
    /\ UNCHANGED <<oclock, ofaults, mem, wk, works, told, memory, retry>>

EnqueueWrites ==
    /\ Writes(enq) /\ enq' = [enq EXCEPT !.at = "agendar"]
    /\ UNCHANGED <<oclock, ofaults, mem, wk, works, told, memory, retry>>

(* APPEND_OR_REPLACE: a new work after those of the chain.                 *)
agendar_Keep == works' = IF works = 0 THEN 1 ELSE works  \* mutant: KEEP
agendar == works' = works + 1

EnqueueEnds ==
    /\ enq # Nil /\ enq.at = "agendar" /\ enq' = Nil
    /\ agendar
    /\ told' = [told EXCEPT ![enq.a] = "queued"]
    /\ UNCHANGED <<oclock, ofaults, mem, file, wk, memory, retry>>

(* doWork: the head of the queue is sent with its id, until none is left.  *)
WorkStarts ==
    /\ works > 0 /\ wk.at = "off" /\ wk' = [wk EXCEPT !.at = "loop"]
    /\ UNCHANGED <<oclock, ofaults, mem, file, enq, works, told, memory, retry>>

SendFirst ==
    /\ wk.at = "loop" /\ mem # <<>> /\ wk' = [wk EXCEPT !.at = "wait"]
    /\ slot' = [slot EXCEPT !["wk"] = [a |-> Head(mem), st |-> "sent", res |-> Nil]]
    /\ UNCHANGED <<oclock, ofaults, mem, file, enq, works, told, memory, table, runs, explained>>

(* doWork saw an empty queue; it returns success in a step of its own.     *)
QueueSeenEmpty ==
    /\ wk.at = "loop" /\ mem = <<>> /\ wk' = [wk EXCEPT !.at = "success"]
    /\ UNCHANGED <<oclock, ofaults, mem, file, enq, works, told, memory, retry>>

WorkEnds ==
    /\ wk.at = "success" /\ wk' = Off /\ works' = works - 1
    /\ UNCHANGED <<oclock, ofaults, mem, file, enq, told, memory, retry>>

Rest_None == <<>>  \* mutant: the queue is cleared
Rest == Tail(mem)

(* The answer: accepted or refused for good, the first item is dropped;
   otherwise Result.retry.                                                 *)
SendAnswered ==
    /\ slot["wk"] # Nil /\ slot["wk"].st = "done"
    /\ slot' = [slot EXCEPT !["wk"] = Nil]
    /\ IF slot["wk"].res = "error"
       THEN wk' = Off /\ UNCHANGED <<settled, overlap>>
       ELSE /\ wk' = [at |-> "drop", list |-> Rest]
            /\ IF slot["wk"].res = "ok"
               THEN settled' = settled \cup {slot["wk"].a}
               ELSE settled' = settled \cup {Head(mem)}
            /\ overlap' = (overlap \/ Busy(enq))
    /\ UNCHANGED <<oclock, ofaults, mem, file, enq, works, told, torn, table, runs, explained>>

(* The phone stops waiting for its request: it is lost with its answer, or
   on the way or being served, and runs on without the phone.              *)
AbandonSend ==
    \/ /\ slot["wk"] # Nil => slot["wk"].st \in {"sent", "done", "lost"}
       /\ slot' = [slot EXCEPT !["wk"] = Nil]
    \/ /\ slot["wk"] # Nil /\ slot["wk"].st \in {"sent", "running", "ran"} /\ slot["old"] = Nil
       /\ slot' = [wk |-> Nil, old |-> slot["wk"]]

(* An IOException: the server died, or the answer does not come.           *)
SendFails ==
    /\ slot["wk"] # Nil /\ AbandonSend /\ wk' = Off
    /\ UNCHANGED <<oclock, mem, file, enq, works, told, memory, table, runs, explained>>

SendLost == Stands("wk", "lost") /\ SendFails /\ UNCHANGED ofaults
SendTimesOut == ofaults < OMaxFaults /\ ofaults' = ofaults + 1 /\ SendFails

(* The rest of concluirPrimeiro.                                           *)
DropFirst ==
    /\ wk.at = "drop" /\ mem' = wk.list /\ wk' = [wk EXCEPT !.at = "gravar"]
    /\ UNCHANGED <<oclock, ofaults, file, enq, works, told, memory, retry>>

DropTruncates ==
    /\ Truncates(wk) /\ wk' = [wk EXCEPT !.at = "write"]
    /\ UNCHANGED <<oclock, ofaults, mem, enq, works, told, memory, retry>>

DropWrites ==
    /\ Writes(wk) /\ wk' = [at |-> "loop", list |-> <<>>]
    /\ UNCHANGED <<oclock, ofaults, mem, enq, works, told, memory, retry>>

(* The process dies and instalar reads the file; an unreadable one is an
   empty queue.  WorkManager runs the chain again.                         *)
ler(f) == IF f = Nil THEN <<>> ELSE f

PhoneRestarts ==
    /\ ofaults < OMaxFaults /\ ofaults' = ofaults + 1
    /\ mem' = ler(file) /\ file' = ler(file)
    /\ torn' = (torn \/ file = Nil)
    /\ enq' = Nil /\ wk' = Off
    /\ IF ler(file) = <<>> THEN UNCHANGED works ELSE agendar
    /\ AbandonSend
    /\ UNCHANGED <<oclock, told, settled, overlap, table, runs, explained>>

-----------------------------------------------------------------------------
(* The server: lembrarResultado and SendTextDedup.                         *)
(* Lembrada and sendDedupeCheck.                                           *)
Fresh(a) == table[a] # Nil /\ oclock - table[a] <= Life(a)
Underway(a) == \E y \in Slots : slot[y] # Nil /\ slot[y].a = a /\ slot[y].st \in {"running", "ran"}

(* The answer; to a request given up on it goes nowhere.                   *)
Answered(x, res) ==
    slot' = [slot EXCEPT ![x] = IF x = "old" THEN Nil ELSE [@ EXCEPT !.st = "done", !.res = res]]

Lookup(x) ==
    /\ Stands(x, "sent")
    /\ LET a == slot[x].a
       IN  IF Fresh(a)
           THEN Answered(x, "ok") /\ UNCHANGED explained
           ELSE /\ slot' = [slot EXCEPT ![x].st = "running"]
                /\ explained' = IF Underway(a) \/ table[a] # Nil
                              THEN explained \cup {a} ELSE explained
    /\ UNCHANGED <<oclock, ofaults, fila, memory, table, runs>>

(* The action runs, and only a success is remembered.                      *)
Run(x, res) ==
    /\ Stands(x, "running")
    /\ IF res = "error" THEN ofaults < OMaxFaults /\ ofaults' = ofaults + 1 ELSE UNCHANGED ofaults
    /\ IF res = "ok" THEN slot' = [slot EXCEPT ![x].st = "ran"] ELSE Answered(x, res)
    /\ runs' = [runs EXCEPT ![slot[x].a] = IF res = "ok" THEN @ + 1 ELSE @]
    /\ UNCHANGED <<oclock, fila, memory, table, explained>>

(* Lembrar and sendDedupeRemember.                                         *)
Remember(x) ==
    /\ Stands(x, "ran")
    /\ Answered(x, "ok")
    /\ table' = [table EXCEPT ![slot[x].a] = oclock]
    /\ UNCHANGED <<oclock, ofaults, fila, memory, runs, explained>>

(* A restart: the table of Idempotency-Key is on disk, the other is not.   *)
Reloaded_Empty == [a \in Actions |-> Nil]  \* mutant: the table is kept in memory only
Reloaded == [a \in Actions |-> IF a \in InBody THEN Nil ELSE table[a]]

ServerRestarts ==
    /\ ofaults < OMaxFaults /\ ofaults' = ofaults + 1
    /\ table' = Reloaded
    /\ explained' = explained \cup {a \in Actions : Underway(a)}
                          \cup {a \in InBody : table[a] # Nil}
    /\ slot' = [x \in Slots |-> IF slot[x] = Nil \/ x = "old" THEN Nil
                                ELSE [slot[x] EXCEPT !.st = "lost"]]
    /\ UNCHANGED <<oclock, fila, memory, runs>>

(* Time; before anything is remembered it changes nothing.                 *)
OTick ==
    /\ oclock < OMaxClock /\ oclock' = oclock + 1
    /\ \E a \in Actions : table[a] # Nil
    /\ UNCHANGED <<ofaults, fila, memory, retry>>

-----------------------------------------------------------------------------
OutboxInit ==
    /\ oclock = 0 /\ ofaults = 0
    /\ mem = <<>> /\ file = <<>> /\ enq = Nil /\ wk = Off /\ works = 0
    /\ told = [a \in Actions |-> "new"] /\ slot = [x \in Slots |-> Nil]
    /\ table = [a \in Actions |-> Nil] /\ runs = [a \in Actions |-> 0]
    /\ settled = {} /\ overlap = FALSE /\ torn = FALSE /\ explained = {}

PhoneStep ==
    \/ EnqueueRead \/ EnqueueSet \/ EnqueueTruncates \/ EnqueueWrites \/ EnqueueEnds
WorkStep ==
    \/ WorkStarts \/ SendFirst \/ QueueSeenEmpty \/ WorkEnds \/ SendAnswered
    \/ DropFirst \/ DropTruncates \/ DropWrites
    \/ SendLost
BffStep(x) == Lookup(x) \/ (\E r \in {"ok", "refused"} : Run(x, r)) \/ Remember(x)

OutboxNext ==
    \/ \E a \in Actions : Ask(a)
    \/ PhoneStep \/ WorkStep \/ SendTimesOut \/ PhoneRestarts \/ ServerRestarts \/ OTick
    \/ \E x \in Slots : BffStep(x) \/ Run(x, "error")

(* The threads of the phone and of the server run; WorkManager starts the
   works of the chain, and again those that ask for it.                    *)
OutboxFairness ==
    /\ WF_outboxVars(PhoneStep) /\ WF_outboxVars(WorkStep)
    /\ \A x \in Slots : WF_outboxVars(BffStep(x))

OutboxSpec == OutboxInit /\ [][OutboxNext]_outboxVars /\ OutboxFairness

-----------------------------------------------------------------------------
(* Properties.                                                             *)

(* "the action is recorded locally and confirmed to the owner immediately,
   and a background job delivers it": an action the screen called queued is
   in the queue, was delivered or was reported refused, across deaths of the
   app and of the server; the two windows the code leaves open are named:
   an enfileirar that overlaps the worker's removal, and a death while the
   file is half written.                                                   *)
AcceptedIsKept ==
    overlap \/ torn \/ \A a \in Actions : told[a] = "queued" => a \in settled \cup ToSet(mem)

(* No wake-up is lost: a queue that holds something is emptied, whatever the
   step at which the worker was when the action was added.                 *)
OutboxDrains == (mem # <<>>) ~> (mem = <<>>)

(* A second execution has one of the four causes the code leaves open: a
   foreground attempt without a key, two attempts running at once, a
   restart between the execution and its record (or one that forgets the
   records of WhatsApp), or a record too old.                              *)
TwiceIsExplained == \A a \in Actions : runs[a] > 1 => a \in explained

(* "it is that table which guarantees the retry does not execute twice".   *)
RunsOnce == \A a \in Actions \ InBody : runs[a] <= 1
=============================================================================
