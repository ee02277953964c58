---------------------------- MODULE MobileProofs ----------------------------
(***************************************************************************)
(* What is proved of the phone's queue of writes and its retries (Outbox)   *)
(* and of the mobile sessions (MobileSession), for every set of actions,    *)
(* phones and requests, every capacity, memory of the server and bound.     *)
(***************************************************************************)
EXTENDS Outbox, MobileSession, SequenceTheorems, FiniteSetTheorems, TLAPS

Requests == [a : Actions, st : Stages, res : Results \cup {Nil}]
Enqueuing == [a : Actions, at : {"read", "set", "gravar", "write", "agendar"}, list : Seq(Actions)]
Working == [at : WorkSteps, list : Seq(Actions)]
Tellings == {"new", "asked", "queued", "ok", "error"}

(* What every variable holds.                                              *)
OutboxTypes ==
    /\ oclock \in Nat /\ ofaults \in Nat /\ works \in Int
    /\ mem \in Seq(Actions) /\ file \in Seq(Actions) \cup {Nil}
    /\ enq \in Enqueuing \cup {Nil} /\ wk \in Working
    /\ told \in [Actions -> Tellings]
    /\ slot \in [Slots -> Requests \cup {Nil}]
    /\ table \in [Actions -> Nat \cup {Nil}] /\ runs \in [Actions -> Nat]
    /\ settled \subseteq Actions /\ overlap \in BOOLEAN /\ torn \in BOOLEAN
    /\ explained \subseteq Actions

(* The worker waits for the answer about the head of a queue that holds it:
   whoever else writes the queue meanwhile leaves something in it.         *)
WaitInv ==
    /\ enq # Nil /\ enq.at = "set" => enq.list # <<>>
    /\ slot["wk"] # Nil => wk.at = "wait" /\ mem # <<>>

LEMMA NilIs == Nil \notin Requests /\ Nil \notin Nat /\ Nil \notin Working
BY OutboxAssumptions DEF Requests, Working

LEMMA OffIs == Off \in Working
BY DEF Off, Working, WorkSteps

(* The slots: a request changes its stage and result, never its action.    *)
LEMMA SlotIs ==
    ASSUME OutboxTypes, NEW x \in Slots, slot[x] # Nil PROVE slot[x] \in Requests
BY DEF OutboxTypes

LEMMA AnsweredIs ==
    ASSUME OutboxTypes, NEW x \in Slots, slot[x] # Nil, NEW res \in Results, Answered(x, res)
    PROVE  slot' \in [Slots -> Requests \cup {Nil}]
<1>1. slot[x] \in Requests  BY SlotIs
<1>2. [slot[x] EXCEPT !.st = "done", !.res = res] \in Requests  BY <1>1 DEF Requests, Stages
<1> QED  BY <1>2 DEF Answered, OutboxTypes

LEMMA AbandonIs ==
    ASSUME OutboxTypes, AbandonSend
    PROVE  slot' \in [Slots -> Requests \cup {Nil}] /\ slot'["wk"] = Nil
BY DEF AbandonSend, OutboxTypes, Slots

LEMMA OutboxTypesStep == OutboxTypes /\ WaitInv /\ [OutboxNext]_outboxVars => OutboxTypes'
<1> SUFFICES ASSUME OutboxTypes, WaitInv, [OutboxNext]_outboxVars PROVE OutboxTypes'  OBVIOUS
<1> USE DEF fila, memory, retry
<1>s. "wk" \in Slots /\ "old" \in Slots  BY DEF Slots
<1>e. enq # Nil => enq \in Enqueuing  BY DEF OutboxTypes
<1>1. ASSUME NEW a \in Actions, Ask(a) PROVE OutboxTypes'
  <2>1. PICK ran \in BOOLEAN, answered \in BOOLEAN :
          /\ told' = [told EXCEPT ![a] = IF ~answered THEN "asked" ELSE IF ran THEN "ok" ELSE "error"]
          /\ enq' = IF answered THEN Nil ELSE [a |-> a, at |-> "read", list |-> <<>>]
          /\ runs' = [runs EXCEPT ![a] = IF ran THEN @ + 1 ELSE @]
          /\ table' = IF ran /\ a \in InBody THEN [table EXCEPT ![a] = oclock] ELSE table
          /\ explained' = IF ran /\ a \notin InBody THEN explained \cup {a} ELSE explained
    BY <1>1 DEF Ask
  <2>2. told' \in [Actions -> Tellings]  BY <2>1 DEF OutboxTypes, Tellings
  <2>3. enq' \in Enqueuing \cup {Nil}  BY <2>1 DEF Enqueuing
  <2>4. runs' \in [Actions -> Nat] /\ table' \in [Actions -> Nat \cup {Nil}]
    BY <2>1 DEF OutboxTypes
  <2>5. explained' \subseteq Actions  BY <2>1 DEF OutboxTypes
  <2>6. UNCHANGED <<oclock, ofaults, mem, file, wk, works, settled, overlap, torn, slot>>
    BY <1>1 DEF Ask
  <2> QED  BY <2>2, <2>3, <2>4, <2>5, <2>6 DEF OutboxTypes
<1>2. CASE EnqueueRead
  <2>1. enq \in Enqueuing /\ enq.a \in Actions  BY <1>2, <1>e DEF EnqueueRead, Enqueuing
  <2>2. Append(mem, enq.a) \in Seq(Actions)  BY <2>1 DEF OutboxTypes
  <2>3. [enq EXCEPT !.at = "set", !.list = Append(mem, enq.a)] \in Enqueuing
    BY <2>1, <2>2 DEF Enqueuing
  <2>4. told' \in [Actions -> Tellings] /\ enq' \in Enqueuing \cup {Nil}
    BY <1>2, <2>3 DEF EnqueueRead, OutboxTypes, Tellings
  <2>5. overlap' \in BOOLEAN  BY <1>2 DEF EnqueueRead
  <2> QED  BY <1>2, <2>4, <2>5 DEF EnqueueRead, OutboxTypes
<1>3. CASE EnqueueSet
  <2>1. enq \in Enqueuing  BY <1>3, <1>e DEF EnqueueSet
  <2>2. [enq EXCEPT !.at = "gravar"] \in Enqueuing /\ enq.list \in Seq(Actions)
    BY <2>1 DEF Enqueuing
  <2> QED  BY <1>3, <2>2 DEF EnqueueSet, OutboxTypes
<1>4. CASE EnqueueTruncates
  <2>1. enq \in Enqueuing  BY <1>4, <1>e DEF EnqueueTruncates, Truncates
  <2>2. [enq EXCEPT !.at = "write"] \in Enqueuing  BY <2>1 DEF Enqueuing
  <2> QED  BY <1>4, <2>2 DEF EnqueueTruncates, Truncates, OutboxTypes
<1>5. CASE EnqueueWrites
  <2>1. enq \in Enqueuing  BY <1>5, <1>e DEF EnqueueWrites, Writes
  <2>2. [enq EXCEPT !.at = "agendar"] \in Enqueuing /\ enq.list \in Seq(Actions)
    BY <2>1 DEF Enqueuing
  <2> QED  BY <1>5, <2>2 DEF EnqueueWrites, Writes, OutboxTypes
<1>6. CASE EnqueueEnds
  <2>1. told' \in [Actions -> Tellings]  BY <1>6 DEF EnqueueEnds, OutboxTypes, Tellings
  <2> QED  BY <1>6, <2>1 DEF EnqueueEnds, agendar, OutboxTypes
<1>7. CASE WorkStarts \/ QueueSeenEmpty
  <2>1. wk' \in Working  BY <1>7 DEF WorkStarts, QueueSeenEmpty, OutboxTypes, Working, WorkSteps
  <2> QED  BY <1>7, <2>1 DEF WorkStarts, QueueSeenEmpty, OutboxTypes
<1>8. CASE SendFirst
  <2>1. Head(mem) \in Actions  BY <1>8 DEF SendFirst, OutboxTypes
  <2>2. [a |-> Head(mem), st |-> "sent", res |-> Nil] \in Requests  BY <2>1 DEF Requests, Stages
  <2>3. slot' \in [Slots -> Requests \cup {Nil}]  BY <1>8, <2>2 DEF SendFirst, OutboxTypes
  <2>4. wk' \in Working  BY <1>8 DEF SendFirst, OutboxTypes, Working, WorkSteps
  <2> QED  BY <1>8, <2>3, <2>4 DEF SendFirst, OutboxTypes
<1>9. CASE WorkEnds  BY <1>9, OffIs DEF WorkEnds, OutboxTypes
<1>10. CASE SendAnswered
  <2>1. slot' \in [Slots -> Requests \cup {Nil}]  BY <1>10 DEF SendAnswered, OutboxTypes
  <2>2. CASE slot["wk"].res = "error"  BY <1>10, <2>1, <2>2, OffIs DEF SendAnswered, OutboxTypes
  <2>3. CASE slot["wk"].res # "error"
    <3>1. Tail(mem) \in Seq(Actions) /\ Head(mem) \in Actions
      BY <1>10 DEF SendAnswered, WaitInv, OutboxTypes
    <3>2. slot["wk"].a \in Actions
      <4>1. slot["wk"] \in Requests  BY <1>10, <1>s, SlotIs DEF SendAnswered
      <4> QED  BY <4>1 DEF Requests
    <3>3. wk' \in Working
      <4>1. wk' = [at |-> "drop", list |-> Tail(mem)]  BY <1>10, <2>3 DEF SendAnswered, Rest
      <4> QED  BY <3>1, <4>1 DEF Working, WorkSteps
    <3>4. settled' \subseteq Actions /\ overlap' \in BOOLEAN
      BY <1>10, <2>3, <3>1, <3>2 DEF SendAnswered, OutboxTypes
    <3> QED  BY <1>10, <2>1, <3>3, <3>4 DEF SendAnswered, OutboxTypes
  <2> QED  BY <2>2, <2>3
<1>11. CASE SendLost \/ SendTimesOut
  <2>1. SendFails /\ ofaults' \in Nat  BY <1>11 DEF SendLost, SendTimesOut, OutboxTypes
  <2>2. slot' \in [Slots -> Requests \cup {Nil}]  BY <2>1, AbandonIs DEF SendFails
  <2> QED  BY <2>1, <2>2, OffIs DEF SendFails, OutboxTypes
<1>12. CASE DropFirst
  <2>1. wk' \in Working /\ wk.list \in Seq(Actions)  BY <1>12 DEF DropFirst, OutboxTypes, Working, WorkSteps
  <2> QED  BY <1>12, <2>1 DEF DropFirst, OutboxTypes
<1>13. CASE DropTruncates
  <2>1. wk' \in Working  BY <1>13 DEF DropTruncates, OutboxTypes, Working, WorkSteps
  <2> QED  BY <1>13, <2>1 DEF DropTruncates, Truncates, OutboxTypes
<1>14. CASE DropWrites
  <2>1. wk' \in Working /\ wk.list \in Seq(Actions)  BY <1>14 DEF DropWrites, OutboxTypes, Working, WorkSteps
  <2> QED  BY <1>14, <2>1 DEF DropWrites, Writes, OutboxTypes
<1>15. CASE PhoneRestarts
  <2>1. ler(file) \in Seq(Actions)  BY DEF ler, OutboxTypes
  <2>2. slot' \in [Slots -> Requests \cup {Nil}]  BY <1>15, AbandonIs DEF PhoneRestarts
  <2>3. torn' \in BOOLEAN /\ ofaults' \in Nat /\ works' \in Int
    BY <1>15 DEF PhoneRestarts, agendar, OutboxTypes
  <2> QED  BY <1>15, <2>1, <2>2, <2>3, OffIs DEF PhoneRestarts, OutboxTypes
<1>16. CASE ServerRestarts
  <2>1. table' \in [Actions -> Nat \cup {Nil}]  BY <1>16 DEF ServerRestarts, Reloaded, OutboxTypes
  <2>2. explained' \subseteq Actions
    BY <1>16, OutboxAssumptions DEF ServerRestarts, OutboxTypes
  <2>3. \A x \in Slots : slot[x] # Nil => [slot[x] EXCEPT !.st = "lost"] \in Requests
    BY SlotIs DEF Requests, Stages
  <2>4. slot' \in [Slots -> Requests \cup {Nil}]  BY <1>16, <2>3 DEF ServerRestarts
  <2> QED  BY <1>16, <2>1, <2>2, <2>4 DEF ServerRestarts, OutboxTypes
<1>17. CASE OTick  BY <1>17 DEF OTick, OutboxTypes
<1>18. ASSUME NEW x \in Slots, Lookup(x) PROVE OutboxTypes'
  <2>0. slot[x] # Nil /\ slot[x] \in Requests  BY <1>18, SlotIs DEF Lookup, Stands
  <2>1. slot[x].a \in Actions /\ [slot[x] EXCEPT !.st = "running"] \in Requests
    BY <2>0 DEF Requests, Stages
  <2>2. slot' \in [Slots -> Requests \cup {Nil}] /\ explained' \subseteq Actions
    <3>1. CASE Fresh(slot[x].a)
      <4>1. Answered(x, "ok") /\ explained' = explained  BY <1>18, <3>1 DEF Lookup
      <4> QED  BY <2>0, <4>1, AnsweredIs DEF OutboxTypes, Results
    <3>2. CASE ~Fresh(slot[x].a)
      <4>1. slot' = [slot EXCEPT ![x].st = "running"] /\ explained' \in {explained, explained \cup {slot[x].a}}
        BY <1>18, <3>2 DEF Lookup
      <4> QED  BY <2>1, <4>1 DEF OutboxTypes
    <3> QED  BY <3>1, <3>2
  <2> QED  BY <1>18, <2>2 DEF Lookup, OutboxTypes
<1>19. ASSUME NEW x \in Slots, NEW res \in Results, Run(x, res) PROVE OutboxTypes'
  <2>0. slot[x] # Nil /\ slot[x] \in Requests  BY <1>19, SlotIs DEF Run, Stands
  <2>1. slot[x].a \in Actions /\ [slot[x] EXCEPT !.st = "ran"] \in Requests
    BY <2>0 DEF Requests, Stages
  <2>2. slot' \in [Slots -> Requests \cup {Nil}]
    <3>1. CASE res = "ok"  BY <1>19, <2>1, <3>1 DEF Run, OutboxTypes
    <3>2. CASE res # "ok"  BY <1>19, <2>0, <3>2, AnsweredIs DEF Run
    <3> QED  BY <3>1, <3>2
  <2>3. runs' \in [Actions -> Nat] /\ ofaults' \in Nat  BY <1>19, <2>1 DEF Run, OutboxTypes
  <2> QED  BY <1>19, <2>2, <2>3 DEF Run, OutboxTypes
<1>20. ASSUME NEW x \in Slots, Remember(x) PROVE OutboxTypes'
  <2>0. slot[x] # Nil /\ slot[x] \in Requests  BY <1>20, SlotIs DEF Remember, Stands
  <2>1. slot' \in [Slots -> Requests \cup {Nil}]  BY <1>20, <2>0, AnsweredIs DEF Remember, Results
  <2>2. table' \in [Actions -> Nat \cup {Nil}]  BY <1>20 DEF Remember, OutboxTypes
  <2> QED  BY <1>20, <2>1, <2>2 DEF Remember, OutboxTypes
<1>21. CASE UNCHANGED outboxVars  BY <1>21 DEF outboxVars, OutboxTypes
<1> QED
  BY <1>1, <1>2, <1>3, <1>4, <1>5, <1>6, <1>7, <1>8, <1>9, <1>10, <1>11, <1>12, <1>13, <1>14,
     <1>15, <1>16, <1>17, <1>18, <1>19, <1>20, <1>21
  DEF OutboxNext, PhoneStep, WorkStep, BffStep, Results

LEMMA OutboxTypesInit == OutboxInit => OutboxTypes /\ WaitInv
<1> SUFFICES ASSUME OutboxInit PROVE OutboxTypes /\ WaitInv  OBVIOUS
<1>1. told \in [Actions -> Tellings]  BY DEF OutboxInit, Tellings
<1>2. slot \in [Slots -> Requests \cup {Nil}] /\ slot["wk"] = Nil  BY DEF OutboxInit, Slots
<1>3. table \in [Actions -> Nat \cup {Nil}] /\ runs \in [Actions -> Nat]  BY DEF OutboxInit
<1>4. mem \in Seq(Actions) /\ file \in Seq(Actions)  BY DEF OutboxInit
<1>5. /\ oclock = 0 /\ ofaults = 0 /\ works = 0 /\ enq = Nil /\ wk = Off /\ settled = {}
      /\ overlap = FALSE /\ torn = FALSE /\ explained = {}
  BY DEF OutboxInit
<1>6. WaitInv  BY <1>2, <1>5 DEF WaitInv
<1>7. overlap \in BOOLEAN /\ torn \in BOOLEAN  BY <1>5
<1>8. enq \in Enqueuing \cup {Nil} /\ wk \in Working  BY <1>5, OffIs
<1> QED  BY <1>1, <1>2, <1>3, <1>4, <1>5, <1>6, <1>7, <1>8 DEF OutboxTypes

(* What the server does to a request leaves it a request for the same
   action, or answers one that nobody waits for any longer.                *)
LEMMA RequestStays ==
    ASSUME OutboxTypes, NEW x \in Slots, BffStep(x) \/ Run(x, "error")
    PROVE  /\ slot[x] # Nil
           /\ \A y \in Slots : slot'[y] # Nil => slot[y] # Nil /\ slot'[y].a = slot[y].a
<1>2. slot[x] # Nil  BY DEF BffStep, Lookup, Run, Remember, Stands
<1>3. slot[x] \in Requests  BY <1>2, SlotIs
<1>4. ASSUME NEW st, NEW res
      PROVE  /\ [slot[x] EXCEPT !.st = st].a = slot[x].a
             /\ [slot[x] EXCEPT !.st = st, !.res = res].a = slot[x].a
  BY <1>3 DEF Requests
<1>5. slot \in [Slots -> Requests \cup {Nil}]  BY DEF OutboxTypes
<1>6. ASSUME NEW res, Answered(x, res), NEW y \in Slots
      PROVE  slot'[y] # Nil => slot[y] # Nil /\ slot'[y].a = slot[y].a
  BY <1>2, <1>4, <1>5, <1>6 DEF Answered
<1>7. ASSUME NEW st, slot' = [slot EXCEPT ![x].st = st], NEW y \in Slots
      PROVE  slot'[y] # Nil => slot[y] # Nil /\ slot'[y].a = slot[y].a
  BY <1>2, <1>4, <1>5, <1>7
<1>8. \/ \E res : Answered(x, res)
      \/ \E st : slot' = [slot EXCEPT ![x].st = st]
  BY DEF BffStep, Lookup, Run, Remember
<1> QED  BY <1>2, <1>6, <1>7, <1>8

LEMMA ServedRequest ==
    ASSUME NEW x \in Slots, BffStep(x) \/ Run(x, "error")
    PROVE  UNCHANGED <<mem, file, enq, wk, works, told, settled, overlap, torn>>
BY DEF BffStep, Lookup, Run, Remember, fila, memory

LEMMA WaitStep == OutboxTypes /\ WaitInv /\ [OutboxNext]_outboxVars => WaitInv'
<1> SUFFICES ASSUME OutboxTypes, WaitInv, [OutboxNext]_outboxVars PROVE WaitInv'  OBVIOUS
<1> USE DEF fila, memory, retry
<1>s. "wk" \in Slots /\ slot \in [Slots -> Requests \cup {Nil}]  BY DEF Slots, OutboxTypes
<1>1. ASSUME NEW a \in Actions, Ask(a) PROVE WaitInv'  BY <1>1 DEF Ask, WaitInv
<1>2. CASE EnqueueRead
  <2>1. enq # Nil /\ enq \in Enqueuing  BY <1>2 DEF EnqueueRead, OutboxTypes
  <2>2. Append(mem, enq.a) # <<>>
    <3>1. mem \in Seq(Actions) /\ enq.a \in Actions  BY <2>1 DEF OutboxTypes, Enqueuing
    <3> QED  BY <3>1, AppendProperties
  <2>3. [enq EXCEPT !.at = "set", !.list = Append(mem, enq.a)].list # <<>>
    BY <2>1, <2>2 DEF Enqueuing
  <2> QED  BY <1>2, <2>3 DEF EnqueueRead, WaitInv
<1>3. CASE EnqueueSet  BY <1>3 DEF EnqueueSet, WaitInv, OutboxTypes, Enqueuing
<1>4. CASE EnqueueTruncates \/ EnqueueWrites \/ EnqueueEnds
  BY <1>4 DEF EnqueueTruncates, EnqueueWrites, EnqueueEnds, Truncates, Writes, WaitInv,
              OutboxTypes, Enqueuing
<1>5. CASE WorkStarts \/ QueueSeenEmpty \/ WorkEnds \/ DropFirst \/ DropTruncates \/ DropWrites
  BY <1>5 DEF WorkStarts, QueueSeenEmpty, WorkEnds, DropFirst, DropTruncates, DropWrites,
              Truncates, Writes, WaitInv
<1>6. CASE SendFirst  BY <1>6 DEF SendFirst, WaitInv, OutboxTypes, Working
<1>7. CASE SendAnswered
  <2>1. slot'["wk"] = Nil  BY <1>7, <1>s DEF SendAnswered
  <2> QED  BY <1>7, <2>1 DEF SendAnswered, WaitInv
<1>8. CASE SendLost \/ SendTimesOut
  <2>1. slot'["wk"] = Nil  BY <1>8, AbandonIs DEF SendLost, SendTimesOut, SendFails
  <2> QED  BY <1>8, <2>1 DEF SendLost, SendTimesOut, SendFails, WaitInv
<1>9. CASE PhoneRestarts
  <2>1. slot'["wk"] = Nil  BY <1>9, AbandonIs DEF PhoneRestarts
  <2> QED  BY <1>9, <2>1 DEF PhoneRestarts, WaitInv
<1>10. CASE ServerRestarts  BY <1>10, <1>s DEF ServerRestarts, WaitInv
<1>11. CASE OTick \/ UNCHANGED outboxVars  BY <1>11 DEF OTick, outboxVars, WaitInv
<1>12. ASSUME NEW x \in Slots, BffStep(x) \/ Run(x, "error") PROVE WaitInv'
  BY <1>12, <1>s, ServedRequest, RequestStays DEF WaitInv
<1> QED
  BY <1>1, <1>2, <1>3, <1>4, <1>5, <1>6, <1>7, <1>8, <1>9, <1>10, <1>11, <1>12
  DEF OutboxNext, PhoneStep, WorkStep

-----------------------------------------------------------------------------
(* Only actions the user has asked for are anywhere on the way.            *)
Asked == {a \in Actions : told[a] # "new"}

AskedInv ==
    /\ mem \in Seq(Asked)
    /\ file # Nil => file \in Seq(Asked)
    /\ enq # Nil => enq.a \in Asked /\ enq.list \in Seq(Asked)
    /\ wk.list \in Seq(Asked)
    /\ \A x \in Slots : slot[x] # Nil => slot[x].a \in Asked

(* Steps that move none of them keep it, as nothing becomes new again.     *)
LEMMA AskedGrows ==
    ASSUME OutboxTypes, NEW T, Asked \subseteq T, NEW q \in Seq(Asked) PROVE q \in Seq(T)
BY SeqMonotonic

LEMMA AskedStays ==
    ASSUME OutboxTypes, OutboxTypes', AskedInv, Asked \subseteq Asked', mem' = mem, file' = file,
           enq' = enq \/ (enq' = Nil), wk' = wk, slot' = slot
    PROVE  AskedInv'
<1>1. \A q \in Seq(Asked) : q \in Seq(Asked')  BY AskedGrows
<1> QED  BY <1>1 DEF AskedInv

LEMMA AskedStep ==
    OutboxTypes /\ WaitInv /\ AskedInv /\ [OutboxNext]_outboxVars => AskedInv' /\ Asked \subseteq Asked'
<1> SUFFICES ASSUME OutboxTypes, WaitInv, AskedInv, [OutboxNext]_outboxVars
             PROVE  AskedInv' /\ Asked \subseteq Asked'
  OBVIOUS
<1> USE DEF fila, memory, retry
<1>t. OutboxTypes'  BY OutboxTypesStep
<1>s. "wk" \in Slots /\ slot \in [Slots -> Requests \cup {Nil}] /\ told \in [Actions -> Tellings]
  BY DEF Slots, OutboxTypes
<1>e. enq # Nil => enq \in Enqueuing  BY DEF OutboxTypes
<1>k. wk \in Working  BY DEF OutboxTypes
<1>0. <<>> \in Seq(Asked) /\ <<>> \in Seq(Asked')  OBVIOUS
<1>u. told' = told => Asked' = Asked  BY DEF Asked
<1>1. ASSUME NEW a \in Actions, Ask(a) PROVE AskedInv' /\ Asked \subseteq Asked'
  <2>1. Asked' = Asked \cup {a}  BY <1>1, <1>s DEF Ask, Asked
  <2>2. enq' # Nil => enq' = [a |-> a, at |-> "read", list |-> <<>>]  BY <1>1 DEF Ask
  <2>3. enq' # Nil => enq'.a \in Asked' /\ enq'.list \in Seq(Asked')
    <3>1. enq' # Nil => enq'.a = a /\ enq'.list = <<>>  BY <2>2
    <3> QED  BY <1>0, <2>1, <3>1
  <2>4. \A q \in Seq(Asked) : q \in Seq(Asked')  BY <2>1, AskedGrows
  <2> QED  BY <1>1, <2>1, <2>3, <2>4 DEF Ask, AskedInv
<1>2. CASE EnqueueRead
  <2>1. enq # Nil /\ enq \in Enqueuing /\ enq.a \in Asked  BY <1>2, <1>e DEF EnqueueRead, AskedInv
  <2>2. Asked \subseteq Asked'  BY <1>2, <1>s, <2>1 DEF EnqueueRead, Asked
  <2>3. CASE enq' = Nil
    <3>1. \A q \in Seq(Asked) : q \in Seq(Asked')  BY <2>2, AskedGrows
    <3> QED  BY <1>2, <2>2, <2>3, <3>1 DEF EnqueueRead, AskedInv
  <2>4. CASE enq' = [enq EXCEPT !.at = "set", !.list = Append(mem, enq.a)] /\ told' = told
    <3>1. enq'.a = enq.a /\ enq'.list = Append(mem, enq.a)  BY <2>1, <2>4 DEF Enqueuing
    <3>2. Append(mem, enq.a) \in Seq(Asked)
      <4>1. mem \in Seq(Asked)  BY DEF AskedInv
      <4> QED  BY <2>1, <4>1, AppendProperties
    <3> QED  BY <1>2, <1>u, <2>1, <2>4, <3>1, <3>2 DEF EnqueueRead, AskedInv
  <2> QED  BY <1>2, <2>3, <2>4 DEF EnqueueRead
<1>3. CASE EnqueueSet \/ EnqueueTruncates \/ EnqueueWrites
  <2>1. enq # Nil /\ enq \in Enqueuing  BY <1>3, <1>e DEF EnqueueSet, EnqueueTruncates, EnqueueWrites, Truncates, Writes
  <2>2. enq'.a = enq.a /\ enq'.list = enq.list
    BY <1>3, <2>1 DEF EnqueueSet, EnqueueTruncates, EnqueueWrites, Enqueuing
  <2>3. Asked' = Asked  BY <1>3, <1>u DEF EnqueueSet, EnqueueTruncates, EnqueueWrites
  <2> QED  BY <1>3, <2>1, <2>2, <2>3
           DEF EnqueueSet, EnqueueTruncates, EnqueueWrites, Truncates, Writes, AskedInv
<1>4. CASE EnqueueEnds
  <2>1. Asked \subseteq Asked'  BY <1>4, <1>s DEF EnqueueEnds, Asked
  <2> QED  BY <1>4, <1>t, <2>1, AskedStays DEF EnqueueEnds
<1>5. CASE WorkStarts \/ QueueSeenEmpty \/ WorkEnds
  <2>1. Asked' = Asked  BY <1>5, <1>u DEF WorkStarts, QueueSeenEmpty, WorkEnds
  <2>2. wk'.list \in {wk.list, <<>>}
    BY <1>5, <1>k DEF WorkStarts, QueueSeenEmpty, WorkEnds, Working, Off
  <2> QED  BY <1>5, <1>0, <2>1, <2>2 DEF WorkStarts, QueueSeenEmpty, WorkEnds, AskedInv
<1>6. CASE SendFirst
  <2>1. Asked' = Asked  BY <1>6, <1>u DEF SendFirst
  <2>2. wk'.list = wk.list  BY <1>6, <1>k DEF SendFirst, Working
  <2>3. Head(mem) \in Asked  BY <1>6 DEF SendFirst, AskedInv
  <2>4. \A x \in Slots : slot'[x] # Nil => slot'[x].a \in Asked
    BY <1>6, <1>s, <2>3 DEF SendFirst, AskedInv
  <2> QED  BY <1>6, <2>1, <2>2, <2>4 DEF SendFirst, AskedInv
<1>7. CASE SendAnswered
  <2>1. Asked' = Asked  BY <1>7, <1>u DEF SendAnswered
  <2>2. Tail(mem) \in Seq(Asked)  BY <1>7 DEF SendAnswered, WaitInv, AskedInv
  <2>3. wk' = Off \/ wk' = [at |-> "drop", list |-> Tail(mem)]  BY <1>7 DEF SendAnswered, Rest
  <2>4. wk'.list \in Seq(Asked)
    <3>1. wk'.list = <<>> \/ wk'.list = Tail(mem)  BY <2>3 DEF Off
    <3> QED  BY <1>0, <2>2, <3>1
  <2>5. \A x \in Slots : slot'[x] # Nil => slot'[x].a \in Asked
    BY <1>7, <1>s DEF SendAnswered, AskedInv
  <2> QED  BY <1>7, <2>1, <2>4, <2>5 DEF SendAnswered, AskedInv
<1>a. ASSUME AbandonSend PROVE \A x \in Slots : slot'[x] # Nil => slot'[x].a \in Asked
  BY <1>a, <1>s DEF AbandonSend, AskedInv, Slots
<1>8. CASE SendLost \/ SendTimesOut
  <2>1. SendFails  BY <1>8 DEF SendLost, SendTimesOut
  <2>2. Asked' = Asked /\ wk'.list = <<>>  BY <1>u, <2>1 DEF SendFails, Off
  <2> QED  BY <1>0, <1>a, <2>1, <2>2 DEF SendFails, AskedInv
<1>9. CASE DropFirst \/ DropTruncates \/ DropWrites
  <2>1. Asked' = Asked  BY <1>9, <1>u DEF DropFirst, DropTruncates, DropWrites
  <2>2. wk'.list \in {wk.list, <<>>}
    BY <1>9, <1>k DEF DropFirst, DropTruncates, DropWrites, Working
  <2> QED  BY <1>9, <1>0, <2>1, <2>2
           DEF DropFirst, DropTruncates, DropWrites, Truncates, Writes, AskedInv
<1>10. CASE PhoneRestarts
  <2>1. Asked' = Asked /\ wk'.list = <<>>  BY <1>10, <1>u DEF PhoneRestarts, Off
  <2>2. ler(file) \in Seq(Asked)  BY <1>0 DEF ler, AskedInv
  <2> QED  BY <1>10, <1>0, <1>a, <2>1, <2>2 DEF PhoneRestarts, AskedInv
<1>11. CASE ServerRestarts
  <2>1. Asked' = Asked  BY <1>11, <1>u DEF ServerRestarts
  <2>2. ASSUME NEW x \in Slots, slot'[x] # Nil PROVE slot'[x].a \in Asked
    <3>1. slot[x] # Nil /\ slot'[x] = [slot[x] EXCEPT !.st = "lost"]
      BY <1>11, <2>2 DEF ServerRestarts
    <3>2. slot'[x].a = slot[x].a  BY <3>1, SlotIs DEF Requests
    <3> QED  BY <3>1, <3>2 DEF AskedInv
  <2> QED  BY <1>11, <2>1, <2>2 DEF ServerRestarts, AskedInv
<1>12. CASE OTick \/ UNCHANGED outboxVars
  BY <1>12, <1>t, <1>u, AskedStays DEF OTick, outboxVars
<1>13. ASSUME NEW x \in Slots, BffStep(x) \/ Run(x, "error") PROVE AskedInv' /\ Asked \subseteq Asked'
  <2>1. UNCHANGED <<mem, file, enq, wk, told>>  BY <1>13, ServedRequest
  <2>2. slot[x] # Nil /\ \A y \in Slots : slot'[y] # Nil => slot[y] # Nil /\ slot'[y].a = slot[y].a
    BY <1>13, RequestStays
  <2> QED  BY <1>u, <2>1, <2>2 DEF AskedInv
<1> QED
  BY <1>1, <1>2, <1>3, <1>4, <1>5, <1>6, <1>7, <1>8, <1>9, <1>10, <1>11, <1>12, <1>13
  DEF OutboxNext, PhoneStep, WorkStep

-----------------------------------------------------------------------------
(* The request of slot x is for action a and at stage st of the server.    *)
At(x, a, st) == slot[x] # Nil /\ slot[x].a = a /\ slot[x].st = st
Under(x, a) == At(x, a, "running") \/ At(x, a, "ran")

(* Why a retry does not run twice without one of the named causes: one
   request of an action at most is between the look-up and the record, and
   it began with nothing executed; what was executed is recorded, or its
   request is about to record it.                                          *)
OnlyOne(a) ==
    /\ \A x, y \in Slots : Under(x, a) /\ Under(y, a) => x = y
    /\ \A x \in Slots : At(x, a, "running") => runs[a] = 0 /\ table[a] = Nil
    /\ \A x \in Slots : At(x, a, "ran") => runs[a] = 1 /\ table[a] = Nil
    /\ runs[a] # 0 => runs[a] = 1 /\ (table[a] # Nil \/ \E x \in Slots : At(x, a, "ran"))

OnceInv ==
    /\ \A a \in Actions : told[a] = "new" => runs[a] = 0 /\ table[a] = Nil
    /\ \A a \in Actions \ explained : OnlyOne(a)

(* Steps that execute nothing and leave the requests being served alone.   *)
LEMMA OnceStays ==
    ASSUME OnceInv, runs' = runs, table' = table, explained' = explained,
           \A a \in Actions : told'[a] = "new" => told[a] = "new",
           \A x \in Slots, a \in Actions :
             (At(x, a, "running")' <=> At(x, a, "running")) /\ (At(x, a, "ran")' <=> At(x, a, "ran"))
    PROVE  OnceInv'
BY DEF OnceInv, OnlyOne, Under

(* The request moves to the slot of those given up on.                     *)
LEMMA OnceMoves ==
    ASSUME OutboxTypes, OnceInv, runs' = runs, table' = table, explained' = explained,
           told' = told, AbandonSend
    PROVE  OnceInv'
<1>s. slot \in [Slots -> Requests \cup {Nil}]  BY DEF OutboxTypes
<1>1. CASE slot' = [slot EXCEPT !["wk"] = Nil] /\ (slot["wk"] # Nil => slot["wk"].st \in {"sent", "done", "lost"})
  <2>1. \A x \in Slots, a \in Actions :
          (At(x, a, "running")' <=> At(x, a, "running")) /\ (At(x, a, "ran")' <=> At(x, a, "ran"))
    BY <1>1, <1>s DEF At, Slots
  <2> QED  BY <2>1, OnceStays
<1>2. CASE slot' = [wk |-> Nil, old |-> slot["wk"]] /\ slot["old"] = Nil
  <2>1. slot'["wk"] = Nil /\ slot'["old"] = slot["wk"]  BY <1>2
  <2>2. \A a \in Actions, st \in Stages :
          /\ ~At("wk", a, st)' /\ (At("old", a, st)' <=> At("wk", a, st)) /\ ~At("old", a, st)
    BY <1>2, <2>1 DEF At
  <2>3. "running" \in Stages /\ "ran" \in Stages  BY DEF Stages
  <2> QED  BY <2>2, <2>3 DEF OnceInv, OnlyOne, Under, Slots
<1> QED  BY <1>1, <1>2 DEF AbandonSend

LEMMA OnceStep ==
    OutboxTypes /\ WaitInv /\ AskedInv /\ OnceInv /\ [OutboxNext]_outboxVars => OnceInv'
<1> SUFFICES ASSUME OutboxTypes, WaitInv, AskedInv, OnceInv, [OutboxNext]_outboxVars
             PROVE  OnceInv'
  OBVIOUS
<1> USE DEF fila, memory, retry
<1>s. "wk" \in Slots /\ slot \in [Slots -> Requests \cup {Nil}]  BY DEF Slots, OutboxTypes
<1>f. runs \in [Actions -> Nat] /\ table \in [Actions -> Nat \cup {Nil}]
  BY DEF OutboxTypes
<1>n. \A a \in Actions : told'[a] = "new" => told[a] = "new"  BY AskedStep DEF Asked
<1>l. oclock # Nil  BY NilIs DEF OutboxTypes
<1>1. ASSUME NEW a \in Actions, Ask(a) PROVE OnceInv'
  <2>1. PICK ran \in BOOLEAN :
          /\ runs' = [runs EXCEPT ![a] = IF ran THEN @ + 1 ELSE @]
          /\ table' = IF ran /\ a \in InBody THEN [table EXCEPT ![a] = oclock] ELSE table
          /\ explained' = IF ran /\ a \notin InBody THEN explained \cup {a} ELSE explained
    BY <1>1 DEF Ask
  <2>2. told[a] = "new" /\ slot' = slot /\ runs[a] = 0 /\ table[a] = Nil
    BY <1>1 DEF Ask, OnceInv
  <2>3. told'[a] # "new"  BY <1>1, <1>f DEF Ask, OutboxTypes
  <2>4. \A b \in Actions : b # a => runs'[b] = runs[b] /\ table'[b] = table[b]  BY <1>f, <2>1
  <2>5. \A x \in Slots : slot[x] # Nil => slot[x].a # a  BY <2>2 DEF AskedInv, Asked
  <2>6. \A b \in Actions, x \in Slots, st \in Stages : At(x, b, st)' <=> At(x, b, st)
    BY <2>2 DEF At
  <2>7. a \notin explained' => OnlyOne(a)'
    <3>1. \A x \in Slots : \A st : ~At(x, a, st)'  BY <2>2, <2>5 DEF At
    <3>2. CASE ran /\ a \in InBody
      <4>1. runs'[a] = 1 /\ table'[a] = oclock  BY <1>f, <2>1, <2>2, <3>2
      <4> QED  BY <1>l, <3>1, <4>1 DEF OnlyOne, Under
    <3>3. CASE ~ran
      <4>1. runs'[a] = 0  BY <1>f, <2>1, <2>2, <3>3
      <4> QED  BY <3>1, <4>1 DEF OnlyOne, Under
    <3> QED  BY <2>1, <3>2, <3>3
  <2>8. ASSUME NEW b \in Actions \ explained', b # a PROVE OnlyOne(b)'
    <3>1. OnlyOne(b)  BY <2>1, <2>8 DEF OnceInv
    <3>2. "running" \in Stages /\ "ran" \in Stages  BY DEF Stages
    <3> QED  BY <2>4, <2>6, <2>8, <3>1, <3>2 DEF OnlyOne, Under
  <2> QED  BY <1>n, <2>3, <2>4, <2>7, <2>8 DEF OnceInv
<1>2. CASE PhoneStep
  BY <1>2, <1>n, OnceStays
  DEF PhoneStep, EnqueueRead, EnqueueSet, EnqueueTruncates, EnqueueWrites, EnqueueEnds, At
<1>3. CASE WorkStarts \/ QueueSeenEmpty \/ WorkEnds \/ DropFirst \/ DropTruncates \/ DropWrites
  BY <1>3, <1>n, OnceStays
  DEF WorkStarts, QueueSeenEmpty, WorkEnds, DropFirst, DropTruncates, DropWrites, At
<1>4. CASE SendFirst
  <2>1. slot["wk"] = Nil  BY <1>4 DEF SendFirst, WaitInv
  <2>2. slot' = [slot EXCEPT !["wk"] = [a |-> Head(mem), st |-> "sent", res |-> Nil]]
    BY <1>4 DEF SendFirst
  <2>3. \A x \in Slots : x # "wk" => slot'[x] = slot[x]  BY <1>s, <2>2
  <2>4. slot'["wk"].st = "sent"  BY <1>s, <2>2
  <2>5. \A x \in Slots, a \in Actions :
          (At(x, a, "running")' <=> At(x, a, "running")) /\ (At(x, a, "ran")' <=> At(x, a, "ran"))
    BY <2>1, <2>3, <2>4 DEF At
  <2> QED  BY <1>4, <1>n, <2>5, OnceStays DEF SendFirst
<1>5. CASE SendAnswered
  <2>1. slot["wk"].st = "done" /\ slot' = [slot EXCEPT !["wk"] = Nil]  BY <1>5 DEF SendAnswered
  <2>2. \A x \in Slots, a \in Actions :
          (At(x, a, "running")' <=> At(x, a, "running")) /\ (At(x, a, "ran")' <=> At(x, a, "ran"))
    BY <1>s, <2>1 DEF At
  <2> QED  BY <1>5, <1>n, <2>2, OnceStays DEF SendAnswered
<1>6. CASE SendLost \/ SendTimesOut
  BY <1>6, OnceMoves DEF SendLost, SendTimesOut, SendFails
<1>7. CASE PhoneRestarts  BY <1>7, OnceMoves DEF PhoneRestarts
<1>8. CASE ServerRestarts
  <2>1. /\ table' = [a \in Actions |-> IF a \in InBody THEN Nil ELSE table[a]] /\ runs' = runs
        /\ explained' = explained \cup {a \in Actions : Underway(a)}
                                  \cup {a \in InBody : table[a] # Nil}
        /\ told' = told
    BY <1>8 DEF ServerRestarts, Reloaded
  <2>2. \A a \in Actions \ explained' : table'[a] = table[a] /\ ~Underway(a)  BY <2>1
  <2>3. \A x \in Slots : slot'[x] # Nil => slot'[x].st = "lost"
    <3>1. \A x \in Slots : slot'[x] = IF slot[x] = Nil \/ x = "old" THEN Nil
                                      ELSE [slot[x] EXCEPT !.st = "lost"]
      BY <1>8 DEF ServerRestarts
    <3>2. \A x \in Slots : slot[x] # Nil => [slot[x] EXCEPT !.st = "lost"].st = "lost"
      BY SlotIs DEF Requests
    <3> QED  BY <3>1, <3>2
  <2>4. ASSUME NEW a \in Actions \ explained' PROVE OnlyOne(a)'
    <3>1. \A x \in Slots : ~At(x, a, "running")' /\ ~At(x, a, "ran")'  BY <2>3 DEF At
    <3>2. \A x \in Slots : ~At(x, a, "ran")  BY <2>2 DEF Underway, At
    <3>3. OnlyOne(a)  BY <2>1 DEF OnceInv
    <3> QED  BY <2>1, <2>2, <3>1, <3>2, <3>3 DEF OnlyOne, Under
  <2>5. \A a \in Actions : told'[a] = "new" => runs'[a] = 0 /\ table'[a] = Nil
    BY <2>1 DEF OnceInv
  <2> QED  BY <2>4, <2>5 DEF OnceInv
<1>9. CASE OTick \/ UNCHANGED outboxVars
  BY <1>9, <1>n, OnceStays DEF OTick, outboxVars, At
<1>10. ASSUME NEW x \in Slots, BffStep(x) \/ Run(x, "error") PROVE OnceInv'
  <2>0. slot[x] # Nil /\ slot[x] \in Requests  BY <1>10, RequestStays, SlotIs
  <2>1. PICK a \in Actions : a = slot[x].a  BY <2>0 DEF Requests
  <2>2. told' = told  BY <1>10, ServedRequest
  <2>3. told[a] # "new"  BY <2>0, <2>1 DEF AskedInv, Asked
  <2>4. \A y \in Slots : y # x => slot'[y] = slot[y]
    BY <1>10, <1>s DEF BffStep, Lookup, Run, Remember, Answered
  <2>r. "running" \in Stages /\ "ran" \in Stages  BY DEF Stages
  <2>5. \A b \in Actions : b # a => runs'[b] = runs[b] /\ table'[b] = table[b]
    BY <1>10, <1>f, <2>1 DEF BffStep, Lookup, Run, Remember
  <2>6. ASSUME NEW b \in Actions, b # a, NEW y \in Slots, NEW st PROVE At(y, b, st)' <=> At(y, b, st)
    BY <1>10, <2>0, <2>1, <2>4, <2>6, RequestStays DEF At
  <2>7. \A b \in Actions : b \notin explained' => b \notin explained
    BY <1>10 DEF BffStep, Lookup, Run, Remember
  <2>8. ASSUME NEW b \in Actions \ explained', b # a PROVE OnlyOne(b)'
    <3>1. OnlyOne(b)  BY <2>7, <2>8 DEF OnceInv
    <3> QED  BY <2>5, <2>6, <2>8, <3>1 DEF OnlyOne, Under
  <2>9. \A b \in Actions : told'[b] = "new" => runs'[b] = 0 /\ table'[b] = Nil
    BY <2>2, <2>3, <2>5 DEF OnceInv
  <2> SUFFICES ASSUME a \notin explained' PROVE OnlyOne(a)'
    BY <2>8, <2>9 DEF OnceInv
  <2>10. OnlyOne(a)  BY <2>7 DEF OnceInv
  <2>11. \A y \in Slots : \A st : y # x => (At(y, a, st)' <=> At(y, a, st))  BY <2>4 DEF At
  <2>12. ASSUME NEW res \in Results, Answered(x, res) PROVE \A st \in {"running", "ran"} : ~At(x, a, st)'
    <3>1. [slot[x] EXCEPT !.st = "done", !.res = res].st = "done"  BY <2>0 DEF Requests
    <3>2. slot'[x] = IF x = "old" THEN Nil ELSE [slot[x] EXCEPT !.st = "done", !.res = res]
      BY <1>s, <2>12 DEF Answered
    <3> QED  BY <3>1, <3>2 DEF At
  <2>13. CASE Lookup(x)
    <3>1. At(x, a, "sent") /\ runs' = runs /\ table' = table /\ ~Under(x, a)
      BY <2>1, <2>13 DEF Lookup, Stands, At, Under
    <3>2. CASE Fresh(a)
      <4>1. Answered(x, "ok")  BY <2>1, <2>13, <3>2 DEF Lookup
      <4>2. \A st \in {"running", "ran"} : ~At(x, a, st)'  BY <4>1, <2>12 DEF Results
      <4> QED  BY <2>10, <2>11, <3>1, <4>2 DEF OnlyOne, Under
    <3>3. CASE ~Fresh(a)
      <4>1. slot' = [slot EXCEPT ![x].st = "running"] /\ ~Underway(a) /\ table[a] = Nil
        BY <2>1, <2>13, <3>3 DEF Lookup
      <4>2. \A y \in Slots : ~Under(y, a)  BY <4>1 DEF Underway, Under, At
      <4>3. runs[a] = 0  BY <2>10, <4>1, <4>2 DEF OnlyOne, Under
      <4>4. ~At(x, a, "ran")' 
        <5>1. slot'[x].st = "running"  BY <1>s, <2>0, <4>1 DEF Requests
        <5> QED  BY <5>1 DEF At
      <4>5. \A y \in Slots : y # x => ~Under(y, a)'  BY <2>11, <4>2 DEF Under
      <4> QED  BY <3>1, <4>1, <4>3, <4>4, <4>5 DEF OnlyOne, Under
    <3> QED  BY <3>2, <3>3
  <2>14. ASSUME NEW res \in Results, Run(x, res) PROVE OnlyOne(a)'
    <3>1. At(x, a, "running") /\ table' = table  BY <2>1, <2>14 DEF Run, Stands, At
    <3>2. runs[a] = 0 /\ table[a] = Nil /\ \A y \in Slots : Under(y, a) => y = x
      BY <2>10, <3>1 DEF OnlyOne, Under
    <3>3. \A y \in Slots : y # x => ~Under(y, a)'  BY <2>11, <3>2 DEF Under
    <3>4. CASE res = "ok"
      <4>1. slot' = [slot EXCEPT ![x].st = "ran"] /\ runs' = [runs EXCEPT ![a] = @ + 1]
        BY <2>1, <2>14, <3>4 DEF Run
      <4>2. runs'[a] = 1  BY <1>f, <3>2, <4>1
      <4>3. [slot[x] EXCEPT !.st = "ran"] \in Requests  BY <2>0 DEF Requests, Stages
      <4>4. slot'[x] = [slot[x] EXCEPT !.st = "ran"]  BY <1>s, <4>1
      <4>5. At(x, a, "ran")'  BY <2>0, <2>1, <4>3, <4>4, NilIs DEF At, Requests
      <4>6. ~At(x, a, "running")'  BY <4>5 DEF At
      <4> QED  BY <3>1, <3>2, <3>3, <4>2, <4>5, <4>6 DEF OnlyOne, Under
    <3>5. CASE res # "ok"
      <4>1. Answered(x, res) /\ runs'[a] = runs[a]  BY <1>f, <2>1, <2>14, <3>5 DEF Run
      <4>2. ~Under(x, a)'  BY <2>12, <4>1 DEF Under
      <4> QED  BY <3>1, <3>2, <3>3, <4>1, <4>2 DEF OnlyOne, Under
    <3> QED  BY <3>4, <3>5
  <2>15. CASE Remember(x)
    <3>1. At(x, a, "ran") /\ runs' = runs /\ Answered(x, "ok") /\ table' = [table EXCEPT ![a] = oclock]
      BY <2>1, <2>15 DEF Remember, Stands, At
    <3>2. runs[a] = 1 /\ \A y \in Slots : Under(y, a) => y = x
      BY <2>10, <3>1 DEF OnlyOne, Under
    <3>3. \A y \in Slots : y # x => ~Under(y, a)'  BY <2>11, <3>2 DEF Under
    <3>4. ~Under(x, a)'  BY <2>12, <3>1 DEF Under, Results
    <3>5. table'[a] # Nil  BY <1>f, <1>l, <3>1
    <3> QED  BY <3>1, <3>2, <3>3, <3>4, <3>5 DEF OnlyOne, Under
  <2> QED  BY <1>10, <2>13, <2>14, <2>15 DEF BffStep, Results
<1> QED
  BY <1>1, <1>2, <1>3, <1>4, <1>5, <1>6, <1>7, <1>8, <1>9, <1>10 DEF OutboxNext, WorkStep

(* For every action, capacity and life of the records: a second execution has
   a cause the server or the phone could have seen, and nothing else lets a
   retry run twice.                                                        *)
THEOREM SecondRunsExplained == OutboxSpec => []TwiceIsExplained
<1>1. OutboxInit => AskedInv /\ OnceInv
  <2> SUFFICES ASSUME OutboxInit PROVE AskedInv /\ OnceInv  OBVIOUS
  <2>1. /\ mem = <<>> /\ file = <<>> /\ enq = Nil /\ wk.list = <<>>
        /\ \A x \in Slots : slot[x] = Nil
        /\ \A a \in Actions : runs[a] = 0 /\ table[a] = Nil
    BY DEF OutboxInit, Off
  <2>2. <<>> \in Seq(Asked)  OBVIOUS
  <2> QED  BY <2>1, <2>2 DEF AskedInv, OnceInv, OnlyOne, Under, At
<1>2. OutboxTypes /\ OnceInv => TwiceIsExplained
  BY DEF OutboxTypes, OnceInv, OnlyOne, TwiceIsExplained
<1>3. OutboxTypes /\ WaitInv /\ AskedInv /\ OnceInv /\ [OutboxNext]_outboxVars
        => OutboxTypes' /\ WaitInv' /\ AskedInv' /\ OnceInv'
  BY OutboxTypesStep, WaitStep, AskedStep, OnceStep
<1> QED  BY <1>1, <1>2, <1>3, OutboxTypesInit, PTL DEF OutboxSpec

-----------------------------------------------------------------------------
(* Why an action called queued is not lost.  Outside the two windows, only
   one of enfileirar and the worker's removal is between its read of the
   list and its write of the file, so what it read is still what is there;
   a removal takes only an action that is settled; the file is the list as
   it was published, or half written.                                      *)
Holds(l) == \A a \in Actions : told[a] = "queued" => a \in settled \cup ToSet(l)

EnqueueInv ==
    /\ enq # Nil /\ enq.at = "set" => enq.list = Append(mem, enq.a)
    /\ enq # Nil /\ enq.at \in {"gravar", "write"} => mem = enq.list /\ enq.a \in ToSet(mem)
    /\ enq # Nil /\ enq.at = "agendar" =>
         /\ enq.a \in settled \cup ToSet(mem)
         /\ file # Nil => enq.a \in settled \cup ToSet(file)

RemovalInv ==
    /\ wk.at = "drop" => mem # <<>> /\ wk.list = Tail(mem) /\ Head(mem) \in settled
    /\ wk.at \in {"gravar", "write"} => mem = wk.list
    /\ slot["wk"] # Nil => slot["wk"].a = Head(mem)

Kept ==
    /\ Holds(mem)
    /\ file # Nil => Holds(file)
    /\ EnqueueInv /\ RemovalInv
    /\ ~(Busy(enq) /\ Busy(wk))

KeptInv == overlap \/ torn \/ Kept

LEMMA AppendHolds ==
    ASSUME NEW s \in Seq(Actions), NEW a \in Actions
    PROVE  /\ ToSet(Append(s, a)) = ToSet(s) \cup {a}
           /\ s # <<>> => Head(Append(s, a)) = Head(s)
<1>1. \A i \in 1 .. Len(s) : Append(s, a)[i] = s[i]  OBVIOUS
<1>2. Append(s, a)[Len(s) + 1] = a /\ DOMAIN Append(s, a) = 1 .. Len(s) + 1 /\ DOMAIN s = 1 .. Len(s)
  OBVIOUS
<1>3. 1 .. Len(s) + 1 = (1 .. Len(s)) \cup {Len(s) + 1}  OBVIOUS
<1>4. ToSet(Append(s, a)) = ToSet(s) \cup {a}  BY <1>1, <1>2, <1>3 DEF ToSet
<1>5. s # <<>> => Head(Append(s, a)) = Head(s)  OBVIOUS
<1> QED  BY <1>4, <1>5

LEMMA TailHolds ==
    ASSUME NEW s \in Seq(Actions), s # <<>>
    PROVE  ToSet(s) \subseteq {Head(s)} \cup ToSet(Tail(s))
<1>1. \A i \in 1 .. Len(s) : i = 1 \/ (i - 1 \in 1 .. Len(Tail(s)) /\ Tail(s)[i - 1] = s[i])
  OBVIOUS
<1>2. DOMAIN s = 1 .. Len(s) /\ DOMAIN Tail(s) = 1 .. Len(Tail(s)) /\ Head(s) = s[1]  OBVIOUS
<1> QED  BY <1>1, <1>2 DEF ToSet

(* What a step that only ends or fails something leaves as it was.         *)
LEMMA KeptStays ==
    ASSUME Kept, UNCHANGED <<mem, file, told, settled>>,
           enq' \in {enq, Nil}, wk' = wk \/ wk'.at \in {"off", "loop", "success", "wait"},
           slot'["wk"] # Nil => slot["wk"] # Nil /\ slot'["wk"].a = slot["wk"].a
    PROVE  Kept'
<1>1. Holds(mem)' /\ (file' # Nil => Holds(file)')  BY DEF Kept, Holds
<1>2. EnqueueInv'  BY DEF Kept, EnqueueInv
<1>3. RemovalInv'  BY DEF Kept, RemovalInv
<1>4. ~(Busy(enq) /\ Busy(wk))'  BY DEF Kept, Busy
<1> QED  BY <1>1, <1>2, <1>3, <1>4 DEF Kept

LEMMA KeptStep ==
    OutboxTypes /\ WaitInv /\ KeptInv /\ [OutboxNext]_outboxVars => KeptInv'
<1> SUFFICES ASSUME OutboxTypes, WaitInv, Kept, [OutboxNext]_outboxVars, ~overlap', ~torn'
             PROVE  Kept'
  <2>1. overlap /\ [OutboxNext]_outboxVars => overlap'
    BY DEF OutboxNext, PhoneStep, WorkStep, BffStep, outboxVars, fila, memory, retry, Ask, EnqueueRead,
           EnqueueSet, EnqueueTruncates, EnqueueWrites, EnqueueEnds, WorkStarts, SendFirst,
           QueueSeenEmpty, WorkEnds, SendAnswered, DropFirst, DropTruncates, DropWrites, SendLost,
           SendTimesOut, SendFails, PhoneRestarts, ServerRestarts, OTick, Lookup, Run, Remember
  <2>2. torn /\ [OutboxNext]_outboxVars => torn'
    BY DEF OutboxNext, PhoneStep, WorkStep, BffStep, outboxVars, fila, memory, retry, Ask, EnqueueRead,
           EnqueueSet, EnqueueTruncates, EnqueueWrites, EnqueueEnds, WorkStarts, SendFirst,
           QueueSeenEmpty, WorkEnds, SendAnswered, DropFirst, DropTruncates, DropWrites, SendLost,
           SendTimesOut, SendFails, PhoneRestarts, ServerRestarts, OTick, Lookup, Run, Remember
  <2> QED  BY <2>1, <2>2 DEF KeptInv
<1> USE DEF fila, memory, retry
<1>s. "wk" \in Slots /\ slot \in [Slots -> Requests \cup {Nil}]  BY DEF Slots, OutboxTypes
<1>t. mem \in Seq(Actions) /\ wk \in Working /\ told \in [Actions -> Tellings]  BY DEF OutboxTypes
<1>e. enq # Nil => enq \in Enqueuing /\ enq.a \in Actions  BY DEF OutboxTypes, Enqueuing
<1>k. /\ Holds(mem) /\ (file # Nil => Holds(file)) /\ EnqueueInv /\ RemovalInv
      /\ ~(Busy(enq) /\ Busy(wk))
  BY DEF Kept
<1>1. ASSUME NEW a \in Actions, Ask(a) PROVE Kept'
  <2>1. \A b \in Actions : told'[b] = "queued" => told[b] = "queued"  BY <1>1, <1>t DEF Ask
  <2>2. Holds(mem)' /\ (file' # Nil => Holds(file)')  BY <1>1, <1>k, <2>1 DEF Ask, Holds
  <2>3. enq' # Nil => enq'.at = "read"  BY <1>1 DEF Ask
  <2>4. EnqueueInv' /\ ~Busy(enq)'  BY <2>3 DEF EnqueueInv, Busy
  <2>5. RemovalInv'  BY <1>1, <1>k DEF Ask, RemovalInv
  <2> QED  BY <2>2, <2>4, <2>5 DEF Kept
<1>2. CASE EnqueueRead
  <2>0. enq # Nil /\ enq.at = "read" /\ ~Busy(wk) /\ UNCHANGED <<mem, file, wk, settled, slot>>
    BY <1>2 DEF EnqueueRead
  <2>1. \A b \in Actions : told'[b] = "queued" => told[b] = "queued"
    BY <1>2, <1>t, <1>e DEF EnqueueRead
  <2>2. Holds(mem)' /\ (file' # Nil => Holds(file)')  BY <2>0, <1>k, <2>1 DEF Holds
  <2>3. EnqueueInv'
    <3>1. CASE enq' = Nil  BY <3>1 DEF EnqueueInv
    <3>2. CASE enq' = [enq EXCEPT !.at = "set", !.list = Append(mem, enq.a)]
      <4>1. enq'.at = "set" /\ enq'.a = enq.a /\ enq'.list = Append(mem, enq.a)
        BY <1>e, <2>0, <3>2 DEF Enqueuing
      <4> QED  BY <2>0, <4>1 DEF EnqueueInv
    <3> QED  BY <1>2, <3>1, <3>2 DEF EnqueueRead
  <2>4. RemovalInv' /\ ~Busy(wk)'  BY <2>0, <1>k DEF RemovalInv, Busy
  <2> QED  BY <2>2, <2>3, <2>4 DEF Kept
<1>3. CASE EnqueueSet
  <2>0. /\ enq # Nil /\ enq.at = "set" /\ enq \in Enqueuing /\ enq.a \in Actions
        /\ mem' = enq.list /\ enq' = [enq EXCEPT !.at = "gravar"]
        /\ UNCHANGED <<file, wk, told, settled, slot>>
    BY <1>3, <1>e DEF EnqueueSet
  <2>1. mem' = Append(mem, enq.a)  BY <1>k, <2>0 DEF EnqueueInv
  <2>2. /\ enq'.at = "gravar" /\ enq'.a = enq.a /\ enq'.list = enq.list
    BY <2>0 DEF Enqueuing
  <2>3. ToSet(mem') = ToSet(mem) \cup {enq.a} /\ (mem # <<>> => Head(mem') = Head(mem))
    BY <1>t, <2>0, <2>1, AppendHolds
  <2>4. Holds(mem)' /\ (file' # Nil => Holds(file)')  BY <1>k, <2>0, <2>3 DEF Holds
  <2>5. EnqueueInv'  BY <2>0, <2>2, <2>3 DEF EnqueueInv
  <2>6. ~Busy(wk)  BY <1>k, <2>0 DEF Busy
  <2>7. RemovalInv' /\ ~Busy(wk)'
    <3>1. wk.at \notin {"drop", "gravar", "write"}
      BY <2>6, <1>t, NilIs DEF Busy
    <3> QED  BY <1>k, <2>0, <2>3, <2>6, <3>1 DEF RemovalInv, WaitInv, Busy
  <2> QED  BY <2>4, <2>5, <2>7 DEF Kept
<1>4. CASE EnqueueTruncates
  <2>0. /\ enq # Nil /\ enq.at = "gravar" /\ enq \in Enqueuing /\ file' = Nil
        /\ enq' = [enq EXCEPT !.at = "write"] /\ UNCHANGED <<mem, wk, told, settled, slot>>
    BY <1>4, <1>e DEF EnqueueTruncates, Truncates
  <2>1. enq'.at = "write" /\ enq'.a = enq.a /\ enq'.list = enq.list  BY <2>0 DEF Enqueuing
  <2>2. Holds(mem)' /\ EnqueueInv'  BY <1>k, <2>0, <2>1 DEF Holds, EnqueueInv
  <2>3. RemovalInv' /\ ~Busy(wk)'  BY <1>k, <2>0 DEF RemovalInv, Busy
  <2> QED  BY <2>0, <2>2, <2>3 DEF Kept
<1>5. CASE EnqueueWrites
  <2>0. /\ enq # Nil /\ enq.at = "write" /\ enq \in Enqueuing /\ file' = enq.list
        /\ enq' = [enq EXCEPT !.at = "agendar"] /\ UNCHANGED <<mem, wk, told, settled, slot>>
    BY <1>5, <1>e DEF EnqueueWrites, Writes
  <2>1. enq'.at = "agendar" /\ enq'.a = enq.a  BY <2>0 DEF Enqueuing
  <2>2. file' = mem /\ enq.a \in ToSet(mem)  BY <1>k, <2>0 DEF EnqueueInv
  <2>3. Holds(mem)' /\ Holds(file)' /\ EnqueueInv'  BY <1>k, <2>0, <2>1, <2>2 DEF Holds, EnqueueInv
  <2>4. RemovalInv' /\ ~Busy(enq)'  BY <1>k, <2>0, <2>1 DEF RemovalInv, Busy
  <2> QED  BY <2>3, <2>4 DEF Kept
<1>6. CASE EnqueueEnds
  <2>0. /\ enq # Nil /\ enq.at = "agendar" /\ enq.a \in Actions /\ enq' = Nil
        /\ told' = [told EXCEPT ![enq.a] = "queued"] /\ UNCHANGED <<mem, file, wk, settled, slot>>
    BY <1>6, <1>e DEF EnqueueEnds
  <2>1. \A b \in Actions : told'[b] = "queued" => b = enq.a \/ told[b] = "queued"  BY <1>t, <2>0
  <2>2. Holds(mem)' /\ (file' # Nil => Holds(file)')  BY <1>k, <2>0, <2>1 DEF Holds, EnqueueInv
  <2>3. EnqueueInv' /\ RemovalInv' /\ ~Busy(enq)'  BY <1>k, <2>0 DEF EnqueueInv, RemovalInv, Busy
  <2> QED  BY <2>2, <2>3 DEF Kept
<1>7. CASE WorkStarts \/ QueueSeenEmpty \/ WorkEnds
  <2>1. wk'.at \in {"off", "loop", "success"}
    BY <1>7, <1>t DEF WorkStarts, QueueSeenEmpty, WorkEnds, Off, Working, WorkSteps
  <2>2. UNCHANGED <<mem, file, enq, told, settled, slot>>
    BY <1>7 DEF WorkStarts, QueueSeenEmpty, WorkEnds
  <2> QED  BY <2>1, <2>2, KeptStays
<1>8. CASE SendFirst
  <2>0. wk'.at = "wait" /\ UNCHANGED <<mem, file, enq, told, settled>>
    BY <1>8, <1>t DEF SendFirst, Working, WorkSteps
  <2>1. slot'["wk"].a = Head(mem)  BY <1>8, <1>s DEF SendFirst
  <2>2. Holds(mem)' /\ (file' # Nil => Holds(file)') /\ EnqueueInv'
    BY <1>k, <2>0 DEF Holds, EnqueueInv
  <2>3. RemovalInv' /\ ~Busy(wk)'  BY <2>0, <2>1 DEF RemovalInv, Busy
  <2> QED  BY <2>2, <2>3 DEF Kept
<1>9. CASE SendAnswered
  <2>0. slot'["wk"] = Nil /\ UNCHANGED <<mem, file, enq, told>> /\ slot["wk"] # Nil
    BY <1>9, <1>s DEF SendAnswered
  <2>1. CASE slot["wk"].res = "error"
    <3>1. wk'.at = "off" /\ UNCHANGED settled  BY <1>9, <2>1 DEF SendAnswered, Off
    <3> QED  BY <2>0, <3>1, KeptStays
  <2>2. CASE slot["wk"].res # "error"
    <3>1. wk' = [at |-> "drop", list |-> Tail(mem)] /\ ~Busy(enq)
      BY <1>9, <2>2 DEF SendAnswered, Rest
    <3>2. mem # <<>> /\ slot["wk"].a = Head(mem)  BY <1>k, <2>0 DEF WaitInv, RemovalInv
    <3>3. settled' = settled \cup {Head(mem)}  BY <1>9, <2>2, <3>2 DEF SendAnswered
    <3>4. Holds(mem)' /\ (file' # Nil => Holds(file)') /\ EnqueueInv'
      BY <1>k, <2>0, <3>3 DEF Holds, EnqueueInv
    <3>5. RemovalInv' /\ ~Busy(enq)'  BY <2>0, <3>1, <3>2, <3>3 DEF RemovalInv, Busy
    <3> QED  BY <3>4, <3>5 DEF Kept
  <2> QED  BY <2>1, <2>2
<1>10. CASE SendLost \/ SendTimesOut
  <2>1. SendFails  BY <1>10 DEF SendLost, SendTimesOut
  <2>2. slot'["wk"] = Nil  BY <2>1, AbandonIs DEF SendFails
  <2>3. wk'.at = "off"  BY <2>1 DEF SendFails, Off
  <2> QED  BY <2>1, <2>2, <2>3, KeptStays DEF SendFails
<1>11. CASE DropFirst
  <2>0. /\ wk.at = "drop" /\ mem' = wk.list /\ wk' = [wk EXCEPT !.at = "gravar"]
        /\ UNCHANGED <<file, enq, told, settled, slot>>
    BY <1>11 DEF DropFirst
  <2>1. wk'.at = "gravar" /\ wk'.list = wk.list  BY <1>t, <2>0 DEF Working
  <2>2. mem # <<>> /\ mem' = Tail(mem) /\ Head(mem) \in settled  BY <1>k, <2>0 DEF RemovalInv
  <2>3. ToSet(mem) \subseteq {Head(mem)} \cup ToSet(mem')  BY <1>t, <2>2, TailHolds
  <2>4. Holds(mem)' /\ (file' # Nil => Holds(file)')
    BY <1>k, <2>0, <2>2, <2>3 DEF Holds
  <2>5. Busy(wk) /\ ~Busy(enq)
    <3>1. wk # Nil  BY <1>t, NilIs
    <3> QED  BY <1>k, <2>0, <3>1 DEF Busy
  <2>6. EnqueueInv' /\ ~Busy(enq)'  BY <1>k, <2>0, <2>2, <2>3, <2>5 DEF EnqueueInv, Busy
  <2>7. RemovalInv'  BY <2>0, <2>1 DEF RemovalInv, WaitInv
  <2> QED  BY <2>4, <2>6, <2>7 DEF Kept
<1>12. CASE DropTruncates
  <2>0. /\ wk # Nil /\ wk.at = "gravar" /\ file' = Nil /\ wk' = [wk EXCEPT !.at = "write"]
        /\ UNCHANGED <<mem, enq, told, settled, slot>>
    BY <1>12 DEF DropTruncates, Truncates
  <2>1. wk'.at = "write" /\ wk'.list = wk.list  BY <1>t, <2>0 DEF Working
  <2>2. ~Busy(enq)  BY <1>k, <2>0 DEF Busy
  <2>3. Holds(mem)' /\ EnqueueInv' /\ ~Busy(enq)'  BY <1>k, <2>0, <2>2 DEF Holds, EnqueueInv, Busy
  <2>4. RemovalInv'  BY <1>k, <2>0, <2>1 DEF RemovalInv
  <2> QED  BY <2>0, <2>3, <2>4 DEF Kept
<1>13. CASE DropWrites
  <2>0. /\ wk.at = "write" /\ file' = wk.list /\ wk'.at = "loop"
        /\ UNCHANGED <<mem, enq, told, settled, slot>>
    BY <1>13 DEF DropWrites, Writes
  <2>1. file' = mem  BY <1>k, <2>0 DEF RemovalInv
  <2>2. Holds(mem)' /\ Holds(file)' /\ EnqueueInv'  BY <1>k, <2>0, <2>1 DEF Holds, EnqueueInv
  <2>3. RemovalInv' /\ ~Busy(wk)'  BY <1>k, <2>0 DEF RemovalInv, Busy
  <2> QED  BY <2>2, <2>3 DEF Kept
<1>14. CASE PhoneRestarts
  <2>1. file # Nil /\ mem' = file /\ file' = file /\ enq' = Nil /\ wk' = Off /\ UNCHANGED <<told, settled>>
    BY <1>14 DEF PhoneRestarts, ler
  <2>2. slot'["wk"] = Nil  BY <1>14, AbandonIs DEF PhoneRestarts
  <2>3. Holds(mem)' /\ Holds(file)'  BY <1>k, <2>1 DEF Holds
  <2>4. EnqueueInv' /\ ~Busy(enq)'  BY <2>1 DEF EnqueueInv, Busy
  <2>5. RemovalInv'  BY <2>1, <2>2 DEF RemovalInv, Off
  <2> QED  BY <2>3, <2>4, <2>5 DEF Kept
<1>15. CASE ServerRestarts
  <2>1. slot'["wk"] # Nil => slot["wk"] # Nil /\ slot'["wk"].a = slot["wk"].a
    <3>1. slot'["wk"] # Nil => slot["wk"] # Nil /\ slot'["wk"] = [slot["wk"] EXCEPT !.st = "lost"]
      BY <1>15, <1>s DEF ServerRestarts
    <3> QED  BY <1>s, <3>1, SlotIs DEF Requests
  <2> QED  BY <1>15, <2>1, KeptStays DEF ServerRestarts
<1>16. CASE OTick \/ UNCHANGED outboxVars
  BY <1>16, KeptStays DEF OTick, outboxVars
<1>17. ASSUME NEW x \in Slots, BffStep(x) \/ Run(x, "error") PROVE Kept'
  BY <1>17, <1>s, ServedRequest, RequestStays, KeptStays
<1> QED
  BY <1>1, <1>2, <1>3, <1>4, <1>5, <1>6, <1>7, <1>8, <1>9, <1>10, <1>11, <1>12, <1>13, <1>14,
     <1>15, <1>16, <1>17 DEF OutboxNext, PhoneStep, WorkStep

(* For every set of actions, capacity of the queue and number of deaths of
   the app and of the server: what the screen called queued is in the queue,
   delivered or reported refused, unless one of the two windows was met.   *)
THEOREM QueuedIsKept == OutboxSpec => []AcceptedIsKept
<1>1. OutboxInit => KeptInv
  <2> SUFFICES ASSUME OutboxInit PROVE Kept  BY DEF KeptInv
  <2>1. /\ enq = Nil /\ wk.at = "off" /\ slot["wk"] = Nil
        /\ \A a \in Actions : told[a] = "new"
    BY DEF OutboxInit, Off, Slots
  <2> QED  BY <2>1 DEF Kept, Holds, EnqueueInv, RemovalInv, Busy
<1>2. KeptInv => AcceptedIsKept  BY DEF KeptInv, Kept, Holds, AcceptedIsKept
<1>3. OutboxTypes /\ WaitInv /\ KeptInv /\ [OutboxNext]_outboxVars
        => OutboxTypes' /\ WaitInv' /\ KeptInv'
  BY OutboxTypesStep, WaitStep, KeptStep
<1> QED  BY <1>1, <1>2, <1>3, OutboxTypesInit, PTL DEF OutboxSpec

-----------------------------------------------------------------------------
(* The mobile session: the phones of one user, and the file of refresh
   records their calls share.                                              *)
CallStages == {"sent", "loaded", "written", "ok", "no", "err"}
Calls == [id : Nat, dev : Devices, old : Nat, stage : CallStages, image : SUBSET Nat, found : BOOLEAN]
Places == {"idle", "queue", "out", "renew", "leave"}
ThreadStates == [at : Places, bearer : Nat, replay : BOOLEAN, leaving : BOOLEAN, call : Nat]

(* What the variables the argument reads hold.                             *)
SessionTypes ==
    /\ pair \in [Devices -> Nat] /\ kept \in [Devices -> Nat] /\ login \in [Devices -> Nat]
    /\ thread \in [Threads -> ThreadStates]
    /\ posts \subseteq Calls /\ records \subseteq Nat /\ tmp \subseteq SUBSET Nat
    /\ minted \in Nat /\ lapsed \subseteq Nat

(* A token belongs to one phone: it is the phone's pair or was kept on its
   flash, or a call of the phone carries it or will hand it out.           *)
Owns(d, n) ==
    \/ n \in {pair[d], kept[d]}
    \/ \E p \in posts : p.dev = d /\ n \in {p.id, p.old}

TokenInv ==
    /\ \A p, q \in posts : (p.id = q.id => p = q) /\ p.id # q.old
    /\ \A p \in posts : p.id # 0 /\ \A d \in Devices : p.id \notin {pair[d], kept[d]}
    /\ \A d \in Devices, n \in Nat : Owns(d, n) => n <= minted
    /\ \A d, e \in Devices, n \in Nat \ {0} : Owns(d, n) /\ Owns(e, n) => d = e

(* Who waits for a call.  The call of a phone without trouble is always
   waited for: a login by the phone, a renewal by the one thread that has
   the mutex.                                                              *)
Awaited(p) ==
    IF p.old = 0 THEN login[p.dev] = p.id
    ELSE \E t \in Threads :
           DeviceOf[t] = p.dev /\ thread[t].at = "renew" /\ thread[t].call = p.id

CallInv ==
    /\ \A t \in Threads : thread[t].call <= minted
    /\ \A d \in Devices : login[d] <= minted
    /\ \A t, u \in Threads :
         DeviceOf[t] = DeviceOf[u] /\ thread[t].at = "renew" /\ thread[u].at = "renew" => t = u
    /\ \A t \in Threads, p \in posts : p.id = thread[t].call => p.dev = DeviceOf[t] /\ p.old # 0
    /\ \A d \in Devices, p \in posts : p.id = login[d] => p.dev = d /\ p.old = 0
    /\ \A p \in posts : p.dev \notin excused => Awaited(p)

(* The tokens a phone counts on: the one it has, one it is about to be
   handed, one it has sent and the panel has not looked at.  The last is
   used up once the panel loaded the file for the call that sent it.       *)
Needed(d, n) ==
    \/ n = pair[d]
    \/ \E p \in posts :
         p.dev = d /\ ((n = p.id /\ p.stage = "ok") \/ (n = p.old /\ p.stage = "sent"))

Used(n) == \E p \in posts : p.old = n /\ p.stage # "sent"

(* In the file, and in whatever a request under way will put in its place. *)
OnFile(n) ==
    /\ n \in records
    /\ \A p \in posts : p.stage = "loaded" => n \in p.image
    /\ (\E p \in posts : p.stage = "written") => \A U \in tmp : n \in U

CallOnFile(p) ==
    /\ p.stage # "err"
    /\ (p.stage = "no" \/ (p \in Saving /\ ~p.found)) => p.old \in lapsed
    /\ (p.stage = "loaded" /\ p.found) => p.id \in p.image
    /\ p.stage = "written" => tmp # {} /\ (p.found => \A U \in tmp : p.id \in U)

StoreInv ==
    /\ \A d \in Devices \ excused, n \in Nat \ {0} :
         Needed(d, n) /\ n \notin lapsed /\ ~Used(n) => OnFile(n)
    /\ \A p, q \in Saving : p # q => p.dev \in excused
    /\ \A p \in posts : p.dev \notin excused => CallOnFile(p)


-----------------------------------------------------------------------------
(* What the calls of the panel become.                                     *)
Moves(p, r) ==
    /\ posts' = (posts \ {p}) \cup {r} /\ r \in Calls
    /\ r.id = p.id /\ r.dev = p.dev /\ r.old = p.old

LEMMA PostIs ==
    ASSUME SessionTypes, NEW d \in Devices, NEW old \in Nat, Post(d, old)
    PROVE  /\ minted' = minted + 1
           /\ \E r \in Calls : /\ posts' = posts \cup {r} /\ r.id = minted + 1
                               /\ r.dev = d /\ r.old = old /\ r.stage = "sent"
<1> DEFINE r == [id |-> minted + 1, dev |-> d, old |-> old, stage |-> "sent", image |-> {}, found |-> FALSE]
<1>1. minted' = minted + 1 /\ posts' = posts \cup {r}  BY DEF Post
<1>2. r \in Calls  BY DEF Calls, CallStages, SessionTypes
<1> QED  BY <1>1, <1>2

LEMMA LoadIs ==
    ASSUME SessionTypes, NEW p \in posts, load(p)
    PROVE  \E r : /\ Moves(p, r)
                  /\ \/ r.stage = "no" /\ p.old # 0 /\ p.old \notin records \ lapsed
                     \/ /\ r.stage = "loaded"
                        /\ r.found <=> (p.old = 0 \/ p.old \in records \ lapsed)
                        /\ r.found => r.image = ((records \ lapsed) \ {p.old}) \cup {p.id}
                        /\ ~r.found => r.image = records \ lapsed
<1>1. p \in Calls  BY DEF SessionTypes
<1> DEFINE found == p.old = 0 \/ p.old \in records \ lapsed
           image == IF found THEN ((records \ lapsed) \ {p.old}) \cup {p.id} ELSE records \ lapsed
           no == [p EXCEPT !.stage = "no"]
           yes == [p EXCEPT !.stage = "loaded", !.found = found, !.image = image]
<1>2. image \in SUBSET Nat /\ found \in BOOLEAN  BY <1>1 DEF SessionTypes, Calls
<1>3. no \in Calls /\ no.id = p.id /\ no.dev = p.dev /\ no.old = p.old /\ no.stage = "no"
  BY <1>1 DEF Calls, CallStages
<1>4. /\ yes \in Calls /\ yes.id = p.id /\ yes.dev = p.dev /\ yes.old = p.old /\ yes.stage = "loaded"
      /\ yes.found = found /\ yes.image = image
  <2> HIDE DEF found, image
  <2> QED  BY <1>1, <1>2 DEF Calls, CallStages
<1>5. posts' = (posts \ {p}) \cup {IF ~found /\ records \ lapsed = records THEN no ELSE yes}
  BY DEF load, gcExpiredSessions, Image
<1> HIDE DEF no, yes
<1>6. CASE ~found /\ records \ lapsed = records
  BY <1>3, <1>5, <1>6 DEF Moves
<1>7. CASE ~(~found /\ records \ lapsed = records)
  BY <1>4, <1>5, <1>7 DEF Moves
<1> QED  BY <1>6, <1>7

LEMMA WritesIs ==
    ASSUME SessionTypes, NEW p \in posts, saveWrites(p)
    PROVE  \E r : /\ Moves(p, r) /\ r.found = p.found
                  /\ \/ /\ p.image = {} /\ records' = {} /\ tmp' = tmp
                        /\ r.stage = IF p.found THEN "ok" ELSE "no"
                     \/ p.image # {} /\ records' = records /\ tmp' = {p.image} /\ r.stage = "written"
<1>1. p \in Calls  BY DEF SessionTypes
<1>2. ASSUME NEW st \in CallStages
      PROVE  LET r == [p EXCEPT !.stage = st, !.image = {}]
             IN  /\ r \in Calls /\ r.id = p.id /\ r.dev = p.dev /\ r.old = p.old
                 /\ r.found = p.found /\ r.stage = st
  BY <1>1 DEF Calls
<1>3. CASE p.image = {}
  <2> DEFINE st == StoreAnswer(p, TRUE)
  <2>1. st \in CallStages /\ st = IF p.found THEN "ok" ELSE "no"  BY DEF StoreAnswer, CallStages
  <2>2. posts' = (posts \ {p}) \cup {[p EXCEPT !.stage = st, !.image = {}]} /\ records' = {} /\ tmp' = tmp
    BY <1>3 DEF saveWrites
  <2> HIDE DEF st
  <2> QED  BY <1>2, <1>3, <2>1, <2>2 DEF Moves
<1>4. CASE p.image # {}
  <2>1. /\ posts' = (posts \ {p}) \cup {[p EXCEPT !.stage = "written", !.image = {}]}
        /\ records' = records /\ tmp' = {p.image}
    BY <1>4 DEF saveWrites
  <2>2. "written" \in CallStages  BY DEF CallStages
  <2> QED  BY <1>2, <1>4, <2>1, <2>2 DEF Moves
<1> QED  BY <1>3, <1>4

LEMMA RenamesIs ==
    ASSUME SessionTypes, NEW p \in posts, saveRenames(p)
    PROVE  \E r : Moves(p, r) /\ r.stage = StoreAnswer(p, tmp # {})
<1>1. p \in Calls  BY DEF SessionTypes
<1> DEFINE st == StoreAnswer(p, tmp # {})
<1>2. st \in CallStages  BY DEF StoreAnswer, CallStages
<1>3. posts' = (posts \ {p}) \cup {[p EXCEPT !.stage = st]}  BY DEF saveRenames
<1> HIDE DEF st
<1>4. /\ [p EXCEPT !.stage = st] \in Calls /\ [p EXCEPT !.stage = st].id = p.id
      /\ [p EXCEPT !.stage = st].dev = p.dev /\ [p EXCEPT !.stage = st].old = p.old
      /\ [p EXCEPT !.stage = st].stage = st
  BY <1>1, <1>2 DEF Calls
<1> QED  BY <1>3, <1>4 DEF Moves, st

LEMMA IdleIs == IdleThread \in ThreadStates
BY DEF IdleThread, ThreadStates, Places

LEMMA ReturnedIs ==
    ASSUME NEW th \in ThreadStates
    PROVE  Returned(th) \in ThreadStates /\ Returned(th).call = 0 /\ Returned(th).at # "renew"
<1>0. IdleThread.call = 0 /\ IdleThread.at = "idle"  BY DEF IdleThread
<1>1. LET r == [IdleThread EXCEPT !.at = "leave", !.leaving = TRUE]
      IN  r \in ThreadStates /\ r.call = 0 /\ r.at = "leave"
  BY <1>0, IdleIs DEF ThreadStates, Places
<1> QED  BY <1>0, <1>1, IdleIs DEF Returned

LEMMA RenewedIs ==
    ASSUME NEW th \in ThreadStates, NEW token \in Nat
    PROVE  Renewed(th, token) \in ThreadStates /\ Renewed(th, token).call = 0
           /\ Renewed(th, token).at # "renew"
<1>1. LET r == [th EXCEPT !.at = "out", !.bearer = token, !.call = 0]
      IN  r \in ThreadStates /\ r.call = 0 /\ r.at = "out"
  BY DEF ThreadStates, Places
<1> QED  BY <1>1, ReturnedIs DEF Renewed

LEMMA WaitingIs ==
    ASSUME NEW th \in ThreadStates, NEW k \in Nat
    PROVE  LET r == [th EXCEPT !.at = "renew", !.call = k]
           IN  r \in ThreadStates /\ r.at = "renew" /\ r.call = k
BY DEF ThreadStates, Places

-----------------------------------------------------------------------------
LEMMA SessionTypesStep == SessionTypes /\ [SessionNext]_sessionVars => SessionTypes'
<1> SUFFICES ASSUME SessionTypes, [SessionNext]_sessionVars PROVE SessionTypes'  OBVIOUS
<1> USE DEF phones, panel
<1>t. /\ pair \in [Devices -> Nat] /\ kept \in [Devices -> Nat] /\ login \in [Devices -> Nat]
      /\ thread \in [Threads -> ThreadStates] /\ posts \subseteq Calls /\ minted \in Nat
      /\ records \subseteq Nat /\ tmp \subseteq SUBSET Nat /\ lapsed \subseteq Nat
  BY DEF SessionTypes
<1>d. \A t \in Threads : DeviceOf[t] \in Devices  BY SessionAssumption
<1>h. \A t \in Threads : thread[t] \in ThreadStates  BY <1>t
<1>1. ASSUME NEW t \in Threads, NEW soon \in BOOLEAN, NEW leaving \in BOOLEAN, Intercept(t, soon, leaving)
      PROVE  SessionTypes'
  <2>1. [IdleThread EXCEPT !.at = IF soon THEN "queue" ELSE "out",
                           !.bearer = pair[DeviceOf[t]], !.leaving = leaving] \in ThreadStates
    BY <1>d, <1>t, IdleIs DEF ThreadStates, Places
  <2>2. thread' \in [Threads -> ThreadStates]  BY <1>1, <1>t, <2>1 DEF Intercept
  <2> QED  BY <1>1, <1>t, <2>2 DEF Intercept, SessionTypes
<1>2. ASSUME NEW t \in Threads, Served(t) \/ NetworkFails(t) \/ Unauthorized(t) PROVE SessionTypes'
  <2>1. [thread[t] EXCEPT !.at = "queue", !.replay = TRUE] \in ThreadStates
    BY <1>h DEF ThreadStates, Places
  <2>2. Returned(thread[t]) \in ThreadStates  BY <1>t, ReturnedIs
  <2>3. thread' \in [Threads -> ThreadStates]
    BY <1>2, <1>t, <2>1, <2>2 DEF Served, NetworkFails, Unauthorized
  <2> QED  BY <1>2, <1>t, <2>3 DEF Served, NetworkFails, Unauthorized, SessionTypes
<1>3. ASSUME NEW t \in Threads, RenewShared(t) \/ RenewUnavailable(t) PROVE SessionTypes'
  <2>1. Renewed(thread[t], pair[DeviceOf[t]]) \in ThreadStates /\ Renewed(thread[t], 0) \in ThreadStates
    BY <1>d, <1>t, RenewedIs
  <2>2. thread' \in [Threads -> ThreadStates]  BY <1>3, <1>t, <2>1 DEF RenewShared, RenewUnavailable
  <2> QED  BY <1>3, <1>t, <2>2 DEF RenewShared, RenewUnavailable, SessionTypes
<1>4. ASSUME NEW t \in Threads, RenewPosts(t) PROVE SessionTypes'
  <2>1. minted' = minted + 1 /\ posts' \subseteq Calls  BY <1>4, <1>d, <1>t, PostIs DEF RenewPosts
  <2>2. [thread[t] EXCEPT !.at = "renew", !.call = minted'] \in ThreadStates
    <3>1. PICK k \in Nat : k = minted'  BY <1>t, <2>1
    <3> QED  BY <1>h, <3>1, WaitingIs
  <2>3. thread' \in [Threads -> ThreadStates]  BY <1>4, <1>t, <2>2 DEF RenewPosts
  <2> QED  BY <1>4, <1>t, <2>1, <2>3 DEF RenewPosts, SessionTypes
<1>5. ASSUME NEW t \in Threads, RenewAnswered(t) PROVE SessionTypes'
  <2>1. PICK p \in posts :
          /\ p.stage \in {"ok", "no", "err"}
          /\ pair' = [pair EXCEPT ![p.dev] = Adopted(p)]
          /\ thread' = [thread EXCEPT ![t] = Renewed(@, IF p.stage = "ok" THEN p.id ELSE 0)]
          /\ posts' = posts \ {p}
    BY <1>5 DEF RenewAnswered, Pending
  <2>2. p.id \in Nat /\ p.dev \in Devices  BY <1>t DEF Calls
  <2>3. Adopted(p) \in Nat  BY <1>t, <2>1, <2>2 DEF Adopted
  <2>4. Renewed(thread[t], IF p.stage = "ok" THEN p.id ELSE 0) \in ThreadStates
    BY <1>t, <2>2, RenewedIs
  <2>5. thread' \in [Threads -> ThreadStates] /\ pair' \in [Devices -> Nat] /\ posts' \subseteq Calls
    BY <1>t, <2>1, <2>3, <2>4
  <2> QED  BY <1>5, <1>t, <2>5 DEF RenewAnswered, SessionTypes
<1>6. ASSUME NEW t \in Threads, SignOut(t) PROVE SessionTypes'
  BY <1>6, <1>t, IdleIs DEF SignOut, SessionTypes
<1>7. ASSUME NEW d \in Devices, Login(d) PROVE SessionTypes'
  <2>1. minted' = minted + 1 /\ posts' \subseteq Calls  BY <1>7, <1>t, PostIs DEF Login
  <2> QED  BY <1>7, <1>t, <2>1 DEF Login, SessionTypes
<1>8. ASSUME NEW d \in Devices, LoginAnswered(d) PROVE SessionTypes'
  <2>1. PICK p \in posts : /\ pair' = [pair EXCEPT ![d] = IF p.stage = "ok" THEN p.id ELSE @]
                           /\ posts' = posts \ {p}
    BY <1>8 DEF LoginAnswered, Pending
  <2>2. p.id \in Nat  BY <1>t DEF Calls
  <2>3. pair' \in [Devices -> Nat] /\ posts' \subseteq Calls  BY <1>t, <2>1, <2>2
  <2> QED  BY <1>8, <1>t, <2>3 DEF LoginAnswered, SessionTypes
<1>9. ASSUME NEW d \in Devices, LoginUnavailable(d) \/ Apply(d) PROVE SessionTypes'
  <2>1. login' \in [Devices -> Nat] /\ kept' \in [Devices -> Nat]
    BY <1>9, <1>t DEF LoginUnavailable, Apply
  <2> QED  BY <1>9, <1>t, <2>1 DEF LoginUnavailable, Apply, SessionTypes
<1>10. ASSUME NEW d \in Devices, Killed(d) PROVE SessionTypes'
  <2>1. thread' \in [Threads -> ThreadStates]  BY <1>10, <1>t, IdleIs DEF Killed
  <2> QED  BY <1>10, <1>t, <2>1 DEF Killed, SessionTypes
<1>11. ASSUME NEW p \in posts, load(p) PROVE SessionTypes'
  <2>1. PICK r : Moves(p, r)  BY <1>11, LoadIs
  <2>2. posts' \subseteq Calls  BY <1>t, <2>1 DEF Moves
  <2> QED  BY <1>11, <1>t, <2>2 DEF load, SessionTypes
<1>12. ASSUME NEW p \in posts, saveWrites(p) PROVE SessionTypes'
  <2>1. p.image \in SUBSET Nat  BY <1>t DEF Calls
  <2>2. PICK r : Moves(p, r)  BY <1>12, WritesIs
  <2>3. posts' \subseteq Calls  BY <1>t, <2>2 DEF Moves
  <2>4. records' \subseteq Nat /\ tmp' \subseteq SUBSET Nat  BY <1>12, <1>t, <2>1 DEF saveWrites
  <2> QED  BY <1>12, <1>t, <2>3, <2>4 DEF saveWrites, SessionTypes
<1>13. ASSUME NEW p \in posts, saveRenames(p) PROVE SessionTypes'
  <2>1. posts' \subseteq Calls  BY <1>13, <1>t, RenamesIs DEF Moves
  <2>2. records' \subseteq Nat /\ tmp' \subseteq SUBSET Nat  BY <1>13, <1>t DEF saveRenames
  <2> QED  BY <1>13, <1>t, <2>1, <2>2 DEF saveRenames, SessionTypes
<1>14. ASSUME NEW p \in posts, AnswerDropped(p) PROVE SessionTypes'
  BY <1>14, <1>t DEF AnswerDropped, SessionTypes
<1>15. CASE PanelRestarts  BY <1>15, <1>t DEF PanelRestarts, SessionTypes
<1>16. ASSUME NEW n \in records, RefreshLapses(n) PROVE SessionTypes'
  BY <1>16, <1>t DEF RefreshLapses, SessionTypes
<1>17. ASSUME NEW n, AccessExpires(n) PROVE SessionTypes'
  BY <1>17, <1>t DEF AccessExpires, SessionTypes
<1>18. CASE UNCHANGED sessionVars  BY <1>18, <1>t DEF sessionVars, SessionTypes
<1> QED
  BY <1>1, <1>2, <1>3, <1>4, <1>5, <1>6, <1>7, <1>8, <1>9, <1>10, <1>11, <1>12, <1>13, <1>14,
     <1>15, <1>16, <1>17, <1>18 DEF SessionNext, PhoneMoves, PanelMoves

-----------------------------------------------------------------------------
(* Tokens keep their owners.                                               *)
LEMMA TokensShrink ==
    ASSUME SessionTypes, SessionTypes', TokenInv, minted' = minted,
           \A p \in posts' : \E q \in posts : p.id = q.id /\ p.dev = q.dev /\ p.old = q.old,
           \A p, q \in posts' : p.id = q.id => p = q,
           \A d \in Devices : pair'[d] = 0 \/ Owns(d, pair'[d]),
           \A d \in Devices : kept'[d] = 0 \/ Owns(d, kept'[d]),
           \A p \in posts', d \in Devices : p.id \notin {pair'[d], kept'[d]}
    PROVE  TokenInv'
<1>1. \A p, q \in posts' : (p.id = q.id => p = q) /\ p.id # q.old  BY DEF TokenInv
<1>2. \A p \in posts' : p.id # 0  BY DEF TokenInv
<1>3. ASSUME NEW d \in Devices, NEW n \in Nat \ {0}, Owns(d, n)' PROVE Owns(d, n)
  BY <1>3 DEF Owns
<1>4. \A d \in Devices, n \in Nat : Owns(d, n)' => n <= minted'
  BY <1>3 DEF TokenInv, SessionTypes
<1>5. \A d, e \in Devices, n \in Nat \ {0} : Owns(d, n)' /\ Owns(e, n)' => d = e
  BY <1>3 DEF TokenInv
<1> QED  BY <1>1, <1>2, <1>4, <1>5 DEF TokenInv

LEMMA TokensGrow ==
    ASSUME SessionTypes, TokenInv, NEW r \in Calls, posts' = posts \cup {r},
           r.id = minted + 1, minted' = minted + 1, r.old \in {0, pair[r.dev]},
           pair' = pair, kept' = kept
    PROVE  TokenInv'
<1>t. /\ posts \subseteq Calls /\ minted \in Nat
      /\ \A d \in Devices : pair[d] \in Nat /\ kept[d] \in Nat
  BY DEF SessionTypes
<1>c. \A p \in Calls : p.id \in Nat /\ p.old \in Nat /\ p.dev \in Devices  BY DEF Calls
<1>1. \A p \in posts : p.id <= minted /\ p.old <= minted  BY <1>t, <1>c DEF TokenInv, Owns
<1>2. \A d \in Devices : pair[d] <= minted /\ kept[d] <= minted  BY <1>t DEF TokenInv, Owns
<1>3. r.old <= minted /\ r.dev \in Devices  BY <1>2, <1>c, <1>t
<1>4. ASSUME NEW d \in Devices, NEW n \in Nat \ {0}, Owns(d, n)'
      PROVE  Owns(d, n) \/ (n = minted + 1 /\ d = r.dev)
  BY <1>4 DEF Owns
<1>5. ASSUME NEW d \in Devices, NEW n \in Nat, Owns(d, n) PROVE n <= minted
  BY <1>5 DEF TokenInv
<1>6. \A d \in Devices, n \in Nat : Owns(d, n)' => n <= minted'
  BY <1>4, <1>5, <1>t
<1>7. \A d, e \in Devices, n \in Nat \ {0} : Owns(d, n)' /\ Owns(e, n)' => d = e
  <2>1. minted + 1 > minted  BY <1>t
  <2> QED  BY <1>4, <1>5, <1>t, <2>1 DEF TokenInv
<1>8. \A p, q \in posts' : (p.id = q.id => p = q) /\ p.id # q.old
  <2>1. \A p \in posts : p.id # r.old /\ p.id # r.id /\ p.old # r.id
    BY <1>1, <1>3, <1>c, <1>t DEF TokenInv
  <2>2. \A p, q \in posts : (p.id = q.id => p = q) /\ p.id # q.old  BY DEF TokenInv
  <2>3. r.id # r.old  BY <1>3, <1>c, <1>t
  <2> QED  BY <2>1, <2>2, <2>3
<1>9. \A p \in posts' : p.id # 0 /\ \A d \in Devices : p.id \notin {pair'[d], kept'[d]}
  <2>1. r.id # 0 /\ \A d \in Devices : r.id \notin {pair[d], kept[d]}  BY <1>2, <1>t
  <2> QED  BY <2>1 DEF TokenInv
<1> QED  BY <1>6, <1>7, <1>8, <1>9 DEF TokenInv

LEMMA TokensMove ==
    ASSUME SessionTypes, SessionTypes', TokenInv, NEW p \in posts, NEW r, Moves(p, r),
           minted' = minted, pair' = pair, kept' = kept
    PROVE  TokenInv'
<1>1. \A q \in posts' : \E s \in posts : q.id = s.id /\ q.dev = s.dev /\ q.old = s.old
  BY DEF Moves
<1>2. \A q, s \in posts' : q.id = s.id => q = s  BY DEF Moves, TokenInv
<1>3. \A d \in Devices : Owns(d, pair'[d]) /\ Owns(d, kept'[d])  BY DEF Owns
<1>4. \A q \in posts', d \in Devices : q.id \notin {pair'[d], kept'[d]}  BY <1>1 DEF TokenInv
<1> QED  BY <1>1, <1>2, <1>3, <1>4, TokensShrink

LEMMA TokensTaken ==
    ASSUME SessionTypes, SessionTypes', TokenInv, NEW p \in posts, posts' = posts \ {p},
           minted' = minted, kept' = kept, NEW x \in {pair[p.dev], p.id, 0},
           pair' = [pair EXCEPT ![p.dev] = x]
    PROVE  TokenInv'
<1>1. \A d \in Devices : pair'[d] = IF d = p.dev THEN x ELSE pair[d]  BY DEF SessionTypes
<1>2. p.dev \in Devices  BY DEF SessionTypes, Calls
<1>3. \A d \in Devices : pair'[d] = 0 \/ Owns(d, pair'[d])  BY <1>1 DEF Owns
<1>4. \A d \in Devices : Owns(d, kept'[d])  BY DEF Owns
<1>5. \A q \in posts', d \in Devices : q.id \notin {pair'[d], kept'[d]}
  BY <1>1, <1>2 DEF TokenInv
<1>6. \A q, s \in posts' : q.id = s.id => q = s  BY DEF TokenInv
<1> QED  BY <1>3, <1>4, <1>5, <1>6, TokensShrink

LEMMA TokenStep ==
    SessionTypes /\ TokenInv /\ CallInv /\ [SessionNext]_sessionVars => TokenInv'
<1> SUFFICES ASSUME SessionTypes, TokenInv, CallInv, [SessionNext]_sessionVars PROVE TokenInv'
  OBVIOUS
<1> USE DEF phones, panel
<1>t. SessionTypes'  BY SessionTypesStep
<1>p. /\ pair \in [Devices -> Nat] /\ kept \in [Devices -> Nat] /\ posts \subseteq Calls
      /\ \A t \in Threads : DeviceOf[t] \in Devices
  BY SessionAssumption DEF SessionTypes
<1>q. ASSUME UNCHANGED <<posts, minted>>,
             \A d \in Devices : pair'[d] \in {0, pair[d], kept[d]} /\ kept'[d] \in {pair[d], kept[d]}
      PROVE  TokenInv'
  <2>1. \A d \in Devices : (pair'[d] = 0 \/ Owns(d, pair'[d])) /\ Owns(d, kept'[d])
    BY <1>q DEF Owns
  <2>2. \A p \in posts', d \in Devices : p.id \notin {pair'[d], kept'[d]}  BY <1>q DEF TokenInv
  <2>3. \A p, q \in posts' : p.id = q.id => p = q  BY <1>q DEF TokenInv
  <2> QED  BY <1>q, <1>t, <2>1, <2>2, <2>3, TokensShrink
<1>1. ASSUME NEW t \in Threads,
             \/ \E soon, leaving \in BOOLEAN : Intercept(t, soon, leaving)
             \/ Served(t) \/ NetworkFails(t) \/ Unauthorized(t) \/ RenewShared(t) \/ RenewUnavailable(t)
      PROVE  TokenInv'
  BY <1>1, <1>q DEF Intercept, Served, NetworkFails, Unauthorized, RenewShared, RenewUnavailable
<1>2. ASSUME NEW t \in Threads, SignOut(t) PROVE TokenInv'
  BY <1>2, <1>p, <1>q DEF SignOut
<1>3. ASSUME NEW d \in Devices, LoginUnavailable(d) \/ Apply(d) \/ Killed(d) PROVE TokenInv'
  <2>1. \A e \in Devices : pair'[e] \in {0, pair[e], kept[e]} /\ kept'[e] \in {pair[e], kept[e]}
    BY <1>3, <1>p DEF LoginUnavailable, Apply, Killed
  <2> QED  BY <1>3, <1>q, <2>1 DEF LoginUnavailable, Apply, Killed
<1>4. ASSUME NEW t \in Threads, RenewPosts(t) PROVE TokenInv'
  <2>1. pair[DeviceOf[t]] \in Nat /\ DeviceOf[t] \in Devices  BY <1>p
  <2>2. minted' = minted + 1 /\ \E r \in Calls :
          /\ posts' = posts \cup {r} /\ r.id = minted + 1 /\ r.dev = DeviceOf[t] /\ r.old = pair[DeviceOf[t]]
    BY <1>4, <2>1, PostIs DEF RenewPosts
  <2> QED  BY <1>4, <2>2, TokensGrow DEF RenewPosts
<1>5. ASSUME NEW d \in Devices, Login(d) PROVE TokenInv'
  <2>2. minted' = minted + 1 /\ \E r \in Calls :
          /\ posts' = posts \cup {r} /\ r.id = minted + 1 /\ r.dev = d /\ r.old = 0
    BY <1>5, PostIs DEF Login
  <2> QED  BY <1>5, <2>2, TokensGrow DEF Login
<1>6. ASSUME NEW t \in Threads, RenewAnswered(t) PROVE TokenInv'
  <2>1. PICK p \in posts :
          /\ p.stage \in {"ok", "no", "err"}
          /\ pair' = [pair EXCEPT ![p.dev] = Adopted(p)] /\ posts' = posts \ {p}
    BY <1>6 DEF RenewAnswered, Pending
  <2>2. Adopted(p) \in {pair[p.dev], p.id, 0}  BY <2>1 DEF Adopted
  <2> QED  BY <1>6, <1>t, <2>1, <2>2, TokensTaken DEF RenewAnswered
<1>7. ASSUME NEW d \in Devices, LoginAnswered(d) PROVE TokenInv'
  <2>1. PICK p \in posts : /\ pair' = [pair EXCEPT ![d] = IF p.stage = "ok" THEN p.id ELSE @]
                           /\ posts' = posts \ {p} /\ p.id = login[d]
    BY <1>7 DEF LoginAnswered, Pending
  <2>2. p.dev = d  BY <2>1 DEF CallInv
  <2>3. PICK x \in {pair[p.dev], p.id, 0} : pair' = [pair EXCEPT ![p.dev] = x]  BY <2>1, <2>2
  <2> QED  BY <1>7, <1>t, <2>1, <2>3, TokensTaken DEF LoginAnswered
<1>8. ASSUME NEW p \in posts, load(p) \/ saveWrites(p) \/ saveRenames(p) PROVE TokenInv'
  <2>1. PICK r : Moves(p, r)  BY <1>8, LoadIs, WritesIs, RenamesIs
  <2>2. minted' = minted /\ pair' = pair /\ kept' = kept  BY <1>8 DEF load, saveWrites, saveRenames
  <2> QED  BY <1>t, <2>1, <2>2, TokensMove
<1>9. ASSUME NEW p \in posts, AnswerDropped(p) PROVE TokenInv'
  <2>1. pair' = [pair EXCEPT ![p.dev] = pair[p.dev]]  BY <1>9, <1>p DEF AnswerDropped
  <2> QED  BY <1>9, <1>t, <2>1, TokensTaken DEF AnswerDropped
<1>10. CASE PanelRestarts
  <2>1. posts' = {} /\ UNCHANGED <<pair, kept, minted>>  BY <1>10 DEF PanelRestarts
  <2>2. \A d \in Devices : Owns(d, pair'[d]) /\ Owns(d, kept'[d])  BY <2>1 DEF Owns
  <2> QED  BY <1>t, <2>1, <2>2, TokensShrink
<1>11. CASE \/ \E n \in records : RefreshLapses(n)
            \/ \E d \in Devices : AccessExpires(pair[d])
            \/ UNCHANGED sessionVars
  BY <1>11, <1>q DEF RefreshLapses, AccessExpires, sessionVars
<1> QED
  BY <1>1, <1>2, <1>3, <1>4, <1>5, <1>6, <1>7, <1>8, <1>9, <1>10, <1>11
  DEF SessionNext, PhoneMoves, PanelMoves

-----------------------------------------------------------------------------
(* Every call of a phone without trouble is waited for.                    *)
LEMMA CallsStay ==
    ASSUME SessionTypes, TokenInv, CallInv, minted' = minted, excused \subseteq excused',
           \A p \in posts' : \E q \in posts : p.id = q.id /\ p.dev = q.dev /\ p.old = q.old,
           \A t \in Threads : /\ thread'[t].call \in {0, thread[t].call}
                              /\ thread'[t].at = "renew" => thread[t].at = "renew",
           \A d \in Devices : login'[d] \in {0, login[d]},
           \A p \in posts' : p.dev \notin excused' => Awaited(p)'
    PROVE  CallInv'
<1>0. minted \in Nat /\ \A p \in posts : p.id # 0  BY DEF TokenInv, SessionTypes
<1>1. \A t \in Threads : thread'[t].call <= minted'  BY <1>0 DEF CallInv
<1>2. \A d \in Devices : login'[d] <= minted'  BY <1>0 DEF CallInv
<1>3. \A t, u \in Threads :
        DeviceOf[t] = DeviceOf[u] /\ thread'[t].at = "renew" /\ thread'[u].at = "renew" => t = u
  BY DEF CallInv
<1>4. \A t \in Threads, p \in posts' : p.id = thread'[t].call => p.dev = DeviceOf[t] /\ p.old # 0
  BY <1>0 DEF CallInv
<1>5. \A d \in Devices, p \in posts' : p.id = login'[d] => p.dev = d /\ p.old = 0
  BY <1>0 DEF CallInv
<1> QED  BY <1>1, <1>2, <1>3, <1>4, <1>5 DEF CallInv

LEMMA CallStep ==
    SessionTypes /\ TokenInv /\ CallInv /\ [SessionNext]_sessionVars => CallInv'
<1> SUFFICES ASSUME SessionTypes, TokenInv, CallInv, [SessionNext]_sessionVars PROVE CallInv'
  OBVIOUS
<1> USE DEF phones, panel
<1>t. /\ thread \in [Threads -> ThreadStates] /\ login \in [Devices -> Nat] /\ posts \subseteq Calls
      /\ pair \in [Devices -> Nat] /\ minted \in Nat
  BY DEF SessionTypes
<1>h. \A t \in Threads : thread[t] \in ThreadStates  BY <1>t
<1>d. \A t \in Threads : DeviceOf[t] \in Devices  BY SessionAssumption
<1>c. \A p \in posts : p.dev \in Devices /\ p.id \in Nat /\ p.id # 0 /\ p.id <= minted
  BY <1>t DEF TokenInv, Owns, Calls
<1>a. \A p \in posts : p.dev \notin excused => Awaited(p)  BY DEF CallInv
<1>i. IdleThread.call = 0 /\ IdleThread.at = "idle"  BY DEF IdleThread
<1>q. ASSUME UNCHANGED <<posts, login, minted, excused>>,
             \A t \in Threads :
                \/ thread'[t] = thread[t]
                \/ /\ thread[t].at # "renew" /\ thread'[t].at # "renew"
                   /\ thread'[t].call \in {0, thread[t].call}
      PROVE  CallInv'
  <2>1. \A p \in posts' : p.dev \notin excused' => Awaited(p)'  BY <1>a, <1>q DEF Awaited
  <2> QED  BY <1>q, <2>1, CallsStay
<1>1. ASSUME NEW t \in Threads, NEW soon \in BOOLEAN, NEW leaving \in BOOLEAN, Intercept(t, soon, leaving)
      PROVE  CallInv'
  <2>1. LET r == [IdleThread EXCEPT !.at = IF soon THEN "queue" ELSE "out",
                                    !.bearer = pair[DeviceOf[t]], !.leaving = leaving]
        IN  r.call = 0 /\ r.at # "renew"
    BY <1>i, IdleIs DEF ThreadStates
  <2>2. \A u \in Threads : thread'[u] = thread[u] \/ (u = t /\ thread'[u].call = 0 /\ thread'[u].at # "renew")
    BY <1>1, <1>t, <2>1 DEF Intercept
  <2>3. thread[t].at # "renew"  BY <1>1, <1>i DEF Intercept
  <2> QED  BY <1>1, <1>q, <2>2, <2>3 DEF Intercept
<1>2. ASSUME NEW t \in Threads, Served(t) \/ NetworkFails(t) \/ Unauthorized(t) \/ RenewShared(t)
      PROVE  CallInv'
  <2>1. LET r == [thread[t] EXCEPT !.at = "queue", !.replay = TRUE]
        IN  r.call = thread[t].call /\ r.at # "renew"
    BY <1>h DEF ThreadStates
  <2>2. Returned(thread[t]).call = 0 /\ Returned(thread[t]).at # "renew"  BY <1>h, ReturnedIs
  <2>3. /\ Renewed(thread[t], pair[DeviceOf[t]]).call = 0
        /\ Renewed(thread[t], pair[DeviceOf[t]]).at # "renew"
    BY <1>h, <1>d, <1>t, RenewedIs
  <2>4. thread[t].at # "renew"  BY <1>2 DEF Served, NetworkFails, Unauthorized, RenewShared
  <2>5. \E r : /\ thread' = [thread EXCEPT ![t] = r] /\ r.at # "renew" /\ r.call \in {0, thread[t].call}
    BY <1>2, <2>1, <2>2, <2>3 DEF Served, NetworkFails, Unauthorized, RenewShared
  <2>6. \A u \in Threads : \/ thread'[u] = thread[u]
                           \/ u = t /\ thread'[u].at # "renew" /\ thread'[u].call \in {0, thread[u].call}
    BY <1>t, <2>5
  <2> QED  BY <1>2, <1>q, <2>4, <2>6 DEF Served, NetworkFails, Unauthorized, RenewShared
<1>3. ASSUME NEW t \in Threads, SignOut(t) PROVE CallInv'
  BY <1>3, <1>i, <1>t, <1>q DEF SignOut
<1>4. CASE \/ \E d \in Devices : Apply(d)
           \/ \E n \in records : RefreshLapses(n)
           \/ \E d \in Devices : AccessExpires(pair[d])
           \/ UNCHANGED sessionVars
  BY <1>4, <1>q DEF Apply, RefreshLapses, AccessExpires, sessionVars
<1>5. ASSUME NEW t \in Threads, RenewUnavailable(t) PROVE CallInv'
  <2>1. Renewed(thread[t], 0).call = 0 /\ Renewed(thread[t], 0).at # "renew"  BY <1>h, RenewedIs
  <2>2. \A u \in Threads : thread'[u] = thread[u] \/ (u = t /\ thread'[u].call = 0 /\ thread'[u].at # "renew")
    BY <1>5, <1>t, <2>1 DEF RenewUnavailable
  <2>3. UNCHANGED <<posts, login, minted>> /\ excused \subseteq excused'
    BY <1>5 DEF RenewUnavailable, Trouble
  <2>4. ASSUME NEW p \in posts, p.id = thread[t].call PROVE p.dev \in excused'
    <3>1. p \in Pending(thread[t].call) /\ p.dev = DeviceOf[t]  BY <2>4 DEF Pending, CallInv
    <3> QED  BY <1>5, <3>1 DEF RenewUnavailable, Trouble
  <2>5. \A p \in posts' : p.dev \notin excused' => Awaited(p)'
    BY <1>a, <2>2, <2>3, <2>4 DEF Awaited
  <2> QED  BY <2>2, <2>3, <2>5, CallsStay
<1>6. ASSUME NEW d \in Devices, LoginUnavailable(d) PROVE CallInv'
  <2>1. \A e \in Devices : login'[e] = IF e = d THEN 0 ELSE login[e]  BY <1>6, <1>t DEF LoginUnavailable
  <2>2. UNCHANGED <<posts, thread, minted>> /\ excused \subseteq excused'
    BY <1>6 DEF LoginUnavailable, Trouble
  <2>3. ASSUME NEW p \in posts, p.id = login[d] PROVE p.dev \in excused'
    <3>1. p \in Pending(login[d]) /\ p.dev = d  BY <2>3 DEF Pending, CallInv
    <3> QED  BY <1>6, <3>1 DEF LoginUnavailable, Trouble
  <2>4. \A p \in posts' : p.dev \notin excused' => Awaited(p)'
    BY <1>a, <1>c, <2>1, <2>2, <2>3 DEF Awaited
  <2> QED  BY <2>1, <2>2, <2>4, CallsStay
<1>7. ASSUME NEW d \in Devices, Killed(d) PROVE CallInv'
  <2>1. \A e \in Devices : login'[e] = IF e = d THEN 0 ELSE login[e]  BY <1>7, <1>t DEF Killed
  <2>2. UNCHANGED <<posts, minted>> /\ excused' = excused \cup {d}  BY <1>7 DEF Killed, Trouble
  <2>3. \A t \in Threads : thread'[t] = IF DeviceOf[t] = d THEN IdleThread ELSE thread[t]
    BY <1>7 DEF Killed
  <2>4. \A p \in posts' : p.dev \notin excused' => Awaited(p)'
    BY <1>a, <1>c, <2>1, <2>2, <2>3 DEF Awaited
  <2> QED  BY <1>i, <2>1, <2>2, <2>3, <2>4, CallsStay
<1>8. ASSUME NEW t \in Threads, RenewAnswered(t) PROVE CallInv'
  <2>1. PICK p \in posts :
          /\ p.id = thread[t].call /\ posts' = posts \ {p}
          /\ thread' = [thread EXCEPT ![t] = Renewed(@, IF p.stage = "ok" THEN p.id ELSE 0)]
    BY <1>8 DEF RenewAnswered, Pending
  <2>2. PICK r : thread' = [thread EXCEPT ![t] = r] /\ r.call = 0 /\ r.at # "renew"
    <3>1. (IF p.stage = "ok" THEN p.id ELSE 0) \in Nat  BY <1>c
    <3> QED  BY <1>h, <2>1, <3>1, RenewedIs
  <2>3. \A u \in Threads : thread'[u] = thread[u] \/ (u = t /\ thread'[u].call = 0 /\ thread'[u].at # "renew")
    BY <1>t, <2>2
  <2>4. UNCHANGED <<login, minted, excused>>  BY <1>8 DEF RenewAnswered
  <2>5. \A q \in posts' : q.id # thread[t].call  BY <2>1 DEF TokenInv
  <2>6. \A q \in posts' : q.dev \notin excused' => Awaited(q)'
    BY <1>a, <2>1, <2>3, <2>4, <2>5 DEF Awaited
  <2> QED  BY <2>1, <2>3, <2>4, <2>6, CallsStay
<1>9. ASSUME NEW d \in Devices, LoginAnswered(d) PROVE CallInv'
  <2>1. PICK p \in posts : p.id = login[d] /\ posts' = posts \ {p}
    BY <1>9 DEF LoginAnswered, Pending
  <2>2. \A e \in Devices : login'[e] = IF e = d THEN 0 ELSE login[e]  BY <1>9, <1>t DEF LoginAnswered
  <2>3. UNCHANGED <<thread, minted, excused>>  BY <1>9 DEF LoginAnswered
  <2>4. \A q \in posts' : q.id # login[d]  BY <2>1 DEF TokenInv
  <2>5. \A q \in posts' : q.dev \notin excused' => Awaited(q)'
    BY <1>a, <1>c, <2>1, <2>2, <2>3, <2>4 DEF Awaited
  <2> QED  BY <2>1, <2>2, <2>3, <2>5, CallsStay
<1>10. ASSUME NEW p \in posts, load(p) \/ saveWrites(p) \/ saveRenames(p) PROVE CallInv'
  <2>1. PICK r : Moves(p, r)  BY <1>10, LoadIs, WritesIs, RenamesIs
  <2>2. UNCHANGED <<login, thread, minted>> /\ excused \subseteq excused'
    BY <1>10 DEF load, saveWrites, saveRenames
  <2>3. \A q \in posts' : \E s \in posts : q.id = s.id /\ q.dev = s.dev /\ q.old = s.old
    BY <2>1 DEF Moves
  <2>4. \A q \in posts' : q.dev \notin excused' => Awaited(q)'
    BY <1>a, <2>2, <2>3 DEF Awaited
  <2> QED  BY <2>2, <2>3, <2>4, CallsStay
<1>11. ASSUME NEW p \in posts, AnswerDropped(p) PROVE CallInv'
  <2>1. posts' = posts \ {p} /\ UNCHANGED <<login, thread, minted, excused>>  BY <1>11 DEF AnswerDropped
  <2>2. \A q \in posts' : q.dev \notin excused' => Awaited(q)'  BY <1>a, <2>1 DEF Awaited
  <2> QED  BY <2>1, <2>2, CallsStay
<1>12. CASE PanelRestarts
  <2>1. posts' = {} /\ UNCHANGED <<login, thread, minted>> /\ excused \subseteq excused'
    BY <1>12 DEF PanelRestarts, Trouble
  <2> QED  BY <2>1, CallsStay
<1>13. ASSUME NEW t \in Threads, RenewPosts(t) PROVE CallInv'
  <2>0. pair[DeviceOf[t]] \in Nat /\ DeviceOf[t] \in Devices /\ pair[DeviceOf[t]] # 0
    BY <1>13, <1>d, <1>t DEF RenewPosts
  <2>1. minted' = minted + 1 /\ \E r \in Calls :
          /\ posts' = posts \cup {r} /\ r.id = minted + 1 /\ r.dev = DeviceOf[t] /\ r.old = pair[DeviceOf[t]]
    BY <1>13, <2>0, PostIs DEF RenewPosts
  <2>2. PICK r \in Calls :
          /\ posts' = posts \cup {r} /\ r.id = minted + 1 /\ r.dev = DeviceOf[t] /\ r.old # 0
    BY <2>0, <2>1
  <2>3. PICK th : /\ thread' = [thread EXCEPT ![t] = th] /\ th.at = "renew" /\ th.call = minted + 1
    <3>1. minted + 1 \in Nat  BY <1>t
    <3>2. thread' = [thread EXCEPT ![t] = [thread[t] EXCEPT !.at = "renew", !.call = minted + 1]]
      BY <1>13, <2>1 DEF RenewPosts
    <3>3. LET th == [thread[t] EXCEPT !.at = "renew", !.call = minted + 1]
          IN  th.at = "renew" /\ th.call = minted + 1
      BY <1>h, <3>1, WaitingIs
    <3> QED  BY <3>2, <3>3
  <2>4. \A u \in Threads : u # t => thread'[u] = thread[u]  BY <1>t, <2>3
  <2>5. thread'[t].at = "renew" /\ thread'[t].call = minted + 1 /\ thread[t].at = "queue"
    BY <1>13, <1>t, <2>3 DEF RenewPosts
  <2>6. UNCHANGED <<login, excused>> /\ MutexFree(t)  BY <1>13 DEF RenewPosts
  <2>7. \A u \in Threads : thread'[u].call <= minted'
    BY <1>h, <1>t, <2>1, <2>4, <2>5 DEF CallInv, ThreadStates
  <2>8. \A e \in Devices : login'[e] <= minted'  BY <1>t, <2>1, <2>6 DEF CallInv
  <2>9. \A u, v \in Threads :
          DeviceOf[u] = DeviceOf[v] /\ thread'[u].at = "renew" /\ thread'[v].at = "renew" => u = v
    BY <2>4, <2>6 DEF CallInv, MutexFree
  <2>10. \A u \in Threads : thread[u].call # minted + 1
    <3>1. \A u \in Threads : thread[u].call \in Nat /\ thread[u].call <= minted
      BY <1>h DEF CallInv, ThreadStates
    <3> QED  BY <1>t, <3>1
  <2>11. \A p \in posts : p.id # minted + 1  BY <1>c, <1>t
  <2>12. \A u \in Threads, p \in posts' : p.id = thread'[u].call => p.dev = DeviceOf[u] /\ p.old # 0
    BY <2>2, <2>4, <2>5, <2>10, <2>11 DEF CallInv
  <2>13. \A e \in Devices : login[e] # minted + 1
    <3>1. \A e \in Devices : login[e] \in Nat /\ login[e] <= minted  BY <1>t DEF CallInv
    <3> QED  BY <1>t, <3>1
  <2>14. \A e \in Devices, p \in posts' : p.id = login'[e] => p.dev = e /\ p.old = 0
    BY <2>2, <2>6, <2>13 DEF CallInv
  <2>15. \A p \in posts' : p.dev \notin excused' => Awaited(p)'
    BY <1>a, <2>2, <2>4, <2>5, <2>6 DEF Awaited
  <2> QED  BY <2>7, <2>8, <2>9, <2>12, <2>14, <2>15 DEF CallInv
<1>14. ASSUME NEW d \in Devices, Login(d) PROVE CallInv'
  <2>1. PICK r \in Calls :
          /\ posts' = posts \cup {r} /\ r.id = minted + 1 /\ r.dev = d /\ r.old = 0
          /\ minted' = minted + 1
    BY <1>14, PostIs DEF Login
  <2>2. login[d] = 0 /\ \A e \in Devices : login'[e] = IF e = d THEN minted + 1 ELSE login[e]
    BY <1>14, <1>t, <2>1 DEF Login
  <2>3. UNCHANGED <<thread, excused>>  BY <1>14 DEF Login
  <2>4. \A u \in Threads : thread[u].call \in Nat /\ thread[u].call <= minted
    BY <1>h DEF CallInv, ThreadStates
  <2>5. \A u \in Threads : thread'[u].call <= minted' /\ thread'[u].call # minted + 1
    BY <1>t, <2>1, <2>3, <2>4
  <2>6. \A e \in Devices : login'[e] <= minted' /\ (e # d => login'[e] # minted + 1)
    <3>1. \A e \in Devices : login[e] \in Nat /\ login[e] <= minted  BY <1>t DEF CallInv
    <3> QED  BY <1>t, <2>1, <2>2, <3>1
  <2>7. \A p \in posts : p.id # minted + 1  BY <1>c, <1>t
  <2>8. \A u \in Threads, p \in posts' : p.id = thread'[u].call => p.dev = DeviceOf[u] /\ p.old # 0
    BY <2>1, <2>3, <2>5 DEF CallInv
  <2>9. \A e \in Devices, p \in posts' : p.id = login'[e] => p.dev = e /\ p.old = 0
    BY <2>1, <2>2, <2>6, <2>7 DEF CallInv
  <2>10. \A p \in posts : p.dev \notin excused' => Awaited(p)'
    BY <1>a, <1>c, <2>2, <2>3 DEF Awaited
  <2>11. Awaited(r)'  BY <2>1, <2>2 DEF Awaited
  <2>12. \A p \in posts' : p.dev \notin excused' => Awaited(p)'  BY <2>1, <2>10, <2>11
  <2>13. \A u, v \in Threads :
          DeviceOf[u] = DeviceOf[v] /\ thread'[u].at = "renew" /\ thread'[v].at = "renew" => u = v
    BY <2>3 DEF CallInv
  <2> QED  BY <2>5, <2>6, <2>8, <2>9, <2>12, <2>13 DEF CallInv
<1> QED
  BY <1>1, <1>2, <1>3, <1>4, <1>5, <1>6, <1>7, <1>8, <1>9, <1>10, <1>11, <1>12, <1>13, <1>14
  DEF SessionNext, PhoneMoves, PanelMoves

-----------------------------------------------------------------------------
(* What a phone without trouble counts on stays in the file.               *)

(* Steps that leave the file and its requests alone.                       *)
LEMMA StoreCalm ==
    ASSUME StoreInv, records' = records, tmp' = tmp, lapsed \subseteq lapsed',
           excused \subseteq excused',
           \A p \in posts' : p \in posts \/ p.stage = "sent",
           \A d \in Devices \ excused', n \in Nat \ {0} :
              Needed(d, n)' /\ n \notin lapsed' /\ ~Used(n)' => Needed(d, n) /\ ~Used(n)
    PROVE  StoreInv'
<1>1. ASSUME NEW n, OnFile(n) PROVE OnFile(n)'  BY <1>1 DEF OnFile
<1>2. \A d \in Devices \ excused', n \in Nat \ {0} :
        Needed(d, n)' /\ n \notin lapsed' /\ ~Used(n)' => OnFile(n)'
  BY <1>1 DEF StoreInv
<1>3. Saving' \subseteq Saving  BY DEF Saving
<1>4. \A p, q \in Saving' : p # q => p.dev \in excused'  BY <1>3 DEF StoreInv
<1>5. ASSUME NEW p \in posts', p.dev \notin excused' PROVE CallOnFile(p)'
  <2>1. CASE p \in posts
    <3>1. CallOnFile(p)  BY <1>5, <2>1 DEF StoreInv
    <3> QED  BY <1>3, <3>1 DEF CallOnFile
  <2>2. CASE p.stage = "sent"  BY <2>2 DEF CallOnFile, Saving
  <2> QED  BY <2>1, <2>2
<1> QED  BY <1>2, <1>4, <1>5 DEF StoreInv

(* Two calls of a phone without trouble that carry the same token are one. *)
LEMMA OneRenewal ==
    ASSUME TokenInv, CallInv, NEW p \in posts, NEW q \in posts, p.dev = q.dev,
           p.dev \notin excused, p.old # 0, q.old # 0
    PROVE  p = q
<1>1. PICK t \in Threads : DeviceOf[t] = p.dev /\ thread[t].at = "renew" /\ thread[t].call = p.id
  BY DEF CallInv, Awaited
<1>2. PICK u \in Threads : DeviceOf[u] = p.dev /\ thread[u].at = "renew" /\ thread[u].call = q.id
  BY DEF CallInv, Awaited
<1>3. t = u  BY <1>1, <1>2 DEF CallInv
<1> QED  BY <1>1, <1>2, <1>3 DEF TokenInv

(* A call is over: it was answered, or dropped with nobody waiting.        *)
LEMMA StoreAnswered ==
    ASSUME SessionTypes, TokenInv, CallInv, StoreInv, NEW p \in posts, posts' = posts \ {p},
           UNCHANGED <<records, tmp, lapsed, excused>>,
           NEW x \in Nat, pair' = [pair EXCEPT ![p.dev] = x],
           p.dev \notin excused => \/ x = pair[p.dev] /\ p.old = 0
                                   \/ x = p.id /\ p.stage = "ok"
                                   \/ x = 0
    PROVE  StoreInv'
<1>t. posts \subseteq Calls /\ pair \in [Devices -> Nat]  BY DEF SessionTypes
<1>c. \A q \in posts : q.dev \in Devices /\ q.id \in Nat /\ q.old \in Nat  BY <1>t DEF Calls
<1>1. ASSUME NEW d \in Devices \ excused, NEW n \in Nat \ {0}, Needed(d, n)', ~Used(n)'
      PROVE  Needed(d, n) /\ ~Used(n)
  <2>1. Needed(d, n)  BY <1>1, <1>t DEF Needed
  <2>2. Owns(d, n)  BY <2>1 DEF Needed, Owns
  <2>3. ASSUME Used(n) PROVE FALSE
    <3>1. p.old = n  BY <1>1, <2>3 DEF Used
    <3>2. Owns(p.dev, n)  BY <3>1 DEF Owns
    <3>3. p.dev = d  BY <1>c, <2>2, <3>2 DEF TokenInv
    <3>4. pair'[d] # n  BY <1>c, <1>t, <3>1, <3>3 DEF TokenInv
    <3>5. \A q \in posts' : q.dev = d => q.id # n /\ q.old # n
      <4>1. \A q \in posts : q.id # n  BY <3>1 DEF TokenInv
      <4>2. ASSUME NEW q \in posts, q.dev = d, q.old = n PROVE q = p
        BY <3>1, <3>3, <4>2, OneRenewal
      <4> QED  BY <4>1, <4>2
    <3> QED  BY <1>1, <3>4, <3>5 DEF Needed
  <2> QED  BY <2>1, <2>3
<1> QED  BY <1>1, StoreCalm

LEMMA StoreStep ==
    SessionTypes /\ TokenInv /\ CallInv /\ StoreInv /\ [SessionNext]_sessionVars => StoreInv'
<1> SUFFICES ASSUME SessionTypes, TokenInv, CallInv, StoreInv, [SessionNext]_sessionVars
             PROVE  StoreInv'
  OBVIOUS
<1> USE DEF phones, panel
<1>t. /\ posts \subseteq Calls /\ pair \in [Devices -> Nat] /\ kept \in [Devices -> Nat]
      /\ login \in [Devices -> Nat]
  BY DEF SessionTypes
<1>c. \A p \in posts : p.dev \in Devices /\ p.id \in Nat /\ p.old \in Nat /\ p.id # 0
  BY <1>t DEF Calls, TokenInv
<1>d. \A t \in Threads : DeviceOf[t] \in Devices  BY SessionAssumption
<1>q. ASSUME UNCHANGED <<posts, records, tmp>>, lapsed \subseteq lapsed', excused \subseteq excused',
             \A d \in Devices \ excused' : pair'[d] \in {0, pair[d]}
      PROVE  StoreInv'
  BY <1>q, StoreCalm DEF Needed, Used
<1>1. ASSUME NEW t \in Threads,
             \/ \E soon, leaving \in BOOLEAN : Intercept(t, soon, leaving)
             \/ Served(t) \/ NetworkFails(t) \/ Unauthorized(t) \/ RenewShared(t) \/ RenewUnavailable(t)
      PROVE  StoreInv'
  BY <1>1, <1>q
  DEF Intercept, Served, NetworkFails, Unauthorized, RenewShared, RenewUnavailable, Trouble
<1>2. ASSUME NEW t \in Threads, SignOut(t) PROVE StoreInv'
  BY <1>2, <1>d, <1>t, <1>q DEF SignOut
<1>3. ASSUME NEW d \in Devices, LoginUnavailable(d) \/ Apply(d) \/ Killed(d) PROVE StoreInv'
  <2>1. \A e \in Devices \ excused' : pair'[e] \in {0, pair[e]}
    BY <1>3, <1>t DEF LoginUnavailable, Apply, Killed, Trouble
  <2> QED  BY <1>3, <1>q, <2>1 DEF LoginUnavailable, Apply, Killed, Trouble
<1>4. CASE \/ \E n \in records : RefreshLapses(n)
           \/ \E d \in Devices : AccessExpires(pair[d])
           \/ UNCHANGED sessionVars
  BY <1>4, <1>q DEF RefreshLapses, AccessExpires, sessionVars
<1>5. ASSUME NEW t \in Threads, RenewPosts(t) PROVE StoreInv'
  <2>1. pair[DeviceOf[t]] \in Nat /\ DeviceOf[t] \in Devices  BY <1>d, <1>t
  <2>2. PICK r \in Calls :
          /\ posts' = posts \cup {r} /\ r.stage = "sent" /\ r.dev = DeviceOf[t]
          /\ r.old = pair[DeviceOf[t]]
    BY <1>5, <2>1, PostIs DEF RenewPosts
  <2>3. UNCHANGED <<records, tmp, lapsed, excused, pair>>  BY <1>5 DEF RenewPosts
  <2> QED  BY <2>2, <2>3, StoreCalm DEF Needed, Used
<1>6. ASSUME NEW d \in Devices, Login(d) PROVE StoreInv'
  <2>1. PICK r \in Calls : posts' = posts \cup {r} /\ r.stage = "sent" /\ r.dev = d /\ r.old = 0
    BY <1>6, PostIs DEF Login
  <2>2. UNCHANGED <<records, tmp, lapsed, excused, pair>>  BY <1>6 DEF Login
  <2> QED  BY <2>1, <2>2, StoreCalm DEF Needed, Used
<1>7. ASSUME NEW t \in Threads, RenewAnswered(t) PROVE StoreInv'
  <2>1. PICK p \in posts :
          /\ p.stage \in {"ok", "no", "err"}
          /\ pair' = [pair EXCEPT ![p.dev] = Adopted(p)] /\ posts' = posts \ {p}
    BY <1>7 DEF RenewAnswered, Pending
  <2>2. p.dev \notin excused => p.stage # "err"  BY DEF StoreInv, CallOnFile
  <2>3. Adopted(p) \in Nat /\ (p.stage = "ok" => Adopted(p) = p.id) /\ (p.stage = "no" => Adopted(p) = 0)
    BY <1>c, <1>t, <2>1 DEF Adopted
  <2> QED  BY <1>7, <2>1, <2>2, <2>3, StoreAnswered DEF RenewAnswered
<1>8. ASSUME NEW d \in Devices, LoginAnswered(d) PROVE StoreInv'
  <2>1. PICK p \in posts :
          /\ p.stage \in {"ok", "err"} /\ p.id = login[d]
          /\ pair' = [pair EXCEPT ![d] = IF p.stage = "ok" THEN p.id ELSE @] /\ posts' = posts \ {p}
    BY <1>8 DEF LoginAnswered, Pending
  <2>2. p.dev = d /\ p.old = 0  BY <2>1 DEF CallInv
  <2>3. PICK x \in Nat : /\ pair' = [pair EXCEPT ![p.dev] = x]
                         /\ (x = p.id /\ p.stage = "ok") \/ x = pair[p.dev]
    BY <1>c, <1>t, <2>1, <2>2
  <2> QED  BY <1>8, <2>1, <2>2, <2>3, StoreAnswered DEF LoginAnswered
<1>9. ASSUME NEW p \in posts, AnswerDropped(p) PROVE StoreInv'
  <2>1. p.dev \in excused  BY <1>9 DEF AnswerDropped, CallInv, Awaited
  <2>2. pair' = [pair EXCEPT ![p.dev] = pair[p.dev]] /\ pair[p.dev] \in Nat
    BY <1>9, <1>c, <1>t DEF AnswerDropped
  <2> QED  BY <1>9, <2>1, <2>2, StoreAnswered DEF AnswerDropped
<1>10. CASE PanelRestarts
  <2>1. /\ posts' = {} /\ UNCHANGED <<records, tmp, lapsed, pair>>
        /\ excused' = excused \cup {p.dev : p \in posts}
    BY <1>10 DEF PanelRestarts, Trouble
  <2>2. ASSUME NEW d \in Devices \ excused', NEW n \in Nat \ {0}, Needed(d, n)'
        PROVE  Needed(d, n) /\ ~Used(n)
    <3>1. n = pair[d]  BY <2>1, <2>2 DEF Needed
    <3>2. ASSUME NEW p \in posts, p.old = n PROVE FALSE
      <4>1. Owns(d, n) /\ Owns(p.dev, n)  BY <3>1, <3>2 DEF Owns
      <4>2. p.dev = d  BY <1>c, <4>1 DEF TokenInv
      <4> QED  BY <2>1, <4>2
    <3> QED  BY <3>1, <3>2 DEF Needed, Used
  <2> QED  BY <2>1, <2>2, StoreCalm
<1>11. ASSUME NEW p \in posts, load(p) PROVE StoreInv'
  <2>1. PICK r : /\ Moves(p, r)
                 /\ \/ r.stage = "no" /\ p.old # 0 /\ p.old \notin records \ lapsed
                    \/ /\ r.stage = "loaded"
                       /\ r.found <=> (p.old = 0 \/ p.old \in records \ lapsed)
                       /\ r.found => r.image = ((records \ lapsed) \ {p.old}) \cup {p.id}
                       /\ ~r.found => r.image = records \ lapsed
    BY <1>11, LoadIs
  <2>2. p.stage = "sent" /\ UNCHANGED <<records, tmp, lapsed, pair>> /\ excused' = excused \cup Excuses(p)
    BY <1>11 DEF load
  <2>3. posts' = (posts \ {p}) \cup {r} /\ r.id = p.id /\ r.dev = p.dev /\ r.old = p.old
    BY <2>1 DEF Moves
  <2>4. ASSUME NEW d \in Devices \ excused', NEW n \in Nat \ {0}, Needed(d, n)', n \notin lapsed, ~Used(n)'
        PROVE  OnFile(n)'
    <3>1. Needed(d, n)  BY <2>1, <2>2, <2>3, <2>4 DEF Needed
    <3>2. ~Used(n) /\ p.old # n
      BY <2>1, <2>2, <2>3, <2>4 DEF Used
    <3>3. OnFile(n)  BY <2>2, <2>4, <3>1, <3>2 DEF StoreInv
    <3>4. r.stage = "loaded" => n \in r.image  BY <2>1, <2>4, <3>2, <3>3 DEF OnFile
    <3> QED  BY <2>1, <2>2, <2>3, <3>3, <3>4 DEF OnFile
  <2>5. \A q, s \in Saving' : q # s => q.dev \in excused'
    <3>1. Saving' \subseteq Saving \cup {r}  BY <2>3 DEF Saving
    <3>2. Saving # {} => r.dev \in excused' /\ \A q \in Saving : q.dev \in excused'
      BY <2>2, <2>3 DEF Excuses
    <3> QED  BY <2>2, <3>1, <3>2
  <2>6. ASSUME NEW q \in posts', q.dev \notin excused' PROVE CallOnFile(q)'
    <3>1. CASE q # r
      <4>1. q \in posts /\ CallOnFile(q)  BY <2>2, <2>3, <2>6, <3>1 DEF StoreInv
      <4>2. q \in Saving' => q \in Saving  BY <4>1 DEF Saving
      <4> QED  BY <2>2, <4>1, <4>2 DEF CallOnFile
    <3>2. CASE q = r
      <4>1. p.old \in lapsed \/ p.old = 0 \/ p.old \in records
        <5> SUFFICES ASSUME p.old \notin lapsed, p.old # 0 PROVE p.old \in records  OBVIOUS
        <5>1. Needed(p.dev, p.old) /\ p.dev \in Devices \ excused  BY <1>c, <2>2, <2>3, <2>6, <3>2 DEF Needed
        <5>2. ASSUME Used(p.old) PROVE FALSE
          <6>1. PICK s \in posts : s.old = p.old /\ s.stage # "sent"  BY <5>2 DEF Used
          <6>2. Owns(s.dev, p.old) /\ Owns(p.dev, p.old)  BY <6>1 DEF Owns
          <6>3. s.dev = p.dev  BY <1>c, <6>2 DEF TokenInv
          <6>4. s = p  BY <5>1, <6>1, <6>3, OneRenewal
          <6> QED  BY <2>2, <6>1, <6>4
        <5> QED  BY <1>c, <5>1, <5>2 DEF StoreInv, OnFile
      <4>2. r.stage = "no" => p.old \in lapsed  BY <2>1, <4>1
      <4>3. r.stage = "loaded" /\ ~r.found => p.old \in lapsed  BY <2>1, <4>1
      <4>4. r.stage = "loaded" /\ r.found => r.id \in r.image  BY <2>1, <2>3
      <4> QED  BY <2>1, <2>2, <2>3, <3>2, <4>2, <4>3, <4>4 DEF CallOnFile, Saving
    <3> QED  BY <3>1, <3>2
  <2> QED  BY <2>2, <2>4, <2>5, <2>6 DEF StoreInv
<1>12. ASSUME NEW p \in posts, saveWrites(p) PROVE StoreInv'
  <2>1. PICK r : /\ Moves(p, r) /\ r.found = p.found
                 /\ \/ /\ p.image = {} /\ records' = {} /\ tmp' = tmp
                       /\ r.stage = IF p.found THEN "ok" ELSE "no"
                    \/ p.image # {} /\ records' = records /\ tmp' = {p.image} /\ r.stage = "written"
    BY <1>12, WritesIs
  <2>2. p.stage = "loaded" /\ UNCHANGED <<lapsed, pair, excused>>  BY <1>12 DEF saveWrites
  <2>3. posts' = (posts \ {p}) \cup {r} /\ r.id = p.id /\ r.dev = p.dev /\ r.old = p.old
    BY <2>1 DEF Moves
  <2>4. p.dev \notin excused => r.stage # "ok"
    BY <2>1, <2>2 DEF StoreInv, CallOnFile
  <2>5. ASSUME NEW d \in Devices \ excused', NEW n \in Nat \ {0}, Needed(d, n)', n \notin lapsed, ~Used(n)'
        PROVE  OnFile(n)'
    <3>1. Needed(d, n)  BY <2>1, <2>2, <2>3, <2>4, <2>5 DEF Needed
    <3>2. ~Used(n)  BY <2>1, <2>2, <2>3, <2>5 DEF Used
    <3>3. OnFile(n)  BY <2>2, <2>5, <3>1, <3>2 DEF StoreInv
    <3>4. n \in p.image  BY <2>2, <3>3 DEF OnFile
    <3>5. records' = records /\ tmp' = {p.image} /\ r.stage = "written"  BY <2>1, <3>4
    <3> QED  BY <2>3, <3>3, <3>4, <3>5 DEF OnFile
  <2>6. p \in Saving  BY <2>2 DEF Saving
  <2>7. \A q, s \in Saving' : q # s => q.dev \in excused'
    <3>1. Saving' \subseteq (Saving \ {p}) \cup {r}  BY <2>3 DEF Saving
    <3> QED  BY <2>2, <2>3, <2>6, <3>1 DEF StoreInv
  <2>8. ASSUME NEW q \in posts', q.dev \notin excused' PROVE CallOnFile(q)'
    <3>1. CASE q # r
      <4>1. q \in posts /\ q # p /\ CallOnFile(q)  BY <2>2, <2>3, <2>8, <3>1 DEF StoreInv
      <4>2. q \notin Saving  BY <2>2, <2>6, <2>8, <4>1 DEF StoreInv
      <4>3. q \notin Saving' /\ q.stage \notin {"loaded", "written"}  BY <4>1, <4>2 DEF Saving
      <4> QED  BY <2>2, <4>1, <4>3 DEF CallOnFile
    <3>2. CASE q = r
      <4>1. CallOnFile(p)  BY <2>2, <2>3, <2>8, <3>2 DEF StoreInv
      <4> QED  BY <2>1, <2>2, <2>3, <2>4, <2>6, <2>8, <3>2, <4>1 DEF CallOnFile
    <3> QED  BY <3>1, <3>2
  <2> QED  BY <2>2, <2>5, <2>7, <2>8 DEF StoreInv
<1>13. ASSUME NEW p \in posts, saveRenames(p) PROVE StoreInv'
  <2>1. PICK r : Moves(p, r) /\ r.stage = StoreAnswer(p, tmp # {})  BY <1>13, RenamesIs
  <2>2. /\ p.stage = "written" /\ UNCHANGED <<lapsed, pair, excused>> /\ tmp' = {}
        /\ records' = IF tmp = {} THEN records ELSE UNION tmp
    BY <1>13 DEF saveRenames
  <2>3. posts' = (posts \ {p}) \cup {r} /\ r.id = p.id /\ r.dev = p.dev /\ r.old = p.old
    BY <2>1 DEF Moves
  <2>4. r.stage \in {"ok", "no", "err"} /\ (r.stage = "ok" => p.found /\ tmp # {})
    BY <2>1 DEF StoreAnswer
  <2>5. p \in Saving  BY <2>2 DEF Saving
  <2>6. ASSUME NEW n, OnFile(n) PROVE OnFile(n)'
    <3>1. n \in records'  BY <2>2, <2>6 DEF OnFile
    <3>2. \A q \in posts' : q.stage = "loaded" => q \in posts  BY <2>3, <2>4
    <3> QED  BY <2>2, <2>6, <3>1, <3>2 DEF OnFile
  <2>7. ASSUME p.dev \notin excused, r.stage = "ok" PROVE OnFile(p.id)'
    <3>1. CallOnFile(p)  BY <2>7 DEF StoreInv
    <3>2. p.id \in records'  BY <2>2, <2>4, <2>7, <3>1 DEF CallOnFile
    <3>3. \A q \in posts' : q.stage # "loaded"
      BY <2>3, <2>4, <2>5, <2>7 DEF StoreInv, Saving
    <3> QED  BY <2>2, <3>2, <3>3 DEF OnFile
  <2>8. ASSUME NEW d \in Devices \ excused', NEW n \in Nat \ {0}, Needed(d, n)', n \notin lapsed, ~Used(n)'
        PROVE  OnFile(n)'
    <3>1. Needed(d, n) \/ (d = p.dev /\ n = p.id /\ r.stage = "ok")
      BY <2>2, <2>3, <2>4, <2>8 DEF Needed
    <3>2. ~Used(n)  BY <2>2, <2>3, <2>4, <2>8 DEF Used
    <3>3. CASE Needed(d, n)
      <4>1. OnFile(n)  BY <2>2, <2>8, <3>2, <3>3 DEF StoreInv
      <4> QED  BY <2>6, <4>1
    <3>4. CASE d = p.dev /\ n = p.id /\ r.stage = "ok"
      BY <2>2, <2>7, <2>8, <3>4
    <3> QED  BY <3>1, <3>3, <3>4
  <2>9. Saving' \subseteq Saving \ {p}
    <3>1. \A q \in Saving' : q \in posts \ {p}  BY <2>3, <2>4 DEF Saving
    <3> QED  BY <3>1 DEF Saving
  <2>10. \A q, s \in Saving' : q # s => q.dev \in excused'  BY <2>2, <2>9 DEF StoreInv
  <2>11. ASSUME NEW q \in posts', q.dev \notin excused' PROVE CallOnFile(q)'
    <3>1. CASE q # r
      <4>1. q \in posts /\ q # p /\ CallOnFile(q)  BY <2>2, <2>3, <2>11, <3>1 DEF StoreInv
      <4>2. q \notin Saving  BY <2>2, <2>5, <2>11, <4>1 DEF StoreInv
      <4>3. q \notin Saving' /\ q.stage \notin {"loaded", "written"}  BY <4>1, <4>2 DEF Saving
      <4> QED  BY <2>2, <4>1, <4>3 DEF CallOnFile
    <3>2. CASE q = r
      <4>1. CallOnFile(p)  BY <2>2, <2>3, <2>11, <3>2 DEF StoreInv
      <4>2. tmp # {} /\ (~p.found => p.old \in lapsed)  BY <2>2, <2>5, <4>1 DEF CallOnFile
      <4>3. r.stage # "err" /\ (r.stage = "no" => p.old \in lapsed)  BY <2>1, <4>2 DEF StoreAnswer
      <4> QED  BY <2>2, <2>3, <2>4, <3>2, <4>3 DEF CallOnFile, Saving
    <3> QED  BY <3>1, <3>2
  <2> QED  BY <2>2, <2>8, <2>10, <2>11 DEF StoreInv
<1> QED
  BY <1>1, <1>2, <1>3, <1>4, <1>5, <1>6, <1>7, <1>8, <1>9, <1>10, <1>11, <1>12, <1>13
  DEF SessionNext, PhoneMoves, PanelMoves

-----------------------------------------------------------------------------
(* Every phone starts with a pair of its own.                              *)
LEMMA SessionStarts == SessionInit => SessionTypes /\ TokenInv /\ CallInv /\ StoreInv
<1> SUFFICES ASSUME SessionInit PROVE SessionTypes /\ TokenInv /\ CallInv /\ StoreInv  OBVIOUS
<1> DEFINE N == Cardinality(Devices)
           Apart(f) == \A d, e \in Devices : f[d] = f[e] => d = e
<1>1. N \in Nat /\ ExistsBijection(1 .. N, Devices)  BY SessionAssumption, FS_CardinalityType
<1>2. PICK f \in [1 .. N -> Devices] : \A d \in Devices : \E i \in 1 .. N : f[i] = d
  BY <1>1 DEF ExistsBijection, Bijection, Surjection
<1>3. \E g \in [Devices -> 1 .. N] : Apart(g)
  <2> DEFINE g == [d \in Devices |-> CHOOSE i \in 1 .. N : f[i] = d]
  <2>1. \A d \in Devices : g[d] \in 1 .. N /\ f[g[d]] = d  BY <1>2
  <2>2. g \in [Devices -> 1 .. N]  BY <2>1
  <2>3. Apart(g)  BY <2>1
  <2> QED  BY <2>2, <2>3
<1>4. pair \in [Devices -> 1 .. N] /\ Apart(pair)
  <2>1. pair = CHOOSE h \in [Devices -> 1 .. N] : Apart(h)  BY DEF SessionInit
  <2> QED  BY <1>3, <2>1
<1>5. /\ minted = N /\ records = 1 .. N /\ kept = pair /\ login = [d \in Devices |-> 0]
      /\ thread = [t \in Threads |-> IdleThread] /\ tmp = {} /\ posts = {} /\ lapsed = {}
  BY DEF SessionInit
<1> HIDE DEF N
<1>6. SessionTypes  BY <1>1, <1>4, <1>5, IdleIs DEF SessionTypes
<1>7. TokenInv  BY <1>1, <1>4, <1>5 DEF TokenInv, Owns
<1>8. CallInv
  <2>1. \A t \in Threads : thread[t].call = 0 /\ thread[t].at = "idle"  BY <1>5 DEF IdleThread
  <2> QED  BY <1>1, <1>5, <2>1 DEF CallInv
<1>9. StoreInv  BY <1>4, <1>5 DEF StoreInv, Needed, OnFile, Saving
<1> QED  BY <1>6, <1>7, <1>8, <1>9

LEMMA SessionStays ==
    SessionTypes /\ TokenInv /\ CallInv /\ StoreInv /\ [SessionNext]_sessionVars
      => SessionTypes' /\ TokenInv' /\ CallInv' /\ StoreInv'
BY SessionTypesStep, TokenStep, CallStep, StoreStep

(* For every set of phones, requests and bounds: however the calls of several
   phones interleave over the one file of records, a phone that met no lost
   answer, restart or overlap can renew.                                   *)
THEOREM RenewableUnlessExcused == SessionSpec => []StillRenewable
<1>1. SessionTypes /\ TokenInv /\ CallInv /\ StoreInv => StillRenewable
  <2> SUFFICES ASSUME SessionTypes, TokenInv, CallInv, StoreInv, NEW d \in Devices \ excused,
                      pair[d] # 0, pair[d] \notin lapsed, ~Renewing(d)
               PROVE  pair[d] \in records
    BY DEF StillRenewable
  <2>1. pair[d] \in Nat \ {0} /\ posts \subseteq Calls  BY DEF SessionTypes
  <2>2. ASSUME NEW p \in posts, p.old = pair[d] PROVE FALSE
    <3>1. Owns(d, pair[d]) /\ Owns(p.dev, pair[d])  BY <2>2 DEF Owns
    <3>2. p.dev = d  BY <2>1, <3>1 DEF TokenInv, Calls
    <3>3. Awaited(p)  BY <3>2 DEF CallInv
    <3> QED  BY <2>1, <2>2, <3>2, <3>3 DEF Awaited, Renewing
  <2>3. Needed(d, pair[d]) /\ ~Used(pair[d])  BY <2>2 DEF Needed, Used
  <2> QED  BY <2>1, <2>3 DEF StoreInv, OnFile
<1> QED  BY <1>1, SessionStarts, SessionStays, PTL DEF SessionSpec

(* The rotation one request makes never tears down the session of another:
   a session that ends was signed out of, had lapsed, or met trouble.      *)
THEOREM SessionsEndForCause == SessionSpec => SessionEndsForAReason
<1> DEFINE Cause ==
      \A d \in Devices :
          pair[d] # 0 /\ pair'[d] = 0 =>
              \/ d \in excused'
              \/ \E t \in Threads : DeviceOf[t] = d /\ thread[t].at = "leave"
              \/ \E p \in posts \ posts' : p.dev = d /\ p.old \in lapsed
<1>1. SessionTypes /\ TokenInv /\ CallInv /\ StoreInv /\ [SessionNext]_sessionVars => [Cause]_sessionVars
  <2> SUFFICES ASSUME SessionTypes, TokenInv, CallInv, StoreInv, SessionNext, NEW d \in Devices,
                      pair[d] # 0, pair'[d] = 0
               PROVE  \/ d \in excused'
                      \/ \E t \in Threads : DeviceOf[t] = d /\ thread[t].at = "leave"
                      \/ \E p \in posts \ posts' : p.dev = d /\ p.old \in lapsed
    OBVIOUS
  <2> USE DEF phones, panel
  <2>t. pair \in [Devices -> Nat] /\ posts \subseteq Calls  BY DEF SessionTypes
  <2>1. \/ \E t \in Threads : RenewAnswered(t) \/ SignOut(t)
        \/ \E e \in Devices : LoginAnswered(e) \/ Killed(e)
    BY DEF SessionNext, PhoneMoves, PanelMoves, Intercept, Served, NetworkFails, Unauthorized,
           RenewShared, RenewPosts, RenewUnavailable, Login, LoginUnavailable, Apply, load, saveWrites,
           saveRenames, AnswerDropped, PanelRestarts, RefreshLapses, AccessExpires
  <2>2. ASSUME NEW t \in Threads, RenewAnswered(t)
        PROVE  d \in excused' \/ \E p \in posts \ posts' : p.dev = d /\ p.old \in lapsed
    <3>1. PICK p \in posts :
            /\ p.stage \in {"ok", "no", "err"}
            /\ pair' = [pair EXCEPT ![p.dev] = Adopted(p)] /\ posts' = posts \ {p}
      BY <2>2 DEF RenewAnswered, Pending
    <3>2. p.dev = d /\ Adopted(p) = 0  BY <2>t, <3>1
    <3>3. p.stage = "no"  BY <3>1, <3>2 DEF Adopted, TokenInv
    <3>4. p.dev \notin excused => p.old \in lapsed  BY <3>3 DEF StoreInv, CallOnFile
    <3>5. excused' = excused  BY <2>2 DEF RenewAnswered
    <3> QED  BY <3>1, <3>2, <3>4, <3>5
  <2>3. ASSUME NEW t \in Threads, SignOut(t) PROVE DeviceOf[t] = d /\ thread[t].at = "leave"
    BY <2>3, <2>t DEF SignOut
  <2>4. ASSUME NEW e \in Devices, LoginAnswered(e) PROVE FALSE
    <3>1. PICK p \in posts : pair' = [pair EXCEPT ![e] = IF p.stage = "ok" THEN p.id ELSE @]
      BY <2>4 DEF LoginAnswered, Pending
    <3> QED  BY <2>t, <3>1 DEF TokenInv
  <2>5. ASSUME NEW e \in Devices, Killed(e) PROVE d \in excused'
    BY <2>5, <2>t DEF Killed, Trouble
  <2> QED  BY <2>1, <2>2, <2>3, <2>4, <2>5
<1> QED  BY <1>1, SessionStarts, SessionStays, PTL DEF SessionSpec, SessionEndsForAReason
=============================================================================
