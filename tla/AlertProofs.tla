---------------------------- MODULE AlertProofs ----------------------------
(***************************************************************************)
(* What is proved of Alerts for every set of rules and thresholds, any     *)
(* number of handlers and every bound: the file at rest, the alternation   *)
(* of the events of a rule, and their dedup keys.                          *)
(***************************************************************************)
EXTENDS Alerts, TLAPS

RuleState == [active : Nat, last : Nat]
Books == UNION {[S -> RuleState] : S \in SUBSET Names}
Places == {"idle", "dispatch", "list", "write", "rename"}
FireSet == [rule : Names, time : Nat, episode : Nat \ {0}, resolved : BOOLEAN, gen : Nat]
Events == {[fire |-> f, key |-> DedupKey(f), life |-> l] : f \in FireSet, l \in Nat}

(* What every variable holds.                                              *)
AlertTypes ==
    /\ tick \in Nat /\ engine \in Books /\ firstTrue \in [Names -> Nat]
    /\ fires \subseteq FireSet /\ saver \in [Savers -> [at : Places, image : Books]]
    /\ ruleFile \in Books /\ ruleTmp \subseteq Books /\ sent \in Seq(Events)
    /\ gen \in [Names -> Nat] /\ raced \in BOOLEAN /\ life \in Nat /\ ruleEdits \in Nat

LEMMA BookIs ==
    ASSUME NEW b \in Books PROVE DOMAIN b \subseteq Names /\ b \in [DOMAIN b -> RuleState]
<1>1. PICK S \in SUBSET Names : b \in [S -> RuleState]  BY DEF Books
<1> QED  BY <1>1

LEMMA IsBook ==
    ASSUME NEW S \in SUBSET Names, NEW b \in [S -> RuleState] PROVE b \in Books
BY DEF Books

(* The four things Evaluate makes of a rule.                               *)
Quiet(n, s) == s.fires = {} /\ s.rule = engine[n]
Crossed(n, now, s) ==
    /\ engine[n].active = 0 /\ s.rule = [active |-> now, last |-> now]
    /\ s.fires = {Fire(n, now, now, FALSE)}
Reminded(n, now, s) ==
    /\ engine[n].active # 0 /\ Def[n].renotify > 0 /\ now - engine[n].last >= Def[n].renotify
    /\ s.rule = [engine[n] EXCEPT !.last = now]
    /\ s.fires = {Fire(n, now, engine[n].active, FALSE)}
Recovered(n, now, s) ==
    /\ engine[n].active # 0 /\ s.rule = [engine[n] EXCEPT !.active = 0]
    /\ s.fires = {Fire(n, now, engine[n].active, TRUE)}

LEMMA FourWays ==
    ASSUME NEW n, NEW v, NEW now
    PROVE  LET s == EvaluateRule(n, v, now)
           IN  Quiet(n, s) \/ Crossed(n, now, s) \/ Reminded(n, now, s) \/ Recovered(n, now, s)
<1> DEFINE s == EvaluateRule(n, v, now)
           since == IF firstTrue[n] = 0 THEN now ELSE firstTrue[n]
<1>1. CASE v # Missing /\ Cmp(v, n)
  <2>1. CASE Crosses(n, now, since)
    BY <1>1, <2>1 DEF EvaluateRule, Crossed, Crosses
  <2>2. CASE ~Crosses(n, now, since) /\ Reminds(n, now)
    BY <1>1, <2>2 DEF EvaluateRule, Reminded, Reminds
  <2>3. CASE ~Crosses(n, now, since) /\ ~Reminds(n, now)
    BY <1>1, <2>3 DEF EvaluateRule, Quiet
  <2> QED  BY <2>1, <2>2, <2>3
<1>2. CASE v # Missing /\ ~Cmp(v, n) /\ engine[n].active # 0 /\ rearmAllowed(v, n)
  BY <1>2 DEF EvaluateRule, Recovered
<1>3. CASE ~(v # Missing /\ Cmp(v, n))
           /\ ~(v # Missing /\ ~Cmp(v, n) /\ engine[n].active # 0 /\ rearmAllowed(v, n))
  BY <1>3 DEF EvaluateRule, Quiet
<1> QED  BY <1>1, <1>2, <1>3

LEMMA FirstSeen ==
    ASSUME AlertTypes, NEW n \in Names, NEW v, NEW now \in Nat
    PROVE  EvaluateRule(n, v, now).first \in Nat
<1>1. firstTrue[n] \in Nat  BY DEF AlertTypes
<1> QED  BY <1>1 DEF EvaluateRule

LEMMA SeenTypes ==
    ASSUME AlertTypes, NEW n \in DOMAIN engine, NEW v, NEW now \in Nat \ {0}
    PROVE  /\ EvaluateRule(n, v, now).rule \in RuleState
           /\ EvaluateRule(n, v, now).fires \subseteq FireSet
<1> DEFINE s == EvaluateRule(n, v, now)
<1> SUFFICES s.rule \in RuleState /\ s.fires \subseteq FireSet  OBVIOUS
<1>1. n \in Names /\ engine[n] \in RuleState /\ gen[n] \in Nat  BY BookIs DEF AlertTypes
<1>2. engine[n].active \in Nat /\ engine[n].last \in Nat  BY <1>1 DEF RuleState
<1>3. \A e \in Nat \ {0}, r \in BOOLEAN : Fire(n, now, e, r) \in FireSet
  BY <1>1 DEF Fire, FireSet
<1>r. /\ [active |-> now, last |-> now] \in RuleState
      /\ [engine[n] EXCEPT !.last = now] \in RuleState
      /\ [engine[n] EXCEPT !.active = 0] \in RuleState
  BY <1>1 DEF RuleState
<1>f. Quiet(n, s) \/ Crossed(n, now, s) \/ Reminded(n, now, s) \/ Recovered(n, now, s)
  BY FourWays
<1> HIDE DEF s
<1>4. CASE Quiet(n, s)  BY <1>1, <1>4 DEF Quiet
<1>5. CASE Crossed(n, now, s)
  <2>1. Fire(n, now, now, FALSE) \in FireSet  BY <1>3
  <2> QED  BY <1>r, <1>5, <2>1, Zenon DEF Crossed
<1>6. CASE Reminded(n, now, s)
  <2>1. engine[n].active \in Nat \ {0}  BY <1>2, <1>6 DEF Reminded
  <2>2. Fire(n, now, engine[n].active, FALSE) \in FireSet  BY <1>3, <2>1
  <2> QED  BY <1>r, <1>6, <2>2, Zenon DEF Reminded
<1>7. CASE Recovered(n, now, s)
  <2>1. engine[n].active \in Nat \ {0}  BY <1>2, <1>7, Zenon DEF Recovered
  <2>2. Fire(n, now, engine[n].active, TRUE) \in FireSet  BY <1>3, <2>1
  <2> QED  BY <1>r, <1>7, <2>2, Zenon DEF Recovered
<1> QED  BY <1>f, <1>4, <1>5, <1>6, <1>7

(* Evaluate, rule by rule.                                                 *)
Seen(n, v) == EvaluateRule(n, v, tick + 1)
Fired(v) == UNION {Seen(n, v).fires : n \in DOMAIN engine}

LEMMA Evaluated ==
    ASSUME NEW v, Evaluate(v)
    PROVE  /\ saver[Collector].at = "idle" /\ tick' = tick + 1
           /\ engine' = [n \in DOMAIN engine |-> Seen(n, v).rule]
           /\ firstTrue' = [n \in Names |-> IF n \in DOMAIN engine THEN Seen(n, v).first ELSE 0]
           /\ fires' = Fired(v)
           /\ saver' = IF Fired(v) # {} THEN [saver EXCEPT ![Collector].at = "dispatch"] ELSE saver
           /\ UNCHANGED <<ruleFile, ruleTmp, sent, gen, raced, life, ruleEdits>>
<1>1. tick' = tick + 1  BY DEF Evaluate
<1>2. \A n \in DOMAIN engine : EvaluateRule(n, v, tick') = Seen(n, v)  BY <1>1 DEF Seen
<1> QED  BY <1>2 DEF Evaluate, Seen, Fired, Recorded

LEMMA SaverAt ==
    ASSUME AlertTypes, NEW p \in Savers, NEW at \in Places
    PROVE  [saver EXCEPT ![p].at = at] \in [Savers -> [at : Places, image : Books]]
<1>1. saver[p] \in [at : Places, image : Books]  BY DEF AlertTypes
<1>2. [saver[p] EXCEPT !.at = at] \in [at : Places, image : Books]  BY <1>1
<1> QED  BY <1>2 DEF AlertTypes

LEMMA RestIs == AtRest \in [at : Places, image : Books]
<1>1. <<>> \in [{} -> RuleState]  OBVIOUS
<1>2. <<>> \in Books  BY <1>1, IsBook
<1> QED  BY <1>2 DEF AtRest, Places

LEMMA AlertTypesStep == AlertTypes /\ [AlertNext]_alertVars => AlertTypes'
<1> SUFFICES ASSUME AlertTypes, [AlertNext]_alertVars PROVE AlertTypes'  OBVIOUS
<1>e. DOMAIN engine \subseteq Names /\ engine \in [DOMAIN engine -> RuleState]
  BY BookIs DEF AlertTypes
<1>c. Collector \in Savers  BY DEF Savers
<1>1. ASSUME NEW v, Evaluate(v) PROVE AlertTypes'
  <2>0. tick + 1 \in Nat \ {0} /\ tick + 1 \in Nat  BY DEF AlertTypes
  <2>1. \A n \in DOMAIN engine : Seen(n, v).rule \in RuleState /\ Seen(n, v).fires \subseteq FireSet
    BY <2>0, SeenTypes DEF Seen
  <2>2. \A n \in DOMAIN engine : Seen(n, v).first \in Nat  BY <1>e, <2>0, FirstSeen DEF Seen
  <2>3. engine' \in Books
    <3>1. engine' \in [DOMAIN engine -> RuleState]  BY <1>1, <2>1, Evaluated
    <3> QED  BY <1>e, <3>1, IsBook
  <2>4. firstTrue' \in [Names -> Nat]  BY <1>1, <2>2, Evaluated
  <2>5. fires' \subseteq FireSet  BY <1>1, <2>1, Evaluated DEF Fired
  <2>6. saver' \in [Savers -> [at : Places, image : Books]]
    <3>1. [saver EXCEPT ![Collector].at = "dispatch"] \in [Savers -> [at : Places, image : Books]]
      BY <1>c, SaverAt DEF Places
    <3> QED  BY <1>1, <3>1, Evaluated DEF AlertTypes
  <2>7. tick' \in Nat /\ UNCHANGED <<ruleFile, ruleTmp, sent, gen, raced, life, ruleEdits>>
    BY <1>1, <2>0, Evaluated
  <2> QED  BY <2>3, <2>4, <2>5, <2>6, <2>7 DEF AlertTypes
<1>2. ASSUME NEW f \in fires, recordFires(f) PROVE AlertTypes'
  <2>1. [fire |-> f, key |-> DedupKey(f), life |-> life] \in Events  BY DEF AlertTypes, Events
  <2>2. sent' \in Seq(Events)  BY <1>2, <2>1 DEF recordFires, AlertTypes
  <2>3. [saver EXCEPT ![Collector].at = "list"] \in [Savers -> [at : Places, image : Books]]
    BY <1>c, SaverAt DEF Places
  <2> QED  BY <1>2, <2>2, <2>3 DEF recordFires, AlertTypes
<1>3. ASSUME NEW h \in Editors, NEW n \in Names, handleAlertAdd(h, n) \/ handleAlertRemove(h, n)
      PROVE  AlertTypes'
  <2>1. Edited(h, n)  BY <1>3 DEF handleAlertAdd, handleAlertRemove
  <2>2. saver' \in [Savers -> [at : Places, image : Books]]
    BY <2>1, SaverAt DEF Edited, Savers, Places
  <2>3. engine' \in Books
    <3>1. CASE handleAlertAdd(h, n)
      <4>1. engine' \in [DOMAIN engine \cup {n} -> RuleState]
        BY <1>e, <3>1 DEF handleAlertAdd, RuleState
      <4> QED  BY <1>e, <4>1, IsBook
    <3>2. CASE handleAlertRemove(h, n)
      <4>1. engine' \in [DOMAIN engine \ {n} -> RuleState]  BY <1>e, <3>2 DEF handleAlertRemove
      <4>2. DOMAIN engine \ {n} \in SUBSET Names  BY <1>e
      <4> QED  BY <4>1, <4>2, IsBook
    <3> QED  BY <1>3, <3>1, <3>2
  <2> QED  BY <2>1, <2>2, <2>3 DEF Edited, AlertTypes
<1>4. ASSUME NEW p \in Savers, SaveLists(p) \/ SaveWrites(p) \/ SaveRenames(p) PROVE AlertTypes'
  <2>r. AtRest \in [at : Places, image : Books]  BY RestIs
  <2>1. [at |-> "write", image |-> engine] \in [at : Places, image : Books]  BY DEF AlertTypes, Places
  <2>2. [AtRest EXCEPT !.at = "rename"] \in [at : Places, image : Books]  BY <2>r DEF Places
  <2>3. saver' \in [Savers -> [at : Places, image : Books]]
    BY <1>4, <2>r, <2>1, <2>2 DEF AlertTypes, SaveLists, SaveWrites, SaveRenames
  <2>4. saver[p].image \in Books  BY DEF AlertTypes
  <2>5. CASE SaveLists(p)
    <3>1. raced' \in BOOLEAN  BY <2>5 DEF SaveLists
    <3> QED  BY <2>3, <2>5, <3>1 DEF SaveLists, AlertTypes
  <2>6. CASE SaveWrites(p)  BY <2>3, <2>4, <2>6 DEF SaveWrites, AlertTypes
  <2>7. CASE SaveRenames(p)
    <3>1. ruleFile' \in Books  BY <2>7 DEF SaveRenames, AlertTypes
    <3> QED  BY <2>3, <2>7, <3>1 DEF SaveRenames, AlertTypes
  <2> QED  BY <1>4, <2>5, <2>6, <2>7
<1>5. CASE Restarts
  <2>1. engine' \in Books  BY <1>5 DEF Restarts, Load, AlertTypes
  <2>2. \A n \in DOMAIN engine' : engine'[n].active \in Nat  BY <2>1, BookIs DEF RuleState
  <2>3. firstTrue' \in [Names -> Nat]  BY <1>5, <2>2 DEF Restarts
  <2>4. gen' \in [Names -> Nat]  BY <1>5 DEF Restarts, AlertTypes
  <2>5. saver' \in [Savers -> [at : Places, image : Books]]  BY <1>5, RestIs DEF Restarts
  <2> QED  BY <1>5, <2>1, <2>3, <2>4, <2>5 DEF Restarts, AlertTypes
<1>6. CASE UNCHANGED alertVars  BY <1>6 DEF alertVars, AlertTypes
<1> QED  BY <1>1, <1>2, <1>3, <1>4, <1>5, <1>6 DEF AlertNext

LEMMA AlertTypesInit == AlertInit => AlertTypes
<1> SUFFICES ASSUME AlertInit PROVE AlertTypes  OBVIOUS
<1>1. engine \in [Names -> RuleState]  BY DEF AlertInit, RuleState
<1>2. engine \in Books  BY <1>1, IsBook
<1>3. saver \in [Savers -> [at : Places, image : Books]]  BY RestIs DEF AlertInit
<1>4. sent \in Seq(Events)  BY DEF AlertInit
<1>5. firstTrue \in [Names -> Nat]  BY DEF AlertInit
<1> QED  BY <1>2, <1>3, <1>4, <1>5 DEF AlertInit, AlertTypes

-----------------------------------------------------------------------------
(* The file of rules.                                                      *)

(* Somebody has changed the engine, or may have, and has still to List it. *)
Owes(p) == saver[p].at \in {"dispatch", "list"}

(* A Save between its List and its Rename.                                 *)
Carries(p) == saver[p].at \in {"write", "rename"}

(* While no List overlapped another Save, one Save at most carries an image;
   when nobody owes one, that image is the engine's, and once nobody carries
   one either, so is the file's.                                           *)
SaveInv ==
    ~raced =>
      /\ \A p, q \in Savers : Carries(p) /\ Carries(q) => p = q
      /\ (\A p \in Savers : ~Owes(p)) =>
           /\ \A p \in Savers : saver[p].at = "write" => saver[p].image = engine
           /\ \A p \in Savers : saver[p].at = "rename" => ruleTmp = {engine}
           /\ (\A p \in Savers : ~Carries(p)) => ruleFile = engine

(* Evaluate changes no rule without firing an event about it.              *)
LEMMA SilentTick ==
    ASSUME AlertTypes, NEW v, Evaluate(v), Fired(v) = {} PROVE engine' = engine
<1>1. ASSUME NEW n \in DOMAIN engine PROVE Seen(n, v).rule = engine[n]
  <2>1. Seen(n, v).fires = {}  BY DEF Fired
  <2>2. LET s == Seen(n, v)
        IN  \/ Quiet(n, s) \/ Crossed(n, tick + 1, s) \/ Reminded(n, tick + 1, s)
            \/ Recovered(n, tick + 1, s)
    BY FourWays DEF Seen
  <2> QED  BY <2>1, <2>2, Zenon DEF Quiet, Crossed, Reminded, Recovered
<1>2. engine' = [n \in DOMAIN engine |-> Seen(n, v).rule]  BY Evaluated
<1>3. engine \in [DOMAIN engine -> RuleState]  BY BookIs DEF AlertTypes
<1> QED  BY <1>1, <1>2, <1>3

(* A step that leaves somebody owing a List, and lets nobody carry more.   *)
LEMMA OwedStep ==
    ASSUME SaveInv, raced' = raced, NEW p \in Savers, saver'[p].at \in {"dispatch", "list"},
           \A q \in Savers : saver'[q].at \in {"write", "rename"} => Carries(q)
    PROVE  SaveInv'
BY DEF SaveInv, Owes, Carries

LEMMA SaveStep == AlertTypes /\ SaveInv /\ [AlertNext]_alertVars => SaveInv'
<1> SUFFICES ASSUME AlertTypes, SaveInv, [AlertNext]_alertVars PROVE SaveInv'  OBVIOUS
<1>s. saver \in [Savers -> [at : Places, image : Books]] /\ raced \in BOOLEAN  BY DEF AlertTypes
<1>c. Collector \in Savers  BY DEF Savers
<1>1. ASSUME NEW v, Evaluate(v) PROVE SaveInv'
  <2>1. CASE Fired(v) = {}
    <3>1. engine' = engine /\ saver' = saver /\ UNCHANGED <<ruleFile, ruleTmp, raced>>
      BY <1>1, <2>1, SilentTick, Evaluated
    <3> QED  BY <3>1 DEF SaveInv, Owes, Carries
  <2>2. CASE Fired(v) # {}
    <3>1. saver' = [saver EXCEPT ![Collector].at = "dispatch"] /\ raced' = raced
      BY <1>1, <2>2, Evaluated
    <3>2. /\ saver'[Collector].at = "dispatch"
          /\ \A q \in Savers : q # Collector => saver'[q] = saver[q]
      BY <1>s, <1>c, <3>1
    <3> QED  BY <1>c, <3>1, <3>2, OwedStep DEF Carries
  <2> QED  BY <2>1, <2>2
<1>2. ASSUME NEW f \in fires, recordFires(f) PROVE SaveInv'
  <2>1. /\ saver'[Collector].at \in {"dispatch", "list"} /\ raced' = raced
        /\ \A q \in Savers : q # Collector => saver'[q] = saver[q]
    BY <1>s, <1>c, <1>2 DEF recordFires
  <2> QED  BY <1>c, <2>1, OwedStep DEF Carries
<1>3. ASSUME NEW h \in Editors, NEW n \in Names, handleAlertAdd(h, n) \/ handleAlertRemove(h, n)
      PROVE  SaveInv'
  <2>1. Edited(h, n) /\ h \in Savers  BY <1>3 DEF handleAlertAdd, handleAlertRemove, Savers
  <2>2. /\ saver'[h].at = "list" /\ raced' = raced
        /\ \A q \in Savers : q # h => saver'[q] = saver[q]
    BY <1>s, <2>1 DEF Edited
  <2> QED  BY <2>1, <2>2, OwedStep DEF Carries
<1>4. ASSUME NEW p \in Savers, SaveLists(p) PROVE SaveInv'
  <2>1. /\ saver' = [saver EXCEPT ![p] = [at |-> "write", image |-> engine]] /\ engine' = engine
        /\ raced' = \E q \in Savers \ {p} : Carries(q)
    BY <1>4 DEF SaveLists, Carries
  <2>2. /\ saver'[p] = [at |-> "write", image |-> engine]
        /\ \A q \in Savers : q # p => saver'[q] = saver[q]
    BY <1>s, <2>1
  <2>3. saver'[p].at = "write" /\ saver'[p].image = engine'  BY <2>1, <2>2
  <2>4. ~raced' => \A q \in Savers \ {p} : saver'[q].at \notin {"write", "rename"}
    BY <2>1, <2>2 DEF Carries
  <2> QED  BY <2>3, <2>4 DEF SaveInv, Carries
<1>5. ASSUME NEW p \in Savers, SaveWrites(p) PROVE SaveInv'
  <2>1. /\ saver[p].at = "write" /\ ruleTmp' = {saver[p].image} /\ engine' = engine
        /\ raced' = raced /\ ruleFile' = ruleFile
        /\ saver' = [saver EXCEPT ![p] = [AtRest EXCEPT !.at = "rename"]]
    BY <1>5 DEF SaveWrites
  <2>2. /\ saver'[p].at = "rename"
        /\ \A q \in Savers : q # p => saver'[q] = saver[q]
    BY <1>s, <2>1 DEF AtRest
  <2> QED  BY <2>1, <2>2 DEF SaveInv, Owes, Carries
<1>6. ASSUME NEW p \in Savers, SaveRenames(p) PROVE SaveInv'
  <2>1. /\ saver[p].at = "rename" /\ engine' = engine /\ raced' = raced
        /\ ruleTmp # {} => ruleFile' \in ruleTmp
        /\ saver' = [saver EXCEPT ![p] = AtRest]
    BY <1>6 DEF SaveRenames
  <2>2. /\ saver'[p].at = "idle"
        /\ \A q \in Savers : q # p => saver'[q] = saver[q]
    BY <1>s, <2>1 DEF AtRest
  <2>3. ~raced => \A q \in Savers : q # p => ~Carries(q)  BY <2>1 DEF SaveInv, Carries
  <2> QED  BY <2>1, <2>2, <2>3 DEF SaveInv, Owes, Carries
<1>7. CASE Restarts
  <2>1. /\ engine' = ruleFile' /\ \A p \in Savers : saver'[p].at = "idle"
    BY <1>7 DEF Restarts, Load, AtRest
  <2> QED  BY <2>1 DEF SaveInv, Owes, Carries
<1>8. CASE UNCHANGED alertVars  BY <1>8 DEF alertVars, SaveInv, Owes, Carries
<1> QED  BY <1>1, <1>2, <1>3, <1>4, <1>5, <1>6, <1>7, <1>8 DEF AlertNext

(* Once the collector and the handlers have finished, alert_rules.json is
   what the engine holds, whatever order their Saves took, as long as no two
   of them overlapped: nobody leaves a change behind without a List.       *)
THEOREM RestingFileIsEngine == AlertSpec => []SavedAtRest
<1>1. AlertInit => SaveInv  BY DEF AlertInit, SaveInv, Carries, AtRest
<1>2. SaveInv => SavedAtRest  BY DEF SaveInv, SavedAtRest, Owes, Carries
<1> QED  BY <1>1, <1>2, AlertTypesInit, AlertTypesStep, SaveStep, PTL DEF AlertSpec

-----------------------------------------------------------------------------
(* The events of a rule.                                                   *)

(* The i-th event sent is the last one about rule n in its g-th life.      *)
About(i, n, g) == sent[i].fire.rule = n /\ sent[i].fire.gen = g
Latest(i, n, g) ==
    About(i, n, g) /\ \A k \in 1..Len(sent) : k > i => ~About(k, n, g)

(* What EpisodesAlternate asks of two successive events.                   *)
Succeeds(prev, succ) ==
    IF prev.resolved
    THEN ~succ.resolved /\ succ.time = succ.episode
    ELSE /\ succ.episode = prev.episode
         /\ succ.resolved \/ /\ Def[prev.rule].renotify > 0
                             /\ succ.time - prev.time >= Def[prev.rule].renotify

(* The engine remembers the event: a recovery closed the episode, any other
   event is of the open episode and was the last notice of it.             *)
Matches(n, e) ==
    IF e.resolved THEN engine[n].active = 0
    ELSE engine[n].active # 0 /\ engine[n].active = e.episode /\ engine[n].last = e.time

(* No event is of a later life of its rule than the present one; the fires
   still to be dispatched are at most one a rule, each continues what was
   sent; and the engine remembers the latest event of the present life.    *)
FiresInv ==
    /\ saver[Collector].at # "dispatch" => fires = {}
    /\ \A f, g \in fires : f.rule = g.rule => f = g
    /\ \A f \in fires : f.gen <= gen[f.rule]
    /\ \A f \in fires : f.gen = gen[f.rule] /\ f.rule \in DOMAIN engine => Matches(f.rule, f)

SentInv ==
    /\ \A i \in 1..Len(sent) : sent[i].fire.gen <= gen[sent[i].fire.rule]
    /\ \A f \in fires, i \in 1..Len(sent) :
          Latest(i, f.rule, f.gen) => Succeeds(sent[i].fire, f)
    /\ \A n \in DOMAIN engine, i \in 1..Len(sent) :
          Latest(i, n, gen[n]) /\ (\A f \in fires : ~(f.rule = n /\ f.gen = gen[n]))
            => Matches(n, sent[i].fire)

EpisodeInv == FiresInv /\ SentInv /\ EpisodesAlternate

LEMMA SentIs ==
    ASSUME AlertTypes, NEW i \in 1..Len(sent)
    PROVE  sent[i].fire \in FireSet /\ sent[i].key = DedupKey(sent[i].fire) /\ sent[i].life \in Nat
<1>1. sent[i] \in Events  BY DEF AlertTypes
<1> QED  BY <1>1 DEF Events

(* Steps that send nothing and fire nothing: a rule is as it was, or begins
   a new life.                                                             *)
LEMMA ResetKeeps ==
    ASSUME AlertTypes, AlertTypes', EpisodeInv, sent' = sent, fires' \subseteq fires,
           saver'[Collector].at # "dispatch" => fires' = {},
           \A n \in Names :
             \/ gen'[n] > gen[n]
             \/ /\ gen'[n] = gen[n]
                /\ n \in DOMAIN engine' => n \in DOMAIN engine /\ engine'[n] = engine[n]
                /\ \A f \in fires : f.rule = n => f \in fires'
    PROVE  EpisodeInv'
<1>h. gen \in [Names -> Nat] /\ gen' \in [Names -> Nat]  BY DEF AlertTypes
<1>i. \A n \in Names : gen[n] \in Nat /\ gen'[n] \in Nat  BY <1>h
<1>g. \A n \in Names : gen[n] \in Nat /\ gen'[n] \in Nat /\ gen[n] <= gen'[n]
  <2> TAKE n \in Names
  <2>1. gen'[n] > gen[n] \/ gen'[n] = gen[n]  OBVIOUS
  <2> QED  BY <1>i, <2>1
<1>f. \A f \in fires : f.rule \in Names /\ f.gen \in Nat  BY DEF AlertTypes, FireSet
<1>s. \A i \in 1..Len(sent) : sent[i].fire.rule \in Names /\ sent[i].fire.gen \in Nat
  BY SentIs DEF FireSet
<1>e. DOMAIN engine' \subseteq Names  BY BookIs DEF AlertTypes
<1>1. FiresInv'
  <2>1. \A f \in fires' : f.gen <= gen'[f.rule]  BY <1>g, <1>f DEF EpisodeInv, FiresInv
  <2>2. ASSUME NEW f \in fires', f.gen = gen'[f.rule], f.rule \in DOMAIN engine'
        PROVE  Matches(f.rule, f)'
    <3>1. f.gen <= gen[f.rule]  BY DEF EpisodeInv, FiresInv
    <3>2. /\ gen'[f.rule] = gen[f.rule] /\ f.rule \in DOMAIN engine
          /\ engine'[f.rule] = engine[f.rule]
      BY <1>g, <1>f, <2>2, <3>1
    <3> QED  BY <2>2, <3>2 DEF EpisodeInv, FiresInv, Matches
  <2> QED  BY <2>1, <2>2 DEF EpisodeInv, FiresInv
<1>2. SentInv'
  <2>1. \A i \in 1..Len(sent') : sent'[i].fire.gen <= gen'[sent'[i].fire.rule]
    BY <1>g, <1>s DEF EpisodeInv, SentInv
  <2>2. \A f \in fires', i \in 1..Len(sent') :
          Latest(i, f.rule, f.gen)' => Succeeds(sent'[i].fire, f)
    BY DEF EpisodeInv, SentInv, Latest, About
  <2>3. ASSUME NEW n \in DOMAIN engine', NEW i \in 1..Len(sent'), Latest(i, n, gen[n])',
               \A f \in fires' : ~(f.rule = n /\ f.gen = gen'[n])
        PROVE  Matches(n, sent[i].fire)'
    <3>1. sent[i].fire.rule = n /\ sent[i].fire.gen = gen'[n] /\ n \in Names
      BY <1>e, <2>3 DEF Latest, About
    <3>2. sent[i].fire.gen <= gen[n]  BY <3>1 DEF EpisodeInv, SentInv
    <3>3. /\ gen'[n] = gen[n] /\ n \in DOMAIN engine /\ engine'[n] = engine[n]
          /\ \A f \in fires : f.rule = n => f \in fires'
      BY <1>g, <1>s, <3>1, <3>2
    <3>4. Latest(i, n, gen[n])  BY <2>3, <3>3 DEF Latest, About
    <3>5. \A f \in fires : ~(f.rule = n /\ f.gen = gen[n])  BY <2>3, <3>3
    <3>6. Matches(n, sent[i].fire)  BY <3>3, <3>4, <3>5 DEF EpisodeInv, SentInv
    <3> QED  BY <3>3, <3>6 DEF Matches
  <2> QED  BY <2>1, <2>2, <2>3 DEF SentInv
<1>3. EpisodesAlternate'  BY DEF EpisodeInv, EpisodesAlternate, Successor
<1> QED  BY <1>1, <1>2, <1>3 DEF EpisodeInv

(* A tick: each rule fires at most once, an event that continues the latest
   one the engine remembers.                                               *)
LEMMA TickKeeps ==
    ASSUME AlertTypes, AlertTypes', EpisodeInv, NEW v, Evaluate(v)
    PROVE  EpisodeInv'
<1> DEFINE now == tick + 1
<1>u. /\ saver[Collector].at = "idle" /\ sent' = sent /\ gen' = gen /\ fires' = Fired(v)
      /\ engine' = [n \in DOMAIN engine |-> Seen(n, v).rule]
      /\ saver' = IF Fired(v) # {} THEN [saver EXCEPT ![Collector].at = "dispatch"] ELSE saver
  BY Evaluated
<1>z. fires = {}  BY <1>u DEF EpisodeInv, FiresInv
<1>t. now \in Nat /\ now # 0  BY DEF AlertTypes
<1>e. DOMAIN engine \subseteq Names /\ \A n \in DOMAIN engine : engine[n] \in RuleState
  BY BookIs DEF AlertTypes
<1>c. saver'[Collector].at # "dispatch" => fires' = {}
  <2>1. saver \in [Savers -> [at : Places, image : Books]] /\ Collector \in Savers
    BY DEF AlertTypes, Savers
  <2> QED  BY <1>u, <2>1
<1> HIDE DEF now
<1>1. ASSUME NEW n \in DOMAIN engine, NEW f \in Seen(n, v).fires
      PROVE  /\ f.rule = n /\ f.gen = gen[n] /\ Seen(n, v).fires = {f}
             /\ Matches(n, f)'
             /\ \A e \in FireSet : e.rule = n /\ Matches(n, e) => Succeeds(e, f)
  <2> DEFINE s == Seen(n, v)
  <2>1. engine'[n] = s.rule /\ engine[n] \in RuleState  BY <1>u, <1>e
  <2>2. Quiet(n, s) \/ Crossed(n, now, s) \/ Reminded(n, now, s) \/ Recovered(n, now, s)
    BY FourWays DEF Seen, now
  <2>3. f \in s.fires  OBVIOUS
  <2> SUFFICES /\ f.rule = n /\ f.gen = gen[n] /\ s.fires = {f} /\ Matches(n, f)'
               /\ \A e \in FireSet : e.rule = n /\ Matches(n, e) => Succeeds(e, f)
    OBVIOUS
  <2> HIDE DEF s
  <2>4. ~Quiet(n, s)  BY <2>3 DEF Quiet
  <2>5. CASE Crossed(n, now, s)
    <3>1. f = Fire(n, now, now, FALSE) /\ s.fires = {f}  BY <2>3, <2>5, Zenon DEF Crossed
    <3>2. engine[n].active = 0 /\ engine'[n] = [active |-> now, last |-> now]
      BY <2>1, <2>5, Zenon DEF Crossed
    <3>3. /\ f.rule = n /\ f.gen = gen[n] /\ f.time = now /\ f.episode = now /\ f.resolved = FALSE
      BY <3>1 DEF Fire
    <3>4. Matches(n, f)'  BY <1>t, <3>2, <3>3 DEF Matches
    <3>5. \A e \in FireSet : Matches(n, e) => e.resolved  BY <3>2 DEF Matches
    <3> QED  BY <3>1, <3>3, <3>4, <3>5 DEF Succeeds
  <2>6. CASE Reminded(n, now, s)
    <3>1. f = Fire(n, now, engine[n].active, FALSE) /\ s.fires = {f}
      BY <2>3, <2>6, Zenon DEF Reminded
    <3>2. /\ engine[n].active # 0 /\ engine'[n] = [engine[n] EXCEPT !.last = now]
          /\ Def[n].renotify > 0 /\ now - engine[n].last >= Def[n].renotify
      BY <2>1, <2>6, Zenon DEF Reminded
    <3>3. /\ f.rule = n /\ f.gen = gen[n] /\ f.time = now /\ f.episode = engine[n].active
          /\ f.resolved = FALSE
      BY <3>1 DEF Fire
    <3>4. engine'[n].active = engine[n].active /\ engine'[n].last = now
      BY <2>1, <3>2 DEF RuleState
    <3>5. Matches(n, f)'  BY <3>2, <3>3, <3>4 DEF Matches
    <3>6. \A e \in FireSet : Matches(n, e) =>
             ~e.resolved /\ e.episode = engine[n].active /\ e.time = engine[n].last
      BY <3>2 DEF Matches, FireSet
    <3> QED  BY <3>1, <3>2, <3>3, <3>5, <3>6 DEF Succeeds
  <2>7. CASE Recovered(n, now, s)
    <3>1. f = Fire(n, now, engine[n].active, TRUE) /\ s.fires = {f}
      BY <2>3, <2>7, Zenon DEF Recovered
    <3>2. engine[n].active # 0 /\ engine'[n] = [engine[n] EXCEPT !.active = 0]
      BY <2>1, <2>7, Zenon DEF Recovered
    <3>3. f.rule = n /\ f.gen = gen[n] /\ f.episode = engine[n].active /\ f.resolved = TRUE
      BY <3>1 DEF Fire
    <3>4. engine'[n].active = 0  BY <2>1, <3>2 DEF RuleState
    <3>5. Matches(n, f)'  BY <3>3, <3>4 DEF Matches
    <3>6. \A e \in FireSet : Matches(n, e) => ~e.resolved /\ e.episode = engine[n].active
      BY <3>2 DEF Matches, FireSet
    <3> QED  BY <3>1, <3>3, <3>5, <3>6 DEF Succeeds
  <2> QED  BY <2>2, <2>4, <2>5, <2>6, <2>7
<1>2. ASSUME NEW f \in fires' PROVE f.rule \in DOMAIN engine /\ f \in Seen(f.rule, v).fires
  <2>1. PICK n \in DOMAIN engine : f \in Seen(n, v).fires  BY <1>u DEF Fired
  <2>2. f.rule = n  BY <1>1, <2>1
  <2> QED  BY <2>1, <2>2
<1>3. FiresInv'
  <2>1. \A f, g \in fires' : f.rule = g.rule => f = g  BY <1>1, <1>2
  <2>2. \A f \in fires' : f.gen <= gen'[f.rule]
    <3>1. gen \in [Names -> Nat]  BY DEF AlertTypes
    <3>2. \A f \in fires' : f.gen = gen[f.rule] /\ f.rule \in Names  BY <1>1, <1>2, <1>e
    <3> QED  BY <1>u, <3>1, <3>2
  <2>3. \A f \in fires' : Matches(f.rule, f)'  BY <1>1, <1>2
  <2> QED  BY <1>c, <2>1, <2>2, <2>3 DEF FiresInv
<1>4. SentInv'
  <2>1. \A i \in 1..Len(sent') : sent'[i].fire.gen <= gen'[sent'[i].fire.rule]
    BY <1>u DEF EpisodeInv, SentInv
  <2>2. \A n \in DOMAIN engine, i \in 1..Len(sent) : Latest(i, n, gen[n]) => Matches(n, sent[i].fire)
    BY <1>z DEF EpisodeInv, SentInv
  <2>3. ASSUME NEW f \in fires', NEW i \in 1..Len(sent'), Latest(i, f.rule, f.gen)'
        PROVE  Succeeds(sent'[i].fire, f)
    <3>1. f.rule \in DOMAIN engine /\ f \in Seen(f.rule, v).fires  BY <1>2
    <3>2. f.gen = gen[f.rule]  BY <1>1, <3>1
    <3>3. Latest(i, f.rule, gen[f.rule])  BY <1>u, <2>3, <3>2 DEF Latest, About
    <3>4. sent[i].fire.rule = f.rule  BY <3>3 DEF Latest, About
    <3>5. sent[i].fire \in FireSet  BY <1>u, SentIs
    <3>6. Matches(f.rule, sent[i].fire)  BY <1>u, <2>2, <3>1, <3>3
    <3>7. \A e \in FireSet : e.rule = f.rule /\ Matches(f.rule, e) => Succeeds(e, f)
      BY <1>1, <3>1
    <3>8. Succeeds(sent[i].fire, f)  BY <3>4, <3>5, <3>6, <3>7
    <3> QED  BY <1>u, <3>8
  <2>4. ASSUME NEW n \in DOMAIN engine', NEW i \in 1..Len(sent'), Latest(i, n, gen[n])',
               \A f \in fires' : ~(f.rule = n /\ f.gen = gen'[n])
        PROVE  Matches(n, sent[i].fire)'
    <3>1. n \in DOMAIN engine  BY <1>u
    <3>2. Seen(n, v).fires = {}
      <4>1. \A f \in Seen(n, v).fires : f \in fires' /\ f.rule = n /\ f.gen = gen[n]
        BY <1>1, <1>u, <3>1 DEF Fired
      <4> QED  BY <1>u, <2>4, <4>1
    <3>3. engine'[n] = engine[n]
      <4>1. LET s == Seen(n, v)
            IN  Quiet(n, s) \/ Crossed(n, now, s) \/ Reminded(n, now, s) \/ Recovered(n, now, s)
        BY FourWays DEF Seen, now
      <4>2. Seen(n, v).rule = engine[n]
        BY <3>2, <4>1, Zenon DEF Quiet, Crossed, Reminded, Recovered
      <4> QED  BY <1>u, <3>1, <4>2
    <3>4. Latest(i, n, gen[n])  BY <1>u, <2>4 DEF Latest, About
    <3>5. Matches(n, sent[i].fire)  BY <1>u, <2>2, <3>1, <3>4
    <3> QED  BY <1>u, <3>3, <3>5 DEF Matches
  <2> QED  BY <2>1, <2>3, <2>4 DEF SentInv
<1>5. EpisodesAlternate'  BY <1>u DEF EpisodeInv, EpisodesAlternate, Successor
<1> QED  BY <1>3, <1>4, <1>5 DEF EpisodeInv

(* recordFires: the event joins those sent.                                *)
LEMMA DispatchKeeps ==
    ASSUME AlertTypes, EpisodeInv, NEW f \in fires, recordFires(f)
    PROVE  EpisodeInv'
<1> DEFINE new == [fire |-> f, key |-> DedupKey(f), life |-> life]
<1>s. sent \in Seq(Events) /\ Len(sent) \in Nat  BY DEF AlertTypes
<1>n. PICK N \in Nat : N = Len(sent) + 1  BY <1>s
<1>u. /\ saver[Collector].at = "dispatch" /\ fires' = fires \ {f} /\ sent' = Append(sent, new)
      /\ saver' = IF fires' = {} THEN [saver EXCEPT ![Collector].at = "list"] ELSE saver
      /\ engine' = engine /\ gen' = gen
  BY DEF recordFires
<1>1. Len(sent') = N /\ sent'[N] = new /\ \A i \in 1..Len(sent) : sent'[i] = sent[i]
  BY <1>n, <1>s, <1>u
<1>2. sent'[N].fire = f  BY <1>1
<1> HIDE DEF new
<1>3. \A i \in 1..Len(sent') : i = N \/ (i \in 1..Len(sent) /\ i < N)  BY <1>n, <1>s, <1>1
<1>4. \A i \in 1..Len(sent) : i \in 1..Len(sent') /\ i < N  BY <1>n, <1>s, <1>1
<1>5. N \in 1..Len(sent')  BY <1>n, <1>s, <1>1
<1>6. \A i \in 1..Len(sent) : \A n, g : About(i, n, g)' <=> About(i, n, g)  BY <1>1 DEF About
<1>7. \A n, g : About(N, n, g)' <=> f.rule = n /\ f.gen = g  BY <1>2 DEF About
<1>8. ASSUME NEW i \in 1..Len(sent'), NEW n, NEW g, Latest(i, n, g)', ~(f.rule = n /\ f.gen = g)
      PROVE  i \in 1..Len(sent) /\ Latest(i, n, g)
  <2>1. i \in 1..Len(sent)  BY <1>3, <1>7, <1>8 DEF Latest
  <2> QED  BY <1>4, <1>6, <1>8, <2>1 DEF Latest
<1>f. \A a, b \in fires : a.rule = b.rule => a = b  BY DEF EpisodeInv, FiresInv
<1>9. FiresInv'
  <2>1. saver'[Collector].at # "dispatch" => fires' = {}  BY <1>u
  <2>2. \A a, b \in fires' : a.rule = b.rule => a = b  BY <1>f, <1>u
  <2>3. \A a \in fires' : a.gen <= gen'[a.rule]  BY <1>u DEF EpisodeInv, FiresInv
  <2>4. \A a \in fires' : a.gen = gen'[a.rule] /\ a.rule \in DOMAIN engine' => Matches(a.rule, a)'
    BY <1>u DEF EpisodeInv, FiresInv, Matches
  <2> QED  BY <2>1, <2>2, <2>3, <2>4 DEF FiresInv
<1>10. SentInv'
  <2>1. \A i \in 1..Len(sent') : sent'[i].fire.gen <= gen'[sent'[i].fire.rule]
    BY <1>1, <1>2, <1>3, <1>u DEF EpisodeInv, FiresInv, SentInv
  <2>2. ASSUME NEW a \in fires', NEW i \in 1..Len(sent'), Latest(i, a.rule, a.gen)'
        PROVE  Succeeds(sent'[i].fire, a)
    <3>1. a \in fires /\ a.rule # f.rule  BY <1>f, <1>u
    <3>2. i \in 1..Len(sent) /\ Latest(i, a.rule, a.gen)  BY <1>8, <2>2, <3>1
    <3>3. Succeeds(sent[i].fire, a)  BY <3>1, <3>2 DEF EpisodeInv, SentInv
    <3> QED  BY <1>1, <3>2, <3>3
  <2>3. ASSUME NEW n \in DOMAIN engine', NEW i \in 1..Len(sent'), Latest(i, n, gen[n])',
               \A a \in fires' : ~(a.rule = n /\ a.gen = gen'[n])
        PROVE  Matches(n, sent[i].fire)'
    <3>0. PICK g : g = gen[n]  OBVIOUS
    <3>1. Latest(i, n, g)'  BY <1>u, <2>3, <3>0 DEF Latest, About
    <3>2. CASE f.rule = n /\ f.gen = gen[n]
      <4>1. i = N  BY <1>3, <1>5, <1>7, <3>0, <3>1, <3>2 DEF Latest
      <4>2. Matches(n, f)  BY <1>u, <3>2 DEF EpisodeInv, FiresInv
      <4> QED  BY <1>2, <1>u, <4>1, <4>2 DEF Matches
    <3>3. CASE ~(f.rule = n /\ f.gen = gen[n])
      <4>1. i \in 1..Len(sent) /\ Latest(i, n, gen[n])  BY <1>8, <3>0, <3>1, <3>3
      <4>2. \A a \in fires : ~(a.rule = n /\ a.gen = gen[n])  BY <1>u, <2>3, <3>3
      <4>3. Matches(n, sent[i].fire)  BY <1>u, <4>1, <4>2 DEF EpisodeInv, SentInv
      <4>4. sent'[i] = sent[i]  BY <1>1, <4>1
      <4> QED  BY <1>u, <4>3, <4>4 DEF Matches
    <3> QED  BY <3>2, <3>3
  <2> QED  BY <2>1, <2>2, <2>3 DEF SentInv
<1>11. EpisodesAlternate'
  <2> SUFFICES ASSUME NEW i \in 1..Len(sent'), NEW j \in 1..Len(sent'), Successor(i, j)'
               PROVE  Succeeds(sent'[i].fire, sent'[j].fire)
    BY DEF EpisodesAlternate, Succeeds
  <2>1. i < j  BY DEF Successor
  <2>2. i \in 1..Len(sent)  BY <1>n, <1>3, <2>1, <1>s
  <2>3. CASE j \in 1..Len(sent)
    <3>1. sent'[i] = sent[i] /\ sent'[j] = sent[j]  BY <1>1, <2>2, <2>3
    <3>2. \A k \in (i + 1)..(j - 1) : k \in 1..Len(sent)  BY <1>s, <2>2, <2>3
    <3>3. Successor(i, j)  BY <1>1, <3>1, <3>2 DEF Successor
    <3>4. Succeeds(sent[i].fire, sent[j].fire)
      BY <2>2, <2>3, <3>3 DEF EpisodeInv, EpisodesAlternate, Succeeds
    <3> QED  BY <3>1, <3>4
  <2>4. CASE j = N
    <3>1. sent'[i] = sent[i] /\ sent'[j].fire = f  BY <1>1, <1>2, <2>2, <2>4
    <3>2. \A k \in 1..Len(sent) : k > i => k \in (i + 1)..(j - 1)  BY <1>s, <2>2, <2>4, <1>n
    <3>3. sent[i].fire.rule = f.rule /\ sent[i].fire.gen = f.gen  BY <3>1 DEF Successor
    <3>4. ASSUME NEW k \in 1..Len(sent), k > i PROVE ~About(k, f.rule, f.gen)
      <4>1. k \in (i + 1)..(j - 1) /\ sent'[k] = sent[k]  BY <1>1, <3>2, <3>4
      <4>2. sent'[k].fire.rule # sent'[i].fire.rule \/ sent'[k].fire.gen # sent'[i].fire.gen
        BY <4>1 DEF Successor
      <4> QED  BY <3>1, <3>3, <4>1, <4>2 DEF About
    <3>5. Latest(i, f.rule, f.gen)  BY <3>3, <3>4 DEF Latest, About
    <3>6. Succeeds(sent[i].fire, f)  BY <2>2, <3>5 DEF EpisodeInv, SentInv
    <3> QED  BY <3>1, <3>6
  <2> QED  BY <1>3, <2>3, <2>4
<1> QED  BY <1>9, <1>10, <1>11 DEF EpisodeInv

LEMMA EpisodeStep == AlertTypes /\ EpisodeInv /\ [AlertNext]_alertVars => EpisodeInv'
<1> SUFFICES ASSUME AlertTypes, EpisodeInv, [AlertNext]_alertVars PROVE EpisodeInv'  OBVIOUS
<1>t. AlertTypes'  BY AlertTypesStep
<1>s. saver \in [Savers -> [at : Places, image : Books]]  BY DEF AlertTypes
<1>g. gen \in [Names -> Nat]  BY DEF AlertTypes
<1>c. saver[Collector].at # "dispatch" => fires = {}  BY DEF EpisodeInv, FiresInv
<1>k. Collector \in Savers /\ \A h \in Editors : h # Collector /\ h \in Savers
  BY AlertAssumption DEF Savers, Collector
<1>1. ASSUME NEW v, Evaluate(v) PROVE EpisodeInv'  BY <1>t, <1>1, TickKeeps
<1>2. ASSUME NEW f \in fires, recordFires(f) PROVE EpisodeInv'  BY <1>2, DispatchKeeps
<1>3. ASSUME NEW h \in Editors, NEW n \in Names, handleAlertAdd(h, n) \/ handleAlertRemove(h, n)
      PROVE  EpisodeInv'
  <2>1. Edited(h, n)  BY <1>3 DEF handleAlertAdd, handleAlertRemove
  <2>2. sent' = sent /\ fires' = fires /\ saver'[Collector] = saver[Collector]
    BY <1>s, <1>k, <2>1 DEF Edited
  <2>3. gen'[n] > gen[n] /\ \A m \in Names \ {n} : gen'[m] = gen[m]
    BY <1>g, <2>1 DEF Edited
  <2>4. \A m \in DOMAIN engine' : m # n => m \in DOMAIN engine /\ engine'[m] = engine[m]
    BY <1>3 DEF handleAlertAdd, handleAlertRemove
  <2> QED  BY <1>t, <1>c, <2>2, <2>3, <2>4, ResetKeeps
<1>4. ASSUME NEW p \in Savers, SaveLists(p) \/ SaveWrites(p) \/ SaveRenames(p) PROVE EpisodeInv'
  <2>1. sent' = sent /\ fires' = fires /\ gen' = gen /\ engine' = engine
    BY <1>4 DEF SaveLists, SaveWrites, SaveRenames
  <2>2. saver[p].at # "dispatch" /\ \A q \in Savers : q # p => saver'[q] = saver[q]
    BY <1>4, <1>s DEF SaveLists, SaveWrites, SaveRenames
  <2>3. saver'[Collector].at # "dispatch" => fires' = {}  BY <1>c, <1>k, <2>1, <2>2
  <2> QED  BY <1>t, <2>1, <2>3, ResetKeeps
<1>5. CASE Restarts
  <2>1. /\ sent' = sent /\ fires' = {} /\ engine' = ruleFile
        /\ gen' = [n \in Names |-> IF Kept(n) THEN gen[n] ELSE gen[n] + 1]
    BY <1>5 DEF Restarts, Load
  <2>2. ASSUME NEW n \in Names
        PROVE  \/ gen'[n] > gen[n]
               \/ /\ gen'[n] = gen[n]
                  /\ n \in DOMAIN engine' => n \in DOMAIN engine /\ engine'[n] = engine[n]
                  /\ \A f \in fires : f.rule = n => f \in fires'
    <3>1. CASE Kept(n)  BY <2>1, <3>1 DEF Kept
    <3>2. CASE ~Kept(n)
      <4>1. gen[n] \in Nat  BY <1>g
      <4> QED  BY <2>1, <3>2, <4>1
    <3> QED  BY <3>1, <3>2
  <2> QED  BY <1>t, <2>1, <2>2, ResetKeeps
<1>6. CASE UNCHANGED alertVars
  <2>1. /\ sent' = sent /\ fires' = fires /\ gen' = gen /\ engine' = engine /\ saver' = saver
    BY <1>6 DEF alertVars
  <2> QED  BY <1>t, <1>c, <2>1, ResetKeeps
<1> QED  BY <1>1, <1>2, <1>3, <1>4, <1>5, <1>6 DEF AlertNext

(* For every rule, margin and renotify interval, and whatever the metric
   reads: between two resets of a rule its events alternate, one crossing,
   reminders no closer than asked, one recovery of that same episode; and a
   restart that finds the rule's episode in the file is no reset.          *)
THEOREM RulesAlternate == AlertSpec => []EpisodesAlternate
<1>1. AlertInit => EpisodeInv
  <2> SUFFICES ASSUME AlertInit PROVE EpisodeInv  OBVIOUS
  <2>1. Len(sent) = 0 /\ fires = {}  BY DEF AlertInit
  <2> QED  BY <2>1 DEF EpisodeInv, FiresInv, SentInv, EpisodesAlternate
<1>2. EpisodeInv => EpisodesAlternate  BY DEF EpisodeInv
<1> QED  BY <1>1, <1>2, AlertTypesInit, AlertTypesStep, EpisodeStep, PTL DEF AlertSpec

-----------------------------------------------------------------------------
(* The dedup keys.                                                         *)

(* Two events with one key are about one rule, and are the recovery of one
   episode or notices of one tick.                                         *)
LEMMA KeysTell ==
    ASSUME NEW f \in FireSet, NEW g \in FireSet, DedupKey(f) = DedupKey(g)
    PROVE  /\ f.rule = g.rule /\ f.resolved = g.resolved
           /\ f.resolved => f.episode = g.episode
           /\ ~f.resolved => f.time = g.time
<1>0. \A a, b, c, d, e, h, i : /\ <<a, b, c>> # <<d, e, h, i>>
                               /\ <<a, b, c>> = <<d, e, h>> => a = d /\ b = e /\ c = h
  OBVIOUS
<1>1. \A a, b, c, d, e, h, i, j : <<a, b, c, d>> = <<e, h, i, j>> => a = e /\ b = h /\ c = i /\ d = j
  OBVIOUS
<1>2. "metric" # "metric-res"  OBVIOUS
<1>3. f.episode # 0 /\ g.episode # 0 /\ f.resolved \in BOOLEAN /\ g.resolved \in BOOLEAN
  BY DEF FireSet
<1>4. \A e \in {f, g} :
        \/ e.resolved /\ DedupKey(e) = <<"metric-res", e.rule, e.episode>>
        \/ ~e.resolved /\ e.time # e.episode /\ DedupKey(e) = <<"metric", e.rule, e.episode, e.time>>
        \/ ~e.resolved /\ e.time = e.episode /\ DedupKey(e) = <<"metric", e.rule, e.episode>>
  BY <1>3 DEF DedupKey
<1>5. f.resolved = g.resolved  BY <1>0, <1>2, <1>3, <1>4
<1>6. CASE f.resolved  BY <1>0, <1>4, <1>5, <1>6
<1>7. CASE ~f.resolved
  <2>1. f.time = f.episode <=> g.time = g.episode  BY <1>0, <1>4, <1>5, <1>7
  <2>2. CASE f.time = f.episode  BY <1>0, <1>4, <1>5, <1>7, <2>1, <2>2
  <2>3. CASE f.time # f.episode  BY <1>1, <1>4, <1>5, <1>7, <2>1, <2>3
  <2> QED  BY <2>2, <2>3
<1> QED  BY <1>5, <1>6, <1>7

(* Nothing is later than the present: episodes, wherever they are kept, and
   events; what a tick fired is dispatched before the next tick.           *)
UpTo(b, t) == \A n \in DOMAIN b : b[n].active <= t

PastInv ==
    /\ UpTo(engine, tick) /\ UpTo(ruleFile, tick)
    /\ \A b \in ruleTmp : UpTo(b, tick)
    /\ \A p \in Savers : UpTo(saver[p].image, tick)
    /\ \A f \in fires : f.time = tick /\ f.episode <= tick
    /\ \A i \in 1..Len(sent) :
         sent[i].fire.time <= tick /\ sent[i].fire.episode <= tick /\ sent[i].life <= life

(* A rule has one event a tick.                                            *)
TickInv ==
    /\ \A f \in fires, i \in 1..Len(sent) :
         sent[i].fire.rule = f.rule => sent[i].fire.time # f.time
    /\ \A i, j \in 1..Len(sent) :
         sent[i].fire.rule = sent[j].fire.rule /\ sent[i].fire.time = sent[j].fire.time => i = j

(* The end of episode e of rule n was dispatched by this run of the panel. *)
Closed(n, e, l) ==
    \E i \in 1..Len(sent) : /\ sent[i].life = l /\ sent[i].fire.resolved
                            /\ sent[i].fire.rule = n /\ sent[i].fire.episode = e

(* An episode is over once: the engine never holds one again that ended.   *)
ClosedInv ==
    /\ \A n \in DOMAIN engine : ~Closed(n, engine[n].active, life)
    /\ \A f \in fires : f.resolved =>
         /\ ~Closed(f.rule, f.episode, life)
         /\ f.rule \in DOMAIN engine => engine[f.rule].active # f.episode
    /\ \A i, j \in 1..Len(sent) :
         /\ sent[i].life = sent[j].life /\ sent[i].fire.resolved /\ sent[j].fire.resolved
         /\ sent[i].fire.rule = sent[j].fire.rule /\ sent[i].fire.episode = sent[j].fire.episode
         => i = j

KeyInv == PastInv /\ TickInv /\ ClosedInv

LEMMA KeysDiffer == AlertTypes /\ KeyInv => NeverSwallowed
<1> SUFFICES ASSUME AlertTypes, KeyInv, NEW i \in 1..Len(sent), NEW j \in 1..Len(sent),
                    i < j, sent[i].life = sent[j].life, sent[i].key = sent[j].key
             PROVE  FALSE
  BY DEF NeverSwallowed
<1>1. /\ sent[i].fire \in FireSet /\ sent[j].fire \in FireSet
      /\ DedupKey(sent[i].fire) = DedupKey(sent[j].fire)
  BY SentIs
<1>2. /\ sent[i].fire.rule = sent[j].fire.rule /\ sent[i].fire.resolved = sent[j].fire.resolved
      /\ sent[i].fire.resolved => sent[i].fire.episode = sent[j].fire.episode
      /\ ~sent[i].fire.resolved => sent[i].fire.time = sent[j].fire.time
  BY <1>1, KeysTell
<1>3. i = j  BY <1>2 DEF KeyInv, TickInv, ClosedInv
<1> QED  BY <1>3

LEMMA UpToLater ==
    ASSUME NEW b \in Books, NEW s \in Nat, NEW t \in Nat, s <= t, UpTo(b, s) PROVE UpTo(b, t)
<1>1. \A n \in DOMAIN b : b[n].active \in Nat  BY BookIs DEF RuleState
<1> QED  BY <1>1 DEF UpTo

(* Steps of the present tick and life that send nothing.                   *)
LEMMA StillKeeps ==
    ASSUME AlertTypes, KeyInv, sent' = sent, fires' \subseteq fires, tick' = tick, life' = life,
           \A n \in DOMAIN engine' : \/ engine'[n].active = 0
                                     \/ n \in DOMAIN engine /\ engine'[n] = engine[n]
    PROVE  TickInv' /\ ClosedInv'
<1>2. \A n, e : Closed(n, e, life)' <=> Closed(n, e, life)  BY DEF Closed
<1>3. \A n : ~Closed(n, 0, life)  BY SentIs DEF Closed, FireSet
<1>4. TickInv'  BY DEF KeyInv, TickInv
<1>5. ASSUME NEW n \in DOMAIN engine' PROVE ~Closed(n, engine[n].active, life)'
  <2>1. CASE engine'[n].active = 0
    <3>1. ~Closed(n, 0, life)'  BY <1>2, <1>3
    <3> QED  BY <2>1, <3>1 DEF Closed
  <2>2. CASE n \in DOMAIN engine /\ engine'[n] = engine[n]
    <3>1. ~Closed(n, engine[n].active, life)  BY <2>2 DEF KeyInv, ClosedInv
    <3> QED  BY <2>2, <3>1 DEF Closed
  <2> QED  BY <2>1, <2>2
<1>6. ASSUME NEW f \in fires', f.resolved
      PROVE  /\ ~Closed(f.rule, f.episode, life)'
             /\ f.rule \in DOMAIN engine' => engine'[f.rule].active # f.episode
  <2>1. /\ ~Closed(f.rule, f.episode, life)
        /\ f.rule \in DOMAIN engine => engine[f.rule].active # f.episode
    BY <1>6 DEF KeyInv, ClosedInv
  <2>2. f.episode # 0  BY DEF AlertTypes, FireSet
  <2> QED  BY <1>2, <2>1, <2>2
<1> QED  BY <1>4, <1>5, <1>6 DEF KeyInv, ClosedInv

LEMMA TickKeys ==
    ASSUME AlertTypes, AlertTypes', FiresInv, KeyInv, NEW v, Evaluate(v)
    PROVE  KeyInv'
<1>0. PICK now \in Nat : now = tick + 1  BY DEF AlertTypes
<1>u. /\ saver[Collector].at = "idle" /\ sent' = sent /\ fires' = Fired(v) /\ tick' = now
      /\ life' = life /\ ruleFile' = ruleFile /\ ruleTmp' = ruleTmp
      /\ engine' = [n \in DOMAIN engine |-> Seen(n, v).rule]
      /\ saver' = IF Fired(v) # {} THEN [saver EXCEPT ![Collector].at = "dispatch"] ELSE saver
  BY <1>0, Evaluated
<1>t. tick \in Nat /\ tick <= now /\ now # 0 /\ tick < now  BY <1>0 DEF AlertTypes
<1>e. \A n \in DOMAIN engine : engine[n].active \in Nat /\ engine[n].active <= tick
  BY BookIs DEF AlertTypes, RuleState, KeyInv, PastInv, UpTo
<1>s. \A i \in 1..Len(sent) :
        /\ sent[i].fire.time \in Nat /\ sent[i].fire.episode \in Nat /\ sent[i].fire.episode # 0
        /\ sent[i].fire.time <= tick /\ sent[i].fire.episode <= tick
  BY SentIs DEF FireSet, KeyInv, PastInv
<1>1. ASSUME NEW n \in DOMAIN engine
      PROVE  /\ engine'[n].active \in {engine[n].active, 0, now}
             /\ \A f \in Seen(n, v).fires :
                  /\ f.rule = n /\ f.time = now /\ f.episode \in {engine[n].active, now}
                  /\ f.resolved => f.episode = engine[n].active /\ f.episode # 0 /\ engine'[n].active = 0
  <2> DEFINE s == Seen(n, v)
  <2>1. engine'[n] = s.rule /\ engine[n] \in RuleState  BY <1>u, BookIs DEF AlertTypes
  <2>2. Quiet(n, s) \/ Crossed(n, now, s) \/ Reminded(n, now, s) \/ Recovered(n, now, s)
    BY <1>0, FourWays DEF Seen
  <2> SUFFICES /\ engine'[n].active \in {engine[n].active, 0, now}
               /\ \A f \in s.fires :
                    /\ f.rule = n /\ f.time = now /\ f.episode \in {engine[n].active, now}
                    /\ f.resolved => f.episode = engine[n].active /\ f.episode # 0 /\ engine'[n].active = 0
    OBVIOUS
  <2> HIDE DEF s
  <2>3. CASE Quiet(n, s)  BY <2>1, <2>3 DEF Quiet
  <2>4. CASE Crossed(n, now, s)
    <3>1. s.fires = {Fire(n, now, now, FALSE)} /\ s.rule = [active |-> now, last |-> now]
      BY <2>4, Zenon DEF Crossed
    <3> QED  BY <2>1, <3>1 DEF Fire
  <2>5. CASE Reminded(n, now, s)
    <3>1. /\ s.fires = {Fire(n, now, engine[n].active, FALSE)}
          /\ s.rule = [engine[n] EXCEPT !.last = now]
      BY <2>5, Zenon DEF Reminded
    <3>2. s.rule.active = engine[n].active  BY <2>1, <3>1 DEF RuleState
    <3> QED  BY <2>1, <3>1, <3>2 DEF Fire
  <2>6. CASE Recovered(n, now, s)
    <3>1. /\ s.fires = {Fire(n, now, engine[n].active, TRUE)} /\ engine[n].active # 0
          /\ s.rule = [engine[n] EXCEPT !.active = 0]
      BY <2>6, Zenon DEF Recovered
    <3>2. s.rule.active = 0  BY <2>1, <3>1 DEF RuleState
    <3> QED  BY <2>1, <3>1, <3>2 DEF Fire
  <2> QED  BY <2>2, <2>3, <2>4, <2>5, <2>6
<1>2. ASSUME NEW f \in fires'
      PROVE  /\ f.rule \in DOMAIN engine /\ f.time = now
             /\ f.episode \in {engine[f.rule].active, now}
             /\ f.resolved => /\ f.episode = engine[f.rule].active /\ f.episode # 0
                              /\ engine'[f.rule].active = 0
  <2>1. PICK n \in DOMAIN engine : f \in Seen(n, v).fires  BY <1>u DEF Fired
  <2> QED  BY <1>1, <2>1
<1>d. DOMAIN engine' = DOMAIN engine  BY <1>u
<1>3. PastInv'
  <2>1. UpTo(engine', now)  BY <1>1, <1>d, <1>e, <1>t DEF UpTo
  <2>2. UpTo(ruleFile, now)  BY <1>t, UpToLater DEF AlertTypes, KeyInv, PastInv
  <2>3. \A b \in ruleTmp : UpTo(b, now)  BY <1>t, UpToLater DEF AlertTypes, KeyInv, PastInv
  <2>4. \A p \in Savers : UpTo(saver'[p].image, now)
    <3>1. saver \in [Savers -> [at : Places, image : Books]]  BY DEF AlertTypes
    <3>2. \A p \in Savers : saver'[p].image = saver[p].image  BY <1>u, <3>1
    <3>3. \A p \in Savers : UpTo(saver[p].image, now)
      BY <1>t, <3>1, UpToLater DEF KeyInv, PastInv
    <3> QED  BY <3>2, <3>3
  <2>5. \A f \in fires' : f.time = now /\ f.episode <= now  BY <1>2, <1>e, <1>t
  <2>6. \A i \in 1..Len(sent) :
          sent[i].fire.time <= now /\ sent[i].fire.episode <= now /\ sent[i].life <= life
    BY <1>s, <1>t DEF KeyInv, PastInv
  <2> QED  BY <1>u, <2>1, <2>2, <2>3, <2>4, <2>5, <2>6 DEF PastInv
<1>4. TickInv'
  <2>1. \A f \in fires', i \in 1..Len(sent) : sent[i].fire.time # f.time  BY <1>2, <1>s, <1>t
  <2> QED  BY <1>u, <2>1 DEF KeyInv, TickInv
<1>5. ClosedInv'
  <2>1. \A n, e : Closed(n, e, life)' <=> Closed(n, e, life)  BY <1>u DEF Closed
  <2>2. \A n : ~Closed(n, 0, life) /\ ~Closed(n, now, life)  BY <1>s, <1>t DEF Closed
  <2>3. \A n \in DOMAIN engine : ~Closed(n, engine[n].active, life)  BY DEF KeyInv, ClosedInv
  <2>4. ASSUME NEW n \in DOMAIN engine' PROVE ~Closed(n, engine[n].active, life)'
    <3>1. PICK e : e = engine'[n].active  OBVIOUS
    <3>2. ~Closed(n, e, life)  BY <1>1, <1>d, <2>2, <2>3, <3>1
    <3>3. ~Closed(n, e, life)'  BY <2>1, <3>2
    <3> QED  BY <3>1, <3>3 DEF Closed
  <2>5. ASSUME NEW f \in fires', f.resolved
        PROVE  ~Closed(f.rule, f.episode, life)' /\ engine'[f.rule].active # f.episode
    BY <1>2, <2>1, <2>3, <2>5
  <2> QED  BY <1>u, <2>4, <2>5 DEF KeyInv, ClosedInv
<1> QED  BY <1>3, <1>4, <1>5 DEF KeyInv

LEMMA DispatchKeys ==
    ASSUME AlertTypes, FiresInv, KeyInv, NEW f \in fires, recordFires(f)
    PROVE  KeyInv'
<1> DEFINE new == [fire |-> f, key |-> DedupKey(f), life |-> life]
<1>s. sent \in Seq(Events) /\ Len(sent) \in Nat  BY DEF AlertTypes
<1>n. PICK N \in Nat : N = Len(sent) + 1  BY <1>s
<1>u. /\ fires' = fires \ {f} /\ sent' = Append(sent, new) /\ life' = life /\ tick' = tick
      /\ saver' = IF fires' = {} THEN [saver EXCEPT ![Collector].at = "list"] ELSE saver
      /\ engine' = engine /\ ruleFile' = ruleFile /\ ruleTmp' = ruleTmp
  BY DEF recordFires
<1>1. Len(sent') = N /\ sent'[N] = new /\ \A i \in 1..Len(sent) : sent'[i] = sent[i]
  BY <1>n, <1>s, <1>u
<1>2. sent'[N].fire = f /\ sent'[N].life = life  BY <1>1
<1> HIDE DEF new
<1>3. \A i \in 1..Len(sent') : i = N \/ (i \in 1..Len(sent) /\ i < N)  BY <1>n, <1>s, <1>1
<1>f. \A a, b \in fires : a.rule = b.rule => a = b  BY DEF FiresInv
<1>4. PastInv'
  <2>1. \A p \in Savers : saver'[p].image = saver[p].image
    <3>1. saver \in [Savers -> [at : Places, image : Books]]  BY DEF AlertTypes
    <3> QED  BY <1>u, <3>1
  <2>2. f.time <= tick /\ f.episode <= tick /\ life <= life
    BY DEF KeyInv, PastInv, AlertTypes
  <2>3. \A i \in 1..Len(sent') : /\ sent'[i].fire.time <= tick /\ sent'[i].fire.episode <= tick
                                 /\ sent'[i].life <= life
    BY <1>1, <1>2, <1>3, <2>2 DEF KeyInv, PastInv
  <2> QED  BY <1>u, <2>1, <2>3 DEF KeyInv, PastInv
<1>5. TickInv'
  <2>1. \A g \in fires', i \in 1..Len(sent') :
          sent'[i].fire.rule = g.rule => sent'[i].fire.time # g.time
    BY <1>1, <1>2, <1>3, <1>f, <1>u DEF KeyInv, TickInv
  <2>2. \A i, j \in 1..Len(sent') :
          sent'[i].fire.rule = sent'[j].fire.rule /\ sent'[i].fire.time = sent'[j].fire.time => i = j
    BY <1>1, <1>2, <1>3 DEF KeyInv, TickInv
  <2> QED  BY <2>1, <2>2 DEF TickInv
<1>6. ASSUME NEW n, NEW e, ~Closed(n, e, life), ~(f.resolved /\ f.rule = n /\ f.episode = e)
      PROVE  ~Closed(n, e, life)'
  BY <1>1, <1>2, <1>3, <1>6, <1>u DEF Closed
<1>7. ClosedInv'
  <2>1. ASSUME NEW n \in DOMAIN engine' PROVE ~Closed(n, engine[n].active, life)'
    <3>1. PICK e : e = engine[n].active  OBVIOUS
    <3>2. ~Closed(n, e, life) /\ ~(f.resolved /\ f.rule = n /\ f.episode = e)
      BY <1>u, <3>1 DEF KeyInv, ClosedInv
    <3>3. ~Closed(n, e, life)'  BY <1>6, <3>2
    <3> QED  BY <1>u, <3>1, <3>3 DEF Closed
  <2>2. ASSUME NEW g \in fires', g.resolved
        PROVE  /\ ~Closed(g.rule, g.episode, life)'
               /\ g.rule \in DOMAIN engine' => engine'[g.rule].active # g.episode
    <3>1. g \in fires /\ g.rule # f.rule  BY <1>f, <1>u
    <3>2. ~Closed(g.rule, g.episode, life)  BY <2>2, <3>1 DEF KeyInv, ClosedInv
    <3> QED  BY <1>6, <1>u, <2>2, <3>1, <3>2 DEF KeyInv, ClosedInv
  <2>3. ASSUME NEW i \in 1..Len(sent), sent[i].life = life, sent[i].fire.resolved,
               sent[i].fire.rule = f.rule, sent[i].fire.episode = f.episode, f.resolved
        PROVE  FALSE
    <3>1. ~Closed(f.rule, f.episode, life)  BY <2>3 DEF KeyInv, ClosedInv
    <3> QED  BY <2>3, <3>1 DEF Closed
  <2>4. \A i, j \in 1..Len(sent') :
          /\ sent'[i].life = sent'[j].life /\ sent'[i].fire.resolved /\ sent'[j].fire.resolved
          /\ sent'[i].fire.rule = sent'[j].fire.rule /\ sent'[i].fire.episode = sent'[j].fire.episode
          => i = j
    BY <1>1, <1>2, <1>3, <2>3 DEF KeyInv, ClosedInv
  <2> QED  BY <2>1, <2>2, <2>4 DEF ClosedInv
<1> QED  BY <1>4, <1>5, <1>7 DEF KeyInv

LEMMA KeyStep == AlertTypes /\ FiresInv /\ KeyInv /\ [AlertNext]_alertVars => KeyInv'
<1> SUFFICES ASSUME AlertTypes, FiresInv, KeyInv, [AlertNext]_alertVars PROVE KeyInv'  OBVIOUS
<1>t. AlertTypes'  BY AlertTypesStep
<1>s. saver \in [Savers -> [at : Places, image : Books]]  BY DEF AlertTypes
<1>0. UpTo(AtRest.image, tick)  BY DEF AtRest, UpTo
<1>1. ASSUME NEW v, Evaluate(v) PROVE KeyInv'  BY <1>t, <1>1, TickKeys
<1>2. ASSUME NEW f \in fires, recordFires(f) PROVE KeyInv'  BY <1>2, DispatchKeys
<1>3. ASSUME NEW h \in Editors, NEW n \in Names, handleAlertAdd(h, n) \/ handleAlertRemove(h, n)
      PROVE  KeyInv'
  <2>1. Edited(h, n)  BY <1>3 DEF handleAlertAdd, handleAlertRemove
  <2>2. /\ sent' = sent /\ fires' = fires /\ tick' = tick /\ life' = life
        /\ ruleFile' = ruleFile /\ ruleTmp' = ruleTmp
        /\ \A p \in Savers : saver'[p].image = saver[p].image
    BY <1>s, <2>1 DEF Edited
  <2>3. \A m \in DOMAIN engine' : engine'[m].active = 0 \/ (m \in DOMAIN engine /\ engine'[m] = engine[m])
    BY <1>3 DEF handleAlertAdd, handleAlertRemove
  <2>4. UpTo(engine', tick)
    BY <2>3 DEF KeyInv, PastInv, UpTo, AlertTypes
  <2>5. PastInv'  BY <2>2, <2>4 DEF KeyInv, PastInv
  <2> QED  BY <2>2, <2>3, <2>5, StillKeeps DEF KeyInv
<1>4. ASSUME NEW p \in Savers, SaveLists(p) \/ SaveWrites(p) \/ SaveRenames(p) PROVE KeyInv'
  <2>1. sent' = sent /\ fires' = fires /\ tick' = tick /\ life' = life /\ engine' = engine
    BY <1>4 DEF SaveLists, SaveWrites, SaveRenames
  <2>2. ruleFile' \in {ruleFile} \cup ruleTmp /\ ruleTmp' \subseteq ruleTmp \cup {saver[p].image}
    BY <1>4 DEF SaveLists, SaveWrites, SaveRenames
  <2>3. \A q \in Savers : saver'[q].image \in {saver[q].image, engine, AtRest.image}
    <3>1. CASE SaveLists(p)  BY <1>s, <3>1 DEF SaveLists
    <3>2. CASE SaveWrites(p)  BY <1>s, <3>2 DEF SaveWrites, AtRest
    <3>3. CASE SaveRenames(p)  BY <1>s, <3>3 DEF SaveRenames, AtRest
    <3> QED  BY <1>4, <3>1, <3>2, <3>3
  <2>4. PastInv'
    <3>1. UpTo(ruleFile', tick) /\ \A b \in ruleTmp' : UpTo(b, tick)
      BY <2>2 DEF KeyInv, PastInv
    <3>2. \A q \in Savers : UpTo(saver'[q].image, tick)  BY <1>0, <2>3 DEF KeyInv, PastInv
    <3> QED  BY <2>1, <3>1, <3>2 DEF KeyInv, PastInv
  <2> QED  BY <2>1, <2>4, StillKeeps DEF KeyInv
<1>5. CASE Restarts
  <2>1. /\ sent' = sent /\ fires' = {} /\ tick' = tick /\ life' = life + 1
        /\ ruleFile' = ruleFile /\ ruleTmp' = ruleTmp /\ engine' = ruleFile
        /\ \A p \in Savers : saver'[p].image = AtRest.image
    BY <1>5 DEF Restarts, Load
  <2>2. \A i \in 1..Len(sent) : sent[i].life \in Nat /\ sent[i].life <= life /\ life \in Nat
    BY SentIs DEF KeyInv, PastInv, AlertTypes
  <2>3. PastInv'  BY <1>0, <2>1, <2>2 DEF KeyInv, PastInv
  <2>4. \A i \in 1..Len(sent) : sent[i].life # life'  BY <2>1, <2>2
  <2>5. ClosedInv'  BY <2>1, <2>4 DEF KeyInv, ClosedInv, Closed
  <2>6. TickInv'  BY <2>1 DEF KeyInv, TickInv
  <2> QED  BY <2>3, <2>5, <2>6 DEF KeyInv
<1>6. CASE UNCHANGED alertVars
  <2>1. /\ sent' = sent /\ fires' = fires /\ tick' = tick /\ life' = life /\ engine' = engine
        /\ ruleFile' = ruleFile /\ ruleTmp' = ruleTmp /\ saver' = saver
    BY <1>6 DEF alertVars
  <2>2. PastInv'  BY <2>1 DEF KeyInv, PastInv
  <2> QED  BY <2>1, <2>2, StillKeeps DEF KeyInv
<1> QED  BY <1>1, <1>2, <1>3, <1>4, <1>5, <1>6 DEF AlertNext

(* For every rule and any history of edits: one run of the panel never uses a
   dedup key twice, since a rule has one notice a tick and an episode that
   has ended is never opened again, so the throttle of the router holds back
   none of its events.                                                     *)
THEOREM KeysAreFresh == AlertSpec => []NeverSwallowed
<1>1. AlertInit => KeyInv /\ EpisodeInv
  <2> SUFFICES ASSUME AlertInit PROVE KeyInv /\ EpisodeInv  OBVIOUS
  <2>1. Len(sent) = 0 /\ fires = {} /\ ruleTmp = {} /\ tick = 0  BY DEF AlertInit
  <2>2. /\ UpTo(engine, 0) /\ UpTo(ruleFile, 0) /\ \A p \in Savers : UpTo(saver[p].image, 0)
    BY DEF AlertInit, UpTo, AtRest
  <2>3. PastInv  BY <2>1, <2>2 DEF PastInv
  <2>4. TickInv /\ ClosedInv  BY <2>1 DEF TickInv, ClosedInv, Closed
  <2>5. EpisodeInv  BY <2>1 DEF EpisodeInv, FiresInv, SentInv, EpisodesAlternate
  <2> QED  BY <2>3, <2>4, <2>5 DEF KeyInv
<1>2. EpisodeInv => FiresInv  BY DEF EpisodeInv
<1> QED
  BY <1>1, <1>2, AlertTypesInit, AlertTypesStep, EpisodeStep, KeyStep, KeysDiffer, PTL DEF AlertSpec
=============================================================================
