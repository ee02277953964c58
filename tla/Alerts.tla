------------------------------- MODULE Alerts ------------------------------
(***************************************************************************)
(* Metric alerts: the Engine of internal/metrics/alerts.go, the collector  *)
(* of internal/api/api.go that evaluates a snapshot every five seconds,    *)
(* dispatches what it fired and saves the rules, and the handlers that add *)
(* and remove rules meanwhile.                                             *)
(*                                                                         *)
(* Time is counted in ticks of the collector.  A rule's definition is a    *)
(* constant; its episode (ActiveSince) and LastFired are state.  Save is   *)
(* List, WriteFile and Rename, with no lock over the three.                *)
(***************************************************************************)
EXTENDS Integers, Sequences

CONSTANTS
    Names,         \* rules
    Def,           \* per rule: [op, threshold, margin, duration, renotify]
    Readings,      \* what the metric may read
    Missing,       \* the metric is not in the snapshot
    Editors,       \* handlers of requests
    MaxTicks, MaxRuleEdits, MaxRestarts   \* bounds

ASSUME AlertAssumption ==
    /\ Def \in [Names -> [op : {">", ">=", "<", "<="}, threshold : Int, margin : Nat,
                          duration : Nat, renotify : Nat]]
    /\ Readings \subseteq Int /\ Missing \notin Readings /\ "collector" \notin Editors
    /\ MaxTicks \in Nat /\ MaxRuleEdits \in Nat /\ MaxRestarts \in Nat

VARIABLES
    tick,       \* the time, in ticks
    engine,     \* Engine.rules: name -> [active, last]
    firstTrue,  \* Engine.firstTrue, 0 when absent
    fires,      \* fires recordFires has still to dispatch
    saver,      \* per goroutine, where it is
    ruleFile,   \* alert_rules.json
    ruleTmp,    \* {} or {what alert_rules.json.tmp holds}
    sent,       \* history: events dispatched, in order
    gen,        \* history: per rule, how often its episode was reset
    raced,      \* history: the last List overlapped another Save
    life, ruleEdits

alertVars == <<tick, engine, firstTrue, fires, saver, ruleFile, ruleTmp, sent,
               gen, raced, life, ruleEdits>>

Collector == "collector"
Savers == Editors \cup {Collector}
AtRest == [at |-> "idle", image |-> <<>>]

-----------------------------------------------------------------------------
(* The engine.                                                             *)

Cmp(v, n) ==
    LET t == Def[n].threshold
    IN  CASE Def[n].op = ">" -> v > t [] Def[n].op = ">=" -> v >= t
          [] Def[n].op = "<" -> v < t [] Def[n].op = "<=" -> v <= t

rearmAllowed(v, n) ==
    IF Def[n].op \in {">", ">="} THEN v <= Def[n].threshold - Def[n].margin
                                 ELSE v >= Def[n].threshold + Def[n].margin

(* The rule crosses, reminds or recovers at time now, having been over the
   threshold since time since.                                             *)
Crosses(n, now, since) == now - since >= Def[n].duration /\ engine[n].active = 0
Reminds(n, now) ==
    engine[n].active # 0 /\ Def[n].renotify > 0 /\ now - engine[n].last >= Def[n].renotify

Fire(n, now, episode, resolved) ==
    [rule |-> n, time |-> now, episode |-> episode, resolved |-> resolved, gen |-> gen[n]]

(* What Evaluate makes of one rule: its new state, its firstTrue, its fires. *)
EvaluateRule(n, v, now) ==
    LET r     == engine[n]
        since == IF firstTrue[n] = 0 THEN now ELSE firstTrue[n]
    IN  CASE v # Missing /\ Cmp(v, n) ->
               IF Crosses(n, now, since)
               THEN [rule |-> [active |-> now, last |-> now], first |-> since,
                     fires |-> {Fire(n, now, now, FALSE)}]
               ELSE IF Reminds(n, now)
               THEN [rule |-> [r EXCEPT !.last = now], first |-> since,
                     fires |-> {Fire(n, now, r.active, FALSE)}]
               ELSE [rule |-> r, first |-> since, fires |-> {}]
          [] v # Missing /\ ~Cmp(v, n) /\ r.active # 0 /\ rearmAllowed(v, n) ->
               [rule |-> [r EXCEPT !.active = 0], first |-> 0,
                fires |-> {Fire(n, now, r.active, TRUE)}]
          [] OTHER ->
               [rule |-> r, first |-> IF r.active = 0 THEN 0 ELSE firstTrue[n], fires |-> {}]

(* The collector's tick: Evaluate holds e.mu, recordFires follows when
   something fired.                                                        *)
Recorded_Crossings(F) == \E f \in F : ~f.resolved  \* mutant: only crossings are saved
Recorded(F) == F # {}

Evaluate(v) ==
    /\ saver[Collector].at = "idle" /\ tick < MaxTicks
    /\ tick' = tick + 1
    /\ LET seen == [n \in DOMAIN engine |-> EvaluateRule(n, v, tick')]
           F    == UNION {seen[n].fires : n \in DOMAIN engine}
       IN  /\ engine' = [n \in DOMAIN engine |-> seen[n].rule]
           /\ firstTrue' = [n \in Names |-> IF n \in DOMAIN engine THEN seen[n].first ELSE 0]
           /\ fires' = F
           /\ saver' = IF Recorded(F) THEN [saver EXCEPT ![Collector].at = "dispatch"]
                                      ELSE saver
    /\ UNCHANGED <<ruleFile, ruleTmp, sent, gen, raced, life, ruleEdits>>

(* metricEvent's DedupKey.                                                 *)
DedupKey_Episode(f) ==  \* mutant: a reminder has the key of its crossing
    IF f.resolved THEN <<"metric-res", f.rule, f.episode>> ELSE <<"metric", f.rule, f.episode>>
DedupKey(f) ==
    IF f.resolved THEN <<"metric-res", f.rule, f.episode>>
    ELSE IF f.episode # 0 /\ f.time # f.episode THEN <<"metric", f.rule, f.episode, f.time>>
    ELSE <<"metric", f.rule, f.episode>>

recordFires(f) ==
    /\ saver[Collector].at = "dispatch" /\ f \in fires
    /\ fires' = fires \ {f}
    /\ sent' = Append(sent, [fire |-> f, key |-> DedupKey(f), life |-> life])
    /\ saver' = IF fires' = {} THEN [saver EXCEPT ![Collector].at = "list"] ELSE saver
    /\ UNCHANGED <<tick, engine, firstTrue, ruleFile, ruleTmp, gen, raced, life, ruleEdits>>

-----------------------------------------------------------------------------
(* The handlers.  The page posts a rule without its episode.               *)
Edited(h, n) ==
    /\ saver[h].at = "idle" /\ ruleEdits < MaxRuleEdits
    /\ ruleEdits' = ruleEdits + 1
    /\ firstTrue' = [firstTrue EXCEPT ![n] = 0]
    /\ gen' = [gen EXCEPT ![n] = @ + 1]
    /\ saver' = [saver EXCEPT ![h].at = "list"]
    /\ UNCHANGED <<tick, fires, ruleFile, ruleTmp, sent, raced, life>>

handleAlertAdd(h, n) ==
    /\ Edited(h, n)
    /\ engine' = [m \in DOMAIN engine \cup {n} |->
                    IF m = n THEN [active |-> 0, last |-> 0] ELSE engine[m]]

handleAlertRemove(h, n) ==
    /\ Edited(h, n)
    /\ engine' = [m \in DOMAIN engine \ {n} |-> engine[m]]

-----------------------------------------------------------------------------
(* Engine.Save.                                                            *)
SaveLists(p) ==
    /\ saver[p].at = "list"
    /\ saver' = [saver EXCEPT ![p] = [at |-> "write", image |-> engine]]
    /\ raced' = \E q \in Savers \ {p} : saver[q].at \in {"write", "rename"}
    /\ UNCHANGED <<tick, engine, firstTrue, fires, ruleFile, ruleTmp, sent, gen,
                   life, ruleEdits>>

SaveWrites(p) ==
    /\ saver[p].at = "write"
    /\ ruleTmp' = {saver[p].image}
    /\ saver' = [saver EXCEPT ![p] = [AtRest EXCEPT !.at = "rename"]]
    /\ UNCHANGED <<tick, engine, firstTrue, fires, ruleFile, sent, gen, raced,
                   life, ruleEdits>>

(* A rename whose .tmp another one took fails, and is logged.              *)
SaveRenames(p) ==
    /\ saver[p].at = "rename"
    /\ saver' = [saver EXCEPT ![p] = AtRest]
    /\ IF ruleTmp = {} THEN UNCHANGED ruleFile ELSE ruleFile' \in ruleTmp
    /\ ruleTmp' = {}
    /\ UNCHANGED <<tick, engine, firstTrue, fires, sent, gen, raced, life, ruleEdits>>

(* The panel restarts, by a deploy or a crash, and loads the file.         *)
Load_Fresh(file) == [n \in DOMAIN file |-> [file[n] EXCEPT !.active = 0]]  \* mutant: as if added
Load(file) == file

(* Everything the engine knew of the rule is in the file, and dispatched.  *)
Kept(n) ==
    /\ n \in DOMAIN engine \cap DOMAIN ruleFile /\ engine[n] = ruleFile[n]
    /\ \A f \in fires : f.rule # n

Restarts ==
    /\ life < MaxRestarts
    /\ life' = life + 1
    /\ engine' = Load(ruleFile)
    /\ firstTrue' = [n \in Names |-> IF n \in DOMAIN engine' THEN engine'[n].active ELSE 0]
    /\ gen' = [n \in Names |-> IF Kept(n) THEN gen[n] ELSE gen[n] + 1]
    /\ fires' = {} /\ saver' = [p \in Savers |-> AtRest]
    /\ UNCHANGED <<tick, ruleFile, ruleTmp, sent, raced, ruleEdits>>

-----------------------------------------------------------------------------
AlertInit ==
    /\ tick = 0
    /\ engine = [n \in Names |-> [active |-> 0, last |-> 0]] /\ ruleFile = engine
    /\ firstTrue = [n \in Names |-> 0] /\ gen = firstTrue
    /\ fires = {} /\ saver = [p \in Savers |-> AtRest] /\ ruleTmp = {}
    /\ sent = <<>> /\ raced = FALSE /\ life = 0 /\ ruleEdits = 0

AlertNext ==
    \/ \E v \in Readings \cup {Missing} : Evaluate(v)
    \/ \E f \in fires : recordFires(f)
    \/ \E h \in Editors, n \in Names : handleAlertAdd(h, n) \/ handleAlertRemove(h, n)
    \/ \E p \in Savers : SaveLists(p) \/ SaveWrites(p) \/ SaveRenames(p)
    \/ Restarts

AlertSpec == AlertInit /\ [][AlertNext]_alertVars

-----------------------------------------------------------------------------
(* Properties.                                                             *)

(* The j-th event sent is the next about the i-th one's rule, with no reset
   of the rule between.                                                    *)
Successor(i, j) ==
    LET prev == sent[i].fire
        succ == sent[j].fire
    IN  /\ i < j /\ prev.rule = succ.rule /\ prev.gen = succ.gen
        /\ \A k \in (i + 1)..(j - 1) :
              sent[k].fire.rule # prev.rule \/ sent[k].fire.gen # prev.gen

(* A rule notifies once per episode, reminds no sooner than it was asked to,
   and says once that the episode is over before another opens, through gaps
   in the metric and dips that stay inside the margin, and "survives a
   deploy/restart without re-notifying" when the restart finds the rule's
   episode in the file and no event of it was still to be dispatched.      *)
EpisodesAlternate ==
    \A i, j \in 1..Len(sent) : Successor(i, j) =>
        LET prev == sent[i].fire
            succ == sent[j].fire
        IN  IF prev.resolved
            THEN ~succ.resolved /\ succ.time = succ.episode
            ELSE /\ succ.episode = prev.episode
                 /\ succ.resolved \/ /\ Def[prev.rule].renotify > 0
                                     /\ succ.time - prev.time >= Def[prev.rule].renotify

(* "On any transition we persist the engine state": once the collector and
   the handlers are done, the file holds every rule as the engine has it,
   recoveries included, unless two Saves overlapped.                       *)
SavedAtRest ==
    (~raced /\ \A p \in Savers : saver[p].at = "idle") => ruleFile = engine

(* "a fresh episode after a recovery is never swallowed": no two events one
   run of the panel dispatches share a dedup key, so that the router's
   throttle keeps none of them back.                                       *)
NeverSwallowed ==
    \A i, j \in 1..Len(sent) :
        i < j /\ sent[i].life = sent[j].life => sent[i].key # sent[j].key
=============================================================================
