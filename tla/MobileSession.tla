--------------------------- MODULE MobileSession ---------------------------
(***************************************************************************)
(* The mobile session: SessionManager, AuthTokenInterceptor and            *)
(* SignOutRepository on the phones of one user, MobileLogin and            *)
(* MobileRefresh of the panel, and the file of refresh records behind them *)
(* (MobileRefreshStore).                                                   *)
(*                                                                         *)
(* The panel makes a new MobileRefreshStore for every request, so the      *)
(* mutex inside it excludes nobody: load and save of two requests          *)
(* interleave, over one .tmp file.  A token pair is a number; 0 is none.   *)
(* The clock is left out: a record or an access token lapses at any time.  *)
(***************************************************************************)
EXTENDS Naturals, FiniteSets

CONSTANTS
    Devices,     \* phones signed in as one user
    Threads,     \* requests the phones make
    DeviceOf,    \* the phone of a thread
    MaxPairs,    \* bound: calls of MobileLogin and MobileRefresh
    MaxTrouble,  \* bound: lost answers, killed apps, crashes of the panel
    MaxLapses,   \* bound: tokens whose life ends
    MaxApiCalls  \* bound: requests made

ASSUME SessionAssumption ==
    /\ IsFiniteSet(Devices) /\ DeviceOf \in [Threads -> Devices]
    /\ MaxPairs \in Nat /\ MaxTrouble \in Nat /\ MaxLapses \in Nat
    /\ MaxApiCalls \in Nat

VARIABLES
    pair,       \* per phone, SessionManager.tokens
    kept,       \* per phone, what KeystoreTokenStore has on flash
    thread,     \* per thread, where its request is
    login,      \* per phone, its call of MobileLogin
    records,    \* tokens with a record in mobile-sessions-<user>.json
    tmp,        \* {} or {what the .tmp file holds}
    posts,      \* calls the panel works on, or has answered
    minted,     \* calls made; a call's number is the pair it mints
    lapsed,     \* refresh tokens past their ExpiresAt
    dead,       \* access tokens expired, or of a revoked jti
    signedOut,  \* history: per phone, the operator signed out and not in again
    excused,    \* history: phones that met trouble, or an overlap at the file
    trouble, requests

phones == <<pair, kept, thread, login, signedOut, requests>>
panel == <<records, tmp, posts, lapsed, dead>>
sessionVars == <<phones, panel, minted, excused, trouble>>

IdleThread == [at |-> "idle", bearer |-> 0, replay |-> FALSE, leaving |-> FALSE, call |-> 0]

Pending(id) == {p \in posts : p.id = id}
Post(d, old) ==
    /\ minted < MaxPairs
    /\ minted' = minted + 1
    /\ posts' = posts \cup {[id |-> minted', dev |-> d, old |-> old,
                             stage |-> "sent", image |-> {}, found |-> FALSE]}

Trouble(D) ==
    /\ trouble < MaxTrouble
    /\ trouble' = trouble + 1
    /\ excused' = excused \cup D

-----------------------------------------------------------------------------
(* AuthTokenInterceptor.                                                   *)

(* A request starts: accessTokenForRequest hands it the access token, or has
   it renew first when the phone's clock says that the token is about to
   expire.  Signing out starts with a request too, /auth/logout.           *)
Intercept(t, soon, leaving) ==
    /\ thread[t] = IdleThread
    /\ requests < MaxApiCalls /\ requests' = requests + 1
    /\ soon => pair[DeviceOf[t]] # 0
    /\ leaving => /\ pair[DeviceOf[t]] # 0
                  /\ \A u \in Threads : DeviceOf[u] = DeviceOf[t] => ~thread[u].leaving
    /\ thread' = [thread EXCEPT ![t] =
                    [IdleThread EXCEPT !.at = IF soon THEN "queue" ELSE "out",
                                 !.bearer = pair[DeviceOf[t]], !.leaving = leaving]]
    /\ UNCHANGED <<pair, kept, login, signedOut, panel, minted, excused, trouble>>

(* The caller has its response; SignOutRepository goes on to its finally.  *)
Returned(th) == IF th.leaving THEN [IdleThread EXCEPT !.at = "leave", !.leaving = TRUE] ELSE IdleThread

Served(t) ==
    /\ thread[t].at = "out" /\ thread[t].bearer # 0 /\ thread[t].bearer \notin dead
    /\ thread' = [thread EXCEPT ![t] = Returned(@)]
    /\ dead' = IF thread[t].leaving THEN dead \cup {thread[t].bearer} ELSE dead
    /\ UNCHANGED <<requests, pair, kept, login, signedOut, records, tmp, posts, lapsed,
                   minted, excused, trouble>>

NetworkFails(t) ==
    /\ thread[t].at = "out"
    /\ thread' = [thread EXCEPT ![t] = Returned(@)]
    /\ UNCHANGED <<requests, pair, kept, login, signedOut, panel, minted, excused, trouble>>

(* A 401 renews, once.                                                     *)
Unauthorized(t) ==
    /\ thread[t].at = "out" /\ thread[t].bearer \in dead \cup {0}
    /\ thread' = [thread EXCEPT ![t] = IF @.replay THEN Returned(@)
                                       ELSE [@ EXCEPT !.at = "queue", !.replay = TRUE]]
    /\ UNCHANGED <<requests, pair, kept, login, signedOut, panel, minted, excused, trouble>>

-----------------------------------------------------------------------------
(* SessionManager.renew.                                                   *)

(* renew returned a token, or null (0): the request goes out, again when it
   had its 401; the 401 itself is what a null gives back.                  *)
Renewed(th, token) ==
    IF th.replay /\ token = 0 THEN Returned(th)
    ELSE [th EXCEPT !.at = "out", !.bearer = token, !.call = 0]

MutexFree_Always(t) == TRUE  \* mutant: every 401 renews by itself
MutexFree(t) ==
    \A u \in Threads : DeviceOf[u] = DeviceOf[t] => thread[u].at # "renew"

(* Somebody else renewed, or signed out, while this one waited.            *)
RenewShared(t) ==
    /\ thread[t].at = "queue" /\ MutexFree(t)
    /\ LET now == pair[DeviceOf[t]]
       IN  /\ now = 0 \/ (thread[t].bearer # 0 /\ now # thread[t].bearer)
           /\ thread' = [thread EXCEPT ![t] = Renewed(@, now)]
    /\ UNCHANGED <<requests, pair, kept, login, signedOut, panel, minted, excused, trouble>>

RenewPosts(t) ==
    /\ thread[t].at = "queue" /\ MutexFree(t)
    /\ pair[DeviceOf[t]] # 0 /\ thread[t].bearer \in {0, pair[DeviceOf[t]]}
    /\ Post(DeviceOf[t], pair[DeviceOf[t]])
    /\ thread' = [thread EXCEPT ![t] = [@ EXCEPT !.at = "renew", !.call = minted']]
    /\ UNCHANGED <<requests, pair, kept, login, signedOut, records, tmp, lapsed, dead,
                   excused, trouble>>

(* Renewed and Rejected go through adopt, Unavailable keeps the session.   *)
Adopted_Access(p) ==  \* mutant: only the access token is replaced
    CASE p.stage = "no" -> 0 [] p.stage \in {"ok", "err"} -> pair[p.dev]
Adopted(p) ==
    CASE p.stage = "ok" -> p.id [] p.stage = "no" -> 0 [] p.stage = "err" -> pair[p.dev]

RenewAnswered(t) ==
    /\ thread[t].at = "renew"
    /\ \E p \in Pending(thread[t].call) :
          /\ p.stage \in {"ok", "no", "err"}
          /\ pair' = [pair EXCEPT ![p.dev] = Adopted(p)]
          /\ thread' = [thread EXCEPT ![t] = Renewed(@, IF p.stage = "ok" THEN p.id ELSE 0)]
          /\ posts' = posts \ {p}
    /\ UNCHANGED <<requests, kept, login, signedOut, records, tmp, lapsed, dead, minted,
                   excused, trouble>>

(* The call timed out, or the panel is gone.  The panel may still work on it. *)
RenewUnavailable(t) ==
    /\ thread[t].at = "renew"
    /\ IF Pending(thread[t].call) = {} THEN UNCHANGED <<trouble, excused>>
       ELSE Trouble({DeviceOf[t]})
    /\ thread' = [thread EXCEPT ![t] = Renewed(@, 0)]
    /\ UNCHANGED <<requests, pair, kept, login, signedOut, panel, minted>>

-----------------------------------------------------------------------------
(* Signing in and out, and the life of the app.                            *)

Login(d) ==
    /\ pair[d] = 0 /\ login[d] = 0
    /\ Post(d, 0)
    /\ login' = [login EXCEPT ![d] = minted']
    /\ UNCHANGED <<requests, pair, kept, thread, signedOut, records, tmp, lapsed, dead,
                   excused, trouble>>

(* establish; a failed login leaves the session as it is.                  *)
LoginAnswered(d) ==
    /\ \E p \in Pending(login[d]) :
          /\ p.stage \in {"ok", "err"}
          /\ pair' = [pair EXCEPT ![d] = IF p.stage = "ok" THEN p.id ELSE @]
          /\ signedOut' = [signedOut EXCEPT ![d] = @ /\ p.stage # "ok"]
          /\ posts' = posts \ {p}
    /\ login' = [login EXCEPT ![d] = 0]
    /\ UNCHANGED <<requests, kept, thread, records, tmp, lapsed, dead, minted, excused, trouble>>

LoginUnavailable(d) ==
    /\ login[d] # 0
    /\ IF Pending(login[d]) = {} THEN UNCHANGED <<trouble, excused>> ELSE Trouble({d})
    /\ login' = [login EXCEPT ![d] = 0]
    /\ UNCHANGED <<requests, pair, kept, thread, signedOut, panel, minted>>

(* SessionManager.signOut does not take the mutex of renew.                *)
SignOut(t) ==
    /\ thread[t].at = "leave"
    /\ thread' = [thread EXCEPT ![t] = IdleThread]
    /\ pair' = [pair EXCEPT ![DeviceOf[t]] = 0]
    /\ signedOut' = [signedOut EXCEPT ![DeviceOf[t]] = TRUE]
    /\ UNCHANGED <<requests, kept, login, panel, minted, excused, trouble>>

(* SharedPreferences.apply reaches the flash later.                        *)
Apply(d) ==
    /\ kept' = [kept EXCEPT ![d] = pair[d]]
    /\ UNCHANGED <<requests, pair, thread, login, signedOut, panel, minted, excused, trouble>>

(* The app is killed and started: the constructor adopts what was kept.    *)
Killed(d) ==
    /\ Trouble({d})
    /\ pair' = [pair EXCEPT ![d] = kept[d]]
    /\ thread' = [t \in Threads |-> IF DeviceOf[t] = d THEN IdleThread ELSE thread[t]]
    /\ login' = [login EXCEPT ![d] = 0]
    /\ UNCHANGED <<requests, kept, signedOut, panel, minted>>

-----------------------------------------------------------------------------
(* MobileRefreshStore: Mint (old = 0) and Rotate.                          *)

gcExpiredSessions(S) == S \ lapsed

Image(p) == (gcExpiredSessions(records) \ {p.old}) \cup {p.id}

Saving == {p \in posts : p.stage \in {"loaded", "written"}}

Excuses(p) == IF Saving = {} THEN {} ELSE {q.dev : q \in Saving \cup {p}}

load(p) ==
    /\ p.stage = "sent"
    /\ LET found == p.old = 0 \/ p.old \in gcExpiredSessions(records)
       IN  posts' = (posts \ {p}) \cup
             {IF ~found /\ gcExpiredSessions(records) = records
              THEN [p EXCEPT !.stage = "no"]
              ELSE [p EXCEPT !.stage = "loaded", !.found = found,
                             !.image = IF found THEN Image(p) ELSE gcExpiredSessions(records)]}
    /\ excused' = excused \cup Excuses(p)
    /\ UNCHANGED <<phones, records, tmp, lapsed, dead, minted, trouble>>

StoreAnswer(p, saved) == IF ~p.found THEN "no" ELSE IF saved THEN "ok" ELSE "err"

(* save: no session left removes the file, else the .tmp is written ...    *)
saveWrites(p) ==
    /\ p.stage = "loaded"
    /\ IF p.image = {}
       THEN /\ records' = {}
            /\ UNCHANGED tmp
            /\ posts' = (posts \ {p}) \cup {[p EXCEPT !.stage = StoreAnswer(p, TRUE), !.image = {}]}
       ELSE /\ UNCHANGED records
            /\ tmp' = {p.image}
            /\ posts' = (posts \ {p}) \cup {[p EXCEPT !.stage = "written", !.image = {}]}
    /\ UNCHANGED <<phones, lapsed, dead, minted, excused, trouble>>

(* ... and renamed, unless another request's rename took it.               *)
saveRenames(p) ==
    /\ p.stage = "written"
    /\ records' = IF tmp = {} THEN records ELSE UNION tmp
    /\ tmp' = {}
    /\ posts' = (posts \ {p}) \cup {[p EXCEPT !.stage = StoreAnswer(p, tmp # {})]}
    /\ UNCHANGED <<phones, lapsed, dead, minted, excused, trouble>>

(* Nobody waits for the answer any more.                                   *)
AnswerDropped(p) ==
    /\ p.stage \in {"ok", "no", "err"}
    /\ login[p.dev] # p.id /\ \A t \in Threads : thread[t].call # p.id
    /\ posts' = posts \ {p}
    /\ UNCHANGED <<phones, records, tmp, lapsed, dead, minted, excused, trouble>>

PanelRestarts ==
    /\ posts # {}
    /\ Trouble({p.dev : p \in posts})
    /\ posts' = {}
    /\ UNCHANGED <<phones, records, tmp, lapsed, dead, minted>>

RefreshLapses(n) ==
    /\ Cardinality(lapsed \cup {n}) + Cardinality(dead) <= MaxLapses
    /\ lapsed' = lapsed \cup {n}
    /\ UNCHANGED <<phones, records, tmp, posts, dead, minted, excused, trouble>>

AccessExpires(n) ==
    /\ Cardinality(dead \cup {n}) + Cardinality(lapsed) <= MaxLapses
    /\ dead' = dead \cup {n}
    /\ UNCHANGED <<phones, records, tmp, posts, lapsed, minted, excused, trouble>>

-----------------------------------------------------------------------------
(* Every phone signed in before, one call each.                            *)
SessionInit ==
    /\ minted = Cardinality(Devices) /\ records = 1..minted
    /\ pair = CHOOSE f \in [Devices -> records] : \A d, e \in Devices : f[d] = f[e] => d = e
    /\ kept = pair
    /\ login = [d \in Devices |-> 0]
    /\ thread = [t \in Threads |-> IdleThread]
    /\ tmp = {} /\ posts = {}
    /\ lapsed = {} /\ dead = {}
    /\ signedOut = [d \in Devices |-> FALSE] /\ excused = {}
    /\ trouble = 0 /\ requests = 0

PhoneMoves ==
    \/ \E t \in Threads :
          \/ \E soon, leaving \in BOOLEAN : Intercept(t, soon, leaving)
          \/ Served(t) \/ NetworkFails(t) \/ Unauthorized(t)
          \/ RenewShared(t) \/ RenewPosts(t) \/ RenewAnswered(t) \/ RenewUnavailable(t)
          \/ SignOut(t)
    \/ \E d \in Devices :
          Login(d) \/ LoginAnswered(d) \/ LoginUnavailable(d) \/ Apply(d) \/ Killed(d)

PanelMoves ==
    \/ \E p \in posts : load(p) \/ saveWrites(p) \/ saveRenames(p) \/ AnswerDropped(p)
    \/ PanelRestarts
    \/ \E n \in records : RefreshLapses(n)
    \/ \E d \in Devices : pair[d] # 0 /\ AccessExpires(pair[d])

SessionNext == PhoneMoves \/ PanelMoves

SessionSpec == SessionInit /\ [][SessionNext]_sessionVars

-----------------------------------------------------------------------------
(* Properties.                                                             *)

Renewing(d) == \E t \in Threads : DeviceOf[t] = d /\ thread[t].at = "renew"

(* "losing the response is losing the session" is the only way to lose one:
   a phone that is signed in and met no lost answer, restart or overlap at
   the file of records holds a refresh token the panel knows, whatever the
   other phones' calls rotate, collect and retry around it.                *)
StillRenewable ==
    \A d \in Devices \ excused :
        pair[d] # 0 /\ pair[d] \notin lapsed /\ ~Renewing(d) => pair[d] \in records

(* "One refresh per expiry, not one per call": however many requests take a
   401 together, the rotation of one never tears the session of the others
   down.  A session ends because the operator signs out, because the token
   sent had lapsed, or after trouble.                                      *)
SessionEndsForAReason ==
    [][\A d \in Devices :
          pair[d] # 0 /\ pair'[d] = 0 =>
              \/ d \in excused'
              \/ \E t \in Threads : DeviceOf[t] = d /\ thread[t].at = "leave"
              \/ \E p \in posts \ posts' : p.dev = d /\ p.old \in lapsed]_sessionVars

(* "No failure [...] may stop the device from signing out": after the
   operator signed out the phone has no session until the operator signs in
   again.                                                                  *)
SignOutSticks == \A d \in Devices : signedOut[d] => pair[d] = 0
=============================================================================
