----------------------------- MODULE OAuthRefresh -----------------------------
(***************************************************************************)
(* The refresh of one account's OAuth credential.  Background workers look *)
(* for an active account whose credential is due; requests refresh it when *)
(* the cached access token is gone.  Both call RefreshIfNeeded: a mutex of *)
(* the replica, a Redis lock with a lease, a second read of the account,   *)
(* the provider's rotation of the refresh token, and the update of the     *)
(* account.  An administrator may authorize the account again meanwhile.   *)
(*                                                                         *)
(* A credential is the number of its issue and stands for the refresh and  *)
(* the access token that were issued together; ver is the _token_version   *)
(* stored with it, a time of the clock.  The requests are those of a       *)
(* platform whose provider works on after a failed refresh (Claude); of a  *)
(* Grok account only the background refresh is modelled.  The cooldown     *)
(* after the last retry only delays the next cycle and is left out.  seen  *)
(* and late are history.                                                   *)
(***************************************************************************)
EXTENDS Integers, FiniteSets

CONSTANTS
  Background, Requests, Replicas,
  home,        \* the replica a worker runs on
  Platforms,   \* of "grok" and "claude", those the account may be of
  FaultKinds,  \* of the faults below, those that may happen
  MaxDue,      \* bound: credentials that come due
  MaxReauths,  \* bound: times the account is authorized again
  MaxFaults    \* bound: faults

Workers == Background \cup Requests

ASSUME WorkersAssumption ==
  /\ Background \cap Requests = {} /\ "none" \notin Workers
  /\ home \in [Workers -> Replicas]
ASSUME BoundsAssumption ==
  /\ Platforms \subseteq {"grok", "claude"}
  /\ MaxDue \in Nat /\ MaxReauths \in Nat /\ MaxFaults \in Nat

VARIABLES
  platform,  \* the account's platform
  cred, ver, status,  \* the account: credential, _token_version and status
  live,      \* the credentials whose refresh token the provider accepts
  made,      \* the last credential issued
  due,       \* the credentials whose expiry is near
  clock,     \* the last _token_version given
  cache,     \* the cached access token's credential, 0 if there is none
  lock,      \* whether oauth:refresh_lock is set
  local,     \* of a replica: the worker that has its mutex, or "none"
  wk,        \* of a worker: where it is and what it has read
  adm,       \* the administrator: where they are and what they have read
  reauths, faults, seen, late

account == <<cred, ver, status>>
provider == <<live, made>>
locks == <<lock, local>>
admin == <<adm, reauths>>
rest == <<platform, due>>
history == <<faults, seen>>
oauthVars == <<rest, account, provider, clock, cache, locks, wk, admin, history, late>>

Begin(w) == IF w \in Background THEN "idle" ELSE "asked"
Rest(w) == IF w \in Background THEN "idle" ELSE "end"
Ready(w) == [pc |-> Begin(w), then |-> "idle", acct |-> 0, aver |-> 0,
             used |-> 0, got |-> 0, held |-> FALSE]

Kinds == {"lapse", "redis", "db", "dropped", "provider", "denied", "crash", "clear"}
Creds == 1..(1 + MaxDue + MaxReauths)
Pcs == {"idle", "asked", "cache", "local", "lock", "reread", "refresh", "recover",
        "persist", "durable", "release", "wait", "check", "set", "seterror",
        "sync", "end"}

OAuthTypeOK ==
  /\ platform \in Platforms
  /\ cred \in Creds /\ ver \in 0..clock /\ status \in {"active", "error"}
  /\ live \subseteq Creds /\ made \in Creds /\ due \subseteq Creds
  /\ clock \in 0..MaxDue /\ cache \in {0} \cup Creds
  /\ lock \in BOOLEAN /\ local \in [Replicas -> Workers \cup {"none"}]
  /\ wk \in [Workers -> [pc : Pcs, then : Pcs, acct : {0} \cup Creds, aver : 0..clock,
                         used : {0} \cup Creds, got : {0} \cup Creds, held : BOOLEAN]]
  /\ adm \in [pc : {"idle", "update", "clear", "invalidate"}, aver : 0..clock]
  /\ reauths \in 0..MaxReauths /\ faults \in 0..MaxFaults
  /\ seen \subseteq Kinds /\ late \in BOOLEAN

OAuthInit ==
  /\ platform \in Platforms
  /\ cred = 1 /\ ver = 0 /\ status = "active"
  /\ live = {1} /\ made = 1 /\ due = {} /\ clock = 0 /\ cache = 0
  /\ lock = FALSE /\ local = [r \in Replicas |-> "none"]
  /\ wk = [w \in Workers |-> Ready(w)]
  /\ adm = [pc |-> "idle", aver |-> 0]
  /\ reauths = 0 /\ faults = 0 /\ seen = {} /\ late = FALSE

(***************************************************************************)
(* Faults: the lock's lease runs out under its holder ("lapse"), a Redis   *)
(* or database call fails ("redis", "db"), the provider rotates and the    *)
(* answer is lost or the caller's context has ended ("dropped"), the       *)
(* provider fails ("provider") or refuses a token that it has not used up  *)
(* for good ("denied": access_denied, missing_project_id and the like), a  *)
(* replica dies ("crash"), the status cannot be cleared after a            *)
(* reauthorization ("clear").                                              *)
(***************************************************************************)
Fault(kind) ==
  /\ kind \in FaultKinds /\ faults < MaxFaults
  /\ faults' = faults + 1 /\ seen' = seen \cup {kind}

NoFault == UNCHANGED history

MoveTo(w, pc) == wk' = [wk EXCEPT ![w].pc = pc]

\* RefreshIfNeeded returns, and its caller goes on at pc once the deferred
\* release is over.
Return(w, pc) == wk' = [wk EXCEPT ![w].pc = "release", ![w].then = pc]

\* A failed attempt: the background retries it, or gives up until the next
\* cycle; a request goes on with the token it has, unless it has ended.
Failed(w) ==
  \E pc \in IF w \in Background THEN {"local", "idle"} ELSE {"check", "end"} : Return(w, pc)

\* The account as the database has it.
Fresh(w) == [wk[w] EXCEPT !.acct = cred, !.aver = ver]

ExpiryNears ==
  /\ cred \notin due /\ Cardinality(due) < MaxDue
  /\ due' = due \cup {cred}
  /\ UNCHANGED <<platform, account, provider, clock, cache, locks, wk, admin, history, late>>

(***************************************************************************)
(* The callers                                                             *)
(***************************************************************************)

\* A cycle of the background refresh lists the active accounts and picks
\* those that are due.
processCandidatePage(w) ==
  /\ wk[w].pc = "idle" /\ status = "active" /\ cred \in due
  /\ wk' = [wk EXCEPT ![w] = [Fresh(w) EXCEPT !.pc = "local"]]
  /\ UNCHANGED <<rest, account, provider, clock, cache, locks, admin, history, late>>

\* A request has the account from the scheduler.
SelectAccount(w) ==
  /\ wk[w].pc = "asked" /\ platform # "grok"
  /\ wk' = [wk EXCEPT ![w] = [Fresh(w) EXCEPT !.pc = "cache"]]
  /\ UNCHANGED <<rest, account, provider, clock, cache, locks, admin, history, late>>

\* GetAccessToken: a cached token is used as it is; a lookup that fails is a
\* miss.
GetAccessToken(w) ==
  /\ wk[w].pc = "cache"
  /\ \/ cache # 0 /\ NoFault /\ MoveTo(w, "end")
     \/ /\ (cache = 0 /\ NoFault) \/ (cache # 0 /\ Fault("redis"))
        /\ MoveTo(w, IF wk[w].acct \in due THEN "local" ELSE "check")
  /\ UNCHANGED <<rest, account, provider, clock, cache, locks, admin, late>>

(***************************************************************************)
(* RefreshIfNeeded                                                         *)
(***************************************************************************)

LockLocal(w) ==
  /\ wk[w].pc = "local" /\ local[home[w]] = "none"
  /\ local' = [local EXCEPT ![home[w]] = w]
  /\ MoveTo(w, "lock")
  /\ UNCHANGED <<rest, account, provider, clock, cache, lock, admin, history, late>>

\* Mutant: a lock that somebody has does not stop the refresh.
AcquireRefreshLock_Ignored(w) ==
  /\ wk[w].pc = "lock"
  /\ lock' = TRUE /\ NoFault
  /\ wk' = [wk EXCEPT ![w].pc = "reread", ![w].held = TRUE]
  /\ UNCHANGED <<rest, account, provider, clock, cache, local, admin, late>>

\* Whoever finds the lock taken leaves it: the background is done, a request
\* waits for the other one's token.  Without Redis the refresh goes on
\* unlocked.
AcquireRefreshLock(w) ==
  /\ wk[w].pc = "lock"
  /\ \/ /\ ~lock /\ lock' = TRUE /\ NoFault
        /\ wk' = [wk EXCEPT ![w].pc = "reread", ![w].held = TRUE]
     \/ /\ lock /\ NoFault /\ UNCHANGED lock
        /\ Return(w, IF w \in Background THEN "idle" ELSE "wait")
     \/ Fault("redis") /\ UNCHANGED lock /\ MoveTo(w, "reread")
  /\ UNCHANGED <<rest, account, provider, clock, cache, local, admin, late>>

\* The second read of the account: it may be in error or refreshed by now, and
\* then it is the result (only a Grok request is told that it is not active).  A
\* failed read ends the background's cycle.
RereadAccount(w) ==
  /\ wk[w].pc = "reread"
  /\ \/ /\ status = "active" /\ cred \in due /\ NoFault
        /\ wk' = [wk EXCEPT ![w].pc = "refresh", ![w].used = cred]
     \/ /\ status # "active" \/ cred \notin due
        /\ NoFault
        /\ wk' = [wk EXCEPT ![w] = [Fresh(w) EXCEPT
             !.pc = "release", !.then = IF w \in Background THEN "idle" ELSE "check"]]
     \/ /\ Fault("db")
        /\ Return(w, IF w \in Background THEN "idle" ELSE "check")
  /\ UNCHANGED <<rest, account, provider, clock, cache, locks, admin, late>>

\* The provider takes a refresh token once and issues the next one.
Rotate(used) ==
  /\ used \in live
  /\ made' = made + 1
  /\ live' = (live \ {used}) \cup {made + 1}

\* The account is to be barred for what the provider said of the credential
\* used; a request goes on with what it has.
Bar(w) ==
  wk' = [wk EXCEPT ![w].pc = "release",
              ![w].acct = IF w \in Background THEN wk[w].used ELSE @,
              ![w].then = IF w \in Background THEN "seterror" ELSE "check"]

\* executor.Refresh: what the provider issued is thrown away when the context
\* has ended.
Refresh(w) ==
  /\ wk[w].pc = "refresh"
  /\ \/ /\ Rotate(wk[w].used) /\ NoFault
        /\ wk' = [wk EXCEPT ![w].pc = "persist", ![w].got = made + 1]
     \/ Rotate(wk[w].used) /\ Fault("dropped") /\ Failed(w)
     \/ wk[w].used \notin live /\ NoFault /\ MoveTo(w, "recover") /\ UNCHANGED provider
     \/ Fault("provider") /\ Failed(w) /\ UNCHANGED provider
     \/ Fault("denied") /\ Bar(w) /\ UNCHANGED provider
  /\ UNCHANGED <<rest, account, clock, cache, locks, admin, late>>

\* After invalid_grant: a refresh token that has changed means that somebody
\* else refreshed.  Otherwise the background bars the account.
tryRecoverFromRefreshRace(w) ==
  /\ wk[w].pc = "recover"
  /\ \/ /\ cred # wk[w].used /\ NoFault
        /\ wk' = [wk EXCEPT ![w] = [Fresh(w) EXCEPT
             !.pc = "release", !.then = IF w \in Background THEN "idle" ELSE "check"]]
     \/ ((cred = wk[w].used /\ NoFault) \/ Fault("db")) /\ Bar(w)
  /\ UNCHANGED <<rest, account, provider, clock, cache, locks, admin, late>>

Store(w) == cred' = wk[w].got /\ ver' = clock'

\* persistAccountCredentials writes whatever is stored by now.  A failed
\* update may have been done.
persistAccountCredentials(w) ==
  /\ wk[w].pc = "persist" /\ platform # "grok"
  /\ clock' = clock + 1
  /\ \/ /\ Store(w) /\ NoFault
        /\ wk' = [wk EXCEPT ![w].pc = "release", ![w].acct = wk[w].got, ![w].aver = clock',
                    ![w].then = IF w \in Background THEN "sync" ELSE "check"]
     \/ Fault("db") /\ Failed(w) /\ (Store(w) \/ UNCHANGED <<cred, ver>>)
  /\ UNCHANGED <<rest, status, provider, cache, locks, admin, late>>

\* A Grok credential is only stored in the place of the one it was issued
\* for.
UpdateGrokOAuthCredentialsIfUnchanged(w) ==
  /\ wk[w].pc = "persist" /\ platform = "grok"
  /\ clock' = clock + 1
  /\ \/ cred = wk[w].used /\ Store(w) /\ NoFault /\ MoveTo(w, "durable")
     \/ cred # wk[w].used /\ NoFault /\ Return(w, "idle") /\ UNCHANGED <<cred, ver>>
     \/ /\ Fault("db") /\ Return(w, "idle")
        /\ (cred = wk[w].used /\ Store(w)) \/ UNCHANGED <<cred, ver>>
  /\ UNCHANGED <<rest, status, provider, cache, locks, admin, late>>

\* After the update of a Grok account its cached token is deleted and the row
\* is read once more.
loadGrokDurableAccountAfterPersist(w) ==
  /\ wk[w].pc = "durable"
  /\ \/ cache' = 0 /\ NoFault /\ Return(w, "sync")
     \/ cache' = 0 /\ Fault("db") /\ Return(w, "idle")
     \/ UNCHANGED cache /\ Fault("redis") /\ Return(w, "sync")
  /\ UNCHANGED <<rest, account, provider, clock, locks, admin, late>>

\* The deferred release deletes the lock by its key, whoever has set it; then
\* the replica's mutex is given back.
releaseRefreshLock(w) ==
  /\ wk[w].pc = "release"
  /\ \/ lock' = (lock /\ ~wk[w].held) /\ NoFault
     \/ wk[w].held /\ Fault("redis") /\ UNCHANGED lock
  /\ local' = [local EXCEPT ![home[w]] = "none"]
  /\ wk' = [wk EXCEPT ![w].pc = wk[w].then, ![w].then = "idle", ![w].held = FALSE,
              ![w].used = 0, ![w].got = 0]
  /\ UNCHANGED <<rest, account, provider, clock, cache, admin, late>>

(***************************************************************************)
(* The callers go on                                                       *)
(***************************************************************************)

\* Mutant: a Grok account is barred whatever credential it has by now.
Unchanged_Unchecked(w) == TRUE

\* The condition of SetGrokOAuthRefreshErrorIfCredentialsUnchanged.
Unchanged(w) == status = "active" /\ cred = wk[w].acct

\* A credential that is not accepted bars the account: a Grok account only
\* if it still has that credential, any other one in any case.
SetError(w) ==
  /\ wk[w].pc = "seterror"
  /\ \/ /\ platform = "grok" => Unchanged(w)
        /\ status' = "error" /\ NoFault /\ MoveTo(w, "sync")
     \/ /\ platform = "grok" /\ ~Unchanged(w)
        /\ NoFault /\ MoveTo(w, "idle") /\ UNCHANGED status
     \/ Fault("db") /\ MoveTo(w, IF platform = "grok" THEN "idle" ELSE "sync") /\ UNCHANGED status
  /\ UNCHANGED <<rest, cred, ver, provider, clock, cache, locks, admin, late>>

\* Mutant: the cached token stays after a refresh.
InvalidateToken_Keeps(w) ==
  /\ wk[w].pc = "sync" /\ NoFault /\ MoveTo(w, "idle")
  /\ UNCHANGED <<rest, account, provider, clock, cache, locks, admin, late>>

\* postRefreshStateSync, and the end of a refresh that has barred the account.
InvalidateToken(w) ==
  /\ wk[w].pc = "sync"
  /\ (cache' = 0 /\ NoFault) \/ (UNCHANGED cache /\ Fault("redis"))
  /\ MoveTo(w, "idle")
  /\ UNCHANGED <<rest, account, provider, clock, locks, admin, late>>

\* A request that found the lock taken looks into the cache once more.
WaitForCache(w) ==
  /\ wk[w].pc = "wait"
  /\ MoveTo(w, IF cache # 0 THEN "end" ELSE "check")
  /\ UNCHANGED <<rest, account, provider, clock, cache, locks, admin, history, late>>

\* Mutant: the versions are not compared.
CheckTokenVersion_Never(w) ==
  /\ wk[w].pc = "check" /\ NoFault /\ MoveTo(w, "set")
  /\ UNCHANGED <<rest, account, provider, clock, cache, locks, admin, late>>

\* A request whose account is older than the stored one does not cache its
\* token; when the account cannot be read it does.
CheckTokenVersion(w) ==
  /\ wk[w].pc = "check"
  /\ \/ NoFault /\ MoveTo(w, IF ver > wk[w].aver THEN "end" ELSE "set")
     \/ Fault("db") /\ MoveTo(w, "set")
  /\ UNCHANGED <<rest, account, provider, clock, cache, locks, admin, late>>

SetAccessToken(w) ==
  /\ wk[w].pc = "set"
  /\ \/ cache' = wk[w].acct /\ late' = (late \/ wk[w].acct # cred) /\ NoFault
     \/ Fault("redis") /\ UNCHANGED <<cache, late>>
  /\ MoveTo(w, "end")
  /\ UNCHANGED <<rest, account, provider, clock, locks, admin>>

CacheExpires ==
  /\ cache # 0 /\ cache' = 0
  /\ UNCHANGED <<rest, account, provider, clock, locks, wk, admin, history, late>>

(***************************************************************************)
(* ApplyOAuthCredentials: the administrator's new authorization            *)
(***************************************************************************)

ReadExisting ==
  /\ adm.pc = "idle" /\ reauths < MaxReauths
  /\ reauths' = reauths + 1
  /\ adm' = [pc |-> "update", aver |-> ver]
  /\ UNCHANGED <<rest, account, provider, clock, cache, locks, wk, history, late>>

\* The new tokens are merged into the fields that were read, _token_version
\* included.
UpdateAccount ==
  /\ adm.pc = "update"
  /\ made' = made + 1 /\ live' = live \cup {made + 1}
  /\ cred' = made + 1 /\ ver' = adm.aver
  /\ adm' = [adm EXCEPT !.pc = "clear"]
  /\ UNCHANGED <<rest, status, clock, cache, locks, wk, reauths, history, late>>

ClearAccountError ==
  /\ adm.pc = "clear"
  /\ (status' = "active" /\ NoFault) \/ (UNCHANGED status /\ Fault("clear"))
  /\ adm' = [adm EXCEPT !.pc = "invalidate"]
  /\ UNCHANGED <<rest, cred, ver, provider, clock, cache, locks, wk, reauths, late>>

InvalidateAfterReauth ==
  /\ adm.pc = "invalidate"
  /\ (cache' = 0 /\ NoFault) \/ (UNCHANGED cache /\ Fault("redis"))
  /\ adm' = [pc |-> "idle", aver |-> 0]
  /\ UNCHANGED <<rest, account, provider, clock, locks, wk, reauths, late>>

(***************************************************************************)
(* Time and crashes                                                        *)
(***************************************************************************)

\* Mutant: the lock is set without an expiry.
LockExpires_Never == FALSE /\ UNCHANGED oauthVars

\* The lease of a lock that nobody will delete any more runs out.
LockExpires ==
  /\ lock /\ \A w \in Workers : ~wk[w].held
  /\ lock' = FALSE
  /\ UNCHANGED <<rest, account, provider, clock, cache, local, wk, admin, history, late>>

\* It runs out under its holder, which goes on.
LockLapses ==
  /\ lock /\ \E w \in Workers : wk[w].held
  /\ Fault("lapse")
  /\ lock' = FALSE
  /\ UNCHANGED <<rest, account, provider, clock, cache, local, wk, admin, late>>

\* A replica dies: its workers stop where they are, its mutex is gone.
ReplicaDies(r) ==
  /\ \E w \in Workers : home[w] = r /\ wk[w].pc \notin {"idle", "asked", "end"}
  /\ Fault("crash")
  /\ wk' = [w \in Workers |->
             IF home[w] = r /\ wk[w].pc # "asked"
             THEN [Ready(w) EXCEPT !.pc = Rest(w)] ELSE wk[w]]
  /\ local' = [local EXCEPT ![r] = "none"]
  /\ UNCHANGED <<rest, account, provider, clock, cache, lock, admin, late>>

Step(w) ==
  \/ GetAccessToken(w) \/ LockLocal(w) \/ AcquireRefreshLock(w) \/ RereadAccount(w)
  \/ Refresh(w) \/ tryRecoverFromRefreshRace(w) \/ persistAccountCredentials(w)
  \/ UpdateGrokOAuthCredentialsIfUnchanged(w) \/ loadGrokDurableAccountAfterPersist(w)
  \/ releaseRefreshLock(w) \/ SetError(w) \/ InvalidateToken(w) \/ WaitForCache(w)
  \/ CheckTokenVersion(w) \/ SetAccessToken(w)

AdminStep == UpdateAccount \/ ClearAccountError \/ InvalidateAfterReauth

OAuthNext ==
  \/ \E w \in Background : processCandidatePage(w)
  \/ \E w \in Requests : SelectAccount(w)
  \/ \E w \in Workers : Step(w)
  \/ ReadExisting \/ AdminStep
  \/ ExpiryNears \/ CacheExpires \/ LockExpires \/ LockLapses
  \/ \E r \in Replicas : ReplicaDies(r)

OAuthSpec == OAuthInit /\ [][OAuthNext]_oauthVars

\* The background's cycles and the calls under way go on, and a lease that
\* nobody ends runs out.
OAuthFairSpec ==
  /\ OAuthSpec
  /\ \A w \in Background : WF_oauthVars(processCandidatePage(w))
  /\ \A w \in Workers : WF_oauthVars(Step(w))
  /\ WF_oauthVars(AdminStep) /\ WF_oauthVars(LockExpires)

-----------------------------------------------------------------------------

\* The stored refresh token is one the provider still accepts, unless the
\* worker that used it up is about to store the next one: whatever requests,
\* cycles, expired leases and reauthorizations do, only a dropped answer, a
\* failed update and a crash can lose it.
StoredIsLive ==
  seen \cap {"db", "dropped", "crash"} = {} =>
    \/ cred \in live
    \/ \E w \in Workers : wk[w].pc = "persist" /\ wk[w].used = cred

\* While leases last, calls succeed and nobody is denied, no account is
\* barred: two refreshes never present the same token (oauth_refresh_api.go,
\* AcquireRefreshLock and the second read).
NotBarredWithoutFault ==
  seen \cap {"lapse", "redis", "db", "dropped", "denied", "crash"} = {} => status = "active"

\* No rotated token is lost and no account barred without a fault that explains
\* it, although the lock has no owner and its lease may end under the holder
\* (RefreshIfNeeded).
CredentialInv == OAuthTypeOK /\ StoredIsLive /\ NotBarredWithoutFault

\* An account that is barred, but not for a denial, has a used-up credential: a
\* Grok account even when it is authorized again meanwhile, any other one
\* unless it is.
BarredIsDead ==
  /\ seen \cap {"lapse", "redis", "denied", "clear"} = {}
  /\ platform = "grok" \/ reauths = 0
  /\ status = "error"
  => cred \notin live \/ adm.pc = "clear"

\* Whoever has stored the credential is about to delete the cached token, or
\* to write the new one.
CacheIsFollowing ==
  \/ adm.pc \in {"clear", "invalidate"}
  \/ \E w \in Workers :
       \/ wk[w].pc \in {"durable", "sync"} \/ wk[w].then = "sync"
       \/ wk[w].acct = cred /\ {wk[w].pc, wk[w].then} \cap {"check", "set"} # {}

\* Whoever changes the credential also removes the token that is cached for
\* the old one: a cached token that is not the stored one is about to go,
\* unless a request has written it late (postRefreshStateSync,
\* ApplyOAuthCredentials, GetAccessToken).
StaleTokenGoes ==
  /\ ~late /\ seen \cap {"redis", "db", "crash"} = {}
  /\ cache \notin {0, cred}
  => CacheIsFollowing

\* A request that goes on to cache its token after the comparison of the
\* versions has the stored one at that moment: versions tell credentials
\* apart as long as refreshes only change them (CheckTokenVersion).
CheckedIsStored ==
  [][\A w \in Requests :
       /\ wk[w].pc = "check" /\ wk'[w].pc = "set"
       /\ reauths = 0 /\ "db" \notin seen'
       => wk[w].acct = cred]_oauthVars

\* A credential that is due is refreshed, or its account barred.
DueIsRefreshed ==
  (cred \in due /\ status = "active") ~> (cred \notin due \/ status # "active")

\* "... and avoid quarantining a concurrently reauthorized account"
\* (oauth_refresh_api.go:283-285): no barred account has a live credential.
ReauthorizedNotBarred ==
  status = "error" => cred \notin live \/ adm.pc = "clear"

\* After a refresh has stored the new token and deleted the cached one, "the
\* old account object of the request should not be written to the cache"
\* (token_cache_invalidator.go:75-77).
OldNotCached == cache \notin {0, cred} => CacheIsFollowing

=============================================================================
