---------------------------- MODULE TokenRefresh ----------------------------
(***************************************************************************)
(* OAuth tokens of one connection to a provider that rotates refresh       *)
(* tokens: each refresh uses the token up and issues another.  Tasks of    *)
(* several server processes resolve the connection's credentials while     *)
(* users may authorize it again.  A token pair is named by the number of   *)
(* its issue.                                                              *)
(***************************************************************************)
EXTENDS Integers

CONSTANTS
    Tasks,      \* requests that need the connection's credentials
    Processes,  \* server processes on the same database
    Home,       \* the process of a task
    MaxTokens,  \* bound: how many token pairs the provider issues
    Hazards     \* what may happen: "crash", "lost", "drop", "database",
                \* "reauthorize"

Nobody == "nobody"

ASSUME TokenAssumption ==
    /\ Home \in [Tasks -> Processes]
    /\ MaxTokens \in Nat \ {0}
    /\ Nobody \notin Tasks

VARIABLES
    conn,      \* connection_data_entity: at, rt, hash, status
    live,      \* the refresh token the provider accepts, its latest
    fresh,     \* access tokens that expire later than the refresh margin
    cache,     \* TOKEN_CACHE of a process; 0 when there is no entry
    lock,      \* REFRESH_LOCKS of a process: the task that holds it
    failure,   \* REFRESH_ERRORS of a process, within the cooldown
    task,      \* per task: location, parameters read, tokens received
    callback,  \* tokens an OAuth callback has not stored yet; 0 if none
    spender,   \* history: the process that has used a refresh token up
    faulted,   \* history: a crash, a lost answer, a database error, a drop
    dropped,   \* history: pairs cached by requests that ended before the write
    renewed    \* history: a user has authorized again

provider == <<live, fresh, spender>>
memory == <<cache, lock, failure>>
history == <<faulted, dropped, renewed>>
vars == <<conn, provider, memory, task, callback, history>>

Tokens == 1 .. MaxTokens

None == 0

Idle == [pc |-> "idle", at |-> None, rt |-> None, new |-> None]

(* A connection that has been authorized and never refreshed.              *)
Init ==
    /\ conn = [at |-> 1, rt |-> 1, hash |-> None, status |-> "active"]
    /\ live = 1 /\ fresh = {1}
    /\ spender = [n \in Tokens |-> {}]
    /\ cache = [p \in Processes |-> None]
    /\ lock = [p \in Processes |-> Nobody]
    /\ failure = [p \in Processes |-> "none"]
    /\ task = [t \in Tasks |-> Idle]
    /\ callback = None
    /\ faulted = FALSE /\ dropped = {} /\ renewed = FALSE

At(t, l) == task[t].pc = l

Goto(t, l) == task' = [task EXCEPT ![t] = IF l = "idle" THEN Idle
                                          ELSE [@ EXCEPT !.pc = l]]

Fault(hazard) == hazard \in Hazards /\ faulted' = TRUE

(***************************************************************************)
(* The provider (external)                                                 *)
(***************************************************************************)
Issue ==
    /\ live < MaxTokens
    /\ live' = live + 1
    /\ fresh' = fresh \cup {live + 1}

(* Access tokens live for an hour, a resolution for seconds: a token does  *)
(* not come within the margin before every resolution that read older      *)
(* parameters is over.                                                     *)
Expire(n) ==
    /\ n \in fresh
    /\ \A t \in Tasks : At(t, "idle") \/ task[t].rt >= n
    /\ fresh' = fresh \ {n}
    /\ UNCHANGED <<conn, live, spender, memory, task, callback, history>>

(***************************************************************************)
(* resolve_connection_auth, with parameters read before                    *)
(***************************************************************************)
ReadParameters(t) ==
    /\ At(t, "idle")
    /\ task' = [task EXCEPT ![t] = [pc |-> "resolve", at |-> conn.at,
                                    rt |-> conn.rt, new |-> None]]
    /\ UNCHANGED <<conn, provider, memory, callback, history>>

Cached(p) == cache[p] \in fresh

(* The stored access token, the cached one, or the wait for the lock.      *)
FastPath(t) ==
    /\ At(t, "resolve")
    /\ LET p == Home[t] IN
       \/ /\ task[t].at \in fresh
          /\ cache' = [cache EXCEPT ![p] = task[t].at]
          /\ Goto(t, "idle")
       \/ /\ task[t].at \notin fresh
          /\ Goto(t, IF Cached(p) THEN "idle" ELSE "wait")
          /\ UNCHANGED cache
    /\ UNCHANGED <<conn, provider, lock, failure, callback, history>>

Unlock(t) == lock' = [lock EXCEPT ![Home[t]] = Nobody]

(* An error the provider's reauth_on_error_codes name marks the connection *)
AfterFailure(f) == IF f = "invalid_grant" THEN "flip" ELSE "idle"

(* Mutant: the guard is not kept for the request ("let _ = lock").         *)
EnterUnguarded(t) == Goto(t, "request") /\ UNCHANGED lock

(* With the lock: the cache once more, a recent failure, or the request.   *)
Enter(t) ==
    /\ lock' = [lock EXCEPT ![Home[t]] = t]
    /\ Goto(t, "request")

(* Mutant: the cache is not looked at again.                               *)
NoDoubleCheck(t) ==
    /\ At(t, "wait") /\ lock[Home[t]] = Nobody
    /\ IF failure[Home[t]] # "none"
         THEN Goto(t, AfterFailure(failure[Home[t]])) /\ UNCHANGED lock
         ELSE Enter(t)
    /\ UNCHANGED <<conn, provider, cache, failure, callback, history>>

DoubleCheck(t) ==
    /\ At(t, "wait") /\ lock[Home[t]] = Nobody
    /\ LET p == Home[t] IN
       \/ /\ Cached(p)
          /\ Goto(t, "idle") /\ UNCHANGED lock
       \/ /\ ~Cached(p) /\ failure[p] # "none"
          /\ Goto(t, AfterFailure(failure[p])) /\ UNCHANGED lock
       \/ /\ ~Cached(p) /\ failure[p] = "none"
          /\ Enter(t)
    /\ UNCHANGED <<conn, provider, cache, failure, callback, history>>

(* The token endpoint answers the request of refresh_oauth_access_token.   *)
Grant(t) ==
    /\ At(t, "request") /\ task[t].rt = live
    /\ Issue
    /\ spender' = [spender EXCEPT ![live] = {Home[t]}]
    /\ task' = [task EXCEPT ![t] = [pc |-> "granted", at |-> task[t].at,
                                    rt |-> task[t].rt, new |-> live + 1]]
    /\ UNCHANGED <<conn, memory, callback, history>>

Refuse(t) ==
    /\ At(t, "request") /\ task[t].rt # live
    /\ Goto(t, "refused")
    /\ UNCHANGED <<conn, provider, memory, callback, history>>

(* The new access token is cached and the lock released.                   *)
Refreshed(t) ==
    /\ At(t, "granted")
    /\ failure' = [failure EXCEPT ![Home[t]] = "none"]
    /\ cache' = [cache EXCEPT ![Home[t]] = task[t].new]
    /\ Unlock(t) /\ Goto(t, "persist")
    /\ UNCHANGED <<conn, provider, callback, history>>

Rejected(t) ==
    /\ At(t, "refused")
    /\ failure' = [failure EXCEPT ![Home[t]] = "invalid_grant"]
    /\ Unlock(t) /\ Goto(t, "flip")
    /\ UNCHANGED <<conn, provider, cache, callback, history>>

(* The request or its answer is lost (timeout, transport, 5xx).            *)
RefreshLost(t) ==
    /\ task[t].pc \in {"request", "granted", "refused"}
    /\ Fault("lost")
    /\ failure' = [failure EXCEPT ![Home[t]] = "transient"]
    /\ Unlock(t) /\ Goto(t, "idle")
    /\ UNCHANGED <<conn, provider, cache, callback, dropped, renewed>>

CooldownEnds(p) ==
    /\ failure[p] # "none"
    /\ failure' = [failure EXCEPT ![p] = "none"]
    /\ UNCHANGED <<conn, provider, cache, lock, task, callback, history>>

(***************************************************************************)
(* persist_rotated_credentials and maybe_flip_needs_reauth                 *)
(***************************************************************************)

(* Mutant: the new refresh token is dropped, as for client credentials.    *)
PersistDropsToken(t) ==
    IF conn.hash \in {None, task[t].rt}
      THEN [conn EXCEPT !.at = task[t].new, !.rt = None, !.hash = None]
      ELSE conn

(* persist_refreshed_oauth: no row when the hash is that of another token, *)
(* which the caller takes for a race it has lost.                          *)
PersistRefreshedOauth(t) ==
    IF conn.hash \in {None, task[t].rt}
      THEN [at |-> task[t].new, rt |-> task[t].new, hash |-> task[t].new,
            status |-> conn.status]
      ELSE conn

Persist(t) ==
    /\ At(t, "persist")
    /\ conn' = PersistRefreshedOauth(t)
    /\ Goto(t, "idle")
    /\ UNCHANGED <<provider, memory, callback, history>>

(* Mutant: the cached token stays.                                         *)
PersistFailsOpen(t) ==
    /\ At(t, "persist")
    /\ Fault("database")
    /\ conn' \in {conn, PersistRefreshedOauth(t)}
    /\ Goto(t, "idle")
    /\ UNCHANGED <<provider, memory, callback, dropped, renewed>>

(* The UPDATE fails, or has been made and its answer is lost: the cached   *)
(* token is dropped and the request fails.                                 *)
PersistFails(t) ==
    /\ At(t, "persist")
    /\ Fault("database")
    /\ conn' \in {conn, PersistRefreshedOauth(t)}
    /\ cache' = [cache EXCEPT ![Home[t]] = None]
    /\ Goto(t, "idle")
    /\ UNCHANGED <<provider, lock, failure, callback, dropped, renewed>>

(* A failed write of the status is logged and forgotten.                   *)
FlipNeedsReauth(t) ==
    /\ At(t, "flip")
    /\ \/ conn' = [conn EXCEPT !.status = "reconnect"] /\ UNCHANGED faulted
       \/ Fault("database") /\ UNCHANGED conn
    /\ Goto(t, "idle")
    /\ UNCHANGED <<provider, memory, callback, dropped, renewed>>

(***************************************************************************)
(* handle_callback: the code is exchanged, then the tokens are stored      *)
(***************************************************************************)
ExchangeCode ==
    /\ "reauthorize" \in Hazards /\ callback = None
    /\ Issue
    /\ \/ callback' = live + 1 /\ UNCHANGED faulted
       \/ Fault("lost") /\ UNCHANGED callback
    /\ renewed' = TRUE
    /\ UNCHANGED <<conn, spender, memory, task, dropped>>

(* update_parameters_and_status leaves refresh_token_hash as it is.        *)
Authorized ==
    [at |-> callback, rt |-> callback, hash |-> conn.hash, status |-> "active"]

StoreGrant ==
    /\ callback # None
    /\ \/ conn' = Authorized /\ UNCHANGED faulted
       \/ Fault("database") /\ conn' \in {conn, Authorized}
    /\ callback' = None
    /\ UNCHANGED <<provider, memory, task, dropped, renewed>>

(***************************************************************************)
(* What ends tasks                                                         *)
(***************************************************************************)

(* The future of a request is dropped where it waits, since its client has *)
(* gone: the guard of the lock goes with it.  After the write this is no   *)
(* different from Persist and FlipNeedsReauth.                             *)
Dropped(t) ==
    /\ ~At(t, "idle") /\ Fault("drop")
    /\ lock' = [lock EXCEPT ![Home[t]] = IF @ = t THEN Nobody ELSE @]
    /\ dropped' = IF At(t, "persist") THEN dropped \cup {task[t].new}
                                     ELSE dropped
    /\ Goto(t, "idle")
    /\ UNCHANGED <<conn, provider, cache, failure, callback, renewed>>

(* A process ends and is started again.                                    *)
Crash(p) ==
    /\ Fault("crash")
    /\ cache' = [cache EXCEPT ![p] = None]
    /\ lock' = [lock EXCEPT ![p] = Nobody]
    /\ failure' = [failure EXCEPT ![p] = "none"]
    /\ task' = [t \in Tasks |-> IF Home[t] = p THEN Idle ELSE task[t]]
    /\ callback' \in {None, callback}
    /\ UNCHANGED <<conn, provider, dropped, renewed>>

TaskStep(t) ==
    \/ FastPath(t) \/ DoubleCheck(t) \/ Grant(t) \/ Refuse(t)
    \/ Refreshed(t) \/ Rejected(t) \/ Persist(t) \/ FlipNeedsReauth(t)

Next ==
    \/ \E t \in Tasks :
         \/ ReadParameters(t) \/ TaskStep(t)
         \/ RefreshLost(t) \/ PersistFails(t) \/ Dropped(t)
    \/ \E n \in Tokens : Expire(n)
    \/ \E p \in Processes : CooldownEnds(p) \/ Crash(p)
    \/ ExchangeCode \/ StoreGrant

Spec == Init /\ [][Next]_vars

(***************************************************************************)
(* Properties                                                              *)
(***************************************************************************)
Locations == {"idle", "resolve", "wait", "request", "granted", "refused",
              "persist", "flip"}

OptionalTokens == Tokens \cup {None}

Connections == [at : Tokens, rt : Tokens, hash : OptionalTokens,
                status : {"active", "reconnect"}]

TaskRecords == [pc : Locations, at : OptionalTokens, rt : OptionalTokens,
                new : OptionalTokens]

(* Every variable has the type its comment gives.                          *)
TypeOK ==
    /\ conn \in Connections
    /\ live \in Tokens /\ fresh \in SUBSET Tokens
    /\ spender \in [Tokens -> SUBSET Processes]
    /\ cache \in [Processes -> OptionalTokens]
    /\ lock \in [Processes -> Tasks \cup {Nobody}]
    /\ failure \in [Processes -> {"none", "transient", "invalid_grant"}]
    /\ task \in [Tasks -> TaskRecords]
    /\ callback \in OptionalTokens
    /\ dropped \in SUBSET Tokens
    /\ faulted \in BOOLEAN /\ renewed \in BOOLEAN

(* As long as nothing fails, a process presents no refresh token that one  *)
(* of its own tasks has used up, however many tasks need the connection at *)
(* the moment its access token expires (the lock and the second look).     *)
NoSelfInvalidation ==
    ~faulted /\ ~renewed =>
        \A t \in Tasks :
            At(t, "request") => Home[t] \notin spender[task[t].rt]

(* Somebody has the token pair n and will store it.                        *)
InHand(n) == \E t \in Tasks : task[t].new = n

(* When the one refresh token the provider accepts is neither stored nor   *)
(* in the hands of a task that will store it, no process goes on with a    *)
(* cached access token as if nothing had happened: the loss shows at the   *)
(* next request (persist_rotated_credentials fails closed).  The code does *)
(* not have this for a request that is dropped between the two, which      *)
(* leaves a cached token and a stored one that is dead.                    *)
LossShows ==
    ~renewed /\ conn.rt # live /\ ~InHand(live) /\ live \notin dropped =>
        \A p \in Processes : ~Cached(p)

(* The refresh lock of a process belongs to the one task that is inside,   *)
(* and to nobody otherwise: no task enters beside another, and none waits  *)
(* for one that has gone (resolve_deferred_auth).                          *)
Inside == {"request", "granted", "refused"}

LockIsOwned ==
    /\ \A t \in Tasks : task[t].pc \in Inside => lock[Home[t]] = t
    /\ \A p \in Processes : lock[p] # Nobody =>
         Home[lock[p]] = p /\ task[lock[p]].pc \in Inside

(* Once a task has written the pair it was granted, the connection has     *)
(* that pair or a later one, so it survives a restart                      *)
(* (resolve_connection_auth; a write is only skipped when a concurrent     *)
(* rotation has stored its own).                                           *)
RotationIsStored ==
    [][\A t \in Tasks : Persist(t) => conn'.rt >= task[t].new]_vars
=============================================================================
