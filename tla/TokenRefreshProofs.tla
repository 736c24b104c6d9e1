------------------------- MODULE TokenRefreshProofs -------------------------
(***************************************************************************)
(* Proofs about TokenRefresh, for any number of tasks, processes and       *)
(* tokens.  The type invariant and the ownership of the lock are           *)
(* inductive with one fact about the tokens in hand.  The other two need   *)
(* the shape of a rotation: until a user authorizes again only the latest  *)
(* access token can be fresh, and one task at most has a pair to store.    *)
(***************************************************************************)
EXTENDS TokenRefresh, TLAPS

Holding == {"granted", "persist"}

Busy(t) == ~At(t, "idle")

(* A task has new tokens exactly from the grant to the write, and has      *)
(* parameters until it is done.                                            *)
HandsOK ==
    \A t \in Tasks :
        /\ task[t].pc \in Holding <=> task[t].new # None
        /\ Busy(t) => task[t].rt # None

(* The stored pair and the parameters read are no later than the latest    *)
(* pair, and the hash of the stored token lets every write through.        *)
ParametersInv ==
    /\ callback = None
    /\ conn.at = conn.rt /\ conn.rt <= live /\ conn.hash \in {None, conn.rt}
    /\ \A t \in Tasks :
         Busy(t) => task[t].at = task[t].rt /\ task[t].rt <= conn.rt

(* Only the latest access token is fresh, and nobody has begun to replace  *)
(* one that is.                                                            *)
FreshInv ==
    /\ \A n \in fresh : n = live
    /\ \A t \in Tasks :
         task[t].pc \in {"wait", "request"} => task[t].at \notin fresh

(* One task at most has tokens to store; they are the latest, and replace  *)
(* the stored ones.                                                        *)
HolderInv ==
    /\ \A t \in Tasks : task[t].pc \in Holding =>
         task[t].new = live /\ task[t].rt = conn.rt /\ task[t].rt < live
    /\ \A t, u \in Tasks :
         task[t].pc \in Holding /\ task[u].pc \in Holding => t = u

(* The latest token is cached where it is stored, or is about to be, or    *)
(* would have been by a request that was dropped.                          *)
CacheInv ==
    \A p \in Processes :
        /\ cache[p] <= live
        /\ cache[p] = live =>
             \/ conn.rt = live \/ live \in dropped
             \/ \E t \in Tasks : At(t, "persist") /\ Home[t] = p

Shape == ParametersInv /\ FreshInv /\ HolderInv /\ CacheInv

Rotation == ~renewed => Shape

(* Nothing is lost: the latest pair is stored or held.                     *)
StoredInv == conn.rt = live \/ \E t \in Tasks : task[t].pc \in Holding

(* A resolution that works with an older token is one behind, and the      *)
(* token it needs is fresh.                                                *)
BehindInv ==
    \A t \in Tasks : Busy(t) /\ task[t].rt < live =>
        live \in fresh /\ task[t].rt = live - 1

(* The process that has used the last token up has the latest in its       *)
(* cache, or a task about to put it there.                                 *)
SpenderInv ==
    \A p \in Processes, n \in Tokens : p \in spender[n] =>
        /\ n < live
        /\ n = live - 1 =>
             cache[p] = live \/ \E t \in Tasks : At(t, "granted") /\ Home[t] = p

Orderly == ~faulted /\ ~renewed => StoredInv /\ BehindInv /\ SpenderInv

TypeInv == TypeOK /\ HandsOK

(***************************************************************************)
(* What the updates of a record do, field by field                         *)
(***************************************************************************)
Moved(t, l) ==
    /\ task' \in [Tasks -> TaskRecords]
    /\ task'[t].pc = l
    /\ task'[t].at = (IF l = "idle" THEN None ELSE task[t].at)
    /\ task'[t].rt = (IF l = "idle" THEN None ELSE task[t].rt)
    /\ task'[t].new = (IF l = "idle" THEN None ELSE task[t].new)
    /\ \A u \in Tasks : u # t => task'[u] = task[u]

(* Goto moves one task and keeps its data, or clears it.                   *)
LEMMA GotoMoves ==
    ASSUME TypeOK, NEW t \in Tasks, NEW l \in Locations, Goto(t, l)
    PROVE  Moved(t, l)
<1>1. task \in [Tasks -> TaskRecords]
  BY DEF TypeOK, TaskRecords
<1>2. CASE l = "idle"
  <2>1. task' = [task EXCEPT ![t] =
                   [pc |-> "idle", at |-> 0, rt |-> 0, new |-> 0]]
    BY <1>2 DEF Goto, Idle, None
  <2> QED BY <1>1, <1>2, <2>1
        DEF Moved, TaskRecords, OptionalTokens, None, Locations
<1>3. CASE l # "idle"
  <2> DEFINE r == [pc |-> l, at |-> task[t].at, rt |-> task[t].rt,
                   new |-> task[t].new]
  <2>1. task[t] \in TaskRecords
    BY <1>1
  <2>2. [task[t] EXCEPT !.pc = l] = r
    BY <2>1 DEF TaskRecords
  <2>3. task' = [task EXCEPT ![t] = r]
    BY <1>3, <2>2 DEF Goto
  <2>4. r \in TaskRecords
    BY <2>1 DEF TaskRecords
  <2> QED BY <1>1, <1>3, <2>3, <2>4 DEF Moved
<1> QED BY <1>2, <1>3

(* The write of a refresh: either all three token fields or none.          *)
LEMMA PersistWrites ==
    ASSUME TypeOK, NEW t \in Tasks, task[t].new \in Tokens
    PROVE  /\ PersistRefreshedOauth(t) \in Connections
           /\ conn.hash \in {None, task[t].rt} =>
                /\ PersistRefreshedOauth(t).at = task[t].new
                /\ PersistRefreshedOauth(t).rt = task[t].new
                /\ PersistRefreshedOauth(t).hash = task[t].new
           /\ conn.hash \notin {None, task[t].rt} =>
                PersistRefreshedOauth(t) = conn
<1>1. conn \in Connections
  BY DEF TypeOK, Connections
<1> DEFINE n == task[t].new
           r == [at |-> n, rt |-> n, hash |-> n, status |-> conn.status]
<1>2. r \in Connections
  BY <1>1 DEF Connections, OptionalTokens
<1>3. PersistRefreshedOauth(t) =
        IF conn.hash \in {None, task[t].rt} THEN r ELSE conn
  BY DEF PersistRefreshedOauth
<1> QED BY <1>1, <1>2, <1>3

(* A grant gives the task the new pair and changes nothing else of it.     *)
LEMMA GrantMoves ==
    ASSUME TypeOK, NEW t \in Tasks, Grant(t)
    PROVE  /\ live + 1 \in Tokens
           /\ task' \in [Tasks -> TaskRecords]
           /\ task'[t].pc = "granted" /\ task'[t].new = live + 1
           /\ task'[t].at = task[t].at /\ task'[t].rt = task[t].rt
           /\ \A u \in Tasks : u # t => task'[u] = task[u]
<1> DEFINE r == [pc |-> "granted", at |-> task[t].at, rt |-> task[t].rt,
                 new |-> live + 1]
<1>1. task \in [Tasks -> TaskRecords] /\ task[t] \in TaskRecords
  BY DEF TypeOK, TaskRecords
<1>2. live + 1 \in Tokens
  BY TokenAssumption DEF Grant, Issue, TypeOK, Tokens
<1>3. task' = [task EXCEPT ![t] = r]
  BY DEF Grant
<1>4. r \in TaskRecords
  BY <1>1, <1>2 DEF TaskRecords, OptionalTokens, Locations
<1> QED BY <1>1, <1>2, <1>3, <1>4

(***************************************************************************)
(* Types and hands                                                         *)
(***************************************************************************)

(* Every step keeps the types and the tokens in hand.                      *)
LEMMA TypeStep ==
    ASSUME TypeInv, [Next]_vars
    PROVE  TypeInv'
<1> TypeOK /\ HandsOK
  BY DEF TypeInv
<1>a. /\ None \in OptionalTokens /\ Tokens \subseteq OptionalTokens
      /\ \A n \in OptionalTokens : n # None => n \in Tokens
  BY DEF OptionalTokens
<1>b. \A t \in Tasks : Home[t] \in Processes
  BY TokenAssumption
<1>c. \A t \in Tasks :
        /\ task[t].at \in OptionalTokens /\ task[t].rt \in OptionalTokens
        /\ task[t].new \in OptionalTokens
  BY DEF TypeOK, TaskRecords
<1> USE DEF provider, memory, history
<1>1. ASSUME NEW t \in Tasks, ReadParameters(t)
      PROVE  TypeInv'
  <2>1. conn.at \in Tokens /\ conn.rt \in Tokens
    BY DEF TypeOK, Connections
  <2> DEFINE r == [pc |-> "resolve", at |-> conn.at, rt |-> conn.rt,
                   new |-> None]
  <2>2. r \in TaskRecords
    BY <1>a, <2>1 DEF TaskRecords, Locations
  <2>3. task' = [task EXCEPT ![t] = r]
    BY <1>1 DEF ReadParameters
  <2>4. TypeOK'
    BY <1>1, <2>2, <2>3 DEF ReadParameters, TypeOK
  <2>5. r.rt # None
    BY <2>1, TokenAssumption DEF None, Tokens
  <2>6. HandsOK'
    BY <2>3, <2>5 DEF HandsOK, Holding, Busy, At, TypeOK
  <2> QED BY <2>4, <2>6 DEF TypeInv
<1>2. ASSUME NEW t \in Tasks, FastPath(t)
      PROVE  TypeInv'
  <2>1. PICK l \in {"idle", "wait"} : Goto(t, l)
    BY <1>2 DEF FastPath
  <2>2. Moved(t, l)
    BY <2>1, GotoMoves DEF Locations
  <2>3. TypeOK'
    BY <1>2, <1>b, <1>c, <2>2 DEF FastPath, Moved, TypeOK
  <2>4. HandsOK'
    BY <1>2, <2>2 DEF FastPath, HandsOK, Moved, Holding, Busy, At
  <2> QED BY <2>3, <2>4 DEF TypeInv
<1>3. ASSUME NEW t \in Tasks, DoubleCheck(t)
      PROVE  TypeInv'
  <2>1. PICK l \in {"idle", "flip", "request"} : Goto(t, l)
    BY <1>3 DEF DoubleCheck, Enter, AfterFailure
  <2>2. Moved(t, l)
    BY <2>1, GotoMoves DEF Locations
  <2>3. TypeOK'
    BY <1>3, <1>b, <2>2 DEF DoubleCheck, Enter, Moved, TypeOK
  <2>4. HandsOK'
    BY <1>3, <2>2 DEF DoubleCheck, HandsOK, Moved, Holding, Busy, At
  <2> QED BY <2>3, <2>4 DEF TypeInv
<1>4. ASSUME NEW t \in Tasks, Grant(t)
      PROVE  TypeInv'
  <2>1. spender' \in [Tokens -> SUBSET Processes]
    BY <1>4, <1>b DEF Grant, TypeOK
  <2>2. TypeOK'
    BY <1>4, <2>1, GrantMoves DEF Grant, Issue, TypeOK
  <2>3. live + 1 # None
    BY DEF TypeOK, None, Tokens
  <2>4. HandsOK'
    BY <1>4, <2>3, GrantMoves DEF Grant, HandsOK, Holding, Busy, At
  <2> QED BY <2>2, <2>4 DEF TypeInv
<1>5. ASSUME NEW t \in Tasks, Refuse(t) \/ Refreshed(t) \/ Rejected(t)
      PROVE  TypeInv'
  <2>1. PICK l \in {"refused", "persist", "flip"} :
          Goto(t, l) /\ (l = "persist" <=> At(t, "granted"))
    BY <1>5 DEF Refuse, Refreshed, Rejected, At
  <2>2. Moved(t, l)
    BY <2>1, GotoMoves DEF Locations
  <2>3. TypeOK'
    BY <1>5, <1>b, <1>c, <2>2
    DEF Refuse, Refreshed, Rejected, Unlock, Moved, TypeOK
  <2>4. HandsOK'
    BY <1>5, <2>1, <2>2
    DEF Refuse, Refreshed, Rejected, HandsOK, Moved, Holding, Busy, At
  <2> QED BY <2>3, <2>4 DEF TypeInv
<1>6. ASSUME NEW t \in Tasks, Persist(t) \/ PersistFails(t)
      PROVE  TypeInv'
  <2>1. Moved(t, "idle")
    BY <1>6, GotoMoves DEF Persist, PersistFails, Locations
  <2>2. task[t].new \in Tokens
    BY <1>6, <1>a, <1>c DEF Persist, PersistFails, HandsOK, At, Holding
  <2>3. conn' \in Connections
    BY <1>6, <2>2, PersistWrites DEF Persist, PersistFails, TypeOK
  <2>4. TypeOK'
    BY <1>6, <1>a, <1>b, <2>1, <2>3
    DEF Persist, PersistFails, Fault, Moved, TypeOK
  <2>5. HandsOK'
    BY <2>1 DEF HandsOK, Moved, Holding, Busy, At
  <2> QED BY <2>4, <2>5 DEF TypeInv
<1>7. ASSUME NEW t \in Tasks, RefreshLost(t)
      PROVE  TypeInv'
  <2>1. Moved(t, "idle")
    BY <1>7, GotoMoves DEF RefreshLost, Locations
  <2>2. TypeOK'
    BY <1>7, <1>b, <2>1 DEF RefreshLost, Fault, Unlock, Moved, TypeOK
  <2>3. HandsOK'
    BY <2>1 DEF HandsOK, Moved, Holding, Busy, At
  <2> QED BY <2>2, <2>3 DEF TypeInv
<1>8. ASSUME NEW t \in Tasks, FlipNeedsReauth(t)
      PROVE  TypeInv'
  <2>1. Moved(t, "idle")
    BY <1>8, GotoMoves DEF FlipNeedsReauth, Locations
  <2>2. conn' \in Connections
    BY <1>8 DEF FlipNeedsReauth, TypeOK, Connections
  <2>3. TypeOK'
    BY <1>8, <2>1, <2>2 DEF FlipNeedsReauth, Fault, Moved, TypeOK
  <2>4. HandsOK'
    BY <2>1 DEF HandsOK, Moved, Holding, Busy, At
  <2> QED BY <2>3, <2>4 DEF TypeInv
<1>9. ASSUME NEW n \in Tokens, Expire(n)
      PROVE  TypeInv'
  BY <1>9 DEF Expire, TypeInv, TypeOK, HandsOK, Busy, At
<1>10. ASSUME NEW p \in Processes, CooldownEnds(p)
       PROVE  TypeInv'
  BY <1>10 DEF CooldownEnds, TypeInv, TypeOK, HandsOK, Busy, At
<1>11. ASSUME NEW p \in Processes, Crash(p)
       PROVE  TypeInv'
  <2>1. Idle \in TaskRecords
    BY <1>a DEF Idle, TaskRecords, Locations
  <2>2. TypeOK'
    BY <1>11, <1>a, <2>1 DEF Crash, Fault, TypeOK
  <2>3. HandsOK'
    BY <1>11 DEF Crash, HandsOK, Idle, None, Holding, Busy, At
  <2> QED BY <2>2, <2>3 DEF TypeInv
<1>12. ASSUME ExchangeCode
       PROVE  TypeInv'
  <2>1. live + 1 \in Tokens
    BY <1>12, TokenAssumption DEF ExchangeCode, Issue, TypeOK, Tokens
  <2> QED BY <1>12, <2>1, <1>a
    DEF ExchangeCode, Fault, Issue, TypeInv, TypeOK, HandsOK, Busy, At
<1>13. ASSUME StoreGrant
       PROVE  TypeInv'
  <2>1. callback \in Tokens /\ conn.hash \in OptionalTokens
    BY <1>13, <1>a DEF StoreGrant, TypeOK, Connections
  <2>2. conn' \in Connections
    BY <1>13, <2>1 DEF StoreGrant, Authorized, Connections, TypeOK
  <2> QED BY <1>13, <1>a, <2>2
    DEF StoreGrant, Fault, TypeInv, TypeOK, HandsOK, Busy, At
<1>14. ASSUME NEW t \in Tasks, Dropped(t)
       PROVE  TypeInv'
  <2>1. Moved(t, "idle")
    BY <1>14, GotoMoves DEF Dropped, Locations
  <2>2. At(t, "persist") => task[t].new \in Tokens
    BY <1>a, <1>c DEF HandsOK, At, Holding
  <2>3. lock' \in [Processes -> Tasks \cup {Nobody}]
    BY <1>14, <1>b DEF Dropped, TypeOK
  <2>4. TypeOK'
    BY <1>14, <2>1, <2>2, <2>3 DEF Dropped, Fault, Moved, TypeOK
  <2>5. HandsOK'
    BY <2>1 DEF HandsOK, Moved, Holding, Busy, At
  <2> QED BY <2>4, <2>5 DEF TypeInv
<1>15. ASSUME UNCHANGED vars
       PROVE  TypeInv'
  BY <1>15 DEF vars, TypeInv, TypeOK, HandsOK, Busy, At
<1> QED
  BY <1>1, <1>2, <1>3, <1>4, <1>5, <1>6, <1>7, <1>8, <1>9, <1>10, <1>11,
     <1>12, <1>13, <1>14, <1>15 DEF Next, TaskStep

(* The initial states have the types.                                      *)
LEMMA TypeInit == Init => TypeInv
<1> SUFFICES ASSUME Init PROVE TypeInv
  OBVIOUS
<1> USE TokenAssumption DEF Init, Idle, None, Tokens, OptionalTokens
<1>a. 1 \in Tokens
  OBVIOUS
<1>b. conn \in Connections
  BY <1>a DEF Connections
<1>c. Idle \in TaskRecords
  BY DEF TaskRecords, Locations
<1>d. spender \in [Tokens -> SUBSET Processes]
  OBVIOUS
<1>1. TypeOK
  BY <1>a, <1>b, <1>c, <1>d DEF TypeOK
<1>2. HandsOK
  BY DEF HandsOK, Holding, Busy, At
<1> QED BY <1>1, <1>2 DEF TypeInv

(* Every variable has its type: the model checks of TypeOK hold for any    *)
(* number of tasks, processes and tokens (resolve_connection_auth and the  *)
(* OAuth callback).                                                        *)
THEOREM TypeCorrect == Spec => []TypeOK
<1>1. TypeInv => TypeOK
  BY DEF TypeInv
<1> QED BY TypeInit, TypeStep, <1>1, PTL DEF Spec

(***************************************************************************)
(* The refresh lock                                                        *)
(***************************************************************************)

(* Every step keeps the lock with the task that is inside.                 *)
LEMMA LockStep ==
    ASSUME TypeInv, LockIsOwned, [Next]_vars
    PROVE  LockIsOwned'
<1> TypeOK
  BY DEF TypeInv
<1>a. \A t \in Tasks : Home[t] \in Processes /\ t # Nobody
  BY TokenAssumption
<1>b. /\ lock \in [Processes -> Tasks \cup {Nobody}]
      /\ task \in [Tasks -> TaskRecords]
  BY DEF TypeOK
<1> USE DEF provider, memory, history, LockIsOwned, Inside, At
<1>1. ASSUME NEW t \in Tasks, ReadParameters(t)
      PROVE  LockIsOwned'
  BY <1>1, <1>a, <1>b DEF ReadParameters
<1>2. ASSUME NEW t \in Tasks, FastPath(t)
      PROVE  LockIsOwned'
  <2>1. PICK l \in {"idle", "wait"} : Goto(t, l)
    BY <1>2 DEF FastPath
  <2>2. Moved(t, l)
    BY <2>1, GotoMoves DEF Locations
  <2> QED BY <1>2, <1>a, <1>b, <2>2 DEF FastPath, Moved
<1>3. ASSUME NEW t \in Tasks, DoubleCheck(t)
      PROVE  LockIsOwned'
  <2>1. PICK l \in {"idle", "flip", "request"} :
          /\ Goto(t, l)
          /\ lock' = IF l = "request" THEN [lock EXCEPT ![Home[t]] = t]
                     ELSE lock
    BY <1>3 DEF DoubleCheck, Enter, AfterFailure
  <2>2. Moved(t, l)
    BY <2>1, GotoMoves DEF Locations
  <2> QED BY <1>3, <1>a, <1>b, <2>1, <2>2 DEF DoubleCheck, Moved
<1>4. ASSUME NEW t \in Tasks, Grant(t)
      PROVE  LockIsOwned'
  BY <1>4, <1>a, <1>b, GrantMoves DEF Grant
<1>5. ASSUME NEW t \in Tasks, Refuse(t)
      PROVE  LockIsOwned'
  <2>1. Moved(t, "refused")
    BY <1>5, GotoMoves DEF Refuse, Locations
  <2> QED BY <1>5, <1>a, <1>b, <2>1 DEF Refuse, Moved
<1>6. ASSUME NEW t \in Tasks, Refreshed(t) \/ Rejected(t) \/ RefreshLost(t)
      PROVE  LockIsOwned'
  <2>1. PICK l \in {"persist", "flip", "idle"} : Goto(t, l)
    BY <1>6 DEF Refreshed, Rejected, RefreshLost
  <2>2. Moved(t, l)
    BY <2>1, GotoMoves DEF Locations
  <2>3. task[t].pc \in Inside /\ lock' = [lock EXCEPT ![Home[t]] = Nobody]
    BY <1>6 DEF Refreshed, Rejected, RefreshLost, Unlock
  <2> QED BY <1>a, <1>b, <2>2, <2>3 DEF Moved
<1>7. ASSUME NEW t \in Tasks,
             Persist(t) \/ PersistFails(t) \/ FlipNeedsReauth(t)
      PROVE  LockIsOwned'
  <2>1. Moved(t, "idle")
    BY <1>7, GotoMoves DEF Persist, PersistFails, FlipNeedsReauth, Locations
  <2> QED BY <1>7, <1>a, <1>b, <2>1
    DEF Persist, PersistFails, FlipNeedsReauth, Moved
<1>8. ASSUME NEW p \in Processes, Crash(p)
      PROVE  LockIsOwned'
  BY <1>8, <1>a, <1>b DEF Crash, Idle
<1>9. ASSUME UNCHANGED <<lock, task>>
      PROVE  LockIsOwned'
  BY <1>9
<1>10. ASSUME NEW n \in Tokens, Expire(n)
       PROVE  LockIsOwned'
  BY <1>9, <1>10 DEF Expire
<1>11. ASSUME NEW p \in Processes, CooldownEnds(p)
       PROVE  LockIsOwned'
  BY <1>9, <1>11 DEF CooldownEnds
<1>12. ASSUME ExchangeCode \/ StoreGrant \/ UNCHANGED vars
       PROVE  LockIsOwned'
  BY <1>9, <1>12 DEF ExchangeCode, StoreGrant, vars
<1>13. ASSUME NEW t \in Tasks, Dropped(t)
       PROVE  LockIsOwned'
  <2>1. Moved(t, "idle")
    BY <1>13, GotoMoves DEF Dropped, Locations
  <2>2. \A p \in Processes :
          lock'[p] = IF p = Home[t] /\ lock[p] = t THEN Nobody ELSE lock[p]
    BY <1>13, <1>b DEF Dropped
  <2> QED BY <1>a, <1>b, <2>1, <2>2 DEF Moved
<1> QED
  BY <1>1, <1>2, <1>3, <1>4, <1>5, <1>6, <1>7, <1>8, <1>10, <1>11, <1>12,
     <1>13 DEF Next, TaskStep

(* The refresh lock of a process is held by the one task that is inside,   *)
(* and by nobody otherwise, whatever crashes or is lost                    *)
(* (resolve_deferred_auth).                                                *)
THEOREM LockOwned == Spec => []LockIsOwned
<1>1. Init => LockIsOwned
  BY TokenAssumption DEF Init, LockIsOwned, Inside, Idle
<1> QED BY TypeInit, TypeStep, LockStep, <1>1, PTL DEF Spec

(***************************************************************************)
(* A rotation, until a user authorizes again                               *)
(***************************************************************************)

(* The token numbers are natural numbers, the latest one positive.         *)
LEMMA Numbers ==
    ASSUME TypeOK
    PROVE  /\ live \in Nat \ {0} /\ conn.at \in Nat /\ conn.rt \in Nat \ {0}
           /\ conn.hash \in Nat
           /\ \A p \in Processes : cache[p] \in Nat
           /\ \A n \in fresh : n \in Nat \ {0}
           /\ \A t \in Tasks : /\ task[t].at \in Nat /\ task[t].rt \in Nat
                               /\ task[t].new \in Nat
<1>1. \A n \in Tokens : n \in Nat \ {0}
  BY TokenAssumption DEF Tokens
<1>2. \A n \in OptionalTokens : n \in Nat
  BY <1>1 DEF OptionalTokens, None
<1> QED BY <1>1, <1>2 DEF TypeOK, Connections, TaskRecords

(* The steps that only move a task keep the shape of the rotation.         *)
LEMMA ShapeAfterResolve ==
    ASSUME TypeInv, Shape, NEW t \in Tasks,
           \/ ReadParameters(t) \/ FastPath(t) \/ DoubleCheck(t)
           \/ Refuse(t) \/ Rejected(t) \/ FlipNeedsReauth(t)
    PROVE  Shape'
<1> USE DEF Shape, TypeInv, provider, memory, history
<1>a. TypeOK /\ HandsOK
  OBVIOUS
<1>b. Home \in [Tasks -> Processes]
  BY TokenAssumption
<1>c. /\ cache \in [Processes -> OptionalTokens]
      /\ task \in [Tasks -> TaskRecords] /\ conn \in Connections
  BY DEF TypeOK
<1>1. CASE ReadParameters(t)
  <2>1. /\ task'[t].pc = "resolve" /\ task'[t].at = conn.at
        /\ task'[t].rt = conn.rt
        /\ \A u \in Tasks : u # t => task'[u] = task[u]
    BY <1>1, <1>c DEF ReadParameters
  <2>2. /\ UNCHANGED <<conn, live, fresh, cache, callback, dropped>>
        /\ At(t, "idle")
    BY <1>1 DEF ReadParameters
  <2>3. ParametersInv' /\ FreshInv'
    BY <2>1, <2>2, Numbers DEF ParametersInv, FreshInv, Busy, At
  <2>4. HolderInv'
    BY <2>1, <2>2 DEF HolderInv, Holding
  <2>5. CacheInv'
    BY <2>1, <2>2 DEF CacheInv, At
  <2> QED BY <2>3, <2>4, <2>5
<1>2. CASE FastPath(t)
  <2>1. PICK l \in {"idle", "wait"} :
          Goto(t, l) /\ (l = "wait" => task[t].at \notin fresh)
    BY <1>2 DEF FastPath
  <2>2. Moved(t, l)
    BY <2>1, GotoMoves DEF Locations
  <2>3. UNCHANGED <<conn, live, fresh, callback, dropped>> /\ At(t, "resolve")
    BY <1>2 DEF FastPath
  <2>5. ParametersInv' /\ FreshInv'
    BY <2>1, <2>2, <2>3 DEF Moved, ParametersInv, FreshInv, Busy, At, None
  <2>6. HolderInv'
    BY <2>2, <2>3 DEF Moved, HolderInv, Holding, At
  <2>7. \A p \in Processes :
          cache'[p] = cache[p] \/ (cache'[p] = live /\ conn.rt = live)
    BY <1>2, <1>b, <1>c, Numbers
    DEF FastPath, FreshInv, ParametersInv, Busy, At
  <2>8. CacheInv'
    BY <2>2, <2>3, <2>7, Numbers DEF Moved, CacheInv, At
  <2> QED BY <2>5, <2>6, <2>8
<1>3. CASE DoubleCheck(t) \/ Refuse(t) \/ Rejected(t)
  <2>1. PICK l \in {"idle", "flip", "request", "refused"} :
          Goto(t, l) /\ (l = "request" => At(t, "wait"))
    BY <1>3 DEF DoubleCheck, Enter, AfterFailure, Refuse, Rejected
  <2>2. Moved(t, l)
    BY <2>1, GotoMoves DEF Locations
  <2>3. /\ UNCHANGED <<conn, live, fresh, cache, callback, dropped>>
        /\ task[t].pc \in {"wait", "request", "refused"}
    BY <1>3 DEF DoubleCheck, Refuse, Rejected, At
  <2>4. ParametersInv' /\ FreshInv'
    BY <2>1, <2>2, <2>3 DEF Moved, ParametersInv, FreshInv, Busy, At, None
  <2>5. HolderInv'
    BY <2>2, <2>3 DEF Moved, HolderInv, Holding
  <2>6. CacheInv'
    BY <2>2, <2>3 DEF Moved, CacheInv, At
  <2> QED BY <2>4, <2>5, <2>6
<1>4. CASE FlipNeedsReauth(t)
  <2>1. Moved(t, "idle")
    BY <1>4, GotoMoves DEF FlipNeedsReauth, Locations
  <2>2. /\ UNCHANGED <<live, fresh, cache, callback, dropped>> /\ At(t, "flip")
        /\ conn' \in {conn, [conn EXCEPT !.status = "reconnect"]}
    BY <1>4 DEF FlipNeedsReauth
  <2>3. conn'.at = conn.at /\ conn'.rt = conn.rt /\ conn'.hash = conn.hash
    BY <1>c, <2>2 DEF Connections
  <2>4. ParametersInv' /\ FreshInv'
    BY <2>1, <2>2, <2>3 DEF Moved, ParametersInv, FreshInv, Busy, At, None
  <2>5. HolderInv'
    BY <2>1, <2>2, <2>3 DEF Moved, HolderInv, Holding, At
  <2>6. CacheInv'
    BY <2>1, <2>2, <2>3 DEF Moved, CacheInv, At
  <2> QED BY <2>4, <2>5, <2>6
<1> QED BY <1>1, <1>2, <1>3, <1>4

(* A grant makes its task the one holder, of a token that is the latest    *)
(* and replaces the stored one.                                            *)
LEMMA ShapeAfterGrant ==
    ASSUME TypeInv, Shape, NEW t \in Tasks, Grant(t)
    PROVE  /\ Shape'
           /\ fresh = {} /\ conn.rt = live
           /\ \A u \in Tasks : task[u].pc \notin Holding
<1> USE DEF Shape, TypeInv
<1>1. /\ task[t].rt = live /\ At(t, "request") /\ live' = live + 1
      /\ fresh' = fresh \cup {live + 1}
      /\ UNCHANGED <<conn, cache, callback>>
  BY DEF Grant, Issue, memory
<1>2. /\ task'[t].pc = "granted" /\ task'[t].new = live + 1
      /\ task'[t].at = task[t].at /\ task'[t].rt = task[t].rt
      /\ \A u \in Tasks : u # t => task'[u] = task[u]
  BY GrantMoves
<1>3. conn.rt = live
  BY <1>1, Numbers DEF ParametersInv, Busy, At
<1>4. \A u \in Tasks : task[u].pc \notin Holding
  BY <1>3, Numbers DEF HolderInv
<1>5. fresh = {}
  BY <1>1 DEF FreshInv, ParametersInv, Busy, At
<1>6. ParametersInv'
  BY <1>1, <1>2, Numbers DEF ParametersInv, Busy, At
<1>7. FreshInv'
  BY <1>1, <1>2, <1>5, <1>6, Numbers DEF FreshInv, ParametersInv, Busy, At
<1>8. HolderInv'
  BY <1>1, <1>2, <1>3, <1>4, Numbers DEF HolderInv
<1>9. CacheInv'
  BY <1>1, Numbers DEF CacheInv
<1> QED BY <1>3, <1>4, <1>5, <1>6, <1>7, <1>8, <1>9

(* Where the refreshed token goes: to the cache, then to the connection,   *)
(* or nowhere at all.                                                      *)
LEMMA ShapeAfterRefresh ==
    ASSUME TypeInv, Shape, NEW t \in Tasks,
           \/ Refreshed(t) \/ RefreshLost(t) \/ Persist(t) \/ PersistFails(t)
           \/ Dropped(t)
    PROVE  Shape'
<1> USE DEF Shape, TypeInv, provider, memory, history
<1>a. TypeOK /\ HandsOK
  OBVIOUS
<1>b. Home \in [Tasks -> Processes]
  BY TokenAssumption
<1>c. /\ cache \in [Processes -> OptionalTokens]
      /\ task \in [Tasks -> TaskRecords] /\ conn \in Connections
  BY DEF TypeOK
<1>1. CASE Refreshed(t)
  <2>1. Moved(t, "persist")
    BY <1>1, GotoMoves DEF Refreshed, Locations
  <2>2. /\ UNCHANGED <<conn, live, fresh, callback, dropped>>
        /\ At(t, "granted")
        /\ cache' = [cache EXCEPT ![Home[t]] = task[t].new]
    BY <1>1 DEF Refreshed
  <2>3. ParametersInv' /\ FreshInv'
    BY <2>1, <2>2 DEF Moved, ParametersInv, FreshInv, Busy, At
  <2>4. HolderInv'
    BY <2>1, <2>2 DEF Moved, HolderInv, Holding, At
  <2>5. task[t].new = live
    BY <2>2 DEF HolderInv, Holding, At
  <2>6. CacheInv'
    BY <1>b, <1>c, <2>1, <2>2, <2>5, Numbers DEF Moved, CacheInv, At
  <2> QED BY <2>3, <2>4, <2>6
<1>2. CASE RefreshLost(t)
  <2>1. Moved(t, "idle")
    BY <1>2, GotoMoves DEF RefreshLost, Locations
  <2>2. /\ UNCHANGED <<conn, live, fresh, cache, callback, dropped>>
        /\ task[t].pc \in {"request", "granted", "refused"}
    BY <1>2 DEF RefreshLost
  <2>3. ParametersInv' /\ FreshInv'
    BY <2>1, <2>2 DEF Moved, ParametersInv, FreshInv, Busy, At
  <2>4. HolderInv'
    BY <2>1, <2>2 DEF Moved, HolderInv, Holding
  <2>5. CacheInv'
    BY <2>1, <2>2 DEF Moved, CacheInv, At
  <2> QED BY <2>3, <2>4, <2>5
<1>3. CASE Persist(t) \/ PersistFails(t)
  <2>1. Moved(t, "idle")
    BY <1>3, GotoMoves DEF Persist, PersistFails, Locations
  <2>2. /\ UNCHANGED <<live, fresh, callback, dropped>> /\ At(t, "persist")
        /\ \/ UNCHANGED cache
           \/ cache' = [cache EXCEPT ![Home[t]] = None]
        /\ \/ conn' = PersistRefreshedOauth(t)
           \/ conn' = conn /\ cache' = [cache EXCEPT ![Home[t]] = None]
    BY <1>3 DEF Persist, PersistFails
  <2>3. /\ task[t].new = live /\ task[t].rt = conn.rt /\ task[t].rt < live
        /\ \A u \in Tasks : task[u].pc \in Holding => u = t
    BY <2>2 DEF HolderInv, Holding, At
  <2>4. /\ conn'.at = conn'.rt /\ conn'.hash \in {None, conn'.rt}
        /\ \/ conn'.rt = live
           \/ conn' = conn /\ cache' = [cache EXCEPT ![Home[t]] = None]
    <3>1. task[t].new \in Tokens
      BY <2>3 DEF TypeOK
    <3>2. conn.hash \in {None, task[t].rt}
      BY <2>3 DEF ParametersInv
    <3> QED BY <2>2, <2>3, <3>1, <3>2, PersistWrites DEF ParametersInv
  <2>5. ParametersInv'
    BY <2>1, <2>2, <2>3, <2>4, Numbers DEF Moved, ParametersInv, Busy, At
  <2>6. FreshInv'
    BY <2>1, <2>2 DEF Moved, FreshInv, At
  <2>7. HolderInv'
    BY <2>1, <2>2, <2>3 DEF Moved, HolderInv, Holding
  <2>8. CacheInv'
    <3>1. CASE conn'.rt = live
      BY <1>b, <1>c, <2>2, <3>1, Numbers DEF CacheInv, None
    <3>2. CASE conn' = conn /\ cache' = [cache EXCEPT ![Home[t]] = None]
      <4>1. \A p \in Processes : cache'[p] = live => live \in dropped
        BY <1>b, <1>c, <2>3, <3>2, Numbers DEF CacheInv, None, At, Holding
      <4>2. \A p \in Processes : cache'[p] <= live
        BY <1>b, <1>c, <3>2, Numbers DEF CacheInv, None
      <4> QED BY <2>2, <4>1, <4>2 DEF CacheInv
    <3> QED BY <2>4, <3>1, <3>2
  <2> QED BY <2>5, <2>6, <2>7, <2>8
<1>4. CASE Dropped(t)
  <2>1. Moved(t, "idle")
    BY <1>4, GotoMoves DEF Dropped, Locations
  <2>2. /\ UNCHANGED <<conn, live, fresh, cache, callback>>
        /\ dropped \subseteq dropped'
        /\ At(t, "persist") => task[t].new \in dropped'
    BY <1>4 DEF Dropped
  <2>3. ParametersInv' /\ FreshInv'
    BY <2>1, <2>2 DEF Moved, ParametersInv, FreshInv, Busy, At
  <2>4. HolderInv'
    BY <2>1, <2>2 DEF Moved, HolderInv, Holding
  <2>5. At(t, "persist") => live \in dropped'
    BY <2>2 DEF HolderInv, Holding, At
  <2>6. CacheInv'
    BY <2>1, <2>2, <2>5 DEF Moved, CacheInv, At
  <2> QED BY <2>3, <2>4, <2>6
<1> QED BY <1>1, <1>2, <1>3, <1>4

(* Every step keeps the shape of the rotation, until a user authorizes     *)
(* again.                                                                  *)
LEMMA RotationStep ==
    ASSUME TypeInv, Rotation, [Next]_vars
    PROVE  Rotation'
<1> SUFFICES ASSUME ~renewed' PROVE Shape'
  BY DEF Rotation
<1>a. renewed' = renewed \/ ExchangeCode
  BY DEF Next, TaskStep, vars, ReadParameters, FastPath, DoubleCheck, Grant,
         Refuse, Refreshed, Rejected, RefreshLost, Persist, PersistFails,
         FlipNeedsReauth, Expire, CooldownEnds, StoreGrant, Crash, Dropped,
         history
<1>b. renewed' = renewed /\ ~ExchangeCode
  BY <1>a DEF ExchangeCode
<1>c. Shape
  BY <1>b DEF Rotation
<1>1. ASSUME NEW n \in Tokens, Expire(n)
      PROVE  Shape'
  BY <1>1, <1>c DEF Expire, Shape, ParametersInv, FreshInv, HolderInv,
     CacheInv, memory, history, Busy, At
<1>2. ASSUME NEW p \in Processes, CooldownEnds(p)
      PROVE  Shape'
  BY <1>2, <1>c DEF CooldownEnds, Shape, ParametersInv, FreshInv, HolderInv,
     CacheInv, provider, history, Busy, At
<1>3. ASSUME NEW p \in Processes, Crash(p)
      PROVE  Shape'
  <2> USE <1>c DEF Shape
  <2>1. /\ UNCHANGED <<conn, live, fresh, dropped>>
        /\ cache' = [cache EXCEPT ![p] = None]
        /\ callback' = None
    BY <1>3 DEF Crash, provider, ParametersInv
  <2>2. \A t \in Tasks : /\ Home[t] = p => task'[t] = Idle
                         /\ Home[t] # p => task'[t] = task[t]
    BY <1>3 DEF Crash
  <2>3. ParametersInv' /\ FreshInv'
    BY <2>1, <2>2 DEF ParametersInv, FreshInv, Busy, At, Idle
  <2>4. HolderInv'
    BY <2>1, <2>2 DEF HolderInv, Holding, Idle
  <2>5. cache \in [Processes -> OptionalTokens]
    BY DEF TypeInv, TypeOK
  <2>6. CacheInv'
    BY <2>1, <2>2, <2>5, Numbers DEF CacheInv, At, Idle, None, TypeInv
  <2> QED BY <2>3, <2>4, <2>6
<1>4. ~StoreGrant
  BY <1>c DEF StoreGrant, Shape, ParametersInv
<1>5. ASSUME UNCHANGED vars
      PROVE  Shape'
  BY <1>5, <1>c DEF vars, Shape, ParametersInv, FreshInv, HolderInv,
     CacheInv, provider, memory, history, Busy, At
<1> QED
  BY <1>b, <1>c, <1>1, <1>2, <1>3, <1>4, <1>5, ShapeAfterResolve,
     ShapeAfterGrant, ShapeAfterRefresh DEF Next, TaskStep

(* The shape implies that a loss shows.                                    *)
LEMMA RotationShowsLoss ==
    ASSUME TypeInv, Rotation
    PROVE  LossShows
<1> SUFFICES ASSUME ~renewed, conn.rt # live, live \notin dropped,
                    NEW p \in Processes, Cached(p)
             PROVE  InHand(live)
  BY DEF LossShows
<1>1. cache[p] = live
  BY DEF Rotation, Shape, FreshInv, Cached
<1>2. PICK t \in Tasks : At(t, "persist")
  BY <1>1 DEF Rotation, Shape, CacheInv
<1>3. task[t].new = live
  BY <1>2 DEF Rotation, Shape, HolderInv, Holding, At
<1> QED BY <1>3 DEF InHand

(* The initial states have the shape of a rotation.                        *)
LEMMA RotationInit == Init => Rotation
BY TokenAssumption DEF Init, Rotation, Shape, ParametersInv, FreshInv,
   HolderInv, CacheInv, Idle, None, Busy, At, Holding

(* Whatever crashes, is lost or fails, and for any number of tasks and     *)
(* processes: when the refresh token the provider accepts is neither       *)
(* stored nor in hand, and no request was dropped between caching and      *)
(* storing that pair, no process goes on with a cached access token        *)
(* (persist_rotated_credentials fails closed).                             *)
THEOREM LossIsShown == Spec => []LossShows
BY TypeInit, TypeStep, RotationInit, RotationStep, RotationShowsLoss, PTL
   DEF Spec

(***************************************************************************)
(* A rotation in which nothing fails                                       *)
(***************************************************************************)
Unspent == \A t \in Tasks :
             At(t, "request") => Home[t] \notin spender[task[t].rt]

Order == StoredInv /\ BehindInv /\ SpenderInv /\ Unspent

(* A resolution begins with the stored token, or with the one that is      *)
(* being replaced.                                                         *)
LEMMA OrderAfterRead ==
    ASSUME TypeInv, Shape, Order, NEW t \in Tasks, ReadParameters(t)
    PROVE  Order'
<1> USE DEF TypeInv, Shape, Order
<1>1. task \in [Tasks -> TaskRecords]
  BY DEF TypeOK
<1>2. /\ task'[t].pc = "resolve" /\ task'[t].rt = conn.rt
      /\ \A u \in Tasks : u # t => task'[u] = task[u]
  BY <1>1 DEF ReadParameters
<1>3. UNCHANGED <<conn, live, fresh, cache, spender>> /\ At(t, "idle")
  BY DEF ReadParameters, provider, memory
<1>4. StoredInv'
  BY <1>2, <1>3 DEF StoredInv, Holding, At
<1>5. conn.rt < live => live \in fresh /\ conn.rt = live - 1
  <2> SUFFICES ASSUME conn.rt < live
               PROVE  live \in fresh /\ conn.rt = live - 1
    OBVIOUS
  <2>1. PICK u \in Tasks : task[u].pc \in Holding
    BY Numbers DEF StoredInv
  <2>2. Busy(u) /\ task[u].rt = conn.rt
    BY <2>1 DEF HolderInv, Holding, Busy, At
  <2> QED BY <2>2 DEF BehindInv
<1>6. BehindInv'
  BY <1>2, <1>3, <1>5 DEF BehindInv, Busy, At
<1>7. SpenderInv'
  BY <1>2, <1>3 DEF SpenderInv, At
<1>8. Unspent'
  BY <1>2, <1>3 DEF Unspent, At
<1> QED BY <1>4, <1>6, <1>7, <1>8

(* The fast paths cache nothing but the latest token.                      *)
LEMMA OrderAfterFastPath ==
    ASSUME TypeInv, Shape, Order, NEW t \in Tasks, FastPath(t)
    PROVE  Order'
<1> USE DEF TypeInv, Shape, Order
<1>1. PICK l \in {"idle", "wait"} : Goto(t, l)
  BY DEF FastPath
<1>2. Moved(t, l)
  BY <1>1, GotoMoves DEF Locations
<1>3. UNCHANGED <<conn, live, fresh, spender>> /\ At(t, "resolve")
  BY DEF FastPath, provider
<1>4. cache \in [Processes -> OptionalTokens] /\ Home[t] \in Processes
  BY TokenAssumption DEF TypeOK
<1>5. \A p \in Processes : cache'[p] = cache[p] \/ cache'[p] = live
  BY <1>4 DEF FastPath, FreshInv
<1>6. StoredInv'
  BY <1>2, <1>3 DEF Moved, StoredInv, Holding, At
<1>7. BehindInv'
  BY <1>2, <1>3 DEF Moved, BehindInv, Busy, At
<1>8. SpenderInv'
  BY <1>2, <1>3, <1>5 DEF Moved, SpenderInv, At
<1>9. Unspent'
  BY <1>2, <1>3 DEF Moved, Unspent, At
<1> QED BY <1>6, <1>7, <1>8, <1>9

(* The second look under the lock: whoever goes on with an older token     *)
(* belongs to a process that has not used it up.                           *)
LEMMA OrderAfterDoubleCheck ==
    ASSUME TypeInv, LockIsOwned, Shape, Order, NEW t \in Tasks, DoubleCheck(t)
    PROVE  Order'
<1> USE DEF TypeInv, Shape, Order
<1>1. PICK l \in {"idle", "flip", "request"} :
        Goto(t, l) /\ (l = "request" => ~Cached(Home[t]))
  BY DEF DoubleCheck, Enter, AfterFailure
<1>2. Moved(t, l)
  BY <1>1, GotoMoves DEF Locations
<1>3. /\ UNCHANGED <<conn, live, fresh, cache, spender>> /\ At(t, "wait")
      /\ lock[Home[t]] = Nobody
  BY DEF DoubleCheck, provider
<1>4. StoredInv'
  BY <1>2, <1>3 DEF Moved, StoredInv, Holding, At
<1>5. BehindInv'
  BY <1>2, <1>3 DEF Moved, BehindInv, Busy, At
<1>6. SpenderInv'
  BY <1>2, <1>3 DEF Moved, SpenderInv, At
<1>7. ASSUME l = "request", Home[t] \in spender[task[t].rt]
      PROVE  FALSE
  <2>1. Home[t] \in Processes /\ t # Nobody
    BY TokenAssumption
  <2>2. task[t].rt \in Tokens
    BY <1>3 DEF HandsOK, Busy, At, TypeOK, TaskRecords, OptionalTokens
  <2>3. task[t].rt < live
    BY <1>7, <2>1, <2>2 DEF SpenderInv
  <2>4. live \in fresh /\ task[t].rt = live - 1
    BY <1>3, <2>3 DEF BehindInv, Busy, At
  <2>5. cache[Home[t]] # live
    BY <1>1, <1>7, <2>4 DEF Cached
  <2>6. PICK u \in Tasks : At(u, "granted") /\ Home[u] = Home[t]
    BY <1>7, <2>1, <2>2, <2>4, <2>5 DEF SpenderInv
  <2>7. lock[Home[t]] = u
    BY <2>6 DEF LockIsOwned, Inside, At
  <2> QED BY <1>3, <2>7, TokenAssumption
<1>8. Unspent'
  BY <1>2, <1>3, <1>7 DEF Moved, Unspent, At
<1> QED BY <1>4, <1>5, <1>6, <1>8

(* When a token is used up, everybody else works with the same token, and  *)
(* no other task of the process is inside.                                 *)
LEMMA OrderAfterGrant ==
    ASSUME TypeInv, LockIsOwned, Shape, Order, NEW t \in Tasks, Grant(t)
    PROVE  Order'
<1> USE DEF TypeInv, Shape, Order
<1>1. /\ task[t].rt = live /\ At(t, "request") /\ live' = live + 1
      /\ fresh' = fresh \cup {live + 1}
      /\ spender' = [spender EXCEPT ![live] = {Home[t]}]
      /\ UNCHANGED <<conn, cache>>
  BY DEF Grant, Issue, memory
<1>2. /\ task'[t].pc = "granted" /\ task'[t].rt = task[t].rt
      /\ \A u \in Tasks : u # t => task'[u] = task[u]
  BY GrantMoves
<1>3. fresh = {} /\ conn.rt = live
  BY ShapeAfterGrant
<1>4. /\ live \in Tokens /\ live \in Nat
      /\ spender \in [Tokens -> SUBSET Processes]
      /\ Home[t] \in Processes
  BY Numbers, TokenAssumption DEF TypeOK
<1>5. \A u \in Tasks : Busy(u) => task[u].rt = live
  BY <1>3, <1>4, Numbers DEF BehindInv, ParametersInv
<1>6. StoredInv'
  BY <1>2 DEF StoredInv, Holding
<1>7. BehindInv'
  BY <1>1, <1>2, <1>4, <1>5 DEF BehindInv, Busy, At
<1>8. SpenderInv'
  <2> SUFFICES ASSUME NEW p \in Processes, NEW n \in Tokens, p \in spender'[n]
               PROVE  /\ n < live'
                      /\ n = live' - 1 => \E u \in Tasks :
                           At(u, "granted")' /\ Home[u] = p
    BY DEF SpenderInv, At
  <2>0. n \in Nat
    BY TokenAssumption DEF Tokens
  <2>1. CASE n = live
    BY <1>1, <1>2, <1>4, <2>1 DEF At
  <2>2. CASE n # live
    BY <1>1, <1>4, <2>0, <2>2 DEF SpenderInv
  <2> QED BY <2>1, <2>2
<1>9. Unspent'
  <2> SUFFICES ASSUME NEW u \in Tasks, At(u, "request")',
                      Home[u] \in spender'[task'[u].rt]
               PROVE  FALSE
    BY DEF Unspent, At
  <2>1. u # t /\ At(u, "request") /\ task'[u].rt = live
    BY <1>2, <1>5 DEF Busy, At
  <2>2. Home[u] = Home[t]
    BY <1>1, <1>4, <2>1
  <2> QED BY <1>1, <2>1, <2>2 DEF LockIsOwned, Inside, At
<1> QED BY <1>6, <1>7, <1>8, <1>9

(* The steps after the provider has answered.                              *)
LEMMA OrderAfterAnswer ==
    ASSUME TypeInv, Shape, Order, NEW t \in Tasks,
           \/ Refuse(t) \/ Refreshed(t) \/ Rejected(t) \/ Persist(t)
           \/ FlipNeedsReauth(t)
    PROVE  Order'
<1> USE DEF TypeInv, Shape, Order, provider, memory
<1>a. cache \in [Processes -> OptionalTokens] /\ Home[t] \in Processes
  BY TokenAssumption DEF TypeOK
<1>1. CASE Refuse(t) \/ Rejected(t) \/ FlipNeedsReauth(t)
  <2>1. PICK l \in {"refused", "flip", "idle"} : Goto(t, l)
    BY <1>1 DEF Refuse, Rejected, FlipNeedsReauth
  <2>2. Moved(t, l)
    BY <2>1, GotoMoves DEF Locations
  <2>3. /\ UNCHANGED <<live, fresh, cache, spender>>
        /\ task[t].pc \in {"request", "refused", "flip"}
        /\ conn' \in {conn, [conn EXCEPT !.status = "reconnect"]}
    BY <1>1 DEF Refuse, Rejected, FlipNeedsReauth, At
  <2>4. conn'.rt = conn.rt
    BY <2>3 DEF TypeOK, Connections
  <2>5. StoredInv'
    BY <2>2, <2>3, <2>4 DEF Moved, StoredInv, Holding
  <2>6. BehindInv'
    BY <2>2, <2>3 DEF Moved, BehindInv, Busy, At
  <2>7. SpenderInv'
    BY <2>2, <2>3 DEF Moved, SpenderInv, At
  <2>8. Unspent'
    BY <2>2, <2>3 DEF Moved, Unspent, At
  <2> QED BY <2>5, <2>6, <2>7, <2>8
<1>2. CASE Refreshed(t)
  <2>1. Moved(t, "persist")
    BY <1>2, GotoMoves DEF Refreshed, Locations
  <2>2. /\ UNCHANGED <<conn, live, fresh, spender>> /\ At(t, "granted")
        /\ cache' = [cache EXCEPT ![Home[t]] = task[t].new]
    BY <1>2 DEF Refreshed
  <2>3. task[t].new = live
    BY <2>2 DEF HolderInv, Holding, At
  <2>4. StoredInv'
    BY <2>1 DEF Moved, StoredInv, Holding
  <2>5. BehindInv'
    BY <2>1, <2>2 DEF Moved, BehindInv, Busy, At
  <2>6. SpenderInv'
    BY <1>a, <2>1, <2>2, <2>3 DEF Moved, SpenderInv, At
  <2>7. Unspent'
    BY <2>1, <2>2 DEF Moved, Unspent, At
  <2> QED BY <2>4, <2>5, <2>6, <2>7
<1>3. CASE Persist(t)
  <2>1. Moved(t, "idle")
    BY <1>3, GotoMoves DEF Persist, Locations
  <2>2. /\ UNCHANGED <<live, fresh, cache, spender>> /\ At(t, "persist")
        /\ conn' = PersistRefreshedOauth(t)
    BY <1>3 DEF Persist
  <2>3. task[t].new = live /\ task[t].rt = conn.rt
    BY <2>2 DEF HolderInv, Holding, At
  <2>4. conn'.rt = live
    BY <2>2, <2>3, PersistWrites DEF ParametersInv, TypeOK
  <2>5. StoredInv'
    BY <2>2, <2>4 DEF StoredInv
  <2>6. BehindInv'
    BY <2>1, <2>2 DEF Moved, BehindInv, Busy, At
  <2>7. SpenderInv'
    BY <2>1, <2>2 DEF Moved, SpenderInv, At
  <2>8. Unspent'
    BY <2>1, <2>2 DEF Moved, Unspent, At
  <2> QED BY <2>5, <2>6, <2>7, <2>8
<1> QED BY <1>1, <1>2, <1>3

(* The order of a rotation without faults is kept.                         *)
LEMMA OrderlyStep ==
    ASSUME TypeInv, LockIsOwned, Rotation, Orderly, NoSelfInvalidation,
           [Next]_vars
    PROVE  Orderly' /\ NoSelfInvalidation'
<1> SUFFICES ASSUME ~faulted', ~renewed' PROVE Order'
  BY DEF Orderly, NoSelfInvalidation, Order, Unspent
<1>a. faulted' \in {faulted, TRUE} /\ renewed' \in {renewed, TRUE}
  BY DEF Next, TaskStep, vars, ReadParameters, FastPath, DoubleCheck, Grant,
         Refuse, Refreshed, Rejected, RefreshLost, Persist, PersistFails,
         FlipNeedsReauth, Expire, CooldownEnds, ExchangeCode, StoreGrant,
         Crash, Dropped, Fault, history
<1>b. /\ ~ExchangeCode
      /\ \A t \in Tasks : ~RefreshLost(t) /\ ~PersistFails(t) /\ ~Dropped(t)
      /\ \A p \in Processes : ~Crash(p)
  BY DEF ExchangeCode, RefreshLost, PersistFails, Dropped, Crash, Fault
<1>d. ~faulted /\ ~renewed
  <2>1. (faulted' = faulted \/ faulted' = TRUE)
        /\ (renewed' = renewed \/ renewed' = TRUE)
    BY <1>a
  <2>2. faulted' # TRUE /\ renewed' # TRUE
    OBVIOUS
  <2> QED BY <2>1, <2>2
<1>c. Shape /\ Order
  BY <1>d DEF Rotation, Orderly, NoSelfInvalidation, Order,
     Unspent
<1>1. ASSUME NEW n \in Tokens, Expire(n)
      PROVE  Order'
  <2>1. /\ UNCHANGED <<conn, live, cache, spender, task>>
        /\ fresh' = fresh \ {n}
        /\ \A t \in Tasks : Busy(t) => task[t].rt >= n
    BY <1>1 DEF Expire, memory, Busy
  <2>2. BehindInv'
    BY <1>c, <2>1, Numbers DEF Order, BehindInv, Busy, At, TypeInv
  <2> QED BY <1>c, <2>1, <2>2 DEF Order, StoredInv, SpenderInv, Unspent, At
<1>2. ASSUME NEW p \in Processes, CooldownEnds(p)
      PROVE  Order'
  BY <1>2, <1>c DEF CooldownEnds, Order, StoredInv, BehindInv, SpenderInv,
     Unspent, provider, Busy, At
<1>3. ~StoreGrant
  BY <1>c DEF StoreGrant, Shape, ParametersInv
<1>4. ASSUME UNCHANGED vars
      PROVE  Order'
  BY <1>4, <1>c DEF vars, Order, StoredInv, BehindInv, SpenderInv, Unspent,
     provider, memory, Busy, At
<1> QED
  BY <1>b, <1>c, <1>1, <1>2, <1>3, <1>4, OrderAfterRead, OrderAfterFastPath,
     OrderAfterDoubleCheck, OrderAfterGrant, OrderAfterAnswer
  DEF Next, TaskStep

(* The initial states have that order.                                     *)
LEMMA OrderlyInit == Init => Orderly /\ NoSelfInvalidation
BY TokenAssumption DEF Init, Orderly, NoSelfInvalidation, StoredInv,
   BehindInv, SpenderInv, Idle, None, Busy, At

(* As long as nothing fails and nobody authorizes again, no process        *)
(* presents a refresh token one of its own tasks has used up, for any      *)
(* number of tasks that need the connection at once                        *)
(* (resolve_deferred_auth).                                                *)
THEOREM NoneInvalidatesItself == Spec => []NoSelfInvalidation
BY TypeInit, TypeStep, LockOwned, LockStep, RotationInit, RotationStep,
   OrderlyInit, OrderlyStep, PTL DEF Spec
=============================================================================
