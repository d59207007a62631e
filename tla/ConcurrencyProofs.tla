------------------------- MODULE ConcurrencyProofs -------------------------
(***************************************************************************)
(* Proofs about ConcurrencyLimit, for any requests, tokens, users,         *)
(* processes, limits and TTL and any number of faults.                     *)
(*                                                                         *)
(* What a request has to release is determined by where it is (Held).      *)
(* With Redis, a slot to release is in Redis until it is TTL old, because  *)
(* a key is never older than its youngest slot (Backed): so the slots      *)
(* bound what is served.  Without Redis, a process's count is the number   *)
(* of requests that have a slot to release.                                *)
(***************************************************************************)
EXTENDS ConcurrencyLimit, FiniteSetTheorems, TLAPS

----------------------------------------------------------------------------
(* The keys and the sets that are counted. *)

\* A limit is a natural number.
LEMMA LimitNat == ASSUME NEW k \in Keys PROVE Limit(k) \in Nat
<1>1. ASSUME NEW u \in Users PROVE ResolveUserMaxConcurrency(u) \in Nat
  BY LimitsAssumption DEF ResolveUserMaxConcurrency
<1>2. CASE k \in {"user"} \X Users
  BY <1>1, <1>2 DEF Limit
<1>3. CASE k \in {"token"} \X Tokens
  <2>1. k[1] = "token" /\ k[2] \in Tokens
    BY <1>3
  <2>2. Owner[k[2]] \in Users /\ TokenMax[k[2]] \in Int
    BY <2>1, ActorsAssumption, LimitsAssumption
  <2> QED
    BY <1>1, <2>1, <2>2 DEF Limit, ClampTokenMaxConcurrency
<1> QED
  BY <1>2, <1>3 DEF Keys

\* The keys of a request are keys, and no key limits a user and a token.
LEMMA KeyFacts ==
    ASSUME NEW r \in Requests
    PROVE  /\ UserKeys(r) \subseteq Keys /\ TokenKeys(r) \subseteq Keys /\ KeysOf(r) \subseteq Keys
           /\ UserKeys(r) \subseteq KeysOf(r) /\ TokenKeys(r) \subseteq KeysOf(r)
           /\ KeysOf(r) \ UserKeys(r) = TokenKeys(r)
           /\ TokenKeys(r) \ TokenKeys(r) = {} /\ UserKeys(r) \ UserKeys(r) = {}
           /\ UserKeys(r) \cup TokenKeys(r) = KeysOf(r)
           /\ UserKeys(r) \cap TokenKeys(r) = {}
<1>1. TokenOf[r] \in Tokens /\ Owner[TokenOf[r]] \in Users
  BY ActorsAssumption
<1>2. <<"user", Owner[TokenOf[r]]>> \in Keys /\ <<"token", TokenOf[r]>> \in Keys
  BY <1>1 DEF Keys
<1>3. <<"user", Owner[TokenOf[r]]>> # <<"token", TokenOf[r]>>
  OBVIOUS
<1>4. UserKeys(r) \subseteq {<<"user", Owner[TokenOf[r]]>>} /\ TokenKeys(r) \subseteq {<<"token", TokenOf[r]>>}
  BY DEF UserKeys, TokenKeys
<1> QED
  BY <1>2, <1>3, <1>4 DEF KeysOf

\* Sets of requests have cardinalities, in the order of inclusion.
LEMMA Counts ==
    ASSUME NEW S \in SUBSET Requests
    PROVE  /\ IsFiniteSet(S) /\ Cardinality(S) \in Nat
           /\ \A T \in SUBSET S : Cardinality(T) <= Cardinality(S)
           /\ \A r \in Requests : Cardinality(S \cup {r}) <= Cardinality(S) + 1
           /\ \A r \in Requests \ S : Cardinality(S \cup {r}) = Cardinality(S) + 1
           /\ \A r \in S : Cardinality(S \ {r}) = Cardinality(S) - 1 /\ Cardinality(S) > 0
<1>1. IsFiniteSet(S)
  BY ActorsAssumption, FS_Subset
<1>2. Cardinality(S) \in Nat
  BY <1>1, FS_CardinalityType
<1>3. \A T \in SUBSET S : Cardinality(T) <= Cardinality(S)
  BY <1>1, FS_Subset
<1>4. \A r : Cardinality(S \cup {r}) = IF r \in S THEN Cardinality(S) ELSE Cardinality(S) + 1
  BY <1>1, FS_AddElement
<1>5. \A r : Cardinality(S \ {r}) = IF r \in S THEN Cardinality(S) - 1 ELSE Cardinality(S)
  BY <1>1, FS_RemoveElement
<1>6. ASSUME NEW r \in S PROVE Cardinality(S) > 0
  <2>1. Cardinality(S) # 0
    BY <1>1, <1>6, FS_EmptySet
  <2> QED
    BY <1>2, <2>1
<1> QED
  BY <1>1, <1>2, <1>3, <1>4, <1>5, <1>6

----------------------------------------------------------------------------
(* The inductive invariant. *)

\* The sets the variables range over.
Types ==
    /\ RedisEnabled \in BOOLEAN
    /\ pc \in [Requests -> PCs] /\ has \in [Requests -> SUBSET Keys] /\ open \subseteq Requests
    /\ zset \in [Keys -> SUBSET Requests]
    /\ age \in [Requests -> 0..TTL] /\ idle \in [Keys -> 0..TTL]
    /\ inUse \in [Instances -> [Keys -> Nat]]
    /\ inflight \in [Instances -> [Tokens -> Nat]]
    /\ faults \in 0..MaxFaults

\* What r has to release is determined by where it is.
Held(r) ==
    /\ pc[r] \in Ended \cup {"new", "uncount"} => has[r] = {}
    /\ pc[r] \in {"memToken", "rollback"} => has[r] = UserKeys(r) /\ ~RedisEnabled
    /\ pc[r] = "serving" => has[r] = IF r \in open THEN {} ELSE KeysOf(r)
    /\ pc[r] = "relToken" => has[r] = TokenKeys(r)
    /\ r \in open => pc[r] = "serving"
HeldInv == \A r \in Requests : Held(r)

\* The slots in Redis: each is of a request that the key limits, and at least as
\* old as the key's EXPIRE; one to release is there unless it is TTL old.
Placed == \A k \in Keys : \A q \in zset[k] : RedisEnabled /\ k \in KeysOf(q) /\ age[q] >= idle[k]
Backed == \A k \in Keys, q \in Requests :
    RedisEnabled /\ k \in has[q] /\ age[q] < TTL => q \in zset[k]
Limited == \A k \in Keys : Cardinality(zset[k]) <= Limit(k)
RedisInv == Placed /\ Backed /\ Limited /\ NoLeak

\* The slots in memory.
Holders(i, k) == {q \in Requests : InstanceOf[q] = i /\ k \in has[q]}
MemInv == \A i \in Instances, k \in Keys :
    /\ inUse[i][k] <= Limit(k)
    /\ ~RedisEnabled => inUse[i][k] = Cardinality(Holders(i, k))

Inv == Types /\ HeldInv /\ RedisInv /\ MemInv /\ InflightExact

----------------------------------------------------------------------------
(* Types. *)

\* A later age is an age.
LEMMA LaterType == \A n \in 0..TTL : Later(n) \in 0..TTL /\ Later(n) >= n
BY BoundsAssumption DEF Later

\* A released count is a count.
LEMMA DecrementedType == \A n \in Nat : Decremented(n) \in Nat /\ Decremented(n) <= n
BY DEF Decremented

\* An outcome of Redis keeps the bound on faults.
LEMMA CountType ==
    ASSUME Types, NEW o \in Outcomes, Count(o)
    PROVE  faults' \in 0..MaxFaults /\ (faults' = 0 => o = "ok" /\ faults = 0)
BY BoundsAssumption DEF Types, Outcomes, Count

\* The script writes sets of requests and ages.
LEMMA ScriptTypes ==
    ASSUME Types, NEW r \in Requests, RunScript(r)
    PROVE  /\ zset' \in [Keys -> SUBSET Requests] /\ age' \in [Requests -> 0..TTL]
           /\ idle' \in [Keys -> 0..TTL]
<1>1. \A k \in Keys : Alive(k) \subseteq Requests
  BY DEF Types, Alive
<1>2. \A k \in Keys : Slots(r, ScriptOutcome(r), k) \subseteq Requests
  BY <1>1 DEF Slots
<1>3. 0 \in 0..TTL
  BY BoundsAssumption
<1> QED
  BY <1>2, <1>3 DEF Types, RunScript

\* The slots of a process stay numbers.
LEMMA SlotTypes ==
    ASSUME Types, NEW r \in Requests, NEW ks \in SUBSET Keys, TakeSlots(r, ks) \/ GiveSlots(r, ks)
    PROVE  inUse' \in [Instances -> [Keys -> Nat]] /\ has' \in [Requests -> SUBSET Keys]
<1>1. \A n \in Nat : n + 1 \in Nat /\ Decremented(n) \in Nat
  BY DecrementedType
<1>2. InstanceOf[r] \in Instances
  BY ActorsAssumption
<1>3. CASE TakeSlots(r, ks)
  BY <1>1, <1>2, <1>3 DEF Types, TakeSlots
<1>4. CASE GiveSlots(r, ks)
  BY <1>1, <1>2, <1>4 DEF Types, GiveSlots
<1> QED
  BY <1>3, <1>4

\* A request goes to a place of the middleware.
LEMMA GotoType == ASSUME Types, NEW r, NEW p \in PCs, Goto(r, p) PROVE pc' \in [Requests -> PCs]
BY DEF Types, Goto

\* One counter of one process moves.
LEMMA MoveFacts ==
    ASSUME Types, NEW r \in Requests, NEW n \in Nat, MoveInflight(r, n)
    PROVE  /\ inflight' \in [Instances -> [Tokens -> Nat]]
           /\ \A i \in Instances, t \in Tokens :
                 inflight'[i][t] =
                     IF i = InstanceOf[r] /\ t = TokenOf[r] THEN n ELSE inflight[i][t]
<1> DEFINE j == InstanceOf[r]
           f == [inflight[j] EXCEPT ![TokenOf[r]] = n]
<1>1. j \in Instances /\ TokenOf[r] \in Tokens
  BY ActorsAssumption
<1>2. inflight' = [inflight EXCEPT ![j] = f]
  BY DEF MoveInflight
<1>3. inflight[j] \in [Tokens -> Nat]
  BY <1>1 DEF Types
<1>4. f \in [Tokens -> Nat] /\ \A t \in Tokens : f[t] = IF t = TokenOf[r] THEN n ELSE inflight[j][t]
  BY <1>1, <1>3
<1> HIDE DEF f, j
<1>5. inflight \in [Instances -> [Tokens -> Nat]]
  BY DEF Types
<1>6. \A i \in Instances : inflight'[i] = IF i = j THEN f ELSE inflight[i]
  BY <1>1, <1>2, <1>5
<1>7. inflight' \in [Instances -> [Tokens -> Nat]]
  BY <1>1, <1>2, <1>4, <1>5
<1> QED
  BY <1>4, <1>6, <1>7 DEF j

\* A request that is let through.
LEMMA AdmitFacts ==
    ASSUME Types, NEW r \in Requests, Admit(r)
    PROVE  /\ pc' \in [Requests -> PCs] /\ inflight' \in [Instances -> [Tokens -> Nat]]
           /\ pc'[r] = "serving" /\ \A q \in Requests \ {r} : pc'[q] = pc[q]
<1>1. InstanceOf[r] \in Instances /\ TokenOf[r] \in Tokens
  BY ActorsAssumption
<1>2. InflightOf(r) + 1 \in Nat
  BY <1>1 DEF Types, InflightOf
<1>3. inflight' \in [Instances -> [Tokens -> Nat]]
  BY <1>2, MoveFacts DEF Admit
<1> QED
  BY <1>3 DEF Admit, Goto, Types, PCs, Passed

\* The mode does not change.
LEMMA ModeStep == ASSUME [Next]_vars PROVE UNCHANGED RedisEnabled
BY DEF Next, Step, Arrive, PassUnlimited, RedisAcquire, MemAcquireUser, MemAcquireToken, MemRollback,
   ReleaseUser, ReleaseToken, RedisRelease, MemRelease, Uncount, Tick, Kill, vars

\* The types hold initially.
LEMMA TypesInit == Init => Types
BY BoundsAssumption DEF Init, Types, PCs, Ended

\* Every step keeps the types.
LEMMA TypesStep == ASSUME Types, [Next]_vars PROVE Types'
<1>1. ASSUME NEW r \in Requests, Arrive(r) PROVE Types'
  BY <1>1, GotoType DEF Arrive, Types, redisVars, PCs
<1>2. ASSUME NEW r \in Requests, PassUnlimited(r) PROVE Types'
  BY <1>2, AdmitFacts DEF PassUnlimited, Types, redisVars
<1>3. ASSUME NEW r \in Requests, RedisAcquire(r) PROVE Types'
  <2>1. PICK o \in Outcomes :
          /\ Count(o)
          /\ IF o = "failed" THEN UNCHANGED redisVars ELSE RunScript(r)
          /\ \/ o = "lost" /\ UNCHANGED <<pc, has, open, inflight>>
             \/ /\ o # "ok"
                /\ Admit(r) /\ open' = open \cup {r} /\ UNCHANGED has
             \/ /\ o = "ok" /\ ScriptOutcome(r) = "ok"
                /\ Admit(r) /\ has' = [has EXCEPT ![r] = KeysOf(r)] /\ UNCHANGED open
             \/ /\ o = "ok" /\ ScriptOutcome(r) # "ok"
                /\ Goto(r, ScriptOutcome(r)) /\ UNCHANGED <<has, open, inflight>>
    BY <1>3 DEF RedisAcquire
  <2>2. faults' \in 0..MaxFaults
    BY <2>1, CountType
  <2>3. zset' \in [Keys -> SUBSET Requests] /\ age' \in [Requests -> 0..TTL]
        /\ idle' \in [Keys -> 0..TTL]
    BY <2>1, ScriptTypes DEF Types, redisVars
  <2>4. ScriptOutcome(r) \in PCs \cup {"ok"}
    BY DEF ScriptOutcome, PCs, Ended
  <2>5. pc' \in [Requests -> PCs] /\ inflight' \in [Instances -> [Tokens -> Nat]]
    BY <2>1, <2>4, GotoType, AdmitFacts DEF Types
  <2>6. has' \in [Requests -> SUBSET Keys] /\ open' \subseteq Requests
    BY <2>1, KeyFacts DEF Types
  <2> QED
    BY <1>3, <2>2, <2>3, <2>5, <2>6 DEF RedisAcquire, Types
<1>4. ASSUME NEW r \in Requests, MemAcquireUser(r) PROVE Types'
  <2>1. pc' \in [Requests -> PCs]
    BY <1>4, GotoType DEF MemAcquireUser, PCs, Ended
  <2>2. inUse' \in [Instances -> [Keys -> Nat]] /\ has' \in [Requests -> SUBSET Keys]
    BY <1>4, SlotTypes, KeyFacts DEF MemAcquireUser, Types
  <2> QED
    BY <1>4, <2>1, <2>2 DEF MemAcquireUser, Types, redisVars
<1>5. ASSUME NEW r \in Requests, MemAcquireToken(r) PROVE Types'
  <2>1. pc' \in [Requests -> PCs] /\ inflight' \in [Instances -> [Tokens -> Nat]]
    BY <1>5, GotoType, AdmitFacts DEF MemAcquireToken, PCs, Ended, Types
  <2>2. inUse' \in [Instances -> [Keys -> Nat]] /\ has' \in [Requests -> SUBSET Keys]
    BY <1>5, SlotTypes, KeyFacts DEF MemAcquireToken, Types
  <2> QED
    BY <1>5, <2>1, <2>2 DEF MemAcquireToken, Types, redisVars
<1>6. ASSUME NEW r \in Requests, MemRollback(r) PROVE Types'
  <2>1. pc' \in [Requests -> PCs]
    BY <1>6, GotoType DEF MemRollback, PCs, Ended
  <2>2. inUse' \in [Instances -> [Keys -> Nat]] /\ has' \in [Requests -> SUBSET Keys]
    BY <1>6, SlotTypes, KeyFacts DEF MemRollback, RolledBackSlots
  <2> QED
    BY <1>6, <2>1, <2>2 DEF MemRollback, Types, redisVars
<1>7. ASSUME NEW r \in Requests, Uncount(r) PROVE Types'
  <2>1. InstanceOf[r] \in Instances /\ TokenOf[r] \in Tokens
    BY ActorsAssumption
  <2>2. Decremented(InflightOf(r)) \in Nat
    BY <2>1, DecrementedType DEF Types, InflightOf
  <2>3. inflight' \in [Instances -> [Tokens -> Nat]]
    BY <1>7, <2>2, MoveFacts DEF Uncount
  <2>4. pc' \in [Requests -> PCs]
    BY <1>7, GotoType DEF Uncount, PCs, Ended
  <2> QED
    BY <1>7, <2>3, <2>4 DEF Uncount, Types, redisVars
<1>9. ASSUME NEW r \in Requests, NEW p, NEW ks \in SUBSET Keys, NEW next \in PCs,
             RedisRelease(r, p, ks, next) PROVE Types'
  <2>1. PICK o \in Outcomes :
          /\ Count(o)
          /\ zset' = [k \in Keys |-> IF k \in ks /\ o # "failed" THEN zset[k] \ {r} ELSE zset[k]]
          /\ has' = [has EXCEPT ![r] = IF o = "ok" THEN @ \ ks ELSE {}]
          /\ Goto(r, IF o = "ok" THEN next ELSE "uncount")
    BY <1>9 DEF RedisRelease
  <2>2. faults' \in 0..MaxFaults
    BY <2>1, CountType
  <2>3. pc' \in [Requests -> PCs]
    <3>1. (IF o = "ok" THEN next ELSE "uncount") \in PCs
      BY DEF PCs, Passed
    <3> QED
      BY <2>1, <3>1, GotoType
  <2> QED
    BY <1>9, <2>1, <2>2, <2>3 DEF RedisRelease, Types
<1>10. ASSUME NEW r \in Requests, NEW p, NEW ks \in SUBSET Keys, NEW next \in PCs,
              MemRelease(r, p, ks, next) PROVE Types'
  <2>1. pc' \in [Requests -> PCs]
    BY <1>10, GotoType DEF MemRelease
  <2>2. inUse' \in [Instances -> [Keys -> Nat]] /\ has' \in [Requests -> SUBSET Keys]
    BY <1>10, SlotTypes DEF MemRelease
  <2> QED
    BY <1>10, <2>1, <2>2 DEF MemRelease, Types, redisVars
<1>11. ASSUME NEW r \in Requests, ReleaseUser(r) \/ ReleaseToken(r) PROVE Types'
  <2>1. "relToken" \in PCs /\ "uncount" \in PCs
    BY DEF PCs, Passed
  <2> QED
    BY <1>9, <1>10, <1>11, <2>1, KeyFacts DEF ReleaseUser, ReleaseToken
<1>12. CASE Tick
  BY <1>12, LaterType DEF Tick, Types
<1>13. ASSUME NEW i \in Instances, Kill(i) PROVE Types'
  <2>1. faults' \in 0..MaxFaults
    BY <1>13, BoundsAssumption DEF Kill, Types
  <2>2. pc' \in [Requests -> PCs] /\ has' \in [Requests -> SUBSET Keys]
    BY <1>13 DEF Kill, Types, PCs, Ended
  <2>3. inUse' \in [Instances -> [Keys -> Nat]] /\ inflight' \in [Instances -> [Tokens -> Nat]]
    BY <1>13 DEF Kill, Types
  <2> QED
    BY <1>13, <2>1, <2>2, <2>3 DEF Kill, Types, redisVars
<1>14. CASE UNCHANGED vars
  BY <1>14 DEF vars, Types
<1> QED
  BY <1>1, <1>2, <1>3, <1>4, <1>5, <1>6, <1>7, <1>11, <1>12, <1>13, <1>14 DEF Next, Step

----------------------------------------------------------------------------
(* What a request has to release. *)

\* A step of one request.
LEMMA HeldFrame ==
    ASSUME HeldInv, UNCHANGED RedisEnabled, NEW r \in Requests, Held(r)',
           \A q \in Requests \ {r} : pc'[q] = pc[q] /\ has'[q] = has[q] /\ (q \in open' <=> q \in open)
    PROVE  HeldInv'
BY DEF HeldInv, Held

\* A step of one request that is done with the others' places and slots.
LEMMA GotoFacts ==
    ASSUME Types, NEW r \in Requests, NEW p, Goto(r, p)
    PROVE  pc'[r] = p /\ \A q \in Requests \ {r} : pc'[q] = pc[q]
BY DEF Types, Goto

\* Taking and giving slots change what the request has to release.
LEMMA SlotsHad ==
    ASSUME Types, NEW r \in Requests, NEW ks
    PROVE  /\ TakeSlots(r, ks) => has'[r] = has[r] \cup ks
           /\ GiveSlots(r, ks) => has'[r] = has[r] \ ks
           /\ TakeSlots(r, ks) \/ GiveSlots(r, ks) =>
                 \A q \in Requests \ {r} : has'[q] = has[q]
BY DEF Types, TakeSlots, GiveSlots

\* Nothing is held initially.
LEMMA HeldInit == Init => HeldInv
BY DEF Init, HeldInv, Held, Ended

\* Every step keeps what is held in step with the place.
LEMMA HeldStep == ASSUME Types, HeldInv, [Next]_vars PROVE HeldInv'
<1>0. UNCHANGED RedisEnabled
  BY ModeStep
<1>1. ASSUME NEW r \in Requests, Arrive(r) PROVE HeldInv'
  BY <1>1, <1>0, HeldFrame, GotoFacts DEF Arrive, HeldInv, Held, Ended
<1>2. ASSUME NEW r \in Requests, PassUnlimited(r) PROVE HeldInv'
  BY <1>2, <1>0, HeldFrame, AdmitFacts DEF PassUnlimited, HeldInv, Held, Ended, At
<1>3. ASSUME NEW r \in Requests, RedisAcquire(r) PROVE HeldInv'
  <2>1. At(r, "new") /\ has[r] = {} /\ r \notin open
    BY <1>3 DEF RedisAcquire, HeldInv, Held, At
  <2>2. ScriptOutcome(r) \in {"ok", "userExceeded", "tokenExceeded"}
    BY DEF ScriptOutcome
  <2>3. CASE UNCHANGED <<pc, has, open>>
    BY <1>0, <2>3 DEF HeldInv, Held
  <2>4. CASE Admit(r) /\ open' = open \cup {r} /\ UNCHANGED has
    BY <2>1, <2>4, <1>0, HeldFrame, AdmitFacts DEF Held, Ended
  <2>5. CASE Admit(r) /\ has' = [has EXCEPT ![r] = KeysOf(r)] /\ UNCHANGED open
    <3>1. has'[r] = KeysOf(r) /\ \A q \in Requests \ {r} : has'[q] = has[q]
      BY <2>5 DEF Types
    <3> QED
      BY <2>1, <2>5, <3>1, <1>0, HeldFrame, AdmitFacts DEF Held, Ended
  <2>6. CASE ScriptOutcome(r) # "ok" /\ Goto(r, ScriptOutcome(r)) /\ UNCHANGED <<has, open>>
    BY <2>1, <2>2, <2>6, <1>0, HeldFrame, GotoFacts DEF Held, Ended
  <2> QED
    BY <1>3, <2>3, <2>4, <2>5, <2>6 DEF RedisAcquire
<1>4. ASSUME NEW r \in Requests, MemAcquireUser(r) PROVE HeldInv'
  <2>1. has[r] = {} /\ r \notin open /\ ~RedisEnabled
    BY <1>4 DEF MemAcquireUser, HeldInv, Held, At
  <2>2. CASE Goto(r, "userExceeded") /\ UNCHANGED <<inUse, has>>
    BY <1>4, <2>1, <2>2, <1>0, HeldFrame, GotoFacts DEF MemAcquireUser, Held, Ended
  <2>3. CASE Goto(r, "memToken") /\ TakeSlots(r, UserKeys(r))
    <3>1. has'[r] = UserKeys(r) /\ \A q \in Requests \ {r} : has'[q] = has[q]
      BY <2>1, <2>3, SlotsHad
    <3> QED
      BY <1>4, <2>1, <2>3, <3>1, <1>0, HeldFrame, GotoFacts DEF MemAcquireUser, Held, Ended
  <2> QED
    BY <1>4, <2>2, <2>3 DEF MemAcquireUser
<1>5. ASSUME NEW r \in Requests, MemAcquireToken(r) PROVE HeldInv'
  <2>1. has[r] = UserKeys(r) /\ r \notin open /\ ~RedisEnabled
    BY <1>5 DEF MemAcquireToken, HeldInv, Held, At
  <2>2. CASE Goto(r, IF has[r] = {} THEN "tokenExceeded" ELSE "rollback") /\ UNCHANGED <<inUse, has>>
    BY <1>5, <2>1, <2>2, <1>0, HeldFrame, GotoFacts DEF MemAcquireToken, Held, Ended
  <2>3. CASE Admit(r) /\ TakeSlots(r, TokenKeys(r))
    <3>0. has'[r] = has[r] \cup TokenKeys(r) /\ \A q \in Requests \ {r} : has'[q] = has[q]
      BY <2>3, SlotsHad
    <3>1. has'[r] = KeysOf(r)
      BY <2>1, <3>0 DEF KeysOf
    <3>2. pc'[r] = "serving" /\ \A q \in Requests \ {r} : pc'[q] = pc[q]
      BY <2>3, AdmitFacts
    <3>3. open' = open
      BY <1>5 DEF MemAcquireToken
    <3> QED
      BY <2>1, <3>0, <3>1, <3>2, <3>3, <1>0, HeldFrame DEF Held, Ended
  <2> QED
    BY <1>5, <2>2, <2>3 DEF MemAcquireToken
<1>6. ASSUME NEW r \in Requests, MemRollback(r) PROVE HeldInv'
  <2>1. has[r] = UserKeys(r) /\ r \notin open
    BY <1>6 DEF MemRollback, HeldInv, Held, At
  <2>2. has'[r] = {} /\ \A q \in Requests \ {r} : has'[q] = has[q]
    BY <1>6, <2>1, SlotsHad, KeyFacts DEF MemRollback, RolledBackSlots
  <2> QED
    BY <1>6, <2>1, <2>2, <1>0, HeldFrame, GotoFacts DEF MemRollback, Held, Ended
<1>7. ASSUME NEW r \in Requests, Uncount(r) PROVE HeldInv'
  <2>1. Held(r)
    BY DEF HeldInv
  <2>2. Held(r)'
    BY <1>7, <2>1, GotoFacts DEF Uncount, Held, Ended, At
  <2> QED
    BY <1>0, <1>7, <2>2, HeldFrame, GotoFacts DEF Uncount
<1>8. ASSUME NEW r \in Requests, NEW p, NEW ks, NEW next,
             RedisRelease(r, p, ks, next) \/ MemRelease(r, p, ks, next),
             \/ p = "serving" /\ has[r] # {} /\ ks = UserKeys(r) /\ next = "relToken"
             \/ p = "relToken" /\ ks = TokenKeys(r) /\ next = "uncount"
      PROVE  HeldInv'
  <2>1. At(r, p) /\ UNCHANGED open /\ r \notin open
    BY <1>8 DEF RedisRelease, MemRelease, HeldInv, Held, At
  <2>2. has[r] \ ks = IF next = "relToken" THEN TokenKeys(r) ELSE {}
    BY <1>8, <2>1, KeyFacts DEF HeldInv, Held, At
  <2>3. CASE Goto(r, next) /\ has'[r] = has[r] \ ks /\ \A q \in Requests \ {r} : has'[q] = has[q]
    BY <1>8, <2>1, <2>2, <2>3, <1>0, HeldFrame, GotoFacts DEF Held, Ended
  <2>4. CASE Goto(r, "uncount") /\ has'[r] = {} /\ \A q \in Requests \ {r} : has'[q] = has[q]
    BY <1>8, <2>1, <2>4, <1>0, HeldFrame, GotoFacts DEF Held, Ended
  <2>5. CASE RedisRelease(r, p, ks, next)
    <3>1. PICK o \in Outcomes :
            /\ has' = [has EXCEPT ![r] = IF o = "ok" THEN @ \ ks ELSE {}]
            /\ Goto(r, IF o = "ok" THEN next ELSE "uncount")
      BY <2>5 DEF RedisRelease
    <3>2. has'[r] = (IF o = "ok" THEN has[r] \ ks ELSE {}) /\ \A q \in Requests \ {r} : has'[q] = has[q]
      BY <3>1 DEF Types
    <3> QED
      BY <2>3, <2>4, <3>1, <3>2
  <2>6. CASE MemRelease(r, p, ks, next)
    BY <2>3, <2>6, SlotsHad DEF MemRelease
  <2> QED
    BY <1>8, <2>5, <2>6
<1>9. ASSUME NEW r \in Requests, ReleaseUser(r) \/ ReleaseToken(r) PROVE HeldInv'
  BY <1>8, <1>9 DEF ReleaseUser, ReleaseToken
<1>10. CASE Tick
  BY <1>0, <1>10 DEF Tick, HeldInv, Held
<1>11. ASSUME NEW i \in Instances, Kill(i) PROVE HeldInv'
  <2> SUFFICES ASSUME NEW r \in Requests PROVE Held(r)'
    BY DEF HeldInv
  <2>1. /\ pc'[r] = IF InstanceOf[r] = i THEN "idle" ELSE pc[r]
        /\ has'[r] = IF InstanceOf[r] = i THEN {} ELSE has[r]
        /\ r \in open' <=> r \in open /\ InstanceOf[r] # i
    BY <1>11 DEF Kill
  <2>2. Held(r)
    BY DEF HeldInv
  <2> QED
    BY <1>0, <2>1, <2>2 DEF Held, Ended
<1>12. CASE UNCHANGED vars
  BY <1>12 DEF vars, HeldInv, Held
<1> QED
  BY <1>1, <1>2, <1>3, <1>4, <1>5, <1>6, <1>7, <1>9, <1>10, <1>11, <1>12 DEF Next, Step

----------------------------------------------------------------------------
(* The slots in Redis. *)

\* There are none initially.
LEMMA RedisInit == Init => RedisInv
<1> SUFFICES ASSUME Init PROVE RedisInv
  OBVIOUS
<1>1. \A k \in Keys : zset[k] = {}
  BY DEF Init
<1>2. \A k \in Keys : Cardinality(zset[k]) = 0 /\ Limit(k) >= 0
  BY <1>1, LimitNat, FS_EmptySet
<1> QED
  BY <1>1, <1>2 DEF Init, RedisInv, Placed, Backed, Limited, NoLeak

\* A step that leaves Redis alone: with Redis, what requests have to release can
\* only shrink, and does so only by a fault.
LEMMA RedisFrame ==
    ASSUME Types, RedisInv, UNCHANGED <<RedisEnabled, redisVars>>,
           RedisEnabled => \A q \in Requests : has'[q] \subseteq has[q],
           RedisEnabled /\ faults' = 0 => faults = 0 /\ has' = has
    PROVE  RedisInv'
<1>1. Placed' /\ Limited'
  BY DEF RedisInv, Placed, Limited, redisVars
<1>2. Backed'
  BY DEF RedisInv, Backed, redisVars
<1>3. NoLeak'
  BY DEF Types, RedisInv, Placed, NoLeak, redisVars
<1> QED
  BY <1>1, <1>2, <1>3 DEF RedisInv

\* The slots that the script leaves on a key.
LEMMA SlotFacts ==
    ASSUME Types, NEW r \in Requests, NEW k \in Keys
    PROVE  /\ Alive(k) \subseteq zset[k]
           /\ Slots(r, ScriptOutcome(r), k) \subseteq Alive(k) \cup {r}
           /\ ScriptOutcome(r) = "ok" => Slots(r, ScriptOutcome(r), k) = Alive(k) \cup {r}
           /\ ScriptOutcome(r) # "ok" => Slots(r, ScriptOutcome(r), k) \subseteq Alive(k)
           /\ Alive(k) \ {r} \subseteq Slots(r, ScriptOutcome(r), k)
BY DEF Alive, Slots

\* A run of the script keeps the slots in order.
LEMMA ScriptKeeps ==
    ASSUME Types, HeldInv, RedisInv, NEW r \in Requests, At(r, "new"), RedisEnabled, RunScript(r),
           UNCHANGED RedisEnabled
    PROVE  /\ Placed' /\ Limited'
           /\ \A k \in Keys, q \in Requests :
                 k \in has[q] /\ age'[q] < TTL => q \in zset'[k]
           /\ ScriptOutcome(r) = "ok" => \A k \in KeysOf(r) : r \in zset'[k]
           /\ \A k \in Keys : \A q \in zset'[k] :
                 q \in zset[k] \/ (q = r /\ ScriptOutcome(r) = "ok" /\ k \in KeysOf(r))
<1> DEFINE outcome == ScriptOutcome(r)
           seen == IF outcome = "userExceeded" THEN UserKeys(r) ELSE KeysOf(r)
<1>1. seen \subseteq KeysOf(r) /\ (outcome = "ok" => seen = KeysOf(r))
  BY KeyFacts
<1>2. /\ zset' = [k \in Keys |-> IF k \in seen THEN Slots(r, outcome, k) ELSE zset[k]]
      /\ idle' = [k \in Keys |-> IF k \in seen THEN 0 ELSE idle[k]]
      /\ age' = IF outcome = "ok" THEN [age EXCEPT ![r] = 0] ELSE age
  BY DEF RunScript
<1>3. \A q \in Requests : age'[q] = IF q = r /\ outcome = "ok" THEN 0 ELSE age[q]
  BY <1>2 DEF Types
<1>4. /\ \A k \in Keys : zset'[k] = IF k \in seen THEN Slots(r, outcome, k) ELSE zset[k]
      /\ \A k \in Keys : idle'[k] = IF k \in seen THEN 0 ELSE idle[k]
  BY <1>2
<1>5. has[r] = {}
  BY DEF HeldInv, Held, At
<1>6. \A k \in Keys : zset[k] \subseteq Requests /\ idle[k] \in 0..TTL
  BY DEF Types
<1>7. \A q \in Requests : age[q] \in 0..TTL
  BY DEF Types
<1>8. \A k \in Keys : Slots(r, outcome, k) \subseteq zset[k] \cup (IF outcome = "ok" THEN {r} ELSE {})
  BY SlotFacts
<1> HIDE DEF outcome, seen
<1>9. Placed'
  <2> SUFFICES ASSUME NEW k \in Keys, NEW q \in zset'[k]
               PROVE  RedisEnabled /\ k \in KeysOf(q) /\ age'[q] >= idle'[k]
    BY DEF Placed
  <2>1. CASE k \in seen
    <3>1. q \in Requests /\ k \in KeysOf(q)
      BY <1>1, <1>4, <1>6, <1>8, <2>1 DEF RedisInv, Placed
    <3> QED
      BY <1>3, <1>4, <1>7, <2>1, <3>1, BoundsAssumption
  <2>2. CASE k \notin seen
    <3>1. q \in zset[k] /\ q \in Requests /\ k \in KeysOf(q) /\ age[q] >= idle[k]
      BY <1>4, <1>6, <2>2 DEF RedisInv, Placed
    <3>2. ~(q = r /\ outcome = "ok")
      BY <1>1, <2>2, <3>1
    <3> QED
      BY <1>3, <1>4, <2>2, <3>1, <3>2
  <2> QED
    BY <2>1, <2>2
<1>10. Limited'
  <2> SUFFICES ASSUME NEW k \in Keys PROVE Cardinality(zset'[k]) <= Limit(k)
    BY DEF Limited
  <2>1. /\ Cardinality(zset[k]) <= Limit(k) /\ Limit(k) \in Nat
        /\ Alive(k) \subseteq zset[k] /\ zset[k] \subseteq Requests
    BY <1>6, LimitNat, SlotFacts DEF RedisInv, Limited
  <2>2. Cardinality(Alive(k)) \in Nat /\ Cardinality(Alive(k)) <= Limit(k)
        /\ Cardinality(zset[k]) \in Nat
    BY <2>1, Counts
  <2>3. CASE k \notin seen
    BY <1>4, <2>1, <2>3
  <2>4. CASE k \in seen /\ outcome # "ok"
    <3>1. zset'[k] \subseteq Alive(k)
      BY <1>4, <2>4, SlotFacts DEF outcome
    <3>2. Cardinality(zset'[k]) <= Cardinality(Alive(k)) /\ Cardinality(zset'[k]) \in Nat
      BY <2>1, <3>1, Counts
    <3> QED
      BY <2>1, <2>2, <3>2
  <2>5. CASE k \in seen /\ outcome = "ok"
    <3>1. zset'[k] = Alive(k) \cup {r}
      BY <1>4, <2>5, SlotFacts DEF outcome
    <3>2. ~Full(Cardinality(Alive(k)), k)
      BY <1>1, <2>5 DEF outcome, ScriptOutcome, KeysOf
    <3>3. Cardinality(Alive(k)) + 1 <= Limit(k)
      BY <2>1, <2>2, <3>2 DEF Full
    <3>4. Cardinality(zset'[k]) <= Cardinality(Alive(k)) + 1 /\ Cardinality(zset'[k]) \in Nat
      BY <2>1, <3>1, Counts
    <3> QED
      BY <2>1, <2>2, <3>3, <3>4
  <2> QED
    BY <2>3, <2>4, <2>5
<1>11. ASSUME NEW k \in Keys, NEW q \in Requests, k \in has[q], age'[q] < TTL
       PROVE  q \in zset'[k]
  <2>1. q # r
    BY <1>5, <1>11
  <2>2. age[q] < TTL /\ q \in zset[k]
    BY <1>3, <1>11, <2>1 DEF RedisInv, Backed
  <2>3. q \in Alive(k)
    BY <1>7, <2>2, BoundsAssumption DEF Alive, Zombie
  <2> QED
    BY <1>4, <2>1, <2>2, <2>3, SlotFacts DEF outcome
<1>12. ASSUME outcome = "ok", NEW k \in KeysOf(r) PROVE r \in zset'[k]
  <2>1. k \in seen /\ k \in Keys
    BY <1>1, <1>12, KeyFacts
  <2> QED
    BY <1>4, <1>12, <2>1, SlotFacts DEF outcome
<1>13. ASSUME NEW k \in Keys, NEW q \in zset'[k]
       PROVE  q \in zset[k] \/ (q = r /\ outcome = "ok" /\ k \in KeysOf(r))
  BY <1>1, <1>4, <1>8
<1> QED
  BY <1>9, <1>10, <1>11, <1>12, <1>13 DEF outcome

\* Every step keeps the slots in Redis in order.
LEMMA RedisStep == ASSUME Types, HeldInv, RedisInv, [Next]_vars PROVE RedisInv'
<1>0. UNCHANGED RedisEnabled
  BY ModeStep
<1>1. ASSUME NEW r \in Requests, Arrive(r) \/ PassUnlimited(r) \/ Uncount(r)
      PROVE  RedisInv'
  BY <1>1, <1>0, RedisFrame DEF Arrive, PassUnlimited, Uncount
<1>2. ASSUME NEW r \in Requests, RedisAcquire(r) PROVE RedisInv'
  <2>1. RedisEnabled /\ At(r, "new")
    BY <1>2 DEF RedisAcquire
  <2>2. PICK o \in Outcomes :
          /\ Count(o)
          /\ IF o = "failed" THEN UNCHANGED redisVars ELSE RunScript(r)
          /\ \/ o # "ok" /\ UNCHANGED has
             \/ /\ o = "ok" /\ ScriptOutcome(r) = "ok"
                /\ has' = [has EXCEPT ![r] = KeysOf(r)]
             \/ /\ o = "ok" /\ ScriptOutcome(r) # "ok"
                /\ UNCHANGED has
    BY <1>2 DEF RedisAcquire
  <2>3. faults' = 0 => o = "ok" /\ faults = 0
    BY <2>2, CountType
  <2>4. CASE o = "failed"
    BY <2>2, <2>3, <2>4, <1>0, RedisFrame
  <2>5. CASE RunScript(r)
    <3>1. /\ Placed' /\ Limited'
          /\ \A k \in Keys, q \in Requests :
                k \in has[q] /\ age'[q] < TTL => q \in zset'[k]
          /\ ScriptOutcome(r) = "ok" => \A k \in KeysOf(r) : r \in zset'[k]
          /\ \A k \in Keys : \A q \in zset'[k] :
                q \in zset[k] \/ (q = r /\ ScriptOutcome(r) = "ok" /\ k \in KeysOf(r))
      BY <2>1, <2>5, <1>0, ScriptKeeps
    <3>2. \A q \in Requests : has'[q] = has[q] \/ (q = r /\ ScriptOutcome(r) = "ok" /\ has'[q] = KeysOf(r))
      BY <2>2 DEF Types
    <3>3. Backed'
      BY <1>0, <3>1, <3>2 DEF Backed
    <3>4. NoLeak'
      <4> SUFFICES ASSUME faults' = 0, NEW k \in Keys, NEW q \in zset'[k] PROVE k \in has'[q]
        BY DEF NoLeak
      <4>1. o = "ok" /\ faults = 0
        BY <2>3
      <4>2. has[r] = {}
        BY <2>1 DEF HeldInv, Held, At
      <4>3. CASE q \in zset[k]
        <5>1. k \in has[q] /\ q \in Requests
          BY <4>1, <4>3 DEF RedisInv, NoLeak, Types
        <5>2. q # r
          BY <4>2, <5>1
        <5> QED
          BY <3>2, <5>1, <5>2
      <4>4. CASE q = r /\ ScriptOutcome(r) = "ok" /\ k \in KeysOf(r)
        BY <2>2, <4>1, <4>4 DEF Types
      <4> QED
        BY <3>1, <4>3, <4>4
    <3> QED
      BY <3>1, <3>3, <3>4 DEF RedisInv
  <2> QED
    BY <2>2, <2>4, <2>5
<1>3. ASSUME NEW r \in Requests, MemAcquireUser(r) \/ MemAcquireToken(r) \/ MemRollback(r)
      PROVE  RedisInv'
  <2>1. ~RedisEnabled
    BY <1>3 DEF MemAcquireUser, MemAcquireToken, MemRollback, HeldInv, Held, At
  <2> QED
    BY <1>3, <2>1, <1>0, RedisFrame DEF MemAcquireUser, MemAcquireToken, MemRollback
<1>4. ASSUME NEW r \in Requests, NEW p, NEW ks \in SUBSET Keys, NEW next, RedisRelease(r, p, ks, next)
      PROVE  RedisInv'
  <2>1. PICK o \in Outcomes :
          /\ Count(o)
          /\ zset' = [k \in Keys |-> IF k \in ks /\ o # "failed" THEN zset[k] \ {r} ELSE zset[k]]
          /\ has' = [has EXCEPT ![r] = IF o = "ok" THEN @ \ ks ELSE {}]
    BY <1>4 DEF RedisRelease
  <2>2. faults' = 0 => o = "ok" /\ faults = 0
    BY <2>1, CountType
  <2>3. age' = age /\ idle' = idle
    BY <1>4 DEF RedisRelease
  <2>4. \A q \in Requests : has'[q] = IF q = r THEN (IF o = "ok" THEN has[r] \ ks ELSE {}) ELSE has[q]
    BY <2>1 DEF Types
  <2>5. \A k \in Keys : zset'[k] = IF k \in ks /\ o # "failed" THEN zset[k] \ {r} ELSE zset[k]
    BY <2>1
  <2>6. \A k \in Keys : zset[k] \subseteq Requests
    BY DEF Types
  <2>7. Placed'
    BY <1>0, <2>3, <2>5 DEF RedisInv, Placed
  <2>8. Backed'
    BY <1>0, <2>3, <2>4, <2>5 DEF RedisInv, Backed
  <2>9. Limited'
    <3> SUFFICES ASSUME NEW k \in Keys PROVE Cardinality(zset'[k]) <= Limit(k)
      BY DEF Limited
    <3>1. zset'[k] \subseteq zset[k] /\ zset[k] \subseteq Requests
      BY <2>5, <2>6
    <3>2. Cardinality(zset'[k]) <= Cardinality(zset[k]) /\ Cardinality(zset'[k]) \in Nat
          /\ Cardinality(zset[k]) \in Nat
      BY <3>1, Counts
    <3> QED
      BY <3>2, LimitNat DEF RedisInv, Limited
  <2>10. NoLeak'
    <3> SUFFICES ASSUME faults' = 0, NEW k \in Keys, NEW q \in zset'[k] PROVE k \in has'[q]
      BY DEF NoLeak
    <3>1. o = "ok" /\ faults = 0 /\ q \in zset[k] /\ q \in Requests
      BY <2>2, <2>5, <2>6
    <3>2. k \in has[q]
      BY <3>1 DEF RedisInv, NoLeak
    <3> QED
      BY <2>4, <2>5, <3>1, <3>2
  <2> QED
    BY <2>7, <2>8, <2>9, <2>10 DEF RedisInv
<1>5. ASSUME NEW r \in Requests, NEW p, NEW ks \in SUBSET Keys, NEW next, MemRelease(r, p, ks, next)
      PROVE  RedisInv'
  BY <1>5, <1>0, RedisFrame DEF MemRelease
<1>6. ASSUME NEW r \in Requests, ReleaseUser(r) \/ ReleaseToken(r) PROVE RedisInv'
  BY <1>4, <1>5, <1>6, KeyFacts DEF ReleaseUser, ReleaseToken
<1>7. CASE Tick
  <2>1. /\ \A q \in Requests : age'[q] = Later(age[q])
        /\ \A k \in Keys : idle'[k] = Later(idle[k])
        /\ \A k \in Keys : zset'[k] = IF Expires(k) THEN {} ELSE zset[k]
        /\ has' = has /\ faults' = faults
    BY <1>7 DEF Tick
  <2>2. \A q \in Requests : age[q] \in 0..TTL
    BY DEF Types
  <2>3. \A k \in Keys : idle[k] \in 0..TTL /\ zset[k] \subseteq Requests
    BY DEF Types
  <2>4. Placed'
    <3> SUFFICES ASSUME NEW k \in Keys, NEW q \in zset'[k]
                 PROVE  RedisEnabled /\ k \in KeysOf(q) /\ age'[q] >= idle'[k]
      BY <1>0 DEF Placed
    <3>1. q \in zset[k] /\ q \in Requests
      BY <2>1, <2>3
    <3>2. RedisEnabled /\ k \in KeysOf(q) /\ age[q] >= idle[k]
      BY <3>1 DEF RedisInv, Placed
    <3> QED
      BY <2>1, <2>2, <2>3, <3>1, <3>2, BoundsAssumption DEF Later
  <2>5. Backed'
    <3> SUFFICES ASSUME NEW k \in Keys, NEW q \in Requests, RedisEnabled, k \in has[q], age'[q] < TTL
                 PROVE  q \in zset'[k]
      BY <1>0, <2>1 DEF Backed
    <3>1. age[q] + 1 < TTL
      BY <2>1, <2>2, BoundsAssumption DEF Later
    <3>2. q \in zset[k]
      BY <2>2, <3>1, BoundsAssumption DEF RedisInv, Backed
    <3>3. age[q] >= idle[k]
      BY <3>2 DEF RedisInv, Placed
    <3>4. ~Expires(k)
      BY <2>2, <2>3, <3>1, <3>3, BoundsAssumption DEF Expires
    <3> QED
      BY <2>1, <3>2, <3>4
  <2>6. Limited'
    BY <2>1, LimitNat, FS_EmptySet DEF RedisInv, Limited
  <2>7. NoLeak'
    BY <2>1 DEF RedisInv, NoLeak
  <2> QED
    BY <2>4, <2>5, <2>6, <2>7 DEF RedisInv
<1>8. ASSUME NEW i \in Instances, Kill(i) PROVE RedisInv'
  <2>1. faults' # 0
    BY <1>8, BoundsAssumption DEF Kill, Types
  <2>2. \A q \in Requests : has'[q] \subseteq has[q]
    BY <1>8 DEF Kill
  <2> QED
    BY <1>8, <2>1, <2>2, <1>0, RedisFrame DEF Kill
<1>9. CASE UNCHANGED vars
  BY <1>9, <1>0, RedisFrame DEF vars, redisVars
<1> QED
  BY <1>1, <1>2, <1>3, <1>6, <1>7, <1>8, <1>9 DEF Next, Step

----------------------------------------------------------------------------
(* The slots in memory. *)

\* No slot is in use initially.
LEMMA MemInit == Init => MemInv
<1> SUFFICES ASSUME Init, NEW i \in Instances, NEW k \in Keys
             PROVE  inUse[i][k] <= Limit(k) /\ inUse[i][k] = Cardinality(Holders(i, k))
  BY DEF MemInv
<1>1. inUse[i][k] = 0 /\ Holders(i, k) = {}
  BY DEF Init, Holders
<1> QED
  BY <1>1, LimitNat, FS_EmptySet

\* A step that leaves the counts and, without Redis, what is held alone.
LEMMA MemFrame ==
    ASSUME MemInv, UNCHANGED <<RedisEnabled, inUse>>, ~RedisEnabled => UNCHANGED has
    PROVE  MemInv'
BY DEF MemInv, Holders

\* Taking slots that are free and not had.
LEMMA TakeKeeps ==
    ASSUME Types, MemInv, UNCHANGED RedisEnabled, NEW r \in Requests, NEW ks \in SUBSET Keys, TakeSlots(r, ks),
           \A k \in ks : ~Full(Used(r, k), k), has[r] \cap ks = {}
    PROVE  MemInv'
<1> SUFFICES ASSUME NEW i \in Instances, NEW k \in Keys
             PROVE  /\ inUse'[i][k] <= Limit(k)
                    /\ ~RedisEnabled => inUse'[i][k] = Cardinality(Holders(i, k)')
  BY DEF MemInv
<1>1. InstanceOf[r] \in Instances
  BY ActorsAssumption
<1>2. inUse'[i][k] = IF i = InstanceOf[r] /\ k \in ks THEN inUse[i][k] + 1 ELSE inUse[i][k]
  BY <1>1 DEF Types, TakeSlots
<1>3. Holders(i, k)' = IF i = InstanceOf[r] /\ k \in ks THEN Holders(i, k) \cup {r} ELSE Holders(i, k)
  BY SlotsHad DEF Holders
<1>4. Holders(i, k) \in SUBSET Requests /\ (k \in ks => r \notin Holders(i, k))
  BY DEF Holders
<1>5. /\ inUse[i][k] \in Nat /\ Limit(k) \in Nat /\ inUse[i][k] <= Limit(k)
      /\ ~RedisEnabled => inUse[i][k] = Cardinality(Holders(i, k))
  BY LimitNat DEF Types, MemInv
<1>6. i = InstanceOf[r] /\ k \in ks => inUse[i][k] + 1 <= Limit(k)
  BY <1>5 DEF Full, Used
<1>7. r \notin Holders(i, k) => Cardinality(Holders(i, k) \cup {r}) = Cardinality(Holders(i, k)) + 1
  BY <1>4, Counts
<1> QED
  BY <1>2, <1>3, <1>4, <1>5, <1>6, <1>7

\* Giving slots back that are had.
LEMMA GiveKeeps ==
    ASSUME Types, MemInv, UNCHANGED RedisEnabled, NEW r \in Requests, NEW ks \in SUBSET Keys, GiveSlots(r, ks),
           ks \subseteq has[r]
    PROVE  MemInv'
<1> SUFFICES ASSUME NEW i \in Instances, NEW k \in Keys
             PROVE  /\ inUse'[i][k] <= Limit(k)
                    /\ ~RedisEnabled => inUse'[i][k] = Cardinality(Holders(i, k)')
  BY DEF MemInv
<1>1. InstanceOf[r] \in Instances
  BY ActorsAssumption
<1>2. inUse'[i][k] = IF i = InstanceOf[r] /\ k \in ks THEN Decremented(inUse[i][k]) ELSE inUse[i][k]
  BY <1>1 DEF Types, GiveSlots
<1>3. Holders(i, k)' = IF i = InstanceOf[r] /\ k \in ks THEN Holders(i, k) \ {r} ELSE Holders(i, k)
  BY SlotsHad DEF Holders
<1>4. Holders(i, k) \in SUBSET Requests /\ (i = InstanceOf[r] /\ k \in ks => r \in Holders(i, k))
  BY DEF Holders
<1>5. /\ inUse[i][k] \in Nat /\ Limit(k) \in Nat /\ inUse[i][k] <= Limit(k)
      /\ ~RedisEnabled => inUse[i][k] = Cardinality(Holders(i, k))
  BY LimitNat DEF Types, MemInv
<1>6. r \in Holders(i, k) => /\ Cardinality(Holders(i, k) \ {r}) = Cardinality(Holders(i, k)) - 1
                             /\ Cardinality(Holders(i, k)) > 0
  BY <1>4, Counts
<1>7. \A n \in Nat : Decremented(n) <= n /\ Decremented(n) \in Nat /\ (n > 0 => Decremented(n) = n - 1)
  BY DEF Decremented
<1> QED
  BY <1>2, <1>3, <1>4, <1>5, <1>6, <1>7

\* Every step keeps the counts exact and within the limits.
LEMMA MemStep == ASSUME Types, HeldInv, MemInv, [Next]_vars PROVE MemInv'
<1>0. UNCHANGED RedisEnabled
  BY ModeStep
<1>1. ASSUME NEW r \in Requests, Arrive(r) \/ PassUnlimited(r) \/ RedisAcquire(r) \/ Uncount(r)
      PROVE  MemInv'
  BY <1>1, <1>0, MemFrame DEF Arrive, PassUnlimited, RedisAcquire, Uncount
<1>2. ASSUME NEW r \in Requests, MemAcquireUser(r) PROVE MemInv'
  <2>1. has[r] = {}
    BY <1>2 DEF MemAcquireUser, HeldInv, Held, At
  <2> QED
    BY <1>2, <2>1, <1>0, MemFrame, TakeKeeps, KeyFacts DEF MemAcquireUser
<1>3. ASSUME NEW r \in Requests, MemAcquireToken(r) PROVE MemInv'
  <2>1. has[r] = UserKeys(r)
    BY <1>3 DEF MemAcquireToken, HeldInv, Held, At
  <2> QED
    BY <1>3, <2>1, <1>0, MemFrame, TakeKeeps, KeyFacts DEF MemAcquireToken
<1>4. ASSUME NEW r \in Requests, MemRollback(r) PROVE MemInv'
  <2>1. has[r] = UserKeys(r)
    BY <1>4 DEF MemRollback, HeldInv, Held, At
  <2> QED
    BY <1>4, <2>1, <1>0, GiveKeeps, KeyFacts DEF MemRollback, RolledBackSlots
<1>5. ASSUME NEW r \in Requests, ReleaseUser(r) \/ ReleaseToken(r) PROVE MemInv'
  <2>1. CASE RedisEnabled
    BY <1>5, <2>1, <1>0, MemFrame DEF ReleaseUser, ReleaseToken, RedisRelease, MemRelease
  <2>2. CASE has[r] # {} /\ MemRelease(r, "serving", UserKeys(r), "relToken")
    <3>1. UserKeys(r) \subseteq has[r]
      BY <2>2, KeyFacts DEF MemRelease, HeldInv, Held, At
    <3> QED
      BY <2>2, <3>1, <1>0, GiveKeeps, KeyFacts DEF MemRelease
  <2>3. CASE MemRelease(r, "relToken", TokenKeys(r), "uncount")
    <3>1. TokenKeys(r) \subseteq has[r]
      BY <2>3 DEF MemRelease, HeldInv, Held, At
    <3> QED
      BY <2>3, <3>1, <1>0, GiveKeeps, KeyFacts DEF MemRelease
  <2> QED
    BY <1>5, <2>1, <2>2, <2>3 DEF ReleaseUser, ReleaseToken, RedisRelease
<1>6. CASE Tick
  BY <1>6, <1>0, MemFrame DEF Tick
<1>7. ASSUME NEW i \in Instances, Kill(i) PROVE MemInv'
  <2> SUFFICES ASSUME NEW j \in Instances, NEW k \in Keys
               PROVE  /\ inUse'[j][k] <= Limit(k)
                      /\ ~RedisEnabled => inUse'[j][k] = Cardinality(Holders(j, k)')
    BY <1>0 DEF MemInv
  <2>1. inUse'[j][k] = IF j = i THEN 0 ELSE inUse[j][k]
    BY <1>7 DEF Kill, Types
  <2>2. Holders(j, k)' = IF j = i THEN {} ELSE Holders(j, k)
    BY <1>7 DEF Kill, Holders
  <2> QED
    BY <2>1, <2>2, LimitNat, FS_EmptySet DEF MemInv
<1>8. CASE UNCHANGED vars
  BY <1>8, <1>0, MemFrame DEF vars
<1> QED
  BY <1>1, <1>2, <1>3, <1>4, <1>5, <1>6, <1>7, <1>8 DEF Next, Step

----------------------------------------------------------------------------
(* The requests in flight. *)

\* The requests between IncInflight and DecInflight.
InFlight(i, t) == {q \in Requests : InstanceOf[q] = i /\ TokenOf[q] = t /\ pc[q] \in Passed}

\* No request is in flight initially.
LEMMA InflightInit == Init => InflightExact
<1> SUFFICES ASSUME Init, NEW i \in Instances, NEW t \in Tokens
             PROVE  inflight[i][t] = Cardinality(InFlight(i, t))
  BY DEF InflightExact, InFlight
<1>1. inflight[i][t] = 0 /\ InFlight(i, t) = {}
  BY DEF Init, InFlight, Passed
<1> QED
  BY <1>1, FS_EmptySet

\* A step that neither counts nor uncounts a request.
LEMMA InflightFrame ==
    ASSUME InflightExact, UNCHANGED inflight,
           \A q \in Requests : pc'[q] \in Passed <=> pc[q] \in Passed
    PROVE  InflightExact'
<1>1. \A i, t : InFlight(i, t)' = InFlight(i, t)
  BY DEF InFlight
<1> QED
  BY <1>1 DEF InflightExact, InFlight

\* A step in which one request moves between places that are counted alike.
LEMMA InflightMove ==
    ASSUME Types, InflightExact, NEW r \in Requests, NEW p, Goto(r, p), UNCHANGED inflight,
           p \in Passed <=> pc[r] \in Passed
    PROVE  InflightExact'
BY GotoFacts, InflightFrame

\* A request that is let through is counted.
LEMMA AdmitCounts ==
    ASSUME Types, InflightExact, NEW r \in Requests, Admit(r), pc[r] \notin Passed
    PROVE  InflightExact'
<1> SUFFICES ASSUME NEW i \in Instances, NEW t \in Tokens
             PROVE  inflight'[i][t] = Cardinality(InFlight(i, t)')
  BY DEF InflightExact, InFlight
<1> DEFINE mine == i = InstanceOf[r] /\ t = TokenOf[r]
<1>1. InFlight(i, t) \in SUBSET Requests /\ r \notin InFlight(i, t)
  BY DEF InFlight
<1>2. inflight[i][t] = Cardinality(InFlight(i, t)) /\ inflight[i][t] \in Nat
  BY DEF InflightExact, InFlight, Types
<1>3. mine => inflight[i][t] = InflightOf(r)
  BY DEF InflightOf
<1>4. InflightOf(r) \in Nat
  BY ActorsAssumption DEF InflightOf, Types
<1>5. inflight'[i][t] = IF mine THEN InflightOf(r) + 1 ELSE inflight[i][t]
  BY <1>4, MoveFacts DEF Admit
<1>6. InFlight(i, t)' = IF mine THEN InFlight(i, t) \cup {r} ELSE InFlight(i, t)
  BY AdmitFacts DEF InFlight, Passed
<1>7. Cardinality(InFlight(i, t) \cup {r}) = Cardinality(InFlight(i, t)) + 1
  BY <1>1, Counts
<1> QED
  BY <1>2, <1>3, <1>5, <1>6, <1>7

\* Every step keeps the counters exact.
LEMMA InflightStep == ASSUME Types, InflightExact, [Next]_vars PROVE InflightExact'
<1>1. ASSUME NEW r \in Requests, Arrive(r) PROVE InflightExact'
  BY <1>1, InflightMove DEF Arrive, At, Ended, Passed
<1>2. ASSUME NEW r \in Requests, PassUnlimited(r) PROVE InflightExact'
  BY <1>2, AdmitCounts DEF PassUnlimited, At, Passed
<1>3. ASSUME NEW r \in Requests, RedisAcquire(r) PROVE InflightExact'
  <2>1. pc[r] \notin Passed /\ ScriptOutcome(r) \notin Passed
    BY <1>3 DEF RedisAcquire, At, Passed, ScriptOutcome
  <2>2. \/ UNCHANGED <<pc, inflight>> \/ Admit(r)
        \/ Goto(r, ScriptOutcome(r)) /\ UNCHANGED inflight
    BY <1>3 DEF RedisAcquire
  <2> QED
    BY <2>1, <2>2, InflightMove, InflightFrame, AdmitCounts
<1>4. ASSUME NEW r \in Requests, MemAcquireUser(r) \/ MemRollback(r) PROVE InflightExact'
  BY <1>4, InflightMove DEF MemAcquireUser, MemRollback, At, Passed
<1>5. ASSUME NEW r \in Requests, MemAcquireToken(r) PROVE InflightExact'
  <2>1. pc[r] \notin Passed
    BY <1>5 DEF MemAcquireToken, At, Passed
  <2>2. \/ Admit(r)
        \/ (Goto(r, "tokenExceeded") \/ Goto(r, "rollback")) /\ UNCHANGED inflight
    BY <1>5 DEF MemAcquireToken, Goto
  <2> QED
    BY <2>1, <2>2, InflightMove, AdmitCounts DEF Passed
<1>6. ASSUME NEW r \in Requests, ReleaseUser(r) \/ ReleaseToken(r) PROVE InflightExact'
  <2>1. UNCHANGED inflight /\ pc[r] \in Passed
    BY <1>6 DEF ReleaseUser, ReleaseToken, RedisRelease, MemRelease, At, Passed
  <2>2. Goto(r, "relToken") \/ Goto(r, "uncount")
    BY <1>6 DEF ReleaseUser, ReleaseToken, RedisRelease, MemRelease, Goto
  <2> QED
    BY <2>1, <2>2, InflightMove DEF Passed
<1>7. ASSUME NEW r \in Requests, Uncount(r) PROVE InflightExact'
  <2> SUFFICES ASSUME NEW i \in Instances, NEW t \in Tokens
               PROVE  inflight'[i][t] = Cardinality(InFlight(i, t)')
    BY DEF InflightExact, InFlight
  <2> DEFINE mine == i = InstanceOf[r] /\ t = TokenOf[r]
  <2>1. InFlight(i, t) \in SUBSET Requests
    BY DEF InFlight
  <2>2. inflight[i][t] = Cardinality(InFlight(i, t)) /\ inflight[i][t] \in Nat
    BY DEF InflightExact, InFlight, Types
  <2>3. mine => inflight[i][t] = InflightOf(r)
    BY DEF InflightOf
  <2>4. InflightOf(r) \in Nat
    BY ActorsAssumption DEF InflightOf, Types
  <2>5. inflight'[i][t] = IF mine THEN Decremented(InflightOf(r)) ELSE inflight[i][t]
    BY <1>7, <2>4, MoveFacts, DecrementedType DEF Uncount
  <2>6. pc[r] \in Passed /\ pc'[r] = "idle" /\ \A q \in Requests \ {r} : pc'[q] = pc[q]
    BY <1>7, GotoFacts DEF Uncount, At, Passed
  <2>7. InFlight(i, t)' = IF mine THEN InFlight(i, t) \ {r} ELSE InFlight(i, t)
    BY <2>6 DEF InFlight, Passed
  <2>8. mine => r \in InFlight(i, t)
    BY <2>6 DEF InFlight
  <2>9. mine => /\ Cardinality(InFlight(i, t) \ {r}) = Cardinality(InFlight(i, t)) - 1
                /\ Cardinality(InFlight(i, t)) > 0
    BY <2>1, <2>8, Counts
  <2>10. \A n \in Nat : n > 0 => Decremented(n) = n - 1
    BY DEF Decremented
  <2> QED
    BY <2>2, <2>3, <2>4, <2>5, <2>7, <2>9, <2>10
<1>8. CASE Tick
  BY <1>8, InflightFrame DEF Tick
<1>9. ASSUME NEW i \in Instances, Kill(i) PROVE InflightExact'
  <2> SUFFICES ASSUME NEW j \in Instances, NEW t \in Tokens
               PROVE  inflight'[j][t] = Cardinality(InFlight(j, t)')
    BY DEF InflightExact, InFlight
  <2>1. inflight'[j][t] = IF j = i THEN 0 ELSE inflight[j][t]
    BY <1>9 DEF Kill, Types
  <2>2. \A q \in Requests : pc'[q] = IF InstanceOf[q] = i THEN "idle" ELSE pc[q]
    BY <1>9 DEF Kill
  <2>3. InFlight(j, t)' = IF j = i THEN {} ELSE InFlight(j, t)
    BY <2>2 DEF InFlight, Passed
  <2>4. inflight[j][t] = Cardinality(InFlight(j, t))
    BY DEF InflightExact, InFlight
  <2> QED
    BY <2>1, <2>3, <2>4, FS_EmptySet
<1>10. CASE UNCHANGED vars
  BY <1>10, InflightFrame DEF vars
<1> QED
  BY <1>1, <1>2, <1>3, <1>4, <1>5, <1>6, <1>7, <1>8, <1>9, <1>10 DEF Next, Step

----------------------------------------------------------------------------
(* The theorems. *)

\* The invariant holds initially.
LEMMA InvInit == Init => Inv
BY TypesInit, HeldInit, RedisInit, MemInit, InflightInit DEF Inv

\* Every step keeps it.
LEMMA InvStep == Inv /\ [Next]_vars => Inv'
BY TypesStep, HeldStep, RedisStep, MemStep, InflightStep DEF Inv

\* It holds in every reachable state.
LEMMA Invariance == Spec => []Inv
BY InvInit, InvStep, PTL DEF Spec

\* No key has more slots than its limit, in Redis or in the memory of a process,
\* however the requests take, roll back, collect and release them.
THEOREM TypeCorrect == Spec => []TypeOK
<1>1. Inv => TypeOK
  BY DEF Inv, Types, RedisInv, Limited, MemInv, TypeOK
<1> QED
  BY <1>1, Invariance, PTL

\* No more requests are served than the user and the token allow, but for those
\* let through by an error of Redis or served for longer than TTL: the lock of a
\* shard is enough for the two slots in memory, and neither the collection of
\* zombies nor the expiry of a key takes the slot of a request before its time.
THEOREM LimitKept == Spec => []WithinLimit
<1>1. ASSUME Inv PROVE WithinLimit
  <2> SUFFICES ASSUME NEW k \in Keys
               PROVE  IF RedisEnabled THEN Cardinality(Served(k)) <= Limit(k)
                      ELSE \A i \in Instances :
                              Cardinality({r \in Served(k) : InstanceOf[r] = i}) <= Limit(k)
    BY DEF WithinLimit
  <2>1. \A r \in Served(k) : r \in Requests /\ k \in has[r]
    BY <1>1 DEF Inv, HeldInv, Held, Served
  <2>2. Limit(k) \in Nat
    BY LimitNat
  <2>3. CASE RedisEnabled
    <3>1. Served(k) \subseteq zset[k]
      BY <1>1, <2>1, <2>3 DEF Inv, RedisInv, Backed, Served
    <3>2. zset[k] \subseteq Requests /\ Cardinality(zset[k]) <= Limit(k)
      BY <1>1 DEF Inv, Types, RedisInv, Limited
    <3>3. Cardinality(Served(k)) <= Cardinality(zset[k]) /\ Cardinality(Served(k)) \in Nat
          /\ Cardinality(zset[k]) \in Nat
      BY <3>1, <3>2, Counts
    <3> QED
      BY <2>2, <2>3, <3>2, <3>3
  <2>4. CASE ~RedisEnabled
    <3> SUFFICES ASSUME NEW i \in Instances
                 PROVE  Cardinality({r \in Served(k) : InstanceOf[r] = i}) <= Limit(k)
      BY <2>4
    <3> DEFINE S == {r \in Served(k) : InstanceOf[r] = i}
    <3>1. S \subseteq Holders(i, k) /\ Holders(i, k) \subseteq Requests
      BY <2>1 DEF Holders
    <3>2. Cardinality(Holders(i, k)) <= Limit(k)
      BY <1>1, <2>4 DEF Inv, MemInv
    <3> HIDE DEF S
    <3>3. Cardinality(S) <= Cardinality(Holders(i, k)) /\ Cardinality(S) \in Nat
          /\ Cardinality(Holders(i, k)) \in Nat
      BY <3>1, Counts
    <3>4. Cardinality(S) <= Limit(k)
      BY <2>2, <3>2, <3>3
    <3> QED
      BY <3>4 DEF S
  <2> QED
    BY <2>3, <2>4
<1> QED
  BY <1>1, Invariance, PTL

\* Without a fault a refused request leaves no slot behind in Redis.
THEOREM LeakFree == Spec => []NoLeak
<1>1. Inv => NoLeak
  BY DEF Inv, RedisInv
<1> QED
  BY <1>1, Invariance, PTL

\* A process's count of a key is the number of its requests that will give a
\* slot back, so releaseMemorySlot never meets a count of zero.
THEOREM CountsExact == Spec => []CountExact
<1>1. ASSUME Inv PROVE CountExact
  <2> SUFFICES ASSUME ~RedisEnabled, NEW i \in Instances, NEW k \in Keys
               PROVE  inUse[i][k] =
                        Cardinality({r \in Requests : /\ InstanceOf[r] = i /\ k \in has[r]
                                                      /\ pc[r] \notin Ended})
    BY DEF CountExact
  <2>1. Holders(i, k) = {r \in Requests : /\ InstanceOf[r] = i /\ k \in has[r]
                                          /\ pc[r] \notin Ended}
    BY <1>1 DEF Inv, HeldInv, Held, Holders
  <2>2. inUse[i][k] = Cardinality(Holders(i, k))
    BY <1>1 DEF Inv, MemInv
  <2> QED
    BY <2>1, <2>2
<1> QED
  BY <1>1, Invariance, PTL

\* The number shown for a token is that of its requests that were let through.
THEOREM InflightCorrect == Spec => []InflightExact
<1>1. Inv => InflightExact
  BY DEF Inv
<1> QED
  BY <1>1, Invariance, PTL

\* With Redis and without faults, a request is refused for its user only because
\* of requests that were let through: the script undoes the user's slot of a
\* request that the token refuses before anyone can see it.
THEOREM RefusalJust == Spec => JustRefusal
<1> DEFINE Having(k) == {q \in Requests : pc[q] \in Passed /\ k \in has[q]}
           Just == \A r \in Requests :
                RedisEnabled /\ faults = 0 /\ pc[r] = "new" /\ pc'[r] = "userExceeded" =>
                    \A k \in UserKeys(r) : Cardinality(Having(k)) >= Limit(k)
<1>1. ASSUME Inv, [Next]_vars PROVE [Just]_vars
  <2> SUFFICES ASSUME NEW r \in Requests, RedisEnabled, pc[r] = "new", pc'[r] = "userExceeded",
                      faults = 0, NEW k \in UserKeys(r), Next
               PROVE  Cardinality(Having(k)) >= Limit(k)
    BY <1>1 DEF Just
  <2>1. Types
    BY <1>1 DEF Inv
  <2>2. RedisAcquire(r)
    <3>1. ASSUME NEW q \in Requests, Step(q) PROVE q = r
      BY <2>1, <3>1, GotoFacts, AdmitFacts DEF Step, Arrive, PassUnlimited, RedisAcquire,
         MemAcquireUser, MemAcquireToken, MemRollback, ReleaseUser, ReleaseToken, RedisRelease,
         MemRelease, Uncount
    <3>2. Step(r) => RedisAcquire(r)
      BY <1>1, <2>1, GotoFacts, AdmitFacts DEF Step, Arrive, PassUnlimited, MemAcquireUser, Ended,
         MemAcquireToken, MemRollback, ReleaseUser, ReleaseToken, RedisRelease, MemRelease,
         Uncount, At
    <3>3. ~Tick
      BY DEF Tick
    <3>4. ASSUME NEW i \in Instances, Kill(i) PROVE FALSE
      BY <3>4 DEF Kill
    <3> QED
      BY <3>1, <3>2, <3>3, <3>4 DEF Next
  <2>3. ScriptOutcome(r) = "userExceeded"
    BY <2>1, <2>2, GotoFacts, AdmitFacts DEF RedisAcquire
  <2>4. \E u \in UserKeys(r) : Full(Cardinality(Alive(u)), u)
    BY <2>3 DEF ScriptOutcome
  <2>5. \A u \in UserKeys(r) : u = k
    BY DEF UserKeys
  <2>6. Cardinality(Alive(k)) >= Limit(k) /\ k \in Keys
    BY <2>4, <2>5, KeyFacts DEF Full
  <2>7. Alive(k) \subseteq Having(k)
    <3>1. \A q \in zset[k] : q \in Requests /\ k \in has[q]
      BY <1>1, <2>1, <2>6 DEF Inv, RedisInv, NoLeak, Types
    <3>2. \A q \in Requests : k \in has[q] => pc[q] \in Passed
      BY <1>1, <2>1 DEF Inv, HeldInv, Held, Types, PCs
    <3> QED
      BY <3>1, <3>2 DEF Alive
  <2>8. Having(k) \in SUBSET Requests
    OBVIOUS
  <2> HIDE DEF Having
  <2>9. /\ Cardinality(Alive(k)) <= Cardinality(Having(k))
        /\ Cardinality(Alive(k)) \in Nat /\ Cardinality(Having(k)) \in Nat
    BY <2>7, <2>8, Counts
  <2> QED
    BY <2>6, <2>9, LimitNat
<1>2. Inv /\ [Next]_vars => [Just]_vars
  BY <1>1
<1>3. Spec => [][Just]_vars
  BY <1>2, Invariance, PTL DEF Spec
<1> QED
  BY <1>3 DEF JustRefusal
=============================================================================
