-------------------------- MODULE ConcurrencyLimit --------------------------
(***************************************************************************)
(* The concurrency limit of relayed requests: TokenConcurrencyLimit in     *)
(* src/middleware/token-concurrency.go, with the slots of                  *)
(* src/common/limiter/concurrency.go, in Redis (lua/concurrency.lua) or in *)
(* the memory of each process, and the in-flight counters of inflight.go.  *)
(*                                                                         *)
(* A request takes a slot of its user and one of its token, where these    *)
(* are limited, or is answered 429.  A slot in Redis has the time it was   *)
(* taken; what a killed process or a lost answer leaves behind is          *)
(* collected when it is TTL old.  The model keeps ages instead of times.   *)
(***************************************************************************)
EXTENDS Integers, FiniteSets

CONSTANTS
    Requests, Tokens, Users, Instances,
    TokenOf,        \* the token of a request
    Owner,          \* the user of a token
    InstanceOf,     \* the process that serves a request
    Setting,        \* UserSetting.MaxConcurrency, or Unset
    Unset,
    DefaultMax,     \* DefaultUserMaxConcurrency
    TokenMax,       \* MaxConcurrency of a token
    TTL,            \* tokenConcurrencyTTLSeconds
    MaxFaults       \* bound on errors of Redis and killed processes

ASSUME ActorsAssumption ==
    /\ IsFiniteSet(Requests)
    /\ TokenOf \in [Requests -> Tokens] /\ Owner \in [Tokens -> Users]
    /\ InstanceOf \in [Requests -> Instances]
ASSUME LimitsAssumption ==
    /\ Unset \notin Int /\ Setting \in [Users -> Int \cup {Unset}]
    /\ DefaultMax \in Int /\ TokenMax \in [Tokens -> Int]
ASSUME BoundsAssumption ==
    TTL \in Nat \ {0} /\ MaxFaults \in Nat

----------------------------------------------------------------------------
(* The limits. *)

\* The user's own setting, or the default; 0 is no limit.
ResolveUserMaxConcurrency(u) ==
    LET n == IF Setting[u] = Unset THEN DefaultMax ELSE Setting[u]
    IN  IF n < 0 THEN 0 ELSE n

\* A token is allowed no more than its user.
ClampTokenMaxConcurrency(tokenLimit, userLimit) ==
    IF tokenLimit < 0 THEN 0
    ELSE IF userLimit > 0 /\ tokenLimit > userLimit THEN userLimit ELSE tokenLimit

\* UserConcurrencyKey and TokenConcurrencyKey.
Keys == ({"user"} \X Users) \cup ({"token"} \X Tokens)
Limit(k) ==
    IF k[1] = "user" THEN ResolveUserMaxConcurrency(k[2])
    ELSE ClampTokenMaxConcurrency(TokenMax[k[2]], ResolveUserMaxConcurrency(Owner[k[2]]))

\* The keys that limit a request, at most one of each kind.
UserKeys(r) == {k \in {<<"user", Owner[TokenOf[r]]>>} : Limit(k) > 0}
TokenKeys(r) == {k \in {<<"token", TokenOf[r]>>} : Limit(k) > 0}
KeysOf(r) == UserKeys(r) \cup TokenKeys(r)

----------------------------------------------------------------------------
VARIABLES
    RedisEnabled,  \* the mode: decided at start-up, the same for all processes
    pc,        \* where the middleware is
    has,       \* the keys whose slots the request has to release
    open,      \* the requests that an error of Redis let through
    zset,      \* Redis: the requests with a slot of a key
    age,       \* Redis: the time since a request took its slots, up to TTL
    idle,      \* Redis: the time since EXPIRE was set on a key
    inUse,     \* memory: the slots in use of a key, per process
    inflight,  \* the requests in flight of a token, per process
    faults

vars == <<RedisEnabled, pc, has, open, zset, age, idle, inUse, inflight, faults>>
redisVars == <<zset, age, idle>>

Ended == {"idle", "userExceeded", "tokenExceeded"}
\* The request is let through and not done.
Passed == {"serving", "relToken", "uncount"}
PCs == Ended \cup Passed \cup {"new", "memToken", "rollback"}

\* No key has more slots than its limit, in Redis or in the memory of a process.
TypeOK ==
    /\ RedisEnabled \in BOOLEAN
    /\ pc \in [Requests -> PCs]
    /\ has \in [Requests -> SUBSET Keys]
    /\ open \subseteq Requests
    /\ zset \in [Keys -> SUBSET Requests]
    /\ \A k \in Keys : Cardinality(zset[k]) <= Limit(k)
    /\ age \in [Requests -> 0..TTL] /\ idle \in [Keys -> 0..TTL]
    /\ inUse \in [Instances -> [Keys -> Nat]]
    /\ \A i \in Instances, k \in Keys : inUse[i][k] <= Limit(k)
    /\ inflight \in [Instances -> [Tokens -> Nat]]
    /\ faults \in 0..MaxFaults

Init ==
    /\ RedisEnabled \in BOOLEAN
    /\ pc = [r \in Requests |-> "idle"] /\ has = [r \in Requests |-> {}] /\ open = {}
    /\ zset = [k \in Keys |-> {}] /\ age = [r \in Requests |-> 0] /\ idle = [k \in Keys |-> 0]
    /\ inUse = [i \in Instances |-> [k \in Keys |-> 0]]
    /\ inflight = [i \in Instances |-> [t \in Tokens |-> 0]]
    /\ faults = 0

At(r, p) == pc[r] = p
Goto(r, p) == pc' = [pc EXCEPT ![r] = p]

\* IncInflight and DecInflight.
MoveInflight(r, n) == inflight' = [inflight EXCEPT ![InstanceOf[r]][TokenOf[r]] = n]
InflightOf(r) == inflight[InstanceOf[r]][TokenOf[r]]

\* The request is counted, and handed to the next handler.
Admit(r) == MoveInflight(r, InflightOf(r) + 1) /\ Goto(r, "serving")

\* An answer of Redis, or an error before or after the effect.
Outcomes == {"ok"} \cup (IF faults < MaxFaults THEN {"failed", "lost"} ELSE {})
Count(o) == faults' = IF o = "ok" THEN faults ELSE faults + 1

\* A request comes in, with an id that no slot has.
Arrive(r) ==
    /\ pc[r] \in Ended
    /\ \A k \in Keys : r \notin zset[k]
    /\ Goto(r, "new")
    /\ UNCHANGED <<RedisEnabled, has, open, redisVars, inUse, inflight, faults>>

\* Neither the user nor the token is limited.
PassUnlimited(r) ==
    /\ At(r, "new") /\ KeysOf(r) = {}
    /\ Admit(r)
    /\ UNCHANGED <<RedisEnabled, has, open, redisVars, inUse, faults>>

\* Mutant: one request more than the limit.
FullPast(n, k) == n > Limit(k)

Full(n, k) == n >= Limit(k)

----------------------------------------------------------------------------
(* With Redis. *)

\* Mutant: the collection starts too early.
ZombieEarly(q) == age[q] >= TTL - 1

\* ZREMRANGEBYSCORE up to now - ttl.
Zombie(q) == age[q] >= TTL

Alive(k) == {q \in zset[k] : ~Zombie(q)}

\* Mutant: the user's slot stays when the token has none.
NotRolledBack(r, outcome, k) ==
    IF outcome = "ok" \/ k \in UserKeys(r) THEN Alive(k) \cup {r} ELSE Alive(k)

\* The slots of a key that the script has looked at: ZADD, undone by ZREM for
\* the user when the token has no slot left.
Slots(r, outcome, k) ==
    CASE outcome = "ok" -> Alive(k) \cup {r}
      [] outcome = "tokenExceeded" /\ k \in UserKeys(r) -> Alive(k) \ {r}
      [] OTHER -> Alive(k)

\* The script looks at the token only if the user has a slot left.
ScriptOutcome(r) ==
    IF \E k \in UserKeys(r) : Full(Cardinality(Alive(k)), k) THEN "userExceeded"
    ELSE IF \E k \in TokenKeys(r) : Full(Cardinality(Alive(k)), k) THEN "tokenExceeded"
    ELSE "ok"

\* It collects the zombies and sets EXPIRE on the keys it looks at.
RunScript(r) ==
    LET outcome == ScriptOutcome(r)
        seen == IF outcome = "userExceeded" THEN UserKeys(r) ELSE KeysOf(r)
    IN  /\ zset' = [k \in Keys |-> IF k \in seen THEN Slots(r, outcome, k) ELSE zset[k]]
        /\ idle' = [k \in Keys |-> IF k \in seen THEN 0 ELSE idle[k]]
        /\ age' = IF outcome = "ok" THEN [age EXCEPT ![r] = 0] ELSE age

\* AcquireConcurrencySlots; an error lets the request through, without a slot
\* to release.  The Redis client sends the script again when its answer is lost.
RedisAcquire(r) ==
    /\ RedisEnabled /\ At(r, "new") /\ KeysOf(r) # {}
    /\ \E o \in Outcomes :
          /\ Count(o)
          /\ IF o = "failed" THEN UNCHANGED redisVars ELSE RunScript(r)
          /\ \/ o = "lost" /\ UNCHANGED <<pc, has, open, inflight>>
             \/ /\ o # "ok"
                /\ Admit(r) /\ open' = open \cup {r} /\ UNCHANGED has
             \/ /\ o = "ok" /\ ScriptOutcome(r) = "ok"
                /\ Admit(r) /\ has' = [has EXCEPT ![r] = KeysOf(r)] /\ UNCHANGED open
             \/ /\ o = "ok" /\ ScriptOutcome(r) # "ok"
                /\ Goto(r, ScriptOutcome(r)) /\ UNCHANGED <<has, open, inflight>>
    /\ UNCHANGED <<RedisEnabled, inUse>>

----------------------------------------------------------------------------
(* Without Redis.  The lock of a shard makes one slot atomic, not the two.   *)

\* Mutant: the key is removed whatever its count.
RemovedKey(n) == 0

\* releaseMemorySlot.
Decremented(n) == IF n <= 1 THEN 0 ELSE n - 1

\* acquireMemorySlot and releaseMemorySlot of the request's process.
Used(r, k) == inUse[InstanceOf[r]][k]
TakeSlots(r, ks) ==
    /\ inUse' = [inUse EXCEPT ![InstanceOf[r]] =
                   [k \in Keys |-> IF k \in ks THEN @[k] + 1 ELSE @[k]]]
    /\ has' = [has EXCEPT ![r] = @ \cup ks]
GiveSlots(r, ks) ==
    /\ inUse' = [inUse EXCEPT ![InstanceOf[r]] =
                   [k \in Keys |-> IF k \in ks THEN Decremented(@[k]) ELSE @[k]]]
    /\ has' = [has EXCEPT ![r] = @ \ ks]

\* AcquireMemoryConcurrencySlots: the user's slot, the token's slot, and the
\* rollback of the first when there is no second.
MemAcquireUser(r) ==
    /\ ~RedisEnabled /\ At(r, "new") /\ KeysOf(r) # {}
    /\ IF \E k \in UserKeys(r) : Full(Used(r, k), k)
       THEN Goto(r, "userExceeded") /\ UNCHANGED <<inUse, has>>
       ELSE Goto(r, "memToken") /\ TakeSlots(r, UserKeys(r))
    /\ UNCHANGED <<RedisEnabled, open, redisVars, inflight, faults>>

MemAcquireToken(r) ==
    /\ At(r, "memToken")
    /\ IF \E k \in TokenKeys(r) : Full(Used(r, k), k)
       THEN /\ Goto(r, IF has[r] = {} THEN "tokenExceeded" ELSE "rollback")
            /\ UNCHANGED <<inUse, has, inflight>>
       ELSE Admit(r) /\ TakeSlots(r, TokenKeys(r))
    /\ UNCHANGED <<RedisEnabled, open, redisVars, faults>>

\* Mutant: the user's slot stays taken.
KeptSlots(r) == {}

RolledBackSlots(r) == UserKeys(r)

MemRollback(r) ==
    /\ At(r, "rollback")
    /\ Goto(r, "tokenExceeded")
    /\ GiveSlots(r, RolledBackSlots(r))
    /\ UNCHANGED <<RedisEnabled, open, redisVars, inflight, faults>>

----------------------------------------------------------------------------
(* The handler returns: the deferred calls run, the slots first. *)

\* ReleaseConcurrencySlots sends two ZREMs, not in a transaction; an error ends
\* it, and is only logged.
RedisRelease(r, p, ks, next) ==
    /\ RedisEnabled /\ At(r, p)
    /\ \E o \in Outcomes :
          /\ Count(o)
          /\ zset' = [k \in Keys |-> IF k \in ks /\ o # "failed" THEN zset[k] \ {r} ELSE zset[k]]
          /\ has' = [has EXCEPT ![r] = IF o = "ok" THEN @ \ ks ELSE {}]
          /\ Goto(r, IF o = "ok" THEN next ELSE "uncount")
    /\ UNCHANGED <<RedisEnabled, open, age, idle, inUse, inflight>>
MemRelease(r, p, ks, next) ==
    /\ ~RedisEnabled /\ At(r, p)
    /\ GiveSlots(r, ks)
    /\ Goto(r, next)
    /\ UNCHANGED <<RedisEnabled, open, redisVars, inflight, faults>>
ReleaseUser(r) ==
    /\ has[r] # {}
    /\ \/ RedisRelease(r, "serving", UserKeys(r), "relToken")
       \/ MemRelease(r, "serving", UserKeys(r), "relToken")
ReleaseToken(r) ==
    \/ RedisRelease(r, "relToken", TokenKeys(r), "uncount")
    \/ MemRelease(r, "relToken", TokenKeys(r), "uncount")

Uncount(r) ==
    /\ At(r, "uncount") \/ (At(r, "serving") /\ has[r] = {})
    /\ MoveInflight(r, Decremented(InflightOf(r)))
    /\ Goto(r, "idle") /\ open' = open \ {r}
    /\ UNCHANGED <<RedisEnabled, has, redisVars, inUse, faults>>

----------------------------------------------------------------------------
(* Time and failures. *)

\* Mutant: the keys have no expiry.
NeverExpires(k) == FALSE

\* Redis drops a key TTL after the last EXPIRE.
Expires(k) == idle[k] + 1 >= TTL

Later(n) == IF n < TTL THEN n + 1 ELSE TTL
Tick ==
    /\ RedisEnabled
    /\ age' = [q \in Requests |-> Later(age[q])]
    /\ idle' = [k \in Keys |-> Later(idle[k])]
    /\ zset' = [k \in Keys |-> IF Expires(k) THEN {} ELSE zset[k]]
    /\ UNCHANGED <<RedisEnabled, pc, has, open, inUse, inflight, faults>>

\* A process is killed: no deferred call runs, its memory is gone.
Kill(i) ==
    LET mine(q) == InstanceOf[q] = i
    IN  /\ faults < MaxFaults /\ faults' = faults + 1
        /\ pc' = [q \in Requests |-> IF mine(q) THEN "idle" ELSE pc[q]]
        /\ has' = [q \in Requests |-> IF mine(q) THEN {} ELSE has[q]]
        /\ open' = {q \in open : ~mine(q)}
        /\ inUse' = [inUse EXCEPT ![i] = [k \in Keys |-> 0]]
        /\ inflight' = [inflight EXCEPT ![i] = [t \in Tokens |-> 0]]
        /\ UNCHANGED <<RedisEnabled, redisVars>>

Step(r) ==
    \/ Arrive(r) \/ PassUnlimited(r) \/ RedisAcquire(r)
    \/ MemAcquireUser(r) \/ MemAcquireToken(r) \/ MemRollback(r)
    \/ ReleaseUser(r) \/ ReleaseToken(r) \/ Uncount(r)

Next == (\E r \in Requests : Step(r)) \/ Tick \/ (\E i \in Instances : Kill(i))

\* Time passes.
Spec == Init /\ [][Next]_vars /\ WF_vars(Tick)

----------------------------------------------------------------------------
(* Properties. *)

\* The requests that k limits and that are being served, but for the ones let
\* through by an error of Redis and the ones whose slot has outlived TTL.
Served(k) ==
    {r \in Requests : pc[r] = "serving" /\ k \in KeysOf(r) /\ r \notin open
                      /\ (RedisEnabled => age[r] < TTL)}

\* At any time no more requests are served than their user and their token
\* allow (by one process, without Redis), whatever is killed or fails and
\* however the two slots are taken, rolled back, collected and released.
WithinLimit ==
    \A k \in Keys :
        IF RedisEnabled THEN Cardinality(Served(k)) <= Limit(k)
        ELSE \A i \in Instances : Cardinality({r \in Served(k) : InstanceOf[r] = i}) <= Limit(k)

\* Without a fault a slot in Redis is that of a request that will release it: a
\* refused one leaves none behind.
NoLeak == faults = 0 => \A k \in Keys : \A r \in zset[k] : k \in has[r]

\* A process counts the slots of its requests that are not answered yet: a
\* refused one gives back what it had, a killed process forgets, and no count is
\* stopped at zero.
CountExact ==
    ~RedisEnabled =>
        \A i \in Instances, k \in Keys :
            inUse[i][k] = Cardinality({r \in Requests : /\ InstanceOf[r] = i /\ k \in has[r]
                                                        /\ pc[r] \notin Ended})

\* The number shown for a token is that of the requests let through: a refused
\* one is never counted, and a counted one is uncounted once.
InflightExact ==
    \A i \in Instances, t \in Tokens :
        inflight[i][t] =
            Cardinality({r \in Requests :
                            InstanceOf[r] = i /\ TokenOf[r] = t /\ pc[r] \in Passed})

\* As long as nothing failed, a request is refused for its user only when the
\* user's slots are those of requests that were let through: the user's slot of
\* one that its token refuses is undone before any other request can meet it.
\* Without Redis the slot is there until the rollback, and refuses others.
JustRefusal ==
    [][\A r \in Requests :
          RedisEnabled /\ faults = 0 /\ pc[r] = "new" /\ pc'[r] = "userExceeded" =>
              \A k \in UserKeys(r) :
                  Cardinality({q \in Requests : pc[q] \in Passed /\ k \in has[q]}) >= Limit(k)]_vars

\* A slot that nobody will release disappears, by collection or with its key.
LeakHeals ==
    \A r \in Requests : \A k \in KeysOf(r) :
        (r \in zset[k] /\ k \notin has[r]) ~> (r \notin zset[k])
=============================================================================
