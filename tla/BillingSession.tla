--------------------------- MODULE BillingSession ---------------------------
(***************************************************************************)
(* The money of synchronous and task-submitting requests: each request has *)
(* one BillingSession, which reserves an estimate from the API token and   *)
(* from a funding source (the user's wallet or subscription), may raise    *)
(* the reservation, and in the end settles the real cost or refunds it.    *)
(* All requests belong to one user with one token and one subscription,    *)
(* whose used amount is reset once per period.                             *)
(*                                                                         *)
(* Every statement sent to the database is a step of its own and may fail, *)
(* either without effect or after it took effect (the answer is lost).     *)
(***************************************************************************)
EXTENDS Integers, FiniteSets, FiniteSetsExt

CONSTANTS
    Requests,      \* the requests, each with its requestId and its session
    Pref,          \* BillingPreference of a request
    Playground,    \* requests that use no API token
    Forced,        \* requests with ForcePreConsume (asynchronous tasks)
    Quotas,        \* the prices of a request; each attempt computes one
    Cost,          \* the real quota of a request that succeeds
    Wallet,        \* initial balance of the user
    Token,         \* initial quota of the API token
    Unlimited,     \* TokenUnlimited
    TrustQuota,    \* common.GetTrustQuota
    Total,         \* AmountTotal of the subscription; 0 is unlimited
    MaxAttempts,   \* bound on the attempts to submit a task
    MaxPeriod,     \* bound on the periods that pass
    MaxFaults      \* bound on database errors and crashes

Preferences == {"subscription_only", "wallet_only", "wallet_first", "subscription_first"}

ASSUME RequestAssumption ==
    /\ IsFiniteSet(Requests)
    /\ Pref \in [Requests -> Preferences]
    /\ Playground \subseteq Requests
    /\ Forced \subseteq Requests
    /\ Quotas \in [Requests -> SUBSET Nat]
    /\ Cost \in [Requests -> Nat]
ASSUME QuotaAssumption ==
    /\ Wallet \in Nat
    /\ Token \in Nat
    /\ Unlimited \in BOOLEAN
    /\ TrustQuota \in Nat
    /\ Total \in Nat
ASSUME BoundAssumption ==
    MaxAttempts \in [Requests -> Nat \ {0}] /\ MaxPeriod \in Nat /\ MaxFaults \in Nat

PCs == {"new", "wallet", "tokenCheck", "tokenTake", "fund", "subTake", "rollToken", "refused",
        "active", "resCheck", "resFund", "resTokenCheck", "resTokenTake", "resRoll",
        "setFund", "setToken", "refFund", "refExtra", "refToken", "done", "dead"}
Sources == {"wallet", "subscription"}

\* The fields of a BillingSession and its funding source, and the local values
\* of the call in progress.
Sessions ==
    [pc : PCs,
     source : Sources,
     fallback : BOOLEAN,       \* the other source is still to be tried
     quota : Nat,              \* the quota asked to pre-consume
     amount : Nat,             \* effectiveQuota, or the delta of a Reserve
     pre : Nat,                \* preConsumedQuota
     tokenConsumed : Nat,
     extra : Nat,              \* extraReserved
     held : Int,               \* WalletFunding.consumed or SubscriptionFunding.preConsumed
     trusted : BOOLEAN,
     settled : BOOLEAN,
     tokenSeen : Int,          \* token_quota of the gin context
     snap : [used : Nat, cur : 0..MaxPeriod, now : 0..MaxPeriod],
     tries : 0..2,
     attempts : Nat,
     ok : BOOLEAN]             \* the upstream answered

VARIABLES
    wallet,    \* users.quota
    token,     \* tokens.remain_quota
    used,      \* AmountUsed of the subscription
    cur,       \* the period that NextResetTime ends
    active,    \* the subscription is active
    rec,       \* the SubscriptionPreConsumeRecord of a request
    s,         \* the sessions
    resetter,  \* what the reset task has read: <<>> or <<cur, now>>
    period,    \* the clock, in reset periods
    resets,    \* number of resets that cleared the used amount
    fund,      \* net amount a request has taken from each funding source
    tok,       \* net amount a request has taken from the token
    faults

vars == <<wallet, token, used, cur, active, rec, s, resetter, period, resets,
          fund, tok, faults>>
fundVars == <<wallet, used, fund>>
tokenVars == <<token, tok>>
subVars == <<cur, active, resetter, period, resets>>

NoSnap == [used |-> 0, cur |-> 0, now |-> 0]
NewSession ==
    [pc |-> "new", source |-> "wallet", fallback |-> FALSE, quota |-> 0, amount |-> 0,
     pre |-> 0, tokenConsumed |-> 0, extra |-> 0, held |-> 0, trusted |-> FALSE, settled |-> FALSE,
     tokenSeen |-> 0, snap |-> NoSnap, tries |-> 0, attempts |-> 0, ok |-> FALSE]
NoRecord == [status |-> "none", amount |-> 0]

TypeOK ==
    /\ wallet \in Int /\ token \in Int
    /\ used \in Nat /\ cur \in 0..MaxPeriod /\ active \in BOOLEAN
    /\ rec \in [Requests -> [status : {"none", "consumed", "refunded"}, amount : Nat]]
    /\ s \in [Requests -> Sessions]
    /\ resetter \in {<<>>} \cup ((0..MaxPeriod) \X (0..MaxPeriod))
    /\ period \in 0..MaxPeriod /\ resets \in Nat
    /\ fund \in [Requests -> [Sources -> Int]] /\ tok \in [Requests -> Int]
    /\ faults \in 0..MaxFaults

Init ==
    /\ wallet = Wallet /\ token = Token
    /\ used = 0 /\ cur = 0 /\ active \in BOOLEAN
    /\ rec = [r \in Requests |-> NoRecord]
    /\ s = [r \in Requests |-> NewSession]
    /\ resetter = <<>> /\ period = 0 /\ resets = 0
    /\ fund = [r \in Requests |-> [x \in Sources |-> 0]] /\ tok = [r \in Requests |-> 0]
    /\ faults = 0

----------------------------------------------------------------------------
(* Statements. *)

At(r, p) == s[r].pc = p
Become(r, session) == s' = [s EXCEPT ![r] = session]
Goto(r, p) == Become(r, [s[r] EXCEPT !.pc = p])

\* A statement succeeds, fails without effect, or fails after its effect.
Outcomes == {"ok"} \cup (IF faults < MaxFaults THEN {"failed", "lost"} ELSE {})
OutcomesIf(sent) == IF sent THEN Outcomes ELSE {"ok"}
Count(o) == faults' = IF o = "ok" THEN faults ELSE faults + 1

\* Mutant: a refund is not stopped at zero.
Unclamped(n) == used + n

\* amount_used after postConsumeUserSubscriptionDeltaTx.
UsedAfter(n) == IF used + n < 0 THEN 0 ELSE used + n

\* IncreaseUserQuota and DecreaseUserQuota on the wallet;
\* PostConsumeUserSubscriptionDelta on the subscription.
MoveFund(r, source, n) ==
    /\ fund' = [fund EXCEPT ![r][source] = @ + n]
    /\ IF source = "wallet"
       THEN wallet' = wallet - n /\ UNCHANGED used
       ELSE used' = UsedAfter(n) /\ UNCHANGED wallet

\* IncreaseTokenQuota and DecreaseTokenQuota.
MoveToken(r, n) == token' = token - n /\ tok' = [tok EXCEPT ![r] = @ + n]

\* Mutant: the amount is added whatever has been used since it was read.
AnyRoom(n) == TRUE

\* The WHERE clause of the conditional increment.
Room(n) == Total = 0 \/ used + n <= Total

----------------------------------------------------------------------------
(* NewBillingSession and preConsume. *)

\* shouldTrust, for the wallet; a subscription is never trusted.
Trusts(r, balance) ==
    /\ r \notin Forced
    /\ TrustQuota > 0
    /\ (Unlimited /\ r \notin Playground) \/ s[r].tokenSeen > TrustQuota
    /\ balance > TrustQuota

\* trySubscription reserves at least 1.
SubAmount(quota) == IF quota = 0 THEN 1 ELSE quota

TrySubscription(session, more) ==
    [session EXCEPT !.pc = "tokenCheck", !.source = "subscription", !.fallback = more,
                    !.amount = SubAmount(session.quota), !.tokenConsumed = 0]
TryWallet(session, more) ==
    [session EXCEPT !.pc = "wallet", !.source = "wallet", !.fallback = more,
                    !.tokenConsumed = 0]

\* token_quota, set by the authentication; a playground has an empty token.
ContextQuota(r) == IF r \in Playground THEN 0 ELSE token

\* The request is authenticated, its price is known and its session is asked
\* for.  The preference subscription_first looks for an active subscription
\* before.  A task asks again at each attempt that finds no session.
Begin(r) ==
    /\ At(r, "new")
    /\ \E q \in Quotas[r] :
          LET seen == [s[r] EXCEPT !.tokenSeen = ContextQuota(r), !.quota = q, !.attempts = @ + 1]
          IN  Become(r, CASE Pref[r] = "subscription_only" -> TrySubscription(seen, FALSE)
                          [] Pref[r] = "wallet_only" -> TryWallet(seen, FALSE)
                          [] Pref[r] = "wallet_first" -> TryWallet(seen, TRUE)
                          [] Pref[r] = "subscription_first" ->
                               IF active THEN TrySubscription(seen, TRUE)
                               ELSE TryWallet(seen, FALSE))
    /\ UNCHANGED <<fundVars, tokenVars, subVars, rec, faults>>

\* A request that got no session ends; a task submission has it tried again.
Refused(r, session) ==
    [session EXCEPT !.pc = IF r \in Forced /\ session.attempts < MaxAttempts[r]
                           THEN "refused" ELSE "done"]

\* A session that cannot be created for want of quota gives way to the other
\* source, if the preference has one left.
GiveUp(r, session) ==
    IF ~session.fallback THEN Refused(r, session)
    ELSE IF session.source = "wallet" THEN TrySubscription(session, FALSE)
    ELSE TryWallet(session, FALSE)

\* shouldRetryTaskRelay lets the loop go on, or its budget is spent.
Retry(r) ==
    /\ At(r, "refused")
    /\ \E p \in {"new", "done"} :
          Become(r, [NewSession EXCEPT !.pc = p, !.attempts = s[r].attempts])
    /\ UNCHANGED <<fundVars, tokenVars, subVars, rec, faults>>

\* tryWallet reads the balance; the decrement comes later.
WalletCheck(r) ==
    /\ At(r, "wallet")
    /\ IF wallet <= 0 \/ wallet < s[r].quota
       THEN Become(r, GiveUp(r, s[r]))
       ELSE LET trusted == Trusts(r, wallet)
            IN  Become(r, [s[r] EXCEPT !.pc = IF trusted \/ s[r].quota = 0 THEN "active" ELSE "tokenCheck",
                                       !.trusted = trusted,
                                       !.amount = IF trusted THEN 0 ELSE s[r].quota])
    /\ UNCHANGED <<fundVars, tokenVars, subVars, rec, faults>>

\* PreConsumeTokenQuota reads the token's quota, then decrements it.  A token
\* without quota ends the request; there is no fallback.
TokenCheck(r) ==
    /\ At(r, "tokenCheck")
    /\ IF r \in Playground
       THEN Become(r, [s[r] EXCEPT !.pc = "fund", !.tokenConsumed = s[r].amount])
       ELSE Become(r, IF ~Unlimited /\ token < s[r].amount THEN Refused(r, s[r])
                      ELSE [s[r] EXCEPT !.pc = "tokenTake"])
    /\ UNCHANGED <<fundVars, tokenVars, subVars, rec, faults>>

TokenTake(r) ==
    /\ At(r, "tokenTake")
    /\ \E o \in Outcomes :
          /\ Count(o)
          /\ IF o = "failed" THEN UNCHANGED tokenVars ELSE MoveToken(r, s[r].amount)
          /\ IF o = "ok"
             THEN Become(r, [s[r] EXCEPT !.pc = "fund", !.tokenConsumed = s[r].amount])
             ELSE Become(r, Refused(r, s[r]))
    /\ UNCHANGED <<fundVars, subVars, rec>>

\* WalletFunding.PreConsume.
WalletTake(r) ==
    /\ At(r, "fund") /\ s[r].source = "wallet"
    /\ \E o \in Outcomes :
          /\ Count(o)
          /\ IF o = "failed" THEN UNCHANGED fundVars ELSE MoveFund(r, "wallet", s[r].amount)
          /\ IF o = "ok"
             THEN Become(r, [s[r] EXCEPT !.pc = "active", !.held = s[r].amount, !.pre = s[r].amount])
             ELSE Become(r, [s[r] EXCEPT !.pc = "rollToken", !.fallback = FALSE])
    /\ UNCHANGED <<tokenVars, subVars, rec>>

\* PreConsumeUserSubscription finds the record of an earlier attempt and takes
\* what it says for granted, refuses if that was refunded, or reads the row ...
SubLoad(r) ==
    /\ At(r, "fund") /\ s[r].source = "subscription"
    /\ IF rec[r].status = "consumed"
       THEN Become(r, [s[r] EXCEPT !.pc = "active", !.held = rec[r].amount, !.pre = s[r].amount])
       ELSE IF rec[r].status = "refunded"
       THEN Become(r, [s[r] EXCEPT !.pc = "rollToken", !.fallback = FALSE])
       ELSE IF active
       THEN Become(r, [s[r] EXCEPT !.pc = "subTake",
                                   !.snap = [used |-> used, cur |-> cur, now |-> period]])
       ELSE Goto(r, "rollToken")
    /\ UNCHANGED <<fundVars, tokenVars, subVars, rec, faults>>

\* Mutant: the row is reset by its primary key only.
ResetUnclaimed(old, now) == old < now

\* maybeResetUserSubscriptionWithPlanTx: due when read, and claimed by a
\* compare-and-swap on next_reset_time.
ResetWon(old, now) == old < now /\ cur = old

\* Mutant: the row is written back with the amount in memory.
SavedRow(stored, known, n) == known + n

\* The increment is made in the database, on the amount stored there.
Incremented(stored, known, n) == stored + n

\* ... and then, in one transaction, resets it when due, looks at the amount it
\* has in memory, creates the record and adds conditionally.  A refusal rolls
\* everything back, the reset included; only a refusal by the amount in memory
\* is reported as insufficient and allows the fallback.
SubTake(r) ==
    /\ At(r, "subTake")
    /\ LET won == ResetWon(s[r].snap.cur, s[r].snap.now)
           late == s[r].snap.cur < s[r].snap.now /\ ~won
           known == IF won THEN 0 ELSE IF late THEN used ELSE s[r].snap.used
           before == IF won THEN 0 ELSE used
           enough(u) == Total = 0 \/ u + s[r].amount <= Total
           allowed == IF won THEN enough(0) ELSE Room(s[r].amount)
           kept == [s[r] EXCEPT !.snap = NoSnap]
       IN  \/ /\ ~enough(known)
              /\ Become(r, [kept EXCEPT !.pc = "rollToken"])
              /\ UNCHANGED <<fundVars, cur, resets, rec, faults>>
           \/ /\ enough(known) /\ ~allowed
              /\ Become(r, [kept EXCEPT !.pc = "rollToken", !.fallback = FALSE])
              /\ UNCHANGED <<fundVars, cur, resets, rec, faults>>
           \/ /\ enough(known) /\ allowed
              /\ \E o \in Outcomes :
                    /\ Count(o)
                    /\ IF o = "failed" THEN UNCHANGED <<fundVars, cur, resets, rec>>
                       ELSE /\ used' = Incremented(before, known, s[r].amount)
                            /\ fund' = [fund EXCEPT ![r].subscription = @ + s[r].amount]
                            /\ rec' = [rec EXCEPT ![r] = [status |-> "consumed", amount |-> s[r].amount]]
                            /\ cur' = IF won THEN s[r].snap.now ELSE cur
                            /\ resets' = IF won THEN resets + 1 ELSE resets
                            /\ UNCHANGED wallet
                    /\ IF o = "ok"
                       THEN Become(r, [kept EXCEPT !.pc = "active", !.held = s[r].amount,
                                                   !.pre = s[r].amount])
                       ELSE Become(r, [kept EXCEPT !.pc = "rollToken", !.fallback = FALSE])
    /\ UNCHANGED <<tokenVars, active, resetter, period>>

\* preConsume gives the token back when the funding source refused.
GivesTokenBack(r) == s[r].tokenConsumed > 0 /\ r \notin Playground

RollbackToken(r) ==
    /\ At(r, "rollToken")
    /\ \E o \in OutcomesIf(GivesTokenBack(r)) :
          /\ Count(o)
          /\ IF GivesTokenBack(r) /\ o # "failed"
             THEN MoveToken(r, -s[r].tokenConsumed) ELSE UNCHANGED tokenVars
          /\ Become(r, GiveUp(r, [s[r] EXCEPT !.tokenConsumed = 0]))
    /\ UNCHANGED <<fundVars, subVars, rec>>

----------------------------------------------------------------------------
(* Reserve: a task submission whose session exists raises the reservation to *)
(* the price of this attempt.  When that fails the submission may be retried *)
(* at a price already reserved, or its session is refunded.                  *)

Reserve(r) ==
    /\ At(r, "active") /\ r \in Forced /\ ~s[r].trusted
    /\ \E target \in Quotas[r] :
          /\ target > s[r].pre
          /\ Become(r, [s[r] EXCEPT !.amount = target - s[r].pre,
                          !.pc = IF s[r].source = "wallet" THEN "resCheck" ELSE "resFund"])
    /\ UNCHANGED <<fundVars, tokenVars, subVars, rec, faults>>

ReserveCheck(r) ==
    /\ At(r, "resCheck")
    /\ Goto(r, IF wallet < s[r].amount THEN "active" ELSE "resFund")
    /\ UNCHANGED <<fundVars, tokenVars, subVars, rec, faults>>

ReserveFund(r) ==
    /\ At(r, "resFund")
    /\ LET wallets == s[r].source = "wallet"
       IN  \/ /\ ~wallets /\ ~Room(s[r].amount)
              /\ Goto(r, "active")
              /\ UNCHANGED <<fundVars, faults>>
           \/ /\ wallets \/ Room(s[r].amount)
              /\ \E o \in Outcomes :
                    /\ Count(o)
                    /\ IF o = "failed" THEN UNCHANGED fundVars
                       ELSE MoveFund(r, s[r].source, s[r].amount)
                    /\ IF o # "ok" THEN Goto(r, "active")
                       ELSE Become(r, [s[r] EXCEPT !.pc = "resTokenCheck",
                                                   !.held = IF wallets THEN @ + s[r].amount ELSE @])
    /\ UNCHANGED <<tokenVars, subVars, rec>>

Reserved(session) ==
    [session EXCEPT !.pc = "active", !.pre = @ + session.amount,
                    !.tokenConsumed = @ + session.amount, !.extra = @ + session.amount]

ReserveTokenCheck(r) ==
    /\ At(r, "resTokenCheck")
    /\ IF r \in Playground THEN Become(r, Reserved(s[r]))
       ELSE Goto(r, IF ~Unlimited /\ token < s[r].amount THEN "resRoll" ELSE "resTokenTake")
    /\ UNCHANGED <<fundVars, tokenVars, subVars, rec, faults>>

ReserveTokenTake(r) ==
    /\ At(r, "resTokenTake")
    /\ \E o \in Outcomes :
          /\ Count(o)
          /\ IF o = "failed" THEN UNCHANGED tokenVars ELSE MoveToken(r, s[r].amount)
          /\ IF o = "ok" THEN Become(r, Reserved(s[r])) ELSE Goto(r, "resRoll")
    /\ UNCHANGED <<fundVars, subVars, rec>>

\* Mutant: the funding source keeps the count of what was given back.
StillHeld(session, o) == session.held

\* What WalletFunding.consumed is after the rollback: an error keeps the count.
HeldAfterRollback(session, o) ==
    IF session.source = "wallet" /\ o = "ok" THEN session.held - session.amount
    ELSE session.held

ReserveRollback(r) ==
    /\ At(r, "resRoll")
    /\ \E o \in Outcomes :
          /\ Count(o)
          /\ IF o = "failed" THEN UNCHANGED fundVars
             ELSE MoveFund(r, s[r].source, -s[r].amount)
          /\ Become(r, [s[r] EXCEPT !.pc = "active", !.held = HeldAfterRollback(s[r], o)])
    /\ UNCHANGED <<tokenVars, subVars, rec>>

----------------------------------------------------------------------------
(* Settle and Refund.  The handler calls one of them once. *)

\* The upstream answered.
Settle(r) ==
    /\ At(r, "active")
    /\ Become(r, IF Cost[r] = s[r].pre
                 THEN [s[r] EXCEPT !.pc = "done", !.ok = TRUE, !.settled = TRUE]
                 ELSE [s[r] EXCEPT !.pc = "setFund", !.ok = TRUE])
    /\ UNCHANGED <<fundVars, tokenVars, subVars, rec, faults>>

\* An error of the funding source, or a subscription without room, ends the
\* settlement with the reservation in place.
SettleFund(r) ==
    /\ At(r, "setFund")
    /\ LET delta == Cost[r] - s[r].pre
           refused == s[r].source = "subscription" /\ delta > 0 /\ ~Room(delta)
       IN  \/ refused /\ Goto(r, "done") /\ UNCHANGED <<fundVars, faults>>
           \/ /\ ~refused
              /\ \E o \in Outcomes :
                    /\ Count(o)
                    /\ IF o = "failed" THEN UNCHANGED fundVars ELSE MoveFund(r, s[r].source, delta)
                    /\ Goto(r, IF o = "ok" THEN "setToken" ELSE "done")
    /\ UNCHANGED <<tokenVars, subVars, rec>>

\* Mutant: increase and decrease are swapped.
SettledTokenSwapped(r) == s[r].pre - Cost[r]

\* What settlement still takes from the token; a playground has none.
SettledToken(r) == IF r \in Playground THEN 0 ELSE Cost[r] - s[r].pre

\* An error here is only logged; the session is settled.
SettleToken(r) ==
    /\ At(r, "setToken")
    /\ \E o \in OutcomesIf(r \notin Playground) :
          /\ Count(o)
          /\ IF o = "failed" THEN UNCHANGED tokenVars ELSE MoveToken(r, SettledToken(r))
          /\ Become(r, [s[r] EXCEPT !.pc = "done", !.settled = TRUE])
    /\ UNCHANGED <<fundVars, subVars, rec>>

\* needsRefundLocked.
NeedsRefund(session) ==
    \/ session.tokenConsumed > 0
    \/ session.source = "subscription" /\ session.held > 0

\* The upstream failed: a goroutine gives back funding and token.
Refund(r) ==
    /\ At(r, "active")
    /\ Goto(r, IF NeedsRefund(s[r]) THEN "refFund" ELSE "done")
    /\ UNCHANGED <<fundVars, tokenVars, subVars, rec, faults>>

\* WalletFunding.Refund is tried once, because an error may hide an effect.
WalletRefund(r) ==
    /\ At(r, "refFund") /\ s[r].source = "wallet"
    /\ \E o \in OutcomesIf(s[r].held > 0) :
          /\ Count(o)
          /\ IF o = "failed" \/ s[r].held <= 0 THEN UNCHANGED fundVars
             ELSE MoveFund(r, "wallet", -s[r].held)
          /\ Goto(r, "refToken")
    /\ UNCHANGED <<tokenVars, subVars, rec>>

\* Mutant: the record is not claimed.
RefundsAlways(r) == rec[r].status # "none"

\* RefundSubscriptionPreConsume claims the record, consumed to refunded.
RefundClaimed(r) == rec[r].status = "consumed"

\* SubscriptionFunding.Refund tries up to three times.
SubRefund(r) ==
    /\ At(r, "refFund") /\ s[r].source = "subscription"
    /\ \E o \in Outcomes :
          /\ Count(o)
          /\ IF o # "failed" /\ RefundClaimed(r)
             THEN /\ MoveFund(r, "subscription", -rec[r].amount)
                  /\ rec' = [rec EXCEPT ![r].status = "refunded"]
             ELSE UNCHANGED <<fundVars, rec>>
          /\ IF o # "ok" /\ s[r].tries < 2
             THEN Become(r, [s[r] EXCEPT !.tries = @ + 1])
             ELSE Goto(r, "refExtra")
    /\ UNCHANGED <<tokenVars, subVars>>

\* What Reserve added is not in the record.
ExtraRefund(r) ==
    /\ At(r, "refExtra")
    /\ \E o \in OutcomesIf(s[r].extra > 0) :
          /\ Count(o)
          /\ IF o = "failed" \/ s[r].extra = 0 THEN UNCHANGED fundVars
             ELSE MoveFund(r, "subscription", -s[r].extra)
          /\ Goto(r, "refToken")
    /\ UNCHANGED <<tokenVars, subVars, rec>>

TokenRefund(r) ==
    /\ At(r, "refToken")
    /\ \E o \in OutcomesIf(s[r].tokenConsumed > 0 /\ r \notin Playground) :
          /\ Count(o)
          /\ IF o = "failed" \/ r \in Playground THEN UNCHANGED tokenVars
             ELSE MoveToken(r, -s[r].tokenConsumed)
          /\ Goto(r, "done")
    /\ UNCHANGED <<fundVars, subVars, rec>>

----------------------------------------------------------------------------
(* The subscription's clock and the reset task of the master. *)

Tick ==
    /\ period < MaxPeriod
    /\ period' = period + 1
    /\ UNCHANGED <<fundVars, tokenVars, cur, active, resetter, resets, rec, s, faults>>

\* ExpireDueSubscriptions.
Expire ==
    /\ active
    /\ active' = FALSE
    /\ UNCHANGED <<fundVars, tokenVars, cur, resetter, period, resets, rec, s, faults>>

\* ResetDueSubscriptions reads a row that is due ...
ResetLoad ==
    /\ resetter = <<>> /\ active /\ cur < period
    /\ resetter' = <<cur, period>>
    /\ UNCHANGED <<fundVars, tokenVars, cur, active, period, resets, rec, s, faults>>

\* ... and claims the reset, which a request may have done meanwhile.
ResetClaim ==
    /\ resetter # <<>>
    /\ resetter' = <<>>
    /\ IF ResetWon(resetter[1], resetter[2])
       THEN used' = 0 /\ cur' = resetter[2] /\ resets' = resets + 1
       ELSE UNCHANGED <<used, cur, resets>>
    /\ UNCHANGED <<wallet, fund, tokenVars, active, period, rec, s, faults>>

\* The process dies: its sessions are lost with what they reserved.
Crash ==
    /\ faults < MaxFaults
    /\ faults' = faults + 1
    /\ s' = [r \in Requests |-> IF s[r].pc \in {"new", "done", "dead"} THEN s[r]
                                ELSE [s[r] EXCEPT !.pc = "dead"]]
    /\ resetter' = <<>>
    /\ UNCHANGED <<fundVars, tokenVars, cur, active, period, resets, rec>>

PreConsumeStep(r) ==
    Begin(r) \/ Retry(r) \/ WalletCheck(r) \/ TokenCheck(r) \/ TokenTake(r) \/ WalletTake(r)
    \/ SubLoad(r) \/ SubTake(r) \/ RollbackToken(r)
ReserveStep(r) ==
    Reserve(r) \/ ReserveCheck(r) \/ ReserveFund(r) \/ ReserveTokenCheck(r)
    \/ ReserveTokenTake(r) \/ ReserveRollback(r)
EndStep(r) ==
    Settle(r) \/ SettleFund(r) \/ SettleToken(r) \/ Refund(r) \/ WalletRefund(r)
    \/ SubRefund(r) \/ ExtraRefund(r) \/ TokenRefund(r)

Next ==
    \/ \E r \in Requests : PreConsumeStep(r) \/ ReserveStep(r) \/ EndStep(r)
    \/ Tick \/ Expire \/ ResetLoad \/ ResetClaim \/ Crash

Spec == Init /\ [][Next]_vars

----------------------------------------------------------------------------
(* Properties. *)

\* No request gives back to the wallet or the subscription more than it took
\* from it, whatever statement fails or loses its answer and wherever the
\* process dies: the refund of the wallet is not retried, the retried refund of
\* the subscription claims its record first, and settlement and refund exclude
\* each other (BillingSession.Settle, Refund).
FundNeverPays == \A r \in Requests : \A x \in Sources : fund[r][x] >= 0

\* No request gives the token back more than it took: preConsume's rollback,
\* settlement below the reservation and refund never return the same quota twice,
\* also after failed statements and repeated attempts.
TokenNeverPays == \A r \in Requests : tok[r] >= 0

\* As long as no statement failed, a request that has ended has paid its cost,
\* from one source, and as much with its token; one that failed has paid
\* nothing.  The exception is a subscription without room for the difference
\* between cost and reservation: the reservation stays.
ChargedExactly ==
    \A r \in Requests :
        faults = 0 /\ s[r].pc = "done" =>
            LET paid == IF ~s[r].ok THEN 0
                        ELSE IF s[r].settled THEN Cost[r] ELSE s[r].pre
            IN  /\ \A x \in Sources : fund[r][x] = IF x = s[r].source THEN paid ELSE 0
                /\ tok[r] = IF r \in Playground THEN 0 ELSE paid
                /\ s[r].ok /\ ~s[r].settled => s[r].source = "subscription" /\ s[r].pre < Cost[r]

\* Concurrent reservations, raises and settlements never use more of the
\* subscription than its total (the condition of postConsumeUserSubscriptionDeltaTx).
WithinTotal == Total > 0 => used <= Total

\* What the subscription says is used is what the requests took from it, no
\* update of a concurrent request being lost; after a reset it is at most that.
UsedExplained ==
    LET taken == MapThenSumSet(LAMBDA r : fund[r].subscription, Requests)
    IN  used <= taken /\ (resets = 0 => used = taken)

\* The used amount is cleared at most once per period that ended, however many
\* requests and reset tasks find the reset due at the same time.
ResetOncePerPeriod == resets <= period

\* An active subscription session asks the token and the settlement for the
\* amount the subscription has on record, as the comment in trySubscription says.
ReservationAgrees ==
    \A r \in Requests :
        s[r].pc = "active" /\ s[r].source = "subscription" => s[r].held = s[r].pre - s[r].extra
=============================================================================
