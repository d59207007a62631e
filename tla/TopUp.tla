------------------------------- MODULE TopUp -------------------------------
(***************************************************************************)
(* How money reaches a balance: top-up orders, completed by the webhooks   *)
(* of four payment providers or by an administrator, and redemption codes. *)
(*                                                                         *)
(* Webhooks are delivered at least once, late and more than once, on any   *)
(* node; LockOrder is a mutex of one process.  Stripe, Creem and Waffo     *)
(* orders, manual completions and codes are claimed by a conditional       *)
(* UPDATE in the transaction that adds the quota.  An Epay notification    *)
(* and the failure and expiry events read the row, save it as a whole and  *)
(* (Epay) add the quota in a statement of its own.                         *)
(***************************************************************************)
EXTENDS Integers, Sequences, FiniteSets

CONSTANTS
    Orders,        \* trade numbers
    Codes,         \* redemption codes
    Editable,      \* the codes that an administrator edits or deletes
    Handlers,      \* goroutines that serve requests
    Nodes,         \* processes; each has its own orderLocks
    NodeOf,        \* the node that a handler runs on
    EpayHandlers,  \* the handlers that requests about Epay orders are routed to
    Amount,        \* TopUp.Amount of an order, Redemption.Quota of a code
    QuotaPerUnit,  \* common.QuotaPerUnit
    MaxFaults,     \* bound on database errors, lost answers and crashes
    MaxEdits       \* bound on the edits of codes

\* The gateways with a webhook handler: waffo_pancake is a constant without one.
Providers == {"stripe", "epay", "creem", "waffo"}
Vouchers == Orders \cup Codes

ASSUME VouchersAssumption ==
    /\ Vouchers # {}
    /\ Orders \cap Codes = {}
    /\ Editable \subseteq Codes
    /\ Amount \in [Vouchers -> Nat]
    /\ QuotaPerUnit \in Nat \ {0}
ASSUME HandlersAssumption ==
    /\ IsFiniteSet(Handlers)
    /\ NodeOf \in [Handlers -> Nodes]
    /\ EpayHandlers \subseteq Handlers
ASSUME BoundsAssumption == MaxFaults \in Nat /\ MaxEdits \in Nat

OrderStatuses == {"none", "pending", "success", "failed", "expired"}
CodeStatuses == {"enabled", "used", "disabled", "deleted"}

\* What a handler is doing: the event or request it serves, and for which row.
Jobs == {"none", "fulfil", "epay", "fail", "expire", "abandon", "manual",
         "redeem", "edit"}

VARIABLES
    order,     \* the top_ups table: PaymentProvider and Status
    code,      \* the redemptions table: Status
    credits,   \* the amounts added to a balance for each order and code
    rebates,   \* the number of affiliate rebates paid for an order
    fate,      \* what became of the payment at the provider
    acked,     \* orders whose event the provider need not deliver again
    pc,        \* what each handler does next
    job,       \* the job of each handler
    row,       \* the order or code it works on
    seen,      \* the status that UpdateRedemption read
    faults,    \* faults so far
    edits      \* edits so far

vars == <<order, code, credits, rebates, fate, acked, pc, job, row, seen, faults, edits>>
handVars == <<job, row, seen>>
moneyVars == <<credits, rebates>>

AnyVoucher == CHOOSE v \in Vouchers : TRUE

TypeOK ==
    /\ order \in [Orders -> [provider : Providers, status : OrderStatuses]]
    /\ code \in [Codes -> CodeStatuses]
    /\ credits \in [Vouchers -> Seq(Nat)]
    /\ rebates \in [Orders -> Nat]
    /\ fate \in [Orders -> {"open", "paid", "failed", "expired", "abandoned"}]
    /\ acked \subseteq Orders
    /\ pc \in [Handlers -> {"idle", "claim", "save", "credit", "rebate", "write"}]
    /\ job \in [Handlers -> Jobs]
    /\ row \in [Handlers -> Vouchers]
    /\ seen \in [Handlers -> {"none"} \cup CodeStatuses]
    /\ faults \in 0..MaxFaults
    /\ edits \in 0..MaxEdits

Init ==
    /\ order \in [Orders -> [provider : Providers, status : {"none"}]]
    /\ code = [c \in Codes |-> "enabled"]
    /\ credits = [v \in Vouchers |-> <<>>]
    /\ rebates = [o \in Orders |-> 0]
    /\ fate = [o \in Orders |-> "open"]
    /\ acked = {}
    /\ pc = [h \in Handlers |-> "idle"]
    /\ job = [h \in Handlers |-> "none"]
    /\ row = [h \in Handlers |-> AnyVoucher]
    /\ seen = [h \in Handlers |-> "none"]
    /\ faults = 0
    /\ edits = 0

----------------------------------------------------------------------------
(* The user and the provider. *)

\* RequestPay of each gateway inserts a pending order.
RequestPay(o) ==
    /\ order[o].status = "none"
    /\ order' = [order EXCEPT ![o].status = "pending"]
    /\ UNCHANGED <<code, moneyVars, fate, acked, pc, handVars, faults, edits>>

\* The payment ends at the provider, which then starts to deliver its event.
\* Only Stripe and Waffo report failures, only Stripe sessions expire.  An order
\* has one final event: handleWaffoPayment fails a pending order on every status
\* other than PAY_SUCCESS, so a report that is not final would cost the user the
\* credit of a payment that succeeds later.
PaymentEnds(o) ==
    /\ order[o].status # "none"
    /\ fate[o] = "open"
    /\ \E f \in {"paid"}
              \cup (IF order[o].provider \in {"stripe", "waffo"} THEN {"failed"} ELSE {})
              \cup (IF order[o].provider = "stripe" THEN {"expired"} ELSE {}) :
          fate' = [fate EXCEPT ![o] = f]
    /\ UNCHANGED <<order, code, moneyVars, acked, pc, handVars, faults, edits>>

----------------------------------------------------------------------------
(* Requests about orders. *)

EventJob(o) ==
    CASE fate[o] = "paid" -> IF order[o].provider = "epay" THEN "epay" ELSE "fulfil"
      [] fate[o] = "failed" -> "fail"
      [] fate[o] = "expired" -> "expire"
      [] OTHER -> "none"

Serves(h, o) == order[o].provider = "epay" => h \in EpayHandlers

\* The jobs that run under LockOrder: Waffo's failure event and its abandoned
\* checkout do not take it.
Locks(j, p) == j \in {"fulfil", "epay", "expire", "manual"} \/ (j = "fail" /\ p = "stripe")

\* Mutant: the handler does not wait for the lock.
NoLock(n, o) == TRUE

\* LockOrder would not block.
LockFree(n, o) ==
    \A h \in Handlers :
        NodeOf[h] = n /\ pc[h] \in {"claim", "save", "credit"} /\ row[h] = o
            => ~Locks(job[h], order[o].provider)

\* The quota that an order is worth to a job: a Creem webhook takes Amount as
\* it is, everything else multiplies it by QuotaPerUnit.
QuotaToAdd(j, v) ==
    IF v \in Codes \/ (j = "fulfil" /\ order[v].provider = "creem")
    THEN Amount[v]
    ELSE Amount[v] * QuotaPerUnit

\* Waffo and manual completion refuse an order that is worth nothing.
WorthClaiming(j, o) ==
    (j = "manual" \/ order[o].provider = "waffo") => QuotaToAdd(j, o) > 0

Take(h, j, v, next) ==
    /\ pc' = [pc EXCEPT ![h] = next]
    /\ job' = [job EXCEPT ![h] = j]
    /\ row' = [row EXCEPT ![h] = v]

Release(h) ==
    /\ Take(h, "none", AnyVoucher, "idle")
    /\ seen' = [seen EXCEPT ![h] = "none"]

\* Mutant: Creem's and Waffo's webhooks answer 200 after an error, too.
AcceptsErrors(j, p, ok) == TRUE

\* The answer that ends a job.  Stripe's webhook answers 200 and Epay's writes
\* "success" whatever happened; failure and expiry events are always accepted;
\* Creem and Waffo are told of an error and deliver the event again.
Accepts(j, p, ok) == j # "fulfil" \/ p = "stripe" \/ ok

Answer(h, ok) ==
    acked' = IF /\ job[h] \in {"fulfil", "epay", "fail", "expire"}
                /\ Accepts(job[h], order[row[h]].provider, ok)
             THEN acked \cup {row[h]}
             ELSE acked

Fault == faults < MaxFaults /\ faults' = faults + 1

\* A webhook delivers the event of o, possibly again: the handler takes the
\* lock, reads the row and decides.  A completed order is left alone, which
\* Waffo is told only of a successful one; an expiry event logs that the order
\* is not pending and goes on.
Deliver(h, o) ==
    /\ pc[h] = "idle"
    /\ Serves(h, o)
    /\ EventJob(o) # "none"
    /\ Locks(EventJob(o), order[o].provider) => LockFree(NodeOf[h], o)
    /\ LET j == EventJob(o)
           s == order[o].status
       IN \/ /\ s = "pending" \/ j = "expire"
             /\ j = "fulfil" => WorthClaiming(j, o)
             /\ Take(h, j, o, IF j = "fulfil" THEN "claim" ELSE "save")
             /\ UNCHANGED acked
          \/ /\ s # "pending" /\ j # "expire"
             /\ acked' = IF j = "fulfil" /\ order[o].provider = "waffo" /\ s # "success"
                         THEN acked ELSE acked \cup {o}
             /\ UNCHANGED <<pc, job, row>>
    /\ UNCHANGED <<order, code, moneyVars, fate, seen, faults, edits>>

\* AdminCompleteTopUp: the administrator completes a pending order by hand.
ManualCompleteTopUp(h, o) ==
    /\ pc[h] = "idle"
    /\ Serves(h, o)
    /\ LockFree(NodeOf[h], o)
    /\ order[o].status = "pending"
    /\ WorthClaiming("manual", o)
    /\ Take(h, "manual", o, "claim")
    /\ UNCHANGED <<order, code, moneyVars, fate, acked, seen, faults, edits>>

\* RequestWaffoPay could not create the checkout: it will save the row that it
\* inserted as failed.  The user has no link, so nothing will be paid.
AbandonCheckout(h, o) ==
    /\ pc[h] = "idle"
    /\ order[o].provider = "waffo"
    /\ order[o].status # "none"
    /\ fate[o] = "open"
    /\ fate' = [fate EXCEPT ![o] = "abandoned"]
    /\ Take(h, "abandon", o, "save")
    /\ UNCHANGED <<order, code, moneyVars, acked, seen, faults, edits>>

----------------------------------------------------------------------------
(* The transaction of Recharge, RechargeCreem, RechargeWaffo and             *)
(* ManualCompleteTopUp: the claim takes the row's lock and holds it until    *)
(* the quota is added, so that claim, credit and commit are one step.        *)

Claimed(h) ==
    IF row[h] \in Orders
    THEN /\ order' = [order EXCEPT ![row[h]].status = "success"]
         /\ UNCHANGED code
    ELSE /\ code' = [code EXCEPT ![row[h]] = "used"]
         /\ UNCHANGED order

\* Mutant: the row is read and then updated by its primary key.
AlwaysClaimable(h) == TRUE

\* The WHERE clause of the claim.
Claimable(h) ==
    IF row[h] \in Orders THEN order[row[h]].status = "pending"
                         ELSE code[row[h]] = "enabled"

AddQuota(h) ==
    credits' = [credits EXCEPT ![row[h]] = Append(@, QuotaToAdd(job[h], row[h]))]

\* Mutant: the claim is committed before the quota is added.
CommittedApart(h) == Claimable(h) /\ Claimed(h) /\ (AddQuota(h) \/ UNCHANGED credits)

\* Claim and credit are one transaction.
Committed(h) == Claimable(h) /\ Claimed(h) /\ AddQuota(h)

\* claimPendingTopUpTx or the claim of Redeem, and the commit.
Claim(h) ==
    /\ pc[h] = "claim"
    /\ Committed(h)
    /\ IF row[h] \in Orders
       THEN pc' = [pc EXCEPT ![h] = "rebate"] /\ UNCHANGED handVars
       ELSE Release(h)
    /\ Answer(h, TRUE)
    /\ UNCHANGED <<rebates, fate, faults, edits>>

\* Mutant: whoever finds the order completed goes on as if it had done so.
LoseClaimGoesOn(h) ==
    /\ pc[h] = "claim"
    /\ ~Claimable(h)
    /\ row[h] \in Orders
    /\ pc' = [pc EXCEPT ![h] = "rebate"]
    /\ UNCHANGED <<order, code, moneyVars, fate, acked, handVars, faults, edits>>

\* Somebody else was first.  Waffo accepts an order that has succeeded; under
\* REPEATABLE READ the status it reads is the one of the transaction's snapshot.
LoseClaim(h) ==
    /\ pc[h] = "claim"
    /\ ~Claimable(h)
    /\ \E ok \in BOOLEAN :
          /\ ok => /\ row[h] \in Orders
                   /\ order[row[h]].provider = "waffo"
                   /\ order[row[h]].status = "success"
          /\ Answer(h, ok)
    /\ Release(h)
    /\ UNCHANGED <<order, code, moneyVars, fate, faults, edits>>

\* The transaction reports an error; a commit may still have taken effect.
ClaimFails(h) ==
    /\ pc[h] = "claim"
    /\ Fault
    /\ UNCHANGED <<order, code, credits>> \/ Committed(h)
    /\ Answer(h, FALSE)
    /\ Release(h)
    /\ UNCHANGED <<rebates, fate, edits>>

----------------------------------------------------------------------------
(* TopUp.Update saves the whole row that was read, whatever it holds now. *)

\* Mutant: orders are saved with the status of a redemption code.
SavedStatusOfCodes(j) == IF j = "epay" THEN "used" ELSE "disabled"

SavedStatus(j) ==
    CASE j = "epay" -> "success" [] j = "expire" -> "expired" [] OTHER -> "failed"

Saved(h) == order' = [order EXCEPT ![row[h]].status = SavedStatus(job[h])]

Save(h) ==
    /\ pc[h] = "save"
    /\ Saved(h)
    /\ IF job[h] = "epay"
       THEN pc' = [pc EXCEPT ![h] = "credit"] /\ UNCHANGED <<handVars, acked>>
       ELSE Release(h) /\ Answer(h, TRUE)
    /\ UNCHANGED <<code, moneyVars, fate, faults, edits>>

SaveFails(h) ==
    /\ pc[h] = "save"
    /\ Fault
    /\ Saved(h) \/ UNCHANGED order
    /\ Release(h)
    /\ Answer(h, FALSE)
    /\ UNCHANGED <<code, moneyVars, fate, edits>>

\* EpayNotify adds the quota after it has saved the order.
Credit(h) ==
    /\ pc[h] = "credit"
    /\ AddQuota(h)
    /\ pc' = [pc EXCEPT ![h] = "rebate"]
    /\ Answer(h, TRUE)
    /\ UNCHANGED <<order, code, rebates, fate, handVars, faults, edits>>

CreditFails(h) ==
    /\ pc[h] = "credit"
    /\ Fault
    /\ AddQuota(h) \/ UNCHANGED credits
    /\ Release(h)
    /\ Answer(h, FALSE)
    /\ UNCHANGED <<order, code, rebates, fate, edits>>

\* ProcessAffiliateRebate runs in a goroutine of its own, after the answer.
ProcessAffiliateRebate(h) ==
    /\ pc[h] = "rebate"
    /\ \/ rebates' = [rebates EXCEPT ![row[h]] = @ + 1] /\ UNCHANGED faults
       \/ Fault /\ UNCHANGED rebates
    /\ Release(h)
    /\ UNCHANGED <<order, code, credits, fate, acked, edits>>

----------------------------------------------------------------------------
(* Redemption codes. *)

\* Redeem reads the code and refuses one that is not enabled.  An expired code
\* is refused too, which changes nothing; the lock of TopUp is one of the
\* user's and keeps no other user away.
Redeem(h, c) ==
    /\ pc[h] = "idle"
    /\ code[c] = "enabled"
    /\ Take(h, "redeem", c, "claim")
    /\ UNCHANGED <<order, code, moneyVars, fate, acked, seen, faults, edits>>

\* UpdateRedemption reads the row...
UpdateRedemption(h, c) ==
    /\ pc[h] = "idle"
    /\ code[c] # "deleted"
    /\ edits < MaxEdits
    /\ edits' = edits + 1
    /\ Take(h, "edit", c, "write")
    /\ seen' = [seen EXCEPT ![h] = code[c]]
    /\ UNCHANGED <<order, code, moneyVars, fate, acked, faults>>

\* ... and writes it back with the status it read (an edit of the name, the
\* quota or the expiry) or with one that the administrator chose.
WriteRedemption(h) ==
    /\ pc[h] = "write"
    /\ \/ code[row[h]] = "deleted" /\ UNCHANGED code
       \/ /\ code[row[h]] # "deleted"
          /\ \E s \in {seen[h], "enabled", "used", "disabled"} : code' = [code EXCEPT ![row[h]] = s]
    /\ Release(h)
    /\ UNCHANGED <<order, moneyVars, fate, acked, faults, edits>>

\* DeleteRedemptionById and DeleteInvalidRedemptions.
DeleteRedemption(c) ==
    /\ code[c] # "deleted"
    /\ code' = [code EXCEPT ![c] = "deleted"]
    /\ UNCHANGED <<order, moneyVars, fate, acked, pc, handVars, faults, edits>>

----------------------------------------------------------------------------
\* A node crashes: its handlers are gone and answer nobody.
Crash(n) ==
    /\ Fault
    /\ LET here == {h \in Handlers : NodeOf[h] = n}
       IN /\ pc' = [h \in Handlers |-> IF h \in here THEN "idle" ELSE pc[h]]
          /\ job' = [h \in Handlers |-> IF h \in here THEN "none" ELSE job[h]]
          /\ row' = [h \in Handlers |-> IF h \in here THEN AnyVoucher ELSE row[h]]
          /\ seen' = [h \in Handlers |-> IF h \in here THEN "none" ELSE seen[h]]
    /\ UNCHANGED <<order, code, moneyVars, fate, acked, edits>>

Step(h) ==
    \/ Claim(h)
    \/ LoseClaim(h)
    \/ ClaimFails(h)
    \/ Save(h)
    \/ SaveFails(h)
    \/ Credit(h)
    \/ CreditFails(h)
    \/ ProcessAffiliateRebate(h)
    \/ WriteRedemption(h)

Next ==
    \/ \E o \in Orders : RequestPay(o) \/ PaymentEnds(o)
    \/ \E h \in Handlers, o \in Orders :
          Deliver(h, o) \/ ManualCompleteTopUp(h, o) \/ AbandonCheckout(h, o)
    \/ \E h \in Handlers, c \in Codes : Redeem(h, c)
    \/ \E h \in Handlers, c \in Editable : UpdateRedemption(h, c)
    \/ \E c \in Editable : DeleteRedemption(c)
    \/ \E h \in Handlers : Step(h)
    \/ \E n \in Nodes : Crash(n)

Spec == Init /\ [][Next]_vars

\* A provider delivers an event until it is accepted, and a delivery is not
\* starved by the others; a handler that runs goes on.
FairSpec ==
    /\ Spec
    /\ \A h \in Handlers : WF_vars(Step(h))
    /\ \A o \in Orders : SF_vars(o \notin acked /\ \E h \in Handlers : Deliver(h, o))

----------------------------------------------------------------------------
(* Properties. *)

\* All requests about Epay orders meet in one process.
OneNode == \A g, h \in EpayHandlers : NodeOf[g] = NodeOf[h]

\* The orders and codes that the code's own protection covers: an Epay order
\* has only the lock of one process, a code only the claim of Redeem.
Covered(v) ==
    IF v \in Orders THEN order[v].provider = "epay" => OneNode ELSE v \notin Editable

\* Repeated, concurrent and late webhooks, manual completions and redemptions
\* credit an order or a code at most once (the claim of claimPendingTopUpTx
\* and Redeem, LockOrder for Epay), through errors, lost answers and crashes.
CreditedOnce == \A v \in Vouchers : Covered(v) => Len(credits[v]) <= 1

\* No order is credited twice: what the comments of claimPendingTopUpTx and
\* ManualCompleteTopUp promise of repeated callbacks and of a completion by
\* hand that races a callback, whichever nodes they reach.
NeverCreditedTwice == \A o \in Orders : Len(credits[o]) <= 1

\* An order is marked successful together with its credit.  Only EpayNotify,
\* which saves the order first, is seen in between, and only a fault can
\* leave it there.  An order that has been credited is not pending any more.
SuccessIsCredited ==
    \A o \in Orders :
        /\ order[o].status = "success" /\ credits[o] = <<>> =>
              /\ order[o].provider = "epay"
              /\ faults > 0 \/ \E h \in Handlers : pc[h] = "credit" /\ row[h] = o
        /\ credits[o] # <<>> /\ Covered(o) => order[o].status # "pending"

\* ProcessAffiliateRebate pays the inviter for credits that were made, once each.
RebatedPerCredit == \A o \in Orders : rebates[o] <= Len(credits[o])

\* What every credit must look like, as an abstract specification: TopUp
\* implements CreditOnce for the orders and codes it covers.
Credited == [v \in Vouchers |-> IF Covered(v) THEN credits[v] ELSE <<>>]
Worth ==
    [v \in Vouchers |-> IF v \in Codes THEN {Amount[v]}
                                       ELSE {Amount[v], Amount[v] * QuotaPerUnit}]
Once == INSTANCE CreditOnce WITH credits <- Credited
ImplementsCreditOnce == Once!Spec

\* A payment at Creem or Waffo reaches the balance: their webhooks report
\* errors and the provider delivers again.  (Stripe and Epay are told of
\* success whatever happened, so an error there is left to the administrator.)
PaidIsCredited ==
    \A o \in Orders :
        fate[o] = "paid" /\ order[o].provider \in {"creem", "waffo"} ~> credits[o] # <<>>
=============================================================================
