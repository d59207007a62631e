# A TLA+ model of amux-api

amux-api is an AI gateway: it accepts requests in the OpenAI, Claude, Gemini and
several video formats, picks a channel (an upstream account), relays the
request, and charges the user's wallet or subscription and the API token that
was used. Several processes run against one database; one of them is the master
and runs the background loops.

What is hard in this system is the money. A request reserves quota before it
talks to the upstream and settles or refunds it afterwards; a video task is
charged when it is submitted and settled or refunded minutes later by whichever
process first notices its end; payment providers repeat their webhooks; quotas
live in a database row, a Redis copy and an in-memory batch. The modules here
model the code that moves money, with its interleavings, crashes and errors, and
of the web console the part with concurrency of its own: the playground, whose
callbacks outlive the session they were started from. The limit on concurrent
requests is modelled as well: its slots are held over a whole request, in Redis
or in a process that may die.

## Inventory

| Component | State | Operations | Interacts with | Hard behaviour |
|---|---|---|---|---|
| Asynchronous task lifecycle | `tasks` table, archive queue, `archiveInflight` | submit, sweep, poll, realtime fetch, archive, callback | billing, channels, upstream | copies of a row written back by compare-and-swap from several nodes; crash of the master |
| Billing session and funding | `BillingSession` fields | preConsume, Reserve, Settle, Refund | wallet, subscription, token | one step of several failing; settle against refund; asynchronous refund |
| Subscriptions | subscription rows, pre-consume records, orders | pre-consume, refund, reset, post-consume, complete order | billing session, webhooks | reset between reservation and refund; repeated requests |
| Top-up orders | order rows | create, complete by webhook, complete by hand | user quota | duplicated and concurrent webhooks |
| Redemption codes | code rows | redeem, edit, delete | user quota | two users with one code, an edit against a redemption |
| Playground | sessions and messages in IndexedDB, the list on the page, requests in flight | send, stop, resend, delete, switch, reload | the relay | callbacks of a session that is no longer shown, saves before the load, reload during a request |
| User and token quota | database rows, Redis hashes, batch maps | increase, decrease, cache fill, flush | everything that bills | stale cache, lost batch |
| Blind box | prize pool, draw rows | buy, draw, grant | user quota | limited stock |
| Check-in, affiliate rebates | one row per day, per invitation | check in, rebate | user quota | double claim |
| Suno, Midjourney | task rows | poll, refund | billing | refund before an unconditional save |
| Channel selection, retry, health | ability cache, cool-down table | pick, retry, mark failure and success | relay | retry budget, chain of groups |
| Concurrency and rate limits | Redis sets and lists, memory maps | acquire, release, count | relay | two slots per request; lost release, lost answer, collection by age; memory mode without a script |
| Event outbox, marketing | event rows | publish, claim, send, clean up | mail | crash between claim and send |
| Tickets | ticket rows | open, reply, close | mail | little |
| Sign-in, OAuth, access tokens, 2FA, passkeys | sessions, device codes | authorise, exchange, revoke | user | one-time codes |
| Pricing, tiered settlement | settings | price of a request | billing | floating point |
| Stream relay | one goroutine pair per stream | scan, ping, stop | upstream, client | hand-over at the end |
| Adaptors, conversion, settings, i18n, storage, the rest of the web console, electron, routing | none that matters here | - | - | - |

`PROJECT.json` lists the source files of each component and whether it is
modelled, and the hazards at their lines.

## Modules

| Module | Models |
|---|---|
| `TaskLifecycle` | an asynchronous video task from submission to the end of its billing |
| `TaskLedger` | abstract: the account of a task, charged once, ended once, then refunded or settled at most once; implemented by `TaskLifecycle` |
| `TaskLifecycleProofs` | theorems about a task's money, callback and status, the refinement of `TaskLedger`, and its archiving |
| `BillingSession` | the money of concurrent requests of one user: reservation, raising, settlement, refund, over wallet, subscription and token |
| `BillingSessionProofs` | theorems about the types, the token and the subscription |
| `BillingExactProofs` | theorems about what a request pays |
| `BillingSubscriptionProofs` | theorems about what requests take from the subscription together, and about raises |
| `CreditOnce` | abstract: a voucher is credited at most once, with an amount it is worth |
| `TopUp` | top-up orders of the four gateways and redemption codes; implements `CreditOnce` |
| `TopUpProofs` | its theorems, the refinement included |
| `Playground` | the playground page: sessions, chats, videos, saving and loading |
| `PlaygroundProofs` | theorems about the types and the saved lists |
| `PlaygroundAttendProofs` | the theorem about unfinished messages |
| `ConcurrencyLimit` | the slots of a request's user and token, in Redis or in memory, and the in-flight counters |
| `ConcurrencyProofs` | its theorems |
| `MCTaskLifecycle`, `MCBillingSession`, `MCTopUp`, `MCConcurrencyLimit` | constants for TLC |

### TaskLifecycle

State and code: `db` is the `tasks` table (status, whether progress is 100%,
quota, kind of result URL); `paid` is the user's net payment for a task over
the submission and all later bookings, an auxiliary variable that sums what
`taskAdjustFunding` moves; `phase`, `todo` and `mem` are the local variables of
`TaskPollingLoop` (which query runs, the tasks it still has to handle, the rows
as loaded); `gone` holds the tasks whose channel was deleted; `pc` and `hand` are each actor's position and the copy of the row it
works on; `queue` and `inflight` are `archiveJobChan` and `archiveInflight`;
`called` counts callbacks.

Actions and code: `Submit` is the success branch of `RelayTask`; `SweepLoad`,
`SweepTask`, `PollLoad`, `PollTask`, `PollSkip` and `PollChannelGone` are one
iteration of `TaskPollingLoop` with `sweepTimedOutTasks` and
`updateVideoSingleTask`; `FetchLoad`, `FetchSkip` and `FetchAnswer` are
`tryRealtimeFetch`; `ArchiveTake`, `ArchiveReload` and `ArchiveFails` are
`processArchiveJob`. All of them end in `WriteWins` or `WriteLoses`
(`UpdateWithStatus`), and a winner goes on with `BillRefund`, `BillNotify` or
`SettleNothing` / `SettleDelta` then `SettlePersist`. Steps are split exactly
where another process can intervene: after a load, after the upstream call,
after the compare-and-swap, after the booking. A booking can fail without a
fault: `taskAdjustFunding` ends in `PostConsumeUserSubscriptionDelta`, which
refuses a charge that the subscription has no room for, and any amount when the
administrator has deleted the subscription (`MayRefuse`; the tasks in question are
the constants `Subscribed` and `Revocable`). `PollChannelGone` is the failure of
`CacheGetChannel`: the channel was deleted or, when `MemoryCacheEnabled` is off,
the database did not answer. `Crash` kills the master and
with it the poller, the workers, the queue and the requests it serves.

`TaskLedger` says what a task's account may look like. `TaskLifecycle` maps to
it the guarded tasks: `Stage` reads the account's stage off the row (a task that
was charged and whose `Insert` failed is `lost`), and `paid` is itself. A booking
that an error or a crash prevents is an account that stops after `Finish`.

Abstractions: a status `SUBMITTED` is `QUEUED`; timestamps, reasons, payloads
and the token side of a booking are left out; the price computed at completion
is the constant `Actual` (0 when the adaptor gives none); every task has a
callback URL; each task has a channel of its own, and those in `Unloadable` have
one that may fail to load; the submission costs `Pre`, also when `SettleBilling`
fails, which `RelayTask` only logs (`controller/relay.go:616`; what a session
charges then is the subject of `BillingSession`); a refund to a subscription that
was reset since counts in full although the used amount stops at zero; the provider's answer is its
current state, a body without a status, or nothing usable, and it reports 100%
only with a final status (all adaptors in `relay/channel/task` do).

### BillingSession

All requests belong to one user, who has one token and one subscription: these
rows are what concurrent requests compete for. State and code: `wallet`,
`token`, `used`, `cur` and `active` are `users.quota`, `tokens.remain_quota` and
the subscription's `amount_used`, `next_reset_time` (as the number of the period
it ends) and status; `rec` is the `subscription_pre_consume_records` table; `s`
holds, per request, the fields of its `BillingSession` and funding source and
the local values of the call in progress; `resetter` is the row the master's
reset task has read. `fund` and `tok` are auxiliary: the net amount a request
has taken from each source and from the token, over all attempts.

Actions and code: `Begin`, `WalletCheck`, `TokenCheck`, `TokenTake`,
`WalletTake`, `SubLoad`, `SubTake`, `RollbackToken` are `NewBillingSession` and
`preConsume` with `PreConsumeTokenQuota` and `PreConsumeUserSubscription`;
`Retry` is the loop of `RelayTask`, which asks again for a session under the
same request id; `Reserve` to `ReserveRollback` are `Reserve`; `Settle`,
`SettleFund`, `SettleToken` are `Settle`; `Refund`, `WalletRefund`, `SubRefund`,
`ExtraRefund`, `TokenRefund` are `Refund` and its goroutine; `ResetLoad`,
`ResetClaim` and `Expire` are the master's subscription tasks.

A step is one statement, or one transaction that holds its row from the first
write. Each statement that writes has three outcomes: done, failed without
effect, and done with the answer lost, which the code cannot tell from the
second. `PreConsumeUserSubscription` reads the row before its transaction takes
a lock, so `SubLoad` and `SubTake` are two steps; the second follows what the
code does with the row it has in memory, with a reset it won or lost, and with
the conditional increment.

Abstractions: the price of an attempt is any member of `Quotas[r]`; the result
of the upstream call is the choice between `Settle` and `Refund`; reads do not
fail; the reload after a lost reset sees the winner's row (under MySQL's
repeatable read it may see the older one, and then the conditional increment
decides); the wallet and the token are their database rows, without Redis copy
and batch updater; logs, notifications and the violation fee change no session.

### TopUp and CreditOnce

State and code: `order` is the `top_ups` table (provider and status), `code` the
`redemptions` table; `credits` is the list of amounts added to a balance for an
order or a code, `rebates` the number of rebates paid for an order (both
auxiliary sums over `users`); `fate` and `acked` are the provider's side: how the
payment ended, and whether it still delivers the event; `pc`, `job`, `row` and
`seen` are the request handlers.

Actions and code: `RequestPay` inserts the order (each gateway's `RequestPay`);
`Deliver` is the webhook of each gateway up to its decision: the lock, the read,
the status check; `ManualCompleteTopUp` is `AdminCompleteTopUp`;
`AbandonCheckout` is the failure branch of `RequestWaffoPay`. `Claim`,
`LoseClaim` and `ClaimFails` are the transaction of `Recharge`, `RechargeCreem`,
`RechargeWaffo`, `ManualCompleteTopUp` and `Redeem`: the conditional update of
`claimPendingTopUpTx` takes the row and holds it until the commit, so it is one
step. `Save`, `Credit` and their failures are `EpayNotify`, and `Save` also the
failure and expiry events, which save the row they read without a condition.
`ProcessAffiliateRebate` runs in a goroutine after the lock is released.
`UpdateRedemption` and `WriteRedemption` are the two halves of an edit. A failing
statement may have taken effect, and a commit whose answer is lost has.

`CreditOnce` says what all of this is for. `TopUp` maps `credits` to it for the
vouchers its code protects (`Covered`): every code that is not edited, every
order of Stripe, Creem and Waffo, and an Epay order if all requests about Epay
orders meet in one process, since `LockOrder` is a mutex in memory.

Abstractions: a payment ends with one event (a Waffo notification with any status
but success fails the order, `controller/topup_waffo.go:342`, as if it were the
last); an administrator's edit of a code may write any status; an amount is a
number and the payment's currency is left out; an
expired code is one that is not redeemed; the group upgrade and the published
events change neither order nor balance; reads do not fail.

### Playground

State and code: `live` and `stored` are the two IndexedDB stores, `active`,
`shown` and `loaded` are `activeId`, `message` and `messagesLoadedRef`; `fetch`
is what a pending `loadMessages` has read; `timers` are the saves scheduled with
`setTimeout(0)`; `net` is each request's work (a stream, a reply, a submission,
a poller) with the session its closure captured; `sse` is `sseSourceRef`. `home`,
`kept`, `disturbed` and `abandoned` are history variables: where a request was
sent from, which stored messages the user has not removed, which sessions were
left with work under way or used before they were loaded, and which replies were
at the end of the list when an answer ended without a word.

Actions and code: `SwitchSession`, `CreateSession`, `DeleteSession` with
`FinishDelete` are `useSessions`; `Enter` starts the load effect, for a session
that is opened or, with `ChangeLanguage`, for the active one again, since the
translation function is among the effect's dependencies; `Load` is its end with the
effects it triggers, which finish an interrupted reply and poll unfinished
videos again; `RunTimer` is `saveMessagesImmediately`; `UserSends`,
`ResetMessage` and `Resend` are `handleChatSend`, `handleGenerateVideo`,
`handleMessageReset` and `onMessageSend` called from it, which sends by the
modality selected at the time; `StreamMessageUpdate` to `ReplyEmpty` are the
callbacks of `useApiRequest`: `StreamCloses` is a stream answered with 200 that
ends before `[DONE]`, for which no listener is registered, and `ReplyEmpty` a 200
answer without choices (`useApiRequest.jsx:242`), as the auth middleware gives when
it refuses; both leave the message as it is. `Stop` is `onStopGenerator`;
`Submitted` to `TickEnds` are the callbacks of `useVideoGeneration`; `Reload` and
`CrashPage` are the browser and the `ErrorBoundary`.

Abstractions: a message is its request, role, kind, status and whether it has a
task id; COMPLETE and ERROR are one status; a React update and the effects of
the render that follows are one step; IndexedDB performs requests in order, so a
read is made when it is asked for and arrives later.

### ConcurrencyLimit

State and code: `zset` holds, per key, the members of the sorted set that
`lua/concurrency.lua` keeps in Redis; `age` is the time since a member's score
and `idle` the time since `EXPIRE` was last set on a key; `inUse` and `inflight`
are the maps of `concurrency.go` and `inflight.go`, one per process; `pc` and
`has` are where `TokenConcurrencyLimit` is in a request and the keys it has still
to release; `open` holds the requests that an error of Redis has let through.
`RedisEnabled` is chosen in `Init`, as `InitRedisClient` does at start-up, so one
specification has both modes.

Actions and code: `Arrive` is a request with a fresh id; `PassUnlimited` are the
two early exits; `RedisAcquire` is one run of the script and what the middleware
does with its answer; `MemAcquireUser`, `MemAcquireToken` and `MemRollback` are
`AcquireMemoryConcurrencySlots`, a step per lock; `Admit` is `countInflight` and
the call of `c.Next()`, part of the last step of acquiring since only the
request's own process can see what lies between; `ReleaseUser` and `ReleaseToken`
are the two `ZREM`s of the pipeline or the two calls of `releaseMemorySlot`, the
first with the return of `c.Next()`; `Uncount` is `DecInflight`; `Tick` is the clock of Redis with the expiry of keys, and `Kill`
ends a process without its deferred calls.

A command to Redis succeeds, fails without effect, or takes effect and loses its
answer. After a lost answer the client may send the script again (the request
stays where it is) or report the error (the request is let through).

Abstractions: time is counted up to TTL, in units; a request takes the slots of
both its keys at the same time, so it has one age; the limits do not change while
the system runs; every request has a user id and a token id; the record of
refusals and the reporter of the counters are left out.

## Runs

| Run | Instance | Shows |
|---|---|---|
| `task_safety` | 1 archivable Ali task, 2 requests (one on the master), 1 worker, up to 2 faults | `TypeOK`, `BilledAtMostOnce`, `BilledExactly`, `FinalIsSticky`, `ArchivedBeforeSuccess`, `OneArchiveJob`, `CalledBackAtMostOnce`, the refinement `ImplementsTaskLedger`, and under fairness `EveryTaskEnds` |
| `task_pair` | 2 archivable tasks on a subscription, priced above their pre-charge, limits and queue of 1, one of them a legacy task whose channel and subscription may be gone, memory cache off, 1 fault | `BilledExactly`, `OneArchiveJob`, and under fairness `EveryTaskEnds` |
| `task_refetch` | 1 task of a non-Ali realtime channel, settled at its pre-charge | violates `NobodyIsPaid` |
| `task_channel` | 1 task with a channel that may be deleted | violates `FailureIsRefunded` |
| `billing_exact` | a task that raises and falls back, and a playground request, one subscription, 2 periods, no faults | `TypeOK`, `ChargedExactly`, `WithinTotal`, `UsedExplained`, `ResetOncePerPeriod` |
| `billing_faults` | a task that raises, a task without estimate that is retried, a request that may be trusted; 1 fault | `FundNeverPays`, `TokenNeverPays`, `ChargedExactly` |
| `billing_rollback` | 1 task on the wallet, 1 fault | violates `FundNeverPays` |
| `billing_record` | 1 task on the subscription, 1 fault, 2 attempts | violates `ReservationAgrees` |
| `topup_once` | 1 order of any provider, 2 codes (one editable), 3 handlers on 2 nodes, 1 fault, 1 edit | `TypeOK`, `CreditedOnce`, `SuccessIsCredited`, `RebatedPerCredit`, the refinement `ImplementsCreditOnce`, and under fairness `PaidIsCredited` |
| `topup_epay` | 1 order, 2 handlers on 2 nodes, no faults | violates `NeverCreditedTwice` |
| `playground_sessions` | 2 sessions, 2 requests, 1 reload, deletion or change of language | `TypeOK`, `SavedStaysSaved`, `Attended`, `OwnMessages` |
| `concurrency` | both modes; 2 tokens with limits 1 and 2 of a user with limit 2 (3 requests), 1 token and user without limits, 2 processes, TTL 2, 1 fault | `TypeOK`, `WithinLimit`, `NoLeak`, `CountExact`, `InflightExact`, `JustRefusal`, and under fairness `LeakHeals` |

Bounds. Tasks interact only through the poller, the limits and the queue, so
two tasks with limits of one row exhibit every competition; one task with all
five actors exhibits every race for a row. Two faults cover a failed write
followed by a crash. The prices are chosen so that settlement refunds a task
(charged 2, price 1) in `task_safety` and charges one (charged 2, price 3) in
`task_pair`, where the subscription may refuse the difference. In `task_refetch`
the settlement moves nothing, so that only a second refund can violate
`NobodyIsPaid`.

Two requests of one subscription exhibit every race for its row; the total of 3
with amounts 1 to 3 makes reservations, raises and settlements refused in turn,
and two periods let a session that read before both resets meet them. The token
of `billing_exact` is too small for a raise, so that the rollback happens. One
fault may hit any statement, each of the three attempts of a refund included, or
be a crash; that more faults do not pay the token either is proved. `billing_exact` and `billing_faults` do not check for deadlock: requests
end.

Orders do not interact, so one order whose provider is chosen initially stands
for all; three handlers let two compete on one node while a third acts on the
other. The amounts (1, with a `QuotaPerUnit` of 2) tell a Creem webhook's credit
from a multiplied one. Neither run checks for deadlock: payments end.

In the playground two sessions are enough for one to be shown while the work of
the other reports; of each, two requests overlap. One save is pending at a time,
as `setTimeout(0)` runs before anything the user or the network does next in
nearly all cases; larger instances did not fit the time of a run. At most one
session is disturbed, and the user does not go back to it: nothing is claimed of
it, and its influence on the other session is what the properties are about.

Three limited requests are one more than the user's limit of 2, two of them are one more
than the first token's limit of 1, and the second token's 5 is clamped to 2: each
of the two refusals and the rollback happens. A TTL of 2 lets a slot be young,
old and collected. The fourth request has neither limit and runs on a second
process, which counts for itself and may be killed alone.

`Guarded` names the tasks for which the safety properties are stated: not the
realtime tasks of channels other than Ali, whose final rows are fetched again,
and not the tasks whose channel may fail to load. What happens to those is the
subject of the two violation runs of tasks, which are findings in
`PROJECT.json`: a task that the sweep failed is written back to a running status by
a realtime request, and its next failure refunds it again; a bulk update fails
tasks without refunding them. `BilledExactly` has two exceptions, the refusals of
a subscription: a success priced above its pre-charge may stay at the pre-charge,
and a task whose subscription was deleted stays as it was charged. `EveryTaskEnds`
says that nobody keeps owing a booking, not that it was made: after a crash between
write and booking, or after a bulk failure, it never is. The violation runs of billing sessions and of orders are findings as well:
- `rollbackFundingReserve` leaves the amount in `WalletFunding.consumed` when
  giving it back reports an error, so that the later refund gives it back again
  if the first did take effect, the very case for which `funding_source.go`
  refuses to retry. `billing_faults` has no wallet task that raises, and
  `FundNeverPays` holds there;
- a pre-consumption whose answer was lost is retried under the same request id
  and may have another price by then; the subscription answers with the amount
  on record, while the session counts the new one;
- `EpayNotify` saves the order and adds the quota without the claim that all
  other gateways use; a completion by hand or a repeated notification on another
  node passes its check in between and credits the order again.

Fairness. The polling loop runs forever on the master, each started handler and
worker runs to its end (Go schedules it, and every upstream call has a client
timeout), and time passes, so the deadline of a task is missed eventually
(`TASK_TIMEOUT_MINUTES` defaults to 1440; 0 switches the sweep off and with it
the guarantee). Nothing is assumed of the provider, of users, or of faults.
For `PaidIsCredited` a handler that has started goes on (weak fairness of
`Step`), and a payment provider delivers an event again until it is accepted
(strong fairness of `Deliver`, since other handlers may hold the lock in
between); that is what the providers' retry schedules promise and why the code
answers Creem and Waffo with an error. For `LeakHeals` the clock of Redis goes on
(weak fairness of `Tick`); no further request is needed, since a key that nobody
touches expires.

## Proofs

`TaskLifecycleProofs` proves for every value of the constants allowed by the
named assumptions of `TaskLifecycle`: `TypeCorrect`, `AtMostOnce`, `Exactly`,
`OneCallback`, `Sticky`, `Implements`, `ArchivesFirst`, `SingleJob`.

`BilledAtMostOnce` is not inductive: it says nothing of an actor that holds a
stale copy. `IInv` adds
- `TodoFresh`: the rows the poller still has to handle were running when loaded;
- `CopyFresh`: an actor's copy of a guarded task was running when loaded, and
  the billing it would owe fits the status it would write;
- `MoneyFits`: what a guarded task has cost so far, per status;
- `OwerFits`: an actor that owes a booking holds the final row it wrote, and the
  booking has not been made;
- `OneOwer`: at most one actor owes for a task, and only for a final one;
- `CallFits`: no callback before the end, and none while somebody owes.

A copy can only win over a row whose status it loaded, which is running, and
nobody owes anything for a running task; so the winner is the only ower, and
its booking starts from the amount charged at submission. `Exactly` leaves room for
the refusals only: the booking is made in full, or is refused where `MayRefuse`
allows it and leaves payment and quota column as they were.

`Implements` says that `TaskLifecycle` implements `TaskLedger`. The same invariant supplies what the account's steps ask for: a
write that changes the stage wins over a running row (`CopyFresh`), and whoever
bills finds a failed or succeeded row and the amount of the first charge
(`OwerFits`). Every other step leaves all guarded accounts alone.

`ArchivesFirst` and `SingleJob` hold for all tasks, guarded or not.
`ArchivedBeforeSuccess` speaks of rows only; `ArchiveInv` extends it to the
copies an actor may still write, since a stale copy must not bring back a success
without its archive. `OneArchiveJob` compares sets and counts; `JobInv` says it by
position: what is queued or in a worker is in `archiveInflight`, nothing is there
twice or in both places, and what is in `archiveInflight` is queued or in a
worker. Taking a job, finishing it, a full queue and a crash each keep the three
in step.

`BillingSessionProofs` proves, for every value of the constants and every number
of faults: `TypeCorrect`, `TokenSafe`, `TotalSafe`, `ResetOnce`.

`TokenNeverPays` needs `TokenInv`: while a session lives, the request has taken
at least what the session counts as consumed from the token (more, if an answer
was lost), nothing is counted as reserved before the session is active, and the
reservation the settlement subtracts is part of what is counted. Rollback and
refund clear or end the session, so that the count is given back once.

`WithinTotal` and `ResetOncePerPeriod` need `SubInv`: the number of resets is at
most the period stored in the row, which no session or reset task has read ahead
of the clock. A reset succeeds only on the stored period it has read and moves
the row forward, so resets cannot outrun the row, nor the row the clock. All
increments are conditional on room, all other changes lower the used amount.

`BillingExactProofs` proves `ExactCharges` and `FixedPriceSafe`.

`ChargedExactly` speaks of requests that are over. `ExactInv` says, for each
point of the protocol and as long as there was no fault, that what the request has
taken from its source and from the token is what the session (and the record of
the subscription) counts: nothing before the funding, the reservation and what a
raise has added to it so far, and at the end the cost, the reservation or nothing.

`FundNeverPays` is false for some constants: `billing_rollback` refutes it with a
task whose reservation is raised on the wallet. For a request with `FixedPrice`
(any request that is not a task, and a task whose attempts all have one price),
`FundInv` says that it never comes to a raise (`Priced`), that the source still
holds what settlement or refund will subtract, and that a record on which the
subscription's refund relies is backed by what was taken (`Backed`); a record left
by an attempt whose answer was lost has the amount every later attempt asks for.

`BillingSubscriptionProofs` proves `SubscriptionSafe`, `FundSafe` and `UsedSafe`
for any finite set of requests.

Raises on the subscription are safe where those on the wallet are not, as the
refund of the record and the refund of the raise are separate and each is told
apart from the other. `SubBacked` says for a request that asks for one session
that what it has taken from the subscription covers the record and the raises at
each point of raise, rollback, settlement and refund; that is
`SubscriptionSafe`. A second attempt at another price is excluded: `billing_record`
shows what becomes of it. `FundSafe` puts the two together: `FundNeverPays` holds if
each request has one price or is one session of the subscription alone, which is
so in `billing_faults`.

`UsedExplained` compares the used amount with a sum over all requests. Each step
changes what one request has taken, and `TakenChange` says that the sum changes by
the same amount; the provers have no induction over finite sets, so it is
obtained from the well-foundedness of the natural numbers, as the absence of a
smallest set that contradicts it (`LeastMember`). The used amount moves with the
sum unless a refund is clamped at zero; before a reset it cannot be, because no
request gives back more than it has taken (`Backing`: the invariants above), and
after one only an inequality is claimed. `UsedSafe` therefore holds until the first
fault for all requests, and through faults when no task is submitted again at
another price (`SteadyPrices`).

`TopUpProofs` proves, for every value of the constants (finitely many handlers)
and every number of faults and edits: `TypeCorrect`, `OnceCredited`,
`SuccessCredited`, `RebatesBacked`, and `Implements`, that `TopUp` implements
`CreditOnce`. The inductive invariant `IInv` adds to `CreditedOnce`
- `HandlerFits`: what a handler does fits the row and the provider it does it to;
- `EpayRouted`: nobody but `EpayNotify` and a completion by hand, on the nodes
  that Epay requests reach, works on an Epay order;
- `EpayLocked`: if that is one node, `LockOrder` leaves one handler at work on an
  Epay order, and the row is what that handler read or wrote;
- `Spent`: a covered row with a credit is not claimable;
- `Backed`: success without a credit is an Epay order whose credit comes next,
  or that a fault has stopped.

A claim finds a claimable row, which has no credit by `Spent`, and makes it
unclaimable in the same step; an Epay credit follows a save of the same handler,
and `EpayLocked` says that nothing came in between. For the rebates, `RebateInv`
counts those that are paid and those that handlers still have to pay.

`PlaygroundProofs` proves, for any number of sessions, requests, scheduled saves,
reloads and deletions, `Types`, `Saved` and `Own`.
- `TypeInv` adds to `TypeOK` that an id is left when the last session is deleted.
- `CapInv`: the page is not loaded while a read is pending, and work that will be
  saved under a session that is not disturbed exists only while that session is
  active and loaded.
- `SentInv`, `OwnInv`, `KeepInv`: each list on its way from the page to the store
  and back (shown, scheduled, stored, read) holds messages of requests that were
  sent; those of a session that is not disturbed are its own and include all that
  is kept of it, and a later save loses nothing that an earlier one will store.

A save writes a list under the session its closure captured. `CapInv` says that
for a session that is not disturbed this is the session on the page, whose list
is complete by `KeepInv`; saves run in the order in which they were scheduled.

`PlaygroundAttendProofs` proves `Attends`. `Attended` speaks of the page; what the
page shows was read from the store, and the store was written from the page.
`AttInv` follows a list along that way:
- `AllInv`: in every list, a user's message is never being generated, and a
  message with a task id belongs to a request whose submission was accepted;
- `FinalInv`: what will be the stored list of a session once its saves have run
  can be attended to when it is loaded: an unfinished message has a task id to
  poll, is still being submitted, or is a chat reply at the end of the list, which
  the load effect finishes; and the list has every task id that is known;
- `ShownInv`: on a loaded page, every unfinished message has a submission or a
  poller, or is the last one and has a reply or a stream, or was abandoned;
- `SubmitHome` and `SseInv`: a submission reports to the session it was sent
  from, and the source that `Stop` closes is a stream in progress.

Its steps are of two kinds, those that edit the list on the page (`Attentive`) and
those that only move lists (`Calm`), and each action is shown to be of one of them.

`ConcurrencyProofs` proves, for any finite set of requests and any tokens, users,
processes, limits, TTL and number of faults: `TypeCorrect`, `LimitKept`,
`LeakFree`, `CountsExact`, `InflightCorrect` and `RefusalJust`. The inductive
invariant has these parts, checked with TLC on the instance of the run before:
- `Held`: what a request has to release follows from where it is, only without
  Redis is it ever between its two slots, and only a request being served is in
  `open`;
- `Placed`: a slot in Redis is of a request that its key limits, and not younger
  than the key's `EXPIRE`;
- `Backed`: a slot to release that is younger than TTL is in Redis;
- `Limited`: no key has more members than its limit;
- `MemInv`: a process's counter is within the limit and the number of its requests
  with that key to release.

`WithinLimit` follows because who is served has a slot (`Held`), the slots are in
Redis (`Backed`) and there are at most as many as the limit (`Limited`). `Backed`
survives the clock because of `Placed`: a key expires TTL after its last `EXPIRE`,
when every slot in it is at least as old. In memory a request gives back only
what `Held` says it has, so that the counter is positive and is not stopped at
zero.

Only model-checked: the liveness properties `EveryTaskEnds`, `PaidIsCredited` and
`LeakHeals`, which are outside the prover. Every invariant and every action
property of a passing run is stated by a theorem; `FundNeverPays` and
`UsedExplained` under the hypotheses given above, without which `FundNeverPays` is
false and `UsedExplained` is not claimed.

## Seen while modelling

Behaviour that no violation run is about, but that a maintainer may want to know:
- `EnqueueVideoArchive` (`service/video_archive_worker.go:93-94`, 108, 118-119) says
  that on a full queue or without workers its caller stores SUCCESS with the
  rewritten upstream URL. Both callers (`relay/relay_task.go:680`,
  `service/task_polling.go:456`) ignore the result and keep the task IN_PROGRESS,
  as their own comments say and `ArchivedBeforeSuccess` shows; the comments of the
  worker are out of date.
- A subscription without room refuses the additional charge of a task that turned
  out more expensive; the error is logged and the task stays at its pre-charge
  (`service/task_billing.go:285`).
- A Waffo notification with any status but success fails a pending order
  (`controller/topup_waffo.go:342-350`); a later success is then refused
  (`model/topup.go:662`).
- `tryRealtimeFetch` (`relay/relay_task.go:734`) makes a task final and bills it
  without `NotifyTaskCallback`, and the poller no longer loads the task: the
  client's callback is never sent, although `service/task_callback.go:29` says
  that it is sent when a task becomes final. In the model `called` stays 0.
- Without Redis the user's slot of a request whose token has none left is visible
  until the rollback (`limiter/concurrency.go:135`), and another request of the
  user may be refused for it. The comment at line 122 promises the semantics of
  the script, which hides it (`lua/concurrency.lua:62`). `JustRefusal` is
  therefore stated with Redis only.
- The webhook of Creem credits `Amount` as it is; a completion of the same order
  by hand multiplies it by `QuotaPerUnit` (`QuotaToAdd`).
- `sessionExpired` logs that an order is not pending and goes on: an expiry that
  arrives late overwrites a successful order's status with `expired`.
- An edit of a redemption code writes back the status it read: a code that is
  redeemed in between can be redeemed again.
- Stripe's webhook answers 200 and Epay's `success` whatever happened, so that an
  error is never delivered again; only the administrator can complete the order.
- `legacyTaskCutoff` (`service/task_polling.go`) is 2025-02-22, its comment says
  2026-02-22.
- Playground: the tick of a video that was started in another session saves the
  list that is shown under the video's session and so replaces that session's
  messages. The image path asks whether its message is still on the page; chat
  and video do not.
- Playground: a late reply or the end of a stream finishes the last message of
  whatever session is shown; clearing the list during a stream makes
  `completeMessage` read the status of a message that is not there, which takes
  the page down to the `ErrorBoundary`.
- Playground: a 200 answer without choices, or a stream that closes before
  `[DONE]`, leaves the message loading with nothing at work until the user presses
  Stop or the session is loaded again.
- Playground: a reload while a video is being submitted leaves a message that is
  loading for ever, since it has no task id to poll.

## Plan

1. Done: `TaskLifecycle` and `BillingSession` (with the subscription's records,
   increments and resets), `CreditOnce` and `TopUp`, `Playground`, their runs and
   the theorems above.
2. Done: the theorems about archiving, exact charges and the playground;
   `TaskLedger`, and `TaskLifecycle` shown to implement it.
3. Done: raises on the subscription and the sum of what is used
   (`BillingSubscriptionProofs`); `ConcurrencyLimit` with its theorems.
4. Open: `QuotaCache` (database row, Redis copy, batch updater, crash),
   `ChannelRetry`, `BlindBox`, Suno.

## Not modelled

Adaptors, format conversion, pricing arithmetic (floating point), settings,
logging, storage I/O and, of the user interfaces, everything but the playground:
forms, tables and charts that show what the server returned. That is most of the
JavaScript of the repository, so the share of it that the map covers is small;
the modelled code is where state is shared and order matters. Of the playground:
images, speech, editing a message, continuing after an edit, the role toggle,
the writes of session titles, and the custom request body, whose messages replace
the list on the page (`pages/Playground/index.jsx:2217-2224`,
`useSyncMessageAndCustomBody.js:106-135`): what is claimed is claimed of pages
where it is off. Of billing: several subscriptions of one user, the
clean-up of old pre-consume records, failing reads, and the violation fee. Of
orders: subscription orders and `waffo_pancake`, a provider's name without a
handler. Of the limits: the rate limits and limits that an
administrator changes while requests run. See the notes in `PROJECT.json`.
