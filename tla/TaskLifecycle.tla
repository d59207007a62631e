--------------------------- MODULE TaskLifecycle ---------------------------
(***************************************************************************)
(* The life of an asynchronous (video) task after it was accepted by the   *)
(* upstream: the row of the tasks table, the master's polling loop with    *)
(* its timeout sweep, the realtime refresh that a user's GET performs, the *)
(* archive workers that copy a finished video to R2, and the money that    *)
(* moves when a task ends.                                                 *)
(*                                                                         *)
(* Every actor works on a copy of the row: it loads the row, talks to the  *)
(* upstream, writes the WHOLE row back with a compare-and-swap on the      *)
(* status column (Task.UpdateWithStatus), and only then moves money.       *)
(***************************************************************************)
EXTENDS Integers, Sequences, FiniteSets

CONSTANTS
    Tasks,        \* primary keys of the tasks table
    Poller,       \* the goroutine of TaskPollingLoop; it runs on the master only
    Fetchers,     \* user requests that refresh a task (tryRealtimeFetch)
    Workers,      \* the archive worker goroutines, on the master
    OnMaster,     \* the fetchers served by the master node
    Realtime,     \* tasks of Vertex, Gemini, Doubao and Ali channels
    Ali,          \* the ones among them that belong to an Ali channel
    Archivable,   \* tasks whose result ShouldArchiveVideo accepts
    Unloadable,   \* tasks whose channel the poller may fail to load
    Legacy,       \* tasks submitted before legacyTaskCutoff
    Subscribed,   \* tasks paid from a subscription, the others from the wallet
    Revocable,    \* the ones whose subscription the administrator may delete
    Pre,          \* the quota charged at submission
    Actual,       \* what the adaptor computes at completion; 0 keeps Pre
    MemoryCacheEnabled,  \* channels are loaded from memory, not from the database
    QueryLimit,   \* constant.TaskQueryLimit
    SweepLimit,   \* the 100 of sweepTimedOutTasks
    QueueSize,    \* archiveQueueSize
    MaxFaults     \* bound on database errors and master crashes

ASSUME TasksAssumption == Tasks \subseteq Nat /\ Tasks # {}
ASSUME ActorsAssumption ==
    /\ Poller \notin Fetchers \cup Workers
    /\ Fetchers \cap Workers = {}
    /\ OnMaster \subseteq Fetchers
ASSUME KindsAssumption ==
    /\ Ali \subseteq Realtime
    /\ Realtime \subseteq Tasks
    /\ Archivable \subseteq Tasks
    /\ Unloadable \subseteq Tasks
    /\ Legacy \subseteq Tasks
    /\ Revocable \subseteq Subscribed
    /\ Subscribed \subseteq Tasks
ASSUME QuotaAssumption ==
    /\ Pre \in [Tasks -> Nat]
    /\ Actual \in [Tasks -> Nat]
ASSUME BoundsAssumption ==
    /\ QueryLimit \in Nat \ {0}
    /\ SweepLimit \in Nat \ {0}
    /\ QueueSize \in Nat
    /\ MemoryCacheEnabled \in BOOLEAN
    /\ MaxFaults \in Nat

Actors == {Poller} \cup Fetchers \cup Workers

\* "NONE" stands for a row that is not in the table; SUBMITTED and QUEUED are
\* handled alike everywhere and are one value here.
Running == {"NOT_START", "QUEUED", "IN_PROGRESS"}
Final == {"SUCCESS", "FAILURE"}
Statuses == {"NONE"} \cup Running \cup Final

\* full: progress = "100%".  url: what PrivateData.ResultURL holds.
Rows == [status : Statuses, full : BOOLEAN, quota : Nat,
         url : {"none", "proxied", "r2", "fallback"}]

\* What an actor has in hand: the row it means to write, the status the write
\* is conditional on, and the billing it owes if the write succeeds.
Hands == [task : Tasks, from : Statuses, row : Rows,
          act : {"none", "settle", "refund", "notify"}]

VARIABLES
    db,         \* the tasks table
    submitted,  \* tasks that the relay has charged
    paid,       \* net amount the user has paid for a task, over all its bookings;
                \* the submission counts as Pre, what BillingSession makes of it
    upstream,   \* the state of the task at the provider
    late,       \* tasks older than TaskTimeoutMinutes
    gone,       \* tasks whose channel was deleted
    phase,      \* where TaskPollingLoop is: its sweep or its poll
    todo,       \* tasks the current phase still has to handle
    mem,        \* the rows the current phase loaded when it began
    pc,         \* what each actor does next
    hand,       \* what each actor has in hand
    queue,      \* archiveJobChan
    inflight,   \* archiveInflight
    called,     \* number of callbacks sent for a task
    faults      \* database errors and crashes so far

vars == <<db, submitted, paid, upstream, late, gone, phase, todo, mem,
          pc, hand, queue, inflight, called, faults>>
pollVars == <<phase, todo, mem>>
worldVars == <<upstream, late, gone>>
archiveVars == <<queue, inflight>>

NoRow == [status |-> "NONE", full |-> FALSE, quota |-> 0, url |-> "none"]
NoHand == [task |-> CHOOSE t \in Tasks : TRUE, from |-> "NONE", row |-> NoRow,
           act |-> "none"]
NoRows == [t \in Tasks |-> NoRow]

TypeOK ==
    /\ db \in [Tasks -> Rows]
    /\ submitted \subseteq Tasks
    /\ paid \in [Tasks -> Int]
    /\ upstream \in [Tasks -> (Running \ {"NOT_START"}) \cup Final]
    /\ late \subseteq Tasks
    /\ gone \subseteq Unloadable
    /\ phase \in {"sweep", "poll"}
    /\ todo \subseteq Tasks
    /\ mem \in [Tasks -> Rows]
    /\ pc \in [Actors -> {"idle", "loaded", "archiving", "write", "bill", "persist"}]
    /\ hand \in [Actors -> Hands]
    /\ queue \in Seq(Tasks)
    /\ inflight \subseteq Tasks
    /\ called \in [Tasks -> Nat]
    /\ faults \in 0..MaxFaults

Init ==
    /\ db = NoRows
    /\ submitted = {}
    /\ paid = [t \in Tasks |-> 0]
    /\ upstream = [t \in Tasks |-> "QUEUED"]
    /\ late = {}
    /\ gone = {}
    /\ phase = "poll"
    /\ todo = {}
    /\ mem = NoRows
    /\ pc = [a \in Actors |-> "idle"]
    /\ hand = [a \in Actors |-> NoHand]
    /\ queue = <<>>
    /\ inflight = {}
    /\ called = [t \in Tasks |-> 0]
    /\ faults = 0

----------------------------------------------------------------------------
(* The provider, the clock and the administrator. *)

\* The provider advances the task; its final answer is final.
UpstreamProgress(t) ==
    /\ t \in submitted
    /\ upstream[t] \notin Final
    /\ \E s \in {"IN_PROGRESS", "SUCCESS", "FAILURE"} \ {upstream[t]} :
          upstream' = [upstream EXCEPT ![t] = s]
    /\ UNCHANGED <<db, submitted, paid, late, gone, pollVars, pc, hand,
                   archiveVars, called, faults>>

\* TaskTimeoutMinutes pass after the submission of t.
MissDeadline(t) ==
    /\ db[t].status # "NONE"
    /\ t \notin late
    /\ late' = late \cup {t}
    /\ UNCHANGED <<db, submitted, paid, upstream, gone, pollVars, pc, hand,
                   archiveVars, called, faults>>

DeleteChannel(t) ==
    /\ t \in Unloadable \ gone
    /\ gone' = gone \cup {t}
    /\ UNCHANGED <<db, submitted, paid, upstream, late, pollVars, pc, hand,
                   archiveVars, called, faults>>

\* What one GET to the provider yields: its state, a body without a status
\* that is not a rate limit, or nothing usable (network, non-2xx, 429, parse).
Answers(t) == {upstream[t], "EMPTY", "ERROR"}

Fault == faults < MaxFaults /\ faults' = faults + 1

----------------------------------------------------------------------------
(* Submission: SettleBilling, then task.Insert, whose error is only logged. *)

Submit(t) ==
    /\ t \notin submitted
    /\ submitted' = submitted \cup {t}
    /\ paid' = [paid EXCEPT ![t] = Pre[t]]
    /\ \/ /\ db' = [db EXCEPT ![t] = [NoRow EXCEPT !.status = "NOT_START",
                                                   !.quota = Pre[t]]]
          /\ UNCHANGED faults
       \/ Fault /\ UNCHANGED db
    /\ UNCHANGED <<worldVars, pollVars, pc, hand, archiveVars, called>>

----------------------------------------------------------------------------
(* The archive queue. *)

\* Mutant: the in-flight reservation is not looked up.
EnqueueAgain(t, onMaster) ==
    IF onMaster /\ Len(queue) < QueueSize
    THEN queue' = Append(queue, t) /\ inflight' = inflight \cup {t}
    ELSE UNCHANGED archiveVars

\* EnqueueVideoArchive: nothing on a node without workers or for a task that
\* is already in flight; a full queue withdraws the reservation.
Enqueue(t, onMaster) ==
    IF onMaster /\ t \notin inflight /\ Len(queue) < QueueSize
    THEN queue' = Append(queue, t) /\ inflight' = inflight \cup {t}
    ELSE UNCHANGED archiveVars

\* Mutant: the progress the provider reported, 100%, is kept.
ArchivingRowFull(row) == [row EXCEPT !.status = "IN_PROGRESS", !.full = TRUE]

\* The row of a task that is being archived: in progress, 99%.
ArchivingRow(row) == [row EXCEPT !.status = "IN_PROGRESS", !.full = FALSE]

----------------------------------------------------------------------------
(* Writing a row and billing, common to all actors. *)

Take(a, h, next) ==
    /\ hand' = [hand EXCEPT ![a] = h]
    /\ pc' = [pc EXCEPT ![a] = next]

\* Mutant: a worker forgets to leave archiveInflight.
ReleaseReserved(a) == Take(a, NoHand, "idle") /\ UNCHANGED inflight

\* The actor is done with its task; a worker also leaves archiveInflight.
Release(a) ==
    /\ Take(a, NoHand, "idle")
    /\ inflight' = IF a \in Workers THEN inflight \ {hand[a].task} ELSE inflight

Notify(a) ==
    called' = IF a \in Fetchers THEN called
              ELSE [called EXCEPT ![hand[a].task] = @ + 1]

\* Mutant: the row is saved by its primary key only.
StatusAnything(a) == TRUE

\* The WHERE clause of UpdateWithStatus: the status column still has the value
\* that the actor read.
StatusUnchanged(a) == db[hand[a].task].status = hand[a].from

\* UpdateWithStatus writes the whole row.  Only the winner bills.
WriteWins(a) ==
    /\ pc[a] = "write"
    /\ StatusUnchanged(a)
    /\ db' = [db EXCEPT ![hand[a].task] = hand[a].row]
    /\ IF hand[a].act = "none"
       THEN Release(a)
       ELSE pc' = [pc EXCEPT ![a] = "bill"] /\ UNCHANGED <<hand, inflight>>
    /\ UNCHANGED <<submitted, paid, worldVars, pollVars, queue, called, faults>>

WriteLoses(a) ==
    /\ pc[a] = "write"
    /\ \/ ~StatusUnchanged(a) /\ UNCHANGED faults
       \/ Fault
    /\ Release(a)
    /\ UNCHANGED <<db, submitted, paid, worldVars, pollVars, queue, called>>

\* taskAdjustFunding may be refused without any database error: a subscription
\* without room takes no further charge, and a deleted one is not found.  The
\* wallet takes every amount.
MayRefuse(t, delta) == t \in Revocable \/ (t \in Subscribed /\ delta > 0)

\* RefundTaskQuota gives back the quota of the copy in hand and leaves the
\* column as it is; an error of the funding source ends the refund.
BillRefund(a) ==
    /\ pc[a] = "bill" /\ hand[a].act = "refund"
    /\ LET t == hand[a].task
           quota == hand[a].row.quota
       IN  \/ paid' = [paid EXCEPT ![t] = @ - quota] /\ UNCHANGED faults
           \/ UNCHANGED paid /\ (Fault \/ (MayRefuse(t, -quota) /\ UNCHANGED faults))
    /\ Notify(a)
    /\ Release(a)
    /\ UNCHANGED <<db, submitted, worldVars, pollVars, queue>>

\* A timed-out task that is not refunded: the callback only.
BillNotify(a) ==
    /\ pc[a] = "bill" /\ hand[a].act = "notify"
    /\ Notify(a)
    /\ Release(a)
    /\ UNCHANGED <<db, submitted, paid, worldVars, pollVars, queue, faults>>

\* settleTaskBillingOnComplete and RecalculateTaskQuota: no adjustment, or one
\* that fails, ends the settlement; else the difference is booked ...
SettleNothing(a) ==
    /\ pc[a] = "bill" /\ hand[a].act = "settle"
    /\ LET t == hand[a].task
           quota == hand[a].row.quota
       IN  \/ /\ Actual[t] \in {0, quota} \/ MayRefuse(t, Actual[t] - quota)
              /\ UNCHANGED faults
           \/ Actual[t] \notin {0, quota} /\ Fault
    /\ Notify(a)
    /\ Release(a)
    /\ UNCHANGED <<db, submitted, paid, worldVars, pollVars, queue>>

SettleDelta(a) ==
    /\ pc[a] = "bill" /\ hand[a].act = "settle"
    /\ LET t == hand[a].task
       IN  /\ Actual[t] \notin {0, hand[a].row.quota}
           /\ paid' = [paid EXCEPT ![t] = @ + (Actual[t] - hand[a].row.quota)]
    /\ pc' = [pc EXCEPT ![a] = "persist"]
    /\ UNCHANGED <<db, submitted, worldVars, pollVars, hand, archiveVars,
                   called, faults>>

\* ... and then the quota column alone is rewritten.
SettlePersist(a) ==
    /\ pc[a] = "persist"
    /\ LET t == hand[a].task
       IN  \/ /\ db' = [db EXCEPT ![t].quota = Actual[t]]
              /\ UNCHANGED faults
           \/ Fault /\ UNCHANGED db
    /\ Notify(a)
    /\ Release(a)
    /\ UNCHANGED <<submitted, paid, worldVars, pollVars, queue>>

----------------------------------------------------------------------------
(* TaskPollingLoop. *)

Unfinished(row) == row.status \in Running /\ ~row.full

\* ORDER BY id LIMIT n
Limited(S, n) == {t \in S : Cardinality({u \in S : u < t}) < n}

PollerFree == pc[Poller] = "idle"

SweepLoad ==
    /\ PollerFree /\ phase = "poll" /\ todo = {}
    /\ phase' = "sweep"
    /\ todo' = Limited({t \in late : Unfinished(db[t])}, SweepLimit)
    /\ mem' = db
    /\ UNCHANGED <<db, submitted, paid, worldVars, pc, hand, archiveVars,
                   called, faults>>

SweepTask(t) ==
    /\ PollerFree /\ phase = "sweep" /\ t \in todo
    /\ todo' = todo \ {t}
    /\ Take(Poller,
            [task |-> t, from |-> mem[t].status,
             row |-> [mem[t] EXCEPT !.status = "FAILURE", !.full = TRUE],
             act |-> IF t \in Legacy \/ mem[t].quota = 0 THEN "notify" ELSE "refund"],
            "write")
    /\ UNCHANGED <<db, submitted, paid, worldVars, phase, mem, archiveVars,
                   called, faults>>

PollLoad ==
    /\ PollerFree /\ phase = "sweep" /\ todo = {}
    /\ phase' = "poll"
    /\ todo' = Limited({t \in Tasks : Unfinished(db[t])}, QueryLimit)
    /\ mem' = db
    /\ UNCHANGED <<db, submitted, paid, worldVars, pc, hand, archiveVars,
                   called, faults>>

\* The row, and the billing owed, that updateVideoSingleTask derives from the
\* provider's status s.
PolledRow(t, s) ==
    IF s = "SUCCESS" /\ t \in Archivable THEN ArchivingRow(mem[t])
    ELSE [mem[t] EXCEPT !.status = s, !.full = s \in Final,
                        !.url = IF s = "SUCCESS" THEN "proxied" ELSE @]
PolledAct(t, s) ==
    CASE s = "SUCCESS" /\ t \notin Archivable -> "settle"
      [] s = "FAILURE" /\ mem[t].quota # 0 -> "refund"
      [] OTHER -> "none"

\* An unusable answer leaves the task to the next round.
PollSkip(t) ==
    /\ PollerFree /\ phase = "poll" /\ t \in todo \ gone
    /\ todo' = todo \ {t}
    /\ UNCHANGED <<db, submitted, paid, worldVars, phase, mem, pc, hand,
                   archiveVars, called, faults>>

\* updateVideoSingleTask up to its write: a body without status counts as a
\* failure, and a result to archive is enqueued before the row is written.
\* A row that did not change is written only if the provider's data did.
PollTask(t) ==
    /\ PollerFree /\ phase = "poll" /\ t \in todo \ gone
    /\ todo' = todo \ {t}
    /\ \E ans \in Answers(t) \ {"ERROR"} :
          LET s == IF ans = "EMPTY" THEN "FAILURE" ELSE ans
              row == PolledRow(t, s)
          IN  /\ \/ Take(Poller, [task |-> t, from |-> mem[t].status, row |-> row,
                                  act |-> PolledAct(t, s)], "write")
                 \/ row = mem[t] /\ UNCHANGED <<pc, hand>>
              /\ IF s = "SUCCESS" /\ t \in Archivable
                 THEN Enqueue(t, TRUE) ELSE UNCHANGED archiveVars
    /\ UNCHANGED <<db, submitted, paid, worldVars, phase, mem, called, faults>>

\* updateVideoTasks when CacheGetChannel fails, because the channel was deleted
\* or, without the memory cache, because the database did not answer:
\* TaskBulkUpdateByID rewrites status and progress without a compare-and-swap
\* and without a refund.
PollChannelGone(t) ==
    /\ PollerFree /\ phase = "poll" /\ t \in todo
    /\ todo' = todo \ {t}
    /\ LET bulkFailed == [db EXCEPT ![t].status = "FAILURE", ![t].full = TRUE]
       IN  \/ t \in gone /\ db' = bulkFailed /\ UNCHANGED faults
           \/ t \in gone /\ Fault /\ UNCHANGED db
           \/ t \in Unloadable /\ ~MemoryCacheEnabled /\ Fault /\ db' = bulkFailed
    /\ UNCHANGED <<submitted, paid, worldVars, phase, mem, pc, hand,
                   archiveVars, called>>

----------------------------------------------------------------------------
(* tryRealtimeFetch. *)

\* Mutant: every task is fetched again.
NeverAnsweredFromRow(t) == FALSE

\* An Ali task that is final is answered from the row; the others are always
\* fetched again.
AnsweredFromRow(t) == t \in Ali /\ db[t].status \in Final

\* The handler has loaded the task.
FetchLoad(f, t) ==
    /\ pc[f] = "idle"
    /\ t \in Realtime \ gone
    /\ db[t].status # "NONE"
    /\ ~AnsweredFromRow(t)
    /\ Take(f, [NoHand EXCEPT !.task = t, !.from = db[t].status, !.row = db[t]], "loaded")
    /\ UNCHANGED <<db, submitted, paid, worldVars, pollVars, archiveVars,
                   called, faults>>

FetchSkip(f) ==
    /\ pc[f] = "loaded"
    /\ Take(f, NoHand, "idle")
    /\ UNCHANGED <<db, submitted, paid, worldVars, pollVars, archiveVars,
                   called, faults>>

\* Mutants: a result is published without asking ShouldArchiveVideo; a failure
\* seen by a realtime fetch is not refunded; an empty status is taken over.
FetchedRowDirect(t, old, s) ==
    [old EXCEPT !.status = s, !.full = s \in Final,
                !.url = IF s = "SUCCESS" THEN "proxied" ELSE @]
FetchedActForgets(old, row) ==
    IF row.status = "SUCCESS" /\ old.status # "SUCCESS" THEN "settle" ELSE "none"
FetchedStatusRaw(old, ans) == ans

\* A body without status keeps the status.
FetchedStatus(old, ans) == IF ans = "EMPTY" THEN old.status ELSE ans

\* Only a fresh success computes the URL or asks for archiving; the billing owed
\* compares with the status loaded before.  Ali's adaptor reports no progress, so
\* the column keeps its value; the others report 100% with a final status.
FetchedRow(t, old, s) ==
    LET fresh == s = "SUCCESS" /\ old.status # "SUCCESS"
    IN  IF fresh /\ t \in Archivable THEN ArchivingRow(old)
        ELSE [old EXCEPT !.status = s,
                         !.full = IF t \in Ali \/ s = old.status THEN @ ELSE s \in Final,
                         !.url = IF fresh THEN "proxied" ELSE @]
FetchedAct(old, row) ==
    CASE row.status = "SUCCESS" /\ old.status # "SUCCESS" -> "settle"
      [] row.status = "FAILURE" /\ old.status # "FAILURE" -> "refund"
      [] OTHER -> "none"

\* The answer is applied to the copy loaded before.
FetchAnswer(f) ==
    /\ pc[f] = "loaded"
    /\ \E ans \in Answers(hand[f].task) \ {"ERROR"} :
          LET t == hand[f].task
              old == hand[f].row
              s == FetchedStatus(old, ans)
              row == FetchedRow(t, old, s)
          IN  /\ \/ Take(f, [hand[f] EXCEPT !.row = row, !.act = FetchedAct(old, row)], "write")
                 \/ row = old /\ Take(f, NoHand, "idle")
              /\ IF s = "SUCCESS" /\ old.status # "SUCCESS" /\ t \in Archivable
                 THEN Enqueue(t, f \in OnMaster) ELSE UNCHANGED archiveVars
    /\ UNCHANGED <<db, submitted, paid, worldVars, pollVars, called, faults>>

----------------------------------------------------------------------------
(* processArchiveJob. *)

ArchiveTake(w) ==
    /\ pc[w] = "idle" /\ queue # <<>>
    /\ queue' = Tail(queue)
    /\ IF db[Head(queue)].status \notin Running
       THEN inflight' = inflight \ {Head(queue)} /\ UNCHANGED <<pc, hand>>
       ELSE Take(w, [NoHand EXCEPT !.task = Head(queue)], "archiving") /\ UNCHANGED inflight
    /\ UNCHANGED <<db, submitted, paid, worldVars, pollVars, called, faults>>

\* The transfer to R2 ended; after maxArchiveAttempts failures the rewritten
\* upstream URL is used.  The row is loaded again before it is finalized.
ArchiveReload(w) ==
    /\ pc[w] = "archiving"
    /\ LET t == hand[w].task
       IN  IF db[t].status \notin Running
           THEN Release(w)
           ELSE /\ \E url \in {"r2", "fallback"} :
                     Take(w, [task |-> t, from |-> "IN_PROGRESS",
                              row |-> [db[t] EXCEPT !.status = "SUCCESS", !.full = TRUE,
                                                    !.url = url],
                              act |-> "settle"], "write")
                /\ UNCHANGED inflight
    /\ UNCHANGED <<db, submitted, paid, worldVars, pollVars, queue, called, faults>>

\* A load that fails ends the job; the poller will ask for it again.
ArchiveFails(w) ==
    /\ pc[w] = "archiving"
    /\ Fault
    /\ Release(w)
    /\ UNCHANGED <<db, submitted, paid, worldVars, pollVars, queue, called>>

----------------------------------------------------------------------------
\* The master process dies and restarts: its goroutines, the archive queue and
\* every booking not yet made are lost; requests on other nodes live on.
Crash ==
    /\ Fault
    /\ phase' = "poll" /\ todo' = {} /\ mem' = NoRows
    /\ pc' = [a \in Actors |-> IF a \in Fetchers \ OnMaster THEN pc[a] ELSE "idle"]
    /\ hand' = [a \in Actors |-> IF a \in Fetchers \ OnMaster THEN hand[a] ELSE NoHand]
    /\ queue' = <<>> /\ inflight' = {}
    /\ UNCHANGED <<db, submitted, paid, worldVars, called>>

World == \E t \in Tasks : UpstreamProgress(t) \/ MissDeadline(t) \/ DeleteChannel(t) \/ Submit(t)
PollerStep ==
    \/ SweepLoad \/ PollLoad
    \/ \E t \in Tasks : SweepTask(t) \/ PollSkip(t) \/ PollTask(t) \/ PollChannelGone(t)
FetchStep(f) == (\E t \in Tasks : FetchLoad(f, t)) \/ FetchSkip(f) \/ FetchAnswer(f)
ArchiveStep(w) == ArchiveTake(w) \/ ArchiveReload(w) \/ ArchiveFails(w)
WriteStep(a) == WriteWins(a) \/ WriteLoses(a)
BillStep(a) ==
    BillRefund(a) \/ BillNotify(a) \/ SettleNothing(a) \/ SettleDelta(a) \/ SettlePersist(a)

Next ==
    \/ World
    \/ PollerStep
    \/ \E f \in Fetchers : FetchStep(f)
    \/ \E w \in Workers : ArchiveStep(w)
    \/ \E a \in Actors : WriteStep(a) \/ BillStep(a)
    \/ Crash

Spec == Init /\ [][Next]_vars

\* Every started handler, worker and round of the polling loop goes on; the
\* deadline of an unfinished task passes.  The provider need not answer.
Fairness ==
    /\ WF_vars(PollerStep)
    /\ \A a \in Actors : WF_vars(WriteStep(a)) /\ WF_vars(BillStep(a))
    /\ \A f \in Fetchers : WF_vars(FetchSkip(f) \/ FetchAnswer(f))
    /\ \A w \in Workers : WF_vars(ArchiveStep(w))
    /\ \A t \in Tasks : WF_vars(MissDeadline(t))

FairSpec == Spec /\ Fairness

----------------------------------------------------------------------------
(* Properties. *)

\* Tasks that no path refreshes or rewrites once they are final: not the ones
\* tryRealtimeFetch fetches again, nor the ones the bulk update may hit.
Guarded == Tasks \ ((Realtime \ Ali) \cup Unloadable)

\* The actors that won the final write of t and have not finished its billing.
Owing(t) == {a \in Actors : pc[a] \in {"bill", "persist"} /\ hand[a].task = t}

\* What a success costs after settlement.
Price(t) == IF Actual[t] = 0 THEN Pre[t] ELSE Actual[t]

\* p is what a failure, or a success, costs when its booking met no database
\* error: a refusal by the subscription leaves the charge of the submission.
Refunded(t, p) == p = 0 \/ (p = Pre[t] /\ t \in Revocable)
Settled(t, p) == p = Price(t) \/ (p = Pre[t] /\ MayRefuse(t, Price(t) - Pre[t]))

\* Whatever crashes, errors and interleavings happen, a task's money moves at
\* most once after submission: a failed task is refunded once or not at all, a
\* successful one is settled once or left at the quota charged first, and a
\* running one has moved nothing (the compare-and-swap of UpdateWithStatus
\* elects one biller among poller, sweep, realtime fetch and archive worker).
BilledAtMostOnce ==
    \A t \in Guarded :
        /\ db[t].status = "FAILURE" => paid[t] \in {0, Pre[t]}
        /\ db[t].status = "SUCCESS" => paid[t] \in {Pre[t], Price(t)}
        /\ db[t].status \in Running => paid[t] = Pre[t]

\* Without faults the billing is exact: once nobody owes anything for a final
\* task, a failure cost nothing, and a success cost its price, which is also
\* what the quota column shows (RefundTaskQuota, RecalculateTaskQuota).  The only
\* exceptions are the refusals of a subscription: a success priced above its
\* pre-charge may stay at the pre-charge, column included, and a task whose
\* subscription was deleted stays as it was charged.
BilledExactly ==
    faults = 0 =>
        \A t \in Guarded \ Legacy :
            Owing(t) = {} =>
                /\ db[t].status = "FAILURE" => Refunded(t, paid[t])
                /\ db[t].status = "SUCCESS" => paid[t] = db[t].quota /\ Settled(t, paid[t])

\* The detailed task as a TaskLedger account: whether it is charged, recorded,
\* running or final, and what its user has paid.
Stage(t) ==
    IF t \notin submitted THEN "new"
    ELSE CASE db[t].status = "NONE" -> "lost"
           [] db[t].status = "FAILURE" -> "failed"
           [] db[t].status = "SUCCESS" -> "succeeded"
           [] OTHER -> "running"
StageOf == [t \in Guarded |-> Stage(t)]
PaidFor == [t \in Guarded |-> paid[t]]
PriceOf == [t \in Guarded |-> Price(t)]
Ledger == INSTANCE TaskLedger WITH Tasks <- Guarded, Cost <- PriceOf,
                                   stage <- StageOf, paid <- PaidFor

\* Every interleaving of submission, poller, sweep, realtime fetches, archive
\* workers, errors and crashes is, for each guarded task, a behaviour of
\* TaskLedger: charged once, ended once, and then refunded or settled once, in
\* full, or not at all (UpdateWithStatus before RefundTaskQuota and
\* RecalculateTaskQuota).
ImplementsTaskLedger == Ledger!Spec

\* A final status is never overwritten, in particular not by a poller, a sweep
\* or a request that loaded the row before it became final.
FinalIsSticky ==
    [][\A t \in Guarded : db[t].status \in Final => db'[t].status = db[t].status]_vars

\* With archiving on, no path finishes a task with the upstream's URL before
\* the archive worker had its turn: not the poller, not a realtime fetch on
\* another node, not a full queue (the comments in tryRealtimeFetch).  The
\* comments of EnqueueVideoArchive say the opposite of a full queue and of a node
\* without workers, that the caller then lands SUCCESS with the rewritten upstream
\* URL; but both callers of TryEnqueueVideoArchive ignore its answer.
ArchivedBeforeSuccess ==
    \A t \in Archivable : db[t].status = "SUCCESS" => db[t].url \in {"r2", "fallback"}

\* A task has at most one archive job, queued or being worked on, and exactly
\* the tasks with a job are in archiveInflight (no leaked reservation, which
\* would keep the task from ever being archived).
OneArchiveJob ==
    LET queued(t) == {i \in 1..Len(queue) : queue[i] = t}
        worked(t) == {w \in Workers : pc[w] # "idle" /\ hand[w].task = t}
    IN  \A t \in Tasks :
            Cardinality(queued(t)) + Cardinality(worked(t)) = IF t \in inflight THEN 1 ELSE 0

\* The client is called back at most once per task (NotifyTaskCallback).
CalledBackAtMostOnce == \A t \in Guarded : called[t] <= 1

\* Every task that has a row ends, and nobody still owes its billing, even if the
\* provider never answers: the sweep fails it, and no lost compare-and-swap, full
\* archive queue, query limit or crash leaves it running for good.  (A crash
\* between write and booking, or the bulk update, ends it unbilled.)
EveryTaskEnds ==
    \A t \in Tasks : db[t].status # "NONE" ~> (db[t].status \in Final /\ Owing(t) = {})

----------------------------------------------------------------------------
(* Statements of the repository that the code does not keep. *)

\* The comment in tryRealtimeFetch that the compare-and-swap lets only one final
\* transition bill: no task, of whatever channel, ever pays its user.
NobodyIsPaid == \A t \in Tasks : paid[t] >= 0

\* The warning on TaskBulkUpdateByID not to use it for failure transitions that
\* refund: a failed task has been refunded, whichever path failed it.
FailureIsRefunded ==
    faults = 0 =>
        \A t \in Tasks \ Legacy :
            db[t].status = "FAILURE" /\ Owing(t) = {} => paid[t] = 0

=============================================================================
