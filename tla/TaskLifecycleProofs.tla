------------------------ MODULE TaskLifecycleProofs ------------------------
(***************************************************************************)
(* Proofs about TaskLifecycle, for any number of tasks, requests and       *)
(* archive workers and any quotas.  The inductive invariant says of a      *)
(* guarded task that every copy an actor may still write is conditional on *)
(* a running status and carries the quota charged first, so that only one  *)
(* write can end the task, and that its winner finds the money untouched.  *)
(***************************************************************************)
EXTENDS TaskLifecycle, FiniteSetTheorems, TLAPS

\* The actors with a role are actors.
LEMMA ActorFacts ==
    /\ Poller \in Actors /\ Fetchers \subseteq Actors /\ Workers \subseteq Actors
BY DEF Actors

\* The placeholders have the types of what they stand for.
LEMMA PlaceholderTypes == NoRow \in Rows /\ NoHand \in Hands /\ NoRows \in [Tasks -> Rows]
<1>1. NoRow \in Rows
  BY DEF NoRow, Rows, Statuses, Running, Final
<1>2. (CHOOSE t \in Tasks : TRUE) \in Tasks
  BY TasksAssumption
<1> QED
  BY <1>1, <1>2 DEF NoHand, NoRows, Hands, Statuses, Running

\* The type invariant holds initially.
LEMMA TypeInit == Init => TypeOK
BY PlaceholderTypes, BoundsAssumption DEF Init, TypeOK, Running, Final

\* A query with a limit returns rows that match it.
LEMMA LimitedSubset == ASSUME NEW S, NEW n PROVE Limited(S, n) \subseteq S
BY DEF Limited

\* Replacing status, progress and URL of a row gives a row.
LEMMA RowUpdate ==
    ASSUME NEW r \in Rows, NEW s \in Statuses, NEW b \in BOOLEAN,
           NEW u \in {"none", "proxied", "r2", "fallback"}
    PROVE  /\ [r EXCEPT !.status = s] \in Rows
           /\ [r EXCEPT !.status = s, !.full = b] \in Rows
           /\ [r EXCEPT !.status = s, !.full = b, !.url = u] \in Rows
BY DEF Rows

PCs == {"idle", "loaded", "archiving", "write", "bill", "persist"}

\* Taking a well-typed hand keeps the types.
LEMMA TakeType ==
    ASSUME TypeOK, NEW a \in Actors, NEW h \in Hands, NEW p \in PCs, Take(a, h, p)
    PROVE  pc' \in [Actors -> PCs] /\ hand' \in [Actors -> Hands]
BY DEF TypeOK, Take, PCs

\* Releasing keeps the types.
LEMMA ReleaseType ==
    ASSUME TypeOK, NEW a \in Actors, Release(a)
    PROVE  /\ pc' \in [Actors -> PCs]
           /\ hand' \in [Actors -> Hands]
           /\ inflight' \subseteq Tasks
<1>1. Take(a, NoHand, "idle")
  BY DEF Release
<1>2. inflight' \subseteq Tasks
  BY DEF Release, TypeOK
<1> QED
  BY <1>1, <1>2, TakeType, PlaceholderTypes DEF PCs

\* Notifying keeps the types.
LEMMA NotifyType ==
    ASSUME TypeOK, NEW a \in Actors, Notify(a)
    PROVE  called' \in [Tasks -> Nat]
<1>1. hand[a].task \in Tasks /\ called \in [Tasks -> Nat]
  BY DEF TypeOK, Hands
<1> QED
  BY <1>1 DEF Notify

\* The row in hand is a row, its quota a number, its task a task.
LEMMA HandTypes ==
    ASSUME TypeOK, NEW a \in Actors
    PROVE  /\ hand[a] \in Hands
           /\ hand[a].task \in Tasks
           /\ hand[a].from \in Statuses
           /\ hand[a].row \in Rows
           /\ hand[a].row.quota \in Nat
           /\ hand[a].row.status \in Statuses
BY DEF TypeOK, Hands, Rows

\* Enqueuing keeps the types.
LEMMA EnqueueType ==
    ASSUME TypeOK, NEW t \in Tasks, NEW m \in BOOLEAN, Enqueue(t, m)
    PROVE  queue' \in Seq(Tasks) /\ inflight' \subseteq Tasks
<1>1. queue \in Seq(Tasks) /\ inflight \subseteq Tasks
  BY DEF TypeOK
<1>2. Append(queue, t) \in Seq(Tasks)
  BY <1>1
<1> QED
  BY <1>1, <1>2 DEF Enqueue, archiveVars

\* A record with the fields of a hand is one.
LEMMA HandRecord ==
    ASSUME NEW t \in Tasks, NEW s \in Statuses, NEW r \in Rows,
           NEW c \in {"none", "settle", "refund", "notify"}
    PROVE  [task |-> t, from |-> s, row |-> r, act |-> c] \in Hands
BY DEF Hands

\* A fault keeps the bound on faults.
LEMMA FaultType == ASSUME TypeOK, Fault PROVE faults' \in 0..MaxFaults
<1>1. faults \in 0..MaxFaults
  BY DEF TypeOK
<1> QED
  BY <1>1, BoundsAssumption DEF Fault

\* Every step keeps the types.
LEMMA TypeStep == TypeOK /\ [Next]_vars => TypeOK'
<1> SUFFICES ASSUME TypeOK, [Next]_vars PROVE TypeOK'
  OBVIOUS
<1> USE ActorFacts, PlaceholderTypes
<1>1. ASSUME NEW t \in Tasks, UpstreamProgress(t) PROVE TypeOK'
  BY <1>1 DEF TypeOK, UpstreamProgress, pollVars, archiveVars, Running, Final
<1>2. ASSUME NEW t \in Tasks, MissDeadline(t) PROVE TypeOK'
  BY <1>2 DEF TypeOK, MissDeadline, pollVars, archiveVars
<1>3. ASSUME NEW t \in Tasks, DeleteChannel(t) PROVE TypeOK'
  BY <1>3 DEF TypeOK, DeleteChannel, pollVars, archiveVars
<1>4. ASSUME NEW t \in Tasks, Submit(t) PROVE TypeOK'
  <2>1. [NoRow EXCEPT !.status = "NOT_START", !.quota = Pre[t]] \in Rows
    BY QuotaAssumption DEF Rows, NoRow, Statuses, Running
  <2>2. db' \in [Tasks -> Rows] /\ faults' \in 0..MaxFaults
    BY <1>4, <2>1, FaultType DEF TypeOK, Submit
  <2>3. paid' \in [Tasks -> Int]
    <3>1. Pre[t] \in Int /\ paid \in [Tasks -> Int]
      BY QuotaAssumption DEF TypeOK
    <3> QED
      BY <1>4, <3>1 DEF Submit
  <2> QED
    BY <1>4, <2>2, <2>3 DEF TypeOK, Submit, worldVars, pollVars, archiveVars
<1>5. ASSUME NEW a \in Actors, WriteWins(a) PROVE TypeOK'
  <2>1. db' \in [Tasks -> Rows]
    BY <1>5, HandTypes DEF TypeOK, WriteWins
  <2>2. pc' \in [Actors -> PCs] /\ hand' \in [Actors -> Hands] /\ inflight' \subseteq Tasks
    <3>1. CASE Release(a)
      BY <3>1, ReleaseType
    <3>2. CASE pc' = [pc EXCEPT ![a] = "bill"] /\ UNCHANGED <<hand, inflight>>
      BY <3>2 DEF TypeOK, PCs
    <3> QED
      BY <1>5, <3>1, <3>2 DEF WriteWins
  <2> QED
    BY <1>5, <2>1, <2>2 DEF TypeOK, PCs, WriteWins, worldVars, pollVars
<1>6. ASSUME NEW a \in Actors, WriteLoses(a) PROVE TypeOK'
  <2>1. Release(a) /\ faults' \in 0..MaxFaults
    BY <1>6, FaultType DEF TypeOK, WriteLoses
  <2> QED
    BY <1>6, <2>1, ReleaseType DEF TypeOK, PCs, WriteLoses, worldVars, pollVars
<1>7. ASSUME NEW a \in Actors, BillRefund(a) PROVE TypeOK'
  <2>1. paid' \in [Tasks -> Int] /\ faults' \in 0..MaxFaults
    <3>1. hand[a].task \in Tasks /\ hand[a].row.quota \in Nat /\ paid \in [Tasks -> Int]
          /\ faults \in 0..MaxFaults
      BY HandTypes DEF TypeOK
    <3> QED
      BY <1>7, <3>1, FaultType DEF BillRefund
  <2>2. Notify(a) /\ Release(a)
    BY <1>7 DEF BillRefund
  <2> QED
    BY <1>7, <2>1, <2>2, NotifyType, ReleaseType DEF TypeOK, PCs, BillRefund, worldVars, pollVars
<1>8. ASSUME NEW a \in Actors, BillNotify(a) PROVE TypeOK'
  BY <1>8, NotifyType, ReleaseType DEF TypeOK, PCs, BillNotify, worldVars, pollVars
<1>9. ASSUME NEW a \in Actors, SettleNothing(a) PROVE TypeOK'
  <2>1. Notify(a) /\ Release(a) /\ faults' \in 0..MaxFaults
    BY <1>9, FaultType DEF SettleNothing, TypeOK
  <2> QED
    BY <1>9, <2>1, NotifyType, ReleaseType DEF TypeOK, PCs, SettleNothing, worldVars, pollVars
<1>10. ASSUME NEW a \in Actors, SettleDelta(a) PROVE TypeOK'
  <2>1. paid' \in [Tasks -> Int]
    <3>1. hand[a].task \in Tasks /\ hand[a].row.quota \in Nat /\ paid \in [Tasks -> Int]
      BY HandTypes DEF TypeOK
    <3>2. Actual[hand[a].task] \in Nat
      BY <3>1, QuotaAssumption
    <3> QED
      BY <1>10, <3>1, <3>2 DEF SettleDelta
  <2> QED
    BY <1>10, <2>1 DEF TypeOK, SettleDelta, worldVars, pollVars, archiveVars
<1>11. ASSUME NEW a \in Actors, SettlePersist(a) PROVE TypeOK'
  <2>1. db' \in [Tasks -> Rows] /\ faults' \in 0..MaxFaults
    <3>1. hand[a].task \in Tasks /\ db \in [Tasks -> Rows] /\ faults \in 0..MaxFaults
      BY HandTypes DEF TypeOK
    <3>2. Actual[hand[a].task] \in Nat
      BY <3>1, QuotaAssumption
    <3>3. [db[hand[a].task] EXCEPT !.quota = Actual[hand[a].task]] \in Rows
      BY <3>1, <3>2 DEF Rows
    <3> QED
      BY <1>11, <3>1, <3>3, FaultType DEF SettlePersist
  <2>2. Notify(a) /\ Release(a)
    BY <1>11 DEF SettlePersist
  <2> QED
    BY <1>11, <2>1, <2>2, NotifyType, ReleaseType DEF TypeOK, PCs, SettlePersist, worldVars, pollVars
<1>12. CASE SweepLoad
  BY <1>12, LimitedSubset DEF TypeOK, SweepLoad, worldVars, archiveVars
<1>13. ASSUME NEW t \in Tasks, SweepTask(t) PROVE TypeOK'
  <2> DEFINE h == [task |-> t, from |-> mem[t].status,
                   row |-> [mem[t] EXCEPT !.status = "FAILURE", !.full = TRUE],
                   act |-> IF t \in Legacy \/ mem[t].quota = 0 THEN "notify" ELSE "refund"]
  <2>1. [mem[t] EXCEPT !.status = "FAILURE", !.full = TRUE] \in Rows
    BY RowUpdate DEF TypeOK, Statuses, Final
  <2>2. h \in Hands
    BY <2>1, HandRecord DEF TypeOK, Rows
  <2>3. Take(Poller, h, "write")
    BY <1>13 DEF SweepTask
  <2> HIDE DEF h
  <2> QED
    BY <1>13, <2>2, <2>3, TakeType DEF TypeOK, PCs, SweepTask, worldVars, archiveVars
<1>14. CASE PollLoad
  BY <1>14, LimitedSubset DEF TypeOK, PollLoad, worldVars, archiveVars
<1>15. ASSUME NEW t \in Tasks, PollSkip(t) PROVE TypeOK'
  BY <1>15 DEF TypeOK, PollSkip, worldVars, archiveVars
<1>16. ASSUME NEW t \in Tasks, PollTask(t) PROVE TypeOK'
  <2>1. PICK s \in Statuses :
           /\ \/ Take(Poller, [task |-> t, from |-> mem[t].status, row |-> PolledRow(t, s),
                               act |-> PolledAct(t, s)], "write")
              \/ UNCHANGED <<pc, hand>>
           /\ Enqueue(t, TRUE) \/ UNCHANGED archiveVars
    <3>1. PICK ans \in Answers(t) \ {"ERROR"} :
             LET s == IF ans = "EMPTY" THEN "FAILURE" ELSE ans
                 row == PolledRow(t, s)
             IN  /\ \/ Take(Poller, [task |-> t, from |-> mem[t].status, row |-> row,
                                     act |-> PolledAct(t, s)], "write")
                    \/ row = mem[t] /\ UNCHANGED <<pc, hand>>
                 /\ IF s = "SUCCESS" /\ t \in Archivable
                    THEN Enqueue(t, TRUE) ELSE UNCHANGED archiveVars
      BY <1>16 DEF PollTask
    <3>2. (IF ans = "EMPTY" THEN "FAILURE" ELSE ans) \in Statuses
      BY DEF TypeOK, Answers, Statuses, Final
    <3> WITNESS (IF ans = "EMPTY" THEN "FAILURE" ELSE ans) \in Statuses
    <3> QED
      BY <3>1, <3>2
  <2>2. PolledRow(t, s) \in Rows
    <3>1. mem[t] \in Rows /\ mem[t].url \in {"none", "proxied", "r2", "fallback"}
      BY DEF TypeOK, Rows
    <3>2. "IN_PROGRESS" \in Statuses
      BY DEF Statuses, Running
    <3> QED
      <4>1. ArchivingRow(mem[t]) \in Rows
        BY <3>1, <3>2, RowUpdate DEF ArchivingRow
      <4>2. [mem[t] EXCEPT !.status = s, !.full = s \in Final,
                           !.url = IF s = "SUCCESS" THEN "proxied" ELSE @] \in Rows
        <5>1. (s \in Final) \in BOOLEAN
          OBVIOUS
        <5>2. (IF s = "SUCCESS" THEN "proxied" ELSE mem[t].url)
                \in {"none", "proxied", "r2", "fallback"}
          BY <3>1
        <5> QED
          BY <3>1, <5>1, <5>2, RowUpdate
      <4> QED
        BY <4>1, <4>2 DEF PolledRow
  <2>3. PolledAct(t, s) \in {"none", "settle", "refund", "notify"}
    BY DEF PolledAct
  <2>4. [task |-> t, from |-> mem[t].status, row |-> PolledRow(t, s),
         act |-> PolledAct(t, s)] \in Hands
    BY <2>2, <2>3, HandRecord DEF TypeOK, Rows
  <2>5. pc' \in [Actors -> PCs] /\ hand' \in [Actors -> Hands]
    <3>1. CASE UNCHANGED <<pc, hand>>
      BY <3>1 DEF TypeOK, PCs
    <3>2. CASE Take(Poller, [task |-> t, from |-> mem[t].status, row |-> PolledRow(t, s),
                             act |-> PolledAct(t, s)], "write")
      BY <3>2, <2>4, TakeType DEF PCs
    <3> QED
      BY <2>1, <3>1, <3>2
  <2>6. queue' \in Seq(Tasks) /\ inflight' \subseteq Tasks
    BY <2>1, EnqueueType DEF TypeOK, archiveVars
  <2> QED
    BY <1>16, <2>5, <2>6 DEF TypeOK, PCs, PollTask, worldVars
<1>17. ASSUME NEW t \in Tasks, PollChannelGone(t) PROVE TypeOK'
  <2>1. db' \in [Tasks -> Rows] /\ faults' \in 0..MaxFaults
    <3>1. [db[t] EXCEPT !.status = "FAILURE", !.full = TRUE] \in Rows
      BY RowUpdate DEF TypeOK, Statuses, Final
    <3>2. db' = [db EXCEPT ![t] = [db[t] EXCEPT !.status = "FAILURE", !.full = TRUE]]
          \/ UNCHANGED db
      BY <1>17 DEF PollChannelGone, TypeOK
    <3> QED
      BY <1>17, <3>1, <3>2, FaultType DEF TypeOK, PollChannelGone
  <2> QED
    BY <1>17, <2>1 DEF TypeOK, PollChannelGone, worldVars, archiveVars
<1>18. ASSUME NEW f \in Fetchers, NEW t \in Tasks, FetchLoad(f, t) PROVE TypeOK'
  <2> DEFINE h == [NoHand EXCEPT !.task = t, !.from = db[t].status, !.row = db[t]]
  <2>1. h \in Hands
    BY DEF TypeOK, Hands, Rows, NoHand
  <2>2. Take(f, h, "loaded")
    BY <1>18 DEF FetchLoad
  <2> HIDE DEF h
  <2> QED
    BY <1>18, <2>1, <2>2, TakeType DEF TypeOK, PCs, FetchLoad, worldVars, pollVars, archiveVars
<1>19. ASSUME NEW f \in Fetchers, FetchSkip(f) PROVE TypeOK'
  BY <1>19, TakeType DEF TypeOK, PCs, FetchSkip, worldVars, pollVars, archiveVars
<1>20. ASSUME NEW f \in Fetchers, FetchAnswer(f) PROVE TypeOK'
  <2>1. PICK s \in Statuses :
           /\ \/ Take(f, [hand[f] EXCEPT
                            !.row = FetchedRow(hand[f].task, hand[f].row, s),
                            !.act = FetchedAct(hand[f].row,
                                               FetchedRow(hand[f].task, hand[f].row, s))],
                      "write")
              \/ Take(f, NoHand, "idle")
           /\ Enqueue(hand[f].task, f \in OnMaster) \/ UNCHANGED archiveVars
    <3>1. PICK ans \in Answers(hand[f].task) \ {"ERROR"} :
             LET t == hand[f].task
                 old == hand[f].row
                 s == FetchedStatus(old, ans)
                 row == FetchedRow(t, old, s)
             IN  /\ \/ Take(f, [hand[f] EXCEPT !.row = row, !.act = FetchedAct(old, row)],
                            "write")
                    \/ row = old /\ Take(f, NoHand, "idle")
                 /\ IF s = "SUCCESS" /\ old.status # "SUCCESS" /\ t \in Archivable
                    THEN Enqueue(t, f \in OnMaster) ELSE UNCHANGED archiveVars
      BY <1>20 DEF FetchAnswer
    <3>2. FetchedStatus(hand[f].row, ans) \in Statuses
      <4>1. hand[f].task \in Tasks /\ hand[f].row.status \in Statuses
        BY HandTypes
      <4>2. upstream[hand[f].task] \in Statuses
        BY <4>1 DEF TypeOK, Statuses
      <4> QED
        BY <4>1, <4>2 DEF Answers, FetchedStatus
    <3> WITNESS FetchedStatus(hand[f].row, ans) \in Statuses
    <3> QED
      BY <3>1, <3>2
  <2> DEFINE row == FetchedRow(hand[f].task, hand[f].row, s)
             h == [hand[f] EXCEPT !.row = row, !.act = FetchedAct(hand[f].row, row)]
  <2>2. row \in Rows
    <3>1. hand[f].row \in Rows /\ hand[f].row.full \in BOOLEAN
      BY HandTypes DEF Rows
    <3>2. "IN_PROGRESS" \in Statuses
      BY DEF Statuses, Running
    <3> QED
      <4>1. ArchivingRow(hand[f].row) \in Rows
        BY <3>1, <3>2, RowUpdate DEF ArchivingRow
      <4>2. ASSUME NEW full \in BOOLEAN, NEW url \in {"none", "proxied", "r2", "fallback"}
            PROVE  [hand[f].row EXCEPT !.status = s, !.full = full, !.url = url] \in Rows
        BY <3>1, <3>2, RowUpdate
      <4>3. /\ (s \in Final) \in BOOLEAN
            /\ hand[f].row.full \in BOOLEAN
            /\ hand[f].row.url \in {"none", "proxied", "r2", "fallback"}
        BY <3>1 DEF Rows
      <4> QED
        BY <4>1, <4>2, <4>3 DEF FetchedRow
  <2>3. FetchedAct(hand[f].row, row) \in {"none", "settle", "refund", "notify"}
    BY DEF FetchedAct
  <2>4. h \in Hands
    <3> HIDE DEF row
    <3> QED
      BY <2>2, <2>3, HandTypes DEF Hands
  <2>5. pc' \in [Actors -> PCs] /\ hand' \in [Actors -> Hands]
    <3>1. Take(f, h, "write") \/ Take(f, NoHand, "idle")
      BY <2>1
    <3> HIDE DEF h
    <3> QED
      BY <3>1, <2>4, TakeType DEF PCs
  <2>6. queue' \in Seq(Tasks) /\ inflight' \subseteq Tasks
    <3>1. hand[f].task \in Tasks /\ (f \in OnMaster) \in BOOLEAN
      BY HandTypes
    <3>2. CASE Enqueue(hand[f].task, f \in OnMaster)
      BY <3>1, <3>2, EnqueueType
    <3>3. CASE UNCHANGED archiveVars
      BY <3>3 DEF TypeOK, archiveVars
    <3> QED
      BY <2>1, <3>2, <3>3
  <2> QED
    BY <1>20, <2>5, <2>6 DEF TypeOK, PCs, FetchAnswer, worldVars, pollVars
<1>21. ASSUME NEW w \in Workers, ArchiveTake(w) PROVE TypeOK'
  <2>1. Head(queue) \in Tasks /\ Tail(queue) \in Seq(Tasks)
    BY <1>21 DEF TypeOK, ArchiveTake
  <2>2. [NoHand EXCEPT !.task = Head(queue)] \in Hands
    BY <2>1 DEF Hands, NoHand
  <2>3. pc' \in [Actors -> PCs] /\ hand' \in [Actors -> Hands] /\ inflight' \subseteq Tasks
    BY <1>21, <2>2, TakeType DEF TypeOK, PCs, ArchiveTake
  <2> QED
    BY <1>21, <2>1, <2>3 DEF TypeOK, PCs, ArchiveTake, worldVars, pollVars
<1>22. ASSUME NEW w \in Workers, ArchiveReload(w) PROVE TypeOK'
  <2> DEFINE t == hand[w].task
             h(u) == [task |-> t, from |-> "IN_PROGRESS",
                      row |-> [db[t] EXCEPT !.status = "SUCCESS", !.full = TRUE, !.url = u],
                      act |-> "settle"]
  <2>1. ASSUME NEW u \in {"r2", "fallback"} PROVE h(u) \in Hands
    <3>1. [db[t] EXCEPT !.status = "SUCCESS", !.full = TRUE, !.url = u] \in Rows
      BY HandTypes, RowUpdate DEF TypeOK, Statuses, Final
    <3> QED
      BY <3>1, HandTypes, HandRecord DEF Statuses, Running
  <2>2. Release(w) \/ \E u \in {"r2", "fallback"} : Take(w, h(u), "write") /\ UNCHANGED inflight
    BY <1>22 DEF ArchiveReload
  <2>3. pc' \in [Actors -> PCs] /\ hand' \in [Actors -> Hands] /\ inflight' \subseteq Tasks
    <3> HIDE DEF h
    <3> QED
      BY <2>1, <2>2, ReleaseType, TakeType DEF TypeOK, PCs
  <2> QED
    BY <1>22, <2>3 DEF TypeOK, PCs, ArchiveReload, worldVars, pollVars
<1>23. CASE Crash
  BY <1>23, FaultType DEF TypeOK, Crash, worldVars
<1>25. ASSUME NEW w \in Workers, ArchiveFails(w) PROVE TypeOK'
  BY <1>25, ReleaseType, FaultType DEF TypeOK, PCs, ArchiveFails, worldVars, pollVars
<1>24. CASE UNCHANGED vars
  BY <1>24 DEF TypeOK, vars, pollVars
<1> QED
  BY <1>1, <1>2, <1>3, <1>4, <1>5, <1>6, <1>7, <1>8, <1>9, <1>10, <1>11, <1>12, <1>13,
     <1>14, <1>15, <1>16, <1>17, <1>18, <1>19, <1>20, <1>21, <1>22, <1>23, <1>24, <1>25
  DEF Next, World, PollerStep, FetchStep, ArchiveStep, WriteStep, BillStep

\* The variables keep their types (whatever the constants are).
THEOREM TypeCorrect == Spec => []TypeOK
BY TypeInit, TypeStep, PTL DEF Spec

----------------------------------------------------------------------------
(* The inductive invariant, for guarded tasks. *)

\* The rows the polling loop still has to handle were unfinished when loaded.
TodoFresh ==
    \A t \in todo : mem[t].status \in Running /\ (t \in Guarded => mem[t].quota = Pre[t])

\* The billing owed matches the status to be written; a failure without a
\* refund had nothing to refund, or is a legacy task that timed out.
ActFits(h) ==
    /\ h.row.status = "SUCCESS" <=> h.act = "settle"
    /\ h.act \in {"refund", "notify"} => h.row.status = "FAILURE"
    /\ h.row.status = "FAILURE" /\ h.act # "refund" =>
          Pre[h.task] = 0 \/ h.task \in Legacy

\* A copy that may still be written is conditional on a running status.
CopyFresh ==
    \A a \in Actors : hand[a].task \in Guarded =>
        /\ pc[a] \in {"loaded", "write"} =>
              hand[a].from \in Running /\ hand[a].row.quota = Pre[hand[a].task]
        /\ pc[a] = "loaded" => hand[a].row.status = hand[a].from
        /\ pc[a] = "write" => hand[a].row.status # "NONE" /\ ActFits(hand[a])

\* The money of a running task is untouched, and that of a final one has moved
\* at most once.
MoneyFits ==
    \A t \in Guarded :
        /\ t \notin submitted => db[t].status = "NONE"
        /\ db[t].status \in Running => paid[t] = Pre[t] /\ db[t].quota = Pre[t]
        /\ db[t].status = "FAILURE" => paid[t] \in {0, Pre[t]}
        /\ db[t].status = "SUCCESS" => paid[t] \in {Pre[t], Price(t)}
        /\ db[t].status = "SUCCESS" => db[t].quota \in {Pre[t], Price(t)}

\* Who owes the billing of a task won its final write and finds the charge of
\* the submission as it was, and the client not yet called.
OwerFits ==
    \A a \in Actors : hand[a].task \in Guarded /\ pc[a] \in {"bill", "persist"} =>
        /\ ActFits(hand[a]) /\ hand[a].act # "none"
        /\ hand[a].row.status = db[hand[a].task].status
        /\ hand[a].row.quota = Pre[hand[a].task]
        /\ called[hand[a].task] = 0
        /\ db[hand[a].task].quota = Pre[hand[a].task]
        /\ pc[a] = "bill" => paid[hand[a].task] = Pre[hand[a].task]
        /\ pc[a] = "persist" => /\ hand[a].act = "settle"
                                /\ Actual[hand[a].task] # 0
                                /\ paid[hand[a].task] = Actual[hand[a].task]

\* Nobody else owes it.
OneOwer ==
    \A a, b \in Actors :
        /\ pc[a] \in {"bill", "persist"} /\ pc[b] \in {"bill", "persist"}
        /\ hand[a].task = hand[b].task /\ hand[a].task \in Guarded
        => a = b

\* A client is called only once its task is final.
CallFits ==
    \A t \in Guarded : called[t] <= 1 /\ (db[t].status \notin Final => called[t] = 0)

IInv == TodoFresh /\ CopyFresh /\ MoneyFits /\ OwerFits /\ OneOwer /\ CallFits /\ BilledExactly

\* Guarded tasks are tasks.
LEMMA GuardedFacts == Guarded \subseteq Tasks
BY DEF Guarded

\* The invariant holds initially: nothing is loaded, in hand or owed.
LEMMA IInvInit == Init => IInv
<1> SUFFICES ASSUME Init PROVE IInv
  OBVIOUS
<1>1. TodoFresh /\ CopyFresh /\ OwerFits /\ OneOwer
  BY DEF Init, TodoFresh, CopyFresh, OwerFits, OneOwer
<1>2. MoneyFits /\ CallFits /\ BilledExactly
  BY GuardedFacts DEF Init, MoneyFits, CallFits, BilledExactly, NoRows, NoRow, Running, Final
<1> QED
  BY <1>1, <1>2 DEF IInv

Owes(a) == pc[a] \in {"bill", "persist"}

\* A step that moves no money, writes no row and neither gives nor takes a
\* debt keeps all that is said about money.
LEMMA QuietStep ==
    ASSUME TypeOK, IInv,
           UNCHANGED <<db, paid, called, submitted>>,
           faults' = 0 => faults = 0,
           \A a \in Actors : Owes(a) \/ Owes(a)' => pc'[a] = pc[a] /\ hand'[a] = hand[a]
    PROVE  MoneyFits' /\ OwerFits' /\ OneOwer' /\ CallFits' /\ BilledExactly'
<1>1. MoneyFits' /\ CallFits'
  BY DEF IInv, MoneyFits, CallFits, Price
<1>2. OwerFits'
  BY DEF IInv, OwerFits, ActFits, Owes
<1>3. OneOwer'
  BY DEF IInv, OneOwer, Owes
<1>4. ASSUME NEW t \in Tasks PROVE Owing(t)' = Owing(t)
  BY DEF Owing, Owes
<1>5. BilledExactly'
  BY <1>4, GuardedFacts DEF IInv, BilledExactly, Price, MayRefuse, Refunded, Settled
<1> QED
  BY <1>1, <1>2, <1>3, <1>5

\* A step of actor a alone keeps the copies of the others fresh.
LEMMA CopyFrame ==
    ASSUME TypeOK, IInv, NEW a \in Actors,
           \A b \in Actors \ {a} : pc'[b] = pc[b] /\ hand'[b] = hand[b],
           (hand'[a].task \in Guarded =>
              /\ pc'[a] \in {"loaded", "write"} =>
                    hand'[a].from \in Running /\ hand'[a].row.quota = Pre[hand'[a].task]
              /\ pc'[a] = "loaded" => hand'[a].row.status = hand'[a].from
              /\ pc'[a] = "write" => hand'[a].row.status # "NONE" /\ ActFits(hand'[a]))
    PROVE  CopyFresh'
BY DEF IInv, CopyFresh, ActFits

\* Taking and releasing change the actor's own state only.
LEMMA TakeFrame ==
    ASSUME TypeOK, NEW a \in Actors, NEW h, NEW p, Take(a, h, p)
    PROVE  /\ pc'[a] = p /\ hand'[a] = h
           /\ \A b \in Actors \ {a} : pc'[b] = pc[b] /\ hand'[b] = hand[b]
BY DEF Take, TypeOK

\* Releasing leaves an actor that owes nothing and holds no copy.
LEMMA ReleaseFrame ==
    ASSUME TypeOK, IInv, NEW a \in Actors, Release(a)
    PROVE  /\ pc'[a] = "idle"
           /\ \A b \in Actors \ {a} : pc'[b] = pc[b] /\ hand'[b] = hand[b]
           /\ CopyFresh'
<1>1. Take(a, NoHand, "idle")
  BY DEF Release
<1>2. /\ pc'[a] = "idle"
      /\ \A b \in Actors \ {a} : pc'[b] = pc[b] /\ hand'[b] = hand[b]
  BY <1>1, TakeFrame
<1> QED
  BY <1>2, CopyFrame

\* A step of the actor a that stays out of debt, writes nothing and moves no money.
LEMMA QuietActor ==
    ASSUME TypeOK, IInv, NEW a \in Actors,
           UNCHANGED <<db, paid, called, submitted>>,
           faults' = 0 => faults = 0,
           ~Owes(a), pc'[a] \notin {"bill", "persist"},
           \A b \in Actors \ {a} : pc'[b] = pc[b] /\ hand'[b] = hand[b]
    PROVE  MoneyFits' /\ OwerFits' /\ OneOwer' /\ CallFits' /\ BilledExactly'
<1>1. \A b \in Actors : Owes(b) \/ Owes(b)' => pc'[b] = pc[b] /\ hand'[b] = hand[b]
  BY DEF Owes
<1> QED
  BY <1>1, QuietStep

\* The steps that load, fetch, skip or lose keep the invariant.
LEMMA LoadSteps ==
    ASSUME TypeOK, IInv,
           \/ SweepLoad \/ PollLoad
           \/ \E t \in Tasks : \/ UpstreamProgress(t) \/ MissDeadline(t)
                               \/ DeleteChannel(t) \/ PollSkip(t)
    PROVE  IInv'
<1>1. /\ UNCHANGED <<db, paid, called, submitted, pc, hand, faults>>
  BY DEF SweepLoad, PollLoad, UpstreamProgress, MissDeadline, DeleteChannel, PollSkip
<1>2. MoneyFits' /\ OwerFits' /\ OneOwer' /\ CallFits' /\ BilledExactly'
  BY <1>1, QuietStep
<1>3. CopyFresh'
  BY <1>1 DEF IInv, CopyFresh, ActFits
<1>4. TodoFresh'
  <2>1. CASE SweepLoad \/ PollLoad
    <3>1. mem' = db /\ \A t \in todo' : t \in Tasks /\ Unfinished(db[t])
      BY <2>1, LimitedSubset DEF SweepLoad, PollLoad, TypeOK
    <3> QED
      BY <3>1 DEF TodoFresh, Unfinished, IInv, MoneyFits
  <2>2. CASE ~(SweepLoad \/ PollLoad)
    <3>1. mem' = mem /\ todo' \subseteq todo
      BY <2>2 DEF UpstreamProgress, MissDeadline, DeleteChannel, PollSkip, pollVars
    <3> QED
      BY <3>1 DEF TodoFresh, IInv
  <2> QED
    BY <2>1, <2>2
<1> QED
  BY <1>2, <1>3, <1>4 DEF IInv

\* The copy made by the sweep is conditional on the running status it loaded.
LEMMA SweepTaskStep == ASSUME TypeOK, IInv, NEW t \in Tasks, SweepTask(t) PROVE IInv'
<1> USE ActorFacts
<1> DEFINE h == [task |-> t, from |-> mem[t].status,
                 row |-> [mem[t] EXCEPT !.status = "FAILURE", !.full = TRUE],
                 act |-> IF t \in Legacy \/ mem[t].quota = 0 THEN "notify" ELSE "refund"]
<1>1. Take(Poller, h, "write")
  BY DEF SweepTask
<1>2. /\ pc'[Poller] = "write" /\ hand'[Poller] = h
      /\ \A b \in Actors \ {Poller} : pc'[b] = pc[b] /\ hand'[b] = hand[b]
  <2> HIDE DEF h
  <2> QED
    BY <1>1, TakeFrame
<1>3. MoneyFits' /\ OwerFits' /\ OneOwer' /\ CallFits' /\ BilledExactly'
  <2>1. UNCHANGED <<db, paid, called, submitted, faults>> /\ pc[Poller] = "idle"
    BY DEF SweepTask, PollerFree
  <2> QED
    BY <1>2, <2>1, QuietActor DEF Owes
<1>4. TodoFresh'
  BY DEF SweepTask, TodoFresh, IInv
<1>5. CopyFresh'
  <2>1. mem[t] \in Rows /\ mem[t].status \in Running /\ (t \in Guarded => mem[t].quota = Pre[t])
    BY DEF SweepTask, TodoFresh, IInv, TypeOK
  <2>2. /\ h.row.status = "FAILURE" /\ h.row.quota = mem[t].quota
        /\ h.task = t /\ h.from = mem[t].status
        /\ h.act = IF t \in Legacy \/ mem[t].quota = 0 THEN "notify" ELSE "refund"
    BY <2>1 DEF Rows
  <2>3. t \in Guarded => ActFits(h)
    BY <2>1, <2>2 DEF ActFits
  <2> HIDE DEF h
  <2> QED
    BY <1>2, <2>1, <2>2, <2>3, CopyFrame
<1> QED
  BY <1>3, <1>4, <1>5 DEF IInv

\* So is the copy made from a polled answer; nothing is owed before the write.
LEMMA PollTaskStep == ASSUME TypeOK, IInv, NEW t \in Tasks, PollTask(t) PROVE IInv'
<1> USE ActorFacts
<1>1. PICK s \in Statuses \ {"NONE", "NOT_START"} :
           \/ Take(Poller, [task |-> t, from |-> mem[t].status, row |-> PolledRow(t, s),
                            act |-> PolledAct(t, s)], "write")
           \/ UNCHANGED <<pc, hand>>
  <2>1. PICK ans \in Answers(t) \ {"ERROR"} :
           LET s == IF ans = "EMPTY" THEN "FAILURE" ELSE ans
           IN  \/ Take(Poller, [task |-> t, from |-> mem[t].status, row |-> PolledRow(t, s),
                                act |-> PolledAct(t, s)], "write")
               \/ UNCHANGED <<pc, hand>>
    BY DEF PollTask
  <2>2. (IF ans = "EMPTY" THEN "FAILURE" ELSE ans) \in Statuses \ {"NONE", "NOT_START"}
    BY DEF TypeOK, Answers, Statuses, Final, Running
  <2> WITNESS (IF ans = "EMPTY" THEN "FAILURE" ELSE ans) \in Statuses \ {"NONE", "NOT_START"}
  <2> QED
    BY <2>1, <2>2
<1> DEFINE h == [task |-> t, from |-> mem[t].status, row |-> PolledRow(t, s),
                 act |-> PolledAct(t, s)]
<1>2. \/ /\ pc'[Poller] = "write" /\ hand'[Poller] = h
         /\ \A b \in Actors \ {Poller} : pc'[b] = pc[b] /\ hand'[b] = hand[b]
      \/ UNCHANGED <<pc, hand>>
  <2>1. Take(Poller, h, "write") \/ UNCHANGED <<pc, hand>>
    BY <1>1
  <2> HIDE DEF h
  <2> QED
    BY <2>1, TakeFrame
<1>3. MoneyFits' /\ OwerFits' /\ OneOwer' /\ CallFits' /\ BilledExactly'
  <2>1. UNCHANGED <<db, paid, called, submitted, faults>> /\ pc[Poller] = "idle"
    BY DEF PollTask, PollerFree
  <2> HIDE DEF h
  <2> QED
    BY <1>2, <2>1, QuietActor DEF Owes
<1>4. TodoFresh'
  BY DEF PollTask, TodoFresh, IInv
<1>5. CopyFresh'
  <2>1. mem[t] \in Rows /\ mem[t].status \in Running /\ (t \in Guarded => mem[t].quota = Pre[t])
    BY DEF PollTask, TodoFresh, IInv, TypeOK
  <2>2. /\ PolledRow(t, s).status = IF s = "SUCCESS" /\ t \in Archivable THEN "IN_PROGRESS" ELSE s
        /\ PolledRow(t, s).quota = mem[t].quota
    BY <2>1 DEF Rows, PolledRow, ArchivingRow
  <2>3. /\ h.row = PolledRow(t, s) /\ h.act = PolledAct(t, s)
        /\ h.task = t /\ h.from = mem[t].status
    OBVIOUS
  <2> HIDE DEF h
  <2>4. t \in Guarded => ActFits(h)
    BY <2>1, <2>2, <2>3 DEF ActFits, PolledAct
  <2>5. h.row.status # "NONE"
    BY <2>2, <2>3
  <2>6. CASE UNCHANGED <<pc, hand>>
    BY <2>6 DEF IInv, CopyFresh, ActFits
  <2>7. CASE ~UNCHANGED <<pc, hand>>
    BY <1>2, <2>7, <2>1, <2>2, <2>3, <2>4, <2>5, CopyFrame
  <2> QED
    BY <2>6, <2>7
<1> QED
  BY <1>3, <1>4, <1>5 DEF IInv

\* A realtime fetch of a guarded task starts from a running row only.
LEMMA FetchLoadStep ==
    ASSUME TypeOK, IInv, NEW f \in Fetchers, NEW t \in Tasks, FetchLoad(f, t) PROVE IInv'
<1> USE ActorFacts
<1> DEFINE h == [NoHand EXCEPT !.task = t, !.from = db[t].status, !.row = db[t]]
<1>1. Take(f, h, "loaded")
  BY DEF FetchLoad
<1>2. h.task = t /\ h.from = db[t].status /\ h.row = db[t]
  BY DEF NoHand
<1> HIDE DEF h
<1>3. /\ pc'[f] = "loaded" /\ hand'[f] = h
      /\ \A b \in Actors \ {f} : pc'[b] = pc[b] /\ hand'[b] = hand[b]
  BY <1>1, TakeFrame
<1>4. MoneyFits' /\ OwerFits' /\ OneOwer' /\ CallFits' /\ BilledExactly'
  <2>1. UNCHANGED <<db, paid, called, submitted, faults>> /\ pc[f] = "idle"
    BY DEF FetchLoad
  <2> QED
    BY <1>3, <2>1, QuietActor DEF Owes
<1>5. TodoFresh'
  BY DEF FetchLoad, TodoFresh, IInv, pollVars
<1>6. CopyFresh'
  <2>1. t \in Guarded => db[t].status \in Running
    BY DEF FetchLoad, AnsweredFromRow, Guarded, TypeOK, Rows, Statuses
  <2>2. t \in Guarded => db[t].quota = Pre[t]
    BY <2>1 DEF IInv, MoneyFits
  <2> QED
    BY <1>2, <1>3, <2>1, <2>2, CopyFrame
<1> QED
  BY <1>4, <1>5, <1>6 DEF IInv

\* Its answer is applied to that copy, or dropped.
LEMMA FetchAnswerStep ==
    ASSUME TypeOK, IInv, NEW f \in Fetchers, FetchSkip(f) \/ FetchAnswer(f) PROVE IInv'
<1> USE ActorFacts
<1> DEFINE t == hand[f].task
           old == hand[f].row
           h(s) == [hand[f] EXCEPT !.row = FetchedRow(t, old, s),
                                   !.act = FetchedAct(old, FetchedRow(t, old, s))]
<1>1. \/ Take(f, NoHand, "idle")
      \/ \E s \in Statuses : (s = "NONE" => old.status = "NONE") /\ Take(f, h(s), "write")
  <2>1. CASE FetchSkip(f)
    BY <2>1 DEF FetchSkip
  <2>2. CASE FetchAnswer(f)
    <3>1. PICK ans \in Answers(t) \ {"ERROR"} :
             \/ Take(f, NoHand, "idle")
             \/ Take(f, h(FetchedStatus(old, ans)), "write")
      BY <2>2 DEF FetchAnswer
    <3>2. t \in Tasks /\ old.status \in Statuses
      BY HandTypes
    <3>3. upstream[t] \in Statuses \ {"NONE"}
      BY <3>2 DEF TypeOK, Statuses, Running, Final
    <3> DEFINE s == FetchedStatus(old, ans)
    <3>4. s \in Statuses /\ (s = "NONE" => old.status = "NONE")
      <4> HIDE DEF old, t
      <4> QED
        BY <3>2, <3>3 DEF Answers, FetchedStatus
    <3>5. Take(f, NoHand, "idle") \/ Take(f, h(s), "write")
      BY <3>1
    <3> HIDE DEF s, h, old
    <3> QED
      BY <3>4, <3>5
  <2> QED
    BY <2>1, <2>2
<1>2. PICK hh : Take(f, NoHand, "idle") \/
                (\E s \in Statuses : (s = "NONE" => old.status = "NONE") /\ hh = h(s) /\ Take(f, hh, "write"))
  BY <1>1
<1>3. /\ pc'[f] \in {"idle", "write"}
      /\ pc'[f] = "write" => \E s \in Statuses : (s = "NONE" => old.status = "NONE") /\ hand'[f] = h(s)
      /\ \A b \in Actors \ {f} : pc'[b] = pc[b] /\ hand'[b] = hand[b]
  <2> HIDE DEF h, old
  <2> QED
    BY <1>2, TakeFrame
<1>4. MoneyFits' /\ OwerFits' /\ OneOwer' /\ CallFits' /\ BilledExactly'
  <2>1. UNCHANGED <<db, paid, called, submitted, faults>> /\ pc[f] = "loaded"
    BY DEF FetchSkip, FetchAnswer
  <2> HIDE DEF h, old
  <2> QED
    BY <1>3, <2>1, QuietActor DEF Owes
<1>5. TodoFresh'
  BY DEF FetchSkip, FetchAnswer, TodoFresh, IInv, pollVars
<1>6. CopyFresh'
  <2>1. /\ old \in Rows /\ t \in Tasks /\ hand[f] \in Hands
        /\ t \in Guarded => /\ old.status = hand[f].from /\ hand[f].from \in Running
                            /\ old.quota = Pre[t]
    <3>1. pc[f] = "loaded"
      BY DEF FetchSkip, FetchAnswer
    <3> QED
      BY <3>1, HandTypes DEF IInv, CopyFresh
  <2>2. ASSUME NEW s \in Statuses, s = "NONE" => old.status = "NONE", t \in Guarded
        PROVE  /\ h(s).task = t /\ h(s).from \in Running /\ h(s).row.quota = Pre[t]
               /\ h(s).row.status # "NONE" /\ ActFits(h(s))
    <3>1. /\ FetchedRow(t, old, s).quota = old.quota
          /\ FetchedRow(t, old, s).status =
                IF s = "SUCCESS" /\ old.status # "SUCCESS" /\ t \in Archivable
                THEN "IN_PROGRESS" ELSE s
      <4> HIDE DEF old, t
      <4> QED
        BY <2>1 DEF Rows, FetchedRow, ArchivingRow
    <3>2. /\ h(s).row = FetchedRow(t, old, s)
          /\ h(s).act = FetchedAct(old, FetchedRow(t, old, s))
          /\ h(s).task = t /\ h(s).from = hand[f].from
      BY <2>1 DEF Hands
    <3> HIDE DEF h, old, t
    <3>3. old.status \in Running /\ old.status # "NONE"
      BY <2>1, <2>2 DEF Running
    <3>4. ActFits(h(s))
      BY <3>1, <3>2, <3>3 DEF ActFits, FetchedAct, Running
    <3> QED
      BY <2>1, <2>2, <3>1, <3>2, <3>3, <3>4
  <2>3. pc'[f] = "write" => hand'[f].task = t
    <3>1. ASSUME NEW s PROVE h(s).task = t
      BY <2>1 DEF Hands
    <3> QED
      BY <1>3, <3>1
  <2> HIDE DEF h, old, t
  <2> QED
    BY <1>3, <2>2, <2>3, CopyFrame
<1> QED
  BY <1>4, <1>5, <1>6 DEF IInv

\* A worker that takes a job holds no copy yet.
LEMMA ArchiveTakeStep ==
    ASSUME TypeOK, IInv, NEW w \in Workers, ArchiveTake(w) PROVE IInv'
<1> USE ActorFacts
<1>1. /\ pc'[w] \in {"idle", "archiving"}
      /\ \A b \in Actors \ {w} : pc'[b] = pc[b] /\ hand'[b] = hand[b]
  <2>1. Take(w, [NoHand EXCEPT !.task = Head(queue)], "archiving")
        \/ (UNCHANGED <<pc, hand>> /\ pc[w] = "idle")
    BY DEF ArchiveTake
  <2> QED
    BY <2>1, TakeFrame
<1>2. MoneyFits' /\ OwerFits' /\ OneOwer' /\ CallFits' /\ BilledExactly'
  <2>1. UNCHANGED <<db, paid, called, submitted, faults>> /\ pc[w] = "idle"
    BY DEF ArchiveTake
  <2> QED
    BY <1>1, <2>1, QuietActor DEF Owes
<1>3. TodoFresh'
  BY DEF ArchiveTake, TodoFresh, IInv, pollVars
<1>4. CopyFresh'
  BY <1>1, CopyFrame
<1> QED
  BY <1>2, <1>3, <1>4 DEF IInv

\* Its final copy is made from a running row and owes a settlement.
LEMMA ArchiveReloadStep ==
    ASSUME TypeOK, IInv, NEW w \in Workers, ArchiveReload(w) PROVE IInv'
<1> USE ActorFacts
<1> DEFINE t == hand[w].task
           h(u) == [task |-> t, from |-> "IN_PROGRESS",
                    row |-> [db[t] EXCEPT !.status = "SUCCESS", !.full = TRUE, !.url = u],
                    act |-> "settle"]
<1>1. \/ Release(w)
      \/ db[t].status \in Running /\ \E u \in {"r2", "fallback"} : Take(w, h(u), "write")
  BY DEF ArchiveReload
<1>2. TodoFresh' /\ UNCHANGED <<db, paid, called, submitted, faults>> /\ pc[w] = "archiving"
  BY DEF ArchiveReload, TodoFresh, IInv, pollVars
<1>3. CASE Release(w)
  <2>1. /\ pc'[w] = "idle" /\ CopyFresh'
        /\ \A b \in Actors \ {w} : pc'[b] = pc[b] /\ hand'[b] = hand[b]
    BY <1>3, ReleaseFrame
  <2>2. MoneyFits' /\ OwerFits' /\ OneOwer' /\ CallFits' /\ BilledExactly'
    BY <1>2, <2>1, QuietActor DEF Owes
  <2> QED
    BY <1>2, <2>1, <2>2 DEF IInv
<1>4. ASSUME db[t].status \in Running, NEW u \in {"r2", "fallback"}, Take(w, h(u), "write")
      PROVE  IInv'
  <2>1. /\ t \in Tasks /\ db[t] \in Rows
        /\ t \in Guarded => db[t].quota = Pre[t]
    BY <1>4, HandTypes DEF IInv, MoneyFits, TypeOK
  <2>2. /\ h(u).task = t /\ h(u).from = "IN_PROGRESS" /\ h(u).act = "settle"
        /\ h(u).row.status = "SUCCESS" /\ h(u).row.quota = db[t].quota
    BY <2>1 DEF Rows
  <2> HIDE DEF h, t
  <2>3. ActFits(h(u)) /\ h(u).from \in Running
    BY <2>2 DEF ActFits, Running
  <2>4. /\ pc'[w] = "write" /\ hand'[w] = h(u)
        /\ \A b \in Actors \ {w} : pc'[b] = pc[b] /\ hand'[b] = hand[b]
    BY <1>4, TakeFrame
  <2>5. MoneyFits' /\ OwerFits' /\ OneOwer' /\ CallFits' /\ BilledExactly'
    BY <1>2, <2>4, QuietActor DEF Owes
  <2>6. CopyFresh'
    BY <2>1, <2>2, <2>3, <2>4, CopyFrame
  <2> QED
    BY <1>2, <2>5, <2>6 DEF IInv
<1> QED
  BY <1>1, <1>3, <1>4

\* A job that ends on a failed load held no copy.
LEMMA ArchiveFailsStep ==
    ASSUME TypeOK, IInv, NEW w \in Workers, ArchiveFails(w) PROVE IInv'
<1> USE ActorFacts
<1>1. /\ UNCHANGED <<db, paid, called, submitted>> /\ pc[w] = "archiving" /\ Release(w)
      /\ faults' = 0 => faults = 0
  <2>1. faults \in Nat
    BY BoundsAssumption DEF TypeOK
  <2> QED
    BY <2>1 DEF ArchiveFails, Fault
<1>2. TodoFresh'
  BY DEF ArchiveFails, TodoFresh, IInv, pollVars
<1>3. /\ pc'[w] = "idle" /\ CopyFresh'
      /\ \A b \in Actors \ {w} : pc'[b] = pc[b] /\ hand'[b] = hand[b]
  BY <1>1, ReleaseFrame
<1>4. MoneyFits' /\ OwerFits' /\ OneOwer' /\ CallFits' /\ BilledExactly'
  BY <1>1, <1>3, QuietActor DEF Owes
<1> QED
  BY <1>2, <1>3, <1>4 DEF IInv

\* A lost write drops the copy and the billing that went with it.
LEMMA WriteLosesStep == ASSUME TypeOK, IInv, NEW a \in Actors, WriteLoses(a) PROVE IInv'
<1>1. /\ UNCHANGED <<db, paid, called, submitted>> /\ pc[a] = "write" /\ Release(a)
      /\ faults' = 0 => faults = 0
  <2>1. faults \in Nat
    BY BoundsAssumption DEF TypeOK
  <2> QED
    BY <2>1 DEF WriteLoses, Fault
<1>2. TodoFresh'
  BY DEF WriteLoses, TodoFresh, IInv, pollVars
<1>3. /\ pc'[a] = "idle" /\ CopyFresh'
      /\ \A b \in Actors \ {a} : pc'[b] = pc[b] /\ hand'[b] = hand[b]
  BY <1>1, ReleaseFrame
<1>4. MoneyFits' /\ OwerFits' /\ OneOwer' /\ CallFits' /\ BilledExactly'
  BY <1>1, <1>3, QuietActor DEF Owes
<1> QED
  BY <1>2, <1>3, <1>4 DEF IInv

\* The heart of the argument: a copy wins only over a running row, which nobody
\* owes anything for, so the winner becomes its only ower.
LEMMA WriteWinsStep == ASSUME TypeOK, IInv, NEW a \in Actors, WriteWins(a) PROVE IInv'
<1> DEFINE h == hand[a]
           t == h.task
<1>1. /\ pc[a] = "write" /\ db[t].status = h.from
      /\ db' = [db EXCEPT ![t] = h.row]
      /\ UNCHANGED <<paid, called, submitted, faults>>
  BY DEF WriteWins, StatusUnchanged
<1>2. t \in Tasks /\ h.row \in Rows /\ h \in Hands
  BY HandTypes
<1>3. db'[t] = h.row /\ \A u \in Tasks \ {t} : db'[u] = db[u]
  BY <1>1, <1>2 DEF TypeOK
<1>4. /\ \A b \in Actors \ {a} : pc'[b] = pc[b] /\ hand'[b] = hand[b]
      /\ pc'[a] \in {"idle", "bill"}
      /\ pc'[a] = "bill" <=> h.act # "none"
      /\ pc'[a] = "bill" => hand'[a] = h
  <2>1. CASE h.act = "none"
    <3>1. Release(a)
      BY <2>1 DEF WriteWins
    <3> QED
      BY <2>1, <3>1, ReleaseFrame
  <2>2. CASE h.act # "none"
    BY <2>2 DEF WriteWins, TypeOK
  <2> QED
    BY <2>1, <2>2
<1>5. t \in Guarded =>
        /\ h.from \in Running /\ h.row.quota = Pre[t] /\ h.row.status # "NONE" /\ ActFits(h)
        /\ paid[t] = Pre[t] /\ called[t] = 0
  <2>1. t \in Guarded => /\ h.from \in Running /\ h.row.quota = Pre[t]
                         /\ h.row.status # "NONE" /\ ActFits(h)
    BY <1>1 DEF IInv, CopyFresh
  <2>2. t \in Guarded => db[t].status \in Running /\ db[t].status \notin Final
    BY <1>1, <2>1 DEF Running, Final
  <2> QED
    BY <2>1, <2>2 DEF IInv, MoneyFits, CallFits
<1> HIDE DEF h, t
<1>6. t \in Guarded => \A b \in Actors : Owes(b) => hand[b].task # t
  <2> SUFFICES ASSUME t \in Guarded, NEW b \in Actors, Owes(b), hand[b].task = t PROVE FALSE
    OBVIOUS
  <2>1. ActFits(hand[b]) /\ hand[b].act # "none" /\ hand[b].row.status = db[t].status
    BY DEF IInv, OwerFits, Owes
  <2>2. hand[b].act \in {"settle", "refund", "notify"}
    BY <2>1 DEF TypeOK, Hands
  <2>3. db[t].status \in {"SUCCESS", "FAILURE"}
    BY <2>1, <2>2 DEF ActFits
  <2> QED
    BY <2>3, <1>1, <1>5 DEF Running
<1>7. TodoFresh'
  BY DEF WriteWins, TodoFresh, IInv, pollVars
<1>8. CopyFresh'
  BY <1>4, CopyFrame
<1>9. MoneyFits'
  <2> SUFFICES ASSUME NEW u \in Guarded
        PROVE  /\ u \notin submitted => db'[u].status = "NONE"
               /\ db'[u].status \in Running => paid[u] = Pre[u] /\ db'[u].quota = Pre[u]
               /\ db'[u].status = "FAILURE" => paid[u] \in {0, Pre[u]}
               /\ db'[u].status = "SUCCESS" => paid[u] \in {Pre[u], Price(u)}
               /\ db'[u].status = "SUCCESS" => db'[u].quota \in {Pre[u], Price(u)}
    BY <1>1 DEF MoneyFits, Price
  <2>1. CASE u = t
    <3>1. t \in submitted
      BY <2>1, <1>1, <1>5 DEF IInv, MoneyFits, Running
    <3> QED
      BY <2>1, <1>3, <1>5, <3>1
  <2>2. CASE u # t
    BY <2>2, <1>3, GuardedFacts DEF IInv, MoneyFits
  <2> QED
    BY <2>1, <2>2
<1>10. OwerFits'
  <2> SUFFICES ASSUME NEW b \in Actors, hand'[b].task \in Guarded, pc'[b] \in {"bill", "persist"}
        PROVE  /\ ActFits(hand'[b]) /\ hand'[b].act # "none"
               /\ hand'[b].row.status = db'[hand'[b].task].status
               /\ hand'[b].row.quota = Pre[hand'[b].task]
               /\ called[hand'[b].task] = 0
               /\ db'[hand'[b].task].quota = Pre[hand'[b].task]
               /\ pc'[b] = "bill" => paid[hand'[b].task] = Pre[hand'[b].task]
               /\ pc'[b] = "persist" => /\ hand'[b].act = "settle"
                                        /\ Actual[hand'[b].task] # 0
                                        /\ paid[hand'[b].task] = Actual[hand'[b].task]
    BY <1>1 DEF OwerFits, ActFits
  <2>1. CASE b = a
    <3>1. pc'[b] = "bill" /\ hand'[b] = h /\ h.act # "none"
      BY <2>1, <1>4
    <3>2. h.task = t
      BY DEF t
    <3> QED
      BY <3>1, <3>2, <1>3, <1>5
  <2>2. CASE b # a
    <3>1. pc'[b] = pc[b] /\ hand'[b] = hand[b] /\ hand[b].task \in Guarded /\ Owes(b)
      BY <2>2, <1>4 DEF Owes
    <3>2. hand[b].task # t /\ db'[hand[b].task] = db[hand[b].task]
      BY <3>1, <1>3, <1>6, GuardedFacts
    <3> QED
      BY <3>1, <3>2 DEF IInv, OwerFits, Owes
  <2> QED
    BY <2>1, <2>2
<1>11. OneOwer'
  <2> SUFFICES ASSUME NEW b \in Actors, NEW c \in Actors, Owes(b)', Owes(c)',
                      hand'[b].task = hand'[c].task, hand'[b].task \in Guarded
        PROVE  b = c
    BY DEF OneOwer, Owes
  <2>1. ASSUME NEW d \in Actors, d # a, Owes(d)', hand'[d].task \in Guarded
        PROVE  Owes(d) /\ hand'[d] = hand[d] /\ hand[d].task # t
    BY <2>1, <1>4, <1>6 DEF Owes
  <2>2. Owes(a)' => hand'[a].task = t
    BY <1>4 DEF Owes, t, h
  <2> QED
    BY <2>1, <2>2 DEF IInv, OneOwer, Owes
<1>12. CallFits'
  BY <1>1, <1>3, <1>5, GuardedFacts DEF IInv, CallFits
<1>13. BilledExactly'
  <2> SUFFICES ASSUME faults = 0, NEW u \in Guarded \ Legacy, Owing(u)' = {}
        PROVE  /\ db'[u].status = "FAILURE" => Refunded(u, paid[u])
               /\ db'[u].status = "SUCCESS" => paid[u] = db'[u].quota /\ Settled(u, paid[u])
    BY <1>1 DEF BilledExactly, Price, MayRefuse, Refunded, Settled
  <2>1. CASE u = t
    <3>1. pc'[a] # "bill"
      BY <2>1, <1>4 DEF Owing, t, h
    <3>2. h.act = "none"
      BY <3>1, <1>4
    <3>3. h.task = t
      BY DEF t
    <3> QED
      BY <2>1, <1>3, <1>5, <3>2, <3>3 DEF ActFits, Refunded
  <2>2. CASE u # t
    <3>1. \A b \in Actors : Owes(b) /\ hand[b].task = u => b # a
      BY <1>1 DEF Owes
    <3>2. Owing(u) = {}
      BY <3>1, <1>4 DEF Owing, Owes
    <3> QED
      BY <2>2, <3>2, <1>3, GuardedFacts DEF IInv, BilledExactly
  <2> QED
    BY <2>1, <2>2
<1> QED
  BY <1>7, <1>8, <1>9, <1>10, <1>11, <1>12, <1>13 DEF IInv

\* The end of a billing: the ower of t leaves, having moved the money of t in
\* a way that fits the status of t.
LEMMA BillDone ==
    ASSUME TypeOK, IInv, NEW a \in Actors, Owes(a), Release(a), Notify(a),
           UNCHANGED <<submitted, pollVars>>,
           faults' = 0 => faults = 0,
           \A u \in Tasks \ {hand[a].task} : db'[u] = db[u] /\ paid'[u] = paid[u],
           hand[a].task \in Guarded =>
             /\ db'[hand[a].task].status = db[hand[a].task].status
             /\ db[hand[a].task].status = "FAILURE" =>
                   /\ paid'[hand[a].task] \in {0, Pre[hand[a].task]}
                   /\ faults' = 0 /\ hand[a].task \notin Legacy =>
                         Refunded(hand[a].task, paid'[hand[a].task])
             /\ db[hand[a].task].status = "SUCCESS" =>
                   /\ paid'[hand[a].task] \in {Pre[hand[a].task], Price(hand[a].task)}
                   /\ db'[hand[a].task].quota \in {Pre[hand[a].task], Price(hand[a].task)}
                   /\ faults' = 0 => /\ paid'[hand[a].task] = db'[hand[a].task].quota
                                     /\ Settled(hand[a].task, paid'[hand[a].task])
    PROVE  IInv'
<1> DEFINE t == hand[a].task
<1>1. /\ pc'[a] = "idle" /\ CopyFresh'
      /\ \A b \in Actors \ {a} : pc'[b] = pc[b] /\ hand'[b] = hand[b]
  BY ReleaseFrame
<1>2. t \in Tasks /\ hand[a] \in Hands
  BY HandTypes
<1>3. t \in Guarded => /\ db[t].status \in Final /\ called[t] = 0
                       /\ hand[a].row.status = db[t].status
  <2>1. t \in Guarded => /\ ActFits(hand[a]) /\ hand[a].act # "none" /\ called[t] = 0
                         /\ hand[a].row.status = db[t].status
    BY DEF IInv, OwerFits, Owes
  <2>2. hand[a].act \in {"none", "settle", "refund", "notify"}
    BY <1>2 DEF Hands
  <2> QED
    BY <2>1, <2>2 DEF ActFits, Final
<1>4. \A b \in Actors \ {a} : Owes(b) /\ hand[b].task \in Guarded => hand[b].task # t
  BY DEF IInv, OneOwer, Owes
<1>5. \A u \in Tasks \ {t} : called'[u] = called[u]
  BY <1>2 DEF Notify, TypeOK
<1>6. t \in Guarded => called'[t] <= 1
  <2>1. t \in Guarded => called'[t] = 0 \/ called'[t] = 0 + 1
    BY <1>2, <1>3 DEF Notify, TypeOK
  <2> QED
    BY <2>1
<1>7. TodoFresh'
  BY DEF TodoFresh, IInv, pollVars
<1>8. MoneyFits'
  <2> SUFFICES ASSUME NEW u \in Guarded
        PROVE  /\ u \notin submitted => db'[u].status = "NONE"
               /\ db'[u].status \in Running => paid'[u] = Pre[u] /\ db'[u].quota = Pre[u]
               /\ db'[u].status = "FAILURE" => paid'[u] \in {0, Pre[u]}
               /\ db'[u].status = "SUCCESS" => paid'[u] \in {Pre[u], Price(u)}
               /\ db'[u].status = "SUCCESS" => db'[u].quota \in {Pre[u], Price(u)}
    BY DEF MoneyFits, Price
  <2>1. CASE u = t
    <3>1. db'[t].status = db[t].status /\ db[t].status \notin Running /\ t \in submitted
      BY <2>1, <1>3 DEF IInv, MoneyFits, Final, Running
    <3> QED
      BY <2>1, <3>1
  <2>2. CASE u # t
    BY <2>2, GuardedFacts DEF IInv, MoneyFits
  <2> QED
    BY <2>1, <2>2
<1>9. OwerFits'
  <2> SUFFICES ASSUME NEW b \in Actors, hand'[b].task \in Guarded, pc'[b] \in {"bill", "persist"}
        PROVE  /\ ActFits(hand'[b]) /\ hand'[b].act # "none"
               /\ hand'[b].row.status = db'[hand'[b].task].status
               /\ hand'[b].row.quota = Pre[hand'[b].task]
               /\ called'[hand'[b].task] = 0
               /\ db'[hand'[b].task].quota = Pre[hand'[b].task]
               /\ pc'[b] = "bill" => paid'[hand'[b].task] = Pre[hand'[b].task]
               /\ pc'[b] = "persist" => /\ hand'[b].act = "settle"
                                        /\ Actual[hand'[b].task] # 0
                                        /\ paid'[hand'[b].task] = Actual[hand'[b].task]
    BY DEF OwerFits, ActFits
  <2>1. b # a
    BY <1>1
  <2>2. pc'[b] = pc[b] /\ hand'[b] = hand[b] /\ Owes(b)
    BY <1>1, <2>1 DEF Owes
  <2>3. hand[b].task \in Tasks \ {t}
    BY <2>1, <2>2, <1>4, GuardedFacts
  <2> QED
    BY <2>2, <2>3, <1>5 DEF IInv, OwerFits, Owes
<1>10. OneOwer'
  BY <1>1 DEF IInv, OneOwer
<1>11. CallFits'
  <2> SUFFICES ASSUME NEW u \in Guarded
        PROVE  called'[u] <= 1 /\ (db'[u].status \notin Final => called'[u] = 0)
    BY DEF CallFits
  <2>1. CASE u = t
    BY <2>1, <1>3, <1>6
  <2>2. CASE u # t
    BY <2>2, <1>5, GuardedFacts DEF IInv, CallFits
  <2> QED
    BY <2>1, <2>2
<1>12. BilledExactly'
  <2> SUFFICES ASSUME faults' = 0, NEW u \in Guarded \ Legacy, Owing(u)' = {}
        PROVE  /\ db'[u].status = "FAILURE" => Refunded(u, paid'[u])
               /\ db'[u].status = "SUCCESS" => paid'[u] = db'[u].quota /\ Settled(u, paid'[u])
    BY DEF BilledExactly, Price, MayRefuse, Refunded, Settled
  <2>1. CASE u = t
    BY <2>1
  <2>2. CASE u # t
    <3>1. Owing(u) = {}
      BY <2>2, <1>1 DEF Owing
    <3> QED
      BY <2>2, <3>1, GuardedFacts DEF IInv, BilledExactly
  <2> QED
    BY <2>1, <2>2
<1> QED
  BY <1>1, <1>7, <1>8, <1>9, <1>10, <1>11, <1>12 DEF IInv

\* The bookings that end a billing: refund, callback only, no adjustment, and the quota column.
LEMMA BillSteps ==
    ASSUME TypeOK, IInv, NEW a \in Actors,
           BillRefund(a) \/ BillNotify(a) \/ SettleNothing(a) \/ SettlePersist(a)
    PROVE  IInv'
<1> DEFINE t == hand[a].task
<1>1. /\ Owes(a) /\ Release(a) /\ Notify(a) /\ UNCHANGED <<submitted, pollVars>>
  BY DEF BillRefund, BillNotify, SettleNothing, SettlePersist, Owes, pollVars
<1>2. faults' = 0 => faults = 0 /\ UNCHANGED faults
  <2>1. faults \in Nat
    BY BoundsAssumption DEF TypeOK
  <2> QED
    BY <2>1 DEF BillRefund, BillNotify, SettleNothing, SettlePersist, Fault
<1>3. t \in Tasks /\ db \in [Tasks -> Rows] /\ paid \in [Tasks -> Int] /\ db[t] \in Rows
  BY HandTypes DEF TypeOK
<1>4. t \in Guarded =>
        /\ ActFits(hand[a]) /\ hand[a].row.status = db[t].status
        /\ hand[a].row.quota = Pre[t] /\ db[t].quota = Pre[t]
        /\ pc[a] = "bill" => paid[t] = Pre[t]
        /\ pc[a] = "persist" => /\ hand[a].act = "settle" /\ Actual[t] # 0
                                /\ paid[t] = Actual[t]
  BY <1>1 DEF IInv, OwerFits, Owes
<1>5. Pre[t] \in Nat /\ Actual[t] \in Nat
  BY <1>3, QuotaAssumption
<1>6. \A u \in Tasks \ {t} : db'[u] = db[u] /\ paid'[u] = paid[u]
  BY <1>3 DEF BillRefund, BillNotify, SettleNothing, SettlePersist
<1>7. CASE BillRefund(a)
  <2>1. /\ db' = db /\ hand[a].act = "refund" /\ pc[a] = "bill"
        /\ \/ paid'[t] = paid[t] - hand[a].row.quota /\ UNCHANGED faults
           \/ Fault /\ paid' = paid
           \/ MayRefuse(t, -hand[a].row.quota) /\ paid' = paid
    BY <1>7, <1>3 DEF BillRefund
  <2>2. t \in Guarded => paid'[t] \in {0, Pre[t]} /\ (faults' = 0 => Refunded(t, paid'[t]))
    <3>1. Fault => faults' # 0
      BY BoundsAssumption DEF Fault, TypeOK
    <3> QED
      BY <2>1, <3>1, <1>4, <1>5 DEF Refunded, MayRefuse
  <2>3. t \in Guarded => db[t].status = "FAILURE"
    BY <2>1, <1>4 DEF ActFits
  <2> QED
    BY <1>1, <1>2, <1>6, <2>1, <2>2, <2>3, BillDone
<1>8. CASE BillNotify(a)
  <2>1. db' = db /\ paid' = paid /\ hand[a].act = "notify" /\ pc[a] = "bill"
    BY <1>8 DEF BillNotify
  <2>2. t \in Guarded => db[t].status = "FAILURE" /\ (Pre[t] = 0 \/ t \in Legacy)
    BY <2>1, <1>4 DEF ActFits
  <2> QED
    BY <1>1, <1>2, <1>4, <1>6, <2>1, <2>2, BillDone DEF Refunded
<1>9. CASE SettleNothing(a)
  <2>1. /\ db' = db /\ paid' = paid /\ hand[a].act = "settle" /\ pc[a] = "bill"
        /\ \/ Actual[t] \in {0, hand[a].row.quota} \/ faults' # 0
           \/ MayRefuse(t, Actual[t] - hand[a].row.quota)
    <3>1. Fault => faults' # 0
      BY BoundsAssumption DEF Fault, TypeOK
    <3> QED
      BY <1>9, <3>1 DEF SettleNothing
  <2>2. t \in Guarded => db[t].status = "SUCCESS" /\ (faults' = 0 => Settled(t, Pre[t]))
    BY <2>1, <1>4, <1>5 DEF ActFits, Price, Settled, MayRefuse
  <2> QED
    BY <1>1, <1>2, <1>4, <1>6, <2>1, <2>2, BillDone
<1>10. CASE SettlePersist(a)
  <2>1. /\ paid' = paid /\ pc[a] = "persist"
        /\ (db'[t] = [db[t] EXCEPT !.quota = Actual[t]] /\ UNCHANGED faults)
           \/ (faults' # 0 /\ db' = db)
    <3>1. Fault => faults' # 0
      BY BoundsAssumption DEF Fault, TypeOK
    <3> QED
      BY <1>10, <3>1, <1>3 DEF SettlePersist
  <2>2. /\ db'[t].status = db[t].status
        /\ db'[t].quota = Actual[t] \/ (faults' # 0 /\ db'[t].quota = db[t].quota)
    BY <2>1, <1>3 DEF Rows
  <2>3. t \in Guarded => db[t].status = "SUCCESS" /\ Price(t) = Actual[t]
    BY <2>1, <1>4 DEF ActFits, Price
  <2> QED
    BY <1>1, <1>2, <1>4, <1>6, <2>1, <2>2, <2>3, BillDone DEF Settled
<1> QED
  BY <1>7, <1>8, <1>9, <1>10

\* Booking the difference leaves the ower with the quota column to write.
LEMMA SettleDeltaStep == ASSUME TypeOK, IInv, NEW a \in Actors, SettleDelta(a) PROVE IInv'
<1> DEFINE t == hand[a].task
<1>1. /\ UNCHANGED <<db, called, submitted, pollVars, faults, hand>>
      /\ pc[a] = "bill" /\ hand[a].act = "settle"
      /\ Actual[t] \notin {0, hand[a].row.quota}
      /\ paid' = [paid EXCEPT ![t] = @ + (Actual[t] - hand[a].row.quota)]
      /\ pc' = [pc EXCEPT ![a] = "persist"]
  BY DEF SettleDelta, pollVars
<1>2. t \in Tasks /\ hand[a].row.quota \in Nat
  BY HandTypes
<1>3. /\ pc'[a] = "persist" /\ \A b \in Actors \ {a} : pc'[b] = pc[b]
      /\ paid'[t] = paid[t] + (Actual[t] - hand[a].row.quota) /\ paid[t] \in Int
      /\ \A u \in Tasks \ {t} : paid'[u] = paid[u]
  BY <1>1, <1>2 DEF TypeOK
<1>4. t \in Guarded =>
        /\ ActFits(hand[a]) /\ hand[a].row.status = db[t].status
        /\ hand[a].row.quota = Pre[t] /\ db[t].quota = Pre[t]
        /\ paid[t] = Pre[t] /\ called[t] = 0
  BY <1>1 DEF IInv, OwerFits
<1>5. t \in Guarded => paid'[t] = Actual[t] /\ Price(t) = Actual[t] /\ db[t].status = "SUCCESS"
  BY <1>1, <1>2, <1>3, <1>4, QuotaAssumption DEF ActFits, Price
<1>6. TodoFresh' /\ CallFits'
  BY <1>1 DEF IInv, TodoFresh, CallFits, pollVars
<1>7. CopyFresh'
  BY <1>1, <1>3, CopyFrame
<1>8. MoneyFits'
  <2> SUFFICES ASSUME NEW u \in Guarded
        PROVE  /\ u \notin submitted => db[u].status = "NONE"
               /\ db[u].status \in Running => paid'[u] = Pre[u] /\ db[u].quota = Pre[u]
               /\ db[u].status = "FAILURE" => paid'[u] \in {0, Pre[u]}
               /\ db[u].status = "SUCCESS" => paid'[u] \in {Pre[u], Price(u)}
               /\ db[u].status = "SUCCESS" => db[u].quota \in {Pre[u], Price(u)}
    BY <1>1 DEF MoneyFits, Price
  <2>1. CASE u = t
    BY <2>1, <1>5 DEF IInv, MoneyFits, Running
  <2>2. CASE u # t
    BY <2>2, <1>3, GuardedFacts DEF IInv, MoneyFits
  <2> QED
    BY <2>1, <2>2
<1>9. OneOwer'
  BY <1>1, <1>3 DEF IInv, OneOwer
<1>10. OwerFits'
  <2> SUFFICES ASSUME NEW b \in Actors, hand[b].task \in Guarded, pc'[b] \in {"bill", "persist"}
        PROVE  /\ ActFits(hand[b]) /\ hand[b].act # "none"
               /\ hand[b].row.status = db[hand[b].task].status
               /\ hand[b].row.quota = Pre[hand[b].task]
               /\ called[hand[b].task] = 0
               /\ db[hand[b].task].quota = Pre[hand[b].task]
               /\ pc'[b] = "bill" => paid'[hand[b].task] = Pre[hand[b].task]
               /\ pc'[b] = "persist" => /\ hand[b].act = "settle"
                                        /\ Actual[hand[b].task] # 0
                                        /\ paid'[hand[b].task] = Actual[hand[b].task]
    BY <1>1 DEF OwerFits, ActFits
  <2>1. CASE b = a
    BY <2>1, <1>1, <1>3, <1>4, <1>5
  <2>2. CASE b # a
    <3>1. pc'[b] = pc[b] /\ hand[b].task # t
      BY <2>2, <1>1, <1>3 DEF IInv, OneOwer
    <3>2. paid'[hand[b].task] = paid[hand[b].task]
      BY <3>1, <1>3, GuardedFacts
    <3> QED
      BY <3>1, <3>2 DEF IInv, OwerFits
  <2> QED
    BY <2>1, <2>2
<1>11. BilledExactly'
  <2> SUFFICES ASSUME faults = 0, NEW u \in Guarded \ Legacy, Owing(u)' = {}
        PROVE  /\ db[u].status = "FAILURE" => Refunded(u, paid'[u])
               /\ db[u].status = "SUCCESS" => paid'[u] = db[u].quota /\ Settled(u, paid'[u])
    BY <1>1 DEF BilledExactly, Price, MayRefuse, Refunded, Settled
  <2>1. u # t
    BY <1>1, <1>3 DEF Owing
  <2>2. Owing(u) = {}
    BY <2>1, <1>1, <1>3 DEF Owing
  <2> QED
    BY <2>1, <2>2, <1>3, GuardedFacts DEF IInv, BilledExactly
<1> QED
  BY <1>6, <1>7, <1>8, <1>9, <1>10, <1>11 DEF IInv

\* The steps that write rows or money of tasks that nobody bills.
LEMMA OtherWrites ==
    ASSUME TypeOK, IInv, NEW t \in Tasks, Submit(t) \/ PollChannelGone(t) PROVE IInv'
<1>1. /\ UNCHANGED <<pc, hand, called>>
      /\ faults' = 0 => faults = 0
  <2>1. faults \in Nat
    BY BoundsAssumption DEF TypeOK
  <2> QED
    BY <2>1 DEF Submit, PollChannelGone, Fault
<1>2. \A u \in Tasks \ {t} : db'[u] = db[u] /\ paid'[u] = paid[u]
                             /\ (u \in submitted <=> u \in submitted')
  BY DEF Submit, PollChannelGone, TypeOK
<1>3. t \in Guarded => /\ t \in submitted' /\ db[t].status = "NONE"
                       /\ paid'[t] = Pre[t]
                       /\ \/ db'[t].status = "NONE"
                          \/ db'[t].status = "NOT_START" /\ db'[t].quota = Pre[t]
  <2>1. CASE Submit(t)
    <3>1. t \in submitted' /\ paid'[t] = Pre[t] /\ t \notin submitted
      BY <2>1 DEF Submit, TypeOK
    <3>2. db'[t] = db[t] \/ db'[t] = [NoRow EXCEPT !.status = "NOT_START", !.quota = Pre[t]]
      BY <2>1 DEF Submit, TypeOK
    <3>3. [NoRow EXCEPT !.status = "NOT_START", !.quota = Pre[t]].status = "NOT_START"
          /\ [NoRow EXCEPT !.status = "NOT_START", !.quota = Pre[t]].quota = Pre[t]
      BY DEF NoRow
    <3> QED
      BY <3>1, <3>2, <3>3 DEF IInv, MoneyFits
  <2>2. CASE PollChannelGone(t)
    BY <2>2 DEF PollChannelGone, Guarded, TypeOK
  <2> QED
    BY <2>1, <2>2
<1>4. t \in Guarded => \A b \in Actors : Owes(b) => hand[b].task # t
  <2> SUFFICES ASSUME t \in Guarded, NEW b \in Actors, Owes(b), hand[b].task = t PROVE FALSE
    OBVIOUS
  <2>1. ActFits(hand[b]) /\ hand[b].act # "none" /\ hand[b].row.status = db[t].status
    BY DEF IInv, OwerFits, Owes
  <2>2. hand[b].act \in {"settle", "refund", "notify"}
    BY <2>1 DEF TypeOK, Hands
  <2> QED
    BY <2>1, <2>2, <1>3 DEF ActFits
<1>5. TodoFresh'
  <2>1. mem' = mem /\ todo' \subseteq todo
    BY DEF Submit, PollChannelGone, pollVars
  <2> QED
    BY <2>1 DEF TodoFresh, IInv
<1>6. CopyFresh' /\ OneOwer'
  BY <1>1 DEF IInv, CopyFresh, OneOwer, ActFits
<1>7. MoneyFits'
  <2> SUFFICES ASSUME NEW u \in Guarded
        PROVE  /\ u \notin submitted' => db'[u].status = "NONE"
               /\ db'[u].status \in Running => paid'[u] = Pre[u] /\ db'[u].quota = Pre[u]
               /\ db'[u].status = "FAILURE" => paid'[u] \in {0, Pre[u]}
               /\ db'[u].status = "SUCCESS" => paid'[u] \in {Pre[u], Price(u)}
               /\ db'[u].status = "SUCCESS" => db'[u].quota \in {Pre[u], Price(u)}
    BY DEF MoneyFits, Price
  <2>1. CASE u = t
    BY <2>1, <1>3 DEF Running
  <2>2. CASE u # t
    BY <2>2, <1>2, GuardedFacts DEF IInv, MoneyFits
  <2> QED
    BY <2>1, <2>2
<1>8. OwerFits'
  <2> SUFFICES ASSUME NEW b \in Actors, hand[b].task \in Guarded, pc[b] \in {"bill", "persist"}
        PROVE  /\ ActFits(hand[b]) /\ hand[b].act # "none"
               /\ hand[b].row.status = db'[hand[b].task].status
               /\ hand[b].row.quota = Pre[hand[b].task]
               /\ called[hand[b].task] = 0
               /\ db'[hand[b].task].quota = Pre[hand[b].task]
               /\ pc[b] = "bill" => paid'[hand[b].task] = Pre[hand[b].task]
               /\ pc[b] = "persist" => /\ hand[b].act = "settle"
                                       /\ Actual[hand[b].task] # 0
                                       /\ paid'[hand[b].task] = Actual[hand[b].task]
    BY <1>1 DEF OwerFits, ActFits
  <2>1. hand[b].task \in Tasks \ {t}
    BY <1>4, GuardedFacts DEF Owes
  <2> QED
    BY <2>1, <1>2 DEF IInv, OwerFits
<1>9. CallFits'
  <2> SUFFICES ASSUME NEW u \in Guarded
        PROVE  called[u] <= 1 /\ (db'[u].status \notin Final => called[u] = 0)
    BY <1>1 DEF CallFits
  <2>1. CASE u = t
    BY <2>1, <1>3 DEF IInv, CallFits, Final
  <2>2. CASE u # t
    BY <2>2, <1>2, GuardedFacts DEF IInv, CallFits
  <2> QED
    BY <2>1, <2>2
<1>10. BilledExactly'
  <2> SUFFICES ASSUME faults' = 0, NEW u \in Guarded \ Legacy, Owing(u)' = {}
        PROVE  /\ db'[u].status = "FAILURE" => Refunded(u, paid'[u])
               /\ db'[u].status = "SUCCESS" => paid'[u] = db'[u].quota /\ Settled(u, paid'[u])
    BY DEF BilledExactly, Price, MayRefuse, Refunded, Settled
  <2>1. CASE u = t
    BY <2>1, <1>3
  <2>2. CASE u # t
    <3>1. Owing(u) = {} /\ faults = 0
      BY <1>1 DEF Owing
    <3> QED
      BY <2>2, <3>1, <1>2, GuardedFacts DEF IInv, BilledExactly
  <2> QED
    BY <2>1, <2>2
<1> QED
  BY <1>5, <1>6, <1>7, <1>8, <1>9, <1>10 DEF IInv

\* A crash only forgets copies and debts.
LEMMA CrashStep == ASSUME TypeOK, IInv, Crash PROVE IInv'
<1>1. /\ UNCHANGED <<db, paid, called, submitted>> /\ todo' = {} /\ faults' # 0
      /\ \A a \in Actors : pc'[a] = "idle" \/ (pc'[a] = pc[a] /\ hand'[a] = hand[a])
  <2>1. faults \in Nat
    BY BoundsAssumption DEF TypeOK
  <2> QED
    BY <2>1 DEF Crash, Fault
<1>2. TodoFresh' /\ MoneyFits' /\ CallFits' /\ BilledExactly'
  BY <1>1 DEF IInv, TodoFresh, MoneyFits, CallFits, BilledExactly, Price
<1>3. CopyFresh' /\ OneOwer'
  BY <1>1 DEF IInv, CopyFresh, OneOwer, ActFits
<1>4. OwerFits'
  BY <1>1 DEF IInv, OwerFits, ActFits
<1> QED
  BY <1>2, <1>3, <1>4 DEF IInv

\* Stuttering changes nothing.
LEMMA StutterStep == ASSUME TypeOK, IInv, UNCHANGED vars PROVE IInv'
<1>1. UNCHANGED <<db, submitted, paid, todo, mem, pc, hand, called, faults>>
  BY DEF vars
<1>2. TodoFresh' /\ MoneyFits' /\ CallFits' /\ CopyFresh' /\ OneOwer' /\ OwerFits'
  BY <1>1 DEF IInv, TodoFresh, MoneyFits, CallFits, Price, CopyFresh, OneOwer, OwerFits, ActFits
<1>3. BilledExactly'
  BY <1>1 DEF IInv, BilledExactly, Owing, Price, MayRefuse, Refunded, Settled
<1> QED
  BY <1>2, <1>3 DEF IInv

\* Every step keeps the inductive invariant.
LEMMA IInvStep == TypeOK /\ IInv /\ [Next]_vars => IInv'
<1> SUFFICES ASSUME TypeOK, IInv, [Next]_vars PROVE IInv'
  OBVIOUS
<1>1. CASE World
  BY <1>1, LoadSteps, OtherWrites DEF World
<1>2. CASE PollerStep
  BY <1>2, LoadSteps, OtherWrites, SweepTaskStep, PollTaskStep DEF PollerStep
<1>3. ASSUME NEW f \in Fetchers, FetchStep(f) PROVE IInv'
  BY <1>3, FetchLoadStep, FetchAnswerStep DEF FetchStep
<1>4. ASSUME NEW w \in Workers, ArchiveStep(w) PROVE IInv'
  BY <1>4, ArchiveTakeStep, ArchiveReloadStep, ArchiveFailsStep DEF ArchiveStep
<1>5. ASSUME NEW a \in Actors, WriteStep(a) PROVE IInv'
  BY <1>5, WriteWinsStep, WriteLosesStep DEF WriteStep
<1>6. ASSUME NEW a \in Actors, BillStep(a) PROVE IInv'
  BY <1>6, BillSteps, SettleDeltaStep DEF BillStep
<1>7. CASE Crash
  BY <1>7, CrashStep
<1>8. CASE UNCHANGED vars
  BY <1>8, StutterStep
<1> QED
  BY <1>1, <1>2, <1>3, <1>4, <1>5, <1>6, <1>7, <1>8 DEF Next

\* The inductive invariant holds in every reachable state.
THEOREM Invariance == Spec => [](TypeOK /\ IInv)
<1>1. Init => TypeOK /\ IInv
  BY TypeInit, IInvInit
<1>2. TypeOK /\ IInv /\ [Next]_vars => (TypeOK /\ IInv)'
  BY TypeStep, IInvStep
<1> QED
  BY <1>1, <1>2, PTL DEF Spec

\* However polls, sweeps, realtime fetches, archive workers, database errors
\* and crashes interleave, a guarded task is billed at most once after its
\* submission.
THEOREM AtMostOnce == Spec => []BilledAtMostOnce
<1>1. IInv => BilledAtMostOnce
  BY DEF IInv, MoneyFits, BilledAtMostOnce
<1> QED
  BY <1>1, Invariance, PTL

\* Without faults a guarded task is billed exactly: failures cost nothing,
\* successes their price, unless the subscription that pays refused the booking.
THEOREM Exactly == Spec => []BilledExactly
<1>1. IInv => BilledExactly
  BY DEF IInv
<1> QED
  BY <1>1, Invariance, PTL

\* The client of a guarded task is called back at most once.
THEOREM OneCallback == Spec => []CalledBackAtMostOnce
<1>1. IInv => CalledBackAtMostOnce
  BY DEF IInv, CallFits, CalledBackAtMostOnce
<1> QED
  BY <1>1, Invariance, PTL

\* The status column of a final guarded task is written by no step.
LEMMA StickyStep ==
    TypeOK /\ IInv /\ [Next]_vars =>
        [\A t \in Guarded : db[t].status \in Final => db'[t].status = db[t].status]_vars
<1> SUFFICES ASSUME TypeOK, IInv, Next, NEW t \in Guarded, db[t].status \in Final
             PROVE  db'[t].status = db[t].status
  BY DEF vars
<1> USE GuardedFacts
<1>1. ASSUME NEW a \in Actors, WriteWins(a) PROVE db'[t].status = db[t].status
  <2>1. hand[a].task # t
    BY <1>1 DEF WriteWins, StatusUnchanged, IInv, CopyFresh, Running, Final
  <2> QED
    BY <1>1, <2>1 DEF WriteWins, TypeOK
<1>2. ASSUME NEW a \in Actors, SettlePersist(a) PROVE db'[t].status = db[t].status
  <2>1. db[t] \in Rows
    BY DEF TypeOK
  <2>2. db'[t] = db[t] \/ db'[t] = [db[t] EXCEPT !.quota = Actual[t]]
    BY <1>2 DEF SettlePersist, TypeOK
  <2> QED
    BY <2>1, <2>2 DEF Rows
<1>3. ASSUME NEW u \in Tasks, Submit(u) PROVE db'[t].status = db[t].status
  <2>1. t # u
    BY <1>3 DEF Submit, IInv, MoneyFits, Final
  <2> QED
    BY <1>3, <2>1 DEF Submit, TypeOK
<1>4. ASSUME NEW u \in Tasks, PollChannelGone(u) PROVE db'[t].status = db[t].status
  <2>1. t # u
    BY <1>4 DEF PollChannelGone, Guarded, TypeOK
  <2> QED
    BY <1>4, <2>1 DEF PollChannelGone, TypeOK
<1>5. CASE UNCHANGED db
  BY <1>5
<1>6. CASE World
  BY <1>6, <1>3, <1>5 DEF World, UpstreamProgress, MissDeadline, DeleteChannel
<1>7. CASE PollerStep
  BY <1>7, <1>4, <1>5 DEF PollerStep, SweepLoad, PollLoad, SweepTask, PollSkip, PollTask
<1>8. ASSUME NEW f \in Fetchers, FetchStep(f) PROVE db'[t].status = db[t].status
  BY <1>8, <1>5 DEF FetchStep, FetchLoad, FetchSkip, FetchAnswer
<1>9. ASSUME NEW w \in Workers, ArchiveStep(w) PROVE db'[t].status = db[t].status
  BY <1>9, <1>5 DEF ArchiveStep, ArchiveTake, ArchiveReload, ArchiveFails
<1>10. ASSUME NEW a \in Actors, WriteStep(a) PROVE db'[t].status = db[t].status
  BY <1>10, <1>1, <1>5 DEF WriteStep, WriteLoses
<1>11. ASSUME NEW a \in Actors, BillStep(a) PROVE db'[t].status = db[t].status
  BY <1>11, <1>2, <1>5 DEF BillStep, BillRefund, BillNotify, SettleNothing, SettleDelta
<1>12. CASE Crash
  BY <1>12, <1>5 DEF Crash
<1> QED
  BY <1>6, <1>7, <1>8, <1>9, <1>10, <1>11, <1>12 DEF Next

\* A guarded task that is final stays as it is.
THEOREM Sticky == Spec => FinalIsSticky
BY Invariance, StickyStep, PTL DEF Spec, FinalIsSticky


----------------------------------------------------------------------------
(* TaskLifecycle implements TaskLedger: every step is, for the guarded     *)
(* tasks, one step of one account or none.  The inductive invariant        *)
(* supplies what an account's step asks for: a write wins over a running   *)
(* row only, and who bills finds the first charge.                         *)

\* The account is that of the detailed task.
LEMMA AccountFacts ==
    ASSUME NEW t \in Guarded
    PROVE  /\ StageOf[t] = Stage(t) /\ PaidFor[t] = paid[t] /\ PriceOf[t] = Price(t)
           /\ StageOf'[t] = Stage(t)' /\ PaidFor'[t] = paid'[t]
BY DEF StageOf, PaidFor, PriceOf

\* A step that leaves the accounts of all guarded tasks alone.
LEMMA Idle ==
    ASSUME \A t \in Guarded : Stage(t)' = Stage(t) /\ paid'[t] = paid[t]
    PROVE  UNCHANGED <<StageOf, PaidFor>>
BY DEF StageOf, PaidFor

\* A step that changes the account of t alone.
LEMMA Single ==
    ASSUME NEW t \in Guarded,
           \A u \in Guarded \ {t} : Stage(u)' = Stage(u) /\ paid'[u] = paid[u]
    PROVE  /\ StageOf' = [StageOf EXCEPT ![t] = Stage(t)']
           /\ PaidFor' = [PaidFor EXCEPT ![t] = paid'[t]]
           /\ Stage(t)' = Stage(t) => UNCHANGED StageOf
           /\ paid'[t] = paid[t] => UNCHANGED PaidFor
BY DEF StageOf, PaidFor

\* The stage depends on the row's status and on the submission only.
LEMMA SameStage ==
    ASSUME NEW t, (t \in submitted') <=> (t \in submitted), db'[t].status = db[t].status
    PROVE  Stage(t)' = Stage(t)
BY DEF Stage

\* Submitting charges the account.
LEMMA SubmitCharges ==
    ASSUME TypeOK, IInv, NEW t \in Tasks, Submit(t)
    PROVE  Ledger!Next \/ UNCHANGED <<StageOf, PaidFor>>
<1>1. /\ t \notin submitted /\ submitted' = submitted \cup {t}
      /\ paid'[t] = Pre[t]
      /\ \A u \in Tasks \ {t} : db'[u] = db[u] /\ paid'[u] = paid[u]
      /\ db'[t].status \in {db[t].status, "NOT_START"}
  BY DEF Submit, TypeOK, NoRow
<1>2. \A u \in Guarded \ {t} : Stage(u)' = Stage(u) /\ paid'[u] = paid[u]
  BY <1>1, GuardedFacts, SameStage
<1>3. CASE t \notin Guarded
  BY <1>2, <1>3, Idle
<1>4. CASE t \in Guarded
  <2>1. db[t].status = "NONE"
    BY <1>1, <1>4 DEF IInv, MoneyFits
  <2>2. Stage(t) = "new" /\ Stage(t)' \in {"running", "lost"}
    BY <1>1, <2>1 DEF Stage
  <2>3. Ledger!Charge(t)
    BY <1>1, <1>2, <1>4, <2>2, Single, AccountFacts DEF Ledger!Charge
  <2> QED
    BY <1>4, <2>3 DEF Ledger!Next
<1> QED
  BY <1>3, <1>4

\* A write that wins finishes a running account, or leaves it running.
LEMMA WriteFinishes ==
    ASSUME TypeOK, IInv, NEW a \in Actors, WriteWins(a)
    PROVE  Ledger!Next \/ UNCHANGED <<StageOf, PaidFor>>
<1>0. PICK t \in Tasks : t = hand[a].task
  BY HandTypes
<1>1. /\ pc[a] = "write" /\ db[t].status = hand[a].from
      /\ db' = [db EXCEPT ![t] = hand[a].row] /\ UNCHANGED <<paid, submitted>>
  BY <1>0 DEF WriteWins, StatusUnchanged
<1>2. t \in Tasks /\ hand[a].row.status \in Statuses
  BY HandTypes
<1>3. db'[t] = hand[a].row /\ \A u \in Tasks \ {t} : db'[u] = db[u]
  BY <1>1, <1>2 DEF TypeOK
<1>4. t \in Guarded => hand[a].from \in Running /\ hand[a].row.status # "NONE"
  BY <1>0, <1>1 DEF IInv, CopyFresh
<1>5. \A u \in Guarded \ {t} : Stage(u)' = Stage(u) /\ paid'[u] = paid[u]
  BY <1>1, <1>3, GuardedFacts, SameStage
<1>6. CASE t \notin Guarded
  BY <1>5, <1>6, Idle
<1>7. CASE t \in Guarded
  <2>1. t \in submitted /\ db[t].status \in Running
    BY <1>1, <1>4, <1>7 DEF IInv, MoneyFits, Running
  <2>2. Stage(t) = "running"
    BY <2>1 DEF Stage, Running
  <2>3. Stage(t)' \in {"running", "failed", "succeeded"}
    BY <1>1, <1>2, <1>3, <1>4, <1>7, <2>1 DEF Stage, Statuses, Running
  <2>4. CASE Stage(t)' = "running"
    <3>1. \A u \in Guarded : Stage(u)' = Stage(u) /\ paid'[u] = paid[u]
      BY <1>1, <1>5, <2>2, <2>4
    <3> QED
      BY <3>1, Idle
  <2>5. CASE Stage(t)' \in {"failed", "succeeded"}
    <3>1. Ledger!Finish(t)
      BY <1>1, <1>5, <1>7, <2>2, <2>5, Single, AccountFacts DEF Ledger!Finish
    <3> QED
      BY <1>7, <3>1 DEF Ledger!Next
  <2> QED
    BY <2>3, <2>4, <2>5
<1> QED
  BY <1>6, <1>7

\* A refund is made once, from the first charge.
LEMMA RefundOnce ==
    ASSUME TypeOK, IInv, NEW a \in Actors, BillRefund(a)
    PROVE  Ledger!Next \/ UNCHANGED <<StageOf, PaidFor>>
<1> DEFINE t == hand[a].task
<1>1. /\ t \in Tasks /\ hand[a].row.quota \in Nat /\ UNCHANGED <<db, submitted>>
      /\ paid \in [Tasks -> Int]
      /\ pc[a] = "bill" /\ hand[a].act = "refund"
      /\ UNCHANGED paid \/ paid' = [paid EXCEPT ![t] = @ - hand[a].row.quota]
  BY HandTypes DEF BillRefund, TypeOK
<1>2. t \in Guarded =>
        /\ hand[a].row.status = "FAILURE" /\ db[t].status = "FAILURE"
        /\ hand[a].row.quota = Pre[t] /\ paid[t] = Pre[t]
  BY <1>1 DEF IInv, OwerFits, ActFits
<1> HIDE DEF t
<1>3. \A u \in Guarded : Stage(u)' = Stage(u)
  BY <1>1, SameStage
<1>4. \A u \in Guarded \ {t} : paid'[u] = paid[u]
  BY <1>1, GuardedFacts
<1>5. CASE UNCHANGED paid \/ t \notin Guarded
  BY <1>3, <1>4, <1>5, Idle
<1>6. CASE paid' = [paid EXCEPT ![t] = @ - hand[a].row.quota] /\ t \in Guarded
  <2>1. paid'[t] = 0
    BY <1>1, <1>2, <1>6
  <2>2. Stage(t) = "failed"
    BY <1>2, <1>6 DEF Stage, IInv, MoneyFits
  <2>3. Ledger!Refund(t)
    BY <1>2, <1>3, <1>4, <1>6, <2>1, <2>2, Single, AccountFacts DEF Ledger!Refund
  <2> QED
    BY <1>6, <2>3 DEF Ledger!Next
<1> QED
  BY <1>1, <1>5, <1>6

\* A settlement is made once, from the first charge to the price.
LEMMA SettleOnce ==
    ASSUME TypeOK, IInv, NEW a \in Actors, SettleDelta(a)
    PROVE  Ledger!Next \/ UNCHANGED <<StageOf, PaidFor>>
<1> DEFINE t == hand[a].task
<1>1. /\ t \in Tasks /\ hand[a].row.quota \in Nat /\ UNCHANGED <<db, submitted>>
      /\ paid \in [Tasks -> Int]
      /\ pc[a] = "bill" /\ hand[a].act = "settle" /\ Actual[t] # 0
      /\ paid' = [paid EXCEPT ![t] = @ + (Actual[t] - hand[a].row.quota)]
  BY HandTypes DEF SettleDelta, TypeOK
<1>2. t \in Guarded =>
        /\ hand[a].row.status = "SUCCESS" /\ db[t].status = "SUCCESS"
        /\ hand[a].row.quota = Pre[t] /\ paid[t] = Pre[t]
  BY <1>1 DEF IInv, OwerFits, ActFits
<1> HIDE DEF t
<1>3. \A u \in Guarded : Stage(u)' = Stage(u)
  BY <1>1, SameStage
<1>4. \A u \in Guarded \ {t} : paid'[u] = paid[u]
  BY <1>1, GuardedFacts
<1>5. CASE t \notin Guarded
  BY <1>3, <1>4, <1>5, Idle
<1>6. CASE t \in Guarded
  <2>1. paid'[t] = Actual[t] /\ Price(t) = Actual[t]
    <3>1. Actual[t] \in Nat
      BY <1>1, QuotaAssumption
    <3> QED
      BY <1>1, <1>2, <1>6, <3>1 DEF Price
  <2>2. Stage(t) = "succeeded"
    BY <1>2, <1>6 DEF Stage, IInv, MoneyFits
  <2>3. Ledger!Settle(t)
    BY <1>2, <1>3, <1>4, <1>6, <2>1, <2>2, Single, AccountFacts DEF Ledger!Settle
  <2> QED
    BY <1>6, <2>3 DEF Ledger!Next
<1> QED
  BY <1>5, <1>6

\* Rewriting the quota column and failing the tasks of a deleted channel are
\* no steps of a guarded account.
LEMMA OtherWritesIdle ==
    ASSUME TypeOK, IInv, UNCHANGED <<paid, submitted>>,
           (\E a \in Actors : SettlePersist(a)) \/ (\E u \in Tasks : PollChannelGone(u))
    PROVE  UNCHANGED <<StageOf, PaidFor>>
<1>1. ASSUME NEW t \in Guarded PROVE db'[t].status = db[t].status
  <2>1. t \in Tasks /\ db[t] \in Rows
    BY GuardedFacts DEF TypeOK
  <2>2. ASSUME NEW a \in Actors, SettlePersist(a) PROVE db'[t].status = db[t].status
    <3>1. db'[t] = db[t] \/ db'[t] = [db[t] EXCEPT !.quota = Actual[t]]
      BY <2>1, <2>2 DEF SettlePersist, TypeOK
    <3> QED
      BY <2>1, <3>1 DEF Rows
  <2>3. ASSUME NEW u \in Tasks, PollChannelGone(u) PROVE db'[t].status = db[t].status
    <3>1. t # u
      BY <2>3 DEF PollChannelGone, Guarded, TypeOK
    <3> QED
      BY <2>1, <2>3, <3>1 DEF PollChannelGone, TypeOK
  <2> QED
    BY <2>2, <2>3
<1> QED
  BY <1>1, SameStage, Idle

\* Every step is a step of one account, or of none.
LEMMA LedgerStep ==
    TypeOK /\ IInv /\ [Next]_vars => [Ledger!Next]_<<StageOf, PaidFor>>
<1> SUFFICES ASSUME TypeOK, IInv, [Next]_vars
             PROVE  Ledger!Next \/ UNCHANGED <<StageOf, PaidFor>>
  OBVIOUS
<1>1. CASE UNCHANGED <<db, paid, submitted>>
  BY <1>1, SameStage, Idle
<1>2. CASE World
  BY <1>1, <1>2, SubmitCharges DEF World, UpstreamProgress, MissDeadline, DeleteChannel
<1>3. CASE PollerStep
  <2>1. ASSUME NEW t \in Tasks, PollChannelGone(t) PROVE UNCHANGED <<StageOf, PaidFor>>
    BY <2>1, OtherWritesIdle DEF PollChannelGone
  <2> QED
    BY <1>1, <1>3, <2>1 DEF PollerStep, SweepLoad, PollLoad, SweepTask, PollSkip, PollTask
<1>4. ASSUME NEW f \in Fetchers, FetchStep(f) PROVE UNCHANGED <<db, paid, submitted>>
  BY <1>4 DEF FetchStep, FetchLoad, FetchSkip, FetchAnswer
<1>5. ASSUME NEW w \in Workers, ArchiveStep(w) PROVE UNCHANGED <<db, paid, submitted>>
  BY <1>5 DEF ArchiveStep, ArchiveTake, ArchiveReload, ArchiveFails
<1>6. ASSUME NEW a \in Actors, WriteStep(a)
      PROVE  Ledger!Next \/ UNCHANGED <<StageOf, PaidFor>>
  BY <1>1, <1>6, WriteFinishes DEF WriteStep, WriteLoses
<1>7. ASSUME NEW a \in Actors, BillStep(a)
      PROVE  Ledger!Next \/ UNCHANGED <<StageOf, PaidFor>>
  <2>1. CASE SettlePersist(a)
    BY <2>1, OtherWritesIdle DEF SettlePersist
  <2>2. CASE BillNotify(a) \/ SettleNothing(a)
    BY <1>1, <2>2 DEF BillNotify, SettleNothing
  <2> QED
    BY <1>7, <2>1, <2>2, RefundOnce, SettleOnce DEF BillStep
<1>8. CASE Crash
  BY <1>1, <1>8 DEF Crash
<1>9. CASE UNCHANGED vars
  BY <1>1, <1>9 DEF vars
<1> QED
  BY <1>1, <1>2, <1>3, <1>4, <1>5, <1>6, <1>7, <1>8, <1>9 DEF Next

\* TaskLifecycle implements TaskLedger, for any number of tasks, requests,
\* workers, errors and crashes: a guarded task is charged once, ends once, and
\* is then refunded or settled in full at most once.
THEOREM Implements == Spec => ImplementsTaskLedger
<1>1. Init => Ledger!Init
  BY DEF Init, Ledger!Init, StageOf, PaidFor, Stage, Guarded
<1> QED
  BY <1>1, LedgerStep, Invariance, PTL DEF Spec, ImplementsTaskLedger, Ledger!Spec

----------------------------------------------------------------------------
(* Archiving: no success before the archive worker had its turn.  What     *)
(* follows holds for all tasks, also the ones that are fetched again or    *)
(* whose channel is deleted.                                               *)

\* A row of t that may be stored: with archiving on, a success carries the URL
\* of an archive worker.
Archived(t, row) ==
    t \in Archivable /\ row.status = "SUCCESS" => row.url \in {"r2", "fallback"}

\* Besides the stored rows, the copies that an actor may still write: a stale
\* copy must not bring back a success without its archive.
ArchiveInv ==
    /\ \A t \in Tasks : Archived(t, db[t])
    /\ \A a \in Actors : pc[a] \in {"loaded", "write"} => Archived(hand[a].task, hand[a].row)

\* Initially there is neither a row nor a copy.
LEMMA ArchiveInit == Init => ArchiveInv
BY DEF Init, ArchiveInv, Archived, NoRows, NoRow

\* A step that writes no row and after which only actor a may hold a new copy.
LEMMA ArchiveFrame ==
    ASSUME TypeOK, ArchiveInv, NEW a \in Actors, UNCHANGED db,
           \A b \in Actors \ {a} : pc'[b] = pc[b] /\ hand'[b] = hand[b],
           pc'[a] \in {"loaded", "write"} => Archived(hand'[a].task, hand'[a].row)
    PROVE  ArchiveInv'
BY DEF ArchiveInv, Archived

\* An actor that lets go of its copy, or keeps what it had.
LEMMA ArchiveRelease ==
    ASSUME TypeOK, ArchiveInv, NEW a \in Actors, Release(a), UNCHANGED db
    PROVE  ArchiveInv'
<1>1. /\ pc'[a] = "idle"
      /\ \A b \in Actors \ {a} : pc'[b] = pc[b] /\ hand'[b] = hand[b]
  BY TakeFrame DEF Release
<1> QED
  BY <1>1, ArchiveFrame

\* Rows that are written without a copy, and the winners' rows.
LEMMA ArchiveWrite ==
    ASSUME TypeOK, ArchiveInv,
           \A t \in Tasks : Archived(t, db'[t]),
           \A b \in Actors : pc'[b] \in {"loaded", "write"} => pc'[b] = pc[b] /\ hand'[b] = hand[b]
    PROVE  ArchiveInv'
BY DEF ArchiveInv, Archived

\* What the poller makes of an answer is never a success to be archived.
LEMMA PolledArchived ==
    ASSUME NEW t \in Tasks, NEW x, mem[t] \in Rows PROVE Archived(t, PolledRow(t, x))
BY DEF Archived, PolledRow, ArchivingRow, Rows

\* What a realtime fetch makes of an answer is a success to be archived only if
\* the row it loaded was one.
LEMMA FetchedArchived ==
    ASSUME NEW t \in Tasks, NEW x, NEW old \in Rows, Archived(t, old)
    PROVE  Archived(t, FetchedRow(t, old, x))
<1>1. CASE x = "SUCCESS" /\ old.status # "SUCCESS" /\ t \in Archivable
  BY <1>1 DEF Archived, FetchedRow, ArchivingRow, Rows
<1>2. CASE ~(x = "SUCCESS" /\ old.status # "SUCCESS" /\ t \in Archivable)
  <2>1. FetchedRow(t, old, x).status = x
    BY <1>2 DEF FetchedRow, Rows
  <2>2. x = "SUCCESS" /\ t \in Archivable => FetchedRow(t, old, x).url = old.url
    BY <1>2 DEF FetchedRow, Rows
  <2> QED
    BY <1>2, <2>1, <2>2 DEF Archived
<1> QED
  BY <1>1, <1>2

\* Every step keeps it.
LEMMA ArchiveStepInv == TypeOK /\ ArchiveInv /\ [Next]_vars => ArchiveInv'
<1> SUFFICES ASSUME TypeOK, ArchiveInv, [Next]_vars PROVE ArchiveInv'
  OBVIOUS
<1> USE ActorFacts
<1>1. CASE UNCHANGED <<db, pc, hand>>
  BY <1>1 DEF ArchiveInv, Archived
<1>2. ASSUME NEW t \in Tasks, Submit(t) PROVE ArchiveInv'
  <2>1. db'[t] = db[t] \/ db'[t].status = "NOT_START"
    BY <1>2 DEF Submit, TypeOK, NoRow
  <2>2. \A u \in Tasks \ {t} : db'[u] = db[u]
    BY <1>2 DEF Submit, TypeOK
  <2>3. \A u \in Tasks : Archived(u, db'[u])
    BY <2>1, <2>2 DEF ArchiveInv, Archived
  <2> QED
    BY <1>2, <2>3, ArchiveWrite DEF Submit
<1>3. ASSUME NEW t \in Tasks, SweepTask(t) PROVE ArchiveInv'
  <2> DEFINE h == [task |-> t, from |-> mem[t].status,
                   row |-> [mem[t] EXCEPT !.status = "FAILURE", !.full = TRUE],
                   act |-> IF t \in Legacy \/ mem[t].quota = 0 THEN "notify" ELSE "refund"]
  <2>1. Archived(h.task, h.row)
    BY DEF Archived, TypeOK, Rows
  <2>2. Take(Poller, h, "write") /\ UNCHANGED db
    BY <1>3 DEF SweepTask
  <2> HIDE DEF h
  <2> QED
    BY <2>1, <2>2, TakeFrame, ArchiveFrame
<1>4. ASSUME NEW t \in Tasks, PollTask(t) PROVE ArchiveInv'
  <2>1. PICK x : \/ Take(Poller, [task |-> t, from |-> mem[t].status, row |-> PolledRow(t, x),
                                  act |-> PolledAct(t, x)], "write")
                 \/ UNCHANGED <<pc, hand>>
    BY <1>4 DEF PollTask
  <2> DEFINE h == [task |-> t, from |-> mem[t].status, row |-> PolledRow(t, x),
                   act |-> PolledAct(t, x)]
  <2>2. Archived(h.task, h.row)
    BY PolledArchived DEF TypeOK
  <2>3. UNCHANGED db
    BY <1>4 DEF PollTask
  <2>4. Take(Poller, h, "write") \/ UNCHANGED <<pc, hand>>
    BY <2>1
  <2> HIDE DEF h
  <2> QED
    BY <1>1, <2>2, <2>3, <2>4, TakeFrame, ArchiveFrame
<1>5. ASSUME NEW t \in Tasks, PollChannelGone(t) PROVE ArchiveInv'
  <2>1. db'[t] = db[t] \/ db'[t].status = "FAILURE"
    BY <1>5 DEF PollChannelGone, TypeOK, Rows
  <2>2. \A u \in Tasks \ {t} : db'[u] = db[u]
    BY <1>5 DEF PollChannelGone, TypeOK
  <2>3. \A u \in Tasks : Archived(u, db'[u])
    BY <2>1, <2>2 DEF ArchiveInv, Archived
  <2> QED
    BY <1>5, <2>3, ArchiveWrite DEF PollChannelGone
<1>6. ASSUME NEW f \in Fetchers, NEW t \in Tasks, FetchLoad(f, t) PROVE ArchiveInv'
  <2> DEFINE h == [NoHand EXCEPT !.task = t, !.from = db[t].status, !.row = db[t]]
  <2>1. Archived(h.task, h.row)
    BY DEF ArchiveInv, NoHand
  <2>2. Take(f, h, "loaded") /\ UNCHANGED db
    BY <1>6 DEF FetchLoad
  <2> HIDE DEF h
  <2> QED
    BY <2>1, <2>2, TakeFrame, ArchiveFrame
<1>7. ASSUME NEW f \in Fetchers, FetchSkip(f) PROVE ArchiveInv'
  BY <1>7, TakeFrame, ArchiveFrame DEF FetchSkip
<1>8. ASSUME NEW f \in Fetchers, FetchAnswer(f) PROVE ArchiveInv'
  <2> DEFINE h(x) == [hand[f] EXCEPT
                        !.row = FetchedRow(hand[f].task, hand[f].row, x),
                        !.act = FetchedAct(hand[f].row, FetchedRow(hand[f].task, hand[f].row, x))]
  <2>1. PICK x : Take(f, h(x), "write") \/ Take(f, NoHand, "idle")
    BY <1>8 DEF FetchAnswer
  <2>2. h(x).task = hand[f].task /\ h(x).row = FetchedRow(hand[f].task, hand[f].row, x)
    BY HandTypes DEF Hands
  <2>3. Archived(hand[f].task, hand[f].row) /\ UNCHANGED db
    BY <1>8 DEF FetchAnswer, ArchiveInv
  <2>4. Archived(h(x).task, h(x).row)
    BY <2>2, <2>3, HandTypes, FetchedArchived
  <2> HIDE DEF h
  <2> QED
    BY <2>1, <2>3, <2>4, TakeFrame, ArchiveFrame
<1>9. ASSUME NEW w \in Workers, ArchiveTake(w) PROVE ArchiveInv'
  <2>1. \/ Take(w, [NoHand EXCEPT !.task = Head(queue)], "archiving")
        \/ UNCHANGED <<pc, hand>>
    BY <1>9 DEF ArchiveTake
  <2>2. UNCHANGED db
    BY <1>9 DEF ArchiveTake
  <2> QED
    BY <1>1, <2>1, <2>2, TakeFrame, ArchiveFrame
<1>10. ASSUME NEW w \in Workers, ArchiveReload(w) PROVE ArchiveInv'
  <2> DEFINE t == hand[w].task
             h(u) == [task |-> t, from |-> "IN_PROGRESS",
                      row |-> [db[t] EXCEPT !.status = "SUCCESS", !.full = TRUE, !.url = u],
                      act |-> "settle"]
  <2>1. Release(w) \/ \E u \in {"r2", "fallback"} : Take(w, h(u), "write")
    BY <1>10 DEF ArchiveReload
  <2>2. ASSUME NEW u \in {"r2", "fallback"} PROVE Archived(h(u).task, h(u).row)
    <3>1. db[t] \in Rows
      BY HandTypes DEF TypeOK
    <3> QED
      BY <3>1 DEF Archived, Rows
  <2>3. UNCHANGED db
    BY <1>10 DEF ArchiveReload
  <2> HIDE DEF h
  <2> QED
    BY <2>1, <2>2, <2>3, TakeFrame, ArchiveFrame, ArchiveRelease
<1>11. ASSUME NEW w \in Workers, ArchiveFails(w) PROVE ArchiveInv'
  BY <1>11, ArchiveRelease DEF ArchiveFails
<1>12. ASSUME NEW a \in Actors, WriteWins(a) PROVE ArchiveInv'
  <2>1. hand[a].task \in Tasks /\ Archived(hand[a].task, hand[a].row)
    BY <1>12, HandTypes DEF WriteWins, ArchiveInv
  <2>2. \A u \in Tasks : Archived(u, db'[u])
    BY <1>12, <2>1 DEF WriteWins, ArchiveInv, TypeOK
  <2>3. /\ pc'[a] \notin {"loaded", "write"}
        /\ \A b \in Actors \ {a} : pc'[b] = pc[b] /\ hand'[b] = hand[b]
    <3>1. CASE hand[a].act = "none"
      BY <1>12, <3>1, TakeFrame DEF WriteWins, Release
    <3>2. CASE hand[a].act # "none"
      BY <1>12, <3>2 DEF WriteWins, TypeOK
    <3> QED
      BY <3>1, <3>2
  <2> QED
    BY <2>2, <2>3, ArchiveWrite
<1>13. ASSUME NEW a \in Actors, WriteLoses(a) \/ BillRefund(a) \/ BillNotify(a) \/ SettleNothing(a)
       PROVE  ArchiveInv'
  BY <1>13, ArchiveRelease DEF WriteLoses, BillRefund, BillNotify, SettleNothing
<1>14. ASSUME NEW a \in Actors, SettleDelta(a) PROVE ArchiveInv'
  <2>1. /\ UNCHANGED <<db, hand>> /\ pc'[a] = "persist"
        /\ \A b \in Actors \ {a} : pc'[b] = pc[b]
    BY <1>14 DEF SettleDelta, TypeOK
  <2> QED
    BY <2>1, ArchiveFrame
<1>15. ASSUME NEW a \in Actors, SettlePersist(a) PROVE ArchiveInv'
  <2>1. hand[a].task \in Tasks
    BY HandTypes
  <2>2. \A u \in Tasks : db'[u].status = db[u].status /\ db'[u].url = db[u].url
    <3> DEFINE t == hand[a].task
               row == [db[t] EXCEPT !.quota = Actual[t]]
    <3>1. db' = db \/ db' = [db EXCEPT ![t] = row]
      BY <1>15, <2>1 DEF SettlePersist, TypeOK
    <3>2. row.status = db[t].status /\ row.url = db[t].url
      BY <2>1 DEF TypeOK, Rows
    <3> HIDE DEF row
    <3> QED
      BY <2>1, <3>1, <3>2 DEF TypeOK
  <2>3. \A u \in Tasks : Archived(u, db'[u])
    BY <2>2 DEF ArchiveInv, Archived
  <2>4. /\ pc'[a] = "idle"
        /\ \A b \in Actors \ {a} : pc'[b] = pc[b] /\ hand'[b] = hand[b]
    BY <1>15, TakeFrame DEF SettlePersist, Release
  <2> QED
    BY <2>3, <2>4, ArchiveWrite
<1>16. CASE Crash
  <2>1. /\ UNCHANGED db
        /\ \A a \in Actors : pc'[a] = "idle" \/ (pc'[a] = pc[a] /\ hand'[a] = hand[a])
    BY <1>16 DEF Crash
  <2>2. \A u \in Tasks : Archived(u, db'[u])
    BY <2>1 DEF ArchiveInv
  <2> QED
    BY <2>1, <2>2, ArchiveWrite
<1>17. CASE World
  BY <1>17, <1>1, <1>2 DEF World, UpstreamProgress, MissDeadline, DeleteChannel
<1>18. CASE PollerStep
  BY <1>18, <1>1, <1>3, <1>4, <1>5 DEF PollerStep, SweepLoad, PollLoad, PollSkip
<1>19. CASE UNCHANGED vars
  BY <1>19, <1>1 DEF vars
<1> QED
  BY <1>6, <1>7, <1>8, <1>9, <1>10, <1>11, <1>12, <1>13, <1>14, <1>15, <1>16, <1>17, <1>18, <1>19
  DEF Next, FetchStep, ArchiveStep, WriteStep, BillStep

\* No path finishes a task that is to be archived before an archive worker had
\* its turn: not the poller, not a realtime fetch on another node, not a stale
\* copy, a full queue or a crash (updateVideoSingleTask, tryRealtimeFetch,
\* processArchiveJob).
THEOREM ArchivesFirst == Spec => []ArchivedBeforeSuccess
<1>2. ArchiveInv => ArchivedBeforeSuccess
  BY KindsAssumption DEF ArchiveInv, Archived, ArchivedBeforeSuccess
<1> QED
  BY <1>2, ArchiveInit, ArchiveStepInv, TypeCorrect, PTL DEF Spec

----------------------------------------------------------------------------
(* One archive job per task. *)

\* Worker w has a job for t, from the moment it takes it off the queue.
Works(w, t) == pc[w] # "idle" /\ hand[w].task = t

\* Jobs and reservations correspond: what is queued or worked on is reserved,
\* nothing is queued twice, worked on twice, or both, and what is reserved is
\* queued or worked on.
JobInv ==
    /\ \A i \in 1..Len(queue) : queue[i] \in inflight
    /\ \A i, j \in 1..Len(queue) : queue[i] = queue[j] => i = j
    /\ \A w \in Workers : pc[w] # "idle" => hand[w].task \in inflight
    /\ \A v, w \in Workers : pc[v] # "idle" /\ Works(w, hand[v].task) => v = w
    /\ \A w \in Workers : \A i \in 1..Len(queue) : ~Works(w, queue[i])
    /\ \A t \in inflight : \/ \E i \in 1..Len(queue) : queue[i] = t
                           \/ \E w \in Workers : Works(w, t)

\* Initially there are no jobs.
LEMMA JobInit == Init => JobInv
<1> SUFFICES ASSUME Init PROVE JobInv
  OBVIOUS
<1>1. queue = <<>> /\ Len(queue) = 0 /\ inflight = {} /\ \A w \in Workers : pc[w] = "idle"
  BY ActorFacts DEF Init
<1> QED
  BY <1>1 DEF JobInv, Works

\* A step after which every worker has the job it had.
LEMMA JobFrame ==
    ASSUME JobInv, UNCHANGED archiveVars,
           \A w \in Workers : /\ pc'[w] = "idle" <=> pc[w] = "idle"
                              /\ pc[w] # "idle" => hand'[w].task = hand[w].task
    PROVE  JobInv'
BY DEF JobInv, Works, archiveVars

\* A step of an actor that is not a worker leaves the workers alone.
LEMMA NoWorker ==
    ASSUME TypeOK, JobInv, NEW a \in Actors \ Workers, NEW h, NEW p, Take(a, h, p)
    PROVE  \A w \in Workers : pc'[w] = pc[w] /\ hand'[w] = hand[w]
BY TakeFrame, ActorFacts

\* A released worker ends its job and its reservation with it.
LEMMA JobRelease ==
    ASSUME TypeOK, JobInv, NEW a \in Actors, pc[a] # "idle", Release(a), UNCHANGED queue
    PROVE  JobInv'
<1>1. /\ pc'[a] = "idle"
      /\ \A b \in Actors \ {a} : pc'[b] = pc[b] /\ hand'[b] = hand[b]
  BY TakeFrame DEF Release
<1>2. CASE a \in Workers
  <2>1. inflight' = inflight \ {hand[a].task}
    BY <1>2 DEF Release
  <2> QED
    BY <1>1, <1>2, <2>1, ActorFacts DEF JobInv, Works
<1>3. CASE a \notin Workers
  <2>1. UNCHANGED archiveVars
    BY <1>3 DEF Release, archiveVars
  <2> QED
    BY <1>1, <1>3, <2>1, JobFrame, ActorFacts
<1> QED
  BY <1>2, <1>3

\* Only a task without reservation is enqueued.
LEMMA JobEnqueue ==
    ASSUME TypeOK, JobInv, NEW t \in Tasks, NEW m \in BOOLEAN,
           Enqueue(t, m) \/ UNCHANGED archiveVars,
           \A w \in Workers : pc'[w] = pc[w] /\ hand'[w] = hand[w]
    PROVE  JobInv'
<1>1. CASE UNCHANGED archiveVars
  BY <1>1, JobFrame
<1>2. CASE ~UNCHANGED archiveVars
  <2>1. queue' = Append(queue, t) /\ inflight' = inflight \cup {t} /\ t \notin inflight
    BY <1>2 DEF Enqueue
  <2>2. /\ Len(queue) \in Nat /\ Len(queue') = Len(queue) + 1
        /\ \A i \in 1..Len(queue) : queue'[i] = queue[i]
        /\ queue'[Len(queue) + 1] = t
    BY <2>1 DEF TypeOK
  <2>3. /\ \A i \in 1..Len(queue') : i \in 1..Len(queue) \/ i = Len(queue) + 1
        /\ 1..Len(queue) \subseteq 1..Len(queue') /\ Len(queue) + 1 \in 1..Len(queue')
    BY <2>2
  <2>4. /\ \A i \in 1..Len(queue) : queue[i] # t
        /\ \A w \in Workers : ~Works(w, t)
    BY <2>1 DEF JobInv, Works
  <2>5. \A i \in 1..Len(queue') : queue'[i] \in inflight'
    BY <2>1, <2>2, <2>3 DEF JobInv
  <2>6. \A i, j \in 1..Len(queue') : queue'[i] = queue'[j] => i = j
    BY <2>2, <2>3, <2>4 DEF JobInv
  <2>7. \A w \in Workers : \A i \in 1..Len(queue') : ~(pc[w] # "idle" /\ hand[w].task = queue'[i])
    BY <2>2, <2>3, <2>4 DEF JobInv, Works
  <2>8. \A u \in inflight' : \/ \E i \in 1..Len(queue') : queue'[i] = u
                             \/ \E w \in Workers : pc[w] # "idle" /\ hand[w].task = u
    BY <2>1, <2>2, <2>3 DEF JobInv, Works
  <2>9. /\ \A w \in Workers : pc[w] # "idle" => hand[w].task \in inflight'
        /\ \A v, w \in Workers :
              pc[v] # "idle" /\ pc[w] # "idle" /\ hand[w].task = hand[v].task => v = w
    BY <2>1 DEF JobInv, Works
  <2> QED
    BY <2>5, <2>6, <2>7, <2>8, <2>9 DEF JobInv, Works
<1> QED
  BY <1>1, <1>2

\* A job leaves the queue with its reservation or into the hands of a worker.
LEMMA JobTake == ASSUME TypeOK, JobInv, NEW w \in Workers, ArchiveTake(w) PROVE JobInv'
<1> DEFINE t == Head(queue)
           n == Len(queue)
<1>1. /\ queue # <<>> /\ pc[w] = "idle" /\ queue' = Tail(queue) /\ queue \in Seq(Tasks)
      /\ \/ inflight' = inflight \ {t} /\ UNCHANGED <<pc, hand>>
         \/ Take(w, [NoHand EXCEPT !.task = t], "archiving") /\ UNCHANGED inflight
  BY DEF ArchiveTake, TypeOK
<1>2. /\ n \in Nat \ {0} /\ Len(queue') = n - 1 /\ t = queue[1]
      /\ \A i \in 1..(n - 1) : queue'[i] = queue[i + 1]
  BY <1>1
<1>3. [NoHand EXCEPT !.task = t].task = t
  BY DEF NoHand
<1> HIDE DEF t, n
<1>4. /\ \A i \in 1..(n - 1) : i + 1 \in 1..n /\ i + 1 # 1
      /\ 1 \in 1..n
      /\ \A i \in 1..n : i = 1 \/ (i - 1 \in 1..(n - 1) /\ queue'[i - 1] = queue[i])
  BY <1>2
<1>5. t \in inflight /\ \A v \in Workers : ~Works(v, t)
  BY <1>2, <1>4 DEF JobInv, n
<1>6. \A i \in 1..Len(queue') : queue'[i] \in inflight /\ queue'[i] # t
  BY <1>2, <1>4 DEF JobInv, n
<1>7. \A i, j \in 1..Len(queue') : queue'[i] = queue'[j] => i = j
  <2> SUFFICES ASSUME NEW i \in 1..(n - 1), NEW j \in 1..(n - 1), queue[i + 1] = queue[j + 1]
               PROVE  i = j
    BY <1>2
  <2>1. i + 1 = j + 1
    BY <1>4 DEF JobInv, n
  <2> QED
    BY <2>1, <1>2
<1>8. \A v \in Workers : \A i \in 1..Len(queue') : ~Works(v, queue'[i])
  BY <1>2, <1>4 DEF JobInv, n
<1>9. \A u \in inflight \ {t} : \/ \E i \in 1..Len(queue') : queue'[i] = u
                                \/ \E v \in Workers : Works(v, u)
  BY <1>2, <1>4 DEF JobInv, n
<1>10. CASE inflight' = inflight \ {t} /\ UNCHANGED <<pc, hand>>
  BY <1>5, <1>6, <1>7, <1>8, <1>9, <1>10 DEF JobInv, Works
<1>11. CASE Take(w, [NoHand EXCEPT !.task = t], "archiving") /\ UNCHANGED inflight
  <2>1. /\ pc'[w] = "archiving" /\ hand'[w].task = t
        /\ \A v \in Workers \ {w} : pc'[v] = pc[v] /\ hand'[v] = hand[v]
    BY <1>3, <1>11, TakeFrame, ActorFacts
  <2>2. \A v \in Workers : pc'[v] # "idle" =>
           \/ v = w /\ hand'[v].task = t
           \/ v # w /\ pc[v] # "idle" /\ hand'[v].task = hand[v].task /\ hand[v].task # t
    BY <1>5, <2>1 DEF Works
  <2>3. /\ \A v \in Workers : pc'[v] # "idle" => hand'[v].task \in inflight'
        /\ \A v \in Workers : \A i \in 1..Len(queue') : ~(pc'[v] # "idle" /\ hand'[v].task = queue'[i])
    BY <1>5, <1>6, <1>8, <1>11, <2>2 DEF JobInv, Works
  <2>4. \A v, u \in Workers :
           pc'[v] # "idle" /\ pc'[u] # "idle" /\ hand'[u].task = hand'[v].task => v = u
    BY <2>2 DEF JobInv, Works
  <2>5. \A u \in inflight' : \/ \E i \in 1..Len(queue') : queue'[i] = u
                             \/ \E v \in Workers : pc'[v] # "idle" /\ hand'[v].task = u
    BY <1>1, <1>9, <1>11, <2>1 DEF Works
  <2> QED
    BY <1>6, <1>7, <1>11, <2>3, <2>4, <2>5 DEF JobInv, Works
<1> QED
  BY <1>1, <1>10, <1>11

\* Every step keeps jobs and reservations in correspondence.
LEMMA JobStep == TypeOK /\ JobInv /\ [Next]_vars => JobInv'
<1> SUFFICES ASSUME TypeOK, JobInv, [Next]_vars PROVE JobInv'
  OBVIOUS
<1> USE ActorFacts
<1>1. /\ Poller \in Actors \ Workers
      /\ \A f \in Fetchers : f \in Actors \ Workers
  BY ActorsAssumption
<1>2. CASE UNCHANGED <<pc, hand, archiveVars>>
  BY <1>2, JobFrame
<1>3. CASE World
  BY <1>2, <1>3 DEF World, UpstreamProgress, MissDeadline, DeleteChannel, Submit
<1>4. ASSUME NEW t \in Tasks, SweepTask(t) PROVE JobInv'
  BY <1>1, <1>4, NoWorker, JobFrame DEF SweepTask
<1>5. ASSUME NEW t \in Tasks, PollTask(t) PROVE JobInv'
  <2>1. Enqueue(t, TRUE) \/ UNCHANGED archiveVars
    BY <1>5 DEF PollTask
  <2>2. (\E h : Take(Poller, h, "write")) \/ UNCHANGED <<pc, hand>>
    BY <1>5 DEF PollTask
  <2>3. \A w \in Workers : pc'[w] = pc[w] /\ hand'[w] = hand[w]
    BY <1>1, <2>2, NoWorker
  <2> QED
    BY <2>1, <2>3, JobEnqueue
<1>6. CASE PollerStep
  BY <1>2, <1>4, <1>5, <1>6 DEF PollerStep, SweepLoad, PollLoad, PollSkip, PollChannelGone
<1>7. ASSUME NEW f \in Fetchers, FetchStep(f) PROVE JobInv'
  <2>1. \E h, p : Take(f, h, p)
    BY <1>7 DEF FetchStep, FetchLoad, FetchSkip, FetchAnswer
  <2>2. \A w \in Workers : pc'[w] = pc[w] /\ hand'[w] = hand[w]
    BY <1>1, <2>1, NoWorker
  <2>3. CASE UNCHANGED archiveVars
    BY <2>2, <2>3, JobFrame
  <2>4. CASE FetchAnswer(f)
    <3>1. Enqueue(hand[f].task, f \in OnMaster) \/ UNCHANGED archiveVars
      BY <2>4 DEF FetchAnswer
    <3>2. hand[f].task \in Tasks /\ (f \in OnMaster) \in BOOLEAN
      BY HandTypes
    <3> QED
      BY <2>2, <3>1, <3>2, JobEnqueue
  <2> QED
    BY <1>7, <2>3, <2>4 DEF FetchStep, FetchLoad, FetchSkip
<1>8. ASSUME NEW w \in Workers, ArchiveReload(w) PROVE JobInv'
  <2>1. UNCHANGED queue /\ pc[w] = "archiving"
    BY <1>8 DEF ArchiveReload
  <2>2. CASE Release(w)
    BY <2>1, <2>2, JobRelease
  <2>3. CASE ~Release(w)
    <3>1. PICK h : Take(w, h, "write") /\ h.task = hand[w].task
      BY <1>8, <2>3 DEF ArchiveReload
    <3>2. /\ pc'[w] = "write" /\ hand'[w].task = hand[w].task
          /\ \A b \in Actors \ {w} : pc'[b] = pc[b] /\ hand'[b] = hand[b]
      BY <3>1, TakeFrame
    <3>3. UNCHANGED archiveVars
      BY <1>8, <2>3 DEF ArchiveReload, archiveVars
    <3> QED
      BY <2>1, <3>2, <3>3, JobFrame
  <2> QED
    BY <2>2, <2>3
<1>9. ASSUME NEW w \in Workers, ArchiveStep(w) PROVE JobInv'
  BY <1>8, <1>9, JobTake, JobRelease DEF ArchiveStep, ArchiveFails
<1>10. ASSUME NEW a \in Actors, WriteStep(a) PROVE JobInv'
  <2>1. UNCHANGED queue /\ pc[a] = "write"
    BY <1>10 DEF WriteStep, WriteWins, WriteLoses
  <2>2. CASE Release(a)
    BY <2>1, <2>2, JobRelease
  <2>3. CASE ~Release(a)
    <3>1. pc' = [pc EXCEPT ![a] = "bill"] /\ UNCHANGED <<hand, archiveVars>>
      BY <1>10, <2>1, <2>3 DEF WriteStep, WriteWins, WriteLoses, archiveVars
    <3>2. \A w \in Workers : pc'[w] = "idle" <=> pc[w] = "idle"
      BY <2>1, <3>1 DEF TypeOK
    <3> QED
      BY <3>1, <3>2, JobFrame
  <2> QED
    BY <2>2, <2>3
<1>11. ASSUME NEW a \in Actors, BillStep(a) PROVE JobInv'
  <2>1. CASE Release(a) /\ UNCHANGED queue /\ pc[a] # "idle"
    BY <2>1, JobRelease
  <2>2. CASE SettleDelta(a)
    <3>1. pc' = [pc EXCEPT ![a] = "persist"] /\ pc[a] = "bill" /\ UNCHANGED <<hand, archiveVars>>
      BY <2>2 DEF SettleDelta
    <3>2. \A w \in Workers : pc'[w] = "idle" <=> pc[w] = "idle"
      BY <3>1 DEF TypeOK
    <3> QED
      BY <3>1, <3>2, JobFrame
  <2> QED
    BY <1>11, <2>1, <2>2 DEF BillStep, BillRefund, BillNotify, SettleNothing, SettlePersist
<1>12. CASE Crash
  <2>1. queue' = <<>> /\ Len(queue') = 0 /\ inflight' = {}
    BY <1>12 DEF Crash
  <2>2. \A w \in Workers : pc'[w] = "idle"
    BY <1>12, ActorsAssumption DEF Crash
  <2> QED
    BY <2>1, <2>2 DEF JobInv, Works
<1>13. CASE UNCHANGED vars
  BY <1>2, <1>13 DEF vars, archiveVars
<1> QED
  BY <1>3, <1>6, <1>7, <1>9, <1>10, <1>11, <1>12, <1>13 DEF Next

\* The correspondence, counted.
LEMMA JobCount == TypeOK /\ JobInv => OneArchiveJob
<1> SUFFICES ASSUME TypeOK, JobInv, NEW t \in Tasks
             PROVE  Cardinality({i \in 1..Len(queue) : queue[i] = t})
                      + Cardinality({w \in Workers : pc[w] # "idle" /\ hand[w].task = t})
                    = IF t \in inflight THEN 1 ELSE 0
  BY DEF OneArchiveJob
<1> DEFINE Q == {i \in 1..Len(queue) : queue[i] = t}
           W == {w \in Workers : pc[w] # "idle" /\ hand[w].task = t}
<1>1. t \notin inflight => Q = {} /\ W = {}
  BY DEF JobInv, Works
<1>2. ASSUME NEW i \in 1..Len(queue), queue[i] = t PROVE t \in inflight /\ Q = {i} /\ W = {}
  BY <1>2 DEF JobInv, Works
<1>3. ASSUME NEW w \in Workers, Works(w, t) PROVE t \in inflight /\ Q = {} /\ W = {w}
  BY <1>3 DEF JobInv, Works
<1>4. t \in inflight => \/ \E i \in 1..Len(queue) : queue[i] = t
                        \/ \E w \in Workers : Works(w, t)
  BY DEF JobInv
<1>5. /\ t \notin inflight => Cardinality(Q) = 0 /\ Cardinality(W) = 0
      /\ t \in inflight => \/ Cardinality(Q) = 1 /\ Cardinality(W) = 0
                           \/ Cardinality(Q) = 0 /\ Cardinality(W) = 1
  <2> HIDE DEF Q, W
  <2> QED
    BY <1>1, <1>2, <1>3, <1>4, FS_EmptySet, FS_Singleton
<1> QED
  BY <1>5

\* A task has at most one archive job, queued or being worked on, and exactly
\* the tasks with a job are in archiveInflight: EnqueueVideoArchive's
\* LoadOrStore and the deferred Delete of processArchiveJob neither duplicate a
\* job nor leak a reservation, across full queues, failed loads and crashes.
THEOREM SingleJob == Spec => []OneArchiveJob
BY JobInit, JobStep, JobCount, TypeCorrect, PTL DEF Spec

=============================================================================
