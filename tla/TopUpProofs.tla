----------------------------- MODULE TopUpProofs -----------------------------
(***************************************************************************)
(* Proofs about TopUp, for any orders, codes, handlers, nodes and amounts, *)
(* and any number of faults and edits.                                     *)
(***************************************************************************)
EXTENDS TopUp, FiniteSetTheorems, TLAPS

----------------------------------------------------------------------------
(* The inductive invariant. *)

\* What a handler is doing fits the row it works on.
HandlerFits ==
    \A h \in Handlers :
        /\ pc[h] = "claim" => \/ row[h] \in Orders /\ job[h] \in {"fulfil", "manual"}
                              \/ row[h] \in Codes /\ job[h] = "redeem"
        /\ pc[h] = "save" => /\ row[h] \in Orders
                             /\ job[h] \in {"epay", "fail", "expire", "abandon"}
                             /\ job[h] = "epay" <=> order[row[h]].provider = "epay"
        /\ pc[h] = "credit" => /\ row[h] \in Orders
                               /\ job[h] = "epay"
                               /\ order[row[h]].provider = "epay"
        /\ pc[h] = "rebate" => row[h] \in Orders
        /\ pc[h] = "write" => row[h] \in Editable /\ seen[h] \in CodeStatuses

\* h is between its decision and its last write of order o.
WorksOn(h, o) == pc[h] \in {"claim", "save", "credit"} /\ row[h] = o

\* An Epay payment does not fail or expire, and only the handlers that Epay
\* requests are routed to work on it, under LockOrder.
EpayRouted ==
    \A o \in Orders : order[o].provider = "epay" =>
        /\ fate[o] \in {"open", "paid"}
        /\ \A h \in Handlers : WorksOn(h, o) => h \in EpayHandlers /\ job[h] \in {"epay", "manual"}

\* On one node LockOrder leaves one handler at work on an Epay order, which
\* finds the row as it read or wrote it.
EpayLocked ==
    OneNode =>
        \A o \in Orders : order[o].provider = "epay" =>
            /\ \A g, h \in Handlers : WorksOn(g, o) /\ WorksOn(h, o) => g = h
            /\ \A h \in Handlers : row[h] = o =>
                  /\ pc[h] = "save" => order[o].status = "pending" /\ credits[o] = <<>>
                  /\ pc[h] = "credit" => order[o].status = "success" /\ credits[o] = <<>>

\* What has been credited cannot be claimed.
Spent ==
    /\ \A o \in Orders :
          Covered(o) /\ credits[o] # <<>> => order[o].status \notin {"none", "pending"}
    /\ \A c \in Codes \ Editable : credits[c] # <<>> => code[c] # "enabled"

\* A successful order has its credit, but for Epay's two statements.
Backed ==
    \A o \in Orders : order[o].status = "success" /\ credits[o] = <<>> =>
        /\ order[o].provider = "epay"
        /\ faults > 0 \/ \E h \in Handlers : pc[h] = "credit" /\ row[h] = o

Shape == TypeOK /\ HandlerFits /\ EpayRouted
IInv == Shape /\ EpayLocked /\ Spent /\ CreditedOnce /\ Backed

----------------------------------------------------------------------------
(* The operators. *)

\* The amount of a credit is a natural number.
LEMMA QuotaType ==
    ASSUME TypeOK, NEW v \in Vouchers, NEW j \in Jobs
    PROVE  QuotaToAdd(j, v) \in Nat
<1>1. Amount[v] \in Nat /\ QuotaPerUnit \in Nat
  BY VouchersAssumption
<1>2. Amount[v] * QuotaPerUnit \in Nat
  BY <1>1
<1> QED
  BY <1>1, <1>2 DEF QuotaToAdd

\* AddQuota adds one credit to the row of the handler and to no other.
LEMMA AddQuotaEffect ==
    ASSUME TypeOK, NEW h \in Handlers, AddQuota(h)
    PROVE  /\ credits' \in [Vouchers -> Seq(Nat)]
           /\ \A v \in Vouchers : v # row[h] => credits'[v] = credits[v]
           /\ credits'[row[h]] # <<>>
           /\ Len(credits'[row[h]]) = Len(credits[row[h]]) + 1
           /\ credits[row[h]] = <<>> => credits'[row[h]] = <<QuotaToAdd(job[h], row[h])>>
<1> DEFINE q == QuotaToAdd(job[h], row[h])
<1>1. row[h] \in Vouchers /\ job[h] \in Jobs /\ credits[row[h]] \in Seq(Nat)
  BY DEF TypeOK
<1>2. q \in Nat
  BY <1>1, QuotaType
<1> HIDE DEF q
<1>3. credits' = [credits EXCEPT ![row[h]] = Append(credits[row[h]], q)]
  BY DEF AddQuota, q
<1>4. credits'[row[h]] = Append(credits[row[h]], q)
  BY <1>1, <1>3 DEF TypeOK
<1>5. Append(credits[row[h]], q) \in Seq(Nat)
  BY <1>1, <1>2
<1>6. Len(credits'[row[h]]) = Len(credits[row[h]]) + 1
  BY <1>1, <1>2, <1>4
<1>7. credits'[row[h]] # <<>>
  BY <1>1, <1>6
<1>8. credits[row[h]] = <<>> => credits'[row[h]] = <<q>>
  BY <1>2, <1>4
<1> QED
  BY <1>1, <1>3, <1>5, <1>6, <1>7, <1>8 DEF TypeOK, q

\* Release makes the handler idle and leaves the others alone.
LEMMA ReleaseEffect ==
    ASSUME TypeOK, NEW h \in Handlers, Release(h)
    PROVE  /\ pc' \in [Handlers -> {"idle", "claim", "save", "credit", "rebate", "write"}]
           /\ job' \in [Handlers -> Jobs]
           /\ row' \in [Handlers -> Vouchers]
           /\ seen' \in [Handlers -> {"none"} \cup CodeStatuses]
           /\ pc'[h] = "idle"
           /\ \A g \in Handlers \ {h} :
                 pc'[g] = pc[g] /\ job'[g] = job[g] /\ row'[g] = row[g] /\ seen'[g] = seen[g]
<1>1. AnyVoucher \in Vouchers
  BY VouchersAssumption DEF AnyVoucher
<1> QED
  BY <1>1 DEF TypeOK, Release, Take, Jobs

\* Take gives the handler a job and leaves the others alone.
LEMMA TakeEffect ==
    ASSUME TypeOK, NEW h \in Handlers, NEW j \in Jobs, NEW v \in Vouchers,
           NEW p \in {"idle", "claim", "save", "credit", "rebate", "write"}, Take(h, j, v, p)
    PROVE  /\ pc' \in [Handlers -> {"idle", "claim", "save", "credit", "rebate", "write"}]
           /\ job' \in [Handlers -> Jobs]
           /\ row' \in [Handlers -> Vouchers]
           /\ pc'[h] = p /\ job'[h] = j /\ row'[h] = v
           /\ \A g \in Handlers \ {h} : pc'[g] = pc[g] /\ job'[g] = job[g] /\ row'[g] = row[g]
BY DEF TypeOK, Take

\* Answer acknowledges the order of a handler's job, or nothing.
LEMMA AnswerType ==
    ASSUME TypeOK, NEW h \in Handlers, NEW ok, Answer(h, ok),
           job[h] \in {"fulfil", "epay", "fail", "expire"} => row[h] \in Orders
    PROVE  acked' \subseteq Orders
BY DEF TypeOK, Answer

\* Everything starts unpaid, unclaimed and idle.
LEMMA InitInv == Init => IInv
<1> SUFFICES ASSUME Init PROVE IInv
  OBVIOUS
<1>1. AnyVoucher \in Vouchers
  BY VouchersAssumption DEF AnyVoucher
<1>2. credits \in [Vouchers -> Seq(Nat)] /\ \A v \in Vouchers : credits[v] = <<>> /\ Len(credits[v]) = 0
  BY DEF Init
<1>3. TypeOK
  BY <1>1, <1>2, BoundsAssumption DEF Init, TypeOK, OrderStatuses, CodeStatuses, Jobs
<1>4. HandlerFits /\ EpayRouted
  BY DEF Init, HandlerFits, EpayRouted, WorksOn
<1>5. EpayLocked
  BY DEF Init, EpayLocked, WorksOn
<1>6. Spent
  BY <1>2, VouchersAssumption DEF Spent, Vouchers
<1>7. CreditedOnce /\ Backed
  BY <1>2 DEF Init, CreditedOnce, Backed
<1> QED
  BY <1>3, <1>4, <1>5, <1>6, <1>7 DEF IInv, Shape

----------------------------------------------------------------------------
(* One lemma per action. *)

\* Inserting an order.
LEMMA RequestPayKeeps ==
    ASSUME IInv, NEW o \in Orders, RequestPay(o)
    PROVE  IInv'
<1> USE DEF RequestPay, handVars, moneyVars
<1>1. TypeOK'
  BY DEF IInv, Shape, TypeOK, OrderStatuses
<1>2. HandlerFits' /\ EpayRouted'
  BY DEF IInv, Shape, TypeOK, HandlerFits, EpayRouted, WorksOn
<1>3. EpayLocked'
  BY DEF IInv, Shape, TypeOK, EpayLocked, WorksOn
<1>4. Spent'
  BY DEF IInv, Shape, TypeOK, Spent, Covered, Vouchers
<1>5. CreditedOnce'
  BY DEF IInv, Shape, TypeOK, CreditedOnce, Covered, Vouchers
<1>6. Backed'
  BY DEF IInv, Shape, TypeOK, Backed
<1> QED
  BY <1>1, <1>2, <1>3, <1>4, <1>5, <1>6 DEF IInv, Shape

\* The end of a payment changes no row.
LEMMA PaymentEndsKeeps ==
    ASSUME IInv, NEW o \in Orders, PaymentEnds(o)
    PROVE  IInv'
<1> USE DEF PaymentEnds, handVars, moneyVars
<1>1. TypeOK'
  BY DEF IInv, Shape, TypeOK
<1>2. HandlerFits' /\ EpayRouted'
  BY DEF IInv, Shape, TypeOK, HandlerFits, EpayRouted, WorksOn
<1>3. EpayLocked' /\ Spent' /\ CreditedOnce' /\ Backed'
  BY DEF IInv, EpayLocked, WorksOn, Spent, Covered, CreditedOnce, Backed
<1> QED
  BY <1>1, <1>2, <1>3 DEF IInv, Shape

\* On one node, whoever gets the lock of an Epay order is alone.
LEMMA FreeAlone ==
    ASSUME IInv, OneNode, NEW o \in Orders, order[o].provider = "epay",
           NEW h \in EpayHandlers, LockFree(NodeOf[h], o)
    PROVE  \A g \in Handlers : ~WorksOn(g, o)
<1> SUFFICES ASSUME NEW g \in Handlers, WorksOn(g, o) PROVE FALSE
  OBVIOUS
<1>1. g \in EpayHandlers /\ job[g] \in {"epay", "manual"}
  BY DEF IInv, Shape, EpayRouted
<1>2. NodeOf[g] = NodeOf[h]
  BY <1>1 DEF OneNode
<1> QED
  BY <1>1, <1>2 DEF LockFree, Locks, WorksOn

\* A handler starts to work on an order, under the lock if it is an Epay order.
LEMMA StartKeeps ==
    ASSUME IInv, NEW h \in Handlers, NEW o \in Orders, NEW j \in Jobs,
           NEW p \in {"claim", "save"}, pc[h] = "idle", Serves(h, o),
           Take(h, j, o, p), UNCHANGED <<order, code, moneyVars, acked, seen, faults, edits>>,
           fate' \in [Orders -> {"open", "paid", "failed", "expired", "abandoned"}],
           \A x \in Orders : order[x].provider = "epay" => fate'[x] = fate[x],
           order[o].provider = "epay" => LockFree(NodeOf[h], o) /\ j \in {"epay", "manual"},
           p = "claim" => j \in {"fulfil", "manual"},
           p = "save" => /\ j \in {"epay", "fail", "expire", "abandon"}
                         /\ j = "epay" <=> order[o].provider = "epay"
                         /\ j = "epay" => order[o].status = "pending"
    PROVE  IInv'
<1> USE DEF moneyVars
<1>1. o \in Vouchers
  BY DEF Vouchers
<1>2. /\ pc' \in [Handlers -> {"idle", "claim", "save", "credit", "rebate", "write"}]
      /\ job' \in [Handlers -> Jobs] /\ row' \in [Handlers -> Vouchers]
      /\ pc'[h] = p /\ job'[h] = j /\ row'[h] = o
      /\ \A g \in Handlers \ {h} : pc'[g] = pc[g] /\ job'[g] = job[g] /\ row'[g] = row[g]
  BY <1>1, TakeEffect DEF IInv, Shape
<1>3. TypeOK'
  BY <1>2 DEF IInv, Shape, TypeOK
<1>4. HandlerFits'
  BY <1>2 DEF IInv, Shape, HandlerFits
<1>5. EpayRouted'
  BY <1>2 DEF IInv, Shape, EpayRouted, WorksOn, Serves
<1>6. EpayLocked'
  <2> SUFFICES ASSUME OneNode, NEW x \in Orders, order[x].provider = "epay"
               PROVE  /\ \A g, k \in Handlers : WorksOn(g, x)' /\ WorksOn(k, x)' => g = k
                      /\ \A k \in Handlers : row'[k] = x =>
                            /\ pc'[k] = "save" => order[x].status = "pending" /\ credits[x] = <<>>
                            /\ pc'[k] = "credit" => order[x].status = "success" /\ credits[x] = <<>>
    BY DEF EpayLocked
  <2>1. CASE x # o
    BY <2>1, <1>2 DEF IInv, EpayLocked, WorksOn
  <2>2. CASE x = o
    <3>1. \A g \in Handlers : ~WorksOn(g, o)
      BY <2>2, FreeAlone DEF Serves
    <3>2. order[o].status = "pending" => credits[o] = <<>>
      BY <2>2 DEF IInv, Spent, Covered
    <3>3. \A g \in Handlers : pc'[g] \in {"claim", "save", "credit"} /\ row'[g] = o => g = h
      BY <3>1, <1>2 DEF WorksOn
    <3> QED
      BY <2>2, <3>2, <3>3, <1>2 DEF WorksOn
  <2> QED
    BY <2>1, <2>2
<1>7. Spent' /\ CreditedOnce'
  BY DEF IInv, Spent, Covered, CreditedOnce
<1>8. Backed'
  BY <1>2 DEF IInv, Backed
<1> QED
  BY <1>3, <1>4, <1>5, <1>6, <1>7, <1>8 DEF IInv, Shape

\* A webhook either starts to work on its order or answers at once.
LEMMA DeliverKeeps ==
    ASSUME IInv, NEW h \in Handlers, NEW o \in Orders, Deliver(h, o)
    PROVE  IInv'
<1> DEFINE j == EventJob(o)
           p == IF j = "fulfil" THEN "claim" ELSE "save"
<1>1. CASE Take(h, j, o, p) /\ UNCHANGED acked /\ (order[o].status = "pending" \/ j = "expire")
  <2>1. j \in {"fulfil", "epay", "fail", "expire"} /\ j \in Jobs
    BY DEF Deliver, EventJob, Jobs
  <2>2. order[o].provider = "epay" <=> j = "epay"
    BY DEF Deliver, EventJob, IInv, Shape, EpayRouted
  <2>3. order[o].provider = "epay" => LockFree(NodeOf[h], o)
    BY <2>2 DEF Deliver, Locks
  <2>4. pc[h] = "idle" /\ Serves(h, o) /\ UNCHANGED <<order, code, moneyVars, fate, seen, faults, edits>>
    BY DEF Deliver
  <2>5. fate' \in [Orders -> {"open", "paid", "failed", "expired", "abandoned"}]
    BY <2>4 DEF IInv, Shape, TypeOK
  <2>6. p \in {"claim", "save"} /\ (p = "claim" <=> j = "fulfil")
    OBVIOUS
  <2> HIDE DEF j, p
  <2> QED
    BY <1>1, <2>1, <2>2, <2>3, <2>4, <2>5, <2>6, StartKeeps
<1>2. CASE UNCHANGED <<pc, job, row>> /\ acked' \subseteq acked \cup {o}
  <2> USE <1>2 DEF Deliver, moneyVars
  <2>1. TypeOK'
    BY DEF IInv, Shape, TypeOK
  <2>2. HandlerFits' /\ EpayRouted' /\ EpayLocked'
    BY DEF IInv, Shape, HandlerFits, EpayRouted, EpayLocked, WorksOn
  <2>3. Spent' /\ CreditedOnce' /\ Backed'
    BY DEF IInv, Spent, Covered, CreditedOnce, Backed
  <2> QED
    BY <2>1, <2>2, <2>3 DEF IInv, Shape
<1> QED
  BY <1>1, <1>2 DEF Deliver

\* The administrator starts to complete an order.
LEMMA ManualKeeps ==
    ASSUME IInv, NEW h \in Handlers, NEW o \in Orders, ManualCompleteTopUp(h, o)
    PROVE  IInv'
<1>1. fate' \in [Orders -> {"open", "paid", "failed", "expired", "abandoned"}]
  BY DEF ManualCompleteTopUp, IInv, Shape, TypeOK
<1>2. "manual" \in Jobs
  BY DEF Jobs
<1>3. /\ pc[h] = "idle" /\ Serves(h, o) /\ LockFree(NodeOf[h], o)
      /\ Take(h, "manual", o, "claim")
      /\ UNCHANGED <<order, code, moneyVars, fate, acked, seen, faults, edits>>
  BY DEF ManualCompleteTopUp
<1> QED
  BY <1>1, <1>2, <1>3, StartKeeps

\* A Waffo checkout that could not be created.
LEMMA AbandonKeeps ==
    ASSUME IInv, NEW h \in Handlers, NEW o \in Orders, AbandonCheckout(h, o)
    PROVE  IInv'
<1>1. /\ fate' \in [Orders -> {"open", "paid", "failed", "expired", "abandoned"}]
      /\ \A x \in Orders : order[x].provider = "epay" => fate'[x] = fate[x]
  BY DEF AbandonCheckout, IInv, Shape, TypeOK
<1>2. "abandon" \in Jobs
  BY DEF Jobs
<1>3. /\ pc[h] = "idle" /\ Serves(h, o) /\ order[o].provider = "waffo"
      /\ Take(h, "abandon", o, "save")
      /\ UNCHANGED <<order, code, moneyVars, acked, seen, faults, edits>>
  BY DEF AbandonCheckout, Serves
<1> QED
  BY <1>1, <1>2, <1>3, StartKeeps

\* A user starts to redeem a code, an administrator to edit one.
LEMMA RedeemKeeps ==
    ASSUME IInv, NEW h \in Handlers, NEW c \in Codes,
           Redeem(h, c) \/ (c \in Editable /\ UpdateRedemption(h, c))
    PROVE  IInv'
<1> USE DEF Redeem, UpdateRedemption, moneyVars
<1>1. c \in Vouchers /\ c \notin Orders /\ {"redeem", "edit"} \subseteq Jobs
  BY VouchersAssumption DEF Vouchers, Jobs
<1>2. PICK j \in {"redeem", "edit"}, p \in {"claim", "write"} :
          /\ Take(h, j, c, p)
          /\ p = "claim" <=> j = "redeem"
          /\ p = "claim" => UNCHANGED seen
          /\ p = "write" => c \in Editable /\ seen' = [seen EXCEPT ![h] = code[c]]
  OBVIOUS
<1>3. /\ pc' \in [Handlers -> {"idle", "claim", "save", "credit", "rebate", "write"}]
      /\ job' \in [Handlers -> Jobs] /\ row' \in [Handlers -> Vouchers]
      /\ pc'[h] = p /\ job'[h] = j /\ row'[h] = c
      /\ \A g \in Handlers \ {h} : pc'[g] = pc[g] /\ job'[g] = job[g] /\ row'[g] = row[g]
  BY <1>1, <1>2, TakeEffect DEF IInv, Shape
<1>4. /\ seen' \in [Handlers -> {"none"} \cup CodeStatuses]
      /\ p = "write" => c \in Editable /\ seen'[h] \in CodeStatuses
      /\ \A g \in Handlers \ {h} : seen'[g] = seen[g]
  <2>1. code[c] \in CodeStatuses /\ seen \in [Handlers -> {"none"} \cup CodeStatuses]
    BY DEF IInv, Shape, TypeOK
  <2> HIDE DEF Redeem, UpdateRedemption
  <2>2. CASE p = "claim"
    BY <1>2, <2>1, <2>2
  <2>3. CASE p = "write"
    BY <1>2, <2>1, <2>3
  <2> QED
    BY <2>2, <2>3
<1>5. edits' \in 0..MaxEdits
  BY BoundsAssumption DEF IInv, Shape, TypeOK
<1>6. TypeOK'
  BY <1>3, <1>4, <1>5 DEF IInv, Shape, TypeOK
<1>7. HandlerFits'
  BY <1>2, <1>3, <1>4 DEF IInv, Shape, HandlerFits
<1>8. EpayRouted' /\ EpayLocked'
  BY <1>1, <1>3 DEF IInv, Shape, EpayRouted, EpayLocked, WorksOn
<1>9. Spent' /\ CreditedOnce'
  BY DEF IInv, Spent, Covered, CreditedOnce
<1>10. Backed'
  BY <1>3 DEF IInv, Backed
<1> QED
  BY <1>6, <1>7, <1>8, <1>9, <1>10 DEF IInv, Shape

----------------------------------------------------------------------------
(* The steps of a handler that works. *)

\* h goes on to p, with its job and row unless it is done; the others stay.
Moves(h, p) ==
    /\ pc' \in [Handlers -> {"idle", "claim", "save", "credit", "rebate", "write"}]
    /\ job' \in [Handlers -> Jobs]
    /\ row' \in [Handlers -> Vouchers]
    /\ seen' \in [Handlers -> {"none"} \cup CodeStatuses]
    /\ pc'[h] = p
    /\ p # "idle" => job'[h] = job[h] /\ row'[h] = row[h]
    /\ \A g \in Handlers \ {h} :
          pc'[g] = pc[g] /\ job'[g] = job[g] /\ row'[g] = row[g] /\ seen'[g] = seen[g]

\* What a step of a handler may do besides writing rows and adding quota.
Aside ==
    /\ acked' \subseteq Orders
    /\ rebates' \in [Orders -> Nat]
    /\ faults' \in 0..MaxFaults /\ faults' >= faults
    /\ UNCHANGED <<fate, edits>>

\* A handler that releases the order is done.
LEMMA ReleaseMoves ==
    ASSUME TypeOK, NEW h \in Handlers, Release(h)
    PROVE  Moves(h, "idle")
BY ReleaseEffect DEF Moves

\* A handler that goes on keeps its job.
LEMMA GoesOnMoves ==
    ASSUME TypeOK, NEW h \in Handlers, NEW p \in {"rebate", "credit"},
           pc' = [pc EXCEPT ![h] = p], UNCHANGED handVars
    PROVE  Moves(h, p)
BY DEF TypeOK, Moves, handVars

\* The parts of the invariant that only look at a handler's job.
LEMMA MovesFits ==
    ASSUME IInv, NEW h \in Handlers, NEW p \in {"idle", "rebate", "credit"}, Moves(h, p), Aside,
           p = "rebate" => row[h] \in Orders,
           p = "credit" => pc[h] = "save" /\ job[h] = "epay",
           \A o \in Orders : order'[o].provider = order[o].provider
    PROVE  HandlerFits' /\ EpayRouted'
<1>1. HandlerFits'
  <2> SUFFICES ASSUME NEW g \in Handlers
               PROVE  /\ pc'[g] = "claim" => \/ row'[g] \in Orders /\ job'[g] \in {"fulfil", "manual"}
                                             \/ row'[g] \in Codes /\ job'[g] = "redeem"
                      /\ pc'[g] = "save" => /\ row'[g] \in Orders
                                            /\ job'[g] \in {"epay", "fail", "expire", "abandon"}
                                            /\ job'[g] = "epay" <=> order'[row'[g]].provider = "epay"
                      /\ pc'[g] = "credit" => /\ row'[g] \in Orders
                                              /\ job'[g] = "epay"
                                              /\ order'[row'[g]].provider = "epay"
                      /\ pc'[g] = "rebate" => row'[g] \in Orders
                      /\ pc'[g] = "write" => row'[g] \in Editable /\ seen'[g] \in CodeStatuses
    BY DEF HandlerFits
  <2>1. CASE g = h
    BY <2>1 DEF IInv, Shape, HandlerFits, Moves
  <2>2. CASE g # h
    BY <2>2 DEF IInv, Shape, HandlerFits, Moves
  <2> QED
    BY <2>1, <2>2
<1>2. EpayRouted'
  BY DEF IInv, Shape, EpayRouted, WorksOn, Moves, Aside
<1> QED
  BY <1>1, <1>2

\* A handler stops and writes no row.
LEMMA IdleKeeps ==
    ASSUME IInv, NEW h \in Handlers, Moves(h, "idle"), Aside,
           UNCHANGED <<order, code, credits>>,
           pc[h] = "credit" => faults' > 0
    PROVE  IInv'
<1>1. TypeOK'
  BY DEF IInv, Shape, TypeOK, Moves, Aside
<1>2. HandlerFits' /\ EpayRouted'
  BY MovesFits
<1>3. EpayLocked'
  BY DEF IInv, EpayLocked, WorksOn, Moves
<1>4. Spent' /\ CreditedOnce'
  BY DEF IInv, Spent, Covered, CreditedOnce
<1>5. Backed'
  <2>1. faults \in Nat /\ faults' \in Nat /\ faults' >= faults
    BY BoundsAssumption DEF IInv, Shape, TypeOK, Aside
  <2> QED
    BY <2>1 DEF IInv, Backed, Moves
<1> QED
  BY <1>1, <1>2, <1>3, <1>4, <1>5 DEF IInv, Shape

\* The transaction that claims a row and adds its quota.
LEMMA CommitKeeps ==
    ASSUME IInv, NEW h \in Handlers, NEW p \in {"idle", "rebate"}, Moves(h, p), Aside,
           pc[h] = "claim", Committed(h), p = "rebate" => row[h] \in Orders
    PROVE  IInv'
<1>1. /\ credits' \in [Vouchers -> Seq(Nat)]
      /\ \A v \in Vouchers : v # row[h] => credits'[v] = credits[v]
      /\ credits'[row[h]] # <<>>
      /\ Len(credits'[row[h]]) = Len(credits[row[h]]) + 1
  BY AddQuotaEffect DEF IInv, Shape, Committed
<1>2. row[h] \in Vouchers /\ Len(<<>>) = 0
  BY DEF IInv, Shape, TypeOK
<1>3. ASSUME row[h] \in Orders
      PROVE  /\ order' = [order EXCEPT ![row[h]].status = "success"] /\ code' = code
             /\ order[row[h]].status = "pending"
  BY <1>3 DEF Committed, Claimed, Claimable
<1>4. ASSUME row[h] \notin Orders
      PROVE  /\ code' = [code EXCEPT ![row[h]] = "used"] /\ order' = order
             /\ code[row[h]] = "enabled" /\ row[h] \in Codes
  BY <1>2, <1>4 DEF Committed, Claimed, Claimable, Vouchers
<1>5. /\ order' \in [Orders -> [provider : Providers, status : OrderStatuses]]
      /\ \A o \in Orders : order'[o].provider = order[o].provider
      /\ \A o \in Orders : o # row[h] => order'[o] = order[o]
      /\ row[h] \in Orders => order'[row[h]].status = "success"
  <2>1. order \in [Orders -> [provider : Providers, status : OrderStatuses]]
    BY DEF IInv, Shape, TypeOK
  <2>2. CASE row[h] \in Orders
    BY <1>3, <2>1, <2>2 DEF OrderStatuses
  <2>3. CASE row[h] \notin Orders
    BY <1>4, <2>1, <2>3
  <2> QED
    BY <2>2, <2>3
<1>6. /\ code' \in [Codes -> CodeStatuses]
      /\ \A c \in Codes : c # row[h] => code'[c] = code[c]
      /\ row[h] \in Codes => code'[row[h]] = "used"
  <2>1. code \in [Codes -> CodeStatuses] /\ Orders \cap Codes = {}
    BY VouchersAssumption DEF IInv, Shape, TypeOK
  <2>2. CASE row[h] \in Orders
    BY <1>3, <2>1, <2>2
  <2>3. CASE row[h] \notin Orders
    BY <1>4, <2>1, <2>3 DEF CodeStatuses
  <2> QED
    BY <2>2, <2>3
<1>7. TypeOK'
  BY <1>1, <1>5, <1>6 DEF IInv, Shape, TypeOK, Moves, Aside
<1>8. HandlerFits' /\ EpayRouted'
  BY <1>5, MovesFits
<1>9. \A v \in Vouchers : Covered(v)' <=> Covered(v)
  BY <1>5 DEF Covered
<1>10. Covered(row[h]) => credits[row[h]] = <<>>
  <2>1. CASE row[h] \in Orders
    BY <1>3, <2>1 DEF IInv, Spent
  <2>2. CASE row[h] \notin Orders
    BY <1>4, <2>2 DEF IInv, Spent, Covered
  <2> QED
    BY <2>1, <2>2
<1>11. EpayLocked'
  <2> SUFFICES ASSUME OneNode, NEW o \in Orders, order[o].provider = "epay"
               PROVE  /\ \A g, k \in Handlers : WorksOn(g, o)' /\ WorksOn(k, o)' => g = k
                      /\ \A k \in Handlers : row'[k] = o =>
                            /\ pc'[k] = "save" => order'[o].status = "pending" /\ credits'[o] = <<>>
                            /\ pc'[k] = "credit" => order'[o].status = "success" /\ credits'[o] = <<>>
    BY <1>5 DEF EpayLocked
  <2>1. \A g, k \in Handlers : WorksOn(g, o)' /\ WorksOn(k, o)' => g = k
    BY DEF IInv, EpayLocked, WorksOn, Moves
  <2>2. CASE o = row[h]
    <3>1. \A k \in Handlers : k # h => ~(row'[k] = o /\ pc'[k] \in {"save", "credit"})
      BY <2>2 DEF IInv, EpayLocked, WorksOn, Moves
    <3> QED
      BY <2>1, <3>1 DEF Moves
  <2>3. CASE o # row[h]
    <3>1. order'[o] = order[o] /\ credits'[o] = credits[o]
      BY <1>1, <1>5, <2>3 DEF Vouchers
    <3> QED
      BY <2>1, <3>1 DEF IInv, EpayLocked, Moves
  <2> QED
    BY <2>2, <2>3
<1>12. Spent'
  <2>1. ASSUME NEW o \in Orders, Covered(o), credits'[o] # <<>>
        PROVE  order'[o].status \notin {"none", "pending"}
    BY <1>1, <1>5, <2>1 DEF IInv, Spent, Vouchers
  <2>2. ASSUME NEW c \in Codes \ Editable, credits'[c] # <<>>
        PROVE  code'[c] # "enabled"
    BY <1>1, <1>6, <2>2 DEF IInv, Spent, Vouchers
  <2> QED
    BY <1>9, <2>1, <2>2 DEF Spent, Vouchers
<1>13. CreditedOnce'
  <2> SUFFICES ASSUME NEW v \in Vouchers, Covered(v) PROVE Len(credits'[v]) <= 1
    BY <1>9 DEF CreditedOnce
  <2>1. CASE v = row[h]
    BY <1>1, <1>2, <1>10, <2>1
  <2>2. CASE v # row[h]
    BY <1>1, <2>2 DEF IInv, CreditedOnce
  <2> QED
    BY <2>1, <2>2
<1>14. Backed'
  <2> SUFFICES ASSUME NEW o \in Orders, order'[o].status = "success", credits'[o] = <<>>
               PROVE  /\ order[o].provider = "epay"
                      /\ faults' > 0 \/ \E k \in Handlers : pc'[k] = "credit" /\ row'[k] = o
    BY <1>5 DEF Backed
  <2>1. o # row[h] /\ order'[o] = order[o] /\ credits'[o] = credits[o]
    BY <1>1, <1>5 DEF Vouchers
  <2>2. faults \in Nat /\ faults' \in Nat /\ faults' >= faults
    BY BoundsAssumption DEF IInv, Shape, TypeOK, Aside
  <2> QED
    BY <2>1, <2>2 DEF IInv, Backed, Moves
<1> QED
  BY <1>7, <1>8, <1>11, <1>12, <1>13, <1>14 DEF IInv, Shape

\* The unconditional save of an order.  An Epay order is saved before its
\* credit, and only a fault keeps the handler from going on to it.
LEMMA SavedKeeps ==
    ASSUME IInv, NEW h \in Handlers, NEW p \in {"idle", "credit"}, Moves(h, p), Aside,
           pc[h] = "save", Saved(h), UNCHANGED <<code, credits>>,
           p = "credit" => job[h] = "epay",
           p = "idle" /\ job[h] = "epay" => faults' > 0
    PROVE  IInv'
<1>1. /\ row[h] \in Orders /\ job[h] \in {"epay", "fail", "expire", "abandon"}
      /\ job[h] = "epay" <=> order[row[h]].provider = "epay"
  BY DEF IInv, Shape, HandlerFits
<1>2. /\ SavedStatus(job[h]) \in OrderStatuses \ {"none", "pending"}
      /\ SavedStatus(job[h]) = "success" <=> job[h] = "epay"
  BY <1>1 DEF SavedStatus, OrderStatuses
<1>3. /\ order' \in [Orders -> [provider : Providers, status : OrderStatuses]]
      /\ \A o \in Orders : order'[o].provider = order[o].provider
      /\ \A o \in Orders : o # row[h] => order'[o] = order[o]
      /\ order'[row[h]].status = SavedStatus(job[h])
  BY <1>1, <1>2 DEF IInv, Shape, TypeOK, Saved
<1>4. TypeOK'
  BY <1>3 DEF IInv, Shape, TypeOK, Moves, Aside
<1>5. HandlerFits' /\ EpayRouted'
  BY <1>3, MovesFits
<1>6. \A v \in Vouchers : Covered(v)' <=> Covered(v)
  BY <1>3 DEF Covered
<1>7. EpayLocked'
  <2> SUFFICES ASSUME OneNode, NEW o \in Orders, order[o].provider = "epay"
               PROVE  /\ \A g, k \in Handlers : WorksOn(g, o)' /\ WorksOn(k, o)' => g = k
                      /\ \A k \in Handlers : row'[k] = o =>
                            /\ pc'[k] = "save" => order'[o].status = "pending" /\ credits[o] = <<>>
                            /\ pc'[k] = "credit" => order'[o].status = "success" /\ credits[o] = <<>>
    BY <1>3 DEF EpayLocked
  <2>1. \A g, k \in Handlers : WorksOn(g, o)' /\ WorksOn(k, o)' => g = k
    BY DEF IInv, EpayLocked, WorksOn, Moves
  <2>2. CASE o = row[h]
    <3>1. \A k \in Handlers : k # h => ~(row'[k] = o /\ pc'[k] \in {"save", "credit"})
      BY <2>2 DEF IInv, EpayLocked, WorksOn, Moves
    <3>2. credits[o] = <<>> /\ order'[o].status = "success"
      BY <1>1, <1>2, <1>3, <2>2 DEF IInv, EpayLocked
    <3> QED
      BY <2>1, <3>1, <3>2 DEF Moves
  <2>3. CASE o # row[h]
    BY <1>3, <2>1, <2>3 DEF IInv, EpayLocked, Moves
  <2> QED
    BY <2>2, <2>3
<1>8. Spent'
  BY <1>2, <1>3, <1>6 DEF IInv, Spent, Vouchers
<1>9. CreditedOnce'
  BY <1>6 DEF IInv, CreditedOnce
<1>10. Backed'
  <2> SUFFICES ASSUME NEW o \in Orders, order'[o].status = "success", credits[o] = <<>>
               PROVE  /\ order[o].provider = "epay"
                      /\ faults' > 0 \/ \E k \in Handlers : pc'[k] = "credit" /\ row'[k] = o
    BY <1>3 DEF Backed
  <2>1. faults \in Nat /\ faults' \in Nat /\ faults' >= faults
    BY BoundsAssumption DEF IInv, Shape, TypeOK, Aside
  <2>2. CASE o = row[h]
    BY <1>1, <1>2, <1>3, <2>2 DEF Moves
  <2>3. CASE o # row[h]
    BY <1>3, <2>1, <2>3 DEF IInv, Backed, Moves
  <2> QED
    BY <2>2, <2>3
<1> QED
  BY <1>4, <1>5, <1>7, <1>8, <1>9, <1>10 DEF IInv, Shape

\* Epay's credit, in a statement of its own.
LEMMA CreditedKeeps ==
    ASSUME IInv, NEW h \in Handlers, NEW p \in {"idle", "rebate"}, Moves(h, p), Aside,
           pc[h] = "credit", AddQuota(h), UNCHANGED <<order, code>>
    PROVE  IInv'
<1>1. /\ credits' \in [Vouchers -> Seq(Nat)]
      /\ \A v \in Vouchers : v # row[h] => credits'[v] = credits[v]
      /\ credits'[row[h]] # <<>>
      /\ Len(credits'[row[h]]) = Len(credits[row[h]]) + 1
  BY AddQuotaEffect DEF IInv, Shape
<1>2. row[h] \in Orders /\ order[row[h]].provider = "epay" /\ row[h] \in Vouchers
  BY DEF IInv, Shape, HandlerFits, Vouchers
<1>3. OneNode => credits[row[h]] = <<>> /\ order[row[h]].status = "success"
  BY <1>2 DEF IInv, EpayLocked
<1>4. TypeOK'
  BY <1>1 DEF IInv, Shape, TypeOK, Moves, Aside
<1>5. HandlerFits' /\ EpayRouted'
  BY <1>2, MovesFits
<1>6. \A v \in Vouchers : Covered(v)' <=> Covered(v)
  BY DEF Covered
<1>7. Covered(row[h]) => OneNode
  BY <1>2 DEF Covered
<1>8. EpayLocked'
  <2> SUFFICES ASSUME OneNode, NEW o \in Orders, order[o].provider = "epay"
               PROVE  /\ \A g, k \in Handlers : WorksOn(g, o)' /\ WorksOn(k, o)' => g = k
                      /\ \A k \in Handlers : row'[k] = o =>
                            /\ pc'[k] = "save" => order[o].status = "pending" /\ credits'[o] = <<>>
                            /\ pc'[k] = "credit" => order[o].status = "success" /\ credits'[o] = <<>>
    BY DEF EpayLocked
  <2>1. \A g, k \in Handlers : WorksOn(g, o)' /\ WorksOn(k, o)' => g = k
    BY DEF IInv, EpayLocked, WorksOn, Moves
  <2>2. CASE o = row[h]
    <3>1. \A k \in Handlers : k # h => ~(row'[k] = o /\ pc'[k] \in {"save", "credit"})
      BY <2>2 DEF IInv, EpayLocked, WorksOn, Moves
    <3> QED
      BY <2>1, <3>1 DEF Moves
  <2>3. CASE o # row[h]
    <3>1. o \in Vouchers
      BY DEF Vouchers
    <3>2. credits'[o] = credits[o]
      BY <1>1, <2>3, <3>1
    <3>3. \A k \in Handlers : row'[k] = o /\ pc'[k] \in {"save", "credit"} => k # h
      BY DEF Moves
    <3> QED
      BY <2>1, <3>2, <3>3 DEF IInv, EpayLocked, Moves
  <2> QED
    BY <2>2, <2>3
<1>9. Spent'
  <2>1. ASSUME NEW o \in Orders, Covered(o), credits'[o] # <<>>
        PROVE  order[o].status \notin {"none", "pending"}
    BY <1>1, <1>3, <1>7, <2>1 DEF IInv, Spent, Vouchers
  <2>2. \A c \in Codes : credits'[c] = credits[c]
    BY <1>1, <1>2, VouchersAssumption DEF Vouchers
  <2> QED
    BY <1>6, <2>1, <2>2 DEF IInv, Spent, Vouchers
<1>10. CreditedOnce'
  <2> SUFFICES ASSUME NEW v \in Vouchers, Covered(v) PROVE Len(credits'[v]) <= 1
    BY <1>6 DEF CreditedOnce
  <2>1. CASE v = row[h]
    <3>1. credits[row[h]] = <<>>
      BY <1>3, <1>7, <2>1
    <3>2. Len(credits[row[h]]) = 0
      BY <3>1
    <3>3. Len(credits'[row[h]]) = 0 + 1
      BY <1>1, <3>2
    <3> QED
      BY <2>1, <3>3
  <2>2. CASE v # row[h]
    BY <1>1, <2>2 DEF IInv, CreditedOnce
  <2> QED
    BY <2>1, <2>2
<1>11. Backed'
  <2> SUFFICES ASSUME NEW o \in Orders, order[o].status = "success", credits'[o] = <<>>
               PROVE  /\ order[o].provider = "epay"
                      /\ faults' > 0 \/ \E k \in Handlers : pc'[k] = "credit" /\ row'[k] = o
    BY DEF Backed
  <2>1. o # row[h] /\ credits'[o] = credits[o]
    BY <1>1 DEF Vouchers
  <2>2. faults \in Nat /\ faults' \in Nat /\ faults' >= faults
    BY BoundsAssumption DEF IInv, Shape, TypeOK, Aside
  <2> QED
    BY <2>1, <2>2 DEF IInv, Backed, Moves
<1> QED
  BY <1>4, <1>5, <1>8, <1>9, <1>10, <1>11 DEF IInv, Shape

\* A fault is counted, within its bound.
LEMMA FaultCounted ==
    ASSUME TypeOK
    PROVE  /\ Fault => faults' \in 0..MaxFaults /\ faults' >= faults /\ faults' > 0
           /\ UNCHANGED faults => faults' \in 0..MaxFaults /\ faults' >= faults
<1>1. faults \in 0..MaxFaults /\ MaxFaults \in Nat
  BY BoundsAssumption DEF TypeOK
<1> QED
  BY <1>1 DEF Fault

\* Claim, LoseClaim and ClaimFails: the transaction commits or does nothing.
LEMMA ClaimKeeps ==
    ASSUME IInv, NEW h \in Handlers, Claim(h) \/ LoseClaim(h) \/ ClaimFails(h)
    PROVE  IInv'
<1> USE DEF IInv, Shape
<1>1. job[h] \in {"fulfil", "epay", "fail", "expire"} => row[h] \in Orders
  BY DEF Claim, LoseClaim, ClaimFails, HandlerFits
<1>2. acked' \subseteq Orders
  BY <1>1, AnswerType DEF Claim, LoseClaim, ClaimFails
<1>3. Aside
  <2>1. Fault \/ UNCHANGED faults
    BY DEF Claim, LoseClaim, ClaimFails
  <2>2. rebates' = rebates /\ UNCHANGED <<fate, edits>>
    BY DEF Claim, LoseClaim, ClaimFails, moneyVars
  <2>3. rebates' \in [Orders -> Nat]
    BY <2>2 DEF TypeOK
  <2> QED
    BY <1>2, <2>1, <2>2, <2>3, FaultCounted DEF Aside
<1> HIDE DEF IInv, Shape
<1>4. CASE Claim(h)
  <2>1. PICK p \in {"idle", "rebate"} : Moves(h, p) /\ (p = "rebate" => row[h] \in Orders)
    BY <1>4, ReleaseMoves, GoesOnMoves DEF Claim, IInv, Shape
  <2> QED
    BY <1>3, <1>4, <2>1, CommitKeeps DEF Claim
<1>5. CASE LoseClaim(h)
  <2>1. Moves(h, "idle") /\ UNCHANGED <<order, code, credits>> /\ pc[h] = "claim"
    BY <1>5, ReleaseMoves DEF LoseClaim, IInv, Shape, moneyVars
  <2> QED
    BY <1>3, <2>1, IdleKeeps
<1>6. CASE ClaimFails(h)
  <2>1. Moves(h, "idle") /\ pc[h] = "claim"
    BY <1>6, ReleaseMoves DEF ClaimFails, IInv, Shape
  <2> QED
    BY <1>3, <1>6, <2>1, IdleKeeps, CommitKeeps DEF ClaimFails
<1> QED
  BY <1>4, <1>5, <1>6

\* Save and SaveFails.
LEMMA SaveKeeps ==
    ASSUME IInv, NEW h \in Handlers, Save(h) \/ SaveFails(h)
    PROVE  IInv'
<1> USE DEF IInv, Shape
<1>1. pc[h] = "save" /\ row[h] \in Orders
  BY DEF Save, SaveFails, HandlerFits
<1>2. acked' \subseteq Orders
  BY <1>1, AnswerType DEF Save, SaveFails, TypeOK
<1>3. Aside /\ (SaveFails(h) => faults' > 0)
  <2>1. (SaveFails(h) => Fault) /\ (Fault \/ UNCHANGED faults)
    BY DEF Save, SaveFails
  <2>2. rebates' = rebates /\ UNCHANGED <<fate, edits>>
    BY DEF Save, SaveFails, moneyVars
  <2>3. rebates' \in [Orders -> Nat]
    BY <2>2 DEF TypeOK
  <2> QED
    BY <1>2, <2>1, <2>2, <2>3, FaultCounted DEF Aside
<1> HIDE DEF IInv, Shape
<1>4. CASE Save(h)
  <2>1. CASE job[h] = "epay"
    <3>1. Moves(h, "credit")
      BY <1>4, <2>1, GoesOnMoves DEF Save, IInv, Shape
    <3> QED
      BY <1>1, <1>3, <1>4, <2>1, <3>1, SavedKeeps DEF Save, moneyVars
  <2>2. CASE job[h] # "epay"
    <3>1. Moves(h, "idle")
      BY <1>4, <2>2, ReleaseMoves DEF Save, IInv, Shape
    <3> QED
      BY <1>1, <1>3, <1>4, <2>2, <3>1, SavedKeeps DEF Save, moneyVars
  <2> QED
    BY <2>1, <2>2
<1>5. CASE SaveFails(h)
  <2>1. Moves(h, "idle") /\ UNCHANGED <<code, credits>> /\ (Saved(h) \/ UNCHANGED order)
    BY <1>5, ReleaseMoves DEF SaveFails, IInv, Shape, moneyVars
  <2> QED
    BY <1>1, <1>3, <1>5, <2>1, SavedKeeps, IdleKeeps
<1> QED
  BY <1>4, <1>5

\* Credit and CreditFails.
LEMMA CreditKeeps ==
    ASSUME IInv, NEW h \in Handlers, Credit(h) \/ CreditFails(h)
    PROVE  IInv'
<1> USE DEF IInv, Shape
<1>1. pc[h] = "credit" /\ row[h] \in Orders
  BY DEF Credit, CreditFails, HandlerFits
<1>2. acked' \subseteq Orders
  BY <1>1, AnswerType DEF Credit, CreditFails
<1>3. Aside /\ (CreditFails(h) => faults' > 0)
  <2>1. (CreditFails(h) => Fault) /\ (Fault \/ UNCHANGED faults)
    BY DEF Credit, CreditFails
  <2>2. rebates' = rebates /\ UNCHANGED <<fate, edits>>
    BY DEF Credit, CreditFails
  <2>3. rebates' \in [Orders -> Nat]
    BY <2>2 DEF TypeOK
  <2> QED
    BY <1>2, <2>1, <2>2, <2>3, FaultCounted DEF Aside
<1> HIDE DEF IInv, Shape
<1>4. CASE Credit(h)
  <2>1. Moves(h, "rebate")
    BY <1>4, GoesOnMoves DEF Credit, IInv, Shape
  <2> QED
    BY <1>1, <1>3, <1>4, <2>1, CreditedKeeps DEF Credit
<1>5. CASE CreditFails(h)
  <2>1. Moves(h, "idle") /\ UNCHANGED <<order, code>> /\ (AddQuota(h) \/ UNCHANGED credits)
    BY <1>5, ReleaseMoves DEF CreditFails, IInv, Shape
  <2> QED
    BY <1>1, <1>3, <1>5, <2>1, CreditedKeeps, IdleKeeps
<1> QED
  BY <1>4, <1>5

\* The rebate.
LEMMA RebateKeeps ==
    ASSUME IInv, NEW h \in Handlers, ProcessAffiliateRebate(h)
    PROVE  IInv'
<1>1. pc[h] = "rebate" /\ row[h] \in Orders
  BY DEF ProcessAffiliateRebate, IInv, Shape, HandlerFits
<1>2. rebates' \in [Orders -> Nat]
  <2>1. rebates \in [Orders -> Nat] /\ rebates[row[h]] + 1 \in Nat
    BY <1>1 DEF IInv, Shape, TypeOK
  <2>2. rebates' = [rebates EXCEPT ![row[h]] = rebates[row[h]] + 1] \/ rebates' = rebates
    BY DEF ProcessAffiliateRebate
  <2> QED
    BY <2>1, <2>2
<1>3. Aside
  <2>1. (Fault \/ UNCHANGED faults) /\ UNCHANGED <<fate, edits, acked>>
    BY DEF ProcessAffiliateRebate
  <2>2. acked' \subseteq Orders /\ TypeOK
    BY <2>1 DEF IInv, Shape, TypeOK
  <2> QED
    BY <1>2, <2>1, <2>2, FaultCounted DEF Aside
<1>4. Moves(h, "idle") /\ UNCHANGED <<order, code, credits>>
  BY ReleaseMoves DEF ProcessAffiliateRebate, IInv, Shape
<1> QED
  BY <1>1, <1>3, <1>4, IdleKeeps

\* Edits and deletions change only codes that CreditedOnce leaves out.
LEMMA EditKeeps ==
    ASSUME IInv, code' \in [Codes -> CodeStatuses],
           \A c \in Codes \ Editable : code'[c] = code[c],
           UNCHANGED <<order, credits, rebates, fate, acked, faults, edits>>,
           \/ UNCHANGED <<pc, job, row, seen>>
           \/ \E h \in Handlers : pc[h] = "write" /\ Moves(h, "idle")
    PROVE  IInv'
<1>1. TypeOK'
  BY DEF IInv, Shape, TypeOK, Moves
<1>2. Spent' /\ CreditedOnce'
  BY DEF IInv, Spent, Covered, CreditedOnce
<1>3. CASE UNCHANGED <<pc, job, row, seen>>
  <2>1. HandlerFits' /\ EpayRouted' /\ EpayLocked' /\ Backed'
    BY <1>3 DEF IInv, Shape, HandlerFits, EpayRouted, EpayLocked, Backed, WorksOn
  <2> QED
    BY <1>1, <1>2, <2>1 DEF IInv, Shape
<1>4. ASSUME NEW h \in Handlers, pc[h] = "write", Moves(h, "idle") PROVE IInv'
  <2>1. HandlerFits'
    BY <1>4 DEF IInv, Shape, HandlerFits, Moves
  <2>2. EpayRouted' /\ EpayLocked'
    BY <1>4 DEF IInv, Shape, EpayRouted, EpayLocked, WorksOn, Moves
  <2>3. Backed'
    BY <1>4 DEF IInv, Backed, Moves
  <2> QED
    BY <1>1, <1>2, <2>1, <2>2, <2>3 DEF IInv, Shape
<1> QED
  BY <1>3, <1>4

\* The second half of an edit.
LEMMA WriteKeeps ==
    ASSUME IInv, NEW h \in Handlers, WriteRedemption(h)
    PROVE  IInv'
<1>1. row[h] \in Editable /\ row[h] \in Codes /\ seen[h] \in CodeStatuses /\ pc[h] = "write"
  BY VouchersAssumption DEF WriteRedemption, IInv, Shape, HandlerFits
<1>2. code' \in [Codes -> CodeStatuses] /\ \A c \in Codes \ Editable : code'[c] = code[c]
  <2>1. code \in [Codes -> CodeStatuses]
    BY DEF IInv, Shape, TypeOK
  <2>2. code' = code \/ \E x \in CodeStatuses : code' = [code EXCEPT ![row[h]] = x]
    BY <1>1 DEF WriteRedemption, CodeStatuses
  <2> QED
    BY <1>1, <2>1, <2>2
<1>3. Moves(h, "idle") /\ UNCHANGED <<order, credits, rebates, fate, acked, faults, edits>>
  BY ReleaseMoves DEF WriteRedemption, IInv, Shape, moneyVars
<1> QED
  BY <1>1, <1>2, <1>3, EditKeeps

\* The deletion of a code.
LEMMA DeleteKeeps ==
    ASSUME IInv, NEW c \in Editable, DeleteRedemption(c)
    PROVE  IInv'
<1>1. code' \in [Codes -> CodeStatuses] /\ \A x \in Codes \ Editable : code'[x] = code[x]
  BY VouchersAssumption DEF DeleteRedemption, IInv, Shape, TypeOK, CodeStatuses
<1>2. UNCHANGED <<order, credits, rebates, fate, acked, faults, edits, pc, job, row, seen>>
  BY DEF DeleteRedemption, handVars, moneyVars
<1> QED
  BY <1>1, <1>2, EditKeeps

\* A crash ends the handlers of a node.
LEMMA CrashKeeps ==
    ASSUME IInv, NEW n \in Nodes, Crash(n)
    PROVE  IInv'
<1>1. AnyVoucher \in Vouchers
  BY VouchersAssumption DEF AnyVoucher
<1>2. /\ faults' \in 0..MaxFaults /\ faults' > 0
      /\ UNCHANGED <<order, code, credits, rebates, fate, acked, edits>>
  BY BoundsAssumption DEF Crash, Fault, moneyVars, IInv, Shape, TypeOK
<1>3. /\ pc' \in [Handlers -> {"idle", "claim", "save", "credit", "rebate", "write"}]
      /\ job' \in [Handlers -> Jobs]
      /\ row' \in [Handlers -> Vouchers]
      /\ seen' \in [Handlers -> {"none"} \cup CodeStatuses]
  BY <1>1 DEF Crash, IInv, Shape, TypeOK, Jobs
<1>4. \A h \in Handlers :
         \/ pc'[h] = "idle"
         \/ pc'[h] = pc[h] /\ job'[h] = job[h] /\ row'[h] = row[h] /\ seen'[h] = seen[h]
  BY DEF Crash
<1>5. TypeOK'
  BY <1>2, <1>3 DEF IInv, Shape, TypeOK
<1>6. HandlerFits'
  BY <1>2, <1>4 DEF IInv, Shape, HandlerFits
<1>7. EpayRouted' /\ EpayLocked'
  BY <1>2, <1>4 DEF IInv, Shape, EpayRouted, EpayLocked, WorksOn
<1>8. Spent' /\ CreditedOnce'
  BY <1>2 DEF IInv, Spent, Covered, CreditedOnce
<1>9. Backed'
  BY <1>2 DEF IInv, Backed
<1> QED
  BY <1>5, <1>6, <1>7, <1>8, <1>9 DEF IInv, Shape

\* Every step keeps the invariant.
LEMMA NextKeeps == IInv /\ [Next]_vars => IInv'
<1> SUFFICES ASSUME IInv, [Next]_vars PROVE IInv'
  OBVIOUS
<1>1. CASE UNCHANGED vars
  <2> USE <1>1 DEF vars
  <2>1. TypeOK' /\ HandlerFits' /\ EpayRouted' /\ EpayLocked'
    BY DEF IInv, Shape, TypeOK, HandlerFits, EpayRouted, EpayLocked, WorksOn
  <2>2. Spent' /\ CreditedOnce' /\ Backed'
    BY DEF IInv, Spent, Covered, CreditedOnce, Backed
  <2> QED
    BY <2>1, <2>2 DEF IInv, Shape
<1>2. ASSUME NEW o \in Orders, RequestPay(o) \/ PaymentEnds(o) PROVE IInv'
  BY <1>2, RequestPayKeeps, PaymentEndsKeeps
<1>3. ASSUME NEW h \in Handlers, NEW o \in Orders,
             Deliver(h, o) \/ ManualCompleteTopUp(h, o) \/ AbandonCheckout(h, o)
      PROVE  IInv'
  BY <1>3, DeliverKeeps, ManualKeeps, AbandonKeeps
<1>4. ASSUME NEW h \in Handlers, NEW c \in Codes, Redeem(h, c) PROVE IInv'
  BY <1>4, RedeemKeeps
<1>5. ASSUME NEW h \in Handlers, NEW c \in Editable, UpdateRedemption(h, c) PROVE IInv'
  BY <1>5, RedeemKeeps, VouchersAssumption
<1>6. ASSUME NEW c \in Editable, DeleteRedemption(c) PROVE IInv'
  BY <1>6, DeleteKeeps
<1>7. ASSUME NEW h \in Handlers, Step(h) PROVE IInv'
  BY <1>7, ClaimKeeps, SaveKeeps, CreditKeeps, RebateKeeps, WriteKeeps DEF Step
<1>8. ASSUME NEW n \in Nodes, Crash(n) PROVE IInv'
  BY <1>8, CrashKeeps
<1> QED
  BY <1>1, <1>2, <1>3, <1>4, <1>5, <1>6, <1>7, <1>8 DEF Next

----------------------------------------------------------------------------
(* Theorems. *)

\* The inductive invariant: handlers fit their rows, the lock of one process
\* keeps an Epay order to one handler, and what is credited is not claimable.
THEOREM Invariance == Spec => []IInv
BY InitInv, NextKeeps, PTL DEF Spec

\* Every reachable state is well typed: orders keep to the statuses of orders,
\* codes to those of codes, and every credit is a natural number.
THEOREM TypeCorrect == Spec => []TypeOK
<1>1. IInv => TypeOK
  BY DEF IInv, Shape
<1> QED
  BY <1>1, Invariance, PTL

\* Webhooks in any number and order, on any nodes, manual completions and
\* redemptions credit a covered order or code at most once.
THEOREM OnceCredited == Spec => []CreditedOnce
<1>1. IInv => CreditedOnce
  BY DEF IInv
<1> QED
  BY <1>1, Invariance, PTL

\* A successful order has its credit, but for Epay's two statements, and a
\* credited order is not pending.
THEOREM SuccessCredited == Spec => []SuccessIsCredited
<1>1. IInv => SuccessIsCredited
  BY DEF IInv, Backed, Spent, SuccessIsCredited
<1> QED
  BY <1>1, Invariance, PTL

----------------------------------------------------------------------------
(* Rebates. *)

\* The handlers that still have to pay the rebate of o.
Due(o) == {h \in Handlers : pc[h] = "rebate" /\ row[h] = o}

\* A rebate that is paid or due has its credit.
RebateInv == \A o \in Orders : rebates[o] + Cardinality(Due(o)) <= Len(credits[o])

\* The handlers of one order are finitely many.
LEMMA DueFinite ==
    ASSUME NEW o \in Orders
    PROVE  /\ IsFiniteSet(Due(o)) /\ Cardinality(Due(o)) \in Nat
           /\ IsFiniteSet(Due(o)') /\ Cardinality(Due(o)') \in Nat
<1>1. Due(o) \subseteq Handlers /\ Due(o)' \subseteq Handlers /\ IsFiniteSet(Handlers)
  BY HandlersAssumption DEF Due
<1> QED
  BY <1>1, FS_Subset, FS_CardinalityType

\* A step that makes no rebate due and takes no credit back.
LEMMA NoneDue ==
    ASSUME IInv, RebateInv, rebates' = rebates,
           \A g \in Handlers : pc'[g] = "rebate" => pc[g] = "rebate" /\ row'[g] = row[g],
           credits' = credits \/ \E h \in Handlers : AddQuota(h)
    PROVE  RebateInv'
<1> SUFFICES ASSUME NEW o \in Orders
             PROVE  rebates[o] + Cardinality(Due(o)') <= Len(credits'[o])
  BY DEF RebateInv
<1>1. Due(o)' \subseteq Due(o)
  BY DEF Due
<1>2. Cardinality(Due(o)') <= Cardinality(Due(o))
  BY <1>1, DueFinite, FS_Subset
<1>3. o \in Vouchers /\ Len(credits[o]) \in Nat /\ rebates[o] \in Nat
  BY DEF IInv, Shape, TypeOK, Vouchers
<1>4. Len(credits'[o]) = Len(credits[o]) \/ Len(credits'[o]) = Len(credits[o]) + 1
  <2>1. CASE credits' = credits
    BY <2>1
  <2>2. ASSUME NEW h \in Handlers, AddQuota(h)
        PROVE  Len(credits'[o]) = Len(credits[o]) \/ Len(credits'[o]) = Len(credits[o]) + 1
    <3>1. /\ \A v \in Vouchers : v # row[h] => credits'[v] = credits[v]
          /\ Len(credits'[row[h]]) = Len(credits[row[h]]) + 1
      BY <2>2, AddQuotaEffect DEF IInv, Shape
    <3> QED
      BY <1>3, <3>1
  <2> QED
    BY <2>1, <2>2
<1>5. rebates[o] + Cardinality(Due(o)) <= Len(credits[o])
  BY DEF RebateInv
<1>6. Cardinality(Due(o)) \in Nat /\ Cardinality(Due(o)') \in Nat
  BY DueFinite
<1> QED
  BY <1>2, <1>3, <1>4, <1>5, <1>6

\* A credit makes one rebate due.
LEMMA OneDue ==
    ASSUME IInv, RebateInv, rebates' = rebates, NEW h \in Handlers, row[h] \in Orders,
           pc[h] # "rebate", Moves(h, "rebate"), AddQuota(h)
    PROVE  RebateInv'
<1> SUFFICES ASSUME NEW o \in Orders
             PROVE  rebates[o] + Cardinality(Due(o)') <= Len(credits'[o])
  BY DEF RebateInv
<1>1. /\ \A v \in Vouchers : v # row[h] => credits'[v] = credits[v]
      /\ Len(credits'[row[h]]) = Len(credits[row[h]]) + 1
  BY AddQuotaEffect DEF IInv, Shape
<1>2. o \in Vouchers /\ Len(credits[o]) \in Nat /\ rebates[o] \in Nat
  BY DEF IInv, Shape, TypeOK, Vouchers
<1>3. rebates[o] + Cardinality(Due(o)) <= Len(credits[o])
  BY DEF RebateInv
<1>4. Cardinality(Due(o)) \in Nat
  BY DueFinite
<1>5. CASE o = row[h]
  <2>1. Due(o)' = Due(o) \cup {h} /\ h \notin Due(o)
    BY <1>5 DEF Due, Moves
  <2>2. Cardinality(Due(o)') = Cardinality(Due(o)) + 1
    BY <2>1, DueFinite, FS_AddElement
  <2>3. Len(credits'[o]) = Len(credits[o]) + 1
    BY <1>1, <1>5
  <2> QED
    BY <1>2, <1>3, <1>4, <2>2, <2>3
<1>6. CASE o # row[h]
  <2>1. Due(o)' = Due(o) /\ credits'[o] = credits[o]
    BY <1>1, <1>2, <1>6 DEF Due, Moves
  <2> QED
    BY <1>3, <2>1
<1> QED
  BY <1>5, <1>6

\* A rebate that is paid is not due any more.
LEMMA OnePaid ==
    ASSUME IInv, RebateInv, NEW h \in Handlers, ProcessAffiliateRebate(h)
    PROVE  RebateInv'
<1>1. pc[h] = "rebate" /\ row[h] \in Orders /\ Moves(h, "idle") /\ credits' = credits
  BY ReleaseMoves DEF ProcessAffiliateRebate, IInv, Shape, HandlerFits
<1>2. \A g \in Handlers : pc'[g] = "rebate" => pc[g] = "rebate" /\ row'[g] = row[g]
  BY <1>1 DEF Moves
<1>3. CASE rebates' = rebates
  BY <1>1, <1>2, <1>3, NoneDue
<1>4. CASE rebates' = [rebates EXCEPT ![row[h]] = rebates[row[h]] + 1]
  <2> SUFFICES ASSUME NEW o \in Orders
               PROVE  rebates'[o] + Cardinality(Due(o)') <= Len(credits[o])
    BY <1>1 DEF RebateInv
  <2>1. rebates \in [Orders -> Nat] /\ rebates[o] + Cardinality(Due(o)) <= Len(credits[o])
    BY DEF IInv, Shape, TypeOK, RebateInv
  <2>2. Cardinality(Due(o)) \in Nat /\ Cardinality(Due(o)') \in Nat
    BY DueFinite
  <2>3. CASE o = row[h]
    <3>1. Due(o)' = Due(o) \ {h} /\ h \in Due(o)
      BY <1>1, <2>3 DEF Due, Moves
    <3>2. Cardinality(Due(o)') = Cardinality(Due(o)) - 1
      BY <3>1, DueFinite, FS_RemoveElement
    <3>3. rebates'[o] = rebates[o] + 1
      BY <1>4, <2>1, <2>3
    <3>4. rebates[o] \in Nat
      BY <2>1
    <3>5. Len(credits[o]) \in Nat
      BY DEF IInv, Shape, TypeOK, Vouchers
    <3> QED
      BY <2>1, <2>2, <3>2, <3>3, <3>4, <3>5
  <2>4. CASE o # row[h]
    <3>1. Due(o)' = Due(o) /\ rebates'[o] = rebates[o]
      BY <1>1, <1>4, <2>1, <2>4 DEF Due, Moves
    <3> QED
      BY <2>1, <3>1
  <2> QED
    BY <2>3, <2>4
<1> QED
  BY <1>3, <1>4 DEF ProcessAffiliateRebate

\* Only a step of a handler that was at work adds quota, and only Claim and
\* Credit go on to the rebate.
LEMMA RebateStep == IInv /\ RebateInv /\ [Next]_vars => RebateInv'
<1> SUFFICES ASSUME IInv, RebateInv, [Next]_vars PROVE RebateInv'
  OBVIOUS
<1> DEFINE Rests == \A g \in Handlers : pc'[g] = "rebate" => pc[g] = "rebate" /\ row'[g] = row[g]
<1>1. CASE UNCHANGED vars
  BY <1>1, NoneDue DEF vars
<1>2. ASSUME NEW o \in Orders, RequestPay(o) \/ PaymentEnds(o) PROVE RebateInv'
  BY <1>2, NoneDue DEF RequestPay, PaymentEnds, handVars, moneyVars
<1>3. ASSUME NEW h \in Handlers, NEW v \in Vouchers, NEW j \in Jobs,
             NEW p \in {"claim", "save", "write"}, Take(h, j, v, p), UNCHANGED moneyVars
      PROVE  RebateInv'
  <2>1. Rests
    BY <1>3, TakeEffect DEF IInv, Shape
  <2> QED
    BY <1>3, <2>1, NoneDue DEF moneyVars
<1>4. ASSUME NEW h \in Handlers, NEW o \in Orders,
             Deliver(h, o) \/ ManualCompleteTopUp(h, o) \/ AbandonCheckout(h, o)
      PROVE  RebateInv'
  <2>1. o \in Vouchers /\ EventJob(o) \in Jobs /\ {"manual", "abandon"} \subseteq Jobs
    BY DEF Vouchers, Jobs, EventJob
  <2>2. UNCHANGED moneyVars
    BY <1>4 DEF Deliver, ManualCompleteTopUp, AbandonCheckout
  <2>3. \/ UNCHANGED <<pc, job, row>>
        \/ \E j \in Jobs, p \in {"claim", "save"} : Take(h, j, o, p)
    <3>1. CASE Deliver(h, o)
      BY <2>1, <3>1 DEF Deliver
    <3>2. CASE ManualCompleteTopUp(h, o) \/ AbandonCheckout(h, o)
      BY <2>1, <3>2 DEF ManualCompleteTopUp, AbandonCheckout
    <3> QED
      BY <1>4, <3>1, <3>2
  <2>4. CASE UNCHANGED <<pc, job, row>>
    BY <2>2, <2>4, NoneDue DEF moneyVars
  <2> QED
    BY <1>3, <2>1, <2>2, <2>3, <2>4
<1>5. ASSUME NEW h \in Handlers, NEW c \in Codes, Redeem(h, c) \/ UpdateRedemption(h, c)
      PROVE  RebateInv'
  <2>1. c \in Vouchers /\ {"redeem", "edit"} \subseteq Jobs
    BY DEF Vouchers, Jobs
  <2> QED
    BY <1>3, <1>5, <2>1 DEF Redeem, UpdateRedemption
<1>6. ASSUME NEW c \in Editable, DeleteRedemption(c) PROVE RebateInv'
  BY <1>6, NoneDue DEF DeleteRedemption, handVars, moneyVars
<1>7. ASSUME NEW h \in Handlers, Release(h), rebates' = rebates,
             credits' = credits \/ AddQuota(h)
      PROVE  RebateInv'
  <2>1. Rests
    BY <1>7, ReleaseMoves DEF IInv, Shape, Moves
  <2> QED
    BY <1>7, <2>1, NoneDue
<1>8. ASSUME NEW h \in Handlers, Step(h) PROVE RebateInv'
  <2>1. CASE Claim(h) /\ row[h] \in Orders
    <3>1. Moves(h, "rebate") /\ AddQuota(h) /\ pc[h] = "claim" /\ rebates' = rebates
      BY <2>1, GoesOnMoves DEF Claim, Committed, IInv, Shape
    <3> QED
      BY <2>1, <3>1, OneDue
  <2>2. CASE Claim(h) /\ row[h] \notin Orders
    BY <1>7, <2>2 DEF Claim, Committed
  <2>3. CASE LoseClaim(h)
    BY <1>7, <2>3 DEF LoseClaim, moneyVars
  <2>4. CASE ClaimFails(h)
    BY <1>7, <2>4 DEF ClaimFails, Committed
  <2>5. CASE Save(h)
    <3>1. CASE job[h] = "epay"
      <4>1. Moves(h, "credit") /\ UNCHANGED moneyVars
        BY <2>5, <3>1, GoesOnMoves DEF Save, IInv, Shape
      <4>2. Rests
        BY <4>1 DEF Moves
      <4> QED
        BY <4>1, <4>2, NoneDue DEF moneyVars
    <3>2. CASE job[h] # "epay"
      BY <1>7, <2>5, <3>2 DEF Save, moneyVars
    <3> QED
      BY <3>1, <3>2
  <2>6. CASE SaveFails(h)
    BY <1>7, <2>6 DEF SaveFails, moneyVars
  <2>7. CASE Credit(h)
    <3>1. Moves(h, "rebate") /\ AddQuota(h) /\ pc[h] = "credit" /\ rebates' = rebates
      BY <2>7, GoesOnMoves DEF Credit, IInv, Shape
    <3>2. row[h] \in Orders
      BY <3>1 DEF IInv, Shape, HandlerFits
    <3> QED
      BY <3>1, <3>2, OneDue
  <2>8. CASE CreditFails(h)
    BY <1>7, <2>8 DEF CreditFails
  <2>9. CASE ProcessAffiliateRebate(h)
    BY <2>9, OnePaid
  <2>10. CASE WriteRedemption(h)
    BY <1>7, <2>10 DEF WriteRedemption, moneyVars
  <2> QED
    BY <1>8, <2>1, <2>2, <2>3, <2>4, <2>5, <2>6, <2>7, <2>8, <2>9, <2>10 DEF Step
<1>9. ASSUME NEW n \in Nodes, Crash(n) PROVE RebateInv'
  <2>1. Rests
    BY <1>9 DEF Crash
  <2> QED
    BY <1>9, <2>1, NoneDue DEF Crash, moneyVars
<1> QED
  BY <1>1, <1>2, <1>4, <1>5, <1>6, <1>8, <1>9, VouchersAssumption DEF Next

\* Nothing is due before a credit.
LEMMA RebateInit == Init => RebateInv
<1> SUFFICES ASSUME Init, NEW o \in Orders
             PROVE  rebates[o] + Cardinality(Due(o)) <= Len(credits[o])
  BY DEF RebateInv
<1>1. Due(o) = {}
  BY DEF Init, Due
<1>2. Cardinality(Due(o)) = 0
  BY <1>1, FS_EmptySet
<1>3. rebates[o] = 0 /\ Len(credits[o]) = 0
  BY DEF Init, Vouchers
<1> QED
  BY <1>2, <1>3

\* The inviter is paid once for each credit and for nothing else, however many
\* handlers find the same order completed.
THEOREM RebatesBacked == Spec => []RebatedPerCredit
<1>1. IInv /\ RebateInv => RebatedPerCredit
  <2> SUFFICES ASSUME IInv, RebateInv, NEW o \in Orders PROVE rebates[o] <= Len(credits[o])
    BY DEF RebatedPerCredit
  <2>1. rebates[o] \in Nat /\ Len(credits[o]) \in Nat /\ Cardinality(Due(o)) \in Nat
    BY DueFinite DEF IInv, Shape, TypeOK, Vouchers
  <2>2. rebates[o] + Cardinality(Due(o)) <= Len(credits[o])
    BY DEF RebateInv
  <2> QED
    BY <2>1, <2>2
<1> QED
  BY <1>1, Invariance, RebateInit, RebateStep, PTL DEF Spec

----------------------------------------------------------------------------
(* TopUp implements CreditOnce. *)

\* The provider of an order never changes.
LEMMA ProviderStays ==
    ASSUME IInv, [Next]_vars
    PROVE  \A o \in Orders : order'[o].provider = order[o].provider
<1>1. order \in [Orders -> [provider : Providers, status : OrderStatuses]]
  BY DEF IInv, Shape, TypeOK
<1>2. ASSUME NEW x \in Orders, NEW st, order' = [order EXCEPT ![x].status = st]
      PROVE  \A o \in Orders : order'[o].provider = order[o].provider
  BY <1>1, <1>2
<1>3. ASSUME NEW x \in Orders, RequestPay(x) \/ PaymentEnds(x)
      PROVE  UNCHANGED order \/ \E st \in OrderStatuses : order' = [order EXCEPT ![x].status = st]
  BY <1>3 DEF RequestPay, PaymentEnds, OrderStatuses
<1>4. ASSUME NEW h \in Handlers, Step(h)
      PROVE  \/ UNCHANGED order
             \/ row[h] \in Orders /\ \E st \in OrderStatuses : order' = [order EXCEPT ![row[h]].status = st]
  <2>1. Claimed(h) => \/ UNCHANGED order
                      \/ row[h] \in Orders /\ order' = [order EXCEPT ![row[h]].status = "success"]
    BY DEF Claimed
  <2>2. pc[h] = "save" => row[h] \in Orders /\ SavedStatus(job[h]) \in OrderStatuses
    BY DEF IInv, Shape, HandlerFits, SavedStatus, OrderStatuses
  <2>3. CASE Claim(h) \/ LoseClaim(h) \/ ClaimFails(h)
    BY <2>1, <2>3 DEF Claim, LoseClaim, ClaimFails, Committed, OrderStatuses
  <2>4. CASE Save(h) \/ SaveFails(h)
    BY <2>2, <2>4 DEF Save, SaveFails, Saved
  <2>5. CASE Credit(h) \/ CreditFails(h) \/ ProcessAffiliateRebate(h) \/ WriteRedemption(h)
    BY <2>5 DEF Credit, CreditFails, ProcessAffiliateRebate, WriteRedemption
  <2> QED
    BY <1>4, <2>3, <2>4, <2>5 DEF Step
<1>5. \/ UNCHANGED order
      \/ \E x \in Orders, st \in OrderStatuses : order' = [order EXCEPT ![x].status = st]
  <2>1. CASE UNCHANGED vars
    BY <2>1 DEF vars
  <2>2. CASE Next
    <3>1. ASSUME NEW h \in Handlers, NEW o \in Orders,
                 Deliver(h, o) \/ ManualCompleteTopUp(h, o) \/ AbandonCheckout(h, o)
          PROVE  UNCHANGED order
      BY <3>1 DEF Deliver, ManualCompleteTopUp, AbandonCheckout
    <3>2. ASSUME NEW h, NEW c, Redeem(h, c) \/ UpdateRedemption(h, c) PROVE UNCHANGED order
      BY <3>2 DEF Redeem, UpdateRedemption
    <3>3. ASSUME NEW c, DeleteRedemption(c) \/ Crash(c) PROVE UNCHANGED order
      BY <3>3 DEF DeleteRedemption, Crash
    <3> QED
      BY <1>3, <1>4, <2>2, <3>1, <3>2, <3>3 DEF Next
  <2> QED
    BY <2>1, <2>2
<1> QED
  BY <1>2, <1>5

\* A covered row that is about to be credited has no credit yet.
LEMMA FreshCredit ==
    ASSUME IInv, NEW h \in Handlers, Covered(row[h]),
           (pc[h] = "claim" /\ Claimable(h)) \/ pc[h] = "credit"
    PROVE  credits[row[h]] = <<>>
<1>1. row[h] \in Vouchers
  BY DEF IInv, Shape, TypeOK
<1>2. CASE pc[h] = "claim" /\ row[h] \in Orders
  BY <1>2 DEF IInv, Spent, Claimable
<1>3. CASE pc[h] = "claim" /\ row[h] \notin Orders
  BY <1>1, <1>3 DEF IInv, Spent, Claimable, Covered, Vouchers
<1>4. CASE pc[h] = "credit"
  BY <1>4 DEF IInv, Shape, HandlerFits, EpayLocked, Covered
<1> QED
  BY <1>2, <1>3, <1>4

\* A step leaves all credits alone or is a claim or an Epay credit.
LEMMA CreditSteps ==
    ASSUME IInv, [Next]_vars
    PROVE  \/ credits' = credits
           \/ \E h \in Handlers : /\ AddQuota(h)
                                  /\ (pc[h] = "claim" /\ Claimable(h)) \/ pc[h] = "credit"
<1> USE DEF moneyVars
<1>1. CASE UNCHANGED vars
  BY <1>1 DEF vars
<1>2. CASE Next
  <2>1. ASSUME NEW o \in Orders, RequestPay(o) \/ PaymentEnds(o) PROVE credits' = credits
    BY <2>1 DEF RequestPay, PaymentEnds
  <2>2. ASSUME NEW h \in Handlers, NEW o \in Orders,
               Deliver(h, o) \/ ManualCompleteTopUp(h, o) \/ AbandonCheckout(h, o)
        PROVE  credits' = credits
    BY <2>2 DEF Deliver, ManualCompleteTopUp, AbandonCheckout
  <2>3. ASSUME NEW h, NEW c, Redeem(h, c) \/ UpdateRedemption(h, c) PROVE credits' = credits
    BY <2>3 DEF Redeem, UpdateRedemption
  <2>4. ASSUME NEW c, DeleteRedemption(c) \/ Crash(c) PROVE credits' = credits
    BY <2>4 DEF DeleteRedemption, Crash
  <2>5. ASSUME NEW h \in Handlers, Step(h)
        PROVE  \/ credits' = credits
               \/ AddQuota(h) /\ ((pc[h] = "claim" /\ Claimable(h)) \/ pc[h] = "credit")
    <3>1. CASE Claim(h) \/ LoseClaim(h) \/ ClaimFails(h)
      BY <3>1 DEF Claim, LoseClaim, ClaimFails, Committed
    <3>2. CASE Save(h) \/ SaveFails(h) \/ ProcessAffiliateRebate(h) \/ WriteRedemption(h)
      BY <3>2 DEF Save, SaveFails, ProcessAffiliateRebate, WriteRedemption
    <3>3. CASE Credit(h) \/ CreditFails(h)
      BY <3>3 DEF Credit, CreditFails
    <3> QED
      BY <2>5, <3>1, <3>2, <3>3 DEF Step
  <2> QED
    BY <1>2, <2>1, <2>2, <2>3, <2>4, <2>5 DEF Next
<1> QED
  BY <1>1, <1>2

\* Every step is a step of CreditOnce or leaves its state alone.
LEMMA RefinementStep == IInv /\ [Next]_vars => [Once!Next]_Credited
<1> SUFFICES ASSUME IInv, [Next]_vars PROVE Once!Next \/ Credited' = Credited
  OBVIOUS
<1>1. \A v \in Vouchers : Covered(v)' <=> Covered(v)
  BY ProviderStays DEF Covered, Vouchers
<1>2. CASE credits' = credits
  BY <1>1, <1>2 DEF Credited
<1>3. ASSUME NEW h \in Handlers, AddQuota(h),
             (pc[h] = "claim" /\ Claimable(h)) \/ pc[h] = "credit"
      PROVE  Once!Next \/ Credited' = Credited
  <2> DEFINE q == QuotaToAdd(job[h], row[h])
  <2>1. row[h] \in Vouchers
    BY DEF IInv, Shape, TypeOK
  <2>2. /\ \A v \in Vouchers : v # row[h] => credits'[v] = credits[v]
        /\ credits[row[h]] = <<>> => credits'[row[h]] = <<q>>
    BY <1>3, AddQuotaEffect DEF IInv, Shape
  <2>3. q \in Worth[row[h]]
    BY <2>1 DEF QuotaToAdd, Worth, Vouchers
  <2> HIDE DEF q
  <2>4. CASE ~Covered(row[h])
    BY <1>1, <2>2, <2>4 DEF Credited
  <2>5. CASE Covered(row[h])
    <3>1. credits[row[h]] = <<>>
      BY <1>3, <2>5, FreshCredit
    <3>2. Credited[row[h]] = <<>>
      BY <2>1, <2>5, <3>1 DEF Credited
    <3>3. Credited' = [Credited EXCEPT ![row[h]] = <<q>>]
      BY <1>1, <2>1, <2>2, <2>5, <3>1 DEF Credited
    <3> QED
      BY <2>1, <2>3, <3>2, <3>3 DEF Once!Next, Once!Credit
  <2> QED
    BY <2>4, <2>5
<1> QED
  BY <1>2, <1>3, CreditSteps

\* TopUp implements CreditOnce: whatever the webhooks, administrators, users
\* and faults do, the balance sees one credit, of the voucher's worth, for each
\* covered order and code, and never loses it.
THEOREM Implements == Spec => ImplementsCreditOnce
<1>1. Init => Once!Init
  BY DEF Init, Once!Init, Credited
<1> QED
  BY <1>1, RefinementStep, Invariance, PTL DEF Spec, ImplementsCreditOnce, Once!Spec
=============================================================================
