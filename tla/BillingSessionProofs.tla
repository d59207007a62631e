------------------------ MODULE BillingSessionProofs ------------------------
(***************************************************************************)
(* Proofs about BillingSession, for any requests, prices, balances and     *)
(* bounds, whatever statements fail.                                       *)
(***************************************************************************)
EXTENDS BillingSession, TLAPS

\* The initial session is well typed.
LEMMA NewSessionType == NewSession \in Sessions
BY BoundAssumption DEF NewSession, Sessions, NoSnap, PCs, Sources

\* The type invariant holds initially.
LEMMA TypeInit == Init => TypeOK
<1> SUFFICES ASSUME Init PROVE TypeOK
  OBVIOUS
<1>1. s \in [Requests -> Sessions]
  BY NewSessionType DEF Init
<1>2. fund \in [Requests -> [Sources -> Int]] /\ tok \in [Requests -> Int]
  BY DEF Init
<1>3. rec \in [Requests -> [status : {"none", "consumed", "refunded"}, amount : Nat]]
  BY DEF Init, NoRecord
<1> QED
  BY <1>1, <1>2, <1>3, QuotaAssumption, BoundAssumption DEF Init, TypeOK

\* Storing a session keeps the sessions well typed.
LEMMA BecomeType ==
    ASSUME TypeOK, NEW r \in Requests, NEW x \in Sessions, Become(r, x)
    PROVE  s' \in [Requests -> Sessions]
BY DEF TypeOK, Become

\* Moving a session to another point keeps it well typed.
LEMMA PointType ==
    ASSUME NEW x \in Sessions, NEW p \in PCs PROVE [x EXCEPT !.pc = p] \in Sessions
BY DEF Sessions

\* The fields of a session have their types.
LEMMA FieldTypes ==
    ASSUME NEW x \in Sessions
    PROVE  /\ x.pc \in PCs /\ x.source \in Sources /\ x.fallback \in BOOLEAN
           /\ x.quota \in Nat /\ x.amount \in Nat /\ x.pre \in Nat /\ x.tokenConsumed \in Nat
           /\ x.extra \in Nat /\ x.held \in Int /\ x.trusted \in BOOLEAN /\ x.settled \in BOOLEAN
           /\ x.tokenSeen \in Int /\ x.tries \in 0..2 /\ x.attempts \in Nat /\ x.ok \in BOOLEAN
           /\ x.snap \in [used : Nat, cur : 0..MaxPeriod, now : 0..MaxPeriod]
BY DEF Sessions

\* The updates of a session made by the steps, one by one, give sessions.
LEMMA AttemptsType == ASSUME NEW x \in Sessions, NEW p \in PCs, NEW m \in Nat
    PROVE  [x EXCEPT !.pc = p, !.attempts = m] \in Sessions
BY DEF Sessions

\* The same, for another update.
LEMMA PricedType == ASSUME NEW x \in Sessions, NEW i \in Int, NEW m \in Nat, NEW n \in Nat
    PROVE  [x EXCEPT !.tokenSeen = i, !.quota = m, !.attempts = n] \in Sessions
BY DEF Sessions

\* The same, for another update.
LEMMA TrustedType == ASSUME NEW x \in Sessions, NEW p \in PCs, NEW b \in BOOLEAN, NEW n \in Nat
    PROVE  [x EXCEPT !.pc = p, !.trusted = b, !.amount = n] \in Sessions
BY DEF Sessions

\* The same, for another update.
LEMMA TokenTakenType == ASSUME NEW x \in Sessions, NEW p \in PCs, NEW n \in Nat
    PROVE  [x EXCEPT !.pc = p, !.tokenConsumed = n] \in Sessions
BY DEF Sessions

\* The same, for another update.
LEMMA TokenBackType == ASSUME NEW x \in Sessions, NEW n \in Nat
    PROVE  [x EXCEPT !.tokenConsumed = n] \in Sessions
BY DEF Sessions

\* The same, for another update.
LEMMA FundedType == ASSUME NEW x \in Sessions, NEW p \in PCs, NEW i \in Int, NEW n \in Nat
    PROVE  [x EXCEPT !.pc = p, !.held = i, !.pre = n] \in Sessions
BY DEF Sessions

\* The same, for another update.
LEMMA HeldType == ASSUME NEW x \in Sessions, NEW p \in PCs, NEW i \in Int
    PROVE  [x EXCEPT !.pc = p, !.held = i] \in Sessions
BY DEF Sessions

\* The same, for another update.
LEMMA FallbackType == ASSUME NEW x \in Sessions, NEW p \in PCs, NEW b \in BOOLEAN
    PROVE  [x EXCEPT !.pc = p, !.fallback = b] \in Sessions
BY DEF Sessions

\* The same, for another update.
LEMMA LoadedType == ASSUME NEW x \in Sessions, NEW p \in PCs, NEW v \in [used : Nat, cur : 0..MaxPeriod, now : 0..MaxPeriod]
    PROVE  [x EXCEPT !.pc = p, !.snap = v] \in Sessions
BY DEF Sessions

\* The same, for another update.
LEMMA SnapType == ASSUME NEW x \in Sessions, NEW v \in [used : Nat, cur : 0..MaxPeriod, now : 0..MaxPeriod]
    PROVE  [x EXCEPT !.snap = v] \in Sessions
BY DEF Sessions

\* The same, for another update.
LEMMA AmountType == ASSUME NEW x \in Sessions, NEW p \in PCs, NEW n \in Nat
    PROVE  [x EXCEPT !.amount = n, !.pc = p] \in Sessions
BY DEF Sessions

\* The same, for another update.
LEMMA OkType == ASSUME NEW x \in Sessions, NEW p \in PCs, NEW b \in BOOLEAN
    PROVE  [x EXCEPT !.pc = p, !.ok = b] \in Sessions
BY DEF Sessions

\* The same, for another update.
LEMMA SettledType == ASSUME NEW x \in Sessions, NEW p \in PCs, NEW b \in BOOLEAN
    PROVE  [x EXCEPT !.pc = p, !.settled = b] \in Sessions
BY DEF Sessions

\* The same, for another update.
LEMMA BothType == ASSUME NEW x \in Sessions, NEW p \in PCs, NEW b \in BOOLEAN
    PROVE  [x EXCEPT !.pc = p, !.ok = b, !.settled = b] \in Sessions
BY DEF Sessions

\* The same, for another update.
LEMMA TriesType == ASSUME NEW x \in Sessions, NEW k \in 0..2
    PROVE  [x EXCEPT !.tries = k] \in Sessions
BY DEF Sessions

\* The same, for another update.
LEMMA RaisedType == ASSUME NEW x \in Sessions, NEW p \in PCs, NEW m \in Nat, NEW n \in Nat, NEW k \in Nat
    PROVE  [x EXCEPT !.pc = p, !.pre = m, !.tokenConsumed = n, !.extra = k] \in Sessions
BY DEF Sessions

\* What the next source to try, or none, makes of a session is a session.
LEMMA GiveUpType ==
    ASSUME NEW x \in Sessions, NEW r \in Requests, NEW b \in BOOLEAN
    PROVE  /\ TrySubscription(x, b) \in Sessions
           /\ TryWallet(x, b) \in Sessions
           /\ Refused(r, x) \in Sessions
           /\ GiveUp(r, x) \in Sessions
<1>1. SubAmount(x.quota) \in Nat
  BY DEF Sessions, SubAmount
<1>2. ASSUME NEW c \in BOOLEAN PROVE TrySubscription(x, c) \in Sessions
  BY <1>1 DEF TrySubscription, Sessions, PCs, Sources
<1>3. ASSUME NEW c \in BOOLEAN PROVE TryWallet(x, c) \in Sessions
  BY DEF TryWallet, Sessions, PCs, Sources
<1>4. Refused(r, x) \in Sessions
  BY PointType DEF Refused, PCs
<1> QED
  BY <1>2, <1>3, <1>4 DEF GiveUp

\* Counting a fault keeps the bound.
LEMMA CountType ==
    ASSUME TypeOK, NEW o \in Outcomes, Count(o) PROVE faults' \in 0..MaxFaults
BY BoundAssumption DEF TypeOK, Outcomes, Count

\* Moving money keeps the types of the balances.
LEMMA MoveFundType ==
    ASSUME TypeOK, NEW r \in Requests, NEW x \in Sources, NEW n \in Int, MoveFund(r, x, n)
    PROVE  wallet' \in Int /\ used' \in Nat /\ fund' \in [Requests -> [Sources -> Int]]
<1>1. fund[r][x] + n \in Int
  BY DEF TypeOK
<1>2. fund' = [fund EXCEPT ![r] = [fund[r] EXCEPT ![x] = fund[r][x] + n]]
  BY DEF MoveFund
<1>3. fund' \in [Requests -> [Sources -> Int]]
  BY <1>1, <1>2 DEF TypeOK
<1> QED
  BY <1>3 DEF MoveFund, UsedAfter, TypeOK

\* Moving token quota keeps the types of the balances.
LEMMA MoveTokenType ==
    ASSUME TypeOK, NEW r \in Requests, NEW n \in Int, MoveToken(r, n)
    PROVE  token' \in Int /\ tok' \in [Requests -> Int]
BY DEF MoveToken, TypeOK

\* Every step keeps the types.
LEMMA TypeStep == TypeOK /\ [Next]_vars => TypeOK'
<1> SUFFICES ASSUME TypeOK, [Next]_vars PROVE TypeOK'
  OBVIOUS
<1>s. ASSUME NEW r \in Requests PROVE s[r] \in Sessions
  BY DEF TypeOK
<1>1. ASSUME NEW r \in Requests, Begin(r) PROVE TypeOK'
  <2>1. PICK q \in Quotas[r] :
           \/ Become(r, TrySubscription([s[r] EXCEPT !.tokenSeen = ContextQuota(r), !.quota = q, !.attempts = @ + 1], FALSE))
           \/ Become(r, TrySubscription([s[r] EXCEPT !.tokenSeen = ContextQuota(r), !.quota = q, !.attempts = @ + 1], TRUE))
           \/ Become(r, TryWallet([s[r] EXCEPT !.tokenSeen = ContextQuota(r), !.quota = q, !.attempts = @ + 1], FALSE))
           \/ Become(r, TryWallet([s[r] EXCEPT !.tokenSeen = ContextQuota(r), !.quota = q, !.attempts = @ + 1], TRUE))
    <3>1. Pref[r] \in Preferences
      BY RequestAssumption
    <3> QED
      BY <1>1, <3>1 DEF Begin, Preferences
  <2>2. ContextQuota(r) \in Int /\ q \in Nat
    BY RequestAssumption DEF ContextQuota, TypeOK
  <2>3. [s[r] EXCEPT !.tokenSeen = ContextQuota(r), !.quota = q, !.attempts = @ + 1] \in Sessions
    <3>1. s[r].attempts + 1 \in Nat
      BY <1>s, FieldTypes
    <3> QED
      BY <1>s, <2>2, <3>1, PricedType
  <2>4. s' \in [Requests -> Sessions]
    BY <2>1, <2>3, GiveUpType, BecomeType
  <2> QED
    BY <1>1, <2>4 DEF Begin, TypeOK, fundVars, tokenVars, subVars
<1>2. ASSUME NEW r \in Requests, Retry(r) PROVE TypeOK'
  <2>1. ASSUME NEW p \in {"new", "done"}
        PROVE  [NewSession EXCEPT !.pc = p, !.attempts = s[r].attempts] \in Sessions
    BY <1>s, FieldTypes, NewSessionType, AttemptsType DEF PCs
  <2>2. s' \in [Requests -> Sessions]
    BY <1>2, <2>1, BecomeType DEF Retry
  <2> QED
    BY <1>2, <2>2 DEF Retry, TypeOK, fundVars, tokenVars, subVars
<1>3. ASSUME NEW r \in Requests, WalletCheck(r) PROVE TypeOK'
  <2>1. ASSUME NEW b \in BOOLEAN, NEW p \in PCs, NEW n \in Nat
        PROVE  [s[r] EXCEPT !.pc = p, !.trusted = b, !.amount = n] \in Sessions
    BY <1>s, TrustedType
  <2>2. Trusts(r, wallet) \in BOOLEAN
    BY DEF Trusts
  <2>3. s[r].quota \in Nat
    BY <1>s, FieldTypes
  <2>4. s' \in [Requests -> Sessions]
    <3>1. CASE Become(r, GiveUp(r, s[r]))
      BY <3>1, <1>s, GiveUpType, BecomeType
    <3>2. CASE \E b \in BOOLEAN, p \in PCs, n \in Nat :
                  Become(r, [s[r] EXCEPT !.pc = p, !.trusted = b, !.amount = n])
      BY <3>2, <2>1, BecomeType
    <3> QED
      BY <1>3, <2>2, <2>3, <3>1, <3>2 DEF WalletCheck, PCs
  <2> QED
    BY <1>3, <2>4 DEF WalletCheck, TypeOK, fundVars, tokenVars, subVars
<1>4. ASSUME NEW r \in Requests, TokenCheck(r) PROVE TypeOK'
  <2>1. [s[r] EXCEPT !.pc = "fund", !.tokenConsumed = s[r].amount] \in Sessions
    BY <1>s, FieldTypes, TokenTakenType DEF PCs
  <2>2. [s[r] EXCEPT !.pc = "tokenTake"] \in Sessions
    BY <1>s, PointType DEF PCs
  <2>3. s' \in [Requests -> Sessions]
    BY <1>4, <1>s, <2>1, <2>2, GiveUpType, BecomeType DEF TokenCheck
  <2> QED
    BY <1>4, <2>3 DEF TokenCheck, TypeOK, fundVars, tokenVars, subVars
<1>5. ASSUME NEW r \in Requests, TokenTake(r) PROVE TypeOK'
  <2>0. PICK o \in Outcomes : TokenTake(r)!2!(o)
    BY <1>5 DEF TokenTake
  <2>1. [s[r] EXCEPT !.pc = "fund", !.tokenConsumed = s[r].amount] \in Sessions
    BY <1>s, FieldTypes, TokenTakenType DEF PCs
  <2>2. s' \in [Requests -> Sessions]
    BY <2>0, <1>s, <2>1, GiveUpType, BecomeType
  <2>3. token' \in Int /\ tok' \in [Requests -> Int]
    <3>1. s[r].amount \in Int
      BY <1>s, FieldTypes
    <3> QED
      BY <2>0, <3>1, MoveTokenType DEF tokenVars, TypeOK
  <2>4. faults' \in 0..MaxFaults
    BY <2>0, CountType
  <2> QED
    BY <1>5, <2>2, <2>3, <2>4 DEF TokenTake, TypeOK, fundVars, subVars
<1>6. ASSUME NEW r \in Requests, WalletTake(r) PROVE TypeOK'
  <2>0. PICK o \in Outcomes : WalletTake(r)!2!(o)
    BY <1>6 DEF WalletTake
  <2>b. s[r].amount \in Nat /\ s[r].amount \in Int
    BY <1>s, FieldTypes
  <2>1. [s[r] EXCEPT !.pc = "active", !.held = s[r].amount, !.pre = s[r].amount] \in Sessions
    BY <1>s, <2>b, FundedType DEF PCs
  <2>a. [s[r] EXCEPT !.pc = "rollToken", !.fallback = FALSE] \in Sessions
    BY <1>s, FallbackType DEF PCs
  <2>2. s' \in [Requests -> Sessions]
    BY <2>0, <2>1, <2>a, BecomeType
  <2>3. wallet' \in Int /\ used' \in Nat /\ fund' \in [Requests -> [Sources -> Int]]
    <3>1. s[r].amount \in Int /\ "wallet" \in Sources
      BY <1>s, FieldTypes DEF Sources
    <3> QED
      BY <2>0, <3>1, MoveFundType DEF fundVars, TypeOK
  <2>4. faults' \in 0..MaxFaults
    BY <2>0, CountType
  <2> QED
    BY <1>6, <2>2, <2>3, <2>4 DEF WalletTake, TypeOK, tokenVars, subVars
<1>7. ASSUME NEW r \in Requests, SubLoad(r) PROVE TypeOK'
  <2>1. rec[r].amount \in Int /\ s[r].amount \in Nat
    BY <1>s, FieldTypes DEF TypeOK
  <2>2. [s[r] EXCEPT !.pc = "active", !.held = rec[r].amount, !.pre = s[r].amount] \in Sessions
    BY <1>s, <2>1, FundedType DEF PCs
  <2>3. [used |-> used, cur |-> cur, now |-> period] \in [used : Nat, cur : 0..MaxPeriod, now : 0..MaxPeriod]
    BY DEF TypeOK
  <2>4. [s[r] EXCEPT !.pc = "subTake", !.snap = [used |-> used, cur |-> cur, now |-> period]] \in Sessions
    BY <1>s, <2>3, LoadedType DEF PCs
  <2>5. [s[r] EXCEPT !.pc = "rollToken"] \in Sessions
    BY <1>s, PointType DEF PCs
  <2>a. [s[r] EXCEPT !.pc = "rollToken", !.fallback = FALSE] \in Sessions
    BY <1>s, FallbackType DEF PCs
  <2>6. s' \in [Requests -> Sessions]
    BY <1>7, <2>2, <2>4, <2>5, <2>a, BecomeType DEF SubLoad, Goto
  <2> QED
    BY <1>7, <2>6 DEF SubLoad, TypeOK, fundVars, tokenVars, subVars
<1>8. ASSUME NEW r \in Requests, SubTake(r) PROVE TypeOK'
  <2> DEFINE kept == [s[r] EXCEPT !.snap = NoSnap]
  <2>1. kept \in Sessions
    <3>1. NoSnap \in [used : Nat, cur : 0..MaxPeriod, now : 0..MaxPeriod]
      BY BoundAssumption DEF NoSnap
    <3> QED
      BY <1>s, <3>1, SnapType
  <2>2. s[r].amount \in Nat /\ s[r].amount \in Int /\ s[r].snap.now \in 0..MaxPeriod /\ s[r].snap.used \in Nat
    BY <1>s, FieldTypes
  <2>3. [kept EXCEPT !.pc = "rollToken"] \in Sessions
    BY <2>1, PointType DEF PCs
  <2>4. [kept EXCEPT !.pc = "rollToken", !.fallback = FALSE] \in Sessions
    BY <2>1, FallbackType DEF PCs
  <2>5. [kept EXCEPT !.pc = "active", !.held = s[r].amount, !.pre = s[r].amount] \in Sessions
    BY <2>1, <2>2, FundedType DEF PCs
  <2> HIDE DEF kept
  <2>6. s' \in [Requests -> Sessions]
    <3>1. \/ Become(r, [kept EXCEPT !.pc = "rollToken"])
          \/ Become(r, [kept EXCEPT !.pc = "rollToken", !.fallback = FALSE])
          \/ Become(r, [kept EXCEPT !.pc = "active", !.held = s[r].amount, !.pre = s[r].amount])
      BY <1>8 DEF SubTake, kept
    <3> QED
      BY <3>1, <2>3, <2>4, <2>5, BecomeType
  <2>7. /\ wallet' \in Int /\ used' \in Nat /\ fund' \in [Requests -> [Sources -> Int]]
        /\ rec' \in [Requests -> [status : {"none", "consumed", "refunded"}, amount : Nat]]
        /\ cur' \in 0..MaxPeriod /\ resets' \in Nat
    <3>1. CASE UNCHANGED <<fundVars, cur, resets, rec>>
      BY <3>1 DEF TypeOK, fundVars
    <3>2. CASE /\ \E u \in Nat : used' = u + s[r].amount
               /\ fund' = [fund EXCEPT ![r].subscription = @ + s[r].amount]
               /\ rec' = [rec EXCEPT ![r] = [status |-> "consumed", amount |-> s[r].amount]]
               /\ cur' \in {cur, s[r].snap.now} /\ resets' \in {resets, resets + 1}
               /\ UNCHANGED wallet
      <4>1. fund' \in [Requests -> [Sources -> Int]]
        <5>1. fund' = [fund EXCEPT ![r] = [fund[r] EXCEPT !["subscription"] = fund[r]["subscription"] + s[r].amount]]
          BY <3>2
        <5>2. fund[r]["subscription"] + s[r].amount \in Int
          BY <2>2 DEF TypeOK, Sources
        <5> QED
          BY <5>1, <5>2 DEF TypeOK
      <4>2. rec' \in [Requests -> [status : {"none", "consumed", "refunded"}, amount : Nat]]
        <5>1. [status |-> "consumed", amount |-> s[r].amount] \in [status : {"none", "consumed", "refunded"}, amount : Nat]
          BY <2>2
        <5> QED
          BY <3>2, <5>1 DEF TypeOK
      <4>3. used' \in Nat
        BY <3>2, <2>2
      <4>4. cur' \in 0..MaxPeriod /\ resets' \in Nat
        BY <3>2, <2>2 DEF TypeOK
      <4>5. wallet' \in Int
        BY <3>2 DEF TypeOK
      <4> QED
        BY <4>1, <4>2, <4>3, <4>4, <4>5
    <3> QED
      BY <1>8, <2>2, <3>1, <3>2 DEF SubTake, Incremented, TypeOK
  <2>8. faults' \in 0..MaxFaults
    <3>1. (\E o \in Outcomes : Count(o)) \/ UNCHANGED faults
      BY <1>8 DEF SubTake
    <3> QED
      BY <3>1, CountType DEF TypeOK
  <2> QED
    BY <1>8, <2>6, <2>7, <2>8 DEF SubTake, TypeOK, tokenVars
<1>9. ASSUME NEW r \in Requests, RollbackToken(r) PROVE TypeOK'
  <2>0. PICK o \in Outcomes : RollbackToken(r)!2!(o)
    BY <1>9 DEF RollbackToken, OutcomesIf, Outcomes
  <2>1. [s[r] EXCEPT !.tokenConsumed = 0] \in Sessions
    BY <1>s, TokenBackType
  <2>2. s' \in [Requests -> Sessions]
    BY <2>0, <2>1, GiveUpType, BecomeType
  <2>3. token' \in Int /\ tok' \in [Requests -> Int]
    <3>1. -s[r].tokenConsumed \in Int
      BY <1>s, FieldTypes
    <3> QED
      BY <2>0, <3>1, MoveTokenType DEF tokenVars, TypeOK
  <2>4. faults' \in 0..MaxFaults
    BY <2>0, CountType
  <2> QED
    BY <1>9, <2>2, <2>3, <2>4 DEF RollbackToken, TypeOK, fundVars, subVars
<1>10. ASSUME NEW r \in Requests, Reserve(r) PROVE TypeOK'
  <2>1. PICK q \in Quotas[r] : Reserve(r)!2!(q)
    BY <1>10 DEF Reserve
  <2>2. q - s[r].pre \in Nat
    BY <2>1, <1>s, FieldTypes, RequestAssumption
  <2>3. ASSUME NEW p \in PCs PROVE [s[r] EXCEPT !.amount = q - s[r].pre, !.pc = p] \in Sessions
    BY <1>s, <2>2, AmountType
  <2>4. s' \in [Requests -> Sessions]
    BY <2>1, <2>3, BecomeType DEF PCs
  <2> QED
    BY <1>10, <2>4 DEF Reserve, TypeOK, fundVars, tokenVars, subVars
<1>11. ASSUME NEW r \in Requests, ReserveCheck(r) PROVE TypeOK'
  <2>1. s' \in [Requests -> Sessions]
    BY <1>11, <1>s, PointType, BecomeType DEF ReserveCheck, Goto, PCs
  <2> QED
    BY <1>11, <2>1 DEF ReserveCheck, TypeOK, fundVars, tokenVars, subVars
<1>12. ASSUME NEW r \in Requests, ReserveFund(r) PROVE TypeOK'
  <2>1. s[r].amount \in Int /\ s[r].held \in Int /\ s[r].held + s[r].amount \in Int /\ s[r].source \in Sources
    BY <1>s, FieldTypes
  <2>2. ASSUME NEW i \in Int PROVE [s[r] EXCEPT !.pc = "resTokenCheck", !.held = i] \in Sessions
    BY <1>s, HeldType DEF PCs
  <2>3. [s[r] EXCEPT !.pc = "active"] \in Sessions
    BY <1>s, PointType DEF PCs
  <2>4. s' \in [Requests -> Sessions]
    <3>1. \/ Become(r, [s[r] EXCEPT !.pc = "active"])
          \/ \E i \in Int : Become(r, [s[r] EXCEPT !.pc = "resTokenCheck", !.held = i])
      BY <1>12, <2>1 DEF ReserveFund, Goto
    <3> QED
      BY <3>1, <2>2, <2>3, BecomeType
  <2>5. wallet' \in Int /\ used' \in Nat /\ fund' \in [Requests -> [Sources -> Int]]
    <3>1. UNCHANGED fundVars \/ MoveFund(r, s[r].source, s[r].amount)
      BY <1>12 DEF ReserveFund
    <3> QED
      BY <3>1, <2>1, MoveFundType DEF fundVars, TypeOK
  <2>6. faults' \in 0..MaxFaults
    <3>1. (\E o \in Outcomes : Count(o)) \/ UNCHANGED faults
      BY <1>12 DEF ReserveFund
    <3> QED
      BY <3>1, CountType DEF TypeOK
  <2> QED
    BY <1>12, <2>4, <2>5, <2>6 DEF ReserveFund, TypeOK, tokenVars, subVars
<1>r. ASSUME NEW r \in Requests PROVE Reserved(s[r]) \in Sessions
  <2>1. /\ s[r].pre + s[r].amount \in Nat /\ s[r].tokenConsumed + s[r].amount \in Nat
        /\ s[r].extra + s[r].amount \in Nat
    BY <1>s, FieldTypes
  <2> QED
    BY <1>s, <2>1, RaisedType DEF Reserved, PCs
<1>13. ASSUME NEW r \in Requests, ReserveTokenCheck(r) PROVE TypeOK'
  <2>1. s' \in [Requests -> Sessions]
    BY <1>13, <1>s, <1>r, PointType, BecomeType DEF ReserveTokenCheck, Goto, PCs
  <2> QED
    BY <1>13, <2>1 DEF ReserveTokenCheck, TypeOK, fundVars, tokenVars, subVars
<1>14. ASSUME NEW r \in Requests, ReserveTokenTake(r) PROVE TypeOK'
  <2>0. PICK o \in Outcomes : ReserveTokenTake(r)!2!(o)
    BY <1>14 DEF ReserveTokenTake
  <2>1. s' \in [Requests -> Sessions]
    BY <2>0, <1>s, <1>r, PointType, BecomeType DEF Goto, PCs
  <2>2. token' \in Int /\ tok' \in [Requests -> Int]
    <3>1. s[r].amount \in Int
      BY <1>s, FieldTypes
    <3> QED
      BY <2>0, <3>1, MoveTokenType DEF tokenVars, TypeOK
  <2>3. faults' \in 0..MaxFaults
    BY <2>0, CountType
  <2> QED
    BY <1>14, <2>1, <2>2, <2>3 DEF ReserveTokenTake, TypeOK, fundVars, subVars
<1>15. ASSUME NEW r \in Requests, ReserveRollback(r) PROVE TypeOK'
  <2>0. PICK o \in Outcomes : ReserveRollback(r)!2!(o)
    BY <1>15 DEF ReserveRollback
  <2>1. HeldAfterRollback(s[r], o) \in Int /\ -s[r].amount \in Int /\ s[r].source \in Sources
    BY <1>s, FieldTypes DEF HeldAfterRollback
  <2>2. [s[r] EXCEPT !.pc = "active", !.held = HeldAfterRollback(s[r], o)] \in Sessions
    BY <1>s, <2>1, HeldType DEF PCs
  <2>3. s' \in [Requests -> Sessions]
    BY <2>0, <2>2, BecomeType
  <2>4. wallet' \in Int /\ used' \in Nat /\ fund' \in [Requests -> [Sources -> Int]]
    BY <2>0, <2>1, MoveFundType DEF fundVars, TypeOK
  <2>5. faults' \in 0..MaxFaults
    BY <2>0, CountType
  <2> QED
    BY <1>15, <2>3, <2>4, <2>5 DEF ReserveRollback, TypeOK, tokenVars, subVars
<1>16. ASSUME NEW r \in Requests, Settle(r) PROVE TypeOK'
  <2>1. [s[r] EXCEPT !.pc = "done", !.ok = TRUE, !.settled = TRUE] \in Sessions
    BY <1>s, BothType DEF PCs
  <2>2. [s[r] EXCEPT !.pc = "setFund", !.ok = TRUE] \in Sessions
    BY <1>s, OkType DEF PCs
  <2>3. s' \in [Requests -> Sessions]
    BY <1>16, <2>1, <2>2, BecomeType DEF Settle
  <2> QED
    BY <1>16, <2>3 DEF Settle, TypeOK, fundVars, tokenVars, subVars
<1>17. ASSUME NEW r \in Requests, SettleFund(r) PROVE TypeOK'
  <2>1. Cost[r] - s[r].pre \in Int /\ s[r].source \in Sources
    BY <1>s, FieldTypes, RequestAssumption
  <2>2. \E p \in PCs : Goto(r, p)
    BY <1>17 DEF SettleFund, PCs
  <2>3. s' \in [Requests -> Sessions]
    BY <2>2, <1>s, PointType, BecomeType DEF Goto
  <2>4. wallet' \in Int /\ used' \in Nat /\ fund' \in [Requests -> [Sources -> Int]]
    <3>1. UNCHANGED fundVars \/ MoveFund(r, s[r].source, Cost[r] - s[r].pre)
      BY <1>17 DEF SettleFund
    <3> QED
      BY <3>1, <2>1, MoveFundType DEF fundVars, TypeOK
  <2>5. faults' \in 0..MaxFaults
    <3>1. (\E o \in Outcomes : Count(o)) \/ UNCHANGED faults
      BY <1>17 DEF SettleFund
    <3> QED
      BY <3>1, CountType DEF TypeOK
  <2> QED
    BY <1>17, <2>3, <2>4, <2>5 DEF SettleFund, TypeOK, tokenVars, subVars
<1>18. ASSUME NEW r \in Requests, SettleToken(r) PROVE TypeOK'
  <2>0. PICK o \in Outcomes : SettleToken(r)!2!(o)
    BY <1>18 DEF SettleToken, OutcomesIf, Outcomes
  <2>1. [s[r] EXCEPT !.pc = "done", !.settled = TRUE] \in Sessions
    BY <1>s, SettledType DEF PCs
  <2>2. s' \in [Requests -> Sessions]
    BY <2>0, <2>1, BecomeType
  <2>3. token' \in Int /\ tok' \in [Requests -> Int]
    <3>1. SettledToken(r) \in Int
      BY <1>s, FieldTypes, RequestAssumption DEF SettledToken
    <3> QED
      BY <2>0, <3>1, MoveTokenType DEF tokenVars, TypeOK
  <2>4. faults' \in 0..MaxFaults
    BY <2>0, CountType
  <2> QED
    BY <1>18, <2>2, <2>3, <2>4 DEF SettleToken, TypeOK, fundVars, subVars
<1>19. ASSUME NEW r \in Requests, Refund(r) PROVE TypeOK'
  <2>1. s' \in [Requests -> Sessions]
    BY <1>19, <1>s, PointType, BecomeType DEF Refund, Goto, PCs
  <2> QED
    BY <1>19, <2>1 DEF Refund, TypeOK, fundVars, tokenVars, subVars
<1>20. ASSUME NEW r \in Requests, WalletRefund(r) PROVE TypeOK'
  <2>0. PICK o \in Outcomes : WalletRefund(r)!2!(o)
    BY <1>20 DEF WalletRefund, OutcomesIf, Outcomes
  <2>1. s' \in [Requests -> Sessions]
    BY <2>0, <1>s, PointType, BecomeType DEF Goto, PCs
  <2>2. wallet' \in Int /\ used' \in Nat /\ fund' \in [Requests -> [Sources -> Int]]
    <3>1. -s[r].held \in Int /\ "wallet" \in Sources
      BY <1>s, FieldTypes DEF Sources
    <3> QED
      BY <2>0, <3>1, MoveFundType DEF fundVars, TypeOK
  <2>3. faults' \in 0..MaxFaults
    BY <2>0, CountType
  <2> QED
    BY <1>20, <2>1, <2>2, <2>3 DEF WalletRefund, TypeOK, tokenVars, subVars
<1>21. ASSUME NEW r \in Requests, SubRefund(r) PROVE TypeOK'
  <2>0. PICK o \in Outcomes : SubRefund(r)!2!(o)
    BY <1>21 DEF SubRefund
  <2>1. s' \in [Requests -> Sessions]
    <3>1. CASE Goto(r, "refExtra")
      BY <3>1, <1>s, PointType, BecomeType DEF Goto, PCs
    <3>2. CASE s[r].tries < 2 /\ Become(r, [s[r] EXCEPT !.tries = @ + 1])
      <4>1. s[r].tries + 1 \in 0..2
        BY <3>2, <1>s, FieldTypes
      <4>2. [s[r] EXCEPT !.tries = @ + 1] \in Sessions
        BY <4>1, <1>s, TriesType
      <4> QED
        BY <3>2, <4>2, BecomeType
    <3> QED
      BY <2>0, <3>1, <3>2
  <2>2. wallet' \in Int /\ used' \in Nat /\ fund' \in [Requests -> [Sources -> Int]]
    <3>1. -rec[r].amount \in Int /\ "subscription" \in Sources
      BY DEF Sources, TypeOK
    <3> QED
      BY <2>0, <3>1, MoveFundType DEF fundVars, TypeOK
  <2>3. rec' \in [Requests -> [status : {"none", "consumed", "refunded"}, amount : Nat]]
    <3>1. [rec[r] EXCEPT !.status = "refunded"] \in [status : {"none", "consumed", "refunded"}, amount : Nat]
      BY DEF TypeOK
    <3>2. UNCHANGED rec \/ rec' = [rec EXCEPT ![r] = [rec[r] EXCEPT !.status = "refunded"]]
      BY <2>0
    <3> QED
      BY <3>1, <3>2 DEF TypeOK
  <2>4. faults' \in 0..MaxFaults
    BY <2>0, CountType
  <2> QED
    BY <1>21, <2>1, <2>2, <2>3, <2>4 DEF SubRefund, TypeOK, tokenVars, subVars
<1>22. ASSUME NEW r \in Requests, ExtraRefund(r) PROVE TypeOK'
  <2>0. PICK o \in Outcomes : ExtraRefund(r)!2!(o)
    BY <1>22 DEF ExtraRefund, OutcomesIf, Outcomes
  <2>1. s' \in [Requests -> Sessions]
    BY <2>0, <1>s, PointType, BecomeType DEF Goto, PCs
  <2>2. wallet' \in Int /\ used' \in Nat /\ fund' \in [Requests -> [Sources -> Int]]
    <3>1. -s[r].extra \in Int /\ "subscription" \in Sources
      BY <1>s, FieldTypes DEF Sources
    <3> QED
      BY <2>0, <3>1, MoveFundType DEF fundVars, TypeOK
  <2>3. faults' \in 0..MaxFaults
    BY <2>0, CountType
  <2> QED
    BY <1>22, <2>1, <2>2, <2>3 DEF ExtraRefund, TypeOK, tokenVars, subVars
<1>23. ASSUME NEW r \in Requests, TokenRefund(r) PROVE TypeOK'
  <2>0. PICK o \in Outcomes : TokenRefund(r)!2!(o)
    BY <1>23 DEF TokenRefund, OutcomesIf, Outcomes
  <2>1. s' \in [Requests -> Sessions]
    BY <2>0, <1>s, PointType, BecomeType DEF Goto, PCs
  <2>2. token' \in Int /\ tok' \in [Requests -> Int]
    <3>1. -s[r].tokenConsumed \in Int
      BY <1>s, FieldTypes
    <3> QED
      BY <2>0, <3>1, MoveTokenType DEF tokenVars, TypeOK
  <2>3. faults' \in 0..MaxFaults
    BY <2>0, CountType
  <2> QED
    BY <1>23, <2>1, <2>2, <2>3 DEF TokenRefund, TypeOK, fundVars, subVars
<1>24. ASSUME Tick PROVE TypeOK'
  BY <1>24, BoundAssumption DEF Tick, TypeOK, fundVars, tokenVars
<1>25. ASSUME Expire PROVE TypeOK'
  BY <1>25 DEF Expire, TypeOK, fundVars, tokenVars
<1>26. ASSUME ResetLoad PROVE TypeOK'
  BY <1>26 DEF ResetLoad, TypeOK, fundVars, tokenVars
<1>27. ASSUME ResetClaim PROVE TypeOK'
  <2>1. resetter[2] \in 0..MaxPeriod
    BY <1>27 DEF ResetClaim, TypeOK
  <2>2. used' \in Nat /\ cur' \in 0..MaxPeriod /\ resets' \in Nat
    BY <1>27, <2>1 DEF ResetClaim, TypeOK
  <2> QED
    BY <1>27, <2>2 DEF ResetClaim, TypeOK, tokenVars
<1>28. ASSUME Crash PROVE TypeOK'
  <2>1. s' \in [Requests -> Sessions]
    <3>1. ASSUME NEW r \in Requests PROVE [s[r] EXCEPT !.pc = "dead"] \in Sessions
      BY <1>s, PointType DEF PCs
    <3> QED
      BY <1>28, <1>s, <3>1 DEF Crash
  <2>2. faults' \in 0..MaxFaults
    BY <1>28, BoundAssumption DEF Crash, TypeOK
  <2> QED
    BY <1>28, <2>1, <2>2 DEF Crash, TypeOK, fundVars, tokenVars
<1>29. CASE UNCHANGED vars
  BY <1>29 DEF vars, TypeOK
<1> QED
  BY <1>1, <1>2, <1>3, <1>4, <1>5, <1>6, <1>7, <1>8, <1>9, <1>10, <1>11, <1>12, <1>13, <1>14,
     <1>15, <1>16, <1>17, <1>18, <1>19, <1>20, <1>21, <1>22, <1>23, <1>24, <1>25, <1>26, <1>27,
     <1>28, <1>29
     DEF Next, PreConsumeStep, ReserveStep, EndStep

\* Every reachable state of the sessions and balances is well typed; in
\* particular the used amount of the subscription never becomes negative.
THEOREM TypeCorrect == Spec => []TypeOK
<1>1. Init => TypeOK
  BY TypeInit
<1>2. TypeOK /\ [Next]_vars => TypeOK'
  BY TypeStep
<1> QED
  BY <1>1, <1>2, PTL DEF Spec

----------------------------------------------------------------------------
(* The token. *)

Opening == {"new", "wallet", "tokenCheck", "tokenTake", "fund", "subTake", "rollToken"}
Running == {"active", "resCheck", "resFund", "resTokenCheck", "resTokenTake", "resRoll",
            "setFund", "setToken"}
Ended == {"new", "refused", "done", "dead"}

\* What session x of request r, which has taken k from the token, may still
\* give back: the amount it counts as consumed was taken, and the settlement
\* subtracts a reservation that is part of it.
TokenPart(x, k, r) ==
    /\ k >= 0
    /\ r \notin Playground /\ x.pc \notin Ended => k >= x.tokenConsumed
    /\ x.pc \in Opening => x.pre = 0
    /\ x.pc \in {"fund", "subTake"} => x.tokenConsumed = x.amount
    /\ x.pc \in Running => x.pre <= x.tokenConsumed

TokenInv == \A r \in Requests : TokenPart(s[r], tok[r], r)

\* A step of one request keeps the invariant if it keeps the request's part.
LEMMA TokenFrame ==
    ASSUME TypeOK, TokenInv, NEW r \in Requests, NEW x, NEW k \in Int, Become(r, x),
           (UNCHANGED tok /\ k = tok[r]) \/ tok' = [tok EXCEPT ![r] = k],
           TokenPart(x, k, r)
    PROVE  TokenInv'
<1> SUFFICES ASSUME NEW q \in Requests PROVE TokenPart(s'[q], tok'[q], q)
  BY DEF TokenInv, TokenPart
<1>1. CASE q = r
  <2>1. s'[q] = x /\ tok'[q] = k
    BY <1>1 DEF TypeOK, Become
  <2> QED
    BY <1>1, <2>1
<1>2. CASE q # r
  <2>1. s'[q] = s[q] /\ tok'[q] = tok[q]
    BY <1>2 DEF TypeOK, Become
  <2> QED
    BY <2>1 DEF TokenInv
<1> QED
  BY <1>1, <1>2

\* What is known of a session and its token before a step.
LEMMA TokenBefore ==
    ASSUME TypeOK, TokenInv, NEW r \in Requests
    PROVE  s[r] \in Sessions /\ tok[r] \in Int /\ TokenPart(s[r], tok[r], r)
BY DEF TypeOK, TokenInv

\* Moving a session on without touching the token keeps its part, from one
\* point of the settlement or the refund to another.
LEMMA TokenGoto ==
    ASSUME TypeOK, TokenInv, NEW r \in Requests, NEW p \in PCs, Goto(r, p), UNCHANGED tok,
           p \in Ended \/ s[r].pc \notin Ended,
           p \notin Opening,
           p \in Running => s[r].pc \in Running
    PROVE  TokenInv'
<1>1. s[r] \in Sessions /\ tok[r] \in Int /\ TokenPart(s[r], tok[r], r)
  BY TokenBefore
<1>2. TokenPart([s[r] EXCEPT !.pc = p], tok[r], r)
  <2>1. p \notin {"fund", "subTake"}
    BY DEF Opening
  <2> QED
    BY <1>1, <2>1 DEF TokenPart, Sessions
<1> QED
  BY <1>1, <1>2, TokenFrame DEF Goto

\* The next source to try starts with no token consumed; without one the
\* session ends.
LEMMA TokenGiveUp ==
    ASSUME NEW r \in Requests, NEW x \in Sessions, NEW k \in Int, NEW b \in BOOLEAN,
           k >= 0, x.pre = 0
    PROVE  /\ TokenPart(TrySubscription(x, b), k, r)
           /\ TokenPart(TryWallet(x, b), k, r)
           /\ TokenPart(Refused(r, x), k, r)
           /\ TokenPart(GiveUp(r, x), k, r)
<1>1. ASSUME NEW c \in BOOLEAN PROVE TokenPart(TrySubscription(x, c), k, r)
  BY DEF TrySubscription, TokenPart, Sessions, Running
<1>2. ASSUME NEW c \in BOOLEAN PROVE TokenPart(TryWallet(x, c), k, r)
  BY DEF TryWallet, TokenPart, Sessions, Running
<1>3. TokenPart(Refused(r, x), k, r)
  <2>1. ASSUME NEW q \in {"refused", "done"} PROVE TokenPart([x EXCEPT !.pc = q], k, r)
    BY DEF TokenPart, Sessions, Running, Opening, Ended
  <2> QED
    BY <2>1 DEF Refused
<1> QED
  BY <1>1, <1>2, <1>3 DEF GiveUp

\* Every step keeps the token's invariant.
LEMMA TokenStep == TypeOK /\ TokenInv /\ [Next]_vars => TokenInv'
<1> SUFFICES ASSUME TypeOK, TokenInv, [Next]_vars PROVE TokenInv'
  OBVIOUS
<1>s. ASSUME NEW r \in Requests
      PROVE  s[r] \in Sessions /\ tok[r] \in Int /\ TokenPart(s[r], tok[r], r)
  BY TokenBefore
<1>1. ASSUME NEW r \in Requests, Begin(r) PROVE TokenInv'
  <2>1. PICK q \in Quotas[r] :
           \/ Become(r, TrySubscription([s[r] EXCEPT !.tokenSeen = ContextQuota(r), !.quota = q, !.attempts = @ + 1], FALSE))
           \/ Become(r, TrySubscription([s[r] EXCEPT !.tokenSeen = ContextQuota(r), !.quota = q, !.attempts = @ + 1], TRUE))
           \/ Become(r, TryWallet([s[r] EXCEPT !.tokenSeen = ContextQuota(r), !.quota = q, !.attempts = @ + 1], FALSE))
           \/ Become(r, TryWallet([s[r] EXCEPT !.tokenSeen = ContextQuota(r), !.quota = q, !.attempts = @ + 1], TRUE))
    <3>1. Pref[r] \in Preferences
      BY RequestAssumption
    <3> QED
      BY <1>1, <3>1 DEF Begin, Preferences
  <2> DEFINE y == [s[r] EXCEPT !.tokenSeen = ContextQuota(r), !.quota = q, !.attempts = @ + 1]
  <2>2. y \in Sessions
    <3>1. ContextQuota(r) \in Int /\ q \in Nat
      BY RequestAssumption DEF ContextQuota, TypeOK
    <3>2. s[r].attempts + 1 \in Nat
      BY <1>s, FieldTypes
    <3> QED
      BY <1>s, <3>1, <3>2, PricedType
  <2>3. y.pre = 0 /\ tok[r] >= 0
    <3>1. s[r].pre = 0 /\ tok[r] >= 0
      BY <1>1, <1>s DEF Begin, At, TokenPart, Opening
    <3> QED
      BY <1>s, <3>1 DEF Sessions
  <2>4. UNCHANGED tok
    BY <1>1 DEF Begin, tokenVars
  <2> HIDE DEF y
  <2>5. ASSUME NEW b \in BOOLEAN
        PROVE  TokenPart(TrySubscription(y, b), tok[r], r) /\ TokenPart(TryWallet(y, b), tok[r], r)
    BY <1>s, <2>2, <2>3, TokenGiveUp
  <2>6. \E b \in BOOLEAN : Become(r, TrySubscription(y, b)) \/ Become(r, TryWallet(y, b))
    BY <2>1 DEF y
  <2> QED
    BY <1>s, <2>4, <2>5, <2>6, TokenFrame
<1>2. ASSUME NEW r \in Requests, Retry(r) PROVE TokenInv'
  <2>1. PICK p \in {"new", "done"} : Become(r, [NewSession EXCEPT !.pc = p, !.attempts = s[r].attempts])
    BY <1>2 DEF Retry
  <2>2. TokenPart([NewSession EXCEPT !.pc = p, !.attempts = s[r].attempts], tok[r], r)
    BY <1>s DEF TokenPart, NewSession, Ended, Running
  <2> QED
    BY <1>2, <1>s, <2>1, <2>2, TokenFrame DEF Retry, tokenVars
<1>3. ASSUME NEW r \in Requests, WalletCheck(r) PROVE TokenInv'
  <2>1. s[r].pc = "wallet" /\ s[r].pre = 0 /\ tok[r] >= 0
    BY <1>3, <1>s DEF WalletCheck, At, TokenPart, Opening
  <2>2. TokenPart(GiveUp(r, s[r]), tok[r], r)
    BY <1>s, <2>1, TokenGiveUp
  <2>3. ASSUME NEW p \in {"active", "tokenCheck"}, NEW b, NEW n
        PROVE  TokenPart([s[r] EXCEPT !.pc = p, !.trusted = b, !.amount = n], tok[r], r)
    BY <1>s, <2>1 DEF TokenPart, Sessions, Ended
  <2>4. \/ Become(r, GiveUp(r, s[r]))
        \/ \E p \in {"active", "tokenCheck"} : \E b, n :
              Become(r, [s[r] EXCEPT !.pc = p, !.trusted = b, !.amount = n])
    BY <1>3 DEF WalletCheck
  <2> QED
    BY <1>3, <1>s, <2>2, <2>3, <2>4, TokenFrame DEF WalletCheck, tokenVars
<1>4. ASSUME NEW r \in Requests, TokenCheck(r) PROVE TokenInv'
  <2>1. s[r].pc = "tokenCheck" /\ s[r].pre = 0 /\ tok[r] >= 0
    BY <1>4, <1>s DEF TokenCheck, At, TokenPart, Opening
  <2>2. TokenPart(Refused(r, s[r]), tok[r], r)
    BY <1>s, <2>1, TokenGiveUp
  <2>3. TokenPart([s[r] EXCEPT !.pc = "tokenTake"], tok[r], r)
    BY <1>s, <2>1 DEF TokenPart, Sessions, Ended, Running
  <2>4. CASE r \in Playground
    <3>1. TokenPart([s[r] EXCEPT !.pc = "fund", !.tokenConsumed = s[r].amount], tok[r], r)
      BY <1>s, <2>1, <2>4 DEF TokenPart, Sessions, Running
    <3> QED
      BY <1>4, <1>s, <2>4, <3>1, TokenFrame DEF TokenCheck, tokenVars
  <2>5. CASE r \notin Playground
    BY <1>4, <1>s, <2>2, <2>3, <2>5, TokenFrame DEF TokenCheck, tokenVars
  <2> QED
    BY <2>4, <2>5
<1>5. ASSUME NEW r \in Requests, TokenTake(r) PROVE TokenInv'
  <2>0. PICK o \in Outcomes : TokenTake(r)!2!(o)
    BY <1>5 DEF TokenTake
  <2>1. s[r].pc = "tokenTake" /\ s[r].pre = 0 /\ tok[r] >= 0 /\ s[r].amount \in Nat
    BY <1>5, <1>s, FieldTypes DEF TokenTake, At, TokenPart, Opening
  <2>2. tok[r] + s[r].amount \in Int /\ tok[r] + s[r].amount >= 0
    BY <1>s, <2>1
  <2>3. /\ TokenPart(Refused(r, s[r]), tok[r], r)
        /\ TokenPart(Refused(r, s[r]), tok[r] + s[r].amount, r)
    BY <1>s, <2>1, <2>2, TokenGiveUp
  <2>4. TokenPart([s[r] EXCEPT !.pc = "fund", !.tokenConsumed = s[r].amount], tok[r] + s[r].amount, r)
    BY <1>s, <2>1, <2>2 DEF TokenPart, Sessions, Running
  <2>5. CASE o = "failed"
    BY <2>0, <1>s, <2>3, <2>5, TokenFrame DEF tokenVars
  <2>6. CASE o # "failed"
    BY <2>0, <1>s, <2>2, <2>3, <2>4, <2>6, TokenFrame DEF MoveToken
  <2> QED
    BY <2>5, <2>6
<1>6. ASSUME NEW r \in Requests, WalletTake(r) PROVE TokenInv'
  <2>0. PICK o \in Outcomes : WalletTake(r)!2!(o)
    BY <1>6 DEF WalletTake
  <2>1. s[r].pc = "fund"
    BY <1>6 DEF WalletTake, At
  <2>2. TokenPart([s[r] EXCEPT !.pc = "active", !.held = s[r].amount, !.pre = s[r].amount], tok[r], r)
    BY <1>s, <2>1 DEF TokenPart, Sessions, Ended, Opening
  <2>3. TokenPart([s[r] EXCEPT !.pc = "rollToken", !.fallback = FALSE], tok[r], r)
    BY <1>s, <2>1 DEF TokenPart, Sessions, Ended, Opening, Running
  <2> QED
    BY <1>6, <2>0, <1>s, <2>2, <2>3, TokenFrame DEF WalletTake, tokenVars
<1>7. ASSUME NEW r \in Requests, SubLoad(r) PROVE TokenInv'
  <2>1. s[r].pc = "fund"
    BY <1>7 DEF SubLoad, At
  <2>2. ASSUME NEW i PROVE TokenPart([s[r] EXCEPT !.pc = "active", !.held = i, !.pre = s[r].amount], tok[r], r)
    BY <1>s, <2>1 DEF TokenPart, Sessions, Ended, Opening
  <2>3. ASSUME NEW v PROVE TokenPart([s[r] EXCEPT !.pc = "subTake", !.snap = v], tok[r], r)
    BY <1>s, <2>1 DEF TokenPart, Sessions, Ended, Opening, Running
  <2>4. TokenPart([s[r] EXCEPT !.pc = "rollToken"], tok[r], r)
    BY <1>s, <2>1 DEF TokenPart, Sessions, Ended, Opening, Running
  <2>5. TokenPart([s[r] EXCEPT !.pc = "rollToken", !.fallback = FALSE], tok[r], r)
    BY <1>s, <2>1 DEF TokenPart, Sessions, Ended, Opening, Running
  <2> QED
    BY <1>7, <1>s, <2>2, <2>3, <2>4, <2>5, TokenFrame DEF SubLoad, Goto, tokenVars
<1>8. ASSUME NEW r \in Requests, SubTake(r) PROVE TokenInv'
  <2> DEFINE kept == [s[r] EXCEPT !.snap = NoSnap]
  <2>1. s[r].pc = "subTake"
    BY <1>8 DEF SubTake, At
  <2>2. TokenPart([kept EXCEPT !.pc = "active", !.held = s[r].amount, !.pre = s[r].amount], tok[r], r)
    BY <1>s, <2>1 DEF TokenPart, Sessions, Ended, Opening
  <2>3. TokenPart([kept EXCEPT !.pc = "rollToken", !.fallback = FALSE], tok[r], r)
    BY <1>s, <2>1 DEF TokenPart, Sessions, Ended, Opening, Running
  <2>4. TokenPart([kept EXCEPT !.pc = "rollToken"], tok[r], r)
    BY <1>s, <2>1 DEF TokenPart, Sessions, Ended, Opening, Running
  <2> HIDE DEF kept
  <2>5. \/ Become(r, [kept EXCEPT !.pc = "rollToken"])
        \/ Become(r, [kept EXCEPT !.pc = "rollToken", !.fallback = FALSE])
        \/ Become(r, [kept EXCEPT !.pc = "active", !.held = s[r].amount, !.pre = s[r].amount])
    BY <1>8 DEF SubTake, kept
  <2>6. UNCHANGED tok
    BY <1>8 DEF SubTake, tokenVars
  <2> QED
    BY <1>s, <2>2, <2>3, <2>4, <2>5, <2>6, TokenFrame
<1>9. ASSUME NEW r \in Requests, RollbackToken(r) PROVE TokenInv'
  <2>0. PICK o \in Outcomes : RollbackToken(r)!2!(o)
    BY <1>9 DEF RollbackToken, OutcomesIf, Outcomes
  <2>1. s[r].pre = 0 /\ tok[r] >= 0 /\ (r \notin Playground => tok[r] >= s[r].tokenConsumed)
    BY <1>9, <1>s DEF RollbackToken, At, TokenPart, Opening, Ended
  <2>2. [s[r] EXCEPT !.tokenConsumed = 0] \in Sessions /\ [s[r] EXCEPT !.tokenConsumed = 0].pre = 0
    BY <1>s, <2>1, TokenBackType DEF Sessions
  <2>3. ASSUME NEW k \in Int, k >= 0 PROVE TokenPart(GiveUp(r, [s[r] EXCEPT !.tokenConsumed = 0]), k, r)
    BY <2>2, <2>3, TokenGiveUp
  <2>4. CASE UNCHANGED tokenVars
    BY <2>0, <1>s, <2>1, <2>3, <2>4, TokenFrame DEF tokenVars
  <2>5. CASE GivesTokenBack(r) /\ MoveToken(r, -s[r].tokenConsumed)
    <3>1. tok[r] + (-s[r].tokenConsumed) \in Int /\ tok[r] + (-s[r].tokenConsumed) >= 0
      BY <1>s, <2>1, <2>5, FieldTypes DEF GivesTokenBack
    <3> QED
      BY <2>0, <2>3, <2>5, <3>1, TokenFrame DEF MoveToken
  <2> QED
    BY <2>0, <2>4, <2>5
<1>10. ASSUME NEW r \in Requests, Reserve(r) PROVE TokenInv'
  <2>1. s[r].pc = "active"
    BY <1>10 DEF Reserve, At
  <2>2. ASSUME NEW n, NEW p \in {"resCheck", "resFund"}
        PROVE  TokenPart([s[r] EXCEPT !.amount = n, !.pc = p], tok[r], r)
    BY <1>s, <2>1 DEF TokenPart, Sessions, Ended, Opening, Running
  <2>3. \E n : \E p \in {"resCheck", "resFund"} : Become(r, [s[r] EXCEPT !.amount = n, !.pc = p])
    BY <1>10 DEF Reserve
  <2> QED
    BY <1>10, <1>s, <2>2, <2>3, TokenFrame DEF Reserve, tokenVars
<1>11. ASSUME NEW r \in Requests, ReserveCheck(r) PROVE TokenInv'
  <2>1. \E p \in {"active", "resFund"} : Goto(r, p)
    BY <1>11 DEF ReserveCheck
  <2>2. s[r].pc = "resCheck" /\ UNCHANGED tok
    BY <1>11 DEF ReserveCheck, At, tokenVars
  <2> QED
    BY <2>1, <2>2, TokenGoto DEF PCs, Opening, Running, Ended
<1>12. ASSUME NEW r \in Requests, ReserveFund(r) PROVE TokenInv'
  <2>1. s[r].pc = "resFund" /\ UNCHANGED tok
    BY <1>12 DEF ReserveFund, At, tokenVars
  <2>2. ASSUME NEW i PROVE TokenPart([s[r] EXCEPT !.pc = "resTokenCheck", !.held = i], tok[r], r)
    BY <1>s, <2>1 DEF TokenPart, Sessions, Ended, Opening, Running
  <2>3. TokenPart([s[r] EXCEPT !.pc = "active"], tok[r], r)
    BY <1>s, <2>1 DEF TokenPart, Sessions, Ended, Opening, Running
  <2>4. \/ Become(r, [s[r] EXCEPT !.pc = "active"])
        \/ \E i : Become(r, [s[r] EXCEPT !.pc = "resTokenCheck", !.held = i])
    BY <1>12 DEF ReserveFund, Goto
  <2> QED
    BY <1>s, <2>1, <2>2, <2>3, <2>4, TokenFrame
<1>r. ASSUME NEW r \in Requests, s[r].pc \in {"resTokenCheck", "resTokenTake"}, NEW k \in Int,
             k >= tok[r], r \notin Playground => k >= tok[r] + s[r].amount
      PROVE  TokenPart(Reserved(s[r]), k, r)
  <2>1. s[r].amount \in Nat /\ s[r].tokenConsumed \in Nat /\ s[r].pre \in Nat
    BY <1>s, FieldTypes
  <2>2. /\ tok[r] >= 0 /\ s[r].pre <= s[r].tokenConsumed
        /\ r \notin Playground => tok[r] >= s[r].tokenConsumed
    BY <1>s, <1>r DEF TokenPart, Running, Ended
  <2>3. /\ Reserved(s[r]).pc = "active"
        /\ Reserved(s[r]).pre = s[r].pre + s[r].amount
        /\ Reserved(s[r]).tokenConsumed = s[r].tokenConsumed + s[r].amount
    BY <1>s DEF Reserved, Sessions
  <2> QED
    BY <1>s, <1>r, <2>1, <2>2, <2>3 DEF TokenPart, Opening
<1>13. ASSUME NEW r \in Requests, ReserveTokenCheck(r) PROVE TokenInv'
  <2>1. s[r].pc = "resTokenCheck" /\ UNCHANGED tok
    BY <1>13 DEF ReserveTokenCheck, At, tokenVars
  <2>2. CASE r \in Playground
    <3>1. TokenPart(Reserved(s[r]), tok[r], r)
      BY <1>s, <1>r, <2>1, <2>2
    <3> QED
      BY <1>13, <1>s, <2>1, <2>2, <3>1, TokenFrame DEF ReserveTokenCheck
  <2>3. CASE r \notin Playground
    <3>1. \E p \in {"resRoll", "resTokenTake"} : Goto(r, p)
      BY <1>13, <2>3 DEF ReserveTokenCheck
    <3> QED
      BY <2>1, <3>1, TokenGoto DEF PCs, Opening, Running, Ended
  <2> QED
    BY <2>2, <2>3
<1>14. ASSUME NEW r \in Requests, ReserveTokenTake(r) PROVE TokenInv'
  <2>0. PICK o \in Outcomes : ReserveTokenTake(r)!2!(o)
    BY <1>14 DEF ReserveTokenTake
  <2>1. s[r].pc = "resTokenTake" /\ s[r].amount \in Nat
    BY <1>14, <1>s, FieldTypes DEF ReserveTokenTake, At
  <2>2. tok[r] + s[r].amount \in Int /\ tok[r] + s[r].amount >= tok[r]
    BY <1>s, <2>1
  <2>3. TokenPart(Reserved(s[r]), tok[r] + s[r].amount, r)
    BY <1>s, <1>r, <2>1, <2>2
  <2>4. ASSUME NEW k \in Int, k >= tok[r] PROVE TokenPart([s[r] EXCEPT !.pc = "resRoll"], k, r)
    <3>1. s[r].tokenConsumed \in Nat
      BY <1>s, FieldTypes
    <3> QED
      BY <1>s, <2>1, <2>4, <3>1 DEF TokenPart, Sessions, Ended, Opening, Running
  <2>5. CASE o = "failed"
    BY <2>0, <1>s, <2>4, <2>5, TokenFrame DEF tokenVars, Goto
  <2>6. CASE o # "failed"
    BY <2>0, <2>2, <2>3, <2>4, <2>6, TokenFrame DEF MoveToken, Goto
  <2> QED
    BY <2>5, <2>6
<1>15. ASSUME NEW r \in Requests, ReserveRollback(r) PROVE TokenInv'
  <2>1. s[r].pc = "resRoll" /\ UNCHANGED tok
    BY <1>15 DEF ReserveRollback, At, tokenVars
  <2>2. ASSUME NEW i PROVE TokenPart([s[r] EXCEPT !.pc = "active", !.held = i], tok[r], r)
    BY <1>s, <2>1 DEF TokenPart, Sessions, Ended, Opening, Running
  <2> QED
    BY <1>15, <1>s, <2>1, <2>2, TokenFrame DEF ReserveRollback
<1>16. ASSUME NEW r \in Requests, Settle(r) PROVE TokenInv'
  <2>1. s[r].pc = "active" /\ UNCHANGED tok
    BY <1>16 DEF Settle, At, tokenVars
  <2>2. TokenPart([s[r] EXCEPT !.pc = "done", !.ok = TRUE, !.settled = TRUE], tok[r], r)
    BY <1>s, <2>1 DEF TokenPart, Sessions, Ended, Opening, Running
  <2>3. TokenPart([s[r] EXCEPT !.pc = "setFund", !.ok = TRUE], tok[r], r)
    BY <1>s, <2>1 DEF TokenPart, Sessions, Ended, Opening, Running
  <2> QED
    BY <1>16, <1>s, <2>1, <2>2, <2>3, TokenFrame DEF Settle
<1>17. ASSUME NEW r \in Requests, SettleFund(r) PROVE TokenInv'
  <2>1. \E p \in {"setToken", "done"} : Goto(r, p)
    BY <1>17 DEF SettleFund
  <2>2. s[r].pc = "setFund" /\ UNCHANGED tok
    BY <1>17 DEF SettleFund, At, tokenVars
  <2> QED
    BY <2>1, <2>2, TokenGoto DEF PCs, Opening, Running, Ended
<1>18. ASSUME NEW r \in Requests, SettleToken(r) PROVE TokenInv'
  <2>0. PICK o \in Outcomes : SettleToken(r)!2!(o)
    BY <1>18 DEF SettleToken, OutcomesIf, Outcomes
  <2>1. s[r].pc = "setToken"
    BY <1>18 DEF SettleToken, At
  <2>2. ASSUME NEW k \in Int, k >= 0 PROVE TokenPart([s[r] EXCEPT !.pc = "done", !.settled = TRUE], k, r)
    BY <1>s, <2>2 DEF TokenPart, Sessions, Ended, Opening, Running
  <2>3. tok[r] + SettledToken(r) \in Int /\ tok[r] + SettledToken(r) >= 0 /\ tok[r] >= 0
    <3>1. Cost[r] \in Nat /\ s[r].pre \in Nat /\ s[r].tokenConsumed \in Nat
      BY <1>s, FieldTypes, RequestAssumption
    <3>2. /\ tok[r] >= 0 /\ s[r].pre <= s[r].tokenConsumed
          /\ r \notin Playground => tok[r] >= s[r].tokenConsumed
      BY <1>s, <2>1 DEF TokenPart, Running, Ended
    <3> QED
      BY <1>s, <3>1, <3>2 DEF SettledToken
  <2>4. CASE o = "failed"
    BY <2>0, <1>s, <2>2, <2>3, <2>4, TokenFrame DEF tokenVars
  <2>5. CASE o # "failed"
    BY <2>0, <2>2, <2>3, <2>5, TokenFrame DEF MoveToken
  <2> QED
    BY <2>4, <2>5
<1>19. ASSUME NEW r \in Requests, Refund(r) PROVE TokenInv'
  <2>1. \E p \in {"refFund", "done"} : Goto(r, p)
    BY <1>19 DEF Refund
  <2>2. s[r].pc = "active" /\ UNCHANGED tok
    BY <1>19 DEF Refund, At, tokenVars
  <2> QED
    BY <2>1, <2>2, TokenGoto DEF PCs, Opening, Running, Ended
<1>20. ASSUME NEW r \in Requests, WalletRefund(r) PROVE TokenInv'
  <2>1. \E p \in {"refToken"} : Goto(r, p)
    BY <1>20 DEF WalletRefund
  <2>2. s[r].pc = "refFund" /\ UNCHANGED tok
    BY <1>20 DEF WalletRefund, At, tokenVars
  <2> QED
    BY <2>1, <2>2, TokenGoto DEF PCs, Opening, Running, Ended
<1>21. ASSUME NEW r \in Requests, SubRefund(r) PROVE TokenInv'
  <2>1. s[r].pc = "refFund" /\ UNCHANGED tok
    BY <1>21 DEF SubRefund, At, tokenVars
  <2>2. ASSUME NEW i PROVE TokenPart([s[r] EXCEPT !.tries = i], tok[r], r)
    BY <1>s DEF TokenPart, Sessions
  <2>3. Goto(r, "refExtra") \/ \E i : Become(r, [s[r] EXCEPT !.tries = i])
    BY <1>21 DEF SubRefund
  <2>4. CASE Goto(r, "refExtra")
    BY <2>1, <2>4, TokenGoto DEF PCs, Opening, Running, Ended
  <2> QED
    BY <1>s, <2>1, <2>2, <2>3, <2>4, TokenFrame
<1>22. ASSUME NEW r \in Requests, ExtraRefund(r) PROVE TokenInv'
  <2>1. \E p \in {"refToken"} : Goto(r, p)
    BY <1>22 DEF ExtraRefund
  <2>2. s[r].pc = "refExtra" /\ UNCHANGED tok
    BY <1>22 DEF ExtraRefund, At, tokenVars
  <2> QED
    BY <2>1, <2>2, TokenGoto DEF PCs, Opening, Running, Ended
<1>23. ASSUME NEW r \in Requests, TokenRefund(r) PROVE TokenInv'
  <2>0. PICK o \in Outcomes : TokenRefund(r)!2!(o)
    BY <1>23 DEF TokenRefund, OutcomesIf, Outcomes
  <2>1. s[r].pc = "refToken"
    BY <1>23 DEF TokenRefund, At
  <2>2. ASSUME NEW k \in Int, k >= 0 PROVE TokenPart([s[r] EXCEPT !.pc = "done"], k, r)
    BY <1>s, <2>2 DEF TokenPart, Sessions, Ended, Opening, Running
  <2>3. tok[r] >= 0 /\ (r \notin Playground => tok[r] >= s[r].tokenConsumed) /\ s[r].tokenConsumed \in Nat
    BY <1>s, <2>1, FieldTypes DEF TokenPart, Ended
  <2>4. CASE UNCHANGED tokenVars
    BY <2>0, <1>s, <2>2, <2>3, <2>4, TokenFrame DEF tokenVars, Goto
  <2>5. CASE r \notin Playground /\ MoveToken(r, -s[r].tokenConsumed)
    <3>1. tok[r] + (-s[r].tokenConsumed) \in Int /\ tok[r] + (-s[r].tokenConsumed) >= 0
      BY <1>s, <2>3, <2>5
    <3> QED
      BY <2>0, <2>2, <2>5, <3>1, TokenFrame DEF MoveToken, Goto
  <2> QED
    BY <2>0, <2>4, <2>5
<1>24. CASE Tick \/ Expire \/ ResetLoad \/ ResetClaim \/ UNCHANGED vars
  <2>1. UNCHANGED <<s, tok>>
    BY <1>24 DEF Tick, Expire, ResetLoad, ResetClaim, vars, tokenVars
  <2> QED
    BY <2>1 DEF TokenInv, TokenPart
<1>25. ASSUME Crash PROVE TokenInv'
  <2> SUFFICES ASSUME NEW r \in Requests PROVE TokenPart(s'[r], tok'[r], r)
    BY DEF TokenInv, TokenPart
  <2>1. tok'[r] = tok[r] /\ s'[r] \in {s[r], [s[r] EXCEPT !.pc = "dead"]}
    BY <1>25 DEF Crash, tokenVars
  <2>2. TokenPart([s[r] EXCEPT !.pc = "dead"], tok[r], r)
    BY <1>s DEF TokenPart, Sessions, Ended, Opening, Running
  <2> QED
    BY <1>s, <2>1, <2>2
<1> QED
  BY <1>1, <1>2, <1>3, <1>4, <1>5, <1>6, <1>7, <1>8, <1>9, <1>10, <1>11, <1>12, <1>13, <1>14,
     <1>15, <1>16, <1>17, <1>18, <1>19, <1>20, <1>21, <1>22, <1>23, <1>24, <1>25
     DEF Next, PreConsumeStep, ReserveStep, EndStep

\* Whatever statements fail, lose their answer or are repeated, and wherever
\* the process dies, no request gives its token back more than it took from it.
THEOREM TokenSafe == Spec => []TokenNeverPays
<1>1. Init => TypeOK /\ TokenInv
  <2> SUFFICES ASSUME Init PROVE TokenInv
    BY TypeInit
  <2>1. ASSUME NEW r \in Requests PROVE TokenPart(s[r], tok[r], r)
    BY DEF Init, TokenPart, NewSession, Ended, Running
  <2> QED
    BY <2>1 DEF TokenInv
<1>2. TypeOK /\ TokenInv /\ [Next]_vars => (TypeOK /\ TokenInv)'
  BY TypeStep, TokenStep
<1>3. TypeOK /\ TokenInv => TokenNeverPays
  BY DEF TokenInv, TokenPart, TokenNeverPays
<1> QED
  BY <1>1, <1>2, <1>3, PTL DEF Spec

----------------------------------------------------------------------------
(* The subscription. *)

\* The clock is ahead of every period end that was read.
ClockInv ==
    /\ cur <= period
    /\ \A r \in Requests : s[r].snap.now <= period
    /\ resetter # <<>> => resetter[2] <= period

SubInv == WithinTotal /\ resets <= cur /\ ClockInv

\* A step of one request that stores no later reading keeps the clock ahead.
LEMMA ClockFrame ==
    ASSUME TypeOK, ClockInv, NEW r \in Requests, NEW x, Become(r, x), x.snap.now <= period,
           UNCHANGED <<period, resetter>>, cur' <= period
    PROVE  ClockInv'
<1>1. ASSUME NEW q \in Requests PROVE s'[q].snap.now <= period
  BY <1>1 DEF TypeOK, Become, ClockInv
<1> QED
  BY <1>1 DEF ClockInv

\* Giving up a source, or a request, keeps what was read.
LEMMA GiveUpSnap ==
    ASSUME NEW x \in Sessions, NEW r \in Requests, NEW b \in BOOLEAN
    PROVE  /\ TrySubscription(x, b).snap = x.snap
           /\ TryWallet(x, b).snap = x.snap
           /\ Refused(r, x).snap = x.snap
           /\ GiveUp(r, x).snap = x.snap
<1>1. ASSUME NEW c \in BOOLEAN
      PROVE  TrySubscription(x, c).snap = x.snap /\ TryWallet(x, c).snap = x.snap
  BY DEF TrySubscription, TryWallet, Sessions
<1>2. Refused(r, x).snap = x.snap
  BY DEF Refused, Sessions
<1> QED
  BY <1>1, <1>2 DEF GiveUp

\* Every step of a request keeps what its session read of the subscription,
\* replaces it by the present period, or drops it.
LEMMA SnapKept ==
    ASSUME TypeOK, NEW r \in Requests, PreConsumeStep(r) \/ ReserveStep(r) \/ EndStep(r)
    PROVE  \E x : Become(r, x) /\ (x.snap = s[r].snap \/ x.snap = NoSnap \/ x.snap.now = period)
<1>s. s[r] \in Sessions
  BY DEF TypeOK
<1>g. ASSUME NEW p PROVE [s[r] EXCEPT !.pc = p].snap = s[r].snap
  BY <1>s DEF Sessions
<1>1. CASE Begin(r)
  <2>1. PICK q \in Quotas[r] : \E b \in BOOLEAN :
           \/ Become(r, TrySubscription([s[r] EXCEPT !.tokenSeen = ContextQuota(r), !.quota = q, !.attempts = @ + 1], b))
           \/ Become(r, TryWallet([s[r] EXCEPT !.tokenSeen = ContextQuota(r), !.quota = q, !.attempts = @ + 1], b))
    <3>1. Pref[r] \in Preferences
      BY RequestAssumption
    <3> QED
      BY <1>1, <3>1 DEF Begin, Preferences
  <2> DEFINE y == [s[r] EXCEPT !.tokenSeen = ContextQuota(r), !.quota = q, !.attempts = @ + 1]
  <2>2. y.snap = s[r].snap
    BY <1>s DEF Sessions
  <2>3. ASSUME NEW b PROVE TrySubscription(y, b).snap = y.snap /\ TryWallet(y, b).snap = y.snap
    BY <1>s DEF TrySubscription, TryWallet, Sessions
  <2> QED
    BY <2>1, <2>2, <2>3
<1>2. CASE Retry(r)
  <2>1. ASSUME NEW p, NEW a PROVE [NewSession EXCEPT !.pc = p, !.attempts = a].snap = NoSnap
    BY DEF NewSession
  <2> QED
    BY <1>2, <2>1 DEF Retry
<1>3. CASE WalletCheck(r)
  <2>1. ASSUME NEW p, NEW b, NEW n PROVE [s[r] EXCEPT !.pc = p, !.trusted = b, !.amount = n].snap = s[r].snap
    BY <1>s DEF Sessions
  <2>2. \/ Become(r, GiveUp(r, s[r]))
        \/ \E q, b, n : Become(r, [s[r] EXCEPT !.pc = q, !.trusted = b, !.amount = n])
    BY <1>3 DEF WalletCheck
  <2>3. CASE Become(r, GiveUp(r, s[r]))
    BY <1>s, <2>3, GiveUpSnap
  <2>4. ASSUME NEW q, NEW b, NEW n, Become(r, [s[r] EXCEPT !.pc = q, !.trusted = b, !.amount = n])
        PROVE  \E x : Become(r, x) /\ x.snap = s[r].snap
    <3> DEFINE y == [s[r] EXCEPT !.pc = q, !.trusted = b, !.amount = n]
    <3>1. y.snap = s[r].snap
      BY <2>1
    <3>2. Become(r, y)
      BY <2>4
    <3> HIDE DEF y
    <3> QED
      BY <3>1, <3>2
  <2> QED
    BY <2>2, <2>3, <2>4
<1>4. CASE TokenCheck(r) \/ TokenTake(r)
  <2>1. [s[r] EXCEPT !.pc = "fund", !.tokenConsumed = s[r].amount].snap = s[r].snap
    BY <1>s DEF Sessions
  <2>2. \/ Become(r, [s[r] EXCEPT !.pc = "fund", !.tokenConsumed = s[r].amount])
        \/ Become(r, Refused(r, s[r]))
        \/ Become(r, [s[r] EXCEPT !.pc = "tokenTake"])
    BY <1>4 DEF TokenCheck, TokenTake
  <2> QED
    BY <1>s, <1>g, <2>1, <2>2, GiveUpSnap
<1>5. CASE WalletTake(r)
  <2>1. [s[r] EXCEPT !.pc = "active", !.held = s[r].amount, !.pre = s[r].amount].snap = s[r].snap
    BY <1>s DEF Sessions
  <2>2. [s[r] EXCEPT !.pc = "rollToken", !.fallback = FALSE].snap = s[r].snap
    BY <1>s DEF Sessions
  <2> QED
    BY <1>5, <2>1, <2>2 DEF WalletTake
<1>6. CASE SubLoad(r)
  <2>1. ASSUME NEW i, NEW n PROVE [s[r] EXCEPT !.pc = "active", !.held = i, !.pre = n].snap = s[r].snap
    BY <1>s DEF Sessions
  <2>2. [s[r] EXCEPT !.pc = "subTake", !.snap = [used |-> used, cur |-> cur, now |-> period]].snap.now = period
    BY <1>s DEF Sessions
  <2>3. \/ Become(r, [s[r] EXCEPT !.pc = "active", !.held = rec[r].amount, !.pre = s[r].amount])
        \/ Become(r, [s[r] EXCEPT !.pc = "subTake", !.snap = [used |-> used, cur |-> cur, now |-> period]])
        \/ Become(r, [s[r] EXCEPT !.pc = "rollToken"])
        \/ Become(r, [s[r] EXCEPT !.pc = "rollToken", !.fallback = FALSE])
    BY <1>6 DEF SubLoad, Goto
  <2>4. CASE Become(r, [s[r] EXCEPT !.pc = "active", !.held = rec[r].amount, !.pre = s[r].amount])
    BY <2>1, <2>4
  <2>5. CASE Become(r, [s[r] EXCEPT !.pc = "subTake", !.snap = [used |-> used, cur |-> cur, now |-> period]])
    BY <2>2, <2>5
  <2>6. CASE Become(r, [s[r] EXCEPT !.pc = "rollToken"])
    BY <1>g, <2>6
  <2>7. CASE Become(r, [s[r] EXCEPT !.pc = "rollToken", !.fallback = FALSE])
    <3>1. [s[r] EXCEPT !.pc = "rollToken", !.fallback = FALSE].snap = s[r].snap
      BY <1>s DEF Sessions
    <3> QED
      BY <2>7, <3>1
  <2> QED
    BY <2>3, <2>4, <2>5, <2>6, <2>7
<1>7. CASE SubTake(r)
  <2> DEFINE kept == [s[r] EXCEPT !.snap = NoSnap]
  <2>1. [kept EXCEPT !.pc = "rollToken"].snap = NoSnap
    BY <1>s DEF Sessions
  <2>2. [kept EXCEPT !.pc = "rollToken", !.fallback = FALSE].snap = NoSnap
    BY <1>s DEF Sessions
  <2>3. [kept EXCEPT !.pc = "active", !.held = s[r].amount, !.pre = s[r].amount].snap = NoSnap
    BY <1>s DEF Sessions
  <2> HIDE DEF kept
  <2>4. \/ Become(r, [kept EXCEPT !.pc = "rollToken"])
        \/ Become(r, [kept EXCEPT !.pc = "rollToken", !.fallback = FALSE])
        \/ Become(r, [kept EXCEPT !.pc = "active", !.held = s[r].amount, !.pre = s[r].amount])
    BY <1>7 DEF SubTake, kept
  <2> QED
    BY <2>1, <2>2, <2>3, <2>4
<1>8. CASE RollbackToken(r)
  <2>1. [s[r] EXCEPT !.tokenConsumed = 0] \in Sessions
    BY <1>s, TokenBackType
  <2>2. [s[r] EXCEPT !.tokenConsumed = 0].snap = s[r].snap
    BY <1>s DEF Sessions
  <2>3. GiveUp(r, [s[r] EXCEPT !.tokenConsumed = 0]).snap = s[r].snap
    BY <2>1, <2>2, GiveUpSnap
  <2>4. Become(r, GiveUp(r, [s[r] EXCEPT !.tokenConsumed = 0]))
    BY <1>8 DEF RollbackToken
  <2> QED
    BY <2>3, <2>4
<1>9. CASE Reserve(r)
  <2>1. ASSUME NEW n, NEW p PROVE [s[r] EXCEPT !.amount = n, !.pc = p].snap = s[r].snap
    BY <1>s DEF Sessions
  <2> QED
    BY <1>9, <2>1 DEF Reserve
<1>10. CASE ReserveFund(r) \/ ReserveRollback(r)
  <2>1. ASSUME NEW i, NEW p PROVE [s[r] EXCEPT !.pc = p, !.held = i].snap = s[r].snap
    BY <1>s DEF Sessions
  <2>2. \/ Become(r, [s[r] EXCEPT !.pc = "active"])
        \/ \E i, q : Become(r, [s[r] EXCEPT !.pc = q, !.held = i])
    BY <1>10 DEF ReserveFund, ReserveRollback, Goto
  <2> QED
    BY <1>g, <2>1, <2>2
<1>11. CASE ReserveTokenCheck(r) \/ ReserveTokenTake(r)
  <2>1. Reserved(s[r]).snap = s[r].snap
    BY <1>s DEF Reserved, Sessions
  <2>2. Become(r, Reserved(s[r])) \/ \E q : Become(r, [s[r] EXCEPT !.pc = q])
    BY <1>11 DEF ReserveTokenCheck, ReserveTokenTake, Goto
  <2> QED
    BY <1>g, <2>1, <2>2
<1>12. CASE Settle(r)
  <2>1. [s[r] EXCEPT !.pc = "done", !.ok = TRUE, !.settled = TRUE].snap = s[r].snap
    BY <1>s DEF Sessions
  <2>2. [s[r] EXCEPT !.pc = "setFund", !.ok = TRUE].snap = s[r].snap
    BY <1>s DEF Sessions
  <2> QED
    BY <1>12, <2>1, <2>2 DEF Settle
<1>13. CASE SettleToken(r)
  <2>1. [s[r] EXCEPT !.pc = "done", !.settled = TRUE].snap = s[r].snap
    BY <1>s DEF Sessions
  <2> QED
    BY <1>13, <2>1 DEF SettleToken
<1>14. CASE SubRefund(r)
  <2>1. ASSUME NEW i PROVE [s[r] EXCEPT !.tries = i].snap = s[r].snap
    BY <1>s DEF Sessions
  <2>2. (\E i : Become(r, [s[r] EXCEPT !.tries = i])) \/ \E q : Become(r, [s[r] EXCEPT !.pc = q])
    BY <1>14 DEF SubRefund, Goto
  <2> QED
    BY <1>g, <2>1, <2>2
<1>15. CASE ReserveCheck(r) \/ SettleFund(r) \/ Refund(r) \/ WalletRefund(r) \/ ExtraRefund(r) \/ TokenRefund(r)
  <2>1. \E q : Become(r, [s[r] EXCEPT !.pc = q])
    BY <1>15 DEF ReserveCheck, SettleFund, Refund, WalletRefund, ExtraRefund, TokenRefund, Goto
  <2> QED
    BY <1>g, <2>1
<1> QED
  BY <1>1, <1>2, <1>3, <1>4, <1>5, <1>6, <1>7, <1>8, <1>9, <1>10, <1>11, <1>12, <1>13, <1>14, <1>15
     DEF PreConsumeStep, ReserveStep, EndStep

\* An amount moved from or to the subscription leaves it within its total when
\* it is no increase or there was room for it.
LEMMA MoveTotal ==
    ASSUME TypeOK, WithinTotal, NEW r \in Requests, NEW x \in Sources, NEW n \in Int,
           MoveFund(r, x, n), x = "subscription" /\ n > 0 => Room(n)
    PROVE  WithinTotal'
<1>1. CASE x = "wallet"
  BY <1>1 DEF MoveFund, WithinTotal
<1>2. CASE x = "subscription"
  <2>1. used' = UsedAfter(n)
    BY <1>2 DEF MoveFund
  <2>2. n > 0 => Total = 0 \/ used + n <= Total
    BY <1>2 DEF Room
  <2> QED
    BY <2>1, <2>2, QuotaAssumption DEF UsedAfter, WithinTotal, TypeOK
<1> QED
  BY <1>1, <1>2 DEF Sources

\* A step of a request outside SubTake leaves the resets alone and the
\* subscription within its total.
LEMMA TotalKept ==
    ASSUME TypeOK, WithinTotal, NEW r \in Requests,
           PreConsumeStep(r) \/ ReserveStep(r) \/ EndStep(r), ~SubTake(r)
    PROVE  WithinTotal' /\ UNCHANGED <<cur, resets, period, resetter>>
<1>s. s[r] \in Sessions
  BY DEF TypeOK
<1>t. /\ s[r].amount \in Nat /\ s[r].source \in Sources /\ s[r].held \in Int
      /\ s[r].extra \in Nat /\ s[r].pre \in Nat
  BY <1>s, FieldTypes
<1>1. CASE Begin(r) \/ Retry(r) \/ WalletCheck(r) \/ TokenCheck(r) \/ TokenTake(r)
           \/ SubLoad(r) \/ RollbackToken(r)
  BY <1>1 DEF Begin, Retry, WalletCheck, TokenCheck, TokenTake, SubLoad, RollbackToken,
              fundVars, subVars, WithinTotal
<1>2. CASE WalletTake(r)
  <2>1. UNCHANGED fundVars \/ MoveFund(r, "wallet", s[r].amount)
    BY <1>2 DEF WalletTake
  <2>2. UNCHANGED subVars
    BY <1>2 DEF WalletTake
  <2>3. WithinTotal'
    BY <2>1 DEF MoveFund, fundVars, WithinTotal
  <2> QED
    BY <2>2, <2>3 DEF subVars
<1>3. CASE Reserve(r) \/ ReserveCheck(r) \/ ReserveTokenCheck(r) \/ ReserveTokenTake(r)
  BY <1>3 DEF Reserve, ReserveCheck, ReserveTokenCheck, ReserveTokenTake, fundVars, subVars, WithinTotal
<1>4. CASE ReserveFund(r)
  <2>1. \/ UNCHANGED fundVars
        \/ /\ MoveFund(r, s[r].source, s[r].amount)
           /\ s[r].source = "wallet" \/ Room(s[r].amount)
    BY <1>4 DEF ReserveFund
  <2>2. UNCHANGED subVars
    BY <1>4 DEF ReserveFund
  <2>3. ASSUME MoveFund(r, s[r].source, s[r].amount), s[r].source = "wallet" \/ Room(s[r].amount)
        PROVE  WithinTotal'
    BY <1>t, <2>3, MoveTotal
  <2>4. WithinTotal'
    BY <2>1, <2>3 DEF fundVars, WithinTotal
  <2> QED
    BY <2>2, <2>4 DEF subVars
<1>5. CASE ReserveRollback(r)
  <2>1. UNCHANGED fundVars \/ MoveFund(r, s[r].source, -s[r].amount)
    BY <1>5 DEF ReserveRollback
  <2>2. UNCHANGED subVars
    BY <1>5 DEF ReserveRollback
  <2>3. ASSUME MoveFund(r, s[r].source, -s[r].amount) PROVE WithinTotal'
    <3>1. -s[r].amount \in Int /\ ~(-s[r].amount > 0)
      BY <1>t
    <3> QED
      BY <1>t, <2>3, <3>1, MoveTotal
  <2>4. WithinTotal'
    BY <2>1, <2>3 DEF fundVars, WithinTotal
  <2> QED
    BY <2>2, <2>4 DEF subVars
<1>6. CASE Settle(r) \/ SettleToken(r) \/ Refund(r) \/ TokenRefund(r)
  BY <1>6 DEF Settle, SettleToken, Refund, TokenRefund, fundVars, subVars, WithinTotal
<1>7. CASE SettleFund(r)
  <2> DEFINE delta == Cost[r] - s[r].pre
  <2>1. delta \in Int
    BY <1>t, RequestAssumption
  <2>2. \/ UNCHANGED fundVars
        \/ /\ MoveFund(r, s[r].source, delta)
           /\ s[r].source = "subscription" /\ delta > 0 => Room(delta)
    BY <1>7 DEF SettleFund
  <2>3. UNCHANGED subVars
    BY <1>7 DEF SettleFund
  <2> HIDE DEF delta
  <2>4. ASSUME MoveFund(r, s[r].source, delta), s[r].source = "subscription" /\ delta > 0 => Room(delta)
        PROVE  WithinTotal'
    BY <1>t, <2>1, <2>4, MoveTotal
  <2>5. WithinTotal'
    BY <2>2, <2>4 DEF fundVars, WithinTotal
  <2> QED
    BY <2>3, <2>5 DEF subVars
<1>8. CASE WalletRefund(r)
  <2>1. UNCHANGED fundVars \/ MoveFund(r, "wallet", -s[r].held)
    BY <1>8 DEF WalletRefund
  <2>2. UNCHANGED subVars
    BY <1>8 DEF WalletRefund
  <2>3. WithinTotal'
    BY <2>1 DEF MoveFund, fundVars, WithinTotal
  <2> QED
    BY <2>2, <2>3 DEF subVars
<1>9. CASE SubRefund(r)
  <2>1. UNCHANGED fundVars \/ MoveFund(r, "subscription", -rec[r].amount)
    BY <1>9 DEF SubRefund
  <2>2. UNCHANGED subVars
    BY <1>9 DEF SubRefund
  <2>3. rec[r].amount \in Nat
    BY DEF TypeOK
  <2>4. ASSUME MoveFund(r, "subscription", -rec[r].amount) PROVE WithinTotal'
    <3>1. -rec[r].amount \in Int /\ ~(-rec[r].amount > 0)
      BY <2>3
    <3>2. "subscription" \in Sources
      BY DEF Sources
    <3> QED
      BY <2>4, <3>1, <3>2, MoveTotal
  <2>5. WithinTotal'
    BY <2>1, <2>4 DEF fundVars, WithinTotal
  <2> QED
    BY <2>2, <2>5 DEF subVars
<1>10. CASE ExtraRefund(r)
  <2>1. UNCHANGED fundVars \/ MoveFund(r, "subscription", -s[r].extra)
    BY <1>10 DEF ExtraRefund
  <2>2. UNCHANGED subVars
    BY <1>10 DEF ExtraRefund
  <2>3. ASSUME MoveFund(r, "subscription", -s[r].extra) PROVE WithinTotal'
    <3>1. -s[r].extra \in Int /\ ~(-s[r].extra > 0)
      BY <1>t
    <3>2. "subscription" \in Sources
      BY DEF Sources
    <3> QED
      BY <2>3, <3>1, <3>2, MoveTotal
  <2>4. WithinTotal'
    BY <2>1, <2>3 DEF fundVars, WithinTotal
  <2> QED
    BY <2>2, <2>4 DEF subVars
<1> QED
  BY <1>1, <1>2, <1>3, <1>4, <1>5, <1>6, <1>7, <1>8, <1>9, <1>10
     DEF PreConsumeStep, ReserveStep, EndStep

\* SubTake clears the used amount at most for a period that has ended and not
\* been reset, and adds only what there is room for.
LEMMA TakeKept ==
    ASSUME TypeOK, SubInv, NEW r \in Requests, SubTake(r)
    PROVE  /\ WithinTotal' /\ resets' <= cur' /\ cur' <= period
           /\ UNCHANGED <<period, resetter>>
<1>1. /\ s[r] \in Sessions /\ s[r].amount \in Nat
      /\ s[r].snap.cur \in Int /\ s[r].snap.now \in Int
  <2>1. s[r] \in Sessions
    BY DEF TypeOK
  <2>2. s[r].amount \in Nat /\ s[r].snap \in [used : Nat, cur : 0..MaxPeriod, now : 0..MaxPeriod]
    BY <2>1, FieldTypes
  <2> QED
    BY <2>1, <2>2, BoundAssumption
<1> DEFINE won == ResetWon(s[r].snap.cur, s[r].snap.now)
           before == IF won THEN 0 ELSE used
           allowed == IF won THEN Total = 0 \/ 0 + s[r].amount <= Total ELSE Room(s[r].amount)
<1>2. \/ UNCHANGED <<used, cur, resets>>
      \/ /\ allowed
         /\ used' = before + s[r].amount
         /\ cur' = IF won THEN s[r].snap.now ELSE cur
         /\ resets' = IF won THEN resets + 1 ELSE resets
  BY <1>1 DEF SubTake, Incremented, fundVars
<1>3. s[r].snap.now <= period /\ cur <= period /\ resets <= cur /\ WithinTotal
  BY DEF SubInv, ClockInv
<1>4. cur \in Int /\ period \in Int /\ resets \in Int /\ used \in Nat
  BY BoundAssumption DEF TypeOK
<1>5. UNCHANGED <<period, resetter>>
  BY DEF SubTake
<1>6. CASE UNCHANGED <<used, cur, resets>>
  BY <1>3, <1>5, <1>6 DEF WithinTotal
<1>7. CASE won /\ ~UNCHANGED <<used, cur, resets>>
  <2>1. cur = s[r].snap.cur /\ s[r].snap.cur < s[r].snap.now
    BY <1>7 DEF ResetWon
  <2>2. Total > 0 => used' <= Total
    BY <1>1, <1>2, <1>7, QuotaAssumption
  <2>3. cur' = s[r].snap.now /\ resets' = resets + 1
    BY <1>2, <1>7
  <2> HIDE DEF won
  <2> QED
    BY <1>1, <1>3, <1>4, <1>5, <2>1, <2>2, <2>3 DEF WithinTotal
<1>8. CASE ~won /\ ~UNCHANGED <<used, cur, resets>>
  <2>1. Total > 0 => used' <= Total
    BY <1>1, <1>2, <1>4, <1>8, QuotaAssumption DEF Room
  <2>2. cur' = cur /\ resets' = resets
    BY <1>2, <1>8
  <2> HIDE DEF won
  <2> QED
    BY <1>3, <1>5, <2>1, <2>2 DEF WithinTotal
<1> QED
  BY <1>6, <1>7, <1>8

\* The invariant of the subscription is inductive.
LEMMA SubStep == TypeOK /\ SubInv /\ [Next]_vars => SubInv'
<1> SUFFICES ASSUME TypeOK, SubInv, [Next]_vars PROVE SubInv'
  OBVIOUS
<1>t. /\ cur \in Nat /\ period \in Nat /\ resets \in Nat /\ used \in Nat
      /\ cur <= period /\ resets <= cur /\ WithinTotal /\ ClockInv
  BY BoundAssumption DEF TypeOK, SubInv, ClockInv
<1>1. CASE UNCHANGED vars
  BY <1>1, <1>t DEF vars, SubInv, WithinTotal, ClockInv
<1>2. ASSUME NEW r \in Requests, PreConsumeStep(r) \/ ReserveStep(r) \/ EndStep(r)
      PROVE  SubInv'
  <2>1. WithinTotal' /\ resets' <= cur' /\ cur' <= period /\ UNCHANGED <<period, resetter>>
    <3>1. CASE SubTake(r)
      BY <3>1, TakeKept
    <3>2. CASE ~SubTake(r)
      BY <1>2, <1>t, <3>2, TotalKept
    <3> QED
      BY <3>1, <3>2
  <2>2. PICK x : Become(r, x) /\ (x.snap = s[r].snap \/ x.snap = NoSnap \/ x.snap.now = period)
    BY <1>2, SnapKept
  <2>3. x.snap.now <= period
    BY <1>t, <2>2 DEF ClockInv, NoSnap
  <2>4. ClockInv'
    BY <1>t, <2>1, <2>2, <2>3, ClockFrame
  <2> QED
    BY <2>1, <2>4 DEF SubInv
<1>3. CASE Tick
  <2>1. period' = period + 1 /\ UNCHANGED <<used, cur, resets, s, resetter>>
    BY <1>3 DEF Tick, fundVars
  <2>2. ASSUME NEW q \in Requests PROVE s[q].snap.now <= period + 1
    <3>1. s[q] \in Sessions
      BY DEF TypeOK
    <3>2. s[q].snap.now \in Int
      BY <3>1, FieldTypes, BoundAssumption
    <3> QED
      BY <1>t, <3>2 DEF ClockInv
  <2>3. resetter # <<>> => resetter[2] <= period + 1
    <3>1. resetter # <<>> => resetter[2] \in Int
      BY BoundAssumption DEF TypeOK
    <3> QED
      BY <1>t, <3>1 DEF ClockInv
  <2>4. ClockInv'
    BY <1>t, <2>1, <2>2, <2>3 DEF ClockInv
  <2> QED
    BY <1>t, <2>1, <2>4 DEF SubInv, WithinTotal
<1>4. CASE Expire
  BY <1>4, <1>t DEF Expire, fundVars, SubInv, WithinTotal, ClockInv
<1>5. CASE ResetLoad
  <2>1. resetter' = <<cur, period>> /\ UNCHANGED <<used, cur, resets, s, period>>
    BY <1>5 DEF ResetLoad, fundVars
  <2>2. ClockInv'
    BY <1>t, <2>1 DEF ClockInv
  <2> QED
    BY <1>t, <2>1, <2>2 DEF SubInv, WithinTotal
<1>6. CASE ResetClaim
  <2>1. resetter[1] \in Int /\ resetter[2] \in Int /\ resetter[2] <= period
    BY <1>6, <1>t, BoundAssumption DEF ResetClaim, TypeOK, ClockInv
  <2>2. resetter' = <<>> /\ UNCHANGED <<s, period>>
    BY <1>6 DEF ResetClaim
  <2>3. \/ UNCHANGED <<used, cur, resets>>
        \/ /\ resetter[1] < resetter[2] /\ cur = resetter[1]
           /\ used' = 0 /\ cur' = resetter[2] /\ resets' = resets + 1
    BY <1>6 DEF ResetClaim, ResetWon
  <2>4. cur' <= period /\ resets' <= cur'
    BY <1>t, <2>1, <2>3
  <2>5. WithinTotal'
    BY <1>t, <2>3, QuotaAssumption DEF WithinTotal
  <2> QED
    BY <1>t, <2>2, <2>4, <2>5 DEF SubInv, ClockInv
<1>7. CASE Crash
  <2>1. resetter' = <<>> /\ UNCHANGED <<used, cur, resets, period>>
    BY <1>7 DEF Crash, fundVars
  <2>2. ASSUME NEW q \in Requests PROVE s'[q].snap.now <= period
    <3>1. [s[q] EXCEPT !.pc = "dead"].snap = s[q].snap
      BY DEF TypeOK, Sessions
    <3>2. s'[q].snap = s[q].snap
      BY <1>7, <3>1 DEF Crash
    <3> QED
      BY <1>t, <3>2 DEF ClockInv
  <2>3. ClockInv'
    BY <1>t, <2>1, <2>2 DEF ClockInv
  <2> QED
    BY <1>t, <2>1, <2>3 DEF SubInv, WithinTotal
<1> QED
  BY <1>1, <1>2, <1>3, <1>4, <1>5, <1>6, <1>7 DEF Next

\* The invariant of the subscription holds in every reachable state.
LEMMA SubCorrect == Spec => []SubInv
<1>1. Init => SubInv
  <2> SUFFICES ASSUME Init PROVE SubInv
    OBVIOUS
  <2>1. ClockInv
    BY DEF Init, NewSession, NoSnap, ClockInv
  <2> QED
    BY <2>1, QuotaAssumption DEF Init, SubInv, WithinTotal
<1> QED
  BY <1>1, SubStep, TypeCorrect, PTL DEF Spec

\* Concurrent reservations, raises and settlements never use more of the
\* subscription than its total, whatever statements fail: each increment made by
\* PreConsumeUserSubscription and PostConsumeUserSubscriptionDelta is conditional.
THEOREM TotalSafe == Spec => []WithinTotal
<1>1. SubInv => WithinTotal
  BY DEF SubInv
<1> QED
  BY <1>1, SubCorrect, PTL

\* The used amount is cleared at most once per period that ended: every reset
\* by maybeResetUserSubscriptionWithPlanTx moves next_reset_time past the period it
\* claims, so that no other request or task can claim that period.
THEOREM ResetOnce == Spec => []ResetOncePerPeriod
<1>1. TypeOK /\ SubInv => ResetOncePerPeriod
  BY BoundAssumption DEF TypeOK, SubInv, ClockInv, ResetOncePerPeriod
<1> QED
  BY <1>1, TypeCorrect, SubCorrect, PTL
=============================================================================
