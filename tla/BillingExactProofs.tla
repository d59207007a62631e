------------------------- MODULE BillingExactProofs -------------------------
(***************************************************************************)
(* What a request pays, for any requests, prices, balances and bounds: as  *)
(* long as no statement fails a request pays exactly its cost, and,        *)
(* whatever fails, a request whose price is the same at every attempt      *)
(* takes no more back from a funding source than it gave.                  *)
(***************************************************************************)
EXTENDS BillingSessionProofs

----------------------------------------------------------------------------
(* What one step of a request changes. *)

Step(r) == PreConsumeStep(r) \/ ReserveStep(r) \/ EndStep(r)

\* The session and the amounts of every other request stay as they are.
Only(r) ==
    \A q \in Requests \ {r} : /\ s'[q] = s[q] /\ fund'[q] = fund[q]
                              /\ tok'[q] = tok[q] /\ rec'[q] = rec[q]

\* A stored session is the request's session.
LEMMA BecomeHere ==
    ASSUME TypeOK, NEW r \in Requests, NEW x, Become(r, x)
    PROVE  s'[r] = x /\ \A q \in Requests \ {r} : s'[q] = s[q]
BY DEF TypeOK, Become

\* Money moved by a request is the request's.
LEMMA MoveFundHere ==
    ASSUME TypeOK, NEW r \in Requests, NEW x \in Sources, NEW n \in Int, MoveFund(r, x, n)
    PROVE  /\ fund'[r] = [fund[r] EXCEPT ![x] = fund[r][x] + n]
           /\ \A q \in Requests \ {r} : fund'[q] = fund[q]
<1>1. fund' = [fund EXCEPT ![r] = [fund[r] EXCEPT ![x] = fund[r][x] + n]]
  BY DEF MoveFund
<1> QED
  BY <1>1 DEF TypeOK

\* The same, for the token.
LEMMA MoveTokenHere ==
    ASSUME TypeOK, NEW r \in Requests, NEW n \in Int, MoveToken(r, n)
    PROVE  tok'[r] = tok[r] + n /\ \A q \in Requests \ {r} : tok'[q] = tok[q]
BY DEF TypeOK, MoveToken

\* Of a statement that succeeded no fault is counted.
LEMMA NoFault ==
    ASSUME TypeOK, NEW o, Count(o), faults' = 0
    PROVE  o = "ok" /\ faults = 0
BY BoundAssumption DEF TypeOK, Count

\* No step makes faults forgotten.
LEMMA FaultsStay ==
    ASSUME TypeOK, [Next]_vars, faults' = 0
    PROVE  faults = 0 /\ ~Crash
<1>1. faults \in Nat
  BY BoundAssumption DEF TypeOK
<1>2. ASSUME NEW r \in Requests, PreConsumeStep(r) PROVE faults = 0
  BY <1>1, <1>2, NoFault DEF PreConsumeStep, Begin, Retry, WalletCheck, TokenCheck, TokenTake,
     WalletTake, SubLoad, SubTake, RollbackToken
<1>3. ASSUME NEW r \in Requests, ReserveStep(r) PROVE faults = 0
  BY <1>1, <1>3, NoFault DEF ReserveStep, Reserve, ReserveCheck, ReserveFund, ReserveTokenCheck,
     ReserveTokenTake, ReserveRollback
<1>4. ASSUME NEW r \in Requests, EndStep(r) PROVE faults = 0
  BY <1>1, <1>4, NoFault DEF EndStep, Settle, SettleFund, SettleToken, Refund, WalletRefund,
     SubRefund, ExtraRefund, TokenRefund
<1>5. ASSUME Tick \/ Expire \/ ResetLoad \/ ResetClaim \/ UNCHANGED vars PROVE faults = 0
  BY <1>5 DEF Tick, Expire, ResetLoad, ResetClaim, vars
<1>6. ~Crash
  BY <1>1 DEF Crash
<1> QED
  BY <1>2, <1>3, <1>4, <1>5, <1>6 DEF Next

\* What a step may do to one of the records is done to its request's.
LEMMA StepOnly ==
    ASSUME TypeOK, NEW r \in Requests, Step(r)
    PROVE  Only(r)
<1>s. s[r] \in Sessions /\ s[r].source \in Sources
  BY FieldTypes DEF TypeOK
<1>1. \E x : Become(r, x)
  BY DEF Step, PreConsumeStep, ReserveStep, EndStep, Begin, Retry, WalletCheck, TokenCheck,
     TokenTake, WalletTake, SubLoad, SubTake, RollbackToken, Reserve, ReserveCheck, ReserveFund,
     ReserveTokenCheck, ReserveTokenTake, ReserveRollback, Settle, SettleFund, SettleToken,
     Refund, WalletRefund, SubRefund, ExtraRefund, TokenRefund, Goto
<1>2. UNCHANGED tok \/ \E n : tok' = [tok EXCEPT ![r] = n]
  BY DEF Step, PreConsumeStep, ReserveStep, EndStep, Begin, Retry, WalletCheck, TokenCheck,
     TokenTake, WalletTake, SubLoad, SubTake, RollbackToken, Reserve, ReserveCheck, ReserveFund,
     ReserveTokenCheck, ReserveTokenTake, ReserveRollback, Settle, SettleFund, SettleToken,
     Refund, WalletRefund, SubRefund, ExtraRefund, TokenRefund, MoveToken, tokenVars
<1>3. UNCHANGED rec \/ \E c : rec' = [rec EXCEPT ![r] = c]
  BY DEF Step, PreConsumeStep, ReserveStep, EndStep, Begin, Retry, WalletCheck, TokenCheck,
     TokenTake, WalletTake, SubLoad, SubTake, RollbackToken, Reserve, ReserveCheck, ReserveFund,
     ReserveTokenCheck, ReserveTokenTake, ReserveRollback, Settle, SettleFund, SettleToken,
     Refund, WalletRefund, SubRefund, ExtraRefund, TokenRefund
<1>4. UNCHANGED fund \/ \E f : fund' = [fund EXCEPT ![r] = f]
  BY DEF Step, PreConsumeStep, ReserveStep, EndStep, Begin, Retry, WalletCheck, TokenCheck,
     TokenTake, WalletTake, SubLoad, SubTake, RollbackToken, Reserve, ReserveCheck, ReserveFund,
     ReserveTokenCheck, ReserveTokenTake, ReserveRollback, Settle, SettleFund, SettleToken,
     Refund, WalletRefund, SubRefund, ExtraRefund, TokenRefund, MoveFund, fundVars
<1>5. \A q \in Requests \ {r} : s'[q] = s[q]
  BY <1>1, BecomeHere
<1>6. \A q \in Requests \ {r} : fund'[q] = fund[q] /\ tok'[q] = tok[q] /\ rec'[q] = rec[q]
  BY <1>2, <1>3, <1>4 DEF TypeOK
<1> QED
  BY <1>5, <1>6 DEF Only

----------------------------------------------------------------------------
(* Without faults. *)

Choosing == {"new", "wallet", "tokenCheck", "tokenTake", "refused"}
Funding == {"fund", "subTake", "rollToken"}
Holding == {"active", "resCheck", "resFund", "setFund", "refFund"}
Raising == {"resTokenCheck", "resTokenTake", "resRoll"}

\* The part of n that the token has to bear.
Share(r, n) == IF r \in Playground THEN 0 ELSE n

\* n was taken from source, and nothing from the other one.
Paid(source, n, f) == \A y \in Sources : f[y] = IF y = source THEN n ELSE 0

\* The funding source counts what was taken: n more than the session has
\* reserved so far, or, for a subscription, what its record says.
Counted(x, c, n) ==
    /\ x.source = "wallet" => x.held = x.pre + n
    /\ x.source = "subscription" =>
         c.status = "consumed" /\ c.amount = x.held /\ x.pre = x.held + x.extra

\* What session x of request r has taken from the funding sources (f) and the
\* token (k), and what its record (c) says, at each point of the protocol.
BeforeFunding(x, f, k, c, r) ==
    /\ Paid(x.source, 0, f) /\ c.status = "none"
    /\ x.pre = 0 /\ x.held = 0 /\ x.extra = 0
    /\ x.pc \in Choosing => k = 0
    /\ x.pc \in Choosing \ {"refused"} => x.tokenConsumed = 0
    /\ x.pc \in Funding => k = Share(r, x.tokenConsumed)
    /\ x.pc \in {"fund", "subTake"} => x.tokenConsumed = x.amount
    /\ x.pc = "wallet" => x.source = "wallet"
    /\ x.pc = "subTake" => x.source = "subscription"
    /\ x.pc = "tokenTake" => r \notin Playground
Reserving(x, f, k, c, r) ==
    LET n == IF x.pc \in Raising THEN x.amount ELSE 0
    IN  /\ Paid(x.source, x.pre + n, f) /\ Counted(x, c, n)
        /\ k = Share(r, x.pre) /\ x.tokenConsumed = x.pre
        /\ x.pc = "resTokenTake" => r \notin Playground
Closing(x, f, k, r) ==
    /\ x.pc = "setToken" => Paid(x.source, Cost[r], f) /\ k = Share(r, x.pre)
    /\ x.pc = "refExtra" => x.source = "subscription" /\ Paid(x.source, x.extra, f)
    /\ x.pc = "refToken" => Paid(x.source, 0, f)
    /\ x.pc \in {"refExtra", "refToken"} => k = Share(r, x.tokenConsumed)
Closed(x, f, k, r) ==
    LET n == IF ~x.ok THEN 0 ELSE IF x.settled THEN Cost[r] ELSE x.pre
    IN  /\ Paid(x.source, n, f) /\ k = Share(r, n)
        /\ x.ok /\ ~x.settled => x.source = "subscription" /\ x.pre < Cost[r]
Answered(x) ==
    /\ x.pc \notin {"done", "dead"} => ~x.settled
    /\ x.pc \notin {"setFund", "setToken", "done", "dead"} => ~x.ok
    /\ x.pc \in {"setFund", "setToken"} => x.ok

ExactPart(x, f, k, c, r) ==
    /\ x.pc \in Choosing \cup Funding => BeforeFunding(x, f, k, c, r)
    /\ x.pc \in Holding \cup Raising => Reserving(x, f, k, c, r)
    /\ Closing(x, f, k, r)
    /\ x.pc = "done" => Closed(x, f, k, r)
    /\ Answered(x)

ExactInv == faults = 0 => \A r \in Requests : ExactPart(s[r], fund[r], tok[r], rec[r], r)

\* Taking m more from the same source.
LEMMA PaidMore ==
    ASSUME NEW x \in Sources, NEW n \in Int, NEW m \in Int, NEW f \in [Sources -> Int],
           Paid(x, n, f)
    PROVE  Paid(x, n + m, [f EXCEPT ![x] = f[x] + m])
BY DEF Paid

\* The same, of the money that a request moves.
LEMMA PaidMoved ==
    ASSUME TypeOK, NEW r \in Requests, NEW x \in Sources, NEW m \in Int, MoveFund(r, x, m),
           NEW n \in Int, NEW v, Paid(x, n, fund[r]), v = n + m
    PROVE  Paid(x, v, fund'[r])
<1>1. fund[r] \in [Sources -> Int]
  BY DEF TypeOK
<1>2. fund'[r] = [fund[r] EXCEPT ![x] = fund[r][x] + m]
  BY MoveFundHere
<1> QED
  BY <1>1, <1>2, PaidMore

\* Nothing taken is nothing taken from any source.
LEMMA PaidNothing ==
    ASSUME NEW x \in Sources, NEW y \in Sources, NEW f, Paid(x, 0, f)
    PROVE  Paid(y, 0, f)
BY DEF Paid

\* A request's part, from its session.
LEMMA ExactBefore ==
    ASSUME TypeOK, ExactInv, faults = 0, NEW r \in Requests
    PROVE  /\ s[r] \in Sessions /\ fund[r] \in [Sources -> Int] /\ tok[r] \in Int
           /\ rec[r] \in [status : {"none", "consumed", "refunded"}, amount : Nat]
           /\ Cost[r] \in Nat
           /\ ExactPart(s[r], fund[r], tok[r], rec[r], r)
BY RequestAssumption DEF TypeOK, ExactInv

\* The next source to try starts from nothing; without one the request ends
\* and has paid nothing.
LEMMA ExactGiveUp ==
    ASSUME NEW r \in Requests, NEW x \in Sessions, NEW b \in BOOLEAN, NEW c, NEW f,
           Paid(x.source, 0, f), c.status = "none",
           x.pre = 0, x.held = 0, x.extra = 0, ~x.ok, ~x.settled
    PROVE  /\ ExactPart(TrySubscription(x, b), f, 0, c, r)
           /\ ExactPart(TryWallet(x, b), f, 0, c, r)
           /\ ExactPart(Refused(r, x), f, 0, c, r)
           /\ ExactPart(GiveUp(r, x), f, 0, c, r)
<1>0. \A y \in Sources : Paid(y, 0, f)
  BY FieldTypes, PaidNothing
<1>1. ASSUME NEW d \in BOOLEAN PROVE ExactPart(TrySubscription(x, d), f, 0, c, r)
  <2> DEFINE y == TrySubscription(x, d)
  <2>1. /\ y.pc = "tokenCheck" /\ y.source = "subscription" /\ y.tokenConsumed = 0
        /\ y.pre = 0 /\ y.held = 0 /\ y.extra = 0 /\ ~y.ok /\ ~y.settled
    BY DEF TrySubscription, Sessions
  <2> HIDE DEF y
  <2>2. ExactPart(y, f, 0, c, r)
    BY <1>0, <2>1 DEF ExactPart, BeforeFunding, Closing, Answered, Choosing, Funding, Holding, Raising, Sources
  <2> QED
    BY <2>2 DEF y
<1>2. ASSUME NEW d \in BOOLEAN PROVE ExactPart(TryWallet(x, d), f, 0, c, r)
  <2> DEFINE y == TryWallet(x, d)
  <2>1. /\ y.pc = "wallet" /\ y.source = "wallet" /\ y.tokenConsumed = 0
        /\ y.pre = 0 /\ y.held = 0 /\ y.extra = 0 /\ ~y.ok /\ ~y.settled
    BY DEF TryWallet, Sessions
  <2> HIDE DEF y
  <2>2. ExactPart(y, f, 0, c, r)
    BY <1>0, <2>1 DEF ExactPart, BeforeFunding, Closing, Answered, Choosing, Funding, Holding, Raising, Sources
  <2> QED
    BY <2>2 DEF y
<1>3. ExactPart(Refused(r, x), f, 0, c, r)
  <2>1. ASSUME NEW p \in {"refused", "done"} PROVE ExactPart([x EXCEPT !.pc = p], f, 0, c, r)
    <3> DEFINE y == [x EXCEPT !.pc = p]
    <3>1. /\ y.pc = p /\ y.source = x.source
          /\ y.pre = 0 /\ y.held = 0 /\ y.extra = 0 /\ ~y.ok /\ ~y.settled
      BY DEF Sessions
    <3> HIDE DEF y
    <3>2. ExactPart(y, f, 0, c, r)
      BY <1>0, <3>1 DEF ExactPart, BeforeFunding, Closing, Closed, Share, Answered, Choosing, Funding, Holding, Raising
    <3> QED
      BY <3>2 DEF y
  <2> QED
    BY <2>1 DEF Refused
<1> QED
  BY <1>1, <1>2, <1>3 DEF GiveUp

\* The sessions that are asked for, as long as no statement fails.
LEMMA ExactOpening ==
    ASSUME TypeOK, ExactInv, faults = 0, faults' = 0, NEW r \in Requests, PreConsumeStep(r)
    PROVE  ExactPart(s'[r], fund'[r], tok'[r], rec'[r], r)
<1> DEFINE Goal == ExactPart(s'[r], fund'[r], tok'[r], rec'[r], r)
<1>s. /\ s[r] \in Sessions /\ fund[r] \in [Sources -> Int] /\ tok[r] \in Int
      /\ rec[r] \in [status : {"none", "consumed", "refunded"}, amount : Nat]
      /\ Cost[r] \in Nat
      /\ ExactPart(s[r], fund[r], tok[r], rec[r], r)
  BY ExactBefore
<1>t. /\ s[r].source \in Sources /\ s[r].amount \in Nat /\ s[r].pre \in Nat
      /\ s[r].tokenConsumed \in Nat /\ s[r].held \in Int /\ s[r].extra \in Nat
  BY <1>s, FieldTypes
<1>b. ASSUME s[r].pc \in Choosing \cup Funding
      PROVE  /\ Paid(s[r].source, 0, fund[r]) /\ rec[r].status = "none"
             /\ s[r].pre = 0 /\ s[r].held = 0 /\ s[r].extra = 0 /\ ~s[r].ok /\ ~s[r].settled
             /\ BeforeFunding(s[r], fund[r], tok[r], rec[r], r)
  BY <1>b, <1>s DEF ExactPart, BeforeFunding, Answered, Choosing, Funding
<1>1. CASE Begin(r)
  <2>1. s[r].pc = "new" /\ UNCHANGED <<fund, tok, rec>>
    BY <1>1 DEF Begin, At, fundVars, tokenVars
  <2>2. PICK q \in Quotas[r] : \E b \in BOOLEAN :
           \/ Become(r, TrySubscription([s[r] EXCEPT !.tokenSeen = ContextQuota(r), !.quota = q, !.attempts = @ + 1], b))
           \/ Become(r, TryWallet([s[r] EXCEPT !.tokenSeen = ContextQuota(r), !.quota = q, !.attempts = @ + 1], b))
    <3>1. Pref[r] \in Preferences
      BY RequestAssumption
    <3> QED
      BY <1>1, <3>1 DEF Begin, Preferences
  <2> DEFINE y == [s[r] EXCEPT !.tokenSeen = ContextQuota(r), !.quota = q, !.attempts = @ + 1]
  <2>3. y \in Sessions
    <3>1. ContextQuota(r) \in Int /\ q \in Nat /\ s[r].attempts + 1 \in Nat
      BY <1>s, FieldTypes, RequestAssumption DEF ContextQuota, TypeOK
    <3> QED
      BY <1>s, <3>1, PricedType
  <2>4. tok[r] = 0 /\ Paid(s[r].source, 0, fund[r]) /\ rec[r].status = "none"
    BY <1>b, <2>1 DEF BeforeFunding, Choosing
  <2>5. /\ y.source = s[r].source /\ y.pre = 0 /\ y.held = 0 /\ y.extra = 0 /\ ~y.ok /\ ~y.settled
    BY <1>s, <1>b, <2>1 DEF Sessions, Choosing
  <2> HIDE DEF y
  <2>6. ASSUME NEW b \in BOOLEAN
        PROVE  /\ ExactPart(TrySubscription(y, b), fund[r], 0, rec[r], r)
               /\ ExactPart(TryWallet(y, b), fund[r], 0, rec[r], r)
    BY <1>s, <2>3, <2>4, <2>5, ExactGiveUp
  <2>7. \E b \in BOOLEAN : Become(r, TrySubscription(y, b)) \/ Become(r, TryWallet(y, b))
    BY <2>2 DEF y
  <2>8. PICK b \in BOOLEAN : s'[r] = TrySubscription(y, b) \/ s'[r] = TryWallet(y, b)
    BY <2>7, BecomeHere
  <2> QED
    BY <2>1, <2>4, <2>6, <2>8
<1>2. CASE Retry(r)
  <2>1. s[r].pc = "refused" /\ UNCHANGED <<fund, tok, rec>>
    BY <1>2 DEF Retry, At, fundVars, tokenVars
  <2>2. PICK p \in {"new", "done"} : s'[r] = [NewSession EXCEPT !.pc = p, !.attempts = s[r].attempts]
    BY <1>2, BecomeHere DEF Retry
  <2>3. /\ s'[r].pc = p /\ s'[r].source = "wallet" /\ s'[r].tokenConsumed = 0
        /\ s'[r].pre = 0 /\ s'[r].held = 0 /\ s'[r].extra = 0 /\ ~s'[r].ok /\ ~s'[r].settled
    BY <2>2 DEF NewSession
  <2>4. tok[r] = 0 /\ Paid("wallet", 0, fund[r]) /\ rec[r].status = "none"
    BY <1>s, <1>t, <1>b, <2>1, PaidNothing DEF BeforeFunding, Choosing, Sources
  <2> QED
    BY <2>1, <2>3, <2>4 DEF ExactPart, BeforeFunding, Closing, Closed, Share, Answered, Choosing, Funding, Holding, Raising
<1>3. CASE WalletCheck(r)
  <2>1. s[r].pc = "wallet" /\ UNCHANGED <<fund, tok, rec>>
    BY <1>3 DEF WalletCheck, At, fundVars, tokenVars
  <2>2. tok[r] = 0 /\ s[r].tokenConsumed = 0
    BY <1>b, <2>1 DEF BeforeFunding, Choosing
  <2>3. CASE Become(r, GiveUp(r, s[r]))
    <3>1. s'[r] = GiveUp(r, s[r])
      BY <2>3, BecomeHere
    <3>2. ExactPart(GiveUp(r, s[r]), fund[r], 0, rec[r], r)
      BY <1>s, <1>b, <2>1, ExactGiveUp DEF Choosing
    <3> QED
      BY <2>1, <2>2, <3>1, <3>2
  <2>4. ASSUME NEW p \in {"active", "tokenCheck"}, NEW b, NEW n,
               Become(r, [s[r] EXCEPT !.pc = p, !.trusted = b, !.amount = n])
        PROVE  Goal
    <3>1. s'[r] = [s[r] EXCEPT !.pc = p, !.trusted = b, !.amount = n]
      BY <2>4, BecomeHere
    <3>2. /\ s'[r].pc = p /\ s'[r].source = s[r].source /\ s'[r].tokenConsumed = 0
          /\ s'[r].pre = 0 /\ s'[r].held = 0 /\ s'[r].extra = 0 /\ ~s'[r].ok /\ ~s'[r].settled
      BY <1>s, <1>b, <2>1, <2>2, <3>1 DEF Sessions, Choosing
    <3>3. Paid(s[r].source, 0, fund[r]) /\ rec[r].status = "none" /\ s[r].source = "wallet"
      BY <1>b, <2>1 DEF BeforeFunding, Choosing
    <3> QED
      BY <2>1, <2>2, <3>2, <3>3 DEF ExactPart, BeforeFunding, Reserving, Counted, Share,
         Closing, Answered, Choosing, Funding, Holding, Raising
  <2> QED
    BY <1>3, <2>3, <2>4 DEF WalletCheck
<1>4. CASE TokenCheck(r)
  <2>1. s[r].pc = "tokenCheck" /\ UNCHANGED <<fund, tok, rec>>
    BY <1>4 DEF TokenCheck, At, fundVars, tokenVars
  <2>2. tok[r] = 0 /\ s[r].tokenConsumed = 0
    BY <1>b, <2>1 DEF BeforeFunding, Choosing
  <2>3. CASE Become(r, Refused(r, s[r]))
    <3>1. s'[r] = Refused(r, s[r])
      BY <2>3, BecomeHere
    <3>2. ExactPart(Refused(r, s[r]), fund[r], 0, rec[r], r)
      BY <1>s, <1>b, <2>1, ExactGiveUp DEF Choosing
    <3> QED
      BY <2>1, <2>2, <3>1, <3>2
  <2>4. CASE r \notin Playground /\ Become(r, [s[r] EXCEPT !.pc = "tokenTake"])
    <3>1. s'[r] = [s[r] EXCEPT !.pc = "tokenTake"]
      BY <2>4, BecomeHere
    <3>2. /\ s'[r].pc = "tokenTake" /\ s'[r].source = s[r].source /\ s'[r].tokenConsumed = 0
          /\ s'[r].pre = 0 /\ s'[r].held = 0 /\ s'[r].extra = 0 /\ ~s'[r].ok /\ ~s'[r].settled
      BY <1>s, <1>b, <2>1, <2>2, <3>1 DEF Sessions, Choosing
    <3> QED
      BY <1>b, <2>1, <2>2, <2>4, <3>2 DEF ExactPart, BeforeFunding, Closing, Answered, Choosing, Funding, Holding, Raising
  <2>5. CASE r \in Playground /\ Become(r, [s[r] EXCEPT !.pc = "fund", !.tokenConsumed = s[r].amount])
    <3>1. s'[r] = [s[r] EXCEPT !.pc = "fund", !.tokenConsumed = s[r].amount]
      BY <2>5, BecomeHere
    <3>2. /\ s'[r].pc = "fund" /\ s'[r].source = s[r].source /\ s'[r].tokenConsumed = s'[r].amount
          /\ s'[r].pre = 0 /\ s'[r].held = 0 /\ s'[r].extra = 0 /\ ~s'[r].ok /\ ~s'[r].settled
      BY <1>s, <1>b, <2>1, <2>2, <3>1 DEF Sessions, Choosing
    <3> QED
      BY <1>b, <2>1, <2>2, <2>5, <3>2 DEF ExactPart, BeforeFunding, Share, Closing, Answered, Choosing, Funding, Holding, Raising
  <2> QED
    BY <1>4, <2>3, <2>4, <2>5 DEF TokenCheck
<1>5. CASE TokenTake(r)
  <2>1. s[r].pc = "tokenTake" /\ UNCHANGED <<fund, rec>>
    BY <1>5 DEF TokenTake, At, fundVars
  <2>2. tok[r] = 0
    BY <1>b, <2>1 DEF BeforeFunding, Choosing
  <2>3. MoveToken(r, s[r].amount) /\ Become(r, [s[r] EXCEPT !.pc = "fund", !.tokenConsumed = s[r].amount])
    BY <1>5, NoFault DEF TokenTake
  <2>4. tok'[r] = s[r].amount
    BY <1>t, <2>2, <2>3, MoveTokenHere
  <2>5. s'[r] = [s[r] EXCEPT !.pc = "fund", !.tokenConsumed = s[r].amount]
    BY <2>3, BecomeHere
  <2>6. /\ s'[r].pc = "fund" /\ s'[r].source = s[r].source /\ s'[r].tokenConsumed = s[r].amount
        /\ s'[r].amount = s[r].amount
        /\ s'[r].pre = 0 /\ s'[r].held = 0 /\ s'[r].extra = 0 /\ ~s'[r].ok /\ ~s'[r].settled
    BY <1>s, <1>b, <2>1, <2>5 DEF Sessions, Choosing
  <2>7. r \notin Playground
    BY <1>b, <2>1 DEF BeforeFunding, Choosing
  <2> QED
    BY <1>b, <2>1, <2>4, <2>6, <2>7 DEF ExactPart, BeforeFunding, Share, Closing, Answered, Choosing, Funding, Holding, Raising
<1>6. CASE WalletTake(r)
  <2>1. s[r].pc = "fund" /\ s[r].source = "wallet" /\ UNCHANGED <<tok, rec>>
    BY <1>6 DEF WalletTake, At, tokenVars
  <2>2. MoveFund(r, "wallet", s[r].amount)
        /\ Become(r, [s[r] EXCEPT !.pc = "active", !.held = s[r].amount, !.pre = s[r].amount])
    BY <1>6, NoFault DEF WalletTake
  <2>3. Paid("wallet", s[r].amount, fund'[r])
    <3>1. "wallet" \in Sources /\ Paid("wallet", 0, fund[r]) /\ 0 + s[r].amount = s[r].amount
      BY <1>b, <1>t, <2>1 DEF Sources, Funding
    <3> QED
      BY <1>t, <2>2, <3>1, PaidMoved
  <2>4. s'[r] = [s[r] EXCEPT !.pc = "active", !.held = s[r].amount, !.pre = s[r].amount]
    BY <2>2, BecomeHere
  <2>5. /\ s'[r].pc = "active" /\ s'[r].source = "wallet" /\ s'[r].tokenConsumed = s[r].tokenConsumed
        /\ s'[r].pre = s[r].amount /\ s'[r].held = s[r].amount /\ ~s'[r].ok /\ ~s'[r].settled
    BY <1>s, <1>b, <2>1, <2>4 DEF Sessions, Funding
  <2>6. tok[r] = Share(r, s[r].amount) /\ s[r].tokenConsumed = s[r].amount
    BY <1>b, <2>1 DEF BeforeFunding, Funding
  <2> QED
    BY <1>t, <2>1, <2>3, <2>5, <2>6 DEF ExactPart, Reserving, Counted, Closing, Answered, Choosing, Funding, Holding, Raising
<1>7. CASE SubLoad(r)
  <2>1. s[r].pc = "fund" /\ s[r].source = "subscription" /\ UNCHANGED <<fund, tok, rec>>
    BY <1>7 DEF SubLoad, At, fundVars, tokenVars
  <2>2. PICK p \in {"subTake", "rollToken"} :
           \E v : s'[r] \in {[s[r] EXCEPT !.pc = p], [s[r] EXCEPT !.pc = p, !.snap = v]}
    <3>1. rec[r].status = "none"
      BY <1>b, <2>1 DEF Funding
    <3> QED
      BY <1>7, <3>1, BecomeHere DEF SubLoad, Goto
  <2>3. /\ s'[r].pc = p /\ s'[r].source = s[r].source /\ s'[r].tokenConsumed = s[r].tokenConsumed
        /\ s'[r].amount = s[r].amount
        /\ s'[r].pre = 0 /\ s'[r].held = 0 /\ s'[r].extra = 0 /\ ~s'[r].ok /\ ~s'[r].settled
    BY <1>s, <1>b, <2>1, <2>2 DEF Sessions, Funding
  <2> QED
    BY <1>b, <2>1, <2>3 DEF ExactPart, BeforeFunding, Closing, Answered, Choosing, Funding, Holding, Raising
<1>8. CASE SubTake(r)
  <2> DEFINE kept == [s[r] EXCEPT !.snap = NoSnap]
  <2>1. s[r].pc = "subTake" /\ UNCHANGED tok
    BY <1>8 DEF SubTake, At, tokenVars
  <2>2. kept \in Sessions /\ kept.source = s[r].source /\ kept.tokenConsumed = s[r].amount
        /\ kept.pre = 0 /\ kept.held = 0 /\ kept.extra = 0 /\ ~kept.ok /\ ~kept.settled
        /\ kept.amount = s[r].amount
    <3>1. NoSnap \in [used : Nat, cur : 0..MaxPeriod, now : 0..MaxPeriod]
      BY BoundAssumption DEF NoSnap
    <3>2. s[r].tokenConsumed = s[r].amount
      BY <1>b, <2>1 DEF BeforeFunding, Funding
    <3>3. kept \in Sessions
      BY <1>s, <3>1, SnapType
    <3> QED
      BY <1>s, <1>b, <2>1, <3>2, <3>3 DEF Sessions, Funding
  <2>3. \/ /\ UNCHANGED <<fund, rec>>
           /\ \E b : Become(r, [kept EXCEPT !.pc = "rollToken", !.fallback = b])
                     \/ Become(r, [kept EXCEPT !.pc = "rollToken"])
        \/ /\ fund' = [fund EXCEPT ![r].subscription = @ + s[r].amount]
           /\ rec' = [rec EXCEPT ![r] = [status |-> "consumed", amount |-> s[r].amount]]
           /\ Become(r, [kept EXCEPT !.pc = "active", !.held = s[r].amount, !.pre = s[r].amount])
    BY <1>8, NoFault DEF SubTake, fundVars
  <2>4. /\ s[r].source = "subscription" /\ tok[r] = Share(r, s[r].amount)
        /\ Paid("subscription", 0, fund[r]) /\ rec[r].status = "none"
    BY <1>b, <2>1 DEF BeforeFunding, Funding
  <2> HIDE DEF kept
  <2>5. CASE /\ UNCHANGED <<fund, rec>>
             /\ \E b : Become(r, [kept EXCEPT !.pc = "rollToken", !.fallback = b])
                       \/ Become(r, [kept EXCEPT !.pc = "rollToken"])
    <3>1. \E b : s'[r] \in {[kept EXCEPT !.pc = "rollToken", !.fallback = b], [kept EXCEPT !.pc = "rollToken"]}
      BY <2>5, BecomeHere
    <3>2. /\ s'[r].pc = "rollToken" /\ s'[r].source = "subscription" /\ s'[r].tokenConsumed = s[r].amount
          /\ s'[r].pre = 0 /\ s'[r].held = 0 /\ s'[r].extra = 0 /\ ~s'[r].ok /\ ~s'[r].settled
      BY <2>2, <2>4, <3>1 DEF Sessions
    <3> QED
      BY <2>1, <2>4, <2>5, <3>2 DEF ExactPart, BeforeFunding, Closing, Answered, Choosing, Funding, Holding, Raising
  <2>6. CASE /\ fund' = [fund EXCEPT ![r].subscription = @ + s[r].amount]
             /\ rec' = [rec EXCEPT ![r] = [status |-> "consumed", amount |-> s[r].amount]]
             /\ Become(r, [kept EXCEPT !.pc = "active", !.held = s[r].amount, !.pre = s[r].amount])
    <3>1. rec'[r].status = "consumed" /\ rec'[r].amount = s[r].amount
      BY <2>6 DEF TypeOK
    <3>2. fund'[r] = [fund[r] EXCEPT !["subscription"] = fund[r]["subscription"] + s[r].amount]
      BY <2>6 DEF TypeOK
    <3>3. Paid("subscription", s[r].amount, fund'[r])
      <4>1. "subscription" \in Sources /\ 0 + s[r].amount = s[r].amount
        BY <1>t DEF Sources
      <4> QED
        BY <1>s, <1>t, <2>4, <3>2, <4>1 DEF Paid
    <3>4. s'[r] = [kept EXCEPT !.pc = "active", !.held = s[r].amount, !.pre = s[r].amount]
      BY <2>6, BecomeHere
    <3>5. /\ s'[r].pc = "active" /\ s'[r].source = "subscription" /\ s'[r].tokenConsumed = s[r].amount
          /\ s'[r].pre = s[r].amount /\ s'[r].held = s[r].amount /\ s'[r].extra = 0
          /\ ~s'[r].ok /\ ~s'[r].settled
      BY <2>2, <2>4, <3>4 DEF Sessions
    <3> QED
      BY <1>t, <2>1, <2>4, <3>1, <3>3, <3>5 DEF ExactPart, Reserving, Counted, Closing, Answered, Choosing, Funding, Holding, Raising
  <2> QED
    BY <2>3, <2>5, <2>6
<1>9. CASE RollbackToken(r)
  <2> DEFINE y == [s[r] EXCEPT !.tokenConsumed = 0]
  <2>1. s[r].pc = "rollToken" /\ UNCHANGED <<fund, rec>>
    BY <1>9 DEF RollbackToken, At, fundVars
  <2>2. IF GivesTokenBack(r) THEN MoveToken(r, -s[r].tokenConsumed) ELSE UNCHANGED tokenVars
    BY <1>9, NoFault DEF RollbackToken
  <2>3. tok[r] = Share(r, s[r].tokenConsumed)
    BY <1>b, <2>1 DEF BeforeFunding, Funding
  <2>4. tok'[r] = 0
    <3>1. CASE GivesTokenBack(r)
      <4>1. tok'[r] = tok[r] + (-s[r].tokenConsumed)
        BY <1>t, <2>2, <3>1, MoveTokenHere
      <4> QED
        BY <1>t, <2>3, <3>1, <4>1 DEF GivesTokenBack, Share
    <3>2. CASE ~GivesTokenBack(r)
      BY <1>t, <2>2, <2>3, <3>2 DEF GivesTokenBack, Share, tokenVars
    <3> QED
      BY <3>1, <3>2
  <2>5. y \in Sessions
    BY <1>s, TokenBackType
  <2>6. y.source = s[r].source /\ y.pre = 0 /\ y.held = 0 /\ y.extra = 0 /\ ~y.ok /\ ~y.settled
    BY <1>s, <1>b, <2>1 DEF Sessions, Funding
  <2>7. s'[r] = GiveUp(r, y)
    BY <1>9, BecomeHere DEF RollbackToken
  <2> HIDE DEF y
  <2>8. ExactPart(GiveUp(r, y), fund[r], 0, rec[r], r)
    BY <1>b, <2>1, <2>5, <2>6, ExactGiveUp DEF Funding
  <2> QED
    BY <2>1, <2>4, <2>7, <2>8
<1> QED
  BY <1>1, <1>2, <1>3, <1>4, <1>5, <1>6, <1>7, <1>8, <1>9 DEF PreConsumeStep

\* Raising the reservation, as long as no statement fails.
LEMMA ExactReserve ==
    ASSUME TypeOK, ExactInv, faults = 0, faults' = 0, NEW r \in Requests, ReserveStep(r)
    PROVE  ExactPart(s'[r], fund'[r], tok'[r], rec'[r], r)
<1> DEFINE Goal == ExactPart(s'[r], fund'[r], tok'[r], rec'[r], r)
<1>s. /\ s[r] \in Sessions /\ fund[r] \in [Sources -> Int] /\ tok[r] \in Int
      /\ rec[r] \in [status : {"none", "consumed", "refunded"}, amount : Nat]
      /\ ExactPart(s[r], fund[r], tok[r], rec[r], r)
  BY ExactBefore
<1>t. /\ s[r].source \in Sources /\ s[r].amount \in Nat /\ s[r].pre \in Nat
      /\ s[r].tokenConsumed \in Nat /\ s[r].held \in Int /\ s[r].extra \in Nat
  BY <1>s, FieldTypes
<1>b. ASSUME s[r].pc \in (Holding \cup Raising) \ {"setFund"}
      PROVE  Reserving(s[r], fund[r], tok[r], rec[r], r) /\ ~s[r].ok /\ ~s[r].settled
  BY <1>b, <1>s DEF ExactPart, Answered, Holding, Raising
<1>1. CASE Reserve(r)
  <2>1. s[r].pc = "active" /\ UNCHANGED <<fund, tok, rec>>
    BY <1>1 DEF Reserve, At, fundVars, tokenVars
  <2>2. ASSUME NEW n, NEW p \in {"resCheck", "resFund"}, Become(r, [s[r] EXCEPT !.amount = n, !.pc = p])
        PROVE  Goal
    <3>1. s'[r] = [s[r] EXCEPT !.amount = n, !.pc = p]
      BY <2>2, BecomeHere
    <3>2. /\ s'[r].pc = p /\ s'[r].source = s[r].source /\ s'[r].tokenConsumed = s[r].tokenConsumed
          /\ s'[r].pre = s[r].pre /\ s'[r].held = s[r].held /\ s'[r].extra = s[r].extra
          /\ ~s'[r].ok /\ ~s'[r].settled
      BY <1>s, <1>b, <2>1, <3>1 DEF Sessions, Holding
    <3> QED
      BY <1>b, <2>1, <3>2 DEF ExactPart, Reserving, Counted, Closing, Answered, Choosing, Funding, Holding, Raising
  <2> QED
    BY <1>1, <2>2 DEF Reserve
<1>g. ASSUME NEW p \in {"active", "resFund"}, Goto(r, p), UNCHANGED <<fund, tok, rec>>,
             s[r].pc \in {"resCheck", "resFund"}
      PROVE  Goal
  <2>1. s'[r] = [s[r] EXCEPT !.pc = p]
    BY <1>g, BecomeHere DEF Goto
  <2>2. /\ s'[r].pc = p /\ s'[r].source = s[r].source /\ s'[r].tokenConsumed = s[r].tokenConsumed
        /\ s'[r].pre = s[r].pre /\ s'[r].held = s[r].held /\ s'[r].extra = s[r].extra
        /\ ~s'[r].ok /\ ~s'[r].settled
    BY <1>s, <1>b, <1>g, <2>1 DEF Sessions, Holding
  <2> QED
    BY <1>b, <1>g, <2>2 DEF ExactPart, Reserving, Counted, Closing, Answered, Choosing, Funding, Holding, Raising
<1>2. CASE ReserveCheck(r)
  BY <1>2, <1>g DEF ReserveCheck, At, fundVars, tokenVars
<1>3. CASE ReserveFund(r)
  <2>1. s[r].pc = "resFund" /\ UNCHANGED <<tok, rec>>
    BY <1>3 DEF ReserveFund, At, tokenVars
  <2>2. CASE Goto(r, "active") /\ UNCHANGED fundVars
    BY <1>g, <2>1, <2>2 DEF fundVars
  <2>3. CASE /\ MoveFund(r, s[r].source, s[r].amount)
             /\ Become(r, [s[r] EXCEPT !.pc = "resTokenCheck",
                              !.held = IF s[r].source = "wallet" THEN @ + s[r].amount ELSE @])
    <3>1. Paid(s[r].source, s[r].pre, fund[r]) /\ Counted(s[r], rec[r], 0)
          /\ tok[r] = Share(r, s[r].pre) /\ s[r].tokenConsumed = s[r].pre
      BY <1>b, <1>t, <2>1 DEF Reserving, Holding, Raising
    <3>2. Paid(s[r].source, s[r].pre + s[r].amount, fund'[r])
      BY <1>t, <2>3, <3>1, PaidMoved
    <3>3. s'[r] = [s[r] EXCEPT !.pc = "resTokenCheck",
                      !.held = IF s[r].source = "wallet" THEN @ + s[r].amount ELSE @]
      BY <2>3, BecomeHere
    <3>4. /\ s'[r].pc = "resTokenCheck" /\ s'[r].source = s[r].source /\ s'[r].amount = s[r].amount
          /\ s'[r].tokenConsumed = s[r].tokenConsumed
          /\ s'[r].pre = s[r].pre /\ s'[r].extra = s[r].extra /\ ~s'[r].ok /\ ~s'[r].settled
          /\ s'[r].held = IF s[r].source = "wallet" THEN s[r].held + s[r].amount ELSE s[r].held
      BY <1>s, <1>b, <2>1, <3>3 DEF Sessions, Holding
    <3>5. Counted(s'[r], rec[r], s[r].amount)
      BY <1>t, <3>1, <3>4 DEF Counted
    <3> QED
      BY <2>1, <3>1, <3>2, <3>4, <3>5 DEF ExactPart, Reserving, Closing, Answered, Choosing, Funding, Holding, Raising
  <2> QED
    BY <1>3, <2>2, <2>3, NoFault DEF ReserveFund
<1>r. ASSUME s[r].pc \in {"resTokenCheck", "resTokenTake"}, Become(r, Reserved(s[r])),
             tok'[r] = tok[r] + Share(r, s[r].amount), UNCHANGED <<fund, rec>>
      PROVE  Goal
  <2>1. /\ Paid(s[r].source, s[r].pre + s[r].amount, fund[r]) /\ Counted(s[r], rec[r], s[r].amount)
        /\ tok[r] = Share(r, s[r].pre) /\ s[r].tokenConsumed = s[r].pre
    BY <1>b, <1>r DEF Reserving, Raising
  <2>2. s'[r] = Reserved(s[r])
    BY <1>r, BecomeHere
  <2>3. /\ s'[r].pc = "active" /\ s'[r].source = s[r].source /\ s'[r].held = s[r].held
        /\ s'[r].tokenConsumed = s[r].tokenConsumed + s[r].amount
        /\ s'[r].pre = s[r].pre + s[r].amount /\ s'[r].extra = s[r].extra + s[r].amount
        /\ ~s'[r].ok /\ ~s'[r].settled
    BY <1>s, <1>b, <1>r, <2>2 DEF Reserved, Sessions, Raising
  <2>4. tok'[r] = Share(r, s'[r].pre) /\ s'[r].pre + 0 = s'[r].pre
    BY <1>r, <1>t, <2>1, <2>3 DEF Share
  <2>5. Counted(s'[r], rec[r], 0)
    BY <1>t, <2>1, <2>3 DEF Counted
  <2> QED
    BY <1>r, <2>1, <2>3, <2>4, <2>5 DEF ExactPart, Reserving, Closing, Answered, Choosing, Funding, Holding, Raising
<1>h. ASSUME NEW p \in {"resRoll", "resTokenTake"}, Goto(r, p), UNCHANGED <<fund, tok, rec>>,
             s[r].pc = "resTokenCheck", r \notin Playground
      PROVE  Goal
  <2>1. s'[r] = [s[r] EXCEPT !.pc = p]
    BY <1>h, BecomeHere DEF Goto
  <2>2. /\ s'[r].pc = p /\ s'[r].source = s[r].source /\ s'[r].tokenConsumed = s[r].tokenConsumed
        /\ s'[r].amount = s[r].amount
        /\ s'[r].pre = s[r].pre /\ s'[r].held = s[r].held /\ s'[r].extra = s[r].extra
        /\ ~s'[r].ok /\ ~s'[r].settled
    BY <1>s, <1>b, <1>h, <2>1 DEF Sessions, Raising
  <2> QED
    BY <1>b, <1>h, <2>2 DEF ExactPart, Reserving, Counted, Closing, Answered, Choosing, Funding, Holding, Raising
<1>4. CASE ReserveTokenCheck(r)
  <2>1. s[r].pc = "resTokenCheck" /\ UNCHANGED <<fund, tok, rec>>
    BY <1>4 DEF ReserveTokenCheck, At, fundVars, tokenVars
  <2>2. r \in Playground => tok'[r] = tok[r] + Share(r, s[r].amount)
    BY <1>s, <2>1 DEF Share
  <2> QED
    BY <1>4, <1>h, <1>r, <2>1, <2>2 DEF ReserveTokenCheck
<1>5. CASE ReserveTokenTake(r)
  <2>1. s[r].pc = "resTokenTake" /\ UNCHANGED <<fund, rec>>
    BY <1>5 DEF ReserveTokenTake, At, fundVars
  <2>2. MoveToken(r, s[r].amount) /\ Become(r, Reserved(s[r]))
    BY <1>5, NoFault DEF ReserveTokenTake
  <2>3. tok'[r] = tok[r] + s[r].amount
    BY <1>t, <2>2, MoveTokenHere
  <2>4. r \notin Playground
    BY <1>b, <2>1 DEF Reserving, Raising
  <2>5. Share(r, s[r].amount) = s[r].amount
    BY <2>4 DEF Share
  <2> QED
    BY <1>r, <2>1, <2>2, <2>3, <2>5
<1>6. CASE ReserveRollback(r)
  <2>1. s[r].pc = "resRoll" /\ UNCHANGED <<tok, rec>>
    BY <1>6 DEF ReserveRollback, At, tokenVars
  <2>2. /\ MoveFund(r, s[r].source, -s[r].amount)
        /\ Become(r, [s[r] EXCEPT !.pc = "active", !.held = HeldAfterRollback(s[r], "ok")])
    BY <1>6, NoFault DEF ReserveRollback
  <2>3. /\ Paid(s[r].source, s[r].pre + s[r].amount, fund[r]) /\ Counted(s[r], rec[r], s[r].amount)
        /\ tok[r] = Share(r, s[r].pre) /\ s[r].tokenConsumed = s[r].pre
    BY <1>b, <2>1 DEF Reserving, Raising
  <2>4. Paid(s[r].source, s[r].pre, fund'[r])
    <3>1. /\ s[r].pre + s[r].amount \in Int /\ -s[r].amount \in Int
          /\ s[r].pre = (s[r].pre + s[r].amount) + (-s[r].amount)
      BY <1>t
    <3> QED
      BY <1>t, <2>2, <2>3, <3>1, PaidMoved
  <2>5. s'[r] = [s[r] EXCEPT !.pc = "active", !.held = HeldAfterRollback(s[r], "ok")]
    BY <2>2, BecomeHere
  <2>6. /\ s'[r].pc = "active" /\ s'[r].source = s[r].source /\ s'[r].tokenConsumed = s[r].tokenConsumed
        /\ s'[r].pre = s[r].pre /\ s'[r].extra = s[r].extra /\ ~s'[r].ok /\ ~s'[r].settled
        /\ s'[r].held = HeldAfterRollback(s[r], "ok")
    BY <1>s, <1>b, <2>1, <2>5 DEF Sessions, Raising
  <2>7. Counted(s'[r], rec[r], 0) /\ s'[r].pre + 0 = s'[r].pre
    BY <1>t, <2>3, <2>6 DEF Counted, HeldAfterRollback
  <2> QED
    BY <2>1, <2>3, <2>4, <2>6, <2>7 DEF ExactPart, Reserving, Closing, Answered, Choosing, Funding, Holding, Raising
<1> QED
  BY <1>1, <1>2, <1>3, <1>4, <1>5, <1>6 DEF ReserveStep

\* Settlement and refund, as long as no statement fails.
LEMMA ExactEnd ==
    ASSUME TypeOK, ExactInv, faults = 0, faults' = 0, NEW r \in Requests, EndStep(r)
    PROVE  ExactPart(s'[r], fund'[r], tok'[r], rec'[r], r)
<1> DEFINE Goal == ExactPart(s'[r], fund'[r], tok'[r], rec'[r], r)
<1>s. /\ s[r] \in Sessions /\ fund[r] \in [Sources -> Int] /\ tok[r] \in Int
      /\ rec[r] \in [status : {"none", "consumed", "refunded"}, amount : Nat]
      /\ Cost[r] \in Nat
      /\ ExactPart(s[r], fund[r], tok[r], rec[r], r)
  BY ExactBefore
<1>t. /\ s[r].source \in Sources /\ s[r].amount \in Nat /\ s[r].pre \in Nat
      /\ s[r].tokenConsumed \in Nat /\ s[r].held \in Int /\ s[r].extra \in Nat
  BY <1>s, FieldTypes
<1>b. ASSUME s[r].pc \in {"active", "setFund", "refFund"}
      PROVE  /\ Paid(s[r].source, s[r].pre, fund[r]) /\ Counted(s[r], rec[r], 0)
             /\ tok[r] = Share(r, s[r].pre) /\ s[r].tokenConsumed = s[r].pre
  <2>1. Reserving(s[r], fund[r], tok[r], rec[r], r)
    BY <1>b, <1>s DEF ExactPart, Holding
  <2> QED
    BY <1>b, <1>t, <2>1 DEF Reserving, Raising
<1>1. CASE Settle(r)
  <2>1. s[r].pc = "active" /\ UNCHANGED <<fund, tok, rec>>
    BY <1>1 DEF Settle, At, fundVars, tokenVars
  <2>2. CASE Cost[r] = s[r].pre
    <3>1. s'[r] = [s[r] EXCEPT !.pc = "done", !.ok = TRUE, !.settled = TRUE]
      BY <1>1, <2>2, BecomeHere DEF Settle
    <3>2. s'[r].pc = "done" /\ s'[r].source = s[r].source /\ s'[r].ok /\ s'[r].settled
      BY <1>s, <3>1 DEF Sessions
    <3> QED
      BY <1>b, <2>1, <2>2, <3>2 DEF ExactPart, Closing, Closed, Answered, Choosing, Funding, Holding, Raising
  <2>3. CASE Cost[r] # s[r].pre
    <3>1. s'[r] = [s[r] EXCEPT !.pc = "setFund", !.ok = TRUE]
      BY <1>1, <2>3, BecomeHere DEF Settle
    <3>2. ~s[r].settled
      BY <1>s, <2>1 DEF ExactPart, Answered
    <3>3. /\ s'[r].pc = "setFund" /\ s'[r].source = s[r].source /\ s'[r].tokenConsumed = s[r].tokenConsumed
          /\ s'[r].pre = s[r].pre /\ s'[r].held = s[r].held /\ s'[r].extra = s[r].extra
          /\ s'[r].ok /\ ~s'[r].settled
      BY <1>s, <3>1, <3>2 DEF Sessions
    <3>4. s'[r].pre + 0 = s'[r].pre /\ Counted(s'[r], rec[r], 0)
      BY <1>b, <1>t, <2>1, <3>3 DEF Counted
    <3> QED
      BY <1>b, <2>1, <3>3, <3>4 DEF ExactPart, Reserving, Closing, Answered, Choosing, Funding, Holding, Raising
  <2> QED
    BY <2>2, <2>3
<1>2. CASE SettleFund(r)
  <2> DEFINE delta == Cost[r] - s[r].pre
  <2>1. s[r].pc = "setFund" /\ UNCHANGED <<tok, rec>> /\ s[r].ok /\ ~s[r].settled
    BY <1>2, <1>s DEF SettleFund, At, tokenVars, ExactPart, Answered
  <2>2. \/ s[r].source = "subscription" /\ delta > 0 /\ Goto(r, "done") /\ UNCHANGED fundVars
        \/ MoveFund(r, s[r].source, delta) /\ Goto(r, "setToken")
    BY <1>2, NoFault DEF SettleFund
  <2>3. ASSUME NEW p \in {"done", "setToken"}, Goto(r, p)
        PROVE  /\ s'[r].pc = p /\ s'[r].source = s[r].source /\ s'[r].pre = s[r].pre
               /\ s'[r].ok /\ ~s'[r].settled
    <3>1. s'[r] = [s[r] EXCEPT !.pc = p]
      BY <2>3, BecomeHere DEF Goto
    <3> QED
      BY <1>s, <2>1, <3>1 DEF Sessions
  <2>4. CASE s[r].source = "subscription" /\ delta > 0 /\ Goto(r, "done") /\ UNCHANGED fundVars
    <3>1. s[r].pre < Cost[r] /\ UNCHANGED fund
      BY <1>s, <1>t, <2>4 DEF fundVars
    <3> QED
      BY <1>b, <2>1, <2>3, <2>4, <3>1 DEF ExactPart, Closing, Closed, Answered, Choosing, Funding, Holding, Raising
  <2>5. CASE MoveFund(r, s[r].source, delta) /\ Goto(r, "setToken")
    <3>1. delta \in Int /\ Cost[r] = s[r].pre + delta
      BY <1>s, <1>t
    <3> HIDE DEF delta
    <3>2. Paid(s[r].source, Cost[r], fund'[r])
      BY <1>b, <1>t, <2>1, <2>5, <3>1, PaidMoved
    <3> QED
      BY <1>b, <2>1, <2>3, <2>5, <3>2 DEF ExactPart, Closing, Answered, Choosing, Funding, Holding, Raising
  <2> QED
    BY <2>2, <2>4, <2>5
<1>3. CASE SettleToken(r)
  <2>1. s[r].pc = "setToken" /\ UNCHANGED <<fund, rec>> /\ s[r].ok
    BY <1>3, <1>s DEF SettleToken, At, fundVars, ExactPart, Answered
  <2>2. MoveToken(r, SettledToken(r)) /\ Become(r, [s[r] EXCEPT !.pc = "done", !.settled = TRUE])
    BY <1>3, NoFault DEF SettleToken
  <2>3. Paid(s[r].source, Cost[r], fund[r]) /\ tok[r] = Share(r, s[r].pre)
    BY <1>s, <2>1 DEF ExactPart, Closing
  <2>4. tok'[r] = Share(r, Cost[r])
    <3>1. SettledToken(r) \in Int
      BY <1>s, <1>t DEF SettledToken
    <3>2. tok'[r] = tok[r] + SettledToken(r)
      BY <2>2, <3>1, MoveTokenHere
    <3> QED
      BY <1>s, <1>t, <2>3, <3>2 DEF SettledToken, Share
  <2>5. s'[r] = [s[r] EXCEPT !.pc = "done", !.settled = TRUE]
    BY <2>2, BecomeHere
  <2>6. s'[r].pc = "done" /\ s'[r].source = s[r].source /\ s'[r].ok /\ s'[r].settled
    BY <1>s, <2>1, <2>5 DEF Sessions
  <2> QED
    BY <2>1, <2>3, <2>4, <2>6 DEF ExactPart, Closing, Closed, Answered, Choosing, Funding, Holding, Raising
<1>g. ASSUME NEW p \in {"refFund", "refExtra", "refToken", "done"}, Goto(r, p),
             s[r].pc \in {"active", "refFund", "refExtra", "refToken"}
      PROVE  /\ s'[r].pc = p /\ s'[r].source = s[r].source /\ s'[r].tokenConsumed = s[r].tokenConsumed
             /\ s'[r].pre = s[r].pre /\ s'[r].held = s[r].held /\ s'[r].extra = s[r].extra
             /\ ~s'[r].ok /\ ~s'[r].settled
  <2>1. s'[r] = [s[r] EXCEPT !.pc = p]
    BY <1>g, BecomeHere DEF Goto
  <2>2. ~s[r].ok /\ ~s[r].settled
    BY <1>g, <1>s DEF ExactPart, Answered
  <2> QED
    BY <1>s, <2>1, <2>2 DEF Sessions
<1>4. CASE Refund(r)
  <2>1. s[r].pc = "active" /\ UNCHANGED <<fund, tok, rec>>
    BY <1>4 DEF Refund, At, fundVars, tokenVars
  <2>2. CASE Goto(r, "refFund")
    <3>1. s'[r].pc = "refFund"
      BY <1>g, <2>1, <2>2
    <3>2. s'[r].pre + 0 = s'[r].pre /\ Counted(s'[r], rec[r], 0)
      BY <1>b, <1>g, <1>t, <2>1, <2>2 DEF Counted
    <3> QED
      BY <1>b, <1>g, <2>1, <2>2, <3>1, <3>2 DEF ExactPart, Reserving, Closing, Answered, Choosing, Funding, Holding, Raising
  <2>3. CASE ~NeedsRefund(s[r]) /\ Goto(r, "done")
    <3>1. s[r].pre = 0
      BY <1>b, <1>t, <2>1, <2>3 DEF NeedsRefund
    <3> QED
      BY <1>b, <1>g, <2>1, <2>3, <3>1 DEF ExactPart, Closing, Closed, Share, Answered, Choosing, Funding, Holding, Raising
  <2> QED
    BY <1>4, <2>2, <2>3 DEF Refund
<1>5. CASE WalletRefund(r)
  <2>1. s[r].pc = "refFund" /\ s[r].source = "wallet" /\ UNCHANGED <<tok, rec>>
    BY <1>5 DEF WalletRefund, At, tokenVars
  <2>2. /\ IF s[r].held <= 0 THEN UNCHANGED fundVars ELSE MoveFund(r, "wallet", -s[r].held)
        /\ Goto(r, "refToken")
    BY <1>5, NoFault DEF WalletRefund
  <2>3. Paid("wallet", 0, fund'[r])
    <3>1. s[r].held = s[r].pre
      BY <1>b, <1>t, <2>1 DEF Counted
    <3>2. CASE s[r].held <= 0
      <4>1. s[r].pre = 0
        BY <1>t, <3>1, <3>2
      <4> QED
        BY <1>b, <2>1, <2>2, <3>2, <4>1 DEF fundVars
    <3>3. CASE ~(s[r].held <= 0)
      <4>1. -s[r].held \in Int /\ 0 = s[r].pre + (-s[r].held)
        BY <1>t, <3>1
      <4> QED
        BY <1>b, <1>t, <2>1, <2>2, <3>3, <4>1, PaidMoved
    <3> QED
      BY <3>2, <3>3
  <2> QED
    BY <1>b, <1>g, <2>1, <2>2, <2>3 DEF ExactPart, Closing, Answered, Choosing, Funding, Holding, Raising
<1>6. CASE SubRefund(r)
  <2>1. s[r].pc = "refFund" /\ s[r].source = "subscription" /\ UNCHANGED tok
    BY <1>6 DEF SubRefund, At, tokenVars
  <2>2. rec[r].status = "consumed" /\ rec[r].amount = s[r].held /\ s[r].pre = s[r].held + s[r].extra
    BY <1>b, <2>1 DEF Counted
  <2>3. MoveFund(r, "subscription", -rec[r].amount) /\ Goto(r, "refExtra")
    BY <1>6, <2>2, NoFault DEF SubRefund, RefundClaimed
  <2>4. Paid("subscription", s[r].extra, fund'[r])
    <3>1. -rec[r].amount \in Int /\ s[r].extra = s[r].pre + (-rec[r].amount)
      BY <1>s, <1>t, <2>2
    <3> QED
      BY <1>b, <1>t, <2>1, <2>3, <3>1, PaidMoved
  <2> QED
    BY <1>b, <1>g, <2>1, <2>3, <2>4 DEF ExactPart, Closing, Answered, Choosing, Funding, Holding, Raising
<1>7. CASE ExtraRefund(r)
  <2>1. s[r].pc = "refExtra" /\ UNCHANGED <<tok, rec>>
    BY <1>7 DEF ExtraRefund, At, tokenVars
  <2>2. /\ s[r].source = "subscription" /\ Paid("subscription", s[r].extra, fund[r])
        /\ tok[r] = Share(r, s[r].tokenConsumed)
    BY <1>s, <2>1 DEF ExactPart, Closing
  <2>3. /\ IF s[r].extra = 0 THEN UNCHANGED fundVars ELSE MoveFund(r, "subscription", -s[r].extra)
        /\ Goto(r, "refToken")
    BY <1>7, NoFault DEF ExtraRefund
  <2>4. Paid("subscription", 0, fund'[r])
    <3>1. CASE s[r].extra = 0
      BY <2>2, <2>3, <3>1 DEF fundVars
    <3>2. CASE s[r].extra # 0
      <4>1. -s[r].extra \in Int /\ 0 = s[r].extra + (-s[r].extra)
        BY <1>t
      <4> QED
        BY <1>t, <2>2, <2>3, <3>2, <4>1, PaidMoved
    <3> QED
      BY <3>1, <3>2
  <2> QED
    BY <1>g, <2>1, <2>2, <2>3, <2>4 DEF ExactPart, Closing, Answered, Choosing, Funding, Holding, Raising
<1>8. CASE TokenRefund(r)
  <2>1. s[r].pc = "refToken" /\ UNCHANGED <<fund, rec>>
    BY <1>8 DEF TokenRefund, At, fundVars
  <2>2. Paid(s[r].source, 0, fund[r]) /\ tok[r] = Share(r, s[r].tokenConsumed)
    BY <1>s, <2>1 DEF ExactPart, Closing
  <2>3. /\ IF r \in Playground THEN UNCHANGED tokenVars ELSE MoveToken(r, -s[r].tokenConsumed)
        /\ Goto(r, "done")
    BY <1>8, NoFault DEF TokenRefund
  <2>4. tok'[r] = 0
    <3>1. CASE r \in Playground
      BY <2>2, <2>3, <3>1 DEF tokenVars, Share
    <3>2. CASE r \notin Playground
      <4>1. tok'[r] = tok[r] + (-s[r].tokenConsumed)
        BY <1>t, <2>3, <3>2, MoveTokenHere
      <4> QED
        BY <1>t, <2>2, <3>2, <4>1 DEF Share
    <3> QED
      BY <3>1, <3>2
  <2> QED
    BY <1>g, <2>1, <2>2, <2>3, <2>4 DEF ExactPart, Closing, Closed, Share, Answered, Choosing, Funding, Holding, Raising
<1> QED
  BY <1>1, <1>2, <1>3, <1>4, <1>5, <1>6, <1>7, <1>8 DEF EndStep

\* The amounts stay exact until the first fault.
LEMMA ExactStep == TypeOK /\ ExactInv /\ [Next]_vars => ExactInv'
<1> SUFFICES ASSUME TypeOK, ExactInv, [Next]_vars, faults' = 0, NEW q \in Requests
             PROVE  ExactPart(s'[q], fund'[q], tok'[q], rec'[q], q)
  BY DEF ExactInv, ExactPart, BeforeFunding, Reserving, Closing, Closed, Answered, Counted, Paid
<1>1. faults = 0 /\ ~Crash
  BY FaultsStay
<1>2. ExactPart(s[q], fund[q], tok[q], rec[q], q)
  BY <1>1 DEF ExactInv
<1>3. ASSUME NEW r \in Requests, Step(r) PROVE ExactPart(s'[q], fund'[q], tok'[q], rec'[q], q)
  <2>1. CASE q = r
    BY <1>1, <1>3, <2>1, ExactOpening, ExactReserve, ExactEnd DEF Step
  <2>2. CASE q # r
    BY <1>2, <1>3, <2>2, StepOnly DEF Only
  <2> QED
    BY <2>1, <2>2
<1>4. ASSUME Tick \/ Expire \/ ResetLoad \/ ResetClaim \/ UNCHANGED vars
      PROVE  ExactPart(s'[q], fund'[q], tok'[q], rec'[q], q)
  BY <1>2, <1>4 DEF Tick, Expire, ResetLoad, ResetClaim, vars, fundVars, tokenVars
<1> QED
  BY <1>1, <1>3, <1>4 DEF Next, Step

\* The exact amounts hold in every reachable state.
LEMMA ExactCorrect == Spec => []ExactInv
<1>1. Init => ExactInv
  <2> SUFFICES ASSUME Init, NEW r \in Requests PROVE ExactPart(s[r], fund[r], tok[r], rec[r], r)
    BY DEF ExactInv
  <2>1. s[r] = NewSession /\ fund[r] = [y \in Sources |-> 0] /\ tok[r] = 0 /\ rec[r] = NoRecord
    BY DEF Init
  <2> QED
    BY <2>1 DEF ExactPart, BeforeFunding, Closing, Answered, NewSession, NoRecord, Paid,
       Choosing, Funding, Holding, Raising
<1> QED
  BY <1>1, ExactStep, TypeCorrect, PTL DEF Spec

\* As long as no statement failed, a request that has ended has paid its cost,
\* from one source and with its token, and nothing if it failed: preConsume,
\* Reserve with its rollback, Settle and Refund together balance, for any
\* prices, preferences and number of attempts and any interleaving.
THEOREM ExactCharges == Spec => []ChargedExactly
<1>1. ExactInv => ChargedExactly
  BY DEF ExactInv, ExactPart, Closed, Paid, Share, ChargedExactly
<1> QED
  BY <1>1, ExactCorrect, PTL

----------------------------------------------------------------------------
(* With faults, of the requests whose price does not change. *)

\* Only the submission of a task has more than one attempt; a price that
\* depends on the channel may differ between them.
FixedPrice(r) == r \notin Forced \/ \A p, q \in Quotas[r] : p = q

RaisePoints == {"resCheck", "resFund", "resTokenCheck", "resTokenTake", "resRoll"}

\* What the session asks for: a price of its request.
Priced(x, r) ==
    /\ x.pc \notin RaisePoints /\ x.extra = 0
    /\ x.pc \notin {"new", "done", "dead"} => x.quota \in Quotas[r]
    /\ x.pc = "wallet" => x.source = "wallet"
    /\ x.pc = "subTake" => x.source = "subscription"
    /\ x.pc \in {"tokenCheck", "tokenTake", "fund", "subTake"} =>
         x.amount = IF x.source = "wallet" THEN x.quota ELSE SubAmount(x.quota)
    /\ x.pc \in Opening => x.held = 0 /\ x.pre = 0
    /\ x.trusted => r \notin Forced
    /\ x.pc = "active" => x.trusted \/ x.pre >= x.quota

\* What is still in the funding source when it may be given back: an attempt
\* that lost its answer leaves a record, which only a later attempt finds.
Backed(x, f, c, r) ==
    /\ \A y \in Sources : f[y] >= 0
    /\ c.status = "consumed" /\ x.pc \notin {"setToken", "done", "dead"} =>
         f["subscription"] >= c.amount /\ \E q \in Quotas[r] : c.amount = SubAmount(q)
    /\ r \notin Forced /\ x.pc \in Opening /\ ~(x.pc = "rollToken" /\ ~x.fallback) =>
         c.status = "none"
    /\ x.pc = "refused" => r \in Forced
    /\ x.pc \in {"active", "setFund"} => f[x.source] >= x.pre
    /\ x.pc \in {"active", "refFund"} /\ x.source = "wallet" => x.held <= f["wallet"]

FundInv ==
    \A r \in Requests : FixedPrice(r) => Priced(s[r], r) /\ Backed(s[r], fund[r], rec[r], r)

\* What is known of a request before a step.
LEMMA FundBefore ==
    ASSUME TypeOK, FundInv, NEW r \in Requests, FixedPrice(r)
    PROVE  /\ s[r] \in Sessions /\ fund[r] \in [Sources -> Int]
           /\ rec[r] \in [status : {"none", "consumed", "refunded"}, amount : Nat]
           /\ Cost[r] \in Nat /\ Quotas[r] \subseteq Nat
           /\ Priced(s[r], r) /\ Backed(s[r], fund[r], rec[r], r)
           /\ s[r].pc \in PCs
           /\ s[r].source \in Sources /\ s[r].amount \in Nat /\ s[r].pre \in Nat /\ s[r].quota \in Nat
           /\ s[r].held \in Int /\ s[r].extra \in Nat
BY RequestAssumption, FieldTypes DEF TypeOK, FundInv

\* The next source to try asks for the same price; without one the request
\* ends or is tried again.
LEMMA FundGiveUp ==
    ASSUME NEW r \in Requests, NEW x \in Sessions, NEW b \in BOOLEAN, NEW c, NEW f,
           \A y \in Sources : f[y] >= 0,
           c.status = "consumed" => f["subscription"] >= c.amount /\ \E q \in Quotas[r] : c.amount = SubAmount(q),
           x.quota \in Quotas[r], x.held = 0, x.pre = 0, x.extra = 0, x.trusted => r \notin Forced
    PROVE  /\ Priced(Refused(r, x), r) /\ Backed(Refused(r, x), f, c, r)
           /\ (r \notin Forced => c.status = "none")
              => /\ Priced(TrySubscription(x, b), r) /\ Backed(TrySubscription(x, b), f, c, r)
                 /\ Priced(TryWallet(x, b), r) /\ Backed(TryWallet(x, b), f, c, r)
           /\ (r \notin Forced /\ x.fallback => c.status = "none")
              => Priced(GiveUp(r, x), r) /\ Backed(GiveUp(r, x), f, c, r)
<1>1. ASSUME NEW d \in BOOLEAN, r \notin Forced => c.status = "none"
      PROVE  Priced(TrySubscription(x, d), r) /\ Backed(TrySubscription(x, d), f, c, r)
  <2> DEFINE y == TrySubscription(x, d)
  <2>1. /\ y.pc = "tokenCheck" /\ y.source = "subscription" /\ y.amount = SubAmount(x.quota)
        /\ y.pre = 0 /\ y.held = 0 /\ y.extra = 0 /\ y.quota = x.quota /\ y.trusted = x.trusted
    BY DEF TrySubscription, Sessions
  <2> HIDE DEF y
  <2>2. Priced(y, r) /\ Backed(y, f, c, r)
    BY <1>1, <2>1 DEF Priced, Backed, RaisePoints
  <2> QED
    BY <2>2 DEF y
<1>2. ASSUME NEW d \in BOOLEAN, r \notin Forced => c.status = "none"
      PROVE  Priced(TryWallet(x, d), r) /\ Backed(TryWallet(x, d), f, c, r)
  <2> DEFINE y == TryWallet(x, d)
  <2>1. /\ y.pc = "wallet" /\ y.source = "wallet"
        /\ y.pre = 0 /\ y.held = 0 /\ y.extra = 0 /\ y.quota = x.quota /\ y.trusted = x.trusted
    BY DEF TryWallet, Sessions
  <2> HIDE DEF y
  <2>2. Priced(y, r) /\ Backed(y, f, c, r)
    BY <1>2, <2>1 DEF Priced, Backed, RaisePoints
  <2> QED
    BY <2>2 DEF y
<1>3. Priced(Refused(r, x), r) /\ Backed(Refused(r, x), f, c, r)
  <2> DEFINE y == Refused(r, x)
  <2>1. /\ y.pc = "done" \/ (y.pc = "refused" /\ r \in Forced)
        /\ y.extra = 0 /\ y.quota = x.quota /\ y.trusted = x.trusted
    BY DEF Refused, Sessions
  <2> HIDE DEF y
  <2>2. Priced(y, r) /\ Backed(y, f, c, r)
    BY <2>1 DEF Priced, Backed, RaisePoints, Opening
  <2> QED
    BY <2>2 DEF y
<1>4. ASSUME r \notin Forced /\ x.fallback => c.status = "none"
      PROVE  Priced(GiveUp(r, x), r) /\ Backed(GiveUp(r, x), f, c, r)
  BY <1>1, <1>2, <1>3, <1>4 DEF GiveUp
<1> QED
  BY <1>1, <1>2, <1>3, <1>4

\* The sessions that are asked for, whatever fails.
LEMMA FundOpening ==
    ASSUME TypeOK, FundInv, NEW r \in Requests, FixedPrice(r), PreConsumeStep(r)
    PROVE  Priced(s'[r], r) /\ Backed(s'[r], fund'[r], rec'[r], r)
<1> DEFINE Goal == Priced(s'[r], r) /\ Backed(s'[r], fund'[r], rec'[r], r)
<1>s. /\ s[r] \in Sessions /\ fund[r] \in [Sources -> Int]
      /\ rec[r] \in [status : {"none", "consumed", "refunded"}, amount : Nat]
      /\ Quotas[r] \subseteq Nat
      /\ Priced(s[r], r) /\ Backed(s[r], fund[r], rec[r], r)
  BY FundBefore
<1>t. /\ s[r].source \in Sources /\ s[r].amount \in Nat /\ s[r].pre \in Nat /\ s[r].quota \in Nat
      /\ s[r].held \in Int /\ s[r].extra \in Nat
  BY FundBefore
<1>f. \A y \in Sources : fund[r][y] >= 0
  BY <1>s DEF Backed
<1>c. ASSUME s[r].pc \notin {"setToken", "done", "dead"}, rec[r].status = "consumed"
      PROVE  fund[r]["subscription"] >= rec[r].amount /\ \E q \in Quotas[r] : rec[r].amount = SubAmount(q)
  BY <1>s, <1>c DEF Backed
<1>o. ASSUME s[r].pc \in Opening
      PROVE  /\ s[r].held = 0 /\ s[r].pre = 0 /\ s[r].extra = 0 /\ (s[r].trusted => r \notin Forced)
             /\ s[r].pc # "new" => s[r].quota \in Quotas[r]
             /\ r \notin Forced /\ ~(s[r].pc = "rollToken" /\ ~s[r].fallback) => rec[r].status = "none"
  BY <1>s, <1>o DEF Priced, Backed, Opening
<1>r. ASSUME s[r].pc \in Opening \ {"new"}, s'[r] = Refused(r, s[r]), UNCHANGED <<fund, rec>>
      PROVE  Goal
  <2>1. s[r].pc \notin {"setToken", "done", "dead"} /\ s[r].pc \in Opening /\ s[r].pc # "new"
    BY <1>r DEF Opening
  <2>2. Priced(Refused(r, s[r]), r) /\ Backed(Refused(r, s[r]), fund[r], rec[r], r)
    BY <1>s, <1>f, <1>c, <1>o, <2>1, FundGiveUp
  <2> QED
    BY <1>r, <2>2
<1>1. CASE Begin(r)
  <2>1. s[r].pc = "new" /\ UNCHANGED <<fund, rec>>
    BY <1>1 DEF Begin, At, fundVars
  <2>2. PICK q \in Quotas[r] : \E b \in BOOLEAN :
           \/ Become(r, TrySubscription([s[r] EXCEPT !.tokenSeen = ContextQuota(r), !.quota = q, !.attempts = @ + 1], b))
           \/ Become(r, TryWallet([s[r] EXCEPT !.tokenSeen = ContextQuota(r), !.quota = q, !.attempts = @ + 1], b))
    <3>1. Pref[r] \in Preferences
      BY RequestAssumption
    <3> QED
      BY <1>1, <3>1 DEF Begin, Preferences
  <2> DEFINE y == [s[r] EXCEPT !.tokenSeen = ContextQuota(r), !.quota = q, !.attempts = @ + 1]
  <2>3. y \in Sessions
    <3>1. ContextQuota(r) \in Int /\ q \in Nat /\ s[r].attempts + 1 \in Nat
      BY <1>s, FieldTypes, RequestAssumption DEF ContextQuota, TypeOK
    <3> QED
      BY <1>s, <3>1, PricedType
  <2>4. y.quota = q /\ y.held = 0 /\ y.pre = 0 /\ y.extra = 0 /\ (y.trusted => r \notin Forced)
    BY <1>s, <1>o, <2>1 DEF Sessions, Opening
  <2>5. r \notin Forced => rec[r].status = "none"
    BY <1>o, <2>1 DEF Opening
  <2>6. PICK b \in BOOLEAN : Become(r, TrySubscription(y, b)) \/ Become(r, TryWallet(y, b))
    BY <2>2
  <2> HIDE DEF y
  <2>7. /\ Priced(TrySubscription(y, b), r) /\ Backed(TrySubscription(y, b), fund[r], rec[r], r)
        /\ Priced(TryWallet(y, b), r) /\ Backed(TryWallet(y, b), fund[r], rec[r], r)
    BY <1>s, <1>f, <1>c, <2>1, <2>3, <2>4, <2>5, FundGiveUp
  <2>8. s'[r] = TrySubscription(y, b) \/ s'[r] = TryWallet(y, b)
    BY <2>6, BecomeHere
  <2> QED
    BY <2>1, <2>7, <2>8
<1>2. CASE Retry(r)
  <2>1. s[r].pc = "refused" /\ UNCHANGED <<fund, rec>> /\ r \in Forced
    BY <1>2, <1>s DEF Retry, At, fundVars, Backed
  <2>2. PICK p \in {"new", "done"} : s'[r] = [NewSession EXCEPT !.pc = p, !.attempts = s[r].attempts]
    BY <1>2, BecomeHere DEF Retry
  <2>3. s'[r].pc = p /\ s'[r].pre = 0 /\ s'[r].held = 0 /\ s'[r].extra = 0 /\ ~s'[r].trusted
    BY <2>2 DEF NewSession
  <2> QED
    BY <1>f, <1>c, <2>1, <2>3 DEF Priced, Backed, RaisePoints
<1>3. CASE WalletCheck(r)
  <2>1. s[r].pc = "wallet" /\ UNCHANGED <<fund, rec>> /\ s[r].source = "wallet"
    BY <1>3, <1>s DEF WalletCheck, At, fundVars, Priced
  <2>2. CASE Become(r, GiveUp(r, s[r]))
    <3>1. s'[r] = GiveUp(r, s[r])
      BY <2>2, BecomeHere
    <3>2. Priced(GiveUp(r, s[r]), r) /\ Backed(GiveUp(r, s[r]), fund[r], rec[r], r)
      BY <1>s, <1>f, <1>c, <1>o, <2>1, FundGiveUp DEF Opening
    <3> QED
      BY <2>1, <3>1, <3>2
  <2>3. ASSUME NEW b \in BOOLEAN, b => r \notin Forced,
               Become(r, [s[r] EXCEPT !.pc = IF b \/ s[r].quota = 0 THEN "active" ELSE "tokenCheck",
                                      !.trusted = b, !.amount = IF b THEN 0 ELSE s[r].quota])
        PROVE  Goal
    <3>1. s'[r] = [s[r] EXCEPT !.pc = IF b \/ s[r].quota = 0 THEN "active" ELSE "tokenCheck",
                               !.trusted = b, !.amount = IF b THEN 0 ELSE s[r].quota]
      BY <2>3, BecomeHere
    <3>2. /\ s'[r].pc = IF b \/ s[r].quota = 0 THEN "active" ELSE "tokenCheck"
          /\ s'[r].source = "wallet" /\ s'[r].trusted = b /\ s'[r].quota = s[r].quota
          /\ s'[r].amount = IF b THEN 0 ELSE s[r].quota
          /\ s'[r].pre = 0 /\ s'[r].held = 0 /\ s'[r].extra = 0
      BY <1>s, <1>o, <2>1, <3>1 DEF Sessions, Opening
    <3>3. Priced(s'[r], r)
      BY <1>o, <1>t, <2>1, <2>3, <3>2 DEF Priced, RaisePoints, Opening
    <3>4. Backed(s'[r], fund[r], rec[r], r)
      BY <1>s, <1>f, <1>c, <1>o, <2>1, <3>2 DEF Backed, Opening, Sources
    <3> QED
      BY <2>1, <3>3, <3>4
  <2>4. Trusts(r, wallet) \in BOOLEAN /\ (Trusts(r, wallet) => r \notin Forced)
    BY DEF Trusts
  <2> QED
    BY <1>3, <2>2, <2>3, <2>4 DEF WalletCheck
<1>k. ASSUME NEW p \in {"tokenTake", "fund"}, NEW n, UNCHANGED <<fund, rec>>,
             s'[r] \in {[s[r] EXCEPT !.pc = p], [s[r] EXCEPT !.pc = p, !.tokenConsumed = n]},
             s[r].pc \in {"tokenCheck", "tokenTake"}
      PROVE  Goal
  <2>1. /\ s'[r].pc = p /\ s'[r].source = s[r].source /\ s'[r].trusted = s[r].trusted
        /\ s'[r].quota = s[r].quota /\ s'[r].amount = s[r].amount
        /\ s'[r].pre = 0 /\ s'[r].held = 0 /\ s'[r].extra = 0
    BY <1>s, <1>o, <1>k DEF Sessions, Opening
  <2>2. s[r].amount = IF s[r].source = "wallet" THEN s[r].quota ELSE SubAmount(s[r].quota)
    BY <1>s, <1>k DEF Priced
  <2>3. Priced(s'[r], r)
    BY <1>k, <1>o, <2>1, <2>2 DEF Priced, RaisePoints, Opening
  <2>4. Backed(s'[r], fund[r], rec[r], r)
    BY <1>k, <1>f, <1>c, <1>o, <2>1 DEF Backed, Opening
  <2> QED
    BY <1>k, <2>3, <2>4
<1>4. CASE TokenCheck(r)
  <2>1. s[r].pc = "tokenCheck" /\ UNCHANGED <<fund, rec>>
    BY <1>4 DEF TokenCheck, At, fundVars
  <2>2. \/ s'[r] = Refused(r, s[r])
        \/ s'[r] = [s[r] EXCEPT !.pc = "tokenTake"]
        \/ s'[r] = [s[r] EXCEPT !.pc = "fund", !.tokenConsumed = s[r].amount]
    BY <1>4, BecomeHere DEF TokenCheck
  <2> QED
    BY <1>r, <1>k, <2>1, <2>2 DEF Opening
<1>5. CASE TokenTake(r)
  <2>1. s[r].pc = "tokenTake" /\ UNCHANGED <<fund, rec>>
    BY <1>5 DEF TokenTake, At, fundVars
  <2>2. \/ s'[r] = Refused(r, s[r])
        \/ s'[r] = [s[r] EXCEPT !.pc = "fund", !.tokenConsumed = s[r].amount]
    BY <1>5, BecomeHere DEF TokenTake
  <2> QED
    BY <1>r, <1>k, <2>1, <2>2 DEF Opening
<1>b. ASSUME s[r].pc \in {"fund", "subTake"}, s'[r].pc = "rollToken",
             s'[r].quota = s[r].quota, s'[r].trusted = s[r].trusted,
             s'[r].pre = s[r].pre, s'[r].held = s[r].held, s'[r].extra = s[r].extra,
             \A y \in Sources : fund'[r][y] >= 0,
             rec'[r].status = "consumed" => /\ fund'[r]["subscription"] >= rec'[r].amount
                                            /\ \E q \in Quotas[r] : rec'[r].amount = SubAmount(q),
             r \notin Forced /\ s'[r].fallback => rec'[r].status = "none"
      PROVE  Goal
  <2>1. Priced(s'[r], r)
    BY <1>b, <1>o DEF Priced, RaisePoints, Opening
  <2>2. Backed(s'[r], fund'[r], rec'[r], r)
    BY <1>b DEF Backed
  <2> QED
    BY <2>1, <2>2
<1>a. ASSUME s[r].pc \in {"fund", "subTake"}, s'[r].pc = "active", s'[r].source = s[r].source,
             s'[r].quota = s[r].quota, s'[r].trusted = s[r].trusted, s'[r].extra = s[r].extra,
             s'[r].pre = s[r].amount, s[r].source = "wallet" => s'[r].held = s[r].amount,
             \A y \in Sources : fund'[r][y] >= 0, fund'[r][s[r].source] >= s[r].amount,
             rec'[r].status = "consumed" => /\ fund'[r]["subscription"] >= rec'[r].amount
                                            /\ \E q \in Quotas[r] : rec'[r].amount = SubAmount(q),
             fund'[r] \in [Sources -> Int]
      PROVE  Goal
  <2>1. s[r].amount = IF s[r].source = "wallet" THEN s[r].quota ELSE SubAmount(s[r].quota)
    BY <1>s, <1>a DEF Priced
  <2>2. s[r].amount >= s[r].quota
    BY <1>t, <2>1 DEF SubAmount
  <2>3. Priced(s'[r], r)
    BY <1>a, <1>o, <2>2 DEF Priced, RaisePoints, Opening
  <2>4. Backed(s'[r], fund'[r], rec'[r], r)
    BY <1>a, <1>t DEF Backed, Opening
  <2> QED
    BY <2>3, <2>4
<1>p. ASSUME s[r].pc \in {"fund", "subTake"}, s[r].source = "subscription"
      PROVE  s[r].quota \in Quotas[r] /\ s[r].amount = SubAmount(s[r].quota)
  BY <1>s, <1>p DEF Priced
<1>6. CASE WalletTake(r)
  <2>1. s[r].pc = "fund" /\ s[r].source = "wallet" /\ UNCHANGED rec
    BY <1>6 DEF WalletTake, At
  <2>2. \/ /\ UNCHANGED fund \/ MoveFund(r, "wallet", s[r].amount)
           /\ Become(r, [s[r] EXCEPT !.pc = "rollToken", !.fallback = FALSE])
        \/ /\ MoveFund(r, "wallet", s[r].amount)
           /\ Become(r, [s[r] EXCEPT !.pc = "active", !.held = s[r].amount, !.pre = s[r].amount])
    BY <1>6 DEF WalletTake, fundVars
  <2>3. ASSUME MoveFund(r, "wallet", s[r].amount)
        PROVE  /\ \A y \in Sources : fund'[r][y] >= fund[r][y] /\ fund'[r][y] \in Int
               /\ fund'[r] \in [Sources -> Int] /\ fund'[r]["wallet"] >= s[r].amount
    <3>1. fund'[r] = [fund[r] EXCEPT !["wallet"] = fund[r]["wallet"] + s[r].amount]
      BY <1>t, <2>3, MoveFundHere DEF Sources
    <3> QED
      BY <1>s, <1>t, <1>f, <3>1 DEF Sources
  <2>4. rec[r].amount \in Int /\ s[r].pc \notin {"setToken", "done", "dead"}
    BY <1>s, <2>1
  <2>5. CASE /\ UNCHANGED fund \/ MoveFund(r, "wallet", s[r].amount)
             /\ Become(r, [s[r] EXCEPT !.pc = "rollToken", !.fallback = FALSE])
    <3>1. s'[r] = [s[r] EXCEPT !.pc = "rollToken", !.fallback = FALSE]
      BY <2>5, BecomeHere
    <3>2. /\ s'[r].pc = "rollToken" /\ s'[r].quota = s[r].quota /\ s'[r].trusted = s[r].trusted
          /\ s'[r].pre = s[r].pre /\ s'[r].held = s[r].held /\ s'[r].extra = s[r].extra /\ ~s'[r].fallback
      BY <1>s, <3>1 DEF Sessions
    <3>3. \A y \in Sources : fund'[r][y] >= 0 /\ fund'[r][y] >= fund[r][y] /\ fund'[r][y] \in Int
      BY <1>s, <1>f, <2>3, <2>5
    <3>4. fund'[r]["subscription"] >= fund[r]["subscription"] /\ fund'[r]["subscription"] \in Int
          /\ fund[r]["subscription"] \in Int
      BY <1>s, <3>3 DEF Sources
    <3>5. rec'[r].status = "consumed" => /\ fund'[r]["subscription"] >= rec'[r].amount
                                         /\ \E q \in Quotas[r] : rec'[r].amount = SubAmount(q)
      BY <1>c, <2>1, <2>4, <3>4
    <3> QED
      BY <1>b, <2>1, <3>2, <3>3, <3>5
  <2>6. CASE /\ MoveFund(r, "wallet", s[r].amount)
             /\ Become(r, [s[r] EXCEPT !.pc = "active", !.held = s[r].amount, !.pre = s[r].amount])
    <3>1. s'[r] = [s[r] EXCEPT !.pc = "active", !.held = s[r].amount, !.pre = s[r].amount]
      BY <2>6, BecomeHere
    <3>2. /\ s'[r].pc = "active" /\ s'[r].quota = s[r].quota /\ s'[r].trusted = s[r].trusted
          /\ s'[r].source = s[r].source
          /\ s'[r].pre = s[r].amount /\ s'[r].held = s[r].amount /\ s'[r].extra = s[r].extra
      BY <1>s, <3>1 DEF Sessions
    <3>3. \A y \in Sources : fund'[r][y] >= 0
      BY <1>s, <1>f, <2>3, <2>6
    <3>4. fund'[r]["subscription"] >= fund[r]["subscription"] /\ fund'[r]["subscription"] \in Int
          /\ fund[r]["subscription"] \in Int
      BY <1>s, <2>3, <2>6 DEF Sources
    <3>5. rec'[r].status = "consumed" => /\ fund'[r]["subscription"] >= rec'[r].amount
                                         /\ \E q \in Quotas[r] : rec'[r].amount = SubAmount(q)
      BY <1>c, <2>1, <2>4, <3>4
    <3> QED
      BY <1>a, <2>1, <2>3, <2>6, <3>2, <3>3, <3>5
  <2> QED
    BY <2>2, <2>5, <2>6
<1>7. CASE SubLoad(r)
  <2>1. s[r].pc = "fund" /\ s[r].source = "subscription" /\ UNCHANGED <<fund, rec>>
    BY <1>7 DEF SubLoad, At, fundVars
  <2>2. CASE rec[r].status = "consumed"
    <3>1. s'[r] = [s[r] EXCEPT !.pc = "active", !.held = rec[r].amount, !.pre = s[r].amount]
      BY <1>7, <2>2, BecomeHere DEF SubLoad
    <3>2. /\ s'[r].pc = "active" /\ s'[r].quota = s[r].quota /\ s'[r].trusted = s[r].trusted
          /\ s'[r].source = s[r].source /\ s'[r].pre = s[r].amount /\ s'[r].extra = s[r].extra
      BY <1>s, <3>1 DEF Sessions
    <3>3. r \in Forced
      BY <1>o, <2>1, <2>2 DEF Opening
    <3>4. rec[r].amount = s[r].amount
      BY <1>c, <1>p, <2>1, <2>2, <3>3 DEF FixedPrice
    <3> QED
      BY <1>a, <1>s, <1>f, <1>c, <2>1, <2>2, <3>2, <3>4
  <2>3. CASE rec[r].status # "consumed"
    <3>1. ASSUME \/ s'[r] = [s[r] EXCEPT !.pc = "rollToken"]
                 \/ s'[r] = [s[r] EXCEPT !.pc = "rollToken", !.fallback = FALSE]
          PROVE  Goal
      <4>1. /\ s'[r].pc = "rollToken" /\ s'[r].quota = s[r].quota /\ s'[r].trusted = s[r].trusted
            /\ s'[r].pre = s[r].pre /\ s'[r].held = s[r].held /\ s'[r].extra = s[r].extra
        BY <1>s, <3>1 DEF Sessions
      <4>2. r \notin Forced => rec[r].status = "none"
        BY <1>o, <2>1 DEF Opening
      <4> QED
        BY <1>b, <1>f, <2>1, <2>3, <4>1, <4>2
    <3>2. ASSUME s'[r] = [s[r] EXCEPT !.pc = "subTake", !.snap = [used |-> used, cur |-> cur, now |-> period]]
          PROVE  Goal
      <4>1. /\ s'[r].pc = "subTake" /\ s'[r].quota = s[r].quota /\ s'[r].trusted = s[r].trusted
            /\ s'[r].source = s[r].source /\ s'[r].amount = s[r].amount
            /\ s'[r].pre = s[r].pre /\ s'[r].held = s[r].held /\ s'[r].extra = s[r].extra
        BY <1>s, <3>2 DEF Sessions
      <4>2. Priced(s'[r], r)
        BY <1>o, <1>p, <2>1, <4>1 DEF Priced, RaisePoints, Opening
      <4>3. Backed(s'[r], fund[r], rec[r], r)
        BY <1>f, <1>o, <2>1, <2>3, <4>1 DEF Backed, Opening
      <4> QED
        BY <2>1, <4>2, <4>3
    <3>3. \/ s'[r] = [s[r] EXCEPT !.pc = "rollToken"]
          \/ s'[r] = [s[r] EXCEPT !.pc = "rollToken", !.fallback = FALSE]
          \/ s'[r] = [s[r] EXCEPT !.pc = "subTake", !.snap = [used |-> used, cur |-> cur, now |-> period]]
      BY <1>7, <2>3, BecomeHere DEF SubLoad, Goto
    <3> QED
      BY <3>1, <3>2, <3>3
  <2> QED
    BY <2>2, <2>3
<1>8. CASE SubTake(r)
  <2> DEFINE kept == [s[r] EXCEPT !.snap = NoSnap]
             Took == /\ fund' = [fund EXCEPT ![r].subscription = @ + s[r].amount]
                     /\ rec' = [rec EXCEPT ![r] = [status |-> "consumed", amount |-> s[r].amount]]
  <2>1. s[r].pc = "subTake" /\ s[r].source = "subscription"
    BY <1>8, <1>s DEF SubTake, At, Priced
  <2>2. /\ kept \in Sessions /\ kept.source = s[r].source /\ kept.quota = s[r].quota
        /\ kept.trusted = s[r].trusted /\ kept.pre = s[r].pre /\ kept.held = s[r].held
        /\ kept.extra = s[r].extra /\ kept.fallback = s[r].fallback
    <3>1. NoSnap \in [used : Nat, cur : 0..MaxPeriod, now : 0..MaxPeriod]
      BY BoundAssumption DEF NoSnap
    <3>2. kept \in Sessions
      BY <1>s, <3>1, SnapType
    <3> QED
      BY <1>s, <3>2 DEF Sessions
  <2>3. \/ UNCHANGED <<fund, rec>> /\ Become(r, [kept EXCEPT !.pc = "rollToken"])
        \/ /\ UNCHANGED <<fund, rec>> \/ Took
           /\ Become(r, [kept EXCEPT !.pc = "rollToken", !.fallback = FALSE])
        \/ Took /\ Become(r, [kept EXCEPT !.pc = "active", !.held = s[r].amount, !.pre = s[r].amount])
    BY <1>8 DEF SubTake, fundVars
  <2> HIDE DEF kept
  <2>4. ASSUME Took
        PROVE  /\ \A y \in Sources : fund'[r][y] >= 0
               /\ fund'[r]["subscription"] >= s[r].amount /\ fund'[r] \in [Sources -> Int]
               /\ rec'[r].amount = s[r].amount
               /\ \E q \in Quotas[r] : rec'[r].amount = SubAmount(q)
    <3>1. fund'[r] = [fund[r] EXCEPT !["subscription"] = fund[r]["subscription"] + s[r].amount]
      BY <2>4 DEF TypeOK
    <3>2. rec'[r].amount = s[r].amount
      BY <2>4 DEF TypeOK
    <3> QED
      BY <1>s, <1>t, <1>f, <1>p, <2>1, <3>1, <3>2 DEF Sources
  <2>5. ASSUME NEW b, s'[r] = [kept EXCEPT !.pc = "rollToken"]
                      \/ s'[r] = [kept EXCEPT !.pc = "rollToken", !.fallback = b]
        PROVE  /\ s'[r].pc = "rollToken" /\ s'[r].quota = s[r].quota /\ s'[r].trusted = s[r].trusted
               /\ s'[r].pre = s[r].pre /\ s'[r].held = s[r].held /\ s'[r].extra = s[r].extra
               /\ s'[r] = [kept EXCEPT !.pc = "rollToken", !.fallback = b] => s'[r].fallback = b
    BY <2>2, <2>5 DEF Sessions
  <2>6. CASE UNCHANGED <<fund, rec>> /\ \/ Become(r, [kept EXCEPT !.pc = "rollToken"])
                                        \/ Become(r, [kept EXCEPT !.pc = "rollToken", !.fallback = FALSE])
    <3>1. \/ s'[r] = [kept EXCEPT !.pc = "rollToken"]
          \/ s'[r] = [kept EXCEPT !.pc = "rollToken", !.fallback = FALSE]
      BY <2>6, BecomeHere
    <3>2. r \notin Forced => rec[r].status = "none"
      BY <1>o, <2>1 DEF Opening
    <3> QED
      BY <1>b, <1>f, <1>c, <2>1, <2>5, <2>6, <3>1, <3>2
  <2>7. CASE Took /\ Become(r, [kept EXCEPT !.pc = "rollToken", !.fallback = FALSE])
    <3>1. s'[r] = [kept EXCEPT !.pc = "rollToken", !.fallback = FALSE]
      BY <2>7, BecomeHere
    <3> HIDE DEF Took
    <3> QED
      BY <1>b, <2>1, <2>4, <2>5, <2>7, <3>1
  <2>8. CASE Took /\ Become(r, [kept EXCEPT !.pc = "active", !.held = s[r].amount, !.pre = s[r].amount])
    <3>1. s'[r] = [kept EXCEPT !.pc = "active", !.held = s[r].amount, !.pre = s[r].amount]
      BY <2>8, BecomeHere
    <3>2. /\ s'[r].pc = "active" /\ s'[r].quota = s[r].quota /\ s'[r].trusted = s[r].trusted
          /\ s'[r].source = s[r].source /\ s'[r].pre = s[r].amount /\ s'[r].extra = s[r].extra
          /\ s'[r].held = s[r].amount
      BY <2>2, <3>1 DEF Sessions
    <3> HIDE DEF Took
    <3> QED
      BY <1>a, <2>1, <2>4, <2>8, <3>2
  <2> HIDE DEF Took
  <2> QED
    BY <2>3, <2>6, <2>7, <2>8
<1>9. CASE RollbackToken(r)
  <2> DEFINE y == [s[r] EXCEPT !.tokenConsumed = 0]
  <2>1. s[r].pc = "rollToken" /\ UNCHANGED <<fund, rec>>
    BY <1>9 DEF RollbackToken, At, fundVars
  <2>2. y \in Sessions
    BY <1>s, TokenBackType
  <2>3. y.quota \in Quotas[r] /\ y.pre = 0 /\ y.held = 0 /\ y.extra = 0 /\ y.fallback = s[r].fallback
        /\ (y.trusted => r \notin Forced)
    BY <1>s, <1>o, <2>1 DEF Sessions, Opening
  <2>4. s'[r] = GiveUp(r, y)
    BY <1>9, BecomeHere DEF RollbackToken
  <2> HIDE DEF y
  <2>5. r \notin Forced /\ y.fallback => rec[r].status = "none"
    BY <1>o, <2>1, <2>3 DEF Opening
  <2>6. Priced(GiveUp(r, y), r) /\ Backed(GiveUp(r, y), fund[r], rec[r], r)
    BY <1>f, <1>c, <2>1, <2>2, <2>3, <2>5, FundGiveUp
  <2> QED
    BY <2>1, <2>4, <2>6
<1> QED
  BY <1>1, <1>2, <1>3, <1>4, <1>5, <1>6, <1>7, <1>8, <1>9 DEF PreConsumeStep

\* A request with one price has nothing to raise.
LEMMA FundReserve ==
    ASSUME TypeOK, FundInv, NEW r \in Requests, FixedPrice(r), ReserveStep(r)
    PROVE  FALSE
<1>s. /\ Priced(s[r], r) /\ Quotas[r] \subseteq Nat /\ s[r].quota \in Nat /\ s[r].pre \in Nat
  BY FundBefore
<1>1. s[r].pc \notin RaisePoints
  BY <1>s DEF Priced
<1>2. Reserve(r)
  BY <1>1 DEF ReserveStep, ReserveCheck, ReserveFund, ReserveTokenCheck, ReserveTokenTake,
              ReserveRollback, At, RaisePoints
<1>3. PICK target \in Quotas[r] : target > s[r].pre
  BY <1>2 DEF Reserve
<1>4. r \in Forced /\ ~s[r].trusted /\ s[r].pc = "active"
  BY <1>2 DEF Reserve, At
<1>5. s[r].quota \in Quotas[r] /\ s[r].pre >= s[r].quota
  BY <1>s, <1>4 DEF Priced
<1>6. target = s[r].quota
  BY <1>3, <1>4, <1>5 DEF FixedPrice
<1> QED
  BY <1>s, <1>3, <1>5, <1>6

\* Settlement and refund give back no more than is there, whatever fails.
LEMMA FundEnd ==
    ASSUME TypeOK, FundInv, NEW r \in Requests, FixedPrice(r), EndStep(r)
    PROVE  Priced(s'[r], r) /\ Backed(s'[r], fund'[r], rec'[r], r)
<1> DEFINE Goal == Priced(s'[r], r) /\ Backed(s'[r], fund'[r], rec'[r], r)
<1>s. /\ s[r] \in Sessions /\ fund[r] \in [Sources -> Int]
      /\ rec[r] \in [status : {"none", "consumed", "refunded"}, amount : Nat]
      /\ Cost[r] \in Nat
      /\ Priced(s[r], r) /\ Backed(s[r], fund[r], rec[r], r)
  BY FundBefore
<1>t. /\ s[r].source \in Sources /\ s[r].pre \in Nat /\ s[r].held \in Int /\ s[r].extra \in Nat
  BY FundBefore
<1>f. /\ \A y \in Sources : fund[r][y] >= 0
      /\ \A y \in Sources : fund[r][y] \in Int
  BY <1>s DEF Backed
<1>c. ASSUME s[r].pc \notin {"setToken", "done", "dead"}, rec[r].status = "consumed"
      PROVE  fund[r]["subscription"] >= rec[r].amount /\ \E q \in Quotas[r] : rec[r].amount = SubAmount(q)
  BY <1>s, <1>c DEF Backed
<1>p. ASSUME s[r].pc \in {"active", "setFund", "setToken", "refFund", "refExtra", "refToken"}
      PROVE  s[r].quota \in Quotas[r] /\ s[r].extra = 0 /\ (s[r].trusted => r \notin Forced)
  BY <1>s, <1>p DEF Priced
\* Once nothing more is to be moved, only the amounts' signs matter.
<1>d. ASSUME s[r].pc \in {"active", "setFund", "setToken", "refFund", "refExtra", "refToken"},
             s'[r].pc \in {"setToken", "done"}, s'[r].quota = s[r].quota,
             s'[r].trusted = s[r].trusted, s'[r].extra = s[r].extra,
             \A y \in Sources : fund'[r][y] >= 0
      PROVE  Goal
  BY <1>d, <1>p DEF Priced, Backed, RaisePoints, Opening
\* The same, where the record may still be claimed.
<1>e. ASSUME s[r].pc \in {"active", "refFund", "refExtra", "refToken"},
             s'[r].pc \in {"refFund", "refExtra", "refToken"}, s'[r].quota = s[r].quota,
             s'[r].trusted = s[r].trusted, s'[r].extra = s[r].extra,
             \A y \in Sources : fund'[r][y] >= 0,
             s'[r].pc = "refFund" /\ s'[r].source = "wallet" => s'[r].held <= fund'[r]["wallet"],
             rec'[r].status = "consumed" => /\ fund'[r]["subscription"] >= rec'[r].amount
                                            /\ \E q \in Quotas[r] : rec'[r].amount = SubAmount(q)
      PROVE  Goal
  BY <1>e, <1>p DEF Priced, Backed, RaisePoints, Opening
<1>g. ASSUME NEW p, Goto(r, p)
      PROVE  /\ s'[r].pc = p /\ s'[r].source = s[r].source /\ s'[r].quota = s[r].quota
             /\ s'[r].trusted = s[r].trusted /\ s'[r].extra = s[r].extra
             /\ s'[r].held = s[r].held /\ s'[r].pre = s[r].pre
  <2>1. s'[r] = [s[r] EXCEPT !.pc = p]
    BY <1>g, BecomeHere DEF Goto
  <2> QED
    BY <1>s, <2>1 DEF Sessions
<1>m. ASSUME NEW x \in Sources, NEW n \in Int, MoveFund(r, x, n), fund[r][x] + n >= 0
      PROVE  /\ \A y \in Sources : fund'[r][y] >= 0
             /\ \A y \in Sources \ {x} : fund'[r][y] = fund[r][y]
  <2>1. fund'[r] = [fund[r] EXCEPT ![x] = fund[r][x] + n]
    BY <1>m, MoveFundHere
  <2> QED
    BY <1>s, <1>f, <1>m, <2>1
<1>1. CASE Settle(r)
  <2>1. s[r].pc = "active" /\ UNCHANGED <<fund, rec>>
    BY <1>1 DEF Settle, At, fundVars
  <2>2. CASE s'[r] = [s[r] EXCEPT !.pc = "done", !.ok = TRUE, !.settled = TRUE]
    <3>1. /\ s'[r].pc = "done" /\ s'[r].quota = s[r].quota
          /\ s'[r].trusted = s[r].trusted /\ s'[r].extra = s[r].extra
      BY <1>s, <2>2 DEF Sessions
    <3> QED
      BY <1>d, <1>f, <2>1, <3>1
  <2>3. CASE s'[r] = [s[r] EXCEPT !.pc = "setFund", !.ok = TRUE]
    <3>1. /\ s'[r].pc = "setFund" /\ s'[r].quota = s[r].quota /\ s'[r].source = s[r].source
          /\ s'[r].trusted = s[r].trusted /\ s'[r].extra = s[r].extra /\ s'[r].pre = s[r].pre
      BY <1>s, <2>3 DEF Sessions
    <3>2. fund[r][s[r].source] >= s[r].pre
      BY <1>s, <2>1 DEF Backed
    <3> QED
      BY <1>p, <1>f, <1>c, <2>1, <3>1, <3>2 DEF Priced, Backed, RaisePoints, Opening
  <2> QED
    BY <1>1, <2>2, <2>3, BecomeHere DEF Settle
<1>2. CASE SettleFund(r)
  <2> DEFINE delta == Cost[r] - s[r].pre
  <2>1. s[r].pc = "setFund" /\ UNCHANGED rec
    BY <1>2 DEF SettleFund, At
  <2>2. /\ UNCHANGED fund \/ MoveFund(r, s[r].source, delta)
        /\ \E p \in {"setToken", "done"} : Goto(r, p)
    BY <1>2 DEF SettleFund, fundVars
  <2>3. fund[r][s[r].source] >= s[r].pre
    BY <1>s, <2>1 DEF Backed
  <2>4. delta \in Int /\ fund[r][s[r].source] + delta >= 0
    BY <1>s, <1>t, <1>f, <2>3
  <2> HIDE DEF delta
  <2>5. \A y \in Sources : fund'[r][y] >= 0
    BY <1>f, <1>m, <1>t, <2>2, <2>4
  <2> QED
    BY <1>d, <1>g, <2>1, <2>2, <2>5
<1>3. CASE SettleToken(r)
  <2>1. s[r].pc = "setToken" /\ UNCHANGED <<fund, rec>>
    BY <1>3 DEF SettleToken, At, fundVars
  <2>2. s'[r] = [s[r] EXCEPT !.pc = "done", !.settled = TRUE]
    BY <1>3, BecomeHere DEF SettleToken
  <2>3. /\ s'[r].pc = "done" /\ s'[r].quota = s[r].quota
        /\ s'[r].trusted = s[r].trusted /\ s'[r].extra = s[r].extra
    BY <1>s, <2>2 DEF Sessions
  <2> QED
    BY <1>d, <1>f, <2>1, <2>3
<1>4. CASE Refund(r)
  <2>1. s[r].pc = "active" /\ UNCHANGED <<fund, rec>>
    BY <1>4 DEF Refund, At, fundVars
  <2>2. PICK p \in {"refFund", "done"} : Goto(r, p)
    BY <1>4 DEF Refund
  <2>3. s[r].source = "wallet" => s[r].held <= fund[r]["wallet"]
    BY <1>s, <2>1 DEF Backed
  <2>4. /\ s'[r].pc = p /\ s'[r].quota = s[r].quota /\ s'[r].source = s[r].source
        /\ s'[r].trusted = s[r].trusted /\ s'[r].extra = s[r].extra /\ s'[r].held = s[r].held
    BY <1>g, <2>2
  <2> QED
    BY <1>c, <1>d, <1>e, <1>f, <2>1, <2>2, <2>3, <2>4
<1>5. CASE WalletRefund(r)
  <2>1. s[r].pc = "refFund" /\ s[r].source = "wallet" /\ UNCHANGED rec
    BY <1>5 DEF WalletRefund, At
  <2>2. /\ UNCHANGED fund \/ MoveFund(r, "wallet", -s[r].held)
        /\ Goto(r, "refToken")
    BY <1>5 DEF WalletRefund, fundVars
  <2>3. s[r].held <= fund[r]["wallet"]
    BY <1>s, <2>1 DEF Backed
  <2>4. -s[r].held \in Int /\ fund[r]["wallet"] + (-s[r].held) >= 0 /\ "wallet" \in Sources
    BY <1>t, <1>f, <2>3 DEF Sources
  <2>5. (\A y \in Sources : fund'[r][y] >= 0) /\ fund'[r]["subscription"] = fund[r]["subscription"]
    <3>1. "subscription" \in Sources \ {"wallet"}
      BY DEF Sources
    <3> QED
      BY <1>f, <1>m, <2>2, <2>4, <3>1
  <2>6. rec'[r].status = "consumed" => /\ fund'[r]["subscription"] >= rec'[r].amount
                                       /\ \E q \in Quotas[r] : rec'[r].amount = SubAmount(q)
    BY <1>c, <2>1, <2>5
  <2>7. /\ s'[r].pc = "refToken" /\ s'[r].quota = s[r].quota
        /\ s'[r].trusted = s[r].trusted /\ s'[r].extra = s[r].extra
    BY <1>g, <2>2
  <2> QED
    BY <1>e, <2>1, <2>5, <2>6, <2>7
<1>6. CASE SubRefund(r)
  <2>1. s[r].pc = "refFund" /\ s[r].source = "subscription"
    BY <1>6 DEF SubRefund, At
  <2>2. \/ UNCHANGED <<fund, rec>>
        \/ /\ rec[r].status = "consumed" /\ MoveFund(r, "subscription", -rec[r].amount)
           /\ rec' = [rec EXCEPT ![r].status = "refunded"]
    BY <1>6 DEF SubRefund, RefundClaimed, fundVars
  <2>3. /\ \A y \in Sources : fund'[r][y] >= 0
        /\ rec'[r].status = "consumed" => /\ fund'[r]["subscription"] >= rec'[r].amount
                                          /\ \E q \in Quotas[r] : rec'[r].amount = SubAmount(q)
    <3>1. CASE UNCHANGED <<fund, rec>>
      BY <1>c, <1>f, <2>1, <3>1
    <3>2. CASE /\ rec[r].status = "consumed" /\ MoveFund(r, "subscription", -rec[r].amount)
               /\ rec' = [rec EXCEPT ![r].status = "refunded"]
      <4>1. rec'[r].status = "refunded"
        BY <3>2 DEF TypeOK
      <4>2. /\ -rec[r].amount \in Int /\ fund[r]["subscription"] + (-rec[r].amount) >= 0
            /\ "subscription" \in Sources
        BY <1>s, <1>c, <1>f, <2>1, <3>2 DEF Sources
      <4> QED
        BY <1>m, <3>2, <4>1, <4>2
    <3> QED
      BY <2>2, <3>1, <3>2
  <2>4. \/ s'[r] = [s[r] EXCEPT !.tries = s[r].tries + 1]
        \/ s'[r] = [s[r] EXCEPT !.pc = "refExtra"]
    BY <1>6, BecomeHere DEF SubRefund, Goto
  <2>5. /\ s'[r].pc \in {"refFund", "refExtra"} /\ s'[r].quota = s[r].quota
        /\ s'[r].trusted = s[r].trusted /\ s'[r].extra = s[r].extra /\ s'[r].source = "subscription"
    BY <1>s, <2>1, <2>4 DEF Sessions
  <2> QED
    BY <1>e, <2>1, <2>3, <2>5
<1>7. CASE ExtraRefund(r)
  <2>1. s[r].pc = "refExtra" /\ UNCHANGED rec
    BY <1>7 DEF ExtraRefund, At
  <2>2. s[r].extra = 0
    BY <1>p, <2>1
  <2>3. UNCHANGED fund /\ Goto(r, "refToken")
    BY <1>7, <2>2 DEF ExtraRefund, fundVars
  <2>4. /\ s'[r].pc = "refToken" /\ s'[r].quota = s[r].quota
        /\ s'[r].trusted = s[r].trusted /\ s'[r].extra = s[r].extra
    BY <1>g, <2>3
  <2> QED
    BY <1>c, <1>e, <1>f, <2>1, <2>3, <2>4
<1>8. CASE TokenRefund(r)
  <2>1. s[r].pc = "refToken" /\ UNCHANGED <<fund, rec>> /\ Goto(r, "done")
    BY <1>8 DEF TokenRefund, At, fundVars
  <2>2. /\ s'[r].pc = "done" /\ s'[r].quota = s[r].quota
        /\ s'[r].trusted = s[r].trusted /\ s'[r].extra = s[r].extra
    BY <1>g, <2>1
  <2> QED
    BY <1>d, <1>f, <2>1, <2>2
<1> QED
  BY <1>1, <1>2, <1>3, <1>4, <1>5, <1>6, <1>7, <1>8 DEF EndStep

\* A request with one price stays backed.
LEMMA FundStep == TypeOK /\ FundInv /\ [Next]_vars => FundInv'
<1> SUFFICES ASSUME TypeOK, FundInv, [Next]_vars, NEW q \in Requests, FixedPrice(q)
             PROVE  Priced(s'[q], q) /\ Backed(s'[q], fund'[q], rec'[q], q)
  BY DEF FundInv, Priced, Backed
<1>1. Priced(s[q], q) /\ Backed(s[q], fund[q], rec[q], q) /\ s[q] \in Sessions
  BY FundBefore
<1>2. ASSUME NEW r \in Requests, Step(r)
      PROVE  Priced(s'[q], q) /\ Backed(s'[q], fund'[q], rec'[q], q)
  <2>1. CASE q = r
    BY <1>2, <2>1, FundOpening, FundReserve, FundEnd DEF Step
  <2>2. CASE q # r
    BY <1>1, <1>2, <2>2, StepOnly DEF Only
  <2> QED
    BY <2>1, <2>2
<1>3. ASSUME Tick \/ Expire \/ ResetLoad \/ ResetClaim \/ UNCHANGED vars
      PROVE  Priced(s'[q], q) /\ Backed(s'[q], fund'[q], rec'[q], q)
  BY <1>1, <1>3 DEF Tick, Expire, ResetLoad, ResetClaim, vars, fundVars
<1>4. ASSUME Crash PROVE Priced(s'[q], q) /\ Backed(s'[q], fund'[q], rec'[q], q)
  <2>1. UNCHANGED <<fund, rec>> /\ s'[q] \in {s[q], [s[q] EXCEPT !.pc = "dead"]}
    BY <1>4 DEF Crash, fundVars
  <2>2. CASE s'[q] = [s[q] EXCEPT !.pc = "dead"]
    <3>1. s'[q].pc = "dead" /\ s'[q].extra = s[q].extra /\ s'[q].trusted = s[q].trusted
      BY <1>1, <2>2 DEF Sessions
    <3> QED
      BY <1>1, <2>1, <3>1 DEF Priced, Backed, RaisePoints, Opening
  <2> QED
    BY <1>1, <2>1, <2>2
<1> QED
  BY <1>2, <1>3, <1>4 DEF Next, Step

\* The requests with one price are backed in every reachable state.
LEMMA FundCorrect == Spec => []FundInv
<1>1. Init => FundInv
  <2> SUFFICES ASSUME Init, NEW r \in Requests, FixedPrice(r)
               PROVE  Priced(s[r], r) /\ Backed(s[r], fund[r], rec[r], r)
    BY DEF FundInv
  <2>1. s[r] = NewSession /\ fund[r] = [y \in Sources |-> 0] /\ rec[r] = NoRecord
    BY DEF Init
  <2> QED
    BY <2>1 DEF Priced, Backed, NewSession, NoRecord, RaisePoints
<1> QED
  BY <1>1, FundStep, TypeCorrect, PTL DEF Spec

\* No request whose price is the same at every attempt gives back to a funding
\* source more than it took from it, whatever statements of preConsume, Settle
\* and Refund fail or lose their answer and wherever the process dies.
THEOREM FixedPriceSafe ==
    Spec => [](\A r \in Requests : FixedPrice(r) => \A x \in Sources : fund[r][x] >= 0)
<1>1. FundInv => \A r \in Requests : FixedPrice(r) => \A x \in Sources : fund[r][x] >= 0
  BY DEF FundInv, Backed
<1> QED
  BY <1>1, FundCorrect, PTL
=============================================================================
