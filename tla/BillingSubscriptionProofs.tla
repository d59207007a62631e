---------------------- MODULE BillingSubscriptionProofs ----------------------
(***************************************************************************)
(* What the subscription loses and what it says is used, for any finite    *)
(* number of requests and any prices, balances and bounds.  A request that *)
(* asks for one session gives back no more than it took, its raises        *)
(* included; and as long as nobody gives back more, the used amount is     *)
(* what the requests have taken together.                                  *)
(***************************************************************************)
EXTENDS BillingExactProofs, FiniteSetTheorems, WellFoundedInduction

----------------------------------------------------------------------------
(* With faults, of the requests that ask for one session only. *)

\* Nothing is reserved before the session is active, and there is a record only
\* if the subscription's answer was lost.
Unfunded == {"new", "wallet", "tokenCheck", "tokenTake", "fund", "subTake"}
RaiseTail == {"resTokenCheck", "resTokenTake", "resRoll"}

\* What the subscription still holds of what the session counts, its record and
\* the raises; a preference without wallet never touches it.
SubBacked(x, f, c, r) ==
    /\ f["subscription"] >= 0
    /\ x.pc # "refused"
    /\ x.pc \notin {"new", "done", "dead"} => x.attempts >= 1
    /\ x.pc \in Unfunded \/ x.pc = "rollToken" => x.extra = 0 /\ x.pre = 0
    /\ x.pc \in Unfunded \/ (x.pc = "rollToken" /\ x.fallback) => c.status = "none"
    /\ x.pc = "subTake" => x.source = "subscription"
    /\ x.pc \in {"wallet", "resCheck"} => x.source = "wallet"
    /\ x.source = "wallet" /\ x.pc \notin {"rollToken", "done", "dead"} => c.status = "none"
    /\ x.source = "subscription" /\ x.pc \in {"active", "resFund", "setFund"} =>
         f["subscription"] >= x.pre
    /\ x.source = "subscription" /\ x.pc \in RaiseTail => f["subscription"] >= x.pre + x.amount
    /\ x.source = "subscription" /\ x.pc \in {"active", "resFund"} \cup RaiseTail =>
         c.status = "consumed" /\ x.pre = c.amount + x.extra
    /\ x.source = "subscription" /\ x.pc = "refFund" =>
         f["subscription"] >= x.extra + (IF c.status = "consumed" THEN c.amount ELSE 0)
    /\ x.pc = "refExtra" => f["subscription"] >= x.extra
    /\ Pref[r] = "subscription_only" =>
         /\ f["wallet"] = 0
         /\ x.pc \notin {"new", "done", "dead"} => x.source = "subscription" /\ ~x.fallback

\* The request asks for a session once.
OneAttempt(r) == MaxAttempts[r] = 1

\* The inductive invariant.
SubInvariant == \A r \in Requests : OneAttempt(r) => SubBacked(s[r], fund[r], rec[r], r)

\* What is known of such a request before a step.
LEMMA SubBefore ==
    ASSUME TypeOK, SubInvariant, NEW r \in Requests, OneAttempt(r)
    PROVE  /\ s[r] \in Sessions /\ fund[r] \in [Sources -> Int]
           /\ fund[r]["subscription"] \in Int /\ fund[r]["wallet"] \in Int
           /\ rec[r] \in [status : {"none", "consumed", "refunded"}, amount : Nat]
           /\ rec[r].amount \in Nat
           /\ Cost[r] \in Nat /\ Quotas[r] \subseteq Nat
           /\ SubBacked(s[r], fund[r], rec[r], r)
           /\ s[r].pc \in PCs
           /\ s[r].source \in Sources /\ s[r].amount \in Nat /\ s[r].pre \in Nat /\ s[r].quota \in Nat
           /\ s[r].held \in Int /\ s[r].extra \in Nat /\ s[r].attempts \in Nat
<1>1. /\ s[r] \in Sessions /\ fund[r] \in [Sources -> Int]
      /\ rec[r] \in [status : {"none", "consumed", "refunded"}, amount : Nat]
      /\ Cost[r] \in Nat /\ Quotas[r] \subseteq Nat
      /\ SubBacked(s[r], fund[r], rec[r], r)
  BY RequestAssumption DEF TypeOK, SubInvariant
<1> QED
  BY <1>1, FieldTypes DEF Sources

\* The next source to try; without one the request ends.
LEMMA SubGiveUp ==
    ASSUME NEW r \in Requests, OneAttempt(r), NEW x \in Sessions, NEW c, NEW f,
           f["subscription"] >= 0, x.attempts >= 1, x.extra = 0, x.pre = 0,
           Pref[r] = "subscription_only" => f["wallet"] = 0 /\ ~x.fallback
    PROVE  /\ SubBacked(Refused(r, x), f, c, r)
           /\ (x.fallback => c.status = "none") => SubBacked(GiveUp(r, x), f, c, r)
<1>1. SubBacked(Refused(r, x), f, c, r)
  <2> DEFINE y == Refused(r, x)
  <2>1. y.pc = "done"
    BY FieldTypes DEF Refused, Sessions, OneAttempt
  <2> HIDE DEF y
  <2>2. SubBacked(y, f, c, r)
    BY <2>1 DEF SubBacked, Unfunded, RaiseTail
  <2> QED
    BY <2>2 DEF y
<1>2. ASSUME c.status = "none", x.fallback PROVE SubBacked(TrySubscription(x, FALSE), f, c, r)
  <2> DEFINE y == TrySubscription(x, FALSE)
  <2>1. /\ y.pc = "tokenCheck" /\ y.source = "subscription" /\ y.attempts = x.attempts
        /\ y.pre = 0 /\ y.extra = 0 /\ ~y.fallback
    BY DEF TrySubscription, Sessions
  <2> HIDE DEF y
  <2>2. SubBacked(y, f, c, r)
    BY <1>2, <2>1 DEF SubBacked, Unfunded, RaiseTail
  <2> QED
    BY <2>2 DEF y
<1>3. ASSUME c.status = "none", x.fallback PROVE SubBacked(TryWallet(x, FALSE), f, c, r)
  <2> DEFINE y == TryWallet(x, FALSE)
  <2>1. /\ y.pc = "wallet" /\ y.source = "wallet" /\ y.attempts = x.attempts
        /\ y.pre = 0 /\ y.extra = 0 /\ ~y.fallback
    BY DEF TryWallet, Sessions
  <2> HIDE DEF y
  <2>2. SubBacked(y, f, c, r)
    BY <1>3, <2>1 DEF SubBacked, Unfunded, RaiseTail
  <2> QED
    BY <2>2 DEF y
<1> QED
  BY <1>1, <1>2, <1>3 DEF GiveUp

\* The sessions that are asked for, whatever fails.
LEMMA SubOpening ==
    ASSUME TypeOK, SubInvariant, NEW r \in Requests, OneAttempt(r), PreConsumeStep(r)
    PROVE  SubBacked(s'[r], fund'[r], rec'[r], r)
<1> DEFINE Goal == SubBacked(s'[r], fund'[r], rec'[r], r)
<1>s. /\ s[r] \in Sessions /\ fund[r] \in [Sources -> Int]
      /\ fund[r]["subscription"] \in Int /\ fund[r]["wallet"] \in Int
      /\ rec[r] \in [status : {"none", "consumed", "refunded"}, amount : Nat]
      /\ SubBacked(s[r], fund[r], rec[r], r)
  BY SubBefore
<1>t. /\ s[r].source \in Sources /\ s[r].amount \in Nat /\ s[r].pre \in Nat
      /\ s[r].extra \in Nat /\ s[r].attempts \in Nat /\ s[r].pc \in PCs
  BY SubBefore
<1>f. /\ fund[r]["subscription"] >= 0
      /\ Pref[r] = "subscription_only" => fund[r]["wallet"] = 0
  BY <1>s DEF SubBacked
<1>o. ASSUME s[r].pc \in Unfunded \cup {"rollToken"}
      PROVE  /\ s[r].pre = 0 /\ s[r].extra = 0
             /\ s[r].pc # "rollToken" \/ s[r].fallback => rec[r].status = "none"
             /\ s[r].pc # "new" => s[r].attempts >= 1
             /\ s[r].pc # "new" /\ Pref[r] = "subscription_only" =>
                  s[r].source = "subscription" /\ ~s[r].fallback
  BY <1>s, <1>o DEF SubBacked, Unfunded
\* A session on its way to funding.
<1>k. ASSUME s[r].pc \in Unfunded \ {"new"}, s'[r].pc \in {"tokenCheck", "tokenTake", "fund", "subTake", "rollToken"},
             s'[r].source = s[r].source, s'[r].pre = s[r].pre, s'[r].extra = s[r].extra,
             s'[r].attempts = s[r].attempts, s'[r].fallback = s[r].fallback \/ s'[r].fallback = FALSE,
             s'[r].pc = "subTake" => s[r].source = "subscription",
             UNCHANGED <<fund, rec>>
      PROVE  Goal
  BY <1>k, <1>o, <1>f DEF SubBacked, Unfunded, RaiseTail
<1>r. ASSUME s[r].pc \in Unfunded \ {"new"}, s'[r] = Refused(r, s[r]), UNCHANGED <<fund, rec>>
      PROVE  Goal
  <2>1. SubBacked(Refused(r, s[r]), fund[r], rec[r], r)
    BY <1>s, <1>f, <1>o, <1>r, SubGiveUp
  <2> QED
    BY <1>r, <2>1
<1>1. CASE Begin(r)
  <2>1. s[r].pc = "new" /\ UNCHANGED <<fund, rec>>
    BY <1>1 DEF Begin, At, fundVars
  <2>2. PICK q \in Quotas[r] : \E b \in BOOLEAN :
           \/ /\ Become(r, TrySubscription([s[r] EXCEPT !.tokenSeen = ContextQuota(r), !.quota = q, !.attempts = @ + 1], b))
              /\ Pref[r] = "subscription_only" => ~b
           \/ /\ Become(r, TryWallet([s[r] EXCEPT !.tokenSeen = ContextQuota(r), !.quota = q, !.attempts = @ + 1], b))
              /\ Pref[r] # "subscription_only"
    <3>1. Pref[r] \in Preferences
      BY RequestAssumption
    <3> QED
      BY <1>1, <3>1 DEF Begin, Preferences
  <2> DEFINE y == [s[r] EXCEPT !.tokenSeen = ContextQuota(r), !.quota = q, !.attempts = @ + 1]
  <2>3. PICK b \in BOOLEAN :
           \/ s'[r] = TrySubscription(y, b) /\ (Pref[r] = "subscription_only" => ~b)
           \/ s'[r] = TryWallet(y, b) /\ Pref[r] # "subscription_only"
    BY <2>2, BecomeHere
  <2>4. /\ y.pre = 0 /\ y.extra = 0 /\ y.attempts = s[r].attempts + 1
        /\ y = [s[r] EXCEPT !.tokenSeen = y.tokenSeen, !.quota = y.quota, !.attempts = y.attempts]
    BY <1>s, <1>o, <2>1 DEF Sessions, Unfunded
  <2> HIDE DEF y
  <2>5. CASE s'[r] = TrySubscription(y, b) /\ (Pref[r] = "subscription_only" => ~b)
    <3>1. /\ s'[r].pc = "tokenCheck" /\ s'[r].source = "subscription" /\ s'[r].pre = 0
          /\ s'[r].extra = 0 /\ s'[r].attempts = s[r].attempts + 1 /\ s'[r].fallback = b
      BY <1>s, <2>4, <2>5 DEF TrySubscription, Sessions
    <3> QED
      BY <1>f, <1>o, <1>t, <2>1, <2>5, <3>1 DEF SubBacked, Unfunded, RaiseTail
  <2>6. CASE s'[r] = TryWallet(y, b) /\ Pref[r] # "subscription_only"
    <3>1. /\ s'[r].pc = "wallet" /\ s'[r].source = "wallet" /\ s'[r].pre = 0
          /\ s'[r].extra = 0 /\ s'[r].attempts = s[r].attempts + 1 /\ s'[r].fallback = b
      BY <1>s, <2>4, <2>6 DEF TryWallet, Sessions
    <3> QED
      BY <1>f, <1>o, <1>t, <2>1, <2>6, <3>1 DEF SubBacked, Unfunded, RaiseTail
  <2> QED
    BY <2>3, <2>5, <2>6
<1>2. CASE Retry(r)
  BY <1>2, <1>s DEF Retry, At, SubBacked
<1>3. CASE WalletCheck(r)
  <2>1. s[r].pc = "wallet" /\ UNCHANGED <<fund, rec>> /\ s[r].source = "wallet"
    BY <1>3, <1>s DEF WalletCheck, At, fundVars, SubBacked
  <2>2. s[r].pc \in Unfunded \ {"new"} /\ Pref[r] # "subscription_only"
    BY <1>o, <2>1 DEF Unfunded
  <2>3. CASE Become(r, GiveUp(r, s[r]))
    <3>1. s'[r] = GiveUp(r, s[r])
      BY <2>3, BecomeHere
    <3>2. SubBacked(GiveUp(r, s[r]), fund[r], rec[r], r)
      BY <1>s, <1>f, <1>o, <2>1, <2>2, SubGiveUp
    <3> QED
      BY <2>1, <3>1, <3>2
  <2>4. ASSUME NEW p \in {"active", "tokenCheck"}, NEW b, NEW n,
               Become(r, [s[r] EXCEPT !.pc = p, !.trusted = b, !.amount = n])
        PROVE  Goal
    <3>1. s'[r] = [s[r] EXCEPT !.pc = p, !.trusted = b, !.amount = n]
      BY <2>4, BecomeHere
    <3>2. /\ s'[r].pc = p /\ s'[r].source = "wallet" /\ s'[r].pre = 0 /\ s'[r].extra = 0
          /\ s'[r].attempts = s[r].attempts /\ s'[r].fallback = s[r].fallback
      BY <1>s, <1>o, <2>1, <2>2, <3>1 DEF Sessions
    <3> QED
      BY <1>f, <1>o, <2>1, <2>2, <3>2 DEF SubBacked, Unfunded, RaiseTail
  <2> QED
    BY <1>3, <2>3, <2>4 DEF WalletCheck
<1>4. CASE TokenCheck(r)
  <2>1. s[r].pc = "tokenCheck" /\ UNCHANGED <<fund, rec>>
    BY <1>4 DEF TokenCheck, At, fundVars
  <2>2. \/ s'[r] = Refused(r, s[r])
        \/ s'[r] = [s[r] EXCEPT !.pc = "tokenTake"]
        \/ s'[r] = [s[r] EXCEPT !.pc = "fund", !.tokenConsumed = s[r].amount]
    BY <1>4, BecomeHere DEF TokenCheck
  <2>3. \/ s'[r] = Refused(r, s[r])
        \/ /\ s'[r].pc \in {"tokenTake", "fund"} /\ s'[r].source = s[r].source
           /\ s'[r].pre = s[r].pre /\ s'[r].extra = s[r].extra
           /\ s'[r].attempts = s[r].attempts /\ s'[r].fallback = s[r].fallback
    BY <1>s, <2>2 DEF Sessions
  <2>4. s[r].pc \in Unfunded \ {"new"}
    BY <2>1 DEF Unfunded
  <2> QED
    BY <1>r, <1>k, <2>1, <2>3, <2>4
<1>5. CASE TokenTake(r)
  <2>1. s[r].pc = "tokenTake" /\ UNCHANGED <<fund, rec>>
    BY <1>5 DEF TokenTake, At, fundVars
  <2>2. \/ s'[r] = Refused(r, s[r])
        \/ s'[r] = [s[r] EXCEPT !.pc = "fund", !.tokenConsumed = s[r].amount]
    BY <1>5, BecomeHere DEF TokenTake
  <2>3. \/ s'[r] = Refused(r, s[r])
        \/ /\ s'[r].pc = "fund" /\ s'[r].source = s[r].source
           /\ s'[r].pre = s[r].pre /\ s'[r].extra = s[r].extra
           /\ s'[r].attempts = s[r].attempts /\ s'[r].fallback = s[r].fallback
    BY <1>s, <2>2 DEF Sessions
  <2>4. s[r].pc \in Unfunded \ {"new"}
    BY <2>1 DEF Unfunded
  <2> QED
    BY <1>r, <1>k, <2>1, <2>3, <2>4
<1>6. CASE WalletTake(r)
  <2>1. s[r].pc = "fund" /\ s[r].source = "wallet" /\ UNCHANGED rec
    BY <1>6 DEF WalletTake, At
  <2>2. \/ s'[r] = [s[r] EXCEPT !.pc = "rollToken", !.fallback = FALSE]
        \/ s'[r] = [s[r] EXCEPT !.pc = "active", !.held = s[r].amount, !.pre = s[r].amount]
    BY <1>6, BecomeHere DEF WalletTake
  <2>3. UNCHANGED fund \/ MoveFund(r, "wallet", s[r].amount)
    BY <1>6 DEF WalletTake, fundVars
  <2>4. fund'[r]["subscription"] = fund[r]["subscription"]
    <3>1. \/ fund'[r] = fund[r]
          \/ fund'[r] = [fund[r] EXCEPT !["wallet"] = fund[r]["wallet"] + s[r].amount]
      BY <1>t, <2>3, MoveFundHere DEF Sources
    <3> QED
      BY <1>s, <3>1 DEF Sources
  <2>5. /\ s'[r].pc \in {"rollToken", "active"} /\ s'[r].source = "wallet"
        /\ s'[r].extra = s[r].extra /\ s'[r].attempts = s[r].attempts
        /\ s'[r].pc = "rollToken" => s'[r].pre = s[r].pre /\ ~s'[r].fallback
    BY <1>s, <2>1, <2>2 DEF Sessions
  <2>6. Pref[r] # "subscription_only" /\ s[r].pc \in Unfunded \ {"new"}
    BY <1>o, <2>1 DEF Unfunded
  <2> QED
    BY <1>f, <1>o, <2>1, <2>4, <2>5, <2>6 DEF SubBacked, Unfunded, RaiseTail
<1>7. CASE SubLoad(r)
  <2>1. s[r].pc = "fund" /\ s[r].source = "subscription" /\ UNCHANGED <<fund, rec>>
    BY <1>7 DEF SubLoad, At, fundVars
  <2>2. s[r].pc \in Unfunded \ {"new"} /\ rec[r].status = "none"
    BY <1>o, <2>1 DEF Unfunded
  <2>3. \/ s'[r] = [s[r] EXCEPT !.pc = "rollToken"]
        \/ s'[r] = [s[r] EXCEPT !.pc = "subTake", !.snap = [used |-> used, cur |-> cur, now |-> period]]
    <3>1. \/ Become(r, [s[r] EXCEPT !.pc = "rollToken"])
          \/ Become(r, [s[r] EXCEPT !.pc = "subTake", !.snap = [used |-> used, cur |-> cur, now |-> period]])
      BY <1>7, <2>2 DEF SubLoad, Goto
    <3> QED
      BY <3>1, BecomeHere
  <2>4. /\ s'[r].pc \in {"rollToken", "subTake"} /\ s'[r].source = s[r].source
        /\ s'[r].pre = s[r].pre /\ s'[r].extra = s[r].extra
        /\ s'[r].attempts = s[r].attempts /\ s'[r].fallback = s[r].fallback
    <3>1. CASE s'[r] = [s[r] EXCEPT !.pc = "rollToken"]
      BY <1>s, <3>1 DEF Sessions
    <3>2. CASE s'[r] = [s[r] EXCEPT !.pc = "subTake", !.snap = [used |-> used, cur |-> cur, now |-> period]]
      BY <1>s, <3>2 DEF Sessions
    <3> QED
      BY <2>3, <3>1, <3>2
  <2> QED
    BY <1>k, <2>1, <2>2, <2>4
<1>8. CASE SubTake(r)
  <2> DEFINE kept == [s[r] EXCEPT !.snap = NoSnap]
             Took == /\ fund' = [fund EXCEPT ![r].subscription = @ + s[r].amount]
                     /\ rec' = [rec EXCEPT ![r] = [status |-> "consumed", amount |-> s[r].amount]]
  <2>1. /\ s[r].pc = "subTake" /\ s[r].source = "subscription"
        /\ s[r].pc \in Unfunded \ {"new"}
    BY <1>8, <1>s DEF SubTake, At, SubBacked, Unfunded
  <2>2. /\ kept \in Sessions /\ kept.source = s[r].source /\ kept.pre = s[r].pre
        /\ kept.extra = s[r].extra /\ kept.fallback = s[r].fallback /\ kept.attempts = s[r].attempts
    <3>1. NoSnap \in [used : Nat, cur : 0..MaxPeriod, now : 0..MaxPeriod]
      BY BoundAssumption DEF NoSnap
    <3>2. kept \in Sessions
      BY <1>s, <3>1, SnapType
    <3> QED
      BY <1>s, <3>2 DEF Sessions
  <2>3. \/ UNCHANGED <<fund, rec>> /\ s'[r] = [kept EXCEPT !.pc = "rollToken"]
        \/ /\ UNCHANGED <<fund, rec>> \/ Took
           /\ s'[r] = [kept EXCEPT !.pc = "rollToken", !.fallback = FALSE]
        \/ Took /\ s'[r] = [kept EXCEPT !.pc = "active", !.held = s[r].amount, !.pre = s[r].amount]
    BY <1>8, BecomeHere DEF SubTake, fundVars
  <2> HIDE DEF kept
  <2>4. ASSUME Took
        PROVE  /\ fund'[r]["subscription"] = fund[r]["subscription"] + s[r].amount
               /\ fund'[r]["wallet"] = fund[r]["wallet"]
               /\ rec'[r].status = "consumed" /\ rec'[r].amount = s[r].amount
    BY <1>s, <2>4 DEF TypeOK, Sources
  <2> HIDE DEF Took
  <2>5. /\ s'[r].source = "subscription" /\ s'[r].attempts = s[r].attempts /\ s'[r].extra = s[r].extra
        /\ \/ /\ UNCHANGED <<fund, rec>> /\ s'[r].pc = "rollToken" /\ s'[r].pre = s[r].pre
              /\ s'[r].fallback = s[r].fallback \/ s'[r].fallback = FALSE
           \/ Took /\ s'[r].pc = "rollToken" /\ s'[r].fallback = FALSE /\ s'[r].pre = s[r].pre
           \/ Took /\ s'[r].pc = "active" /\ s'[r].pre = s[r].amount /\ s'[r].fallback = s[r].fallback
    BY <2>1, <2>2, <2>3 DEF Sessions
  <2>6. ASSUME UNCHANGED <<fund, rec>>, s'[r].pc = "rollToken", s'[r].pre = s[r].pre,
               s'[r].fallback = s[r].fallback \/ s'[r].fallback = FALSE
        PROVE  Goal
    BY <1>k, <2>1, <2>5, <2>6
  <2>7. ASSUME Took, s'[r].pc = "rollToken", s'[r].fallback = FALSE, s'[r].pre = s[r].pre
        PROVE  Goal
    BY <1>s, <1>f, <1>o, <1>t, <2>1, <2>4, <2>5, <2>7 DEF SubBacked, Unfunded, RaiseTail
  <2>8. ASSUME Took, s'[r].pc = "active", s'[r].pre = s[r].amount, s'[r].fallback = s[r].fallback
        PROVE  Goal
    BY <1>s, <1>f, <1>o, <1>t, <2>1, <2>4, <2>5, <2>8 DEF SubBacked, Unfunded, RaiseTail
  <2> QED
    BY <2>5, <2>6, <2>7, <2>8
<1>9. CASE RollbackToken(r)
  <2> DEFINE y == [s[r] EXCEPT !.tokenConsumed = 0]
  <2>1. s[r].pc = "rollToken" /\ UNCHANGED <<fund, rec>> /\ s'[r] = GiveUp(r, y)
    BY <1>9, BecomeHere DEF RollbackToken, At, fundVars
  <2>2. /\ y \in Sessions /\ y.pre = s[r].pre /\ y.extra = s[r].extra /\ y.attempts = s[r].attempts
        /\ y.fallback = s[r].fallback
    BY <1>s DEF Sessions
  <2> HIDE DEF y
  <2>3. SubBacked(GiveUp(r, y), fund[r], rec[r], r)
    BY <1>f, <1>o, <2>1, <2>2, SubGiveUp
  <2> QED
    BY <2>1, <2>3
<1> QED
  BY <1>1, <1>2, <1>3, <1>4, <1>5, <1>6, <1>7, <1>8, <1>9 DEF PreConsumeStep

\* A raise is counted once it is complete, and undone before.
LEMMA SubReserve ==
    ASSUME TypeOK, SubInvariant, NEW r \in Requests, OneAttempt(r), ReserveStep(r)
    PROVE  SubBacked(s'[r], fund'[r], rec'[r], r)
<1> DEFINE Goal == SubBacked(s'[r], fund'[r], rec'[r], r)
<1>s. /\ s[r] \in Sessions /\ fund[r] \in [Sources -> Int]
      /\ fund[r]["subscription"] \in Int /\ fund[r]["wallet"] \in Int
      /\ rec[r].amount \in Nat
      /\ SubBacked(s[r], fund[r], rec[r], r)
  BY SubBefore
<1>t. /\ s[r].source \in Sources /\ s[r].amount \in Nat /\ s[r].pre \in Nat /\ s[r].held \in Int
      /\ s[r].extra \in Nat /\ s[r].attempts \in Nat /\ s[r].pc \in PCs /\ Quotas[r] \subseteq Nat
  BY SubBefore
<1>w. "wallet" \in Sources /\ "subscription" \in Sources /\ s[r].source \in {"wallet", "subscription"}
  BY <1>t DEF Sources
\* What a step may leave: the fields of the session that count.
<1>k. ASSUME s[r].pc \in {"active", "resCheck", "resFund"} \cup RaiseTail,
             s'[r].pc \in {"active", "resCheck", "resFund"} \cup RaiseTail, UNCHANGED rec,
             s'[r].source = s[r].source, s'[r].attempts = s[r].attempts, s'[r].fallback = s[r].fallback,
             s'[r].pc = "resCheck" => s[r].source = "wallet",
             s'[r].pre - s'[r].extra = s[r].pre - s[r].extra, s'[r].pre \in Nat, s'[r].extra \in Nat,
             fund'[r]["subscription"] \in Int, fund'[r]["subscription"] >= 0,
             fund'[r]["wallet"] = fund[r]["wallet"] \/ s[r].source = "wallet",
             s[r].source = "subscription" =>
                 fund'[r]["subscription"] >=
                     s'[r].pre + (IF s'[r].pc \in RaiseTail THEN s'[r].amount ELSE 0)
      PROVE  Goal
  <2>1. /\ s[r].attempts >= 1 /\ fund[r]["subscription"] >= 0
        /\ s[r].source = "wallet" => rec[r].status = "none"
        /\ s[r].source = "subscription" => s[r].pc # "resCheck"
    BY <1>s, <1>k DEF SubBacked, RaiseTail
  <2>2. s[r].source = "subscription" => rec[r].status = "consumed" /\ s[r].pre = rec[r].amount + s[r].extra
    BY <1>s, <1>k, <2>1 DEF SubBacked, RaiseTail
  <2>3. Pref[r] = "subscription_only" => /\ fund[r]["wallet"] = 0
                                         /\ s[r].source = "subscription" /\ ~s[r].fallback
    BY <1>s, <1>k DEF SubBacked, RaiseTail
  <2>4. s[r].source = "subscription" => s'[r].pre = rec'[r].amount + s'[r].extra
    BY <1>s, <1>t, <1>k, <2>2
  <2>5. /\ s'[r].pc \notin Unfunded /\ s'[r].pc \notin {"refused", "rollToken", "refFund", "refExtra"}
    BY <1>k DEF Unfunded, RaiseTail
  <2>6. /\ s'[r].source = "subscription" /\ s'[r].pc \in {"active", "resFund", "setFund"} =>
             fund'[r]["subscription"] >= s'[r].pre
        /\ s'[r].source = "subscription" /\ s'[r].pc \in RaiseTail =>
             fund'[r]["subscription"] >= s'[r].pre + s'[r].amount
    BY <1>k DEF RaiseTail
  <2> QED
    BY <1>k, <2>1, <2>2, <2>3, <2>4, <2>5, <2>6 DEF SubBacked, RaiseTail
<1>n. ASSUME s[r].pc \in {"active", "resFund"}, s[r].source = "subscription"
      PROVE  fund[r]["subscription"] >= s[r].pre
  BY <1>s, <1>n DEF SubBacked
<1>e. ASSUME s[r].pc \in RaiseTail, s[r].source = "subscription"
      PROVE  fund[r]["subscription"] >= s[r].pre + s[r].amount
  BY <1>s, <1>e DEF SubBacked
<1>f. fund[r]["subscription"] >= 0
  BY <1>s DEF SubBacked
<1>g. ASSUME NEW p, Goto(r, p)
      PROVE  /\ s'[r].pc = p /\ s'[r].source = s[r].source /\ s'[r].attempts = s[r].attempts
             /\ s'[r].fallback = s[r].fallback /\ s'[r].amount = s[r].amount
             /\ s'[r].pre = s[r].pre /\ s'[r].extra = s[r].extra
  <2>1. s'[r] = [s[r] EXCEPT !.pc = p]
    BY <1>g, BecomeHere DEF Goto
  <2> QED
    BY <1>s, <2>1 DEF Sessions
<1>m. ASSUME NEW n \in Int, MoveFund(r, s[r].source, n)
      PROVE  /\ s[r].source = "subscription" => /\ fund'[r]["subscription"] = fund[r]["subscription"] + n
                                                /\ fund'[r]["wallet"] = fund[r]["wallet"]
             /\ s[r].source = "wallet" => fund'[r]["subscription"] = fund[r]["subscription"]
  <2>1. fund'[r] = [fund[r] EXCEPT ![s[r].source] = fund[r][s[r].source] + n]
    BY <1>m, <1>t, MoveFundHere
  <2> QED
    BY <1>s, <1>w, <2>1
<1>1. CASE Reserve(r)
  <2>1. s[r].pc = "active" /\ UNCHANGED <<fund, rec>>
    BY <1>1 DEF Reserve, At, fundVars
  <2>2. PICK n : s'[r] = [s[r] EXCEPT !.amount = n,
                          !.pc = IF s[r].source = "wallet" THEN "resCheck" ELSE "resFund"]
    BY <1>1, BecomeHere DEF Reserve
  <2>3. /\ s'[r].pc = IF s[r].source = "wallet" THEN "resCheck" ELSE "resFund"
        /\ s'[r].source = s[r].source /\ s'[r].attempts = s[r].attempts
        /\ s'[r].fallback = s[r].fallback
        /\ s'[r].pre = s[r].pre /\ s'[r].extra = s[r].extra
    BY <1>s, <2>2 DEF Sessions
  <2>4. s'[r].pc \in {"resCheck", "resFund"} /\ s'[r].pc \notin RaiseTail
    BY <2>3 DEF RaiseTail
  <2> QED
    BY <1>k, <1>s, <1>t, <1>f, <1>n, <2>1, <2>3, <2>4
<1>2. CASE ReserveCheck(r)
  <2>1. /\ s[r].pc = "resCheck" /\ UNCHANGED <<fund, rec>>
        /\ Goto(r, "active") \/ Goto(r, "resFund")
    BY <1>2 DEF ReserveCheck, At, fundVars
  <2>2. s[r].source = "wallet"
    BY <1>s, <2>1 DEF SubBacked
  <2> QED
    BY <1>k, <1>g, <1>s, <1>t, <1>f, <2>1, <2>2
<1>3. CASE ReserveFund(r)
  <2>1. s[r].pc = "resFund" /\ UNCHANGED rec
    BY <1>3 DEF ReserveFund, At
  <2>2. \/ UNCHANGED fund /\ Goto(r, "active")
        \/ MoveFund(r, s[r].source, s[r].amount) /\ Goto(r, "active")
        \/ /\ MoveFund(r, s[r].source, s[r].amount)
           /\ \E i : Become(r, [s[r] EXCEPT !.pc = "resTokenCheck", !.held = i])
    BY <1>3 DEF ReserveFund, fundVars
  <2>3. CASE UNCHANGED fund /\ Goto(r, "active")
    <3>1. "active" \notin RaiseTail
      BY DEF RaiseTail
    <3> QED
      BY <1>k, <1>g, <1>s, <1>t, <1>f, <1>n, <2>1, <2>3, <3>1
  <2>4. ASSUME MoveFund(r, s[r].source, s[r].amount)
        PROVE  /\ fund'[r]["subscription"] \in Int /\ fund'[r]["subscription"] >= 0
               /\ fund'[r]["wallet"] = fund[r]["wallet"] \/ s[r].source = "wallet"
               /\ s[r].source = "subscription" => fund'[r]["subscription"] >= s[r].pre + s[r].amount
    BY <1>m, <1>s, <1>t, <1>f, <1>n, <1>w, <2>1, <2>4
  <2>5. CASE MoveFund(r, s[r].source, s[r].amount) /\ Goto(r, "active")
    <3>1. "active" \notin RaiseTail
      BY DEF RaiseTail
    <3>2. s[r].source = "subscription" => fund'[r]["subscription"] >= s[r].pre
      BY <1>t, <2>4, <2>5
    <3> QED
      BY <1>k, <1>g, <1>t, <2>1, <2>4, <2>5, <3>1, <3>2
  <2>6. CASE /\ MoveFund(r, s[r].source, s[r].amount)
             /\ \E i : Become(r, [s[r] EXCEPT !.pc = "resTokenCheck", !.held = i])
    <3>1. PICK i : s'[r] = [s[r] EXCEPT !.pc = "resTokenCheck", !.held = i]
      BY <2>6, BecomeHere
    <3>2. /\ s'[r].pc = "resTokenCheck" /\ s'[r].source = s[r].source /\ s'[r].attempts = s[r].attempts
          /\ s'[r].fallback = s[r].fallback /\ s'[r].amount = s[r].amount
          /\ s'[r].pre = s[r].pre /\ s'[r].extra = s[r].extra
      BY <1>s, <3>1 DEF Sessions
    <3>3. "resTokenCheck" \in RaiseTail
      BY DEF RaiseTail
    <3> QED
      BY <1>k, <1>t, <2>1, <2>4, <2>6, <3>2, <3>3
  <2> QED
    BY <2>2, <2>3, <2>5, <2>6
<1>r. ASSUME s[r].pc \in RaiseTail, s'[r] = Reserved(s[r]), UNCHANGED <<fund, rec>>
      PROVE  Goal
  <2>1. /\ s'[r].pc = "active" /\ s'[r].source = s[r].source /\ s'[r].attempts = s[r].attempts
        /\ s'[r].fallback = s[r].fallback
        /\ s'[r].pre = s[r].pre + s[r].amount /\ s'[r].extra = s[r].extra + s[r].amount
    BY <1>s, <1>r DEF Sessions, Reserved
  <2>2. "active" \notin RaiseTail
    BY DEF RaiseTail
  <2>3. /\ s'[r].pre - s'[r].extra = s[r].pre - s[r].extra /\ s'[r].pre \in Nat /\ s'[r].extra \in Nat
        /\ s[r].source = "subscription" => fund[r]["subscription"] >= s'[r].pre
    BY <1>r, <1>e, <1>t, <2>1
  <2> QED
    BY <1>k, <1>r, <1>s, <1>f, <2>1, <2>2, <2>3
<1>i. ASSUME s[r].pc \in RaiseTail, NEW p \in RaiseTail, Goto(r, p), UNCHANGED <<fund, rec>>
      PROVE  Goal
  <2>1. p # "resCheck"
    BY DEF RaiseTail
  <2> QED
    BY <1>k, <1>i, <1>g, <1>e, <1>s, <1>t, <1>f, <2>1
<1>4. CASE ReserveTokenCheck(r)
  <2>1. s[r].pc \in RaiseTail /\ UNCHANGED <<fund, rec>>
    BY <1>4 DEF ReserveTokenCheck, At, fundVars, RaiseTail
  <2>2. s'[r] = Reserved(s[r]) \/ \E p \in RaiseTail : Goto(r, p)
    BY <1>4, BecomeHere DEF ReserveTokenCheck, RaiseTail
  <2> QED
    BY <1>r, <1>i, <2>1, <2>2
<1>5. CASE ReserveTokenTake(r)
  <2>1. s[r].pc \in RaiseTail /\ UNCHANGED <<fund, rec>>
    BY <1>5 DEF ReserveTokenTake, At, fundVars, RaiseTail
  <2>2. s'[r] = Reserved(s[r]) \/ \E p \in RaiseTail : Goto(r, p)
    BY <1>5, BecomeHere DEF ReserveTokenTake, RaiseTail
  <2> QED
    BY <1>r, <1>i, <2>1, <2>2
<1>6. CASE ReserveRollback(r)
  <2>1. s[r].pc \in RaiseTail /\ UNCHANGED rec
    BY <1>6 DEF ReserveRollback, At, RaiseTail
  <2>2. UNCHANGED fund \/ MoveFund(r, s[r].source, -s[r].amount)
    BY <1>6 DEF ReserveRollback, fundVars
  <2>3. PICK i : s'[r] = [s[r] EXCEPT !.pc = "active", !.held = i]
    BY <1>6, BecomeHere DEF ReserveRollback
  <2>4. /\ s'[r].pc = "active" /\ s'[r].source = s[r].source /\ s'[r].attempts = s[r].attempts
        /\ s'[r].fallback = s[r].fallback /\ s'[r].pre = s[r].pre /\ s'[r].extra = s[r].extra
    BY <1>s, <2>3 DEF Sessions
  <2>5. /\ fund'[r]["subscription"] \in Int /\ fund'[r]["subscription"] >= 0
        /\ fund'[r]["wallet"] = fund[r]["wallet"] \/ s[r].source = "wallet"
        /\ s[r].source = "subscription" => fund'[r]["subscription"] >= s[r].pre
    BY <1>m, <1>s, <1>t, <1>f, <1>e, <1>w, <2>1, <2>2
  <2>6. "active" \notin RaiseTail
    BY DEF RaiseTail
  <2> QED
    BY <1>k, <1>t, <2>1, <2>4, <2>5, <2>6
<1> QED
  BY <1>1, <1>2, <1>3, <1>4, <1>5, <1>6 DEF ReserveStep

\* Settlement and refund subtract what is there.
LEMMA SubEnd ==
    ASSUME TypeOK, SubInvariant, NEW r \in Requests, OneAttempt(r), EndStep(r)
    PROVE  SubBacked(s'[r], fund'[r], rec'[r], r)
<1> DEFINE Goal == SubBacked(s'[r], fund'[r], rec'[r], r)
           Ends == {"active", "setFund", "setToken", "refFund", "refExtra", "refToken"}
<1>s. /\ s[r] \in Sessions /\ fund[r] \in [Sources -> Int]
      /\ fund[r]["subscription"] \in Int /\ fund[r]["wallet"] \in Int
      /\ rec[r] \in [status : {"none", "consumed", "refunded"}, amount : Nat]
      /\ rec[r].amount \in Nat /\ Cost[r] \in Nat
      /\ SubBacked(s[r], fund[r], rec[r], r)
  BY SubBefore
<1>t. /\ s[r].source \in Sources /\ s[r].amount \in Nat /\ s[r].pre \in Nat /\ s[r].held \in Int
      /\ s[r].extra \in Nat /\ s[r].attempts \in Nat /\ s[r].pc \in PCs
  BY SubBefore
<1>w. "wallet" \in Sources /\ "subscription" \in Sources /\ s[r].source \in {"wallet", "subscription"}
  BY <1>t DEF Sources
<1>f. fund[r]["subscription"] >= 0
  BY <1>s DEF SubBacked
<1>k. ASSUME s[r].pc \in Ends, s'[r].pc \in {"setFund", "setToken", "refFund", "refExtra", "refToken", "done"},
             s'[r].source = s[r].source, s'[r].attempts = s[r].attempts, s'[r].fallback = s[r].fallback,
             s[r].source = "wallet" => rec'[r].status = rec[r].status,
             fund'[r]["subscription"] >= 0,
             fund'[r]["wallet"] = fund[r]["wallet"] \/ s[r].source = "wallet",
             s'[r].pc = "setFund" /\ s[r].source = "subscription" => fund'[r]["subscription"] >= s'[r].pre,
             s'[r].pc = "refFund" /\ s[r].source = "subscription" =>
                 fund'[r]["subscription"] >= s'[r].extra + (IF rec'[r].status = "consumed" THEN rec'[r].amount ELSE 0),
             s'[r].pc = "refExtra" => fund'[r]["subscription"] >= s'[r].extra
      PROVE  Goal
  <2>1. /\ s[r].attempts >= 1
        /\ s[r].source = "wallet" => rec[r].status = "none"
        /\ Pref[r] = "subscription_only" => /\ fund[r]["wallet"] = 0
                                            /\ s[r].source = "subscription" /\ ~s[r].fallback
    BY <1>s, <1>k DEF SubBacked
  <2>2. s'[r].pc \notin Unfunded \cup RaiseTail \cup {"refused", "rollToken", "active", "resFund", "resCheck"}
    BY <1>k DEF Unfunded, RaiseTail
  <2> QED
    BY <1>k, <2>1, <2>2 DEF SubBacked
<1>g. ASSUME NEW p, Goto(r, p)
      PROVE  /\ s'[r].pc = p /\ s'[r].source = s[r].source /\ s'[r].attempts = s[r].attempts
             /\ s'[r].fallback = s[r].fallback
             /\ s'[r].pre = s[r].pre /\ s'[r].extra = s[r].extra
  <2>1. s'[r] = [s[r] EXCEPT !.pc = p]
    BY <1>g, BecomeHere DEF Goto
  <2> QED
    BY <1>s, <2>1 DEF Sessions
<1>m. ASSUME NEW x \in Sources, NEW n \in Int, MoveFund(r, x, n)
      PROVE  /\ x = "subscription" => /\ fund'[r]["subscription"] = fund[r]["subscription"] + n
                                      /\ fund'[r]["wallet"] = fund[r]["wallet"]
             /\ x = "wallet" => fund'[r]["subscription"] = fund[r]["subscription"]
  <2>1. fund'[r] = [fund[r] EXCEPT ![x] = fund[r][x] + n]
    BY <1>m, MoveFundHere
  <2> QED
    BY <1>s, <1>w, <2>1
<1>a. ASSUME s[r].pc = "active", s[r].source = "subscription"
      PROVE  /\ fund[r]["subscription"] >= s[r].pre
             /\ rec[r].status = "consumed" /\ s[r].pre = rec[r].amount + s[r].extra
  BY <1>s, <1>a DEF SubBacked
<1>1. CASE Settle(r)
  <2>1. s[r].pc = "active" /\ UNCHANGED <<fund, rec>>
    BY <1>1 DEF Settle, At, fundVars
  <2>2. \/ s'[r] = [s[r] EXCEPT !.pc = "done", !.ok = TRUE, !.settled = TRUE]
        \/ s'[r] = [s[r] EXCEPT !.pc = "setFund", !.ok = TRUE]
    BY <1>1, BecomeHere DEF Settle
  <2>3. /\ s'[r].pc \in {"done", "setFund"} /\ s'[r].source = s[r].source
        /\ s'[r].attempts = s[r].attempts /\ s'[r].fallback = s[r].fallback /\ s'[r].pre = s[r].pre
    <3>1. CASE s'[r] = [s[r] EXCEPT !.pc = "done", !.ok = TRUE, !.settled = TRUE]
      BY <1>s, <3>1 DEF Sessions
    <3>2. CASE s'[r] = [s[r] EXCEPT !.pc = "setFund", !.ok = TRUE]
      BY <1>s, <3>2 DEF Sessions
    <3> QED
      BY <2>2, <3>1, <3>2
  <2> QED
    BY <1>k, <1>a, <1>f, <2>1, <2>3
<1>2. CASE SettleFund(r)
  <2> DEFINE delta == Cost[r] - s[r].pre
  <2>1. s[r].pc = "setFund" /\ UNCHANGED rec
    BY <1>2 DEF SettleFund, At
  <2>2. /\ UNCHANGED fund \/ MoveFund(r, s[r].source, delta)
        /\ \E p \in {"setToken", "done"} : Goto(r, p)
    BY <1>2 DEF SettleFund, fundVars
  <2>3. s[r].source = "subscription" => fund[r]["subscription"] >= s[r].pre
    BY <1>s, <2>1 DEF SubBacked
  <2>4. delta \in Int /\ (s[r].source = "subscription" => fund[r]["subscription"] + delta >= 0)
    BY <1>s, <1>t, <1>f, <2>3
  <2> HIDE DEF delta
  <2>5. /\ fund'[r]["subscription"] >= 0
        /\ fund'[r]["wallet"] = fund[r]["wallet"] \/ s[r].source = "wallet"
    BY <1>f, <1>m, <1>w, <2>2, <2>4
  <2> QED
    BY <1>k, <1>g, <2>1, <2>2, <2>5
<1>3. CASE SettleToken(r)
  <2>1. s[r].pc = "setToken" /\ UNCHANGED <<fund, rec>>
    BY <1>3 DEF SettleToken, At, fundVars
  <2>2. s'[r] = [s[r] EXCEPT !.pc = "done", !.settled = TRUE]
    BY <1>3, BecomeHere DEF SettleToken
  <2>3. /\ s'[r].pc = "done" /\ s'[r].source = s[r].source
        /\ s'[r].attempts = s[r].attempts /\ s'[r].fallback = s[r].fallback
    BY <1>s, <2>2 DEF Sessions
  <2> QED
    BY <1>k, <1>f, <2>1, <2>3
<1>4. CASE Refund(r)
  <2>1. s[r].pc = "active" /\ UNCHANGED <<fund, rec>>
    BY <1>4 DEF Refund, At, fundVars
  <2>2. PICK p \in {"refFund", "done"} : Goto(r, p)
    BY <1>4 DEF Refund
  <2>3. /\ s'[r].pc = p /\ s'[r].source = s[r].source /\ s'[r].attempts = s[r].attempts
        /\ s'[r].fallback = s[r].fallback /\ s'[r].extra = s[r].extra
    BY <1>g, <2>2
  <2>4. s[r].source = "subscription" =>
          fund[r]["subscription"] >= s[r].extra + (IF rec[r].status = "consumed" THEN rec[r].amount ELSE 0)
    BY <1>a, <1>s, <1>t, <2>1
  <2> QED
    BY <1>k, <1>f, <2>1, <2>2, <2>3, <2>4
<1>5. CASE WalletRefund(r)
  <2>1. s[r].pc = "refFund" /\ s[r].source = "wallet" /\ UNCHANGED rec
    BY <1>5 DEF WalletRefund, At
  <2>2. /\ UNCHANGED fund \/ MoveFund(r, "wallet", -s[r].held)
        /\ Goto(r, "refToken")
    BY <1>5 DEF WalletRefund, fundVars
  <2>3. -s[r].held \in Int
    BY <1>t
  <2>4. fund'[r]["subscription"] = fund[r]["subscription"]
    BY <1>m, <1>w, <2>2, <2>3
  <2> QED
    BY <1>k, <1>g, <1>f, <2>1, <2>2, <2>4
<1>6. CASE SubRefund(r)
  <2>1. s[r].pc = "refFund" /\ s[r].source = "subscription"
    BY <1>6 DEF SubRefund, At
  <2>2. \/ UNCHANGED <<fund, rec>>
        \/ /\ rec[r].status = "consumed" /\ MoveFund(r, "subscription", -rec[r].amount)
           /\ rec' = [rec EXCEPT ![r].status = "refunded"]
    BY <1>6 DEF SubRefund, RefundClaimed, fundVars
  <2>3. fund[r]["subscription"] >= s[r].extra + (IF rec[r].status = "consumed" THEN rec[r].amount ELSE 0)
    BY <1>s, <2>1 DEF SubBacked
  <2>4. /\ fund'[r]["subscription"] >= s[r].extra + (IF rec'[r].status = "consumed" THEN rec'[r].amount ELSE 0)
        /\ fund'[r]["subscription"] >= s[r].extra
        /\ fund'[r]["subscription"] \in Int
        /\ fund'[r]["wallet"] = fund[r]["wallet"]
    <3>1. CASE UNCHANGED <<fund, rec>>
      BY <1>s, <1>t, <2>3, <3>1
    <3>2. CASE /\ rec[r].status = "consumed" /\ MoveFund(r, "subscription", -rec[r].amount)
               /\ rec' = [rec EXCEPT ![r].status = "refunded"]
      <4>1. rec'[r].status = "refunded"
        BY <3>2 DEF TypeOK
      <4>2. /\ fund'[r]["subscription"] = fund[r]["subscription"] + (-rec[r].amount)
            /\ fund'[r]["wallet"] = fund[r]["wallet"]
        BY <1>m, <1>w, <1>s, <3>2
      <4> QED
        BY <1>s, <1>t, <2>3, <3>2, <4>1, <4>2
    <3> QED
      BY <2>2, <3>1, <3>2
  <2>5. \/ s'[r] = [s[r] EXCEPT !.tries = s[r].tries + 1]
        \/ s'[r] = [s[r] EXCEPT !.pc = "refExtra"]
    BY <1>6, BecomeHere DEF SubRefund, Goto
  <2>6. /\ s'[r].pc \in {"refFund", "refExtra"} /\ s'[r].source = s[r].source
        /\ s'[r].attempts = s[r].attempts /\ s'[r].fallback = s[r].fallback /\ s'[r].extra = s[r].extra
    <3>1. CASE s'[r] = [s[r] EXCEPT !.tries = s[r].tries + 1]
      BY <1>s, <2>1, <3>1 DEF Sessions
    <3>2. CASE s'[r] = [s[r] EXCEPT !.pc = "refExtra"]
      BY <1>s, <3>2 DEF Sessions
    <3> QED
      BY <2>5, <3>1, <3>2
  <2>7. fund'[r]["subscription"] >= 0
    BY <1>t, <2>4
  <2> QED
    BY <1>k, <2>1, <2>4, <2>6, <2>7
<1>7. CASE ExtraRefund(r)
  <2>1. s[r].pc = "refExtra" /\ UNCHANGED rec
    BY <1>7 DEF ExtraRefund, At
  <2>2. /\ UNCHANGED fund \/ MoveFund(r, "subscription", -s[r].extra)
        /\ Goto(r, "refToken")
    BY <1>7 DEF ExtraRefund, fundVars
  <2>3. fund[r]["subscription"] >= s[r].extra /\ -s[r].extra \in Int
    BY <1>s, <1>t, <2>1 DEF SubBacked
  <2>4. fund'[r]["subscription"] >= 0 /\ fund'[r]["wallet"] = fund[r]["wallet"]
    BY <1>m, <1>w, <1>s, <1>t, <1>f, <2>2, <2>3
  <2> QED
    BY <1>k, <1>g, <2>1, <2>2, <2>4
<1>8. CASE TokenRefund(r)
  <2>1. s[r].pc = "refToken" /\ UNCHANGED <<fund, rec>> /\ Goto(r, "done")
    BY <1>8 DEF TokenRefund, At, fundVars
  <2> QED
    BY <1>k, <1>g, <1>f, <2>1
<1> QED
  BY <1>1, <1>2, <1>3, <1>4, <1>5, <1>6, <1>7, <1>8 DEF EndStep

\* A request that asks for one session stays backed.
LEMMA SubBackedStep == TypeOK /\ SubInvariant /\ [Next]_vars => SubInvariant'
<1> SUFFICES ASSUME TypeOK, SubInvariant, [Next]_vars, NEW q \in Requests, OneAttempt(q)
             PROVE  SubBacked(s'[q], fund'[q], rec'[q], q)
  BY DEF SubInvariant, SubBacked, OneAttempt
<1>1. SubBacked(s[q], fund[q], rec[q], q) /\ s[q] \in Sessions
  BY SubBefore
<1>2. ASSUME NEW r \in Requests, Step(r)
      PROVE  SubBacked(s'[q], fund'[q], rec'[q], q)
  <2>1. CASE q = r
    BY <1>2, <2>1, SubOpening, SubReserve, SubEnd DEF Step
  <2>2. CASE q # r
    BY <1>1, <1>2, <2>2, StepOnly DEF Only
  <2> QED
    BY <2>1, <2>2
<1>3. ASSUME Tick \/ Expire \/ ResetLoad \/ ResetClaim \/ UNCHANGED vars
      PROVE  SubBacked(s'[q], fund'[q], rec'[q], q)
  BY <1>1, <1>3 DEF Tick, Expire, ResetLoad, ResetClaim, vars, fundVars
<1>4. ASSUME Crash PROVE SubBacked(s'[q], fund'[q], rec'[q], q)
  <2>1. UNCHANGED <<fund, rec>> /\ s'[q] \in {s[q], [s[q] EXCEPT !.pc = "dead"]}
    BY <1>4 DEF Crash, fundVars
  <2>2. CASE s'[q] = [s[q] EXCEPT !.pc = "dead"]
    <3>1. s'[q].pc = "dead"
      BY <1>1, <2>2 DEF Sessions
    <3> QED
      BY <1>1, <2>1, <3>1 DEF SubBacked, Unfunded, RaiseTail
  <2> QED
    BY <1>1, <2>1, <2>2
<1> QED
  BY <1>2, <1>3, <1>4 DEF Next, Step

\* It is backed in every reachable state.
LEMMA SubBackedCorrect == Spec => []SubInvariant
<1>1. Init => SubInvariant
  <2> SUFFICES ASSUME Init, NEW r \in Requests
               PROVE  SubBacked(s[r], fund[r], rec[r], r)
    BY DEF SubInvariant
  <2>1. s[r] = NewSession /\ fund[r] = [y \in Sources |-> 0] /\ rec[r] = NoRecord
    BY DEF Init
  <2> QED
    BY <2>1 DEF SubBacked, NewSession, NoRecord, Unfunded, RaiseTail, Sources
<1> QED
  BY <1>1, SubBackedStep, TypeCorrect, PTL DEF Spec

\* A request that asks for one session gives back to the subscription no more
\* than it took, also when it raises its reservation and whatever fails.
THEOREM SubscriptionSafe ==
    Spec => [](\A r \in Requests : OneAttempt(r) => fund[r]["subscription"] >= 0)
<1>1. SubInvariant => \A r \in Requests : OneAttempt(r) => fund[r]["subscription"] >= 0
  BY DEF SubInvariant, SubBacked
<1> QED
  BY <1>1, SubBackedCorrect, PTL

\* The requests of which FundNeverPays can be relied on.
Sound(r) == FixedPrice(r) \/ (OneAttempt(r) /\ Pref[r] = "subscription_only")

\* The funding sources are safe when every request asks at one price, or for one
\* session of the subscription alone, raised or not: no failure of preConsume,
\* Reserve, Settle or Refund makes them pay for a request.
THEOREM FundSafe == Spec => []((\A r \in Requests : Sound(r)) => FundNeverPays)
<1>1. /\ SubInvariant
      /\ \A r \in Requests : FixedPrice(r) => \A x \in Sources : fund[r][x] >= 0
      => ((\A r \in Requests : Sound(r)) => FundNeverPays)
  BY DEF SubInvariant, SubBacked, FundNeverPays, Sound, Sources
<1> QED
  BY <1>1, SubBackedCorrect, FixedPriceSafe, PTL

----------------------------------------------------------------------------
(* What the requests have taken together: a sum over a finite set. *)

\* Every set of natural numbers has a least member.
LEMMA LeastMember ==
    ASSUME NEW T, T \subseteq Nat, T # {}
    PROVE  \E x \in T : \A y \in T : x <= y
<1>1. PICK x \in T : \A y \in T : ~ (<<y, x>> \in OpToRel(<, Nat))
  BY NatLessThanWellFounded, WFMin
<1>2. \A y \in T : ~(y < x)
  BY <1>1 DEF OpToRel
<1> QED
  BY <1>2

\* The sum of UsedExplained, of any amounts.
Taken(f) == MapThenSumSet(LAMBDA r : f[r].subscription, Requests)

\* The member that the sum takes first.
Pick(S) == CHOOSE r \in S : TRUE

\* g adds up what the requests of each set in D have taken.
Sums(g, f, D) ==
    g = [S \in D |-> IF S = {} THEN 0 ELSE f[Pick(S)].subscription + g[S \ {Pick(S)}]]

Small(n) == {S \in SUBSET Requests : Cardinality(S) <= n}

\* A member is picked.
LEMMA PickIn ==
    ASSUME NEW S, S # {}
    PROVE  Pick(S) \in S
  BY DEF Pick

\* Sets of requests are finite, and one request less makes a smaller set.
LEMMA SmallSets ==
    ASSUME NEW S \in SUBSET Requests
    PROVE  /\ IsFiniteSet(S) /\ Cardinality(S) \in Nat
           /\ Cardinality(S) = 0 <=> S = {}
           /\ S # {} => /\ S \ {Pick(S)} \in SUBSET Requests
                        /\ Cardinality(S \ {Pick(S)}) = Cardinality(S) - 1
<1>1. IsFiniteSet(S)
  BY RequestAssumption, FS_Subset
<1>2. Cardinality(S) \in Nat /\ (Cardinality(S) = 0 <=> S = {})
  BY <1>1, FS_CardinalityType, FS_EmptySet
<1>3. ASSUME S # {} PROVE Cardinality(S \ {Pick(S)}) = Cardinality(S) - 1
  <2>1. Pick(S) \in S
    BY <1>3, PickIn
  <2> QED
    BY <1>1, <2>1, FS_RemoveElement
<1> QED
  BY <1>1, <1>2, <1>3

\* The recursive sum is defined on all sets of requests: the least size without
\* one would have a smaller one to start from.
LEMMA SumsExist ==
    ASSUME NEW f
    PROVE  \E g : Sums(g, f, SUBSET Requests)
<1> DEFINE Bad == {n \in Nat : ~\E g : Sums(g, f, Small(n))}
<1>1. Bad = {}
  <2> SUFFICES ASSUME Bad # {} PROVE FALSE
    OBVIOUS
  <2>1. PICK n \in Bad : \A m \in Bad : n <= m
    BY LeastMember
  <2>2. CASE n = 0
    <3>1. ASSUME NEW S \in Small(0) PROVE S = {}
      <4>1. S \in SUBSET Requests /\ Cardinality(S) <= 0
        BY DEF Small
      <4>2. Cardinality(S) \in Nat /\ (Cardinality(S) = 0 <=> S = {})
        BY <4>1, SmallSets, Zenon
      <4>3. Cardinality(S) = 0
        BY <4>1, <4>2
      <4> QED
        BY <4>2, <4>3, Zenon
    <3>2. Sums([S \in Small(0) |-> 0], f, Small(0))
      BY <3>1 DEF Sums
    <3> QED
      BY <2>1, <2>2, <3>2
  <2>3. CASE n # 0
    <3>1. n - 1 \in Nat /\ n - 1 \notin Bad
      BY <2>1, <2>3
    <3>2. PICK g : Sums(g, f, Small(n - 1))
      BY <3>1
    <3> DEFINE h == [S \in Small(n) |-> IF S = {} THEN 0 ELSE f[Pick(S)].subscription + g[S \ {Pick(S)}]]
    <3>3. ASSUME NEW S \in Small(n - 1) PROVE S \in Small(n)
      <4>1. S \in SUBSET Requests /\ Cardinality(S) <= n - 1 /\ Cardinality(S) \in Nat
        BY SmallSets DEF Small
      <4> QED
        BY <2>1, <4>1 DEF Small
    <3>4. \A S \in Small(n - 1) :
              g[S] = IF S = {} THEN 0 ELSE f[Pick(S)].subscription + g[S \ {Pick(S)}]
      BY <3>2, Zenon DEF Sums
    <3>5. \A S \in Small(n - 1) : h[S] = g[S]
      BY <3>3, <3>4
    <3>6. \A S \in Small(n) : S # {} => S \ {Pick(S)} \in Small(n - 1)
      BY SmallSets DEF Small
    <3>7. \A S \in Small(n) :
              h[S] = IF S = {} THEN 0 ELSE f[Pick(S)].subscription + h[S \ {Pick(S)}]
      BY <3>5, <3>6
    <3>8. h = [S \in Small(n) |-> IF S = {} THEN 0 ELSE f[Pick(S)].subscription + h[S \ {Pick(S)}]]
      BY <3>7
    <3>9. Sums(h, f, Small(n))
      BY <3>8, Zenon DEF Sums
    <3> QED
      BY <2>1, <3>9
  <2> QED
    BY <2>2, <2>3
<1>2. Cardinality(Requests) \in Nat
  BY RequestAssumption, FS_CardinalityType
<1>3. Small(Cardinality(Requests)) = SUBSET Requests
  BY RequestAssumption, FS_Subset DEF Small
<1>4. \E g : Sums(g, f, Small(Cardinality(Requests)))
  BY <1>1, <1>2
<1> QED
  BY <1>3, <1>4, Zenon

\* What MapThenSumSet computes is that sum.
LEMMA TakenSums ==
    ASSUME NEW f
    PROVE  \E g : Sums(g, f, SUBSET Requests) /\ Taken(f) = g[Requests]
<1>0. PICK g : Sums(g, f, SUBSET Requests)
  BY SumsExist
<1>1. g = [S \in SUBSET Requests |->
            IF S = {} THEN 0
            ELSE f[CHOOSE r \in S : TRUE].subscription + g[S \ {CHOOSE r \in S : TRUE}]]
  BY <1>0, Zenon DEF Sums, Pick
<1>2. \E h : /\ h = [S \in SUBSET Requests |->
                   IF S = {} THEN 0
                   ELSE f[CHOOSE r \in S : TRUE].subscription + h[S \ {CHOOSE r \in S : TRUE}]]
             /\ Taken(f) = h[Requests]
  BY <1>1, Zenon DEF Taken, MapThenSumSet, MapThenFoldSet
<1> QED
  BY <1>2, Zenon DEF Sums, Pick

\* When one request takes n more, so do all together.
LEMMA TakenChange ==
    ASSUME NEW f \in [Requests -> [Sources -> Int]], NEW h \in [Requests -> [Sources -> Int]],
           NEW r \in Requests, NEW n \in Int,
           h[r].subscription = f[r].subscription + n,
           \A q \in Requests \ {r} : h[q].subscription = f[q].subscription
    PROVE  Taken(f) \in Int /\ Taken(h) = Taken(f) + n
<1>1. PICK F : Sums(F, f, SUBSET Requests) /\ Taken(f) = F[Requests]
  BY TakenSums
<1>2. PICK H : Sums(H, h, SUBSET Requests) /\ Taken(h) = H[Requests]
  BY TakenSums
<1> DEFINE Fits(S) == F[S] \in Int /\ H[S] = F[S] + (IF r \in S THEN n ELSE 0)
           Bad == {m \in Nat : \E S \in SUBSET Requests : Cardinality(S) = m /\ ~Fits(S)}
<1>3. Bad = {}
  <2> SUFFICES ASSUME Bad # {} PROVE FALSE
    OBVIOUS
  <2>1. PICK m \in Bad : \A k \in Bad : m <= k
    BY LeastMember
  <2>2. PICK S \in SUBSET Requests : Cardinality(S) = m /\ ~Fits(S)
    BY <2>1
  <2>3. /\ F[S] = IF S = {} THEN 0 ELSE f[Pick(S)].subscription + F[S \ {Pick(S)}]
        /\ H[S] = IF S = {} THEN 0 ELSE h[Pick(S)].subscription + H[S \ {Pick(S)}]
    BY <1>1, <1>2, Zenon DEF Sums
  <2>4. S # {}
    BY <2>2, <2>3
  <2> DEFINE p == Pick(S)
             R == S \ {p}
  <2>5. p \in S /\ p \in Requests /\ R \in SUBSET Requests
    BY <2>4, PickIn
  <2>6. Cardinality(R) = m - 1 /\ m - 1 \in Nat
    <3>1. /\ Cardinality(S) \in Nat
          /\ Cardinality(S) = 0 <=> S = {}
          /\ Cardinality(S \ {Pick(S)}) = Cardinality(S) - 1
      BY <2>4, SmallSets, Zenon
    <3> QED
      BY <2>2, <2>4, <3>1
  <2>7. Fits(R)
    BY <2>1, <2>5, <2>6
  <2>8. F[S] = f[p].subscription + F[R] /\ H[S] = h[p].subscription + H[R]
    BY <2>3, <2>4
  <2>9. f[p].subscription \in Int /\ h[p].subscription = f[p].subscription + (IF p = r THEN n ELSE 0)
    BY <2>5 DEF Sources
  <2>10. r \in S <=> r = p \/ r \in R
    BY <2>5
  <2>11. r = p => r \notin R
    OBVIOUS
  <2> HIDE DEF p, R
  <2>12. Fits(S)
    BY <2>7, <2>8, <2>9, <2>10, <2>11
  <2> QED
    BY <2>2, <2>12
<1>4. Fits(Requests)
  BY <1>3, SmallSets
<1> QED
  BY <1>1, <1>2, <1>4

\* A sum of amounts of a set that holds 0 and is closed under addition is in it.
LEMMA TakenIn ==
    ASSUME NEW f, NEW T, 0 \in T, \A a, b \in T : a + b \in T,
           \A r \in Requests : f[r].subscription \in T
    PROVE  Taken(f) \in T
<1>1. PICK F : Sums(F, f, SUBSET Requests) /\ Taken(f) = F[Requests]
  BY TakenSums
<1> DEFINE Bad == {m \in Nat : \E S \in SUBSET Requests : Cardinality(S) = m /\ F[S] \notin T}
<1>2. Bad = {}
  <2> SUFFICES ASSUME Bad # {} PROVE FALSE
    OBVIOUS
  <2>1. PICK m \in Bad : \A k \in Bad : m <= k
    BY LeastMember
  <2>2. PICK S \in SUBSET Requests : Cardinality(S) = m /\ F[S] \notin T
    BY <2>1
  <2>3. F[S] = IF S = {} THEN 0 ELSE f[Pick(S)].subscription + F[S \ {Pick(S)}]
    BY <1>1, Zenon DEF Sums
  <2>4. S # {}
    BY <2>2, <2>3
  <2>5. Pick(S) \in Requests /\ S \ {Pick(S)} \in SUBSET Requests
    BY <2>4, PickIn
  <2>6. Cardinality(S \ {Pick(S)}) = m - 1 /\ m - 1 \in Nat
    <3>1. /\ Cardinality(S) \in Nat
          /\ Cardinality(S) = 0 <=> S = {}
          /\ Cardinality(S \ {Pick(S)}) = Cardinality(S) - 1
      BY <2>4, SmallSets, Zenon
    <3> QED
      BY <2>2, <2>4, <3>1
  <2>7. F[S \ {Pick(S)}] \in T
    BY <2>1, <2>5, <2>6
  <2> QED
    BY <2>2, <2>3, <2>4, <2>5, <2>7, Zenon
<1>3. Cardinality(Requests) \in Nat
  BY SmallSets
<1>4. F[Requests] \in T
  BY <1>2, <1>3
<1> QED
  BY <1>1, <1>4

\* Who take nothing back have taken something together.
LEMMA TakenPositive ==
    ASSUME NEW f \in [Requests -> [Sources -> Int]], \A r \in Requests : f[r].subscription >= 0
    PROVE  Taken(f) \in Nat
<1>1. \A r \in Requests : f[r].subscription \in Nat
  BY DEF Sources
<1>2. 0 \in Nat /\ \A a, b \in Nat : a + b \in Nat
  OBVIOUS
<1> QED
  BY <1>1, <1>2, TakenIn, Zenon

\* Who have taken nothing have taken nothing together.
LEMMA TakenNothing ==
    ASSUME NEW f, \A r \in Requests : f[r].subscription = 0
    PROVE  Taken(f) = 0
<1> DEFINE T == {0}
<1>1. /\ 0 \in T /\ \A r \in Requests : f[r].subscription \in T
      /\ \A a, b \in T : a + b \in T
  OBVIOUS
<1> HIDE DEF T
<1>2. Taken(f) \in T
  BY <1>1, TakenIn, Zenon
<1> QED
  BY <1>2 DEF T

----------------------------------------------------------------------------
(* What the subscription says is used. *)

\* No request has given back to the subscription more than it took.
SubNeverPays == \A r \in Requests : fund[r]["subscription"] >= 0

\* As UsedExplained, by the name of the sum.
UsedIs == used <= Taken(fund) /\ (resets = 0 => used = Taken(fund))

\* A step of the subscription's amounts: it and the requests' amounts move
\* together, down to zero at most.
LEMMA UsedMove ==
    ASSUME TypeOK, TypeOK', UsedIs, SubNeverPays', NEW r \in Requests, NEW n \in Int,
           used' = UsedAfter(n), resets' = resets,
           fund'[r]["subscription"] = fund[r]["subscription"] + n,
           \A q \in Requests \ {r} : fund'[q] = fund[q]
    PROVE  UsedIs'
<1>1. /\ fund \in [Requests -> [Sources -> Int]] /\ fund' \in [Requests -> [Sources -> Int]]
      /\ used \in Nat
  BY DEF TypeOK
<1>2. fund'[r].subscription = fund[r].subscription + n
  OBVIOUS
<1>3. \A q \in Requests \ {r} : fund'[q].subscription = fund[q].subscription
  OBVIOUS
<1>4. Taken(fund) \in Int /\ Taken(fund') = Taken(fund) + n
  BY <1>1, <1>2, <1>3, TakenChange
<1>5. Taken(fund') \in Nat
  BY <1>1, TakenPositive DEF SubNeverPays
<1>6. used' <= Taken(fund') /\ (resets' = 0 => used' = Taken(fund'))
  BY <1>1, <1>4, <1>5 DEF UsedIs, UsedAfter
<1> QED
  BY <1>6 DEF UsedIs

\* No other change.
LEMMA UsedSame ==
    ASSUME TypeOK, TypeOK', UsedIs, NEW r \in Requests, used' = used, resets' = resets,
           fund'[r]["subscription"] = fund[r]["subscription"],
           \A q \in Requests \ {r} : fund'[q] = fund[q]
    PROVE  UsedIs'
<1>1. /\ fund \in [Requests -> [Sources -> Int]] /\ fund' \in [Requests -> [Sources -> Int]]
  BY DEF TypeOK
<1>2. fund'[r].subscription = fund[r].subscription + 0
  BY <1>1 DEF Sources
<1>3. \A q \in Requests \ {r} : fund'[q].subscription = fund[q].subscription
  OBVIOUS
<1>z. 0 \in Int
  OBVIOUS
<1>4. Taken(fund) \in Int /\ Taken(fund') = Taken(fund) + 0
  BY <1>1, <1>2, <1>3, <1>z, TakenChange, Zenon
<1>5. used' <= Taken(fund') /\ (resets' = 0 => used' = Taken(fund'))
  BY <1>4 DEF UsedIs
<1> QED
  BY <1>5 DEF UsedIs

\* Every step of a request.
LEMMA UsedStep ==
    ASSUME TypeOK, TypeOK', UsedIs, SubNeverPays, SubNeverPays', NEW r \in Requests, Step(r)
    PROVE  UsedIs'
<1>s. /\ s[r] \in Sessions /\ fund[r] \in [Sources -> Int] /\ Cost[r] \in Nat
      /\ s[r].source \in Sources /\ s[r].amount \in Nat /\ s[r].pre \in Nat
      /\ s[r].held \in Int /\ s[r].extra \in Nat /\ rec[r].amount \in Nat
      /\ used \in Nat /\ resets \in Nat
  BY FieldTypes, RequestAssumption DEF TypeOK
<1>o. \A q \in Requests \ {r} : fund'[q] = fund[q]
  BY StepOnly DEF Only
<1>m. ASSUME NEW x \in Sources, NEW n \in Int, MoveFund(r, x, n), resets' = resets PROVE UsedIs'
  <2>1. fund'[r] = [fund[r] EXCEPT ![x] = fund[r][x] + n]
    BY <1>m, MoveFundHere
  <2>2. CASE x = "wallet"
    <3>1. fund'[r]["subscription"] = fund[r]["subscription"] /\ used' = used
      BY <1>s, <1>m, <2>1, <2>2 DEF MoveFund, Sources
    <3> QED
      BY <1>m, <1>o, <3>1, UsedSame
  <2>3. CASE x = "subscription"
    <3>1. fund'[r]["subscription"] = fund[r]["subscription"] + n /\ used' = UsedAfter(n)
      BY <1>s, <1>m, <2>1, <2>3 DEF MoveFund, Sources
    <3> QED
      BY <1>m, <1>o, <3>1, UsedMove
  <2> QED
    BY <2>2, <2>3 DEF Sources
<1>u. ASSUME UNCHANGED <<fund, used, resets>> PROVE UsedIs'
  BY <1>u DEF UsedIs
<1>1. ASSUME Begin(r) \/ Retry(r) \/ WalletCheck(r) \/ TokenCheck(r) \/ TokenTake(r) \/ SubLoad(r)
             \/ RollbackToken(r) \/ Reserve(r) \/ ReserveCheck(r) \/ ReserveTokenCheck(r)
             \/ ReserveTokenTake(r) \/ Settle(r) \/ SettleToken(r) \/ Refund(r) \/ TokenRefund(r)
      PROVE  UsedIs'
  BY <1>1, <1>u DEF Begin, Retry, WalletCheck, TokenCheck, TokenTake, SubLoad, RollbackToken, Reserve,
     ReserveCheck, ReserveTokenCheck, ReserveTokenTake, Settle, SettleToken, Refund, TokenRefund,
     fundVars, subVars
<1>2. CASE WalletTake(r)
  <2>1. resets' = resets /\ (UNCHANGED <<fund, used>> \/ MoveFund(r, "wallet", s[r].amount))
    BY <1>2 DEF WalletTake, fundVars, subVars
  <2> QED
    BY <1>m, <1>s, <1>u, <2>1 DEF Sources
<1>3. CASE SubTake(r)
  <2>1. CASE UNCHANGED <<fund, used, resets>>
    BY <1>u, <2>1
  <2>2. ASSUME NEW won \in BOOLEAN,
               used' = (IF won THEN 0 ELSE used) + s[r].amount,
               fund' = [fund EXCEPT ![r].subscription = @ + s[r].amount],
               resets' = IF won THEN resets + 1 ELSE resets
        PROVE  UsedIs'
    <3>1. fund \in [Requests -> [Sources -> Int]] /\ fund' \in [Requests -> [Sources -> Int]]
      BY DEF TypeOK
    <3>2. fund'[r].subscription = fund[r].subscription + s[r].amount
      BY <1>s, <2>2, <3>1 DEF Sources
    <3>3. \A q \in Requests \ {r} : fund'[q].subscription = fund[q].subscription
      BY <1>o
    <3>z. s[r].amount \in Int
      BY <1>s
    <3>4. Taken(fund') = Taken(fund) + s[r].amount
      BY <3>1, <3>2, <3>3, <3>z, TakenChange, Zenon
    <3>5. Taken(fund) \in Nat
      BY <3>1, TakenPositive DEF SubNeverPays
    <3>6. used' <= Taken(fund') /\ (resets' = 0 => used' = Taken(fund'))
      BY <1>s, <2>2, <3>4, <3>5 DEF UsedIs
    <3> QED
      BY <3>6 DEF UsedIs
  <2>3. \/ UNCHANGED <<fund, used, resets>>
        \/ \E won \in BOOLEAN :
              /\ used' = (IF won THEN 0 ELSE used) + s[r].amount
              /\ fund' = [fund EXCEPT ![r].subscription = @ + s[r].amount]
              /\ resets' = IF won THEN resets + 1 ELSE resets
    <3>1. ResetWon(s[r].snap.cur, s[r].snap.now) \in BOOLEAN
      BY DEF ResetWon
    <3> QED
      BY <1>3, <3>1 DEF SubTake, fundVars, Incremented
  <2> QED
    BY <2>1, <2>2, <2>3
<1>4. CASE ReserveFund(r)
  <2>1. resets' = resets /\ (UNCHANGED <<fund, used>> \/ MoveFund(r, s[r].source, s[r].amount))
    BY <1>4 DEF ReserveFund, fundVars, subVars
  <2> QED
    BY <1>m, <1>s, <1>u, <2>1
<1>5. CASE ReserveRollback(r)
  <2>1. resets' = resets /\ (UNCHANGED <<fund, used>> \/ MoveFund(r, s[r].source, -s[r].amount))
    BY <1>5 DEF ReserveRollback, fundVars, subVars
  <2>2. -s[r].amount \in Int
    BY <1>s
  <2> QED
    BY <1>m, <1>s, <1>u, <2>1, <2>2
<1>6. CASE SettleFund(r)
  <2>1. resets' = resets /\ (UNCHANGED <<fund, used>> \/ MoveFund(r, s[r].source, Cost[r] - s[r].pre))
    BY <1>6 DEF SettleFund, fundVars, subVars
  <2>2. Cost[r] - s[r].pre \in Int
    BY <1>s
  <2> QED
    BY <1>m, <1>s, <1>u, <2>1, <2>2
<1>7. CASE WalletRefund(r)
  <2>1. resets' = resets /\ (UNCHANGED <<fund, used>> \/ MoveFund(r, "wallet", -s[r].held))
    BY <1>7 DEF WalletRefund, fundVars, subVars
  <2>2. -s[r].held \in Int /\ "wallet" \in Sources
    BY <1>s DEF Sources
  <2> QED
    BY <1>m, <1>u, <2>1, <2>2
<1>8. CASE SubRefund(r)
  <2>1. resets' = resets /\ (UNCHANGED <<fund, used>> \/ MoveFund(r, "subscription", -rec[r].amount))
    BY <1>8 DEF SubRefund, fundVars, subVars
  <2>2. -rec[r].amount \in Int /\ "subscription" \in Sources
    BY <1>s DEF Sources
  <2> QED
    BY <1>m, <1>u, <2>1, <2>2
<1>9. CASE ExtraRefund(r)
  <2>1. resets' = resets /\ (UNCHANGED <<fund, used>> \/ MoveFund(r, "subscription", -s[r].extra))
    BY <1>9 DEF ExtraRefund, fundVars, subVars
  <2>2. -s[r].extra \in Int /\ "subscription" \in Sources
    BY <1>s DEF Sources
  <2> QED
    BY <1>m, <1>u, <2>1, <2>2
<1> QED
  BY <1>1, <1>2, <1>3, <1>4, <1>5, <1>6, <1>7, <1>8, <1>9
     DEF Step, PreConsumeStep, ReserveStep, EndStep

\* Every step.  A reset clears the used amount and not what was taken.
LEMMA UsedNext ==
    ASSUME TypeOK, TypeOK', UsedIs, SubNeverPays, SubNeverPays', [Next]_vars
    PROVE  UsedIs'
<1>1. ASSUME Tick \/ Expire \/ ResetLoad \/ Crash \/ UNCHANGED vars PROVE UsedIs'
  <2>1. UNCHANGED <<fund, used, resets>>
    BY <1>1 DEF Tick, Expire, ResetLoad, Crash, vars, fundVars
  <2> QED
    BY <2>1 DEF UsedIs
<1>2. CASE ResetClaim
  <2>1. fund' = fund /\ resets \in Nat
        /\ (UNCHANGED <<used, resets>> \/ (used' = 0 /\ resets' = resets + 1))
    BY <1>2 DEF ResetClaim, TypeOK
  <2>2. Taken(fund) \in Nat
    BY TakenPositive DEF TypeOK, SubNeverPays
  <2>3. used' <= Taken(fund) /\ (resets' = 0 => used' = Taken(fund))
    BY <2>1, <2>2 DEF UsedIs
  <2> QED
    BY <2>1, <2>3 DEF UsedIs
<1> QED
  BY <1>1, <1>2, UsedStep DEF Next, Step

----------------------------------------------------------------------------
(* The used amount is explained by the requests. *)

\* Before the first fault no request is dead.
Alive == faults = 0 => \A r \in Requests : s[r].pc # "dead"

\* Only a crash ends a request for dead.
LEMMA StaysAlive ==
    ASSUME TypeOK, NEW r \in Requests, Step(r), s[r].pc # "dead"
    PROVE  s'[r].pc # "dead"
<1>s. s[r] \in Sessions
  BY DEF TypeOK
<1>b. \A x : Become(r, x) => s'[r] = x
  BY BecomeHere
<1>g. ASSUME NEW p, Goto(r, p), p # "dead" PROVE s'[r].pc # "dead"
  BY <1>s, <1>b, <1>g DEF Goto, Sessions
<1>t. ASSUME NEW x \in Sessions, NEW b PROVE TrySubscription(x, b).pc = "tokenCheck" /\ TryWallet(x, b).pc = "wallet"
  BY <1>t DEF TrySubscription, TryWallet, Sessions
<1>r. ASSUME NEW x \in Sessions PROVE Refused(r, x).pc # "dead"
  BY <1>r DEF Refused, Sessions
<1>u. ASSUME NEW x \in Sessions PROVE GiveUp(r, x).pc # "dead"
  BY <1>u, <1>t, <1>r DEF GiveUp
<1>1. ASSUME Begin(r) PROVE s'[r].pc # "dead"
  <2>1. PICK q \in Quotas[r] :
          LET seen == [s[r] EXCEPT !.tokenSeen = ContextQuota(r), !.quota = q, !.attempts = @ + 1]
          IN  s'[r] \in {TrySubscription(seen, FALSE), TrySubscription(seen, TRUE),
                         TryWallet(seen, FALSE), TryWallet(seen, TRUE)}
    BY <1>b, <1>1, RequestAssumption DEF Begin, Preferences
  <2>2. TypeOK /\ q \in Nat
    BY RequestAssumption
  <2>3. ContextQuota(r) \in Int /\ s[r].attempts + 1 \in Nat
    BY <1>s, FieldTypes DEF TypeOK, ContextQuota
  <2>4. [s[r] EXCEPT !.tokenSeen = ContextQuota(r), !.quota = q, !.attempts = @ + 1] \in Sessions
    BY <1>s, <2>2, <2>3, PricedType
  <2> QED
    BY <1>t, <2>1, <2>4
<1>2. ASSUME Retry(r) \/ WalletCheck(r) PROVE s'[r].pc # "dead"
  BY <1>b, <1>s, <1>u, <1>2 DEF Retry, WalletCheck, NewSession, Sessions
<1>3. ASSUME TokenCheck(r) \/ TokenTake(r) PROVE s'[r].pc # "dead"
  BY <1>b, <1>s, <1>r, <1>3 DEF TokenCheck, TokenTake, Sessions
<1>4. ASSUME WalletTake(r) \/ SubLoad(r) PROVE s'[r].pc # "dead"
  BY <1>b, <1>s, <1>g, <1>4 DEF WalletTake, SubLoad, Sessions
<1>5. ASSUME SubTake(r) PROVE s'[r].pc # "dead"
  BY <1>b, <1>s, <1>5 DEF SubTake, Sessions
<1>6. ASSUME RollbackToken(r) PROVE s'[r].pc # "dead"
  <2>1. [s[r] EXCEPT !.tokenConsumed = 0] \in Sessions
    BY <1>s DEF Sessions
  <2> QED
    BY <1>b, <1>6, <1>u, <2>1 DEF RollbackToken
<1>7. ASSUME ReserveStep(r) PROVE s'[r].pc # "dead"
  BY <1>b, <1>s, <1>g, <1>7 DEF ReserveStep, Reserve, ReserveCheck, ReserveFund, ReserveTokenCheck,
     ReserveTokenTake, ReserveRollback, Reserved, Sessions
<1>8. ASSUME Settle(r) \/ SettleFund(r) \/ SettleToken(r) PROVE s'[r].pc # "dead"
  BY <1>b, <1>s, <1>g, <1>8 DEF Settle, SettleFund, SettleToken, Sessions
<1>9. ASSUME Refund(r) \/ WalletRefund(r) \/ SubRefund(r) \/ ExtraRefund(r) \/ TokenRefund(r)
      PROVE  s'[r].pc # "dead"
  BY <1>b, <1>s, <1>g, <1>9 DEF Refund, WalletRefund, SubRefund, ExtraRefund, TokenRefund, Sessions
<1> QED
  BY <1>1, <1>2, <1>3, <1>4, <1>5, <1>6, <1>7, <1>8, <1>9 DEF Step, PreConsumeStep, EndStep

\* Nobody dies before the first fault.
LEMMA AliveStep == TypeOK /\ Alive /\ [Next]_vars => Alive'
<1> SUFFICES ASSUME TypeOK, Alive, [Next]_vars, faults' = 0, NEW q \in Requests
             PROVE  s'[q].pc # "dead"
  BY DEF Alive
<1>1. faults = 0 /\ ~Crash
  BY FaultsStay
<1>2. s[q].pc # "dead"
  BY <1>1 DEF Alive
<1>3. ASSUME NEW r \in Requests, Step(r) PROVE s'[q].pc # "dead"
  BY <1>2, <1>3, StaysAlive, StepOnly DEF Only
<1>4. ASSUME Tick \/ Expire \/ ResetLoad \/ ResetClaim \/ UNCHANGED vars PROVE s'[q].pc # "dead"
  BY <1>2, <1>4 DEF Tick, Expire, ResetLoad, ResetClaim, vars
<1> QED
  BY <1>1, <1>3, <1>4 DEF Next, Step

\* Before the first fault a request holds what the protocol has taken so far.
LEMMA ExactHolds == TypeOK /\ ExactInv /\ Alive /\ faults = 0 => SubNeverPays
<1> SUFFICES ASSUME TypeOK, ExactInv, Alive, faults = 0, NEW r \in Requests
             PROVE  fund[r]["subscription"] >= 0
  BY DEF SubNeverPays
<1>1. /\ s[r] \in Sessions /\ s[r].pc \in PCs /\ s[r].pc # "dead" /\ "subscription" \in Sources
      /\ s[r].pre \in Nat /\ s[r].amount \in Nat /\ s[r].extra \in Nat /\ Cost[r] \in Nat
      /\ ExactPart(s[r], fund[r], tok[r], rec[r], r)
  BY ExactBefore, FieldTypes DEF Alive, Sources, Sessions
<1>2. ASSUME NEW x, NEW n, Paid(x, n, fund[r]), n >= 0 PROVE fund[r]["subscription"] >= 0
  BY <1>1, <1>2 DEF Paid
<1>3. CASE s[r].pc \in Choosing \cup Funding
  BY <1>1, <1>2, <1>3 DEF ExactPart, BeforeFunding
<1>4. CASE s[r].pc \in Holding \cup Raising
  <2>1. PICK n \in {0, s[r].amount} : Paid(s[r].source, s[r].pre + n, fund[r])
    BY <1>1, <1>4 DEF ExactPart, Reserving
  <2>2. s[r].pre + n >= 0
    BY <1>1
  <2> QED
    BY <1>2, <2>1, <2>2
<1>5. CASE s[r].pc \in {"setToken", "refExtra", "refToken"}
  BY <1>1, <1>2, <1>5 DEF ExactPart, Closing
<1>6. CASE s[r].pc = "done"
  <2>1. PICK n \in {0, Cost[r], s[r].pre} : Paid(s[r].source, n, fund[r])
    BY <1>1, <1>6 DEF ExactPart, Closed
  <2> QED
    BY <1>1, <1>2, <2>1
<1> QED
  BY <1>1, <1>3, <1>4, <1>5, <1>6 DEF PCs, Choosing, Funding, Holding, Raising

\* No task is submitted again at another price.
SteadyPrices == \A r \in Requests : FixedPrice(r) \/ OneAttempt(r)

\* The inductive invariant.
UsedInv == faults = 0 \/ SteadyPrices => UsedIs

\* What the proof that the used amount is explained rests on.
Backing == ExactInv /\ FundInv /\ SubInvariant /\ Alive

\* Without a fault the amounts are exact; with faults they are backed.
LEMMA BackingHolds == TypeOK /\ Backing /\ (faults = 0 \/ SteadyPrices) => SubNeverPays
<1>1. FundInv /\ SubInvariant /\ SteadyPrices => SubNeverPays
  BY DEF FundInv, Backed, SubInvariant, SubBacked, SteadyPrices, SubNeverPays, Sources
<1> QED
  BY <1>1, ExactHolds DEF Backing

\* The used amount stays explained.
LEMMA UsedKept == TypeOK /\ TypeOK' /\ Backing /\ Backing' /\ UsedInv /\ [Next]_vars => UsedInv'
<1> SUFFICES ASSUME TypeOK, TypeOK', Backing, Backing', UsedInv, [Next]_vars,
                    faults' = 0 \/ SteadyPrices
             PROVE  UsedIs'
  BY DEF UsedInv, SteadyPrices, FixedPrice, OneAttempt
<1>1. faults = 0 \/ SteadyPrices
  BY FaultsStay
<1>2. SubNeverPays
  BY <1>1, BackingHolds
<1>3. (faults = 0 \/ SteadyPrices)'
  BY DEF SteadyPrices, FixedPrice, OneAttempt
<1>4. TypeOK' /\ Backing' /\ (faults = 0 \/ SteadyPrices)' => SubNeverPays'
  BY BackingHolds, PTL
<1>5. SubNeverPays'
  BY <1>3, <1>4
<1> QED
  BY <1>1, <1>2, <1>5, UsedNext DEF UsedInv

\* So it is in every reachable state.
LEMMA AliveCorrect == Spec => []Alive
<1>1. Init => Alive
  BY DEF Init, Alive, NewSession
<1> QED
  BY <1>1, AliveStep, TypeCorrect, PTL DEF Spec

\* Nobody has taken anything yet.
LEMMA UsedInit == Init => UsedInv
<1> SUFFICES ASSUME Init PROVE UsedIs
  BY DEF UsedInv
<1>1. \A r \in Requests : fund[r].subscription = 0
  BY DEF Init, Sources
<1>2. Taken(fund) = 0
  BY <1>1, TakenNothing
<1> QED
  BY <1>2 DEF Init, UsedIs

\* AmountUsed never says more than the requests have taken, and between resets
\* exactly that, however the conditional increments, the resets, the refunds and
\* the rollbacks of the requests interleave.  It holds until the first fault,
\* and through any faults when no task is submitted again at another price: the
\* clamp of postConsumeUserSubscriptionDeltaTx at zero is then never needed
\* before a reset.
THEOREM UsedSafe == Spec => []((faults = 0 \/ SteadyPrices) => UsedExplained)
<1>1. UsedInv => ((faults = 0 \/ SteadyPrices) => UsedExplained)
  BY Zenon DEF UsedInv, UsedIs, UsedExplained, Taken
<1> QED
  BY <1>1, UsedInit, UsedKept, TypeCorrect, ExactCorrect, FundCorrect, SubBackedCorrect,
     AliveCorrect, PTL DEF Spec, Backing
==============================================================================
