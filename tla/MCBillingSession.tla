-------------------------- MODULE MCBillingSession --------------------------
(* Small instances of BillingSession for TLC.  Requests are numbered.        *)
EXTENDS BillingSession

\* Request 1 may fall back from the subscription to the wallet, 2 may not.
FallbackAndNot == [r \in Requests |-> IF r = 1 THEN "subscription_first" ELSE "subscription_only"]
\* Request 1 may not fall back; the others may, in either direction.
NotAndFallback == [r \in Requests |-> CASE r = 1 -> "subscription_only"
                                        [] r = 2 -> "subscription_first"
                                        [] r = 3 -> "wallet_first"]
SubOnly == [r \in Requests |-> "subscription_only"]
WalletOnly == [r \in Requests |-> "wallet_only"]

\* The price of request 1 rises between attempts.
Rising == [r \in Requests |-> IF r = 1 THEN {1, 2} ELSE {2}]
\* Also, request 2 has no estimate.
RisingAndNone == [r \in Requests |-> CASE r = 1 -> {1, 2} [] r = 2 -> {0} [] r = 3 -> {2}]

\* Request 1 costs as much as or less than it reserves, the others more.
BelowAndAbove == [r \in Requests |-> IF r = 1 THEN 1 ELSE 3]
AroundTwo == [r \in Requests |-> IF r = 1 THEN 1 ELSE 2]
Nothing == [r \in Requests |-> 0]

\* Only request 2 is submitted again when it gets no session.
SecondRetried == [r \in Requests |-> IF r = 2 THEN 2 ELSE 1]
Once == [r \in Requests |-> 1]
Twice == [r \in Requests |-> 2]

=============================================================================
