------------------------ MODULE MCConcurrencyLimit ------------------------
(* A small instance of ConcurrencyLimit for TLC.  Requests are numbered.     *)
EXTENDS ConcurrencyLimit

\* Requests 1 and 2 have token a, request 3 has token b, and request 4 token c of
\* another user, where nothing is limited.
TwoOneAndOne == [r \in Requests |-> CASE r \in {1, 2} -> "a" [] r = 3 -> "b" [] r = 4 -> "c"]
TwoUsers == [t \in Tokens |-> IF t = "c" THEN "v" ELSE "u"]
\* Request 4 is served by another process than the others.
LastApart == [r \in Requests |-> IF r = 4 THEN "q" ELSE "p"]

\* The second user's own setting overrides the default: no limit.
SecondUnlimited == [u \in Users |-> IF u = "v" THEN 0 ELSE Unset]
\* The first token may have one request, the second as many as its user.
OneManyNone == [t \in Tokens |-> CASE t = "a" -> 1 [] t = "b" -> 5 [] t = "c" -> -1]
===========================================================================
