------------------------------ MODULE MCTopUp ------------------------------
(* Instances of TopUp for TLC. *)
EXTENDS TopUp

CONSTANTS n1, n2, h1, h2, h3

\* Two handlers on the first node, one on the second.
MCNodeOf == [h \in Handlers |-> IF h = h3 THEN n2 ELSE n1]
MCAmount == [v \in Vouchers |-> 1]
=============================================================================
