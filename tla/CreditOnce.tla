----------------------------- MODULE CreditOnce -----------------------------
(***************************************************************************)
(* What a paid order or a redemption code promises to the balance: it is   *)
(* worth one credit, of one of the amounts it may be worth, and nothing    *)
(* ever adds to it or takes it back.  TopUp implements this specification. *)
(***************************************************************************)
EXTENDS Integers, Sequences

CONSTANTS
    Vouchers,  \* orders and codes
    Worth      \* the set of amounts that a voucher may be credited with

VARIABLE
    credits    \* for each voucher, the credits made for it, oldest first

Init == credits = [v \in Vouchers |-> <<>>]

Credit(v) ==
    /\ credits[v] = <<>>
    /\ \E a \in Worth[v] : credits' = [credits EXCEPT ![v] = <<a>>]

Next == \E v \in Vouchers : Credit(v)

Spec == Init /\ [][Next]_credits
=============================================================================
