------------------------------ MODULE MCPayouts ------------------------------
(***************************************************************************)
(* Payouts on small instances: a shop with two payments, of two units and  *)
(* of one.  Its account holds two units more, so that the check of the     *)
(* balance alone does not stop a payment from being paid back twice.       *)
(***************************************************************************)
EXTENDS Payouts, TLC

CONSTANTS p1, p2, Store, Momo, k1

MCOpening == p1 :> 0 @@ p2 :> 0 @@ Store :> 5 @@ Momo :> 0
MCAmount == p1 :> 2 @@ p2 :> 1

RefundOf(p, amount, key) ==
    [op |-> "refund", payment |-> p, amount |-> amount, key |-> key, settlement |-> 0]
Settle(amount, key) ==
    [op |-> "settle", payment |-> p1, amount |-> amount, key |-> key, settlement |-> 0]
Process(s) ==
    [op |-> "process", payment |-> p1, amount |-> 0, key |-> NoKey, settlement |-> s]

\* A payment of one unit settled, and refunded under a key, while the other is.
PostgresRequests ==
    {RefundOf(p1, 1, k1), RefundOf(p2, 1, k1),
     Settle(0, NoKey), Settle(2, k1), Process(1), Process(2)}

\* Refunds of one payment with and without a key, a refund of nothing,
\* settlements in part, in full and of a negative amount.
LiveRequests ==
    {RefundOf(p1, 2, NoKey), RefundOf(p1, 1, k1), RefundOf(p1, 0, NoKey),
     Settle(0, k1), Settle(2, NoKey), Settle(-1, NoKey), Process(1)}

\* Two refunds that only together exceed the payment.
RefundRequests == {RefundOf(p1, 2, NoKey), RefundOf(p1, 1, NoKey)}

CallSymmetry == Permutations(Calls)
=============================================================================
