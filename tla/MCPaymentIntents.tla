-------------------------- MODULE MCPaymentIntents --------------------------
(***************************************************************************)
(* PaymentIntents on small instances: one payer with three units of money, *)
(* the shop and its owner.                                                 *)
(***************************************************************************)
EXTENDS PaymentIntents, TLC

CONSTANTS Ama, Olu, Store, k1

MCOpening == Ama :> 3 @@ Olu :> 0 @@ Store :> 0

Create(p, amount, key) == [op |-> "create", payer |-> p, amount |-> amount, key |-> key, intent |-> 0]
Confirm(p, i) == [op |-> "confirm", payer |-> p, amount |-> 0, key |-> NoKey, intent |-> i]

\* Two creations with one key, a third without, the owner's own, confirmations
\* of both intents by their payer and by another user: together the intents
\* exceed the wallet.
MCRequests ==
    {Create(Ama, 2, k1), Create(Ama, 1, k1), Create(Ama, 2, NoKey), Create(Ama, 0, NoKey),
     Create(Olu, 1, NoKey), Confirm(Ama, 1), Confirm(Ama, 2), Confirm(Olu, 1)}

CallSymmetry == Permutations(Calls)
=============================================================================
