----------------------------- MODULE PaymentLife -----------------------------
(***************************************************************************)
(* What a payment intent promises to its payer, without locks, look-ups or *)
(* balances: it is paid and succeeds in one step, or it ends unpaid, and   *)
(* then nothing happens to it any more.                                    *)
(***************************************************************************)
EXTENDS Naturals, Sequences

VARIABLES
    bills,        \* the status of each intent
    paid          \* the intents whose money has moved

lifeVars == <<bills, paid>>

Ask == bills' = Append(bills, "CREATED") /\ UNCHANGED paid

Pay(i) ==
    /\ bills[i] = "CREATED"
    /\ bills' = [bills EXCEPT ![i] = "SUCCEEDED"]
    /\ paid' = paid \cup {i}

Drop(i) ==
    /\ bills[i] = "CREATED"
    /\ \E end \in {"FAILED", "EXPIRED"} : bills' = [bills EXCEPT ![i] = end]
    /\ UNCHANGED paid

LifeInit == bills = <<>> /\ paid = {}
LifeNext == Ask \/ \E i \in DOMAIN bills : Pay(i) \/ Drop(i)
LifeSpec == LifeInit /\ [][LifeNext]_lifeVars
=============================================================================
