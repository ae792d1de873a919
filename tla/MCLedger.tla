------------------------------ MODULE MCLedger ------------------------------
(***************************************************************************)
(* Ledger on small instances.  Account 1 is the demonstration user's (9    *)
(* units), 2 is Amina's (0), 3 the MoMo pool.                              *)
(***************************************************************************)
EXTENDS Ledger, TLC

CONSTANTS Bob, Carol, Shop, k1, k2

Request(op, user, to, amount, key) ==
    [op |-> op, user |-> user, to |-> to, amount |-> amount, key |-> key,
     entry |-> 0, raw |-> <<>>]
Reverse(n) == [Request("reverse", DemoUser, DemoUser, 0, NoKey) EXCEPT !.entry = n]
Settle(key, business, pool, n) ==
    [Request("settle", DemoUser, DemoUser, 0, key) EXCEPT !.raw = <<Credit(business, n), Debit(pool, n)>>]
Raw(key, ps) == [Request("post_entry", DemoUser, DemoUser, 0, key) EXCEPT !.raw = ps]

MCUsers == {DemoUser, Amina, Bob, Shop}
MCRegistered == {Bob}
MCKeys == {k1, k2}

\* Two retries of one payment, the same key for other amounts and operations,
\* two spends that only together exceed the balance, a wallet that does not
\* exist yet, amounts that are not positive, reversals, raw entries, and a
\* settlement of the business whose account is 2.
MCRequests ==
    {Request("transfer", DemoUser, Bob, 6, k1),
     Request("transfer", Bob, Amina, 2, k2),
     Request("cash_in", Bob, MoMoPool, 5, k1),
     Request("cash_out", DemoUser, MoMoPool, 6, NoKey),
     Request("qr_pay", DemoUser, Shop, 5, k2),
     Request("cash_in", Bob, MoMoPool, 0, k2),
     Request("wallet", Bob, Bob, 0, NoKey),
     Reverse(1), Reverse(5),
     Raw(k1, <<Debit(1, 1), Credit(2, 1)>>),
     Raw(NoKey, <<Debit(1, 2), Credit(2, 1)>>),
     Settle(k2, 2, 3, 1)}

\* On Postgres nobody has money yet: two wallets that do not exist, retries of
\* a payment into one of them, two spends that only together exceed it, a
\* recipient and a payer without a row in users, a reversal, and a settlement
\* under a key that payments use.
PgRegistered == {Bob, Carol}
PgUsers == {DemoUser, Amina, Bob, Carol, Shop}
PgRequests ==
    {Request("cash_in", Bob, MoMoPool, 3, k1),
     Request("cash_in", Bob, MoMoPool, 4, k1),
     Request("cash_in", Bob, MoMoPool, 3, NoKey),
     Request("transfer", Bob, Carol, 2, k2),
     Request("transfer", Bob, Bob, 2, NoKey),
     Request("cash_out", Bob, MoMoPool, 2, NoKey),
     Request("qr_pay", Bob, Shop, 1, k2),
     Request("wallet", DemoUser, DemoUser, 0, NoKey),
     Reverse(1),
     Settle(k1, 2, 1, 1),
     Raw(NoKey, <<Debit(1, 2), Credit(2, 1)>>)}

CallSymmetry == Permutations(Calls)
=============================================================================
