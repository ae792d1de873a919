----------------------------- MODULE LedgerRepo -----------------------------
(***************************************************************************)
(* The double-entry ledger's repository: the ledger accounts and the       *)
(* journal, and what each repository call returns and stores.  A call is   *)
(* atomic (one lock section of MemoryRepository, one SQL statement or one  *)
(* SQL transaction of PostgresRepository); the services that make the      *)
(* calls interleave between them.  The two implementations differ, so      *)
(* Backend says which of them is modelled.                                 *)
(*                                                                         *)
(* One currency is modelled.  Amounts are in units of 5 000 FCFA, the      *)
(* greatest common divisor of the amounts of the demonstration data.       *)
(***************************************************************************)
EXTENDS Integers, Sequences, FiniteSetsExt

CONSTANTS
    Backend,      \* "memory" or "postgres"
    Users,        \* every user a wallet may be asked for
    Registered,   \* the users that have a row in the table users
    DemoUser,     \* 00000000-0000-0000-0000-000000000001
    Amina,        \* 00000000-0000-0000-0000-000000000002
    MoMoPool,     \* the system account "MoMo Settlement Pool"
    EscrowPool,   \* the system account "Marketplace Escrow Account"
    Keys          \* the idempotency keys clients choose

ASSUME BackendAssumption == Backend \in {"memory", "postgres"}
ASSUME PoolAssumption == /\ MoMoPool # EscrowPool
                         /\ MoMoPool \notin Users /\ EscrowPool \notin Users
\* Users are given random ids, so the demonstration users have no row there.
ASSUME DemoAssumption == /\ DemoUser \in Users /\ Amina \in Users /\ DemoUser # Amina
                         /\ Registered \subseteq Users \ {DemoUser, Amina}

VARIABLES
    accounts,     \* the ledger accounts, in the order of their creation
    journal       \* the journal entries with their postings, oldest first

repoVars == <<accounts, journal>>
-----------------------------------------------------------------------------
Pools == {MoMoPool, EscrowPool}
Owners == Users \cup Pools

\* AccountType: a wallet is an asset, both pools are liabilities.
TypeOfOwner(o) == IF o \in Pools THEN "liability" ELSE "asset"
Account == [owner : Owners, type : {"asset", "liability"}]

Posting == [account : Nat, amount : Int, direction : {"DR", "CR"}]
Debit(a, n) == [account |-> a, amount |-> n, direction |-> "DR"]
Credit(a, n) == [account |-> a, amount |-> n, direction |-> "CR"]

\* JournalEntry.ReferenceID: an entry posted without an idempotency key has
\* a reference nobody else computes.
NoRef == <<"none", 0>>
Refs == {NoRef} \cup ({"key"} \X Keys) \cup ({"reversal"} \X Nat) \cup ({"seed"} \X Nat)

\* TransactionType.  Postgres does not store it: the column keeps its default.
Kinds == {"p2p_transfer", "momo_cash_in", "momo_cash_out", "marketplace_escrow",
          "merchant_settlement"}
StoredKind(k) == IF Backend = "memory" THEN k ELSE "p2p_transfer"
Entry == [ref : Refs, kind : Kinds, postings : Seq(Posting)]
-----------------------------------------------------------------------------
(* Accounts. *)

\* GetSystemAccount with the name left out of the look-up.
SystemRowsByType(o) ==
    {i \in DOMAIN accounts : accounts[i].owner \in Pools /\ accounts[i].type = TypeOfOwner(o)}

\* The accounts GetSystemAccount may return: Memory looks a pool up by its
\* name, Postgres by its type alone.
SystemRows(o) ==
    IF Backend = "memory"
    THEN {i \in DOMAIN accounts : accounts[i].owner = o}
    ELSE SystemRowsByType(o)

\* The accounts GetAccountByUserID may return: LIMIT 1 without ORDER BY takes
\* any of the user's rows.
UserRows(o) == {i \in DOMAIN accounts : accounts[i].owner = o}

Rows(o) == IF o \in Pools THEN SystemRows(o) ELSE UserRows(o)

\* CreateAccount with the look-up under the lock left out.
InsertAlways(o, i, accs) ==
    /\ i = Len(accounts) + 1
    /\ accs = Append(accounts, [owner |-> o, type |-> TypeOfOwner(o)])

\* CreateAccount returns account i and leaves accs: Memory looks the owner up
\* again under its lock and returns the account it finds; Postgres inserts,
\* and user_id references the table users.
CreateAccount(o, i, accs) ==
    \/ /\ Backend = "memory"
       /\ i \in UserRows(o)
       /\ accs = accounts
    \/ /\ IF Backend = "memory" THEN UserRows(o) = {} ELSE o \in Registered \cup Pools
       /\ i = Len(accounts) + 1
       /\ accs = Append(accounts, [owner |-> o, type |-> TypeOfOwner(o)])

\* The insert violates the foreign key to users.
CannotCreate(o) == Backend = "postgres" /\ o \notin Registered \cup Pools
-----------------------------------------------------------------------------
(* Balances are derived from the postings. *)

SumOver(S, f(_)) == MapThenSumSet(f, S)

SideTotal(ps, d) ==
    SumOver(DOMAIN ps, LAMBDA i : IF ps[i].direction = d THEN ps[i].amount ELSE 0)

\* What the postings ps add to account a, debits positive.
NetDebit(ps, a) ==
    SumOver(DOMAIN ps, LAMBDA i : IF ps[i].account # a THEN 0
                                  ELSE IF ps[i].direction = "DR" THEN ps[i].amount
                                  ELSE -ps[i].amount)

\* GetBalance: debits less credits of an asset, credits less debits of a liability.
GetBalance(a) ==
    LET net == SumOver(DOMAIN journal, LAMBDA n : NetDebit(journal[n].postings, a))
    IN  IF accounts[a].type = "asset" THEN net ELSE -net
-----------------------------------------------------------------------------
(* The journal. *)

\* CheckIdempotency: the entry posted under ref, of which there is at most one.
EntriesOf(ref, jnl) == {n \in DOMAIN jnl : ref # NoRef /\ jnl[n].ref = ref}

WellFormed(ps) ==
    /\ Len(ps) >= 2
    /\ \A i \in DOMAIN ps : ps[i].amount > 0
    /\ SideTotal(ps, "DR") = SideTotal(ps, "CR")

\* The checks of PostJournalEntry without the debit-credit comparison.
PostResultUnbalanced(e, jnl) ==
    IF Len(e.postings) < 2 THEN "malformed"
    ELSE IF EntriesOf(e.ref, jnl) # {} THEN "duplicate"
    ELSE IF \E i \in DOMAIN e.postings : e.postings[i].account \notin DOMAIN accounts
         THEN "no_account"
    ELSE "posted"

\* The checks of PostJournalEntry without the look-up of the idempotency key.
PostResultAgain(e, jnl) ==
    IF ~WellFormed(e.postings) THEN "malformed"
    ELSE IF \E i \in DOMAIN e.postings : e.postings[i].account \notin DOMAIN accounts
         THEN "no_account"
    ELSE "posted"

\* What PostJournalEntry answers.  The key is looked up under the lock of
\* MemoryRepository, or is a unique index of journal_entries; the accounts are
\* looked up, or are foreign keys of ledger_postings.
PostResult(e, jnl) ==
    IF ~WellFormed(e.postings) THEN "malformed"
    ELSE IF EntriesOf(e.ref, jnl) # {} THEN "duplicate"
    ELSE IF \E i \in DOMAIN e.postings : e.postings[i].account \notin DOMAIN accounts
         THEN "no_account"
    ELSE "posted"

\* PostJournalEntry overwriting the newest entry.
PostOver(e, jnl) == IF jnl = <<>> THEN <<e>> ELSE [jnl EXCEPT ![Len(jnl)] = e]

\* PostJournalEntry, its error ignored.
Posted(e, jnl) == IF PostResult(e, jnl) = "posted" THEN Append(jnl, e) ELSE jnl
-----------------------------------------------------------------------------
(* The demonstration data that NewService posts.  On Postgres the wallets of
   its users cannot be created, so only the row of the pool is inserted, which
   is then found for the escrow account too. *)

SeedEntry(n, kind, debit, credit, amount) ==
    [ref |-> <<"seed", n>>, kind |-> kind,
     postings |-> <<Debit(debit, amount), Credit(credit, amount)>>]

SeedAccounts ==
    LET row(o) == [owner |-> o, type |-> TypeOfOwner(o)]
    IN  IF Backend = "memory"
        THEN <<row(DemoUser), row(Amina), row(MoMoPool), row(EscrowPool)>>
        ELSE <<row(MoMoPool)>>

SeedJournal ==
    IF Backend = "memory"
    THEN <<SeedEntry(1, "momo_cash_in", 1, 3, 5),
           SeedEntry(2, "momo_cash_in", 2, 3, 6),
           SeedEntry(3, "p2p_transfer", 1, 2, 6),
           SeedEntry(4, "marketplace_escrow", 4, 1, 2)>>
    ELSE <<>>

RepoInit == accounts = SeedAccounts /\ journal = SeedJournal
RepoTypeOK == accounts \in Seq(Account) /\ journal \in Seq(Entry)
=============================================================================
