------------------------------ MODULE MoneyBook ------------------------------
(***************************************************************************)
(* The ledger as the business service uses it: movements of money from one *)
(* account to another, at most one under any reference.  LedgerRepo models *)
(* the accounts and the postings behind it, and LedgerProofs shows that    *)
(* the journal is such a book.                                             *)
(***************************************************************************)
EXTENDS Integers, Sequences, FiniteSetsExt

CONSTANTS
    Backend,      \* "memory" or "postgres"
    Opening       \* what each owner of an account has at the start

ASSUME BackendAssumption == Backend \in {"memory", "postgres"}
ASSUME OpeningAssumption == Opening \in [DOMAIN Opening -> Nat]

VARIABLE moves    \* the journal entries, oldest first

Owners == DOMAIN Opening
Move(ref, from, to, amount) == [ref |-> ref, from |-> from, to |-> to, amount |-> amount]
MoveType(Refs) == [ref : Refs, from : Owners, to : Owners, amount : Nat]

\* The entries under a reference; entries without a key are named "unnamed".
MovesOf(ref) == {n \in DOMAIN moves : ref # <<"unnamed", 0>> /\ moves[n].ref = ref}

AmountOf(S) == MapThenSumSet(LAMBDA n : moves[n].amount, S)

\* GetBalance of the owner's account
Balance(o) ==
    Opening[o] + AmountOf({n \in DOMAIN moves : moves[n].to = o})
               - AmountOf({n \in DOMAIN moves : moves[n].from = o})

\* PostJournalEntry without the look-up of the reference.
PostResultAgain(m) == "posted"

\* What PostJournalEntry answers: only MemoryRepository says that an error is
\* the duplicate of a reference.
PostResult(m) ==
    IF MovesOf(m.ref) = {} THEN "posted"
    ELSE IF Backend = "memory" THEN "duplicate" ELSE "error"

PostMove(m) == moves' = IF PostResult(m) = "posted" THEN Append(moves, m) ELSE moves
=============================================================================
