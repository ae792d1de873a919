------------------------------- MODULE Ledger -------------------------------
(***************************************************************************)
(* The ledger service: the operations behind /pay/wallet, /pay/transfer,   *)
(* /pay/cash-in, /pay/cash-out and /pay/qr-pay, the reversal and the raw   *)
(* PostEntry.  Each call runs in a goroutine of its own and is a sequence  *)
(* of repository calls with no lock around them, so the model takes one    *)
(* repository call per step and lets the calls of several clients          *)
(* interleave at every one of them.                                        *)
(***************************************************************************)
EXTENDS LedgerRepo

CONSTANTS
    Calls,        \* identities of the calls in a behaviour; each runs once
    Requests      \* the requests clients may send

NoKey == "no key"
Ops == {"wallet", "transfer", "cash_in", "cash_out", "qr_pay", "reverse", "post_entry", "settle"}
Spending == {"transfer", "cash_out", "qr_pay"}

\* user is the caller, to the counterparty (the wallet of the recipient or of
\* the merchant, or the pool), entry the entry to reverse, raw the postings of
\* a PostEntry.  A settle is the PostJournalEntry of a settlement, whose postings,
\* from the account of the business to the pool, the business service has made.
RequestType == [op : Ops, user : Users, to : Users \cup {MoMoPool}, amount : Int,
                key : Keys \cup {NoKey}, entry : Nat, raw : Seq(Posting)]

ASSUME RequestAssumption == Requests \subseteq RequestType
ASSUME NoKeyAssumption == NoKey \notin Keys

VARIABLES
    pc,           \* the repository call each call makes next
    req,          \* its request
    own,          \* the caller's account, once found
    other,        \* the counterparty's account, once found
    seen,         \* the balance it read
    outcome,      \* its answer
    receipt       \* the journal entry it posted or found under its key

locals == <<pc, req, own, other, seen, outcome, receipt>>
vars == <<accounts, journal, pc, req, own, other, seen, outcome, receipt>>

Labels == {"idle", "check", "find_own", "create_own", "balance", "find_other",
           "create_other", "post", "recover", "reply", "done"}
Outcomes == {"none", "ok", "found", "invalid", "conflict", "insufficient", "error", "lost"}
NoEntry == 0
NoAccount == 0
NoRequest == [op |-> "wallet", user |-> DemoUser, to |-> DemoUser, amount |-> 0,
              key |-> NoKey, entry |-> 0, raw |-> <<>>]
-----------------------------------------------------------------------------
\* The reference under which PostJournalEntry stores request r.  A raw entry
\* brings a ReferenceID, which only Postgres indexes.
RefOf(r) ==
    IF r.op = "reverse" THEN <<"reversal", r.entry>>
    ELSE IF r.key = NoKey \/ (r.op = "post_entry" /\ Backend = "memory") THEN NoRef
    ELSE <<"key", r.key>>

\* TransactionType with a type of their own for reversals.
KindOfTagged(r) ==
    IF r.op = "reverse" THEN "reversal"
    ELSE IF r.op \in {"cash_in", "cash_out"} THEN StoredKind("momo_" \o r.op) ELSE "p2p_transfer"

\* TransactionType.  A raw entry may be of any type; it is a transfer here.
KindOf(r) ==
    CASE r.op = "cash_in" -> StoredKind("momo_cash_in")
      [] r.op = "cash_out" -> StoredKind("momo_cash_out")
      [] r.op = "settle" -> StoredKind("merchant_settlement")
      [] r.op = "reverse" -> journal[r.entry].kind
      [] OTHER -> "p2p_transfer"

\* DetailedJournalEntry.TotalDebit
TotalDebit(n) == SideTotal(journal[n].postings, "DR")

\* The compensating postings with their directions left as they are.
SameDirection(ps) == ps

Swapped(ps) ==
    [i \in DOMAIN ps |-> [ps[i] EXCEPT !.direction = IF @ = "DR" THEN "CR" ELSE "DR"]]

PostingsOf(c) ==
    LET r == req[c]
    IN  CASE r.op \in Spending -> <<Credit(own[c], r.amount), Debit(other[c], r.amount)>>
          [] r.op = "cash_in" -> <<Debit(own[c], r.amount), Credit(other[c], r.amount)>>
          [] r.op = "reverse" -> Swapped(journal[r.entry].postings)
          [] OTHER -> r.raw

EntryOf(c) == [ref |-> RefOf(req[c]), kind |-> KindOf(req[c]), postings |-> PostingsOf(c)]

Goto(c, label) == pc' = [pc EXCEPT ![c] = label]
Answer(c, what, n) ==
    /\ Goto(c, "done")
    /\ outcome' = [outcome EXCEPT ![c] = what]
    /\ receipt' = [receipt EXCEPT ![c] = n]
-----------------------------------------------------------------------------
\* Where a call starts: a wallet is only looked up, a raw entry or that of a
\* settlement only posted.
FirstLabel(r) ==
    CASE r.op = "wallet" -> "find_own"
      [] r.op \in {"post_entry", "settle"} -> "post"
      [] OTHER -> "check"

\* A request arrives; an amount that is not positive, or a reversal of an
\* entry that does not exist, is refused before anything is written.
Begin(c, r) ==
    /\ pc[c] = "idle"
    /\ req' = [req EXCEPT ![c] = r]
    /\ \/ /\ r.op \in Spending \cup {"cash_in"} /\ r.amount <= 0
          /\ Answer(c, "invalid", NoEntry)
       \/ /\ r.op = "reverse" /\ r.entry \notin DOMAIN journal
          /\ Answer(c, "error", NoEntry)
       \/ /\ r.op \in Spending \cup {"cash_in"} => r.amount > 0
          /\ r.op = "reverse" => r.entry \in DOMAIN journal
          /\ Goto(c, FirstLabel(r))
          /\ UNCHANGED <<outcome, receipt>>
    /\ UNCHANGED <<accounts, journal, own, other, seen>>

\* What follows when the key is not in use, or not found to be.
AfterCheck(r) == IF r.op = "reverse" THEN "post" ELSE "find_own"

\* CheckIdempotency returning the entry whatever it moved.
CheckIdempotencyAnyAmount(c) ==
    /\ pc[c] = "check"
    /\ \/ \E n \in EntriesOf(RefOf(req[c]), journal) : Answer(c, "ok", n)
       \/ /\ EntriesOf(RefOf(req[c]), journal) = {}
          /\ Goto(c, AfterCheck(req[c]))
          /\ UNCHANGED <<outcome, receipt>>
    /\ UNCHANGED <<accounts, journal, req, own, other, seen>>

\* CheckIdempotency: an entry with the call's reference is returned, if it
\* moved the same amount; a reversal does not compare amounts.
CheckIdempotency(c) ==
    /\ pc[c] = "check"
    /\ \/ \E n \in EntriesOf(RefOf(req[c]), journal) :
            IF req[c].op # "reverse" /\ TotalDebit(n) # req[c].amount
            THEN Answer(c, "conflict", NoEntry)
            ELSE Answer(c, "ok", n)
       \/ /\ EntriesOf(RefOf(req[c]), journal) = {}
          /\ Goto(c, AfterCheck(req[c]))
          /\ UNCHANGED <<outcome, receipt>>
    /\ UNCHANGED <<accounts, journal, req, own, other, seen>>
-----------------------------------------------------------------------------
(* GetOrCreateUserAccount, for the caller and for the recipient. *)

\* What follows the caller's account.
OwnFound(c, a) ==
    /\ own' = [own EXCEPT ![c] = a]
    /\ IF req[c].op = "wallet" THEN Answer(c, "found", NoEntry)
       ELSE /\ Goto(c, IF req[c].op \in Spending THEN "balance" ELSE "find_other")
            /\ UNCHANGED <<outcome, receipt>>

\* GetAccountByUserID
FindOwn(c) ==
    /\ pc[c] = "find_own"
    /\ \/ \E a \in UserRows(req[c].user) : OwnFound(c, a)
       \/ /\ UserRows(req[c].user) = {}
          /\ Goto(c, "create_own")
          /\ UNCHANGED <<own, outcome, receipt>>
    /\ UNCHANGED <<accounts, journal, req, other, seen>>

CreateOwn(c) ==
    /\ pc[c] = "create_own"
    /\ \/ \E a \in 1..(Len(accounts) + 1) :
            CreateAccount(req[c].user, a, accounts') /\ OwnFound(c, a)
       \/ /\ CannotCreate(req[c].user)
          /\ Answer(c, "error", NoEntry)
          /\ UNCHANGED <<accounts, own>>
    /\ UNCHANGED <<journal, req, other, seen>>

\* The recipient's account, or GetSystemAccount for the pool: one call of
\* MemoryRepository, one SELECT on Postgres once the pool has a row.
FindOther(c) ==
    /\ pc[c] = "find_other"
    /\ \/ \E a \in Rows(req[c].to) : other' = [other EXCEPT ![c] = a] /\ Goto(c, "post")
       \/ /\ Rows(req[c].to) = {}
          /\ Goto(c, "create_other")
          /\ UNCHANGED other
    /\ UNCHANGED <<accounts, journal, req, own, seen, outcome, receipt>>

CreateOther(c) ==
    /\ pc[c] = "create_other"
    /\ \/ /\ \E a \in 1..(Len(accounts) + 1) :
               /\ CreateAccount(req[c].to, a, accounts')
               /\ other' = [other EXCEPT ![c] = a]
          /\ Goto(c, "post")
          /\ UNCHANGED <<outcome, receipt>>
       \/ /\ CannotCreate(req[c].to)
          /\ Answer(c, "error", NoEntry)
          /\ UNCHANGED <<accounts, other>>
    /\ UNCHANGED <<journal, req, own, seen>>
-----------------------------------------------------------------------------
\* CheckFunds with the comparison left out.
CheckFundsNever(c) ==
    /\ pc[c] = "balance"
    /\ seen' = [seen EXCEPT ![c] = GetBalance(own[c])]
    /\ Goto(c, "find_other")
    /\ UNCHANGED <<accounts, journal, req, own, other, outcome, receipt>>

\* GetBalance and the comparison with the amount.
CheckFunds(c) ==
    /\ pc[c] = "balance"
    /\ seen' = [seen EXCEPT ![c] = GetBalance(own[c])]
    /\ IF GetBalance(own[c]) < req[c].amount
       THEN Answer(c, "insufficient", NoEntry)
       ELSE Goto(c, "find_other") /\ UNCHANGED <<outcome, receipt>>
    /\ UNCHANGED <<accounts, journal, req, own, other>>

\* PostJournalEntry.  A duplicate key is looked up again when
\* MemoryRepository reports it as ErrDuplicateIdempotency; Postgres reports
\* the violation of its unique index; a reversal and a settlement never look again.
Post(c) ==
    /\ pc[c] = "post"
    /\ LET e == EntryOf(c)
           result == PostResult(e, journal)
       IN  /\ journal' = Posted(e, journal)
           /\ IF result = "posted"
              THEN /\ Goto(c, "reply")
                   /\ receipt' = [receipt EXCEPT ![c] = Len(journal) + 1]
                   /\ UNCHANGED outcome
              ELSE IF result = "duplicate" /\ Backend = "memory"
                        /\ req[c].op \notin {"reverse", "settle"}
                   THEN Goto(c, "recover") /\ UNCHANGED <<outcome, receipt>>
              ELSE Answer(c, "error", NoEntry)
    /\ UNCHANGED <<accounts, req, own, other, seen>>

\* The second CheckIdempotency: the entry is returned whatever it moved.
Recover(c) ==
    /\ pc[c] = "recover"
    /\ \/ \E n \in EntriesOf(RefOf(req[c]), journal) : Answer(c, "ok", n)
       \/ /\ EntriesOf(RefOf(req[c]), journal) = {}
          /\ Answer(c, "error", NoEntry)
    /\ UNCHANGED <<accounts, journal, req, own, other, seen>>

\* GetDetailedTransaction of the entry just posted, and the answer.
Reply(c) ==
    /\ pc[c] = "reply"
    /\ Answer(c, "ok", receipt[c])
    /\ UNCHANGED <<accounts, journal, req, own, other, seen>>

\* A look-up of Postgres that fails for any other reason than a missing row is
\* reported as if the row were missing: the key is taken to be free, and an
\* account, of a user or of the pool, is created.
LookupFails(c) ==
    /\ Backend = "postgres"
    /\ \/ pc[c] = "check" /\ Goto(c, AfterCheck(req[c]))
       \/ pc[c] = "find_own" /\ Goto(c, "create_own")
       \/ pc[c] = "find_other" /\ Goto(c, "create_other")
    /\ UNCHANGED <<accounts, journal, req, own, other, seen, outcome, receipt>>

\* The client hangs up or the server dies: the request's context, which the
\* handlers pass to every query, ends between two of them and nobody is
\* answered.  MemoryRepository ignores the context.
Stop(c) ==
    /\ Backend = "postgres"
    /\ pc[c] \notin {"idle", "done"}
    /\ Goto(c, "done")
    /\ outcome' = [outcome EXCEPT ![c] = "lost"]
    /\ UNCHANGED <<accounts, journal, req, own, other, seen, receipt>>
-----------------------------------------------------------------------------
Init ==
    /\ RepoInit
    /\ pc = [c \in Calls |-> "idle"]
    /\ req = [c \in Calls |-> NoRequest]
    /\ own = [c \in Calls |-> NoAccount]
    /\ other = [c \in Calls |-> NoAccount]
    /\ seen = [c \in Calls |-> 0]
    /\ outcome = [c \in Calls |-> "none"]
    /\ receipt = [c \in Calls |-> NoEntry]

Step(c) ==
    \/ CheckIdempotency(c)
    \/ FindOwn(c)
    \/ CreateOwn(c)
    \/ CheckFunds(c)
    \/ FindOther(c)
    \/ CreateOther(c)
    \/ Post(c)
    \/ Recover(c)
    \/ Reply(c)
    \/ LookupFails(c)

Next == \E c \in Calls : (\E r \in Requests : Begin(c, r)) \/ Step(c) \/ Stop(c)

Spec == Init /\ [][Next]_vars
-----------------------------------------------------------------------------
\* Every call has a request, the accounts it has found are account numbers, and
\* the accounts and the journal are what the tables hold.
TypeOK ==
    /\ RepoTypeOK
    /\ pc \in [Calls -> Labels]
    /\ req \in [Calls -> RequestType]
    /\ own \in [Calls -> Nat]
    /\ other \in [Calls -> Nat]
    /\ DOMAIN seen = Calls
    /\ outcome \in [Calls -> Outcomes]
    /\ receipt \in [Calls -> Nat]

\* However many calls race with one idempotency key, or reverse one entry, and
\* whatever is retried after a lost answer, the key is posted at most once
\* (PostJournalEntry's look-up under the lock; the unique index of Postgres).
KeyPostedOnce ==
    \A m, n \in DOMAIN journal :
        journal[m].ref = journal[n].ref /\ journal[m].ref # NoRef => m = n

\* The entry a call posted or was answered with is in the journal under the
\* key of that call, also when other calls won the race for the key and when
\* the call was stopped before it answered.
ReceiptIsPosted ==
    \A c \in Calls :
        /\ outcome[c] = "ok" => receipt[c] # NoEntry
        /\ receipt[c] # NoEntry => /\ receipt[c] \in DOMAIN journal
                                   /\ journal[receipt[c]].ref = RefOf(req[c])

\* A payment that succeeds has moved the amount that was asked for, never that
\* of another request with its key (ErrIdempotencyConflict).
ReceiptAmount ==
    \A c \in Calls :
        outcome[c] = "ok" /\ req[c].op \in Spending \cup {"cash_in"}
            => TotalDebit(receipt[c]) = req[c].amount

AccountsOf(type) == {a \in DOMAIN accounts : accounts[a].type = type}

\* The wallets together hold exactly what the pools owe, whatever is posted,
\* refused, raced or reversed, raw entries included (doc.go: the debits of
\* every entry equal its credits).
TrialBalance == SumOver(AccountsOf("asset"), GetBalance) = SumOver(AccountsOf("liability"), GetBalance)

\* Two requests that both find no wallet create one between them, so a user's
\* money is never split over accounts that GetAccountByUserID does not return.
OneAccountPerUser ==
    \A a, b \in DOMAIN accounts : accounts[a].owner = accounts[b].owner => a = b

\* The MoMo Settlement Pool owes exactly what mobile money has brought into the
\* wallets, of users and of businesses, and neither cash-outs nor settlements
\* have taken out again, reversals included: nothing else is booked on the pool,
\* and none of it on another one.
MobileMoneyReconciles ==
    LET intoWallets(n) == SumOver(AccountsOf("asset"), LAMBDA a : NetDebit(journal[n].postings, a))
        pooled == {n \in DOMAIN journal :
                      journal[n].kind \in {"momo_cash_in", "momo_cash_out", "merchant_settlement"}}
    IN  \A pool \in SystemRows(MoMoPool) : GetBalance(pool) = SumOver(pooled, intoWallets)

\* A reversal takes back what its original did to every account.
ReversalCancels ==
    \A n \in DOMAIN journal : journal[n].ref[1] = "reversal" =>
        LET original == journal[journal[n].ref[2]]
        IN  \A a \in DOMAIN accounts :
                NetDebit(journal[n].postings, a) = -NetDebit(original.postings, a)

\* Entries are never changed or removed: corrections are new entries (doc.go).
AppendOnly ==
    [][/\ Len(journal) <= Len(journal')
       /\ \A n \in DOMAIN journal : journal'[n] = journal[n]]_vars

\* A spend overdraws a wallet only if the balance it compared with the amount
\* was no longer the balance when it posted: the funds check itself is sound,
\* and what is missing is a lock between the two repository calls.
OverdraftNeedsStaleRead ==
    [][\A c \in Calls :
         (pc[c] = "post" /\ req[c].op \in Spending /\ journal' # journal /\ pc'[c] # "post"
            /\ GetBalance(own[c])' < 0 /\ GetBalance(own[c])' < GetBalance(own[c]))
         => seen[c] # GetBalance(own[c])]_vars

-----------------------------------------------------------------------------
(* The refinement: a call asks for a reference when it begins and decides on
   the entry in its receipt. *)

Book == INSTANCE IdempotentBook WITH
            Unnamed <- NoRef,
            Opening <- SeedJournal,
            book <- journal,
            asked <- [c \in Calls |-> IF pc[c] = "idle" THEN <<>> ELSE RefOf(req[c])],
            decided <- receipt,
            told <- outcome

\* Seen from its clients, the service with its separate look-ups, checks and
\* posts is a book with one entry per reference, written in a single step.
BookSpec == Book!BookSpec
=============================================================================
